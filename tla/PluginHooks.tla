---------------------------- MODULE PluginHooks ----------------------------
(***************************************************************************)
(* haraka/plugins.js: how run_hooks and run_next_hook call the functions   *)
(* that plugins registered for a hook, one after the other, for one SMTP   *)
(* connection, with the lists and the pointer to the running call kept on  *)
(* the connection object.                                                  *)
(*                                                                         *)
(* A plugin answers through a callback, at once or later, or is timed out, *)
(* which is answered as DENYSOFT.  A rejection runs the deny hook, which   *)
(* may override it.  The connection starts one hook after the other, and   *)
(* may be closed by its client at any time: then the running call is       *)
(* cancelled and the reset_transaction and disconnect hooks run.           *)
(*                                                                         *)
(* A call in a plugin's function is a record of what the closure of        *)
(* run_next_hook knows.  All the hooks of commands are one hook, "main".   *)
(***************************************************************************)
EXTENDS Naturals, Sequences

CONSTANTS
    Registered,    \* [Hooks -> Nat]: functions registered for each hook
    Answers,       \* [Hooks -> SUBSET Replies]: what its plugins answer
    TimesOut,      \* hooks whose plugins may be timed out
    Late,          \* TRUE when a plugin may call back again, after it called
                   \* back or was timed out
    MaxRuns        \* bound: hooks started

Hooks   == {"main", "deny", "reset_transaction", "disconnect"}
Replies == {"cont", "ok", "deny"}

VARIABLE object

----------------------------------------------------------------------------
(* A function that a plugin registered: the n-th for a hook.               *)
Function == [hook : Hooks, n : Nat \ {0}]

(* A closure of run_next_hook that called a function.                      *)
Call == [run       : Nat \ {0},   \* the run_hooks call it serves
         hook      : Hooks,       \* the hook it is called for
         item      : Function,
         armed     : BOOLEAN,     \* the timeout is running
         left      : 0..2,        \* times the plugin may still call back
         called    : BOOLEAN,     \* called_once
         cancelled : BOOLEAN]

Connection ==
    [hooks_to_run : Seq(Function),
     saved        : Seq(Function),         \* saved_hooks_to_run
     current_hook : Nat,                   \* index in calls, 0 for null
     deny_respond : [run : Nat, hook : Hooks],
     calls        : Seq(Call),
     runs         : Seq([hook : Hooks, answers : Nat]),
     state        : {"open", "disconnecting", "disconnected"},
     transaction  : {"null", "there", "resetting"},
     busy         : BOOLEAN,               \* a command's hook is not answered
     cb           : BOOLEAN,               \* disconnect() waits for the reset
     thrown       : BOOLEAN]               \* an exception left the hook unanswered

TypeOK == object \in Connection

----------------------------------------------------------------------------
(* The functions of plugins.js and the respond functions of connection.js, *)
(* from one state of the connection to the next.                           *)

(* object[respond_method](retval, msg, params): the connection goes on.    *)
(* reset_transaction's callback is in params.                              *)
respond(o, run, params) ==
    LET answered == [o EXCEPT !.runs[run].answers = @ + 1] IN
    CASE o.runs[run].hook = "main" -> [answered EXCEPT !.busy = FALSE]
      [] o.runs[run].hook = "reset_transaction" /\ params ->
           [answered EXCEPT !.transaction = "null", !.busy = FALSE]
      [] o.runs[run].hook = "reset_transaction" /\ ~params ->
           [answered EXCEPT !.transaction = "null", !.cb = FALSE]
      [] o.runs[run].hook = "disconnect" -> [answered EXCEPT !.state = "disconnected"]

(* The next function is shifted off the list and called.                   *)
call(o, hook, run) ==
    [o EXCEPT !.hooks_to_run = Tail(@),
              !.current_hook = Len(o.calls) + 1,
              !.calls = Append(@, [run |-> run, hook |-> hook, item |-> Head(o.hooks_to_run),
                                   armed |-> TRUE, left |-> IF Late THEN 2 ELSE 1, called |-> FALSE,
                                   cancelled |-> FALSE])]

(* object.deny_respond: the answer of the deny hook; params is left out.   *)
(* Made for a rejection by the deny hook itself, it calls itself.          *)
deny_respond_NoElse(o, retval) ==   \* mutant: no answer when no plugin is left
    LET run  == o.deny_respond.run
        hook == o.deny_respond.hook
    IN
    IF retval = "ok" /\ o.saved # <<>>
    THEN call([o EXCEPT !.hooks_to_run = o.saved], hook, run)
    ELSE IF hook = "deny" THEN [o EXCEPT !.thrown = TRUE]
    ELSE IF retval = "ok" THEN o
    ELSE respond([o EXCEPT !.saved = <<>>, !.hooks_to_run = <<>>], run, FALSE)

deny_respond(o, retval) ==
    LET run  == o.deny_respond.run
        hook == o.deny_respond.hook
    IN
    IF retval = "ok" /\ o.saved # <<>>
    THEN call([o EXCEPT !.hooks_to_run = o.saved], hook, run)
    ELSE IF hook = "deny" THEN [o EXCEPT !.thrown = TRUE]
    ELSE IF retval = "ok" THEN respond(o, run, FALSE)
    ELSE respond([o EXCEPT !.saved = <<>>, !.hooks_to_run = <<>>], run, FALSE)

(* No function is left, or one has decided.                                *)
decided_KeepsList(o, hook, run, retval) ==   \* mutant: hooks_to_run is not cleared
    IF hook = "deny" THEN deny_respond(o, retval) ELSE respond(o, run, TRUE)

decided(o, hook, run, retval) ==
    LET cleared == [o EXCEPT !.hooks_to_run = <<>>] IN
    IF hook = "deny" THEN deny_respond(cleared, retval) ELSE respond(cleared, run, TRUE)

run_next_hook(o, hook, run) ==
    IF o.hooks_to_run = <<>> THEN decided(o, hook, run, "cont") ELSE call(o, hook, run)

(* The list is made anew; resets and disconnects cancel the call that runs.*)
list(hook) == [n \in 1..Registered[hook] |-> [hook |-> hook, n |-> n]]

cancel_Nothing(o) == o   \* mutant: a disconnect cancels nothing

cancel(o) ==
    IF o.current_hook = 0 THEN o ELSE [o EXCEPT !.calls[o.current_hook].cancelled = TRUE]

run_list(o, hook, run) ==
    run_next_hook([o EXCEPT !.hooks_to_run = list(hook)], hook, run)

run_hooks(o, hook) ==
    IF hook = "main" /\ o.hooks_to_run # <<>>   \* "We are already running hooks!"
    THEN [o EXCEPT !.thrown = TRUE]
    ELSE
    run_list([(IF hook \in {"reset_transaction", "disconnect"} THEN cancel(o) ELSE o)
                EXCEPT !.runs = Append(@, [hook |-> hook, answers |-> 0])],
             hook, Len(o.runs) + 1)

(* run_hooks('deny'), on behalf of a call that rejects.                    *)
run_deny(o, c) ==
    run_list([o EXCEPT !.saved = o.hooks_to_run,
                       !.deny_respond = [run |-> c.run, hook |-> c.hook]],
             "deny", c.run)

(* The callback of the k-th call.                                          *)
callback(o, k, retval) ==
    LET c == o.calls[k]
        a == [o EXCEPT !.current_hook = 0, !.calls[k].armed = FALSE, !.calls[k].called = TRUE]
    IN
    IF c.cancelled \/ c.called THEN [a EXCEPT !.calls[k].called = c.called]
    ELSE IF retval = "deny" THEN run_deny(a, c)
    ELSE IF retval = "ok" THEN decided(a, c.hook, c.run, "ok")
    ELSE run_next_hook(a, c.hook, c.run)

(* reset_transaction's callback, when disconnect() waits for it.           *)
continue(o) ==
    IF o.cb /\ o.transaction = "null"
    THEN run_hooks([o EXCEPT !.cb = FALSE], "disconnect")
    ELSE o

reset_transaction(o) ==
    IF o.transaction = "there"
    THEN run_hooks([o EXCEPT !.transaction = "resetting"], "reset_transaction")
    ELSE [o EXCEPT !.transaction = "null"]

----------------------------------------------------------------------------
Init ==
    object = [hooks_to_run |-> <<>>, saved |-> <<>>, current_hook |-> 0,
              deny_respond |-> [run |-> 0, hook |-> "main"], calls |-> <<>>,
              runs |-> <<>>, state |-> "open", transaction |-> "null",
              busy |-> FALSE, cb |-> FALSE, thrown |-> FALSE]

Running == ~object.thrown

(* A command's hook; MAIL makes a transaction first.                       *)
command ==
    /\ Running /\ object.state = "open" /\ ~object.busy
    /\ Len(object.runs) < MaxRuns
    /\ \E transaction \in {object.transaction, "there"} :
         object' = run_hooks([object EXCEPT !.busy = TRUE, !.transaction = transaction], "main")

(* RSET, and the end of a message.                                         *)
reset ==
    /\ Running /\ object.state = "open" /\ ~object.busy
    /\ object.transaction = "there" /\ Len(object.runs) < MaxRuns
    /\ object' = reset_transaction([object EXCEPT !.busy = TRUE])

(* The client closes the connection: fail() and disconnect().              *)
fail ==
    /\ Running /\ object.state = "open"
    /\ object' = continue(reset_transaction(
                    [object EXCEPT !.hooks_to_run = <<>>, !.state = "disconnecting",
                                   !.cb = TRUE]))

(* A plugin calls back.                                                    *)
answer(k) ==
    /\ Running /\ k \in DOMAIN object.calls
    /\ object.calls[k].left > 0
    /\ object.calls[k].armed \/ Late
    /\ \E retval \in Answers[object.calls[k].hook] :
         object' = continue(callback([object EXCEPT !.calls[k].left = @ - 1], k, retval))

(* It took longer than plugin.timeout.                                     *)
timeout(k) ==
    /\ Running /\ k \in DOMAIN object.calls
    /\ object.calls[k].armed /\ object.calls[k].hook \in TimesOut
    /\ object' = continue(callback([object EXCEPT !.calls[k].left = IF Late THEN @ ELSE 0],
                                   k, "deny"))

Next ==
    \/ command
    \/ reset
    \/ fail
    \/ \E k \in DOMAIN object.calls : answer(k) \/ timeout(k)

Spec == Init /\ [][Next]_object

(* A plugin that is waited for answers, or is timed out.                   *)
Awaited == \E k \in DOMAIN object.calls : object.calls[k].armed /\ (answer(k) \/ timeout(k))

FairSpec == Spec /\ WF_object(Awaited)

----------------------------------------------------------------------------
(* Properties.                                                             *)

Live == {k \in DOMAIN object.calls :
           ~object.calls[k].called /\ ~object.calls[k].cancelled}

(* One function at a time works for a connection, current_hook points to   *)
(* it as long as a disconnect may have to cancel it, and no function is    *)
(* left over for the next hook, which would throw.                         *)
OneAtATime ==
    /\ ~object.thrown
    /\ \A j, k \in Live : j = k
    /\ object.state = "open" => Live \subseteq {object.current_hook}
    /\ Live = {} => object.hooks_to_run = <<>>

(* A function is called for the hook it was registered for, and the        *)
(* functions of a hook are called in their order, each once for a run.     *)
RightFunction ==
    \A j, k \in DOMAIN object.calls :
        LET c == object.calls[j]
            d == object.calls[k]
        IN
        /\ c.item.hook = c.hook
        /\ j < k /\ c.run = d.run /\ c.hook = d.hook /\ c.hook # "deny" => c.item.n < d.item.n

(* A hook is answered once at most, and the hook of a command only while   *)
(* the connection is open: what its plugin says later is ignored.          *)
AnswersInTime ==
    \A r \in DOMAIN object.runs :
        object'.runs[r].answers # object.runs[r].answers =>
            /\ object.runs[r].answers = 0
            /\ object.state = "open" \/ object.runs[r].hook # "main"

AnsweredInTime == [][AnswersInTime]_object

(* Every command is answered, or the connection is closed; and a closed    *)
(* connection's disconnect hook is run to its end.                         *)
Asked == object.busy
Replied == ~object.busy \/ object.state # "open"
Leaving == object.state = "disconnecting"
Left == object.state = "disconnected"

EventuallyAnswered ==
    /\ Asked ~> Replied
    /\ Leaving ~> Left

============================================================================
