---------------------------- MODULE Parts_proofs ----------------------------
(***************************************************************************)
(* Theorems about the parts, for any values of their constants that the    *)
(* assumptions named after each part allow.  Every part has its inductive  *)
(* invariant; at the end they are put together for Parts.                  *)
(***************************************************************************)
EXTENDS Verdicts_proofs, FiniteSetTheorems, SequenceTheorems, WellFoundedInduction, TLAPS

----------------------------------------------------------------------------
(***************************************************************************)
(* Plugin hooks (v1): plugins.js run_hooks and connection.js.              *)
(***************************************************************************)

(* The hypothesis: a plugin calls back once, and not after its timeout,    *)
(* and those of the deny hook neither reject nor are timed out (deny's own *)
(* answer would be sent to itself).                                        *)
Polite ==
    /\ hooks.Late = FALSE
    /\ "deny" \notin hooks.Answers["deny"] /\ "deny" \notin hooks.TimesOut

(* The functions that work.                                                *)
AtWork(o) == {k \in 1..Len(o.calls) : ~o.calls[k].called /\ ~o.calls[k].cancelled}

(* The functions of hook that are left: the last ones of its list.         *)
Rest(q, hook) ==
    /\ Len(q) <= hooks.Registered[hook]
    /\ \A n \in 1..Len(q) : q[n] = [hook |-> hook, n |-> hooks.Registered[hook] - Len(q) + n]

(* Those called for run came before.                                       *)
Passed(o, run, hook, q) ==
    \A k \in 1..Len(o.calls) :
        o.calls[k].run = run /\ o.calls[k].hook = hook =>
            o.calls[k].item.n <= hooks.Registered[hook] - Len(q)

CallsInTurn(o) ==
    /\ \A k \in 1..Len(o.calls) :
          /\ o.calls[k].run \in 1..Len(o.runs)
          /\ o.calls[k].item.hook = o.calls[k].hook
          /\ o.calls[k].armed => ~o.calls[k].called
    /\ \A j, k \in 1..Len(o.calls) :
          /\ j < k /\ o.calls[j].run = o.calls[k].run
          /\ o.calls[j].hook = o.calls[k].hook /\ o.calls[j].hook # "deny"
          => o.calls[j].item.n < o.calls[k].item.n

Sound(o) ==
    /\ o \in Hooks!Connection /\ ~o.thrown
    /\ \A r \in 1..Len(o.runs) : o.runs[r].hook # "deny"
    /\ CallsInTurn(o)
    /\ o.current_hook <= Len(o.calls)
    /\ o.cb => o.state = "disconnecting" /\ o.transaction # "there"
    /\ o.state = "open" => \A k \in 1..Len(o.calls) : ~o.calls[k].cancelled

(* Run r of hook h waits for an answer; q of its functions are left.       *)
Unanswered(o, r, h, q) ==
    /\ r \in 1..Len(o.runs) /\ o.runs[r].hook = h /\ o.runs[r].answers = 0
    /\ h # "deny" /\ Rest(q, h) /\ Passed(o, r, h, q)
    /\ o.state = "open" => o.busy /\ h # "disconnect"
    /\ o.state # "open" => h # "main"
    /\ h = "disconnect" => ~o.cb

Serves(o, run, hook, q) ==
    IF hook = "deny"
    THEN /\ o.deny_respond.run = run
         /\ Unanswered(o, run, o.deny_respond.hook, o.saved)
    ELSE Unanswered(o, run, hook, q)

(* No function works, and no call of one is to be cancelled.               *)
Free(o) == AtWork(o) = {} /\ (o.state = "open" => o.current_hook = 0)

Quiet(o) == Free(o) /\ o.hooks_to_run = <<>>

Works(o, k) ==
    /\ AtWork(o) = {k}
    /\ o.state = "open" => o.current_hook = k
    /\ Rest(o.hooks_to_run, o.calls[k].hook)
    /\ Serves(o, o.calls[k].run, o.calls[k].hook, o.hooks_to_run)

Turns(o) == Quiet(o) \/ \E k \in 1..Len(o.calls) : Works(o, k)

HooksInv(o) == Sound(o) /\ Turns(o) /\ (o.cb => o.transaction = "resetting")

(* What a function of plugins.js leaves: only run r has got an answer.     *)
Kept(o, p, r) ==
    /\ Len(o.runs) <= Len(p.runs)
    /\ \A q \in 1..Len(o.runs) : q # r => p.runs[q] = o.runs[q]

(* One hook's function returned: the next works, or none is left.          *)
Left(o, p, r) ==
    /\ Sound(p) /\ Turns(p) /\ Kept(o, p, r)
    /\ p.cb => o.cb
    /\ p.cb /\ p.transaction # "resetting" => Free(p)

LEMMA ConnIs ==
    ASSUME NEW o, o \in Hooks!Connection
    PROVE  /\ o.calls \in Seq(Hooks!Call) /\ Len(o.calls) \in Nat
           /\ o.hooks_to_run \in Seq(Hooks!Function) /\ o.saved \in Seq(Hooks!Function)
           /\ o.runs \in Seq([hook : Hooks!Hooks, answers : Nat]) /\ Len(o.runs) \in Nat
           /\ \A k \in 1..Len(o.calls) :
                 /\ o.calls[k] \in Hooks!Call
                 /\ o.calls[k].item.n \in Nat /\ o.calls[k].run \in Nat
                 /\ o.calls[k].hook \in Hooks!Hooks
  <1>1. /\ o.calls \in Seq(Hooks!Call) /\ Len(o.calls) \in Nat
        /\ o.hooks_to_run \in Seq(Hooks!Function) /\ o.saved \in Seq(Hooks!Function)
        /\ o.runs \in Seq([hook : Hooks!Hooks, answers : Nat]) /\ Len(o.runs) \in Nat
    BY DEF Hooks!Connection
  <1>2. ASSUME NEW k \in 1..Len(o.calls)
        PROVE  /\ o.calls[k] \in Hooks!Call
               /\ o.calls[k].item.n \in Nat /\ o.calls[k].run \in Nat
               /\ o.calls[k].hook \in Hooks!Hooks
    <2>1. o.calls[k] \in Hooks!Call
      BY ONLY <1>1, k \in 1..Len(o.calls), ElementOfSeq
    <2>2. /\ o.calls[k].item \in Hooks!Function /\ o.calls[k].run \in Nat
          /\ o.calls[k].hook \in Hooks!Hooks
      BY ONLY <2>1 DEF Hooks!Call
    <2>3. o.calls[k].item.n \in Nat
      BY ONLY <2>2 DEF Hooks!Function
    <2>. QED  BY ONLY <2>1, <2>2, <2>3
  <1>. QED  BY ONLY <1>1, <1>2

LEMMA call_Is ==
    ASSUME HooksAssumed,
           NEW o, NEW run, NEW hook \in Hooks!Hooks,
           Sound(o), AtWork(o) = {}, o.hooks_to_run # <<>>, Rest(o.hooks_to_run, hook),
           run \in 1..Len(o.runs),
           Serves(o, run, hook, o.hooks_to_run)
    PROVE  /\ Sound(Hooks!call(o, hook, run)) /\ Turns(Hooks!call(o, hook, run))
           /\ Hooks!call(o, hook, run).runs = o.runs
           /\ Hooks!call(o, hook, run).cb = o.cb
           /\ Hooks!call(o, hook, run).transaction = o.transaction
  <1> DEFINE new == [run |-> run, hook |-> hook, item |-> Head(o.hooks_to_run), armed |-> TRUE,
                     left |-> IF hooks.Late THEN 2 ELSE 1, called |-> FALSE, cancelled |-> FALSE]
             p == Hooks!call(o, hook, run)
             L == Len(o.calls)
  <1>0. /\ o \in Hooks!Connection
        /\ o.hooks_to_run \in Seq(Hooks!Function) /\ o.calls \in Seq(Hooks!Call)
        /\ L \in Nat /\ Len(o.hooks_to_run) \in Nat \ {0} /\ hooks.Registered[hook] \in Nat
        /\ o.runs \in Seq([hook : Hooks!Hooks, answers : Nat])
    BY DEF Sound, Hooks!Connection, HooksAssumed
  <1>1. /\ Head(o.hooks_to_run) = o.hooks_to_run[1] /\ o.hooks_to_run[1] \in Hooks!Function
        /\ Tail(o.hooks_to_run) \in Seq(Hooks!Function)
        /\ Len(Tail(o.hooks_to_run)) = Len(o.hooks_to_run) - 1
        /\ \A n \in 1..(Len(o.hooks_to_run) - 1) : Tail(o.hooks_to_run)[n] = o.hooks_to_run[n + 1]
    BY ONLY <1>0, HeadTailProperties
  <1>2. /\ new \in Hooks!Call
    BY <1>0, <1>1 DEF Hooks!Call
  <1>3. /\ p.hooks_to_run = Tail(o.hooks_to_run) /\ p.current_hook = L + 1
        /\ p.calls = Append(o.calls, new)
        /\ p \in Hooks!Connection
        /\ p.runs = o.runs /\ p.cb = o.cb /\ p.transaction = o.transaction /\ p.state = o.state
        /\ p.thrown = o.thrown /\ p.busy = o.busy /\ p.saved = o.saved /\ p.deny_respond = o.deny_respond
    <2>1. Append(o.calls, new) \in Seq(Hooks!Call)
      BY <1>0, <1>2
    <2> HIDE DEF new
    <2>2. p = [o EXCEPT !.hooks_to_run = Tail(@), !.current_hook = L + 1, !.calls = Append(@, new)]
      BY DEF Hooks!call, new
    <2> HIDE DEF p
    <2>3. o \in Hooks!Connection /\ Tail(o.hooks_to_run) \in Seq(Hooks!Function) /\ L + 1 \in Nat
      BY ONLY <1>0, <1>1
    <2> HIDE DEF L
    <2>. QED  BY ONLY <2>1, <2>2, <2>3 DEF Hooks!Connection
  <1>4. /\ Len(p.calls) = L + 1 /\ p.calls[L + 1] = new
        /\ \A k \in 1..L : p.calls[k] = o.calls[k]
    BY <1>0, <1>2, <1>3, AppendProperties
  <1>5. /\ new.item.hook = hook
        /\ new.item.n = hooks.Registered[hook] - Len(o.hooks_to_run) + 1
        /\ new.run = run /\ new.hook = hook /\ ~new.called /\ ~new.cancelled
    <2>1. o.hooks_to_run[1] = [hook |-> hook, n |-> hooks.Registered[hook] - Len(o.hooks_to_run) + 1]
      <3>1. 1 \in 1..Len(o.hooks_to_run)
        BY ONLY <1>0
      <3>. QED  BY ONLY <3>1, Rest(o.hooks_to_run, hook) DEF Rest
    <2>. QED  BY ONLY <1>1, <2>1
  <1> HIDE DEF new, p
  <1>6. AtWork(p) = {L + 1}
    <2>1. \A k \in 1..L : o.calls[k].called \/ o.calls[k].cancelled
      BY ONLY AtWork(o) = {} DEF AtWork
    <2>2. \A k \in 1..Len(p.calls) : ~p.calls[k].called /\ ~p.calls[k].cancelled => k = L + 1
      BY ONLY <1>4, <2>1, <1>0
    <2>3. ~p.calls[L + 1].called /\ ~p.calls[L + 1].cancelled /\ L + 1 \in 1..Len(p.calls)
      BY ONLY <1>0, <1>4, <1>5
    <2>. QED  BY ONLY <2>2, <2>3 DEF AtWork
  <1>7. \A n \in 1..Len(p.calls) : n = L + 1 \/ n \in 1..L
    BY <1>0, <1>4
  <1>8. CallsInTurn(p)
    <2>1. ASSUME NEW k \in 1..Len(p.calls)
          PROVE  /\ p.calls[k].run \in 1..Len(p.runs)
                 /\ p.calls[k].item.hook = p.calls[k].hook
                 /\ p.calls[k].armed => ~p.calls[k].called
      BY <1>3, <1>4, <1>5, <1>7 DEF Sound, CallsInTurn
    <2>2. ASSUME NEW j \in 1..Len(p.calls), NEW k \in 1..Len(p.calls),
                 j < k, p.calls[j].run = p.calls[k].run,
                 p.calls[j].hook = p.calls[k].hook, p.calls[j].hook # "deny"
          PROVE  p.calls[j].item.n < p.calls[k].item.n
      <3>1. CASE k \in 1..L
        <4>1. j \in 1..L
          BY ONLY <1>0, <1>4, <2>2, <3>1
        <4>2. CallsInTurn(o)
          BY DEF Sound
        <4>. QED  BY ONLY <1>4, <2>2, <3>1, <4>1, <4>2 DEF CallsInTurn
      <3>2. CASE k = L + 1
        <4>1. j \in 1..L
          BY <1>0, <2>2, <1>7, <3>2
        <4>2. o.calls[j].run = run /\ o.calls[j].hook = hook /\ hook # "deny"
          BY <1>4, <1>5, <2>2, <3>2, <4>1
        <4>3. o.calls[j].item.n <= hooks.Registered[hook] - Len(o.hooks_to_run)
          BY <4>1, <4>2 DEF Serves, Unanswered, Passed
        <4>4. o.calls[j].item.n \in Nat
          BY ONLY <1>0, <4>1, ConnIs
        <4>5. p.calls[j].item.n = o.calls[j].item.n
          BY ONLY <1>4, <4>1
        <4>6. p.calls[k].item.n = hooks.Registered[hook] - Len(o.hooks_to_run) + 1
          BY ONLY <1>4, <1>5, <3>2
        <4>. QED  BY ONLY <1>0, <4>3, <4>4, <4>5, <4>6
      <3>. QED  BY <1>7, <3>1, <3>2
    <2>. QED  BY <2>1, <2>2 DEF CallsInTurn
  <1>9. Sound(p)
    <2>1. p.state = "open" => \A k \in 1..Len(p.calls) : ~p.calls[k].cancelled
      BY <1>3, <1>4, <1>5, <1>7 DEF Sound
    <2>. QED  BY <1>0, <1>3, <1>4, <1>8, <2>1 DEF Sound
  <1>10. Rest(p.hooks_to_run, hook)
    <2>1. ASSUME NEW n \in 1..(Len(o.hooks_to_run) - 1)
          PROVE  Tail(o.hooks_to_run)[n] =
                    [hook |-> hook, n |-> hooks.Registered[hook] - (Len(o.hooks_to_run) - 1) + n]
      <3>1. n + 1 \in 1..Len(o.hooks_to_run)
        BY ONLY <1>0, n \in 1..(Len(o.hooks_to_run) - 1)
      <3>2. o.hooks_to_run[n + 1] =
              [hook |-> hook, n |-> hooks.Registered[hook] - Len(o.hooks_to_run) + (n + 1)]
        BY ONLY <3>1, Rest(o.hooks_to_run, hook) DEF Rest
      <3>3. hooks.Registered[hook] - Len(o.hooks_to_run) + (n + 1) =
              hooks.Registered[hook] - (Len(o.hooks_to_run) - 1) + n
        BY ONLY <1>0, <3>1
      <3>. QED  BY ONLY <1>1, <3>2, <3>3, n \in 1..(Len(o.hooks_to_run) - 1)
    <2>2. Len(o.hooks_to_run) - 1 <= hooks.Registered[hook]
      <3>1. Len(o.hooks_to_run) <= hooks.Registered[hook]
        BY ONLY Rest(o.hooks_to_run, hook) DEF Rest
      <3>. QED  BY ONLY <1>0, <3>1
    <2>. QED  BY ONLY <1>1, <1>3, <2>1, <2>2 DEF Rest
  <1>11. Works(p, L + 1)
    <2>1. CASE hook = "deny"
      <3>1. \A r, h, q : Passed(o, r, h, q) /\ h # "deny" => Passed(p, r, h, q)
        BY <1>4, <1>5, <1>7, <2>1 DEF Passed
      <3>2. Unanswered(p, run, p.deny_respond.hook, p.saved)
        BY <1>3, <2>1, <3>1 DEF Unanswered, Serves
      <3>. QED  BY <1>3, <1>4, <1>5, <1>6, <1>10, <2>1, <3>2 DEF Works, Serves
    <2>2. CASE hook # "deny"
      <3>1. Passed(p, run, hook, p.hooks_to_run)
        <4>1. ASSUME NEW k \in 1..Len(p.calls), p.calls[k].run = run, p.calls[k].hook = hook
              PROVE  p.calls[k].item.n <= hooks.Registered[hook] - (Len(o.hooks_to_run) - 1)
          <5>1. CASE k \in 1..L
            <6>1. o.calls[k].item.n <= hooks.Registered[hook] - Len(o.hooks_to_run)
              BY <1>4, <2>2, <4>1, <5>1 DEF Serves, Unanswered, Passed
            <6>2. o.calls[k].item.n \in Nat
              BY ONLY <1>0, <5>1, ConnIs
            <6>3. p.calls[k].item.n = o.calls[k].item.n
              BY ONLY <1>4, <5>1
            <6>. QED  BY ONLY <1>0, <6>1, <6>2, <6>3
          <5>2. CASE k = L + 1
            <6>1. p.calls[k].item.n = hooks.Registered[hook] - Len(o.hooks_to_run) + 1
              BY ONLY <1>4, <1>5, <5>2
            <6>. QED  BY ONLY <1>0, <6>1
          <5>. QED  BY <1>7, <5>1, <5>2
        <4>. QED  BY <1>1, <1>3, <4>1 DEF Passed
      <3>2. Unanswered(p, run, hook, p.hooks_to_run)
        <4>1. Unanswered(o, run, hook, o.hooks_to_run)
          BY <2>2 DEF Serves
        <4>. QED  BY ONLY <1>3, <1>10, <3>1, <4>1 DEF Unanswered
      <3>3. Serves(p, run, hook, p.hooks_to_run)
        BY ONLY <2>2, <3>2 DEF Serves
      <3>. QED  BY ONLY <1>3, <1>4, <1>5, <1>6, <1>10, <3>3 DEF Works
    <2>. QED  BY <2>1, <2>2
  <1>. QED
    <2>1. Turns(p)
      BY <1>0, <1>4, <1>11 DEF Turns
    <2>. QED  BY <1>3, <1>9, <2>1 DEF p

LEMMA SameCalls ==
    ASSUME NEW o, NEW p, CallsInTurn(o), Len(o.calls) \in Nat,
           Len(p.calls) = Len(o.calls),
           \A k \in 1..Len(o.calls) :
              /\ p.calls[k].run = o.calls[k].run /\ p.calls[k].hook = o.calls[k].hook
              /\ p.calls[k].item = o.calls[k].item
              /\ p.calls[k].armed => ~p.calls[k].called,
           Len(o.runs) \in Nat, Len(p.runs) \in Nat, Len(o.runs) <= Len(p.runs)
    PROVE  CallsInTurn(p)
  <1>1. ASSUME NEW k \in 1..Len(p.calls)
        PROVE  /\ p.calls[k].run \in 1..Len(p.runs)
               /\ p.calls[k].item.hook = p.calls[k].hook
               /\ p.calls[k].armed => ~p.calls[k].called
    <2>1. o.calls[k].run \in 1..Len(o.runs) /\ o.calls[k].item.hook = o.calls[k].hook
      BY DEF CallsInTurn
    <2>. QED  BY <2>1
  <1>2. ASSUME NEW j \in 1..Len(p.calls), NEW k \in 1..Len(p.calls),
               j < k, p.calls[j].run = p.calls[k].run,
               p.calls[j].hook = p.calls[k].hook, p.calls[j].hook # "deny"
        PROVE  p.calls[j].item.n < p.calls[k].item.n
    <2>1. o.calls[j].run = o.calls[k].run /\ o.calls[j].hook = o.calls[k].hook /\ o.calls[j].hook # "deny"
      BY <1>2
    <2>2. o.calls[j].item.n < o.calls[k].item.n
      BY <1>2, <2>1 DEF CallsInTurn
    <2>. QED  BY <2>2
  <1>. QED  BY <1>1, <1>2 DEF CallsInTurn

LEMMA respond_Is ==
    ASSUME HooksAssumed,
           NEW o, NEW run, NEW h, NEW q, NEW params \in BOOLEAN,
           Sound(o), Quiet(o), Unanswered(o, run, h, q)
    PROVE  /\ Sound(Hooks!respond(o, run, params)) /\ Quiet(Hooks!respond(o, run, params))
           /\ Kept(o, Hooks!respond(o, run, params), run)
           /\ Hooks!respond(o, run, params).cb => o.cb
  <1>1. PICK p : p = Hooks!respond(o, run, params)
    OBVIOUS
  <1>2. PICK a : a = [o EXCEPT !.runs[run].answers = @ + 1]
    OBVIOUS
  <1>3. o \in Hooks!Connection /\ run \in 1..Len(o.runs) /\ o.runs[run].hook = h /\ h # "deny"
        /\ o.runs[run].answers = 0 /\ (h = "disconnect" => ~o.cb)
    BY DEF Sound, Unanswered
  <1>4. o.runs \in Seq([hook : Hooks!Hooks, answers : Nat]) /\ Len(o.runs) \in Nat /\ Len(o.calls) \in Nat
    BY ONLY <1>3, ConnIs
  <1>5. h \in {"main", "reset_transaction", "disconnect"} /\ o.runs[run] \in [hook : Hooks!Hooks, answers : Nat]
    <2>1. o.runs[run] \in [hook : Hooks!Hooks, answers : Nat]
      BY ONLY <1>3, <1>4, ElementOfSeq
    <2>. QED  BY ONLY <1>3, <2>1 DEF Hooks!Hooks
  <1>6. PICK R : R = [o.runs EXCEPT ![run].answers = 1]
    OBVIOUS
  <1>7. /\ R \in Seq([hook : Hooks!Hooks, answers : Nat]) /\ Len(R) = Len(o.runs)
        /\ \A r \in 1..Len(o.runs) : R[r].hook = o.runs[r].hook
        /\ \A r \in 1..Len(o.runs) : r # run => R[r] = o.runs[r]
    <2>1. [o.runs[run] EXCEPT !.answers = 1] \in [hook : Hooks!Hooks, answers : Nat]
      BY ONLY <1>5
    <2>2. R = [o.runs EXCEPT ![run] = [o.runs[run] EXCEPT !.answers = 1]]
      BY ONLY <1>6
    <2>3. PICK x : x = [o.runs[run] EXCEPT !.answers = 1]
      OBVIOUS
    <2>4. x \in [hook : Hooks!Hooks, answers : Nat] /\ x.hook = o.runs[run].hook
      BY ONLY <2>1, <2>3, <1>5
    <2>5. R = [o.runs EXCEPT ![run] = x]
      BY ONLY <2>2, <2>3
    <2>6. R \in Seq([hook : Hooks!Hooks, answers : Nat]) /\ Len(R) = Len(o.runs)
          /\ R[run] = x /\ \A r \in 1..Len(o.runs) : r # run => R[r] = o.runs[r]
      BY ONLY <2>4, <2>5, <1>3, <1>4, ExceptSeq
    <2>. QED  BY ONLY <2>4, <2>6
  <1>8. a = [o EXCEPT !.runs = R]
    BY ONLY <1>2, <1>3, <1>4, <1>6 DEF Hooks!Connection
  <1>9. /\ p \in Hooks!Connection /\ p.runs = R /\ p.calls = o.calls
        /\ p.hooks_to_run = o.hooks_to_run /\ p.current_hook = o.current_hook
        /\ p.thrown = o.thrown /\ p.saved = o.saved /\ p.deny_respond = o.deny_respond
        /\ p.state # o.state => p.state = "disconnected" /\ h = "disconnect"
        /\ p.transaction \in {o.transaction, "null"}
        /\ p.cb => o.cb
    <2>1. /\ a \in Hooks!Connection /\ a.runs = R /\ a.calls = o.calls
          /\ a.hooks_to_run = o.hooks_to_run /\ a.current_hook = o.current_hook
          /\ a.thrown = o.thrown /\ a.saved = o.saved /\ a.deny_respond = o.deny_respond
          /\ a.state = o.state /\ a.transaction = o.transaction /\ a.cb = o.cb
      BY ONLY <1>3, <1>7, <1>8 DEF Hooks!Connection
    <2>2. p = CASE h = "main" -> [a EXCEPT !.busy = FALSE]
                [] h = "reset_transaction" /\ params ->
                     [a EXCEPT !.transaction = "null", !.busy = FALSE]
                [] h = "reset_transaction" /\ ~params ->
                     [a EXCEPT !.transaction = "null", !.cb = FALSE]
                [] h = "disconnect" -> [a EXCEPT !.state = "disconnected"]
      BY ONLY <1>1, <1>2, <1>3 DEF Hooks!respond
    <2>3. CASE h = "main"
      <3>1. p = [a EXCEPT !.busy = FALSE]
        BY ONLY <2>2, <2>3
      <3>. QED  BY ONLY <2>1, <3>1, <2>3 DEF Hooks!Connection
    <2>4. CASE h = "reset_transaction"
      <3>1. CASE params
        <4>1. p = [a EXCEPT !.transaction = "null", !.busy = FALSE]
          BY ONLY <2>2, <2>4, <3>1
        <4>. QED  BY ONLY <2>1, <4>1, <2>4 DEF Hooks!Connection
      <3>2. CASE ~params
        <4>1. p = [a EXCEPT !.transaction = "null", !.cb = FALSE]
          BY ONLY <2>2, <2>4, <3>2
        <4>. QED  BY ONLY <2>1, <4>1, <2>4 DEF Hooks!Connection
      <3>. QED  BY ONLY <3>1, <3>2
    <2>5. CASE h = "disconnect"
      <3>1. p = [a EXCEPT !.state = "disconnected"]
        BY ONLY <2>2, <2>5
      <3>. QED  BY ONLY <2>1, <3>1, <2>5 DEF Hooks!Connection
    <2>. QED  BY ONLY <1>5, <2>3, <2>4, <2>5
  <1>10. CallsInTurn(p)
    <2>1. CallsInTurn(o)
      BY DEF Sound
    <2>. QED  BY ONLY <2>1, <1>4, <1>7, <1>9 DEF CallsInTurn
  <1>11. Sound(p)
    <2>1. /\ ~o.thrown /\ \A r \in 1..Len(o.runs) : o.runs[r].hook # "deny"
          /\ o.current_hook <= Len(o.calls)
          /\ o.cb => o.state = "disconnecting" /\ o.transaction # "there"
          /\ o.state = "open" => \A k \in 1..Len(o.calls) : ~o.calls[k].cancelled
      BY DEF Sound
    <2>2. p.cb => p.state = "disconnecting" /\ p.transaction # "there"
      BY ONLY <2>1, <1>9, <1>3
    <2>3. p.state = "open" => o.state = "open"
      BY ONLY <1>9
    <2>. QED  BY ONLY <2>1, <2>2, <2>3, <1>7, <1>9, <1>10 DEF Sound
  <1>12. Quiet(p)
    BY ONLY <1>9, Quiet(o) DEF Quiet, Free, AtWork
  <1>13. Kept(o, p, run)
    BY ONLY <1>4, <1>7, <1>9 DEF Kept
  <1>. QED  BY ONLY <1>1, <1>9, <1>11, <1>12, <1>13

(* hooks_to_run and saved are set.                                         *)
WithLists(o, q, s) == [o EXCEPT !.hooks_to_run = q, !.saved = s]

LEMMA ListsSet ==
    ASSUME NEW o, Sound(o), NEW q \in Seq(Hooks!Function), NEW s \in Seq(Hooks!Function),
           NEW p, p = WithLists(o, q, s)
    PROVE  /\ Sound(p) /\ p.hooks_to_run = q /\ p.saved = s /\ p.runs = o.runs
           /\ p.calls = o.calls /\ p.deny_respond = o.deny_respond
           /\ p.state = o.state /\ p.current_hook = o.current_hook
           /\ p.cb = o.cb /\ p.transaction = o.transaction
           /\ Free(o) => Free(p)
           /\ \A r, h, l : Unanswered(o, r, h, l) => Unanswered(p, r, h, l)
  <1>1. o \in Hooks!Connection
    BY DEF Sound
  <1>2. /\ p \in Hooks!Connection /\ p.hooks_to_run = q /\ p.saved = s /\ p.runs = o.runs
        /\ p.calls = o.calls /\ p.deny_respond = o.deny_respond
        /\ p.state = o.state /\ p.current_hook = o.current_hook /\ p.busy = o.busy
        /\ p.cb = o.cb /\ p.transaction = o.transaction /\ p.thrown = o.thrown
    BY ONLY <1>1, p = WithLists(o, q, s),
            q \in Seq(Hooks!Function), s \in Seq(Hooks!Function) DEF Hooks!Connection, WithLists
  <1>3. Sound(p)
    BY ONLY <1>2, Sound(o) DEF Sound, CallsInTurn
  <1>4. Free(o) => Free(p)
    BY ONLY <1>2 DEF Free, AtWork
  <1>5. ASSUME NEW r, NEW h, NEW l, Unanswered(o, r, h, l)
        PROVE  Unanswered(p, r, h, l)
    BY ONLY <1>2, <1>5 DEF Unanswered, Passed
  <1>. QED  BY ONLY <1>2, <1>3, <1>4, <1>5

LEMMA SameRuns ==
    ASSUME NEW o, NEW p, NEW r, o \in Hooks!Connection, p.runs = o.runs
    PROVE  Kept(o, p, r)
  BY ConnIs DEF Kept

LEMMA KeptThrough ==
    ASSUME NEW o, NEW a, NEW p, NEW r, Kept(o, a, r), Kept(a, p, r),
           Len(o.runs) \in Nat, Len(a.runs) \in Nat, Len(p.runs) \in Nat
    PROVE  Kept(o, p, r)
  BY DEF Kept

(* The empty list.                                                         *)
None == <<>>

LEMMA NoneIs == None \in Seq(Hooks!Function)
  BY DEF None

LEMMA decided_Is ==
    ASSUME HooksAssumed,
           NEW o, NEW hook \in Hooks!Hooks, NEW run, NEW retval \in {"cont", "ok"}, NEW q,
           Sound(o), Free(o), Serves(o, run, hook, q), o.cb => o.transaction = "resetting"
    PROVE  Left(o, Hooks!decided(o, hook, run, retval), run)
  <1>1. PICK c : c = [o EXCEPT !.hooks_to_run = <<>>]
    OBVIOUS
  <1>0. o \in Hooks!Connection
    BY DEF Sound
  <1>2. /\ o.saved \in Seq(Hooks!Function)
        /\ c = WithLists(o, None, o.saved)
    <2>1. o.saved \in Seq(Hooks!Function)
      BY ONLY <1>0, ConnIs
    <2>2. c = WithLists(o, None, o.saved)
      BY ONLY <1>0, <1>1 DEF Hooks!Connection, WithLists, None
    <2>. QED  BY ONLY <2>1, <2>2
  <1>3. /\ Sound(c) /\ Quiet(c) /\ c.saved = o.saved /\ c.runs = o.runs
        /\ c.deny_respond = o.deny_respond /\ c.cb = o.cb /\ c.transaction = o.transaction
        /\ \A r, h, l : Unanswered(o, r, h, l) => Unanswered(c, r, h, l)
        /\ Kept(o, c, run)
    <2>1. /\ Sound(c) /\ c.hooks_to_run = None /\ c.saved = o.saved /\ c.runs = o.runs
          /\ c.deny_respond = o.deny_respond /\ c.cb = o.cb /\ c.transaction = o.transaction
          /\ Free(o) => Free(c)
          /\ \A r, h, l : Unanswered(o, r, h, l) => Unanswered(c, r, h, l)
      BY ONLY <1>2, NoneIs, Sound(o), ListsSet
    <2>2. Kept(o, c, run)
      BY ONLY <1>0, <2>1, SameRuns
    <2>. QED  BY ONLY <2>1, <2>2, Free(o) DEF Quiet, None
  <1>4. \A p : Kept(c, p, run) /\ p \in Hooks!Connection => Kept(o, p, run)
    BY ONLY <1>3, <1>0 DEF Kept
  <1>5. ASSUME NEW h, NEW l, NEW params \in BOOLEAN, Unanswered(c, run, h, l)
        PROVE  Left(o, Hooks!respond(c, run, params), run)
    <2>1. PICK p : p = Hooks!respond(c, run, params)
      OBVIOUS
    <2>2. Sound(p) /\ Quiet(p) /\ Kept(c, p, run) /\ (p.cb => o.cb)
      BY ONLY <1>3, <1>5, <2>1, HooksAssumed, respond_Is
    <2>3. Kept(o, p, run)
      BY ONLY <2>2, <1>4 DEF Sound
    <2>4. Free(p) /\ Turns(p)
      BY ONLY <2>2 DEF Turns, Quiet
    <2>. QED  BY ONLY <2>1, <2>2, <2>3, <2>4 DEF Left
  <1>6. CASE hook # "deny"
    <2>1. Unanswered(c, run, hook, q)
      BY <1>3, <1>6 DEF Serves
    <2>2. Left(o, Hooks!respond(c, run, TRUE), run)
      BY ONLY <1>5, <2>1
    <2>. QED  BY ONLY <1>1, <1>6, <2>2 DEF Hooks!decided
  <1>7. CASE hook = "deny"
    <2>1. /\ c.deny_respond.run = run /\ Unanswered(c, run, c.deny_respond.hook, c.saved)
      BY <1>3, <1>7 DEF Serves
    <2>2. PICK h : h = c.deny_respond.hook
      OBVIOUS
    <2>3. Unanswered(c, run, h, c.saved) /\ h # "deny"
      BY ONLY <2>1, <2>2 DEF Unanswered
    <2>4. PICK p : p = Hooks!deny_respond(c, retval)
      OBVIOUS
    <2>5. p = IF retval = "ok" /\ c.saved # <<>>
              THEN Hooks!call([c EXCEPT !.hooks_to_run = c.saved], h, run)
              ELSE IF retval = "ok" THEN Hooks!respond(c, run, FALSE)
              ELSE Hooks!respond([c EXCEPT !.saved = <<>>, !.hooks_to_run = <<>>], run, FALSE)
      BY ONLY <2>1, <2>2, <2>3, <2>4 DEF Hooks!deny_respond
    <2>6. CASE retval = "ok" /\ c.saved # <<>>
      <3>1. PICK d : d = [c EXCEPT !.hooks_to_run = c.saved]
        OBVIOUS
      <3>2. c.saved \in Seq(Hooks!Function) /\ d = WithLists(c, c.saved, c.saved)
            /\ c \in Hooks!Connection
        BY ONLY <1>2, <1>3, <3>1 DEF Hooks!Connection, Sound, WithLists
      <3>3. /\ Sound(d) /\ d.hooks_to_run = c.saved /\ d.saved = c.saved /\ d.runs = c.runs
            /\ d.cb = c.cb /\ d.transaction = c.transaction /\ AtWork(d) = {}
            /\ Unanswered(d, run, h, c.saved)
        <4>1. Free(c) /\ Sound(c)
          BY ONLY <1>3 DEF Quiet
        <4>2. /\ Sound(d) /\ d.hooks_to_run = c.saved /\ d.saved = c.saved /\ d.runs = c.runs
              /\ d.cb = c.cb /\ d.transaction = c.transaction
              /\ Free(c) => Free(d)
              /\ \A r, k, l : Unanswered(c, r, k, l) => Unanswered(d, r, k, l)
          BY ONLY <3>2, <4>1, ListsSet
        <4>. QED  BY ONLY <4>1, <4>2, <2>3 DEF Free
      <3>4. Serves(d, run, h, d.hooks_to_run) /\ Rest(d.hooks_to_run, h) /\ run \in 1..Len(d.runs)
        BY ONLY <3>3, <2>3 DEF Serves, Unanswered
      <3>5. h \in Hooks!Hooks
        BY ONLY <3>2, <2>2 DEF Hooks!Connection
      <3>6. PICK e : e = Hooks!call(d, h, run)
        OBVIOUS
      <3>7. /\ Sound(e) /\ Turns(e) /\ e.runs = d.runs /\ e.cb = d.cb /\ e.transaction = d.transaction
        BY ONLY HooksAssumed, <2>6, <3>3, <3>4, <3>5, <3>6, call_Is
      <3>8. Kept(o, e, run)
        BY ONLY <1>0, <1>3, <3>3, <3>7, ConnIs DEF Kept
      <3>9. e.cb => e.transaction = "resetting"
        BY ONLY <1>3, <3>3, <3>7, o.cb => o.transaction = "resetting"
      <3>. QED  BY ONLY <1>1, <1>7, <2>4, <2>5, <2>6, <1>3, <3>1, <3>3, <3>6, <3>7, <3>8, <3>9 DEF Left, Hooks!decided
    <2>7. CASE retval = "ok" /\ c.saved = <<>>
      <3>1. Left(o, Hooks!respond(c, run, FALSE), run)
        BY ONLY <1>5, <2>3
      <3>. QED  BY ONLY <1>1, <1>7, <2>4, <2>5, <2>7, <3>1 DEF Hooks!decided
    <2>8. CASE retval = "cont"
      <3>1. PICK d : d = WithLists(c, None, None)
        OBVIOUS
      <3>2. d = [c EXCEPT !.saved = <<>>, !.hooks_to_run = <<>>]
        BY ONLY <3>1, <1>3 DEF Sound, Hooks!Connection, WithLists, None
      <3>3. /\ Sound(d) /\ Quiet(d) /\ Unanswered(d, run, h, c.saved) /\ Kept(c, d, run)
            /\ d.cb = c.cb
        <4>1. Free(c) /\ Sound(c)
          BY ONLY <1>3 DEF Quiet
        <4>2. /\ Sound(d) /\ d.hooks_to_run = None
              /\ Free(c) => Free(d)
              /\ \A r, k, l : Unanswered(c, r, k, l) => Unanswered(d, r, k, l)
              /\ d.runs = c.runs /\ d.cb = c.cb
          BY ONLY NoneIs, <3>1, <4>1, ListsSet
        <4>3. Kept(c, d, run)
          BY ONLY <4>1, <4>2, SameRuns DEF Sound
        <4>. QED  BY ONLY <4>1, <4>2, <4>3, <2>3 DEF Quiet, None
      <3>4. PICK e : e = Hooks!respond(d, run, FALSE)
        OBVIOUS
      <3>5. Sound(e) /\ Quiet(e) /\ Kept(d, e, run) /\ (e.cb => d.cb)
        BY ONLY <3>3, <3>4, HooksAssumed, respond_Is
      <3>6. Kept(o, e, run)
        BY ONLY <3>3, <3>5, <1>4, ConnIs, <1>3, KeptThrough DEF Sound
      <3>7. Free(e) /\ Turns(e)
        BY ONLY <3>5 DEF Turns, Quiet
      <3>. QED  BY ONLY <1>1, <1>7, <2>4, <2>5, <2>8, <1>3, <3>2, <3>3, <3>4, <3>5, <3>6, <3>7 DEF Left, Hooks!decided
    <2>. QED  BY <2>6, <2>7, <2>8
  <1>. QED  BY ONLY <1>6, <1>7

LEMMA run_next_hook_Is ==
    ASSUME HooksAssumed,
           NEW o, NEW hook \in Hooks!Hooks, NEW run,
           Sound(o), Free(o), Rest(o.hooks_to_run, hook), Serves(o, run, hook, o.hooks_to_run),
           o.cb => o.transaction = "resetting"
    PROVE  Left(o, Hooks!run_next_hook(o, hook, run), run)
  <1>1. CASE o.hooks_to_run = <<>>
    <2>1. Left(o, Hooks!decided(o, hook, run, "cont"), run)
      BY decided_Is
    <2>. QED  BY ONLY <1>1, <2>1 DEF Hooks!run_next_hook
  <1>2. CASE o.hooks_to_run # <<>>
    <2>1. PICK p : p = Hooks!call(o, hook, run)
      OBVIOUS
    <2>2. run \in 1..Len(o.runs)
      BY DEF Serves, Unanswered
    <2>3. AtWork(o) = {}
      BY DEF Free
    <2>4. /\ Sound(p) /\ Turns(p) /\ p.runs = o.runs /\ p.cb = o.cb /\ p.transaction = o.transaction
      BY <1>2, <2>1, <2>2, <2>3, call_Is
    <2>5. Kept(o, p, run)
      BY ONLY <2>4, SameRuns, Sound(o) DEF Sound
    <2>6. Left(o, p, run)
      BY ONLY <2>4, <2>5, o.cb => o.transaction = "resetting" DEF Left
    <2>. QED  BY ONLY <1>2, <2>1, <2>6 DEF Hooks!run_next_hook
  <1>. QED  BY ONLY <1>1, <1>2

LEMMA list_Is ==
    ASSUME HooksAssumed, NEW hook \in Hooks!Hooks
    PROVE  /\ Hooks!list(hook) \in Seq(Hooks!Function)
           /\ Len(Hooks!list(hook)) = hooks.Registered[hook]
           /\ Rest(Hooks!list(hook), hook)
           /\ hooks.Registered[hook] \in Nat
  <1>1. hooks.Registered[hook] \in Nat
    BY DEF HooksAssumed
  <1>2. PICK R \in Nat : R = hooks.Registered[hook]
    BY <1>1
  <1>3. PICK q : q = [n \in 1..R |-> [hook |-> hook, n |-> n]]
    OBVIOUS
  <1>4. \A n \in 1..R : [hook |-> hook, n |-> n] \in Hooks!Function
    BY ONLY <1>2, hook \in Hooks!Hooks DEF Hooks!Function
  <1>5. q \in Seq(Hooks!Function) /\ Len(q) = R
    BY ONLY <1>2, <1>3, <1>4
  <1>6. ASSUME NEW n \in 1..Len(q)
        PROVE  q[n] = [hook |-> hook, n |-> hooks.Registered[hook] - Len(q) + n]
    <2>1. hooks.Registered[hook] - Len(q) + n = n
      BY ONLY <1>2, <1>5, n \in 1..Len(q)
    <2>2. q[n] = [hook |-> hook, n |-> n]
      BY ONLY <1>2, <1>3, <1>5, n \in 1..Len(q)
    <2>. QED  BY ONLY <2>1, <2>2
  <1>7. q = Hooks!list(hook)
    BY ONLY <1>2, <1>3 DEF Hooks!list
  <1>8. Rest(q, hook)
    <2>1. Len(q) <= hooks.Registered[hook]
      BY ONLY <1>2, <1>5
    <2>. QED  BY ONLY <2>1, <1>6 DEF Rest
  <1>. QED  BY ONLY <1>2, <1>5, <1>7, <1>8

(* A run_hooks that is not for deny: the run is the last one.              *)
LEMMA run_list_Is ==
    ASSUME HooksAssumed,
           NEW o, NEW hook \in Hooks!Hooks \ {"deny"},
           NEW run, run = Len(o.runs),
           Sound(o), Free(o), run \in 1..Len(o.runs),
           o.runs[run] = [hook |-> hook, answers |-> 0],
           \A k \in 1..Len(o.calls) : o.calls[k].run < run,
           o.state = "open" => o.busy /\ hook # "disconnect",
           o.state # "open" => hook # "main",
           hook = "disconnect" => ~o.cb,
           o.cb => o.transaction = "resetting"
    PROVE  Left(o, Hooks!run_list(o, hook, run), run)
  <1>0. o \in Hooks!Connection /\ Len(o.runs) \in Nat
    BY ConnIs DEF Sound
  <1>1. PICK q : q = Hooks!list(hook)
    OBVIOUS
  <1>2. q \in Seq(Hooks!Function) /\ Rest(q, hook) /\ Len(q) = hooks.Registered[hook]
    BY ONLY <1>1, list_Is, HooksAssumed, hook \in Hooks!Hooks \ {"deny"}
  <1>3. PICK c : c = WithLists(o, q, o.saved)
    OBVIOUS
  <1>4. c = [o EXCEPT !.hooks_to_run = q]
    BY ONLY <1>0, <1>3 DEF WithLists, Hooks!Connection
  <1>5. o.saved \in Seq(Hooks!Function)
    BY ONLY <1>0, ConnIs
  <1>6. Unanswered(o, run, hook, q)
    <2>1. Passed(o, run, hook, q)
      <3>1. ASSUME NEW k \in 1..Len(o.calls) PROVE o.calls[k].run # run
        <4>1. o.calls[k].run \in Nat /\ o.calls[k].run < run
          BY ONLY <1>0, ConnIs, k \in 1..Len(o.calls), \A i \in 1..Len(o.calls) : o.calls[i].run < run
        <4>. QED  BY ONLY <4>1, <1>0, run = Len(o.runs)
      <3>. QED  BY ONLY <3>1 DEF Passed
    <2>. QED  BY <1>2, <2>1 DEF Unanswered
  <1>7. /\ Sound(c) /\ c.hooks_to_run = q /\ c.runs = o.runs
        /\ c.cb = o.cb /\ c.transaction = o.transaction
        /\ Free(o) => Free(c)
        /\ \A r, h, l : Unanswered(o, r, h, l) => Unanswered(c, r, h, l)
    BY ONLY <1>2, <1>3, <1>5, Sound(o), ListsSet
  <1>8. PICK p : p = Hooks!run_next_hook(c, hook, run)
    OBVIOUS
  <1>9. Serves(c, run, hook, c.hooks_to_run)
    BY ONLY <1>6, <1>7, hook \in Hooks!Hooks \ {"deny"} DEF Serves
  <1>10. Left(c, p, run)
    BY <1>2, <1>7, <1>8, <1>9, run_next_hook_Is
  <1>11. Kept(o, p, run)
    BY ONLY <1>7, <1>10 DEF Left, Kept
  <1>12. Left(o, p, run)
    BY ONLY <1>7, <1>10, <1>11 DEF Left
  <1>. QED  BY ONLY <1>1, <1>4, <1>8, <1>12 DEF Hooks!run_list

(* One call is changed, and the pointer to the running one.                *)
WithCall(o, k, c, n) == [o EXCEPT !.calls = [@ EXCEPT ![k] = c], !.current_hook = n]

LEMMA CallSet ==
    ASSUME NEW o, Sound(o), NEW k \in 1..Len(o.calls), NEW c \in Hooks!Call, NEW n \in Nat,
           n <= Len(o.calls),
           c.run = o.calls[k].run, c.hook = o.calls[k].hook, c.item = o.calls[k].item,
           c.armed => ~c.called, o.state = "open" => ~c.cancelled,
           NEW p, p = WithCall(o, k, c, n)
    PROVE  /\ Sound(p) /\ p.current_hook = n /\ Len(p.calls) = Len(o.calls)
           /\ p.calls[k] = c /\ \A j \in 1..Len(o.calls) : j # k => p.calls[j] = o.calls[j]
           /\ p.hooks_to_run = o.hooks_to_run /\ p.saved = o.saved /\ p.runs = o.runs
           /\ p.deny_respond = o.deny_respond /\ p.state = o.state /\ p.busy = o.busy
           /\ p.cb = o.cb /\ p.transaction = o.transaction /\ p.thrown = o.thrown
           /\ \A r, h, l : Unanswered(o, r, h, l) => Unanswered(p, r, h, l)
  <1>1. o \in Hooks!Connection
    BY DEF Sound
  <1>2. o.calls \in Seq(Hooks!Call) /\ Len(o.calls) \in Nat /\ Len(o.runs) \in Nat
    BY ONLY <1>1, ConnIs
  <1>3. PICK C : C = [o.calls EXCEPT ![k] = c]
    OBVIOUS
  <1>4. C \in Seq(Hooks!Call) /\ Len(C) = Len(o.calls)
        /\ C[k] = c /\ \A j \in 1..Len(o.calls) : j # k => C[j] = o.calls[j]
    BY ONLY <1>2, <1>3, k \in 1..Len(o.calls), c \in Hooks!Call, ExceptSeq
  <1>5. /\ p \in Hooks!Connection /\ p.current_hook = n /\ p.calls = C
        /\ p.hooks_to_run = o.hooks_to_run /\ p.saved = o.saved /\ p.runs = o.runs
        /\ p.deny_respond = o.deny_respond /\ p.state = o.state /\ p.busy = o.busy
        /\ p.cb = o.cb /\ p.transaction = o.transaction /\ p.thrown = o.thrown
    <2>1. p = [o EXCEPT !.calls = C, !.current_hook = n]
      BY ONLY <1>3, p = WithCall(o, k, c, n) DEF WithCall
    <2>. QED  BY ONLY <1>1, <1>4, <2>1, n \in Nat DEF Hooks!Connection
  <1>6. \A j \in 1..Len(o.calls) :
              /\ p.calls[j].run = o.calls[j].run /\ p.calls[j].hook = o.calls[j].hook
              /\ p.calls[j].item = o.calls[j].item
              /\ p.calls[j].armed => ~p.calls[j].called
    <2>1. ASSUME NEW j \in 1..Len(o.calls)
          PROVE  /\ p.calls[j].run = o.calls[j].run /\ p.calls[j].hook = o.calls[j].hook
                 /\ p.calls[j].item = o.calls[j].item
                 /\ p.calls[j].armed => ~p.calls[j].called
      <3>1. CASE j = k
        BY ONLY <1>4, <1>5, <3>1, c.run = o.calls[k].run, c.hook = o.calls[k].hook,
                c.item = o.calls[k].item, c.armed => ~c.called
      <3>2. CASE j # k
        <4>1. p.calls[j] = o.calls[j]
          BY ONLY <1>4, <1>5, <3>2, j \in 1..Len(o.calls)
        <4>2. o.calls[j].armed => ~o.calls[j].called
          BY Sound(o) DEF Sound, CallsInTurn
        <4>. QED  BY ONLY <4>1, <4>2
      <3>. QED  BY ONLY <3>1, <3>2
    <2>. QED  BY ONLY <2>1
  <1>7. CallsInTurn(p)
    <2>1. CallsInTurn(o)
      BY DEF Sound
    <2>. QED  BY ONLY <1>2, <1>4, <1>5, <1>6, <2>1, SameCalls
  <1>8. Sound(p)
    <2>1. /\ ~o.thrown /\ \A r \in 1..Len(o.runs) : o.runs[r].hook # "deny"
          /\ o.cb => o.state = "disconnecting" /\ o.transaction # "there"
          /\ o.state = "open" => \A j \in 1..Len(o.calls) : ~o.calls[j].cancelled
      BY DEF Sound
    <2>2. p.state = "open" => \A j \in 1..Len(p.calls) : ~p.calls[j].cancelled
      BY ONLY <1>4, <1>5, <2>1, o.state = "open" => ~c.cancelled
    <2>. QED  BY ONLY <1>4, <1>5, <1>7, <2>1, <2>2, n <= Len(o.calls) DEF Sound
  <1>9. ASSUME NEW r, NEW h, NEW l, Unanswered(o, r, h, l)
        PROVE  Unanswered(p, r, h, l)
    <2>1. Passed(o, r, h, l)
      BY <1>9 DEF Unanswered
    <2>2. Passed(p, r, h, l)
      BY ONLY <1>4, <1>5, <1>6, <2>1 DEF Passed
    <2>. QED  BY ONLY <1>5, <1>9, <2>2 DEF Unanswered
  <1>. QED  BY ONLY <1>4, <1>5, <1>8, <1>9

LEMMA cancel_Is ==
    ASSUME NEW o, Sound(o), AtWork(o) \subseteq {o.current_hook}, o.state = "open" => o.current_hook = 0,
           NEW p, p = Hooks!cancel(o)
    PROVE  /\ Sound(p) /\ Free(p)
           /\ p.hooks_to_run = o.hooks_to_run /\ p.runs = o.runs
           /\ p.state = o.state /\ p.busy = o.busy
           /\ p.cb = o.cb /\ p.transaction = o.transaction
  <1>1. CASE o.current_hook = 0
    <2>1. p = o
      BY <1>1 DEF Hooks!cancel
    <2>2. AtWork(o) = {}
      BY <1>1 DEF AtWork
    <2>. QED  BY <1>1, <2>1, <2>2 DEF Free
  <1>2. CASE o.current_hook # 0
    <2>1. PICK k : k = o.current_hook
      OBVIOUS
    <2>0. o \in Hooks!Connection
      BY DEF Sound
    <2>2. k \in 1..Len(o.calls) /\ o.calls[k] \in Hooks!Call /\ Len(o.calls) \in Nat
          /\ o.calls \in Seq(Hooks!Call)
      <3>1. k \in Nat /\ k # 0 /\ k <= Len(o.calls)
        BY ONLY <1>2, <2>1, Sound(o) DEF Sound, Hooks!Connection
      <3>. QED  BY ONLY <2>0, <3>1, ConnIs
    <2>3. PICK c : c = [o.calls[k] EXCEPT !.cancelled = TRUE]
      OBVIOUS
    <2>4. /\ c \in Hooks!Call /\ c.run = o.calls[k].run /\ c.hook = o.calls[k].hook
          /\ c.item = o.calls[k].item /\ c.armed = o.calls[k].armed /\ c.called = o.calls[k].called
          /\ c.cancelled
      BY ONLY <2>2, <2>3 DEF Hooks!Call
    <2>5. c.armed => ~c.called
      BY ONLY <2>2, <2>4, Sound(o) DEF Sound, CallsInTurn
    <2>6. p = WithCall(o, k, c, k)
      <3>1. p = [o EXCEPT !.calls[k].cancelled = TRUE]
        BY ONLY <1>2, <2>1, p = Hooks!cancel(o) DEF Hooks!cancel
      <3>2. [o.calls EXCEPT ![k].cancelled = TRUE] = [o.calls EXCEPT ![k] = c]
        BY ONLY <2>2, <2>3
      <3>3. p = [o EXCEPT !.calls = [o.calls EXCEPT ![k] = c]]
        BY ONLY <2>0, <3>1, <3>2 DEF Hooks!Connection
      <3>4. PICK C : C = [o.calls EXCEPT ![k] = c]
        OBVIOUS
      <3>5. p = [o EXCEPT !.calls = C]
        BY ONLY <3>3, <3>4
      <3>6. WithCall(o, k, c, k) = [o EXCEPT !.calls = C, !.current_hook = k]
        BY ONLY <3>4 DEF WithCall
      <3>. QED  BY ONLY <2>0, <2>1, <3>5, <3>6 DEF Hooks!Connection
    <2>7. o.state # "open"
      BY <1>2
    <2>8. /\ Sound(p) /\ p.current_hook = k /\ Len(p.calls) = Len(o.calls)
          /\ p.calls[k] = c /\ \A j \in 1..Len(o.calls) : j # k => p.calls[j] = o.calls[j]
          /\ p.hooks_to_run = o.hooks_to_run /\ p.runs = o.runs
          /\ p.state = o.state /\ p.busy = o.busy
          /\ p.cb = o.cb /\ p.transaction = o.transaction
      <3>1. k \in Nat /\ k <= Len(o.calls)
        BY ONLY <2>2
      <3>. QED  BY ONLY Sound(o), <2>2, <2>4, <2>5, <2>6, <2>7, <3>1, CallSet
    <2>9. AtWork(p) = {}
      <3>1. ASSUME NEW j \in 1..Len(p.calls), ~p.calls[j].called, ~p.calls[j].cancelled
            PROVE  FALSE
        <4>1. j # k
          BY ONLY <2>4, <2>8, <3>1
        <4>2. j \in AtWork(o)
          BY ONLY <2>8, <3>1, <4>1 DEF AtWork
        <4>. QED  BY ONLY <2>1, <4>1, <4>2, AtWork(o) \subseteq {o.current_hook}
      <3>. QED  BY ONLY <3>1 DEF AtWork
    <2>. QED  BY ONLY <2>7, <2>8, <2>9 DEF Free
  <1>. QED  BY ONLY <1>1, <1>2

WithRun(o, hook) == [o EXCEPT !.runs = Append(@, [hook |-> hook, answers |-> 0])]

LEMMA run_hooks_Is ==
    ASSUME HooksAssumed,
           NEW o, NEW hook \in Hooks!Hooks \ {"deny"},
           Sound(o), AtWork(o) \subseteq {o.current_hook},
           hook = "main" => o.hooks_to_run = <<>> /\ Free(o),
           o.state = "open" => o.current_hook = 0 /\ o.busy /\ hook # "disconnect",
           o.state # "open" => hook # "main",
           hook = "disconnect" => ~o.cb,
           o.cb => o.transaction = "resetting"
    PROVE  Left(o, Hooks!run_hooks(o, hook), 0)
  <1>1. PICK a : a = IF hook \in {"reset_transaction", "disconnect"} THEN Hooks!cancel(o) ELSE o
    OBVIOUS
  <1>2. /\ Sound(a) /\ Free(a) /\ a.runs = o.runs
        /\ a.state = o.state /\ a.busy = o.busy
        /\ a.cb = o.cb /\ a.transaction = o.transaction
    <2>1. CASE hook = "main"
      BY ONLY <1>1, <2>1, Sound(o), hook = "main" => o.hooks_to_run = <<>> /\ Free(o)
    <2>2. CASE hook # "main"
      <3>1. a = Hooks!cancel(o)
        BY ONLY <1>1, <2>2, hook \in Hooks!Hooks \ {"deny"} DEF Hooks!Hooks
      <3>. QED  BY ONLY <3>1, Sound(o), AtWork(o) \subseteq {o.current_hook},
                       o.state = "open" => o.current_hook = 0 /\ o.busy /\ hook # "disconnect", cancel_Is
    <2>. QED  BY ONLY <2>1, <2>2
  <1>3. a \in Hooks!Connection /\ a.runs \in Seq([hook : Hooks!Hooks, answers : Nat]) /\ Len(a.runs) \in Nat
        /\ Len(a.calls) \in Nat
    BY ONLY <1>2, ConnIs DEF Sound
  <1>4. PICK b : b = WithRun(a, hook)
    OBVIOUS
  <1>5. PICK run : run = Len(a.runs) + 1
    OBVIOUS
  <1>6. PICK R : R = Append(a.runs, [hook |-> hook, answers |-> 0])
    OBVIOUS
  <1>7. /\ R \in Seq([hook : Hooks!Hooks, answers : Nat]) /\ Len(R) = run
        /\ R[run] = [hook |-> hook, answers |-> 0]
        /\ \A r \in 1..Len(a.runs) : R[r] = a.runs[r]
    <2>1. PICK x : x = [hook |-> hook, answers |-> 0]
      OBVIOUS
    <2>2. x \in [hook : Hooks!Hooks, answers : Nat]
      BY ONLY <2>1, hook \in Hooks!Hooks \ {"deny"}
    <2>3. R = Append(a.runs, x)
      BY ONLY <1>6, <2>1
    <2>. QED  BY ONLY <1>3, <1>5, <2>1, <2>2, <2>3, AppendProperties
  <1>8. /\ b \in Hooks!Connection /\ b.runs = R /\ b.calls = a.calls /\ b.current_hook = a.current_hook
        /\ b.hooks_to_run = a.hooks_to_run /\ b.thrown = a.thrown
        /\ b.state = a.state /\ b.busy = a.busy /\ b.cb = a.cb /\ b.transaction = a.transaction
    <2>1. b = [a EXCEPT !.runs = R]
      BY ONLY <1>3, <1>4, <1>6 DEF WithRun, Hooks!Connection
    <2>. QED  BY ONLY <1>3, <1>7, <2>1 DEF Hooks!Connection
  <1>9. CallsInTurn(b)
    <2>1. CallsInTurn(a)
      BY <1>2 DEF Sound
    <2>2. Len(b.runs) = Len(a.runs) + 1
      BY ONLY <1>5, <1>7, <1>8
    <2>3. \A k \in 1..Len(a.calls) :
              /\ b.calls[k].run = a.calls[k].run /\ b.calls[k].hook = a.calls[k].hook
              /\ b.calls[k].item = a.calls[k].item
              /\ b.calls[k].armed => ~b.calls[k].called
      BY ONLY <1>8, <2>1 DEF CallsInTurn
    <2>. QED  BY ONLY <1>3, <1>8, <2>1, <2>2, <2>3, SameCalls
  <1>10. Sound(b)
    <2>1. \A r \in 1..Len(R) : R[r].hook # "deny"
      <3>1. ASSUME NEW r \in 1..Len(R) PROVE R[r].hook # "deny"
        <4>1. CASE r = run
          BY ONLY <1>7, <4>1, hook \in Hooks!Hooks \ {"deny"}
        <4>2. CASE r # run
          <5>1. r \in 1..Len(a.runs)
            BY ONLY <1>3, <1>5, <1>7, <4>2, r \in 1..Len(R)
          <5>. QED  BY ONLY <1>2, <1>7, <5>1 DEF Sound
        <4>. QED  BY ONLY <4>1, <4>2
      <3>. QED  BY ONLY <3>1
    <2>. QED  BY ONLY <1>2, <1>8, <1>9, <2>1 DEF Sound
  <1>11. Free(b)
    BY ONLY <1>2, <1>8 DEF Free, AtWork
  <1>12. \A k \in 1..Len(b.calls) : b.calls[k].run < run
    <2>1. \A k \in 1..Len(a.calls) : a.calls[k].run \in 1..Len(a.runs)
      BY ONLY <1>2 DEF Sound, CallsInTurn
    <2>. QED  BY ONLY <1>3, <1>5, <1>8, <2>1
  <1>13. PICK p : p = Hooks!run_list(b, hook, run)
    OBVIOUS
  <1>14. Left(b, p, run)
    <2>1. b.runs[run] = [hook |-> hook, answers |-> 0] /\ run \in 1..Len(b.runs) /\ run = Len(b.runs)
      BY ONLY <1>3, <1>5, <1>7, <1>8
    <2>2. /\ b.state = "open" => b.busy /\ hook # "disconnect"
          /\ b.state # "open" => hook # "main"
          /\ hook = "disconnect" => ~b.cb
          /\ b.cb => b.transaction = "resetting"
      BY <1>2, <1>8
    <2>. QED  BY ONLY HooksAssumed, hook \in Hooks!Hooks \ {"deny"}, <1>10, <1>11, <1>12, <1>13, <2>1, <2>2, run_list_Is
  <1>15. Kept(o, p, 0)
    <2>1. Kept(b, p, run) /\ p \in Hooks!Connection
      BY ONLY <1>14 DEF Left, Sound
    <2>2. Len(p.runs) \in Nat
      BY ONLY <2>1, ConnIs
    <2>3. Len(o.runs) <= Len(p.runs)
      BY ONLY <1>2, <1>3, <1>5, <1>7, <1>8, <2>1, <2>2 DEF Kept
    <2>4. ASSUME NEW r \in 1..Len(o.runs) PROVE p.runs[r] = o.runs[r]
      <3>1. r \in 1..Len(b.runs) /\ r # run
        BY ONLY <1>2, <1>3, <1>5, <1>7, <1>8, r \in 1..Len(o.runs)
      <3>. QED  BY ONLY <1>2, <1>7, <1>8, <2>1, <3>1, r \in 1..Len(o.runs) DEF Kept
    <2>. QED  BY ONLY <2>3, <2>4 DEF Kept
  <1>16. p = Hooks!run_hooks(o, hook)
    <2>1. b = [a EXCEPT !.runs = Append(@, [hook |-> hook, answers |-> 0])]
      BY ONLY <1>4 DEF WithRun
    <2>2. run = Len(o.runs) + 1
      BY ONLY <1>2, <1>5
    <2>3. ~(hook = "main" /\ o.hooks_to_run # <<>>)
      OBVIOUS
    <2>. QED  BY ONLY <1>1, <1>13, <2>1, <2>2, <2>3 DEF Hooks!run_hooks
  <1>. QED  BY ONLY <1>2, <1>8, <1>14, <1>15, <1>16 DEF Left

LEMMA run_deny_Is ==
    ASSUME HooksAssumed,
           NEW o, NEW c, c.hook \in Hooks!Hooks,
           Sound(o), Free(o), Unanswered(o, c.run, c.hook, o.hooks_to_run),
           o.cb => o.transaction = "resetting"
    PROVE  Left(o, Hooks!run_deny(o, c), c.run)
  <1>1. PICK run : run = c.run
    OBVIOUS
  <1>2. PICK hook \in Hooks!Hooks : hook = c.hook
    OBVIOUS
  <1>3. o \in Hooks!Connection /\ Len(o.runs) \in Nat /\ o.hooks_to_run \in Seq(Hooks!Function)
    BY ConnIs DEF Sound
  <1>4. Unanswered(o, run, hook, o.hooks_to_run) /\ run \in 1..Len(o.runs)
    BY ONLY <1>1, <1>2, Unanswered(o, c.run, c.hook, o.hooks_to_run) DEF Unanswered
  <1>5. PICK q : q = Hooks!list("deny")
    OBVIOUS
  <1>6. q \in Seq(Hooks!Function) /\ Rest(q, "deny")
    <2>1. "deny" \in Hooks!Hooks
      BY DEF Hooks!Hooks
    <2>. QED  BY ONLY HooksAssumed, <1>5, <2>1, list_Is
  <1>7. PICK d : d = [o EXCEPT !.deny_respond = [run |-> run, hook |-> hook]]
    OBVIOUS
  <1>8. /\ d \in Hooks!Connection /\ d.deny_respond.run = run /\ d.deny_respond.hook = hook
        /\ d.hooks_to_run = o.hooks_to_run /\ d.saved = o.saved /\ d.runs = o.runs
        /\ d.calls = o.calls /\ d.current_hook = o.current_hook
        /\ d.state = o.state /\ d.busy = o.busy
        /\ d.cb = o.cb /\ d.transaction = o.transaction /\ d.thrown = o.thrown
    <2>1. PICK x : x = [run |-> run, hook |-> hook]
      OBVIOUS
    <2>2. x \in [run : Nat, hook : Hooks!Hooks] /\ x.run = run /\ x.hook = hook
      BY ONLY <1>2, <1>3, <1>4, <2>1
    <2>3. d = [o EXCEPT !.deny_respond = x]
      BY ONLY <1>7, <2>1
    <2>. QED  BY ONLY <1>3, <2>2, <2>3 DEF Hooks!Connection
  <1>9. Sound(d) /\ Free(d) /\ Unanswered(d, run, hook, o.hooks_to_run)
    <2>1. Sound(d)
      BY ONLY <1>8, Sound(o) DEF Sound, CallsInTurn
    <2>2. Free(d)
      BY ONLY <1>8, Free(o) DEF Free, AtWork
    <2>3. Unanswered(d, run, hook, o.hooks_to_run)
      BY ONLY <1>4, <1>8 DEF Unanswered, Passed
    <2>. QED  BY ONLY <2>1, <2>2, <2>3
  <1>10. PICK b : b = WithLists(d, q, o.hooks_to_run)
    OBVIOUS
  <1>11. /\ Sound(b) /\ b.hooks_to_run = q /\ b.saved = o.hooks_to_run /\ b.runs = d.runs
         /\ b.deny_respond = d.deny_respond
         /\ b.cb = d.cb /\ b.transaction = d.transaction
         /\ Free(d) => Free(b)
         /\ \A r, h, l : Unanswered(d, r, h, l) => Unanswered(b, r, h, l)
    BY ONLY <1>3, <1>6, <1>9, <1>10, ListsSet
  <1>12. PICK p : p = Hooks!run_next_hook(b, "deny", run)
    OBVIOUS
  <1>13. Left(b, p, run)
    <2>1. Unanswered(b, run, hook, o.hooks_to_run)
      BY ONLY <1>9, <1>11
    <2>2. Serves(b, run, "deny", b.hooks_to_run)
      BY ONLY <1>8, <1>11, <2>1 DEF Serves
    <2>3. "deny" \in Hooks!Hooks /\ (b.cb => b.transaction = "resetting")
      BY ONLY <1>8, <1>11, o.cb => o.transaction = "resetting" DEF Hooks!Hooks
    <2>. QED  BY ONLY HooksAssumed, <1>6, <1>9, <1>11, <1>12, <2>2, <2>3, run_next_hook_Is
  <1>14. Left(o, p, run)
    BY ONLY <1>8, <1>11, <1>13 DEF Left, Kept
  <1>15. p = Hooks!run_deny(o, c)
    <2>1. b = [[o EXCEPT !.saved = o.hooks_to_run,
                       !.deny_respond = [run |-> run, hook |-> hook]] EXCEPT !.hooks_to_run = q]
      BY ONLY <1>3, <1>7, <1>10 DEF WithLists, Hooks!Connection
    <2>2. Hooks!run_deny(o, c) =
             Hooks!run_list([o EXCEPT !.saved = o.hooks_to_run,
                                      !.deny_respond = [run |-> run, hook |-> hook]], "deny", run)
      BY ONLY <1>1, <1>2 DEF Hooks!run_deny
    <2>. QED  BY ONLY <1>5, <1>12, <2>1, <2>2 DEF Hooks!run_list
  <1>. QED  BY ONLY <1>1, <1>14, <1>15

(* Only a run without an answer is answered, and in time.                  *)
InTime(o, p) ==
    /\ Len(o.runs) <= Len(p.runs)
    /\ \A r \in 1..Len(o.runs) :
          \/ p.runs[r] = o.runs[r]
          \/ o.runs[r].answers = 0 /\ (o.state = "open" \/ o.runs[r].hook # "main")

LEMMA KeptInTime ==
    ASSUME NEW o, NEW p, NEW r, o \in Hooks!Connection, Kept(o, p, r),
           r \in 1..Len(o.runs) =>
              o.runs[r].answers = 0 /\ (o.state = "open" \/ o.runs[r].hook # "main")
    PROVE  InTime(o, p)
  BY DEF Kept, InTime

(* The record of a call that has answered.                                 *)
LEMMA callback_Is ==
    ASSUME HooksAssumed, Polite,
           NEW o, HooksInv(o), NEW k \in 1..Len(o.calls), o.calls[k].armed,
           NEW left \in 0..2, NEW retval \in Hooks!Replies,
           o.calls[k].hook = "deny" => retval # "deny"
    PROVE  LET p == Hooks!callback([o EXCEPT !.calls[k].left = left], k, retval)
           IN  /\ Sound(p) /\ Turns(p) /\ InTime(o, p)
               /\ p.cb /\ p.transaction # "resetting" => Free(p)
  <1>0. o \in Hooks!Connection /\ Sound(o) /\ Turns(o) /\ (o.cb => o.transaction = "resetting")
    BY DEF HooksInv, Sound
  <1>1. /\ o.calls \in Seq(Hooks!Call) /\ Len(o.calls) \in Nat /\ o.calls[k] \in Hooks!Call
        /\ o.calls[k].hook \in Hooks!Hooks /\ o.calls[k].run \in Nat
    BY ONLY <1>0, k \in 1..Len(o.calls), ConnIs
  <1>2. PICK m : m = [o EXCEPT !.calls[k].left = left]
    OBVIOUS
  <1>3. PICK c : c = m.calls[k]
    OBVIOUS
  <1>4. PICK C : C = [o.calls EXCEPT ![k] = [o.calls[k] EXCEPT !.left = left]]
    OBVIOUS
  <1>5. m = [o EXCEPT !.calls = C] /\ m.calls = C /\ c = [o.calls[k] EXCEPT !.left = left]
    <2>1. m = [o EXCEPT !.calls = C]
      BY ONLY <1>0, <1>1, <1>2, <1>4 DEF Hooks!Connection
    <2>2. m.calls = C
      BY ONLY <1>0, <2>1 DEF Hooks!Connection
    <2>3. C[k] = [o.calls[k] EXCEPT !.left = left]
      BY ONLY <1>1, <1>4, k \in 1..Len(o.calls)
    <2>. QED  BY ONLY <1>3, <2>1, <2>2, <2>3
  <1>6. /\ c.run = o.calls[k].run /\ c.hook = o.calls[k].hook /\ c.item = o.calls[k].item
        /\ c.cancelled = o.calls[k].cancelled /\ c.called = o.calls[k].called
        /\ c.armed = o.calls[k].armed /\ c.left = left /\ c \in Hooks!Call
    BY ONLY <1>1, <1>5, left \in 0..2 DEF Hooks!Call
  <1>7. o.calls[k].called = FALSE
    BY ONLY <1>0, <1>1, o.calls[k].armed, k \in 1..Len(o.calls) DEF Sound, CallsInTurn, Hooks!Call
  <1>8. PICK a : a = [m EXCEPT !.current_hook = 0, !.calls[k].armed = FALSE, !.calls[k].called = TRUE]
    OBVIOUS
  <1>9. PICK p : p = Hooks!callback(m, k, retval)
    OBVIOUS
  <1>10. p = IF c.cancelled \/ c.called THEN [a EXCEPT !.calls[k].called = c.called]
             ELSE IF retval = "deny" THEN Hooks!run_deny(a, c)
             ELSE IF retval = "ok" THEN Hooks!decided(a, c.hook, c.run, "ok")
             ELSE Hooks!run_next_hook(a, c.hook, c.run)
    BY ONLY <1>3, <1>8, <1>9 DEF Hooks!callback
  <1>11. PICK x : x = [c EXCEPT !.armed = FALSE, !.called = TRUE]
    OBVIOUS
  <1>12. /\ x \in Hooks!Call /\ x.run = o.calls[k].run /\ x.hook = o.calls[k].hook
         /\ x.item = o.calls[k].item /\ x.armed = FALSE /\ x.called = TRUE
         /\ x.cancelled = o.calls[k].cancelled
    BY ONLY <1>6, <1>11 DEF Hooks!Call
  <1>13. a = WithCall(o, k, x, 0)
    <2>1. PICK D : D = [o.calls EXCEPT ![k] = x]
      OBVIOUS
    <2>2. PICK E : E = [C EXCEPT ![k].armed = FALSE]
      OBVIOUS
    <2>3. [E EXCEPT ![k].called = TRUE] = D
      <3>1. E = [C EXCEPT ![k] = [c EXCEPT !.armed = FALSE]] /\ E[k] = [c EXCEPT !.armed = FALSE]
        BY ONLY <1>1, <1>3, <1>4, <1>5, <2>2, k \in 1..Len(o.calls)
      <3>2. x = [E[k] EXCEPT !.called = TRUE]
        BY ONLY <1>6, <1>11, <3>1 DEF Hooks!Call
      <3>3. [E EXCEPT ![k].called = TRUE] = [E EXCEPT ![k] = x]
        BY ONLY <3>2
      <3>. QED  BY ONLY <1>1, <1>4, <2>1, <3>1, <3>3, k \in 1..Len(o.calls)
    <2>4. a = [[m EXCEPT !.current_hook = 0] EXCEPT !.calls = D]
      <3>1. PICK n : n = [m EXCEPT !.current_hook = 0]
        OBVIOUS
      <3>2. n.calls = C /\ n = [n EXCEPT !.calls = C]
        BY ONLY <1>0, <1>5, <3>1 DEF Hooks!Connection
      <3>3. PICK g : g = [n EXCEPT !.calls[k].armed = FALSE]
        OBVIOUS
      <3>4. g = [n EXCEPT !.calls = E]
        BY ONLY <2>2, <3>2, <3>3
      <3>5. g.calls = E
        BY ONLY <3>2, <3>4, <1>0, <1>5, <3>1 DEF Hooks!Connection
      <3>6. a = [g EXCEPT !.calls[k].called = TRUE]
        BY ONLY <1>8, <3>1, <3>3
      <3>7. a = [g EXCEPT !.calls = D]
        BY ONLY <2>3, <3>5, <3>6
      <3>8. [[n EXCEPT !.calls = E] EXCEPT !.calls = D] = [n EXCEPT !.calls = D]
        BY ONLY <1>0, <1>5, <3>1 DEF Hooks!Connection
      <3>. QED  BY ONLY <3>1, <3>4, <3>7, <3>8
    <2>5. WithCall(o, k, x, 0) = [o EXCEPT !.calls = D, !.current_hook = 0]
      BY ONLY <2>1 DEF WithCall
    <2>. QED  BY ONLY <1>0, <1>5, <2>4, <2>5 DEF Hooks!Connection
  <1>14. CASE o.calls[k].cancelled
    <2>1. PICK y : y = [x EXCEPT !.called = FALSE]
      OBVIOUS
    <2>2. /\ y \in Hooks!Call /\ y.run = o.calls[k].run /\ y.hook = o.calls[k].hook
          /\ y.item = o.calls[k].item /\ y.armed = FALSE /\ y.called = FALSE
          /\ y.cancelled = TRUE
      BY ONLY <1>12, <1>14, <1>1, <2>1 DEF Hooks!Call
    <2>3. p = WithCall(o, k, y, 0)
      <3>1. p = [a EXCEPT !.calls[k].called = FALSE]
        BY ONLY <1>6, <1>7, <1>10, <1>14
      <3>2. PICK D : D = [o.calls EXCEPT ![k] = x]
        OBVIOUS
      <3>3. PICK F : F = [o.calls EXCEPT ![k] = y]
        OBVIOUS
      <3>4. a = [o EXCEPT !.calls = D, !.current_hook = 0]
        BY ONLY <1>13, <3>2 DEF WithCall
      <3>5. [D EXCEPT ![k].called = FALSE] = F
        BY ONLY <1>1, <2>1, <3>2, <3>3, k \in 1..Len(o.calls)
      <3>6. p = [a EXCEPT !.calls = F]
        BY ONLY <1>0, <3>1, <3>4, <3>5 DEF Hooks!Connection
      <3>. QED  BY ONLY <1>0, <3>3, <3>4, <3>6 DEF WithCall, Hooks!Connection
    <2>4. o.state # "open"
      BY ONLY <1>0, <1>14, k \in 1..Len(o.calls) DEF Sound
    <2>5. /\ Sound(p) /\ p.current_hook = 0 /\ Len(p.calls) = Len(o.calls)
          /\ p.calls[k] = y /\ \A j \in 1..Len(o.calls) : j # k => p.calls[j] = o.calls[j]
          /\ p.hooks_to_run = o.hooks_to_run /\ p.saved = o.saved /\ p.runs = o.runs
          /\ p.deny_respond = o.deny_respond /\ p.state = o.state
          /\ p.cb = o.cb /\ p.transaction = o.transaction
          /\ \A r, h, l : Unanswered(o, r, h, l) => Unanswered(p, r, h, l)
      <3>1. 0 \in Nat /\ 0 <= Len(o.calls)
        BY ONLY <1>1
      <3>. QED  BY ONLY <1>0, <2>2, <2>3, <2>4, <3>1, k \in 1..Len(o.calls), CallSet
    <2>6. AtWork(p) = AtWork(o)
      <3>1. ASSUME NEW j \in 1..Len(o.calls)
            PROVE  ~p.calls[j].called /\ ~p.calls[j].cancelled <=> ~o.calls[j].called /\ ~o.calls[j].cancelled
        BY ONLY <1>14, <2>2, <2>5, j \in 1..Len(o.calls)
      <3>. QED  BY ONLY <2>5, <3>1 DEF AtWork
    <2>7. Turns(p)
      <3>1. CASE Quiet(o)
        BY ONLY <2>4, <2>5, <2>6, <3>1 DEF Turns, Quiet, Free
      <3>2. ASSUME NEW j \in 1..Len(o.calls), Works(o, j)
            PROVE  Turns(p)
        <4>1. j # k
          BY ONLY <1>14, <3>2 DEF Works, AtWork
        <4>2. p.calls[j] = o.calls[j]
          BY ONLY <2>5, <4>1, j \in 1..Len(o.calls)
        <4>3. Serves(o, o.calls[j].run, o.calls[j].hook, o.hooks_to_run)
          BY ONLY <3>2 DEF Works
        <4>4. Serves(p, p.calls[j].run, p.calls[j].hook, p.hooks_to_run)
          BY ONLY <2>5, <4>2, <4>3 DEF Serves
        <4>5. Works(p, j)
          BY ONLY <2>4, <2>5, <2>6, <3>2, <4>2, <4>4 DEF Works
        <4>. QED  BY ONLY <2>5, <4>5, j \in 1..Len(o.calls) DEF Turns
      <3>. QED  BY ONLY <1>0, <3>1, <3>2 DEF Turns
    <2>8. InTime(o, p)
      BY ONLY <1>0, <2>5, ConnIs DEF InTime
    <2>. QED  BY ONLY <1>0, <1>2, <1>9, <2>5, <2>7, <2>8
  <1>15. CASE ~o.calls[k].cancelled
    <2>1. k \in AtWork(o)
      BY ONLY <1>7, <1>15, k \in 1..Len(o.calls) DEF AtWork
    <2>2. Works(o, k)
      BY ONLY <1>0, <2>1 DEF Turns, Quiet, Free, Works
    <2>3. /\ Sound(a) /\ a.current_hook = 0 /\ Len(a.calls) = Len(o.calls)
          /\ a.calls[k] = x /\ \A j \in 1..Len(o.calls) : j # k => a.calls[j] = o.calls[j]
          /\ a.hooks_to_run = o.hooks_to_run /\ a.saved = o.saved /\ a.runs = o.runs
          /\ a.deny_respond = o.deny_respond /\ a.state = o.state
          /\ a.cb = o.cb /\ a.transaction = o.transaction
          /\ \A r, h, l : Unanswered(o, r, h, l) => Unanswered(a, r, h, l)
      <3>1. 0 \in Nat /\ 0 <= Len(o.calls) /\ (x.armed => ~x.called) /\ (o.state = "open" => ~x.cancelled)
        BY ONLY <1>1, <1>12, <1>15
      <3>. QED  BY ONLY <1>0, <1>12, <1>13, <3>1, k \in 1..Len(o.calls), CallSet
    <2>4. Free(a)
      <3>1. ASSUME NEW j \in 1..Len(a.calls), ~a.calls[j].called, ~a.calls[j].cancelled
            PROVE  FALSE
        <4>1. j # k
          BY ONLY <1>12, <2>3, <3>1
        <4>2. j \in AtWork(o)
          BY ONLY <2>3, <3>1, <4>1 DEF AtWork
        <4>. QED  BY ONLY <2>2, <4>1, <4>2 DEF Works
      <3>. QED  BY ONLY <2>3, <3>1 DEF Free, AtWork
    <2>5. /\ Rest(a.hooks_to_run, c.hook) /\ Serves(o, c.run, c.hook, o.hooks_to_run)
      BY ONLY <1>6, <2>2, <2>3 DEF Works
    <2>6. Serves(a, c.run, c.hook, a.hooks_to_run)
      BY ONLY <2>3, <2>5 DEF Serves
    <2>7. c.hook \in Hooks!Hooks /\ (a.cb => a.transaction = "resetting")
      BY ONLY <1>0, <1>1, <1>6, <2>3
    <2>8. Left(a, p, c.run)
      <3>1. CASE retval = "deny"
        <4>1. c.hook # "deny"
          BY ONLY <1>6, <3>1, o.calls[k].hook = "deny" => retval # "deny"
        <4>2. Unanswered(a, c.run, c.hook, a.hooks_to_run)
          BY ONLY <2>6, <4>1 DEF Serves
        <4>3. Left(a, Hooks!run_deny(a, c), c.run)
          BY ONLY HooksAssumed, <2>3, <2>4, <2>7, <4>2, run_deny_Is
        <4>. QED  BY ONLY <1>6, <1>7, <1>10, <1>15, <3>1, <4>3
      <3>2. CASE retval = "ok"
        <4>1. Left(a, Hooks!decided(a, c.hook, c.run, "ok"), c.run)
          BY ONLY HooksAssumed, <2>3, <2>4, <2>6, <2>7, decided_Is
        <4>. QED  BY ONLY <1>6, <1>7, <1>10, <1>15, <3>2, <4>1
      <3>3. CASE retval = "cont"
        <4>1. Left(a, Hooks!run_next_hook(a, c.hook, c.run), c.run)
          BY ONLY HooksAssumed, <2>3, <2>4, <2>5, <2>6, <2>7, run_next_hook_Is
        <4>. QED  BY ONLY <1>6, <1>7, <1>10, <1>15, <3>3, <4>1
      <3>. QED  BY ONLY retval \in Hooks!Replies, <3>1, <3>2, <3>3 DEF Hooks!Replies
    <2>9. Unanswered(o, c.run, c.hook, o.hooks_to_run)
          \/ Unanswered(o, c.run, o.deny_respond.hook, o.saved)
      BY ONLY <2>5 DEF Serves
    <2>10. /\ c.run \in 1..Len(o.runs) /\ o.runs[c.run].answers = 0
           /\ o.state = "open" \/ o.runs[c.run].hook # "main"
      BY ONLY <2>9 DEF Unanswered
    <2>11. Kept(o, p, c.run)
      BY ONLY <2>3, <2>8 DEF Left, Kept
    <2>12. InTime(o, p)
      BY ONLY <1>0, <2>10, <2>11, KeptInTime
    <2>. QED  BY ONLY <1>2, <1>9, <2>8, <2>12 DEF Left
  <1>. QED  BY ONLY <1>14, <1>15

LEMMA continue_Is ==
    ASSUME HooksAssumed,
           NEW o, Sound(o),
           o.cb /\ o.transaction # "resetting" => AtWork(o) \subseteq {o.current_hook},
           ~(o.cb /\ o.transaction # "resetting") => Turns(o)
    PROVE  /\ HooksInv(Hooks!continue(o)) /\ Kept(o, Hooks!continue(o), 0)
  <1>0. o \in Hooks!Connection
    BY DEF Sound
  <1>1. CASE ~(o.cb /\ o.transaction = "null")
    <2>1. ~(o.cb /\ o.transaction # "resetting")
      BY ONLY <1>0, <1>1, Sound(o) DEF Sound, Hooks!Connection
    <2>2. Hooks!continue(o) = o
      BY ONLY <1>1 DEF Hooks!continue
    <2>3. Kept(o, o, 0)
      BY ONLY <1>0, SameRuns
    <2>. QED  BY <2>1, <2>2, <2>3 DEF HooksInv
  <1>2. CASE o.cb /\ o.transaction = "null"
    <2>1. PICK b : b = [o EXCEPT !.cb = FALSE]
      OBVIOUS
    <2>2. /\ b \in Hooks!Connection /\ b.cb = FALSE /\ b.runs = o.runs /\ b.calls = o.calls
          /\ b.current_hook = o.current_hook /\ b.state = o.state /\ b.thrown = o.thrown
      BY ONLY <1>0, <2>1 DEF Hooks!Connection
    <2>3. o.state = "disconnecting"
      BY ONLY <1>2, Sound(o) DEF Sound
    <2>4. Sound(b)
      BY ONLY <2>2, <2>3, Sound(o) DEF Sound, CallsInTurn
    <2>5. AtWork(b) \subseteq {b.current_hook}
      BY ONLY <1>2, <2>2, o.cb /\ o.transaction # "resetting" => AtWork(o) \subseteq {o.current_hook} DEF AtWork
    <2>6. Left(b, Hooks!run_hooks(b, "disconnect"), 0)
      <3>1. "disconnect" \in Hooks!Hooks \ {"deny"}
        BY DEF Hooks!Hooks
      <3>. QED  BY ONLY HooksAssumed, <2>2, <2>3, <2>4, <2>5, <3>1, run_hooks_Is
    <2>7. PICK p : p = Hooks!run_hooks(b, "disconnect")
      OBVIOUS
    <2>8. p = Hooks!continue(o)
      BY ONLY <1>2, <2>1, <2>7 DEF Hooks!continue
    <2>9. Left(b, p, 0)
      BY ONLY <2>6, <2>7
    <2>10. Kept(o, p, 0)
      BY ONLY <2>2, <2>9 DEF Left, Kept
    <2>11. p.cb => p.transaction = "resetting"
      BY ONLY <2>2, <2>9 DEF Left
    <2>. QED  BY ONLY <2>8, <2>9, <2>10, <2>11 DEF Left, HooksInv
  <1>. QED  BY ONLY <1>1, <1>2

LEMMA HooksInit == ASSUME Hooks!Init PROVE HooksInv(v1)
  <1>1. /\ v1 \in Hooks!Connection /\ v1.calls = <<>> /\ v1.runs = <<>> /\ v1.hooks_to_run = <<>>
        /\ v1.thrown = FALSE /\ v1.cb = FALSE /\ v1.current_hook = 0
    <2>1. [run |-> 0, hook |-> "main"] \in [run : Nat, hook : Hooks!Hooks]
      BY DEF Hooks!Hooks
    <2>2. <<>> \in Seq(Hooks!Function) /\ <<>> \in Seq(Hooks!Call)
          /\ <<>> \in Seq([hook : Hooks!Hooks, answers : Nat])
      OBVIOUS
    <2>. QED  BY ONLY <2>1, <2>2, Hooks!Init DEF Hooks!Init, Hooks!Connection
  <1>2. Sound(v1)
    BY ONLY <1>1 DEF Sound, CallsInTurn
  <1>3. Turns(v1)
    BY ONLY <1>1 DEF Turns, Quiet, Free, AtWork
  <1>. QED  BY ONLY <1>1, <1>2, <1>3 DEF HooksInv

(* What a step of the connection does.                                     *)
HooksStep == HooksInv(v1') /\ InTime(v1, v1')

LEMMA KeptLater ==
    ASSUME NEW o, NEW a, NEW p, InTime(o, a), Kept(a, p, 0),
           Len(o.runs) \in Nat, Len(a.runs) \in Nat, Len(p.runs) \in Nat
    PROVE  InTime(o, p)
  BY DEF InTime, Kept

LEMMA CommandStep == ASSUME HooksAssumed, HooksInv(v1), Hooks!command PROVE HooksStep
  <1>0. v1 \in Hooks!Connection /\ Sound(v1) /\ Turns(v1)
    BY DEF HooksInv, Sound
  <1>1. v1.state = "open" /\ ~v1.busy
    BY DEF Hooks!command
  <1>2. Quiet(v1)
    <2>1. ASSUME NEW k, Works(v1, k) PROVE FALSE
      BY ONLY <1>1, <2>1 DEF Works, Serves, Unanswered
    <2>. QED  BY ONLY <1>0, <2>1 DEF Turns
  <1>3. PICK t \in {v1.transaction, "there"} :
            v1' = Hooks!run_hooks([v1 EXCEPT !.busy = TRUE, !.transaction = t], "main")
    BY DEF Hooks!command
  <1>4. PICK a : a = [v1 EXCEPT !.busy = TRUE, !.transaction = t]
    OBVIOUS
  <1>5. /\ a \in Hooks!Connection /\ a.busy = TRUE /\ a.transaction = t
        /\ a.runs = v1.runs /\ a.calls = v1.calls /\ a.hooks_to_run = v1.hooks_to_run
        /\ a.current_hook = v1.current_hook /\ a.state = v1.state /\ a.cb = v1.cb
        /\ a.thrown = v1.thrown
    <2>1. t \in {"null", "there", "resetting"}
      BY ONLY <1>0, t \in {v1.transaction, "there"} DEF Hooks!Connection
    <2>. QED  BY ONLY <1>0, <1>4, <2>1 DEF Hooks!Connection
  <1>6. ~v1.cb
    BY ONLY <1>0, <1>1 DEF Sound
  <1>7. Sound(a)
    BY ONLY <1>0, <1>5, <1>6 DEF Sound, CallsInTurn
  <1>8. Free(a) /\ a.hooks_to_run = <<>> /\ a.current_hook = 0 /\ AtWork(a) \subseteq {a.current_hook}
    BY ONLY <1>1, <1>2, <1>5 DEF Quiet, Free, AtWork
  <1>9. Left(a, v1', 0)
    <2>1. "main" \in Hooks!Hooks \ {"deny"}
      BY DEF Hooks!Hooks
    <2>2. Left(a, Hooks!run_hooks(a, "main"), 0)
      BY ONLY HooksAssumed, <1>1, <1>5, <1>6, <1>7, <1>8, <2>1, run_hooks_Is
    <2>. QED  BY ONLY <1>3, <1>4, <2>2
  <1>10. HooksInv(v1')
    BY ONLY <1>5, <1>6, <1>9 DEF Left, HooksInv
  <1>11. InTime(v1, v1')
    BY ONLY <1>0, <1>5, <1>9, ConnIs DEF Left, Kept, InTime
  <1>. QED  BY ONLY <1>10, <1>11 DEF HooksStep

LEMMA ResetStep == ASSUME HooksAssumed, HooksInv(v1), Hooks!reset PROVE HooksStep
  <1>0. v1 \in Hooks!Connection /\ Sound(v1) /\ Turns(v1)
    BY DEF HooksInv, Sound
  <1>1. v1.state = "open" /\ ~v1.busy /\ v1.transaction = "there"
    BY DEF Hooks!reset
  <1>2. Quiet(v1)
    <2>1. ASSUME NEW k, Works(v1, k) PROVE FALSE
      BY ONLY <1>1, <2>1 DEF Works, Serves, Unanswered
    <2>. QED  BY ONLY <1>0, <2>1 DEF Turns
  <1>3. PICK b : b = [v1 EXCEPT !.busy = TRUE]
    OBVIOUS
  <1>4. PICK a : a = [b EXCEPT !.transaction = "resetting"]
    OBVIOUS
  <1>5. v1' = Hooks!run_hooks(a, "reset_transaction")
    <2>1. b.transaction = "there"
      BY ONLY <1>0, <1>1, <1>3 DEF Hooks!Connection
    <2>2. v1' = Hooks!reset_transaction(b)
      BY ONLY Hooks!reset, <1>3 DEF Hooks!reset
    <2>. QED  BY ONLY <1>4, <2>1, <2>2 DEF Hooks!reset_transaction
  <1>6. /\ a \in Hooks!Connection /\ a.busy = TRUE /\ a.transaction = "resetting"
        /\ a.runs = v1.runs /\ a.calls = v1.calls /\ a.hooks_to_run = v1.hooks_to_run
        /\ a.current_hook = v1.current_hook /\ a.state = v1.state /\ a.cb = v1.cb
        /\ a.thrown = v1.thrown
    BY ONLY <1>0, <1>3, <1>4 DEF Hooks!Connection
  <1>7. ~v1.cb
    BY ONLY <1>0, <1>1 DEF Sound
  <1>8. Sound(a)
    BY ONLY <1>0, <1>6, <1>7 DEF Sound, CallsInTurn
  <1>9. a.current_hook = 0 /\ AtWork(a) \subseteq {a.current_hook}
    BY ONLY <1>1, <1>2, <1>6 DEF Quiet, Free, AtWork
  <1>10. Left(a, v1', 0)
    <2>1. "reset_transaction" \in Hooks!Hooks \ {"deny"}
      BY DEF Hooks!Hooks
    <2>2. Left(a, Hooks!run_hooks(a, "reset_transaction"), 0)
      BY ONLY HooksAssumed, <1>1, <1>6, <1>7, <1>8, <1>9, <2>1, run_hooks_Is
    <2>. QED  BY ONLY <1>5, <2>2
  <1>11. HooksInv(v1')
    BY ONLY <1>6, <1>7, <1>10 DEF Left, HooksInv
  <1>12. InTime(v1, v1')
    BY ONLY <1>0, <1>6, <1>10, ConnIs DEF Left, Kept, InTime
  <1>. QED  BY ONLY <1>11, <1>12 DEF HooksStep

LEMMA FailStep == ASSUME HooksAssumed, HooksInv(v1), Hooks!fail PROVE HooksStep
  <1>0. v1 \in Hooks!Connection /\ Sound(v1) /\ Turns(v1)
    BY DEF HooksInv, Sound
  <1>1. v1.state = "open"
    BY DEF Hooks!fail
  <1>2. PICK b : b = [v1 EXCEPT !.hooks_to_run = <<>>, !.state = "disconnecting", !.cb = TRUE]
    OBVIOUS
  <1>3. v1' = Hooks!continue(Hooks!reset_transaction(b))
    BY ONLY Hooks!fail, <1>2 DEF Hooks!fail
  <1>4. /\ b \in Hooks!Connection /\ b.transaction = v1.transaction
        /\ b.runs = v1.runs /\ b.calls = v1.calls /\ b.hooks_to_run = <<>>
        /\ b.current_hook = v1.current_hook /\ b.state = "disconnecting" /\ b.cb = TRUE
        /\ b.thrown = v1.thrown
    <2>1. <<>> \in Seq(Hooks!Function)
      OBVIOUS
    <2>. QED  BY ONLY <1>0, <1>2, <2>1 DEF Hooks!Connection
  <1>5. AtWork(v1) \subseteq {v1.current_hook}
    BY ONLY <1>0, <1>1 DEF Turns, Quiet, Free, Works
  <1>6. PICK t \in {"null", "resetting"} : t = IF v1.transaction = "there" THEN "resetting" ELSE "null"
    OBVIOUS
  <1>7. PICK a : a = [b EXCEPT !.transaction = t]
    OBVIOUS
  <1>8. /\ a \in Hooks!Connection /\ a.transaction = t
        /\ a.runs = v1.runs /\ a.calls = v1.calls
        /\ a.current_hook = v1.current_hook /\ a.state = "disconnecting" /\ a.cb = TRUE
        /\ a.thrown = v1.thrown
    BY ONLY <1>4, <1>7, t \in {"null", "resetting"} DEF Hooks!Connection
  <1>9. Sound(a)
    BY ONLY <1>0, <1>8, t \in {"null", "resetting"} DEF Sound, CallsInTurn
  <1>10. AtWork(a) \subseteq {a.current_hook}
    BY ONLY <1>5, <1>8 DEF AtWork
  <1>11. PICK g : g = Hooks!reset_transaction(b)
    OBVIOUS
  <1>12. /\ Sound(g) /\ Kept(v1, g, 0)
         /\ g.cb /\ g.transaction # "resetting" => AtWork(g) \subseteq {g.current_hook}
         /\ ~(g.cb /\ g.transaction # "resetting") => Turns(g)
    <2>1. CASE v1.transaction = "there"
      <3>1. g = Hooks!run_hooks(a, "reset_transaction")
        BY ONLY <1>4, <1>6, <1>7, <1>11, <2>1 DEF Hooks!reset_transaction
      <3>2. "reset_transaction" \in Hooks!Hooks \ {"deny"}
        BY DEF Hooks!Hooks
      <3>3. a.transaction = "resetting"
        BY ONLY <1>6, <1>8, <2>1
      <3>4. Left(a, Hooks!run_hooks(a, "reset_transaction"), 0)
        BY ONLY HooksAssumed, <1>8, <1>9, <1>10, <3>2, <3>3, run_hooks_Is
      <3>5. Left(a, g, 0)
        BY ONLY <3>1, <3>4
      <3>. QED  BY ONLY <1>8, <3>5 DEF Left, Kept, Free
    <2>2. CASE v1.transaction # "there"
      <3>1. g = a
        BY ONLY <1>4, <1>6, <1>7, <1>11, <2>2 DEF Hooks!reset_transaction
      <3>2. a.transaction = "null"
        BY ONLY <1>6, <1>8, <2>2
      <3>3. Kept(v1, a, 0)
        BY ONLY <1>0, <1>8, SameRuns
      <3>. QED  BY ONLY <1>8, <1>9, <1>10, <3>1, <3>2, <3>3
    <2>. QED  BY ONLY <2>1, <2>2
  <1>13. HooksInv(v1') /\ Kept(g, v1', 0)
    <2>1. HooksInv(Hooks!continue(g)) /\ Kept(g, Hooks!continue(g), 0)
      BY ONLY HooksAssumed, <1>12, continue_Is
    <2>. QED  BY ONLY <1>3, <1>11, <2>1
  <1>14. InTime(v1, v1')
    <2>1. Len(v1.runs) \in Nat /\ Len(g.runs) \in Nat /\ Len(v1'.runs) \in Nat
      BY ONLY <1>0, <1>12, <1>13, ConnIs DEF HooksInv, Sound
    <2>2. InTime(v1, g)
      BY ONLY <1>12, <2>1 DEF Kept, InTime
    <2>. QED  BY ONLY <1>13, <2>1, <2>2, KeptLater
  <1>. QED  BY ONLY <1>13, <1>14 DEF HooksStep

LEMMA CalledBack ==
    ASSUME HooksAssumed, Polite, HooksInv(v1),
           NEW k \in 1..Len(v1.calls), v1.calls[k].armed,
           NEW left \in 0..2, NEW retval \in Hooks!Replies,
           v1.calls[k].hook = "deny" => retval # "deny",
           v1' = Hooks!continue(Hooks!callback([v1 EXCEPT !.calls[k].left = left], k, retval))
    PROVE  HooksStep
  <1>1. PICK g : g = Hooks!callback([v1 EXCEPT !.calls[k].left = left], k, retval)
    OBVIOUS
  <1>2. Sound(g) /\ Turns(g) /\ InTime(v1, g) /\ (g.cb /\ g.transaction # "resetting" => Free(g))
    BY <1>1, callback_Is
  <1>3. g.cb /\ g.transaction # "resetting" => AtWork(g) \subseteq {g.current_hook}
    BY ONLY <1>2 DEF Free
  <1>4. HooksInv(v1') /\ Kept(g, v1', 0)
    <2>1. HooksInv(Hooks!continue(g)) /\ Kept(g, Hooks!continue(g), 0)
      BY ONLY HooksAssumed, <1>2, <1>3, continue_Is
    <2>. QED  BY <1>1, <2>1
  <1>5. InTime(v1, v1')
    <2>1. Len(v1.runs) \in Nat /\ Len(g.runs) \in Nat /\ Len(v1'.runs) \in Nat
      BY ONLY HooksInv(v1), <1>2, <1>4, ConnIs DEF HooksInv, Sound
    <2>. QED  BY ONLY <1>2, <1>4, <2>1, KeptLater
  <1>. QED  BY ONLY <1>4, <1>5 DEF HooksStep

LEMMA HooksNext == ASSUME HooksAssumed, Polite, HooksInv(v1), Hooks!Next PROVE HooksStep
  <1>0. v1 \in Hooks!Connection
    BY DEF HooksInv, Sound
  <1>1. CASE Hooks!command
    BY <1>1, CommandStep
  <1>2. CASE Hooks!reset
    BY <1>2, ResetStep
  <1>3. CASE Hooks!fail
    BY <1>3, FailStep
  <1>4. ASSUME NEW k \in DOMAIN v1.calls, Hooks!answer(k) \/ Hooks!timeout(k)
        PROVE  HooksStep
    <2>1. /\ k \in 1..Len(v1.calls) /\ v1.calls[k] \in Hooks!Call
          /\ v1.calls[k].hook \in Hooks!Hooks
      <3>1. v1.calls \in Seq(Hooks!Call)
        BY ONLY <1>0, ConnIs
      <3>2. k \in 1..Len(v1.calls)
        BY ONLY <3>1, k \in DOMAIN v1.calls
      <3>. QED  BY ONLY <1>0, <3>2, ConnIs
    <2>2. v1.calls[k].left \in 0..2
      BY ONLY <2>1 DEF Hooks!Call
    <2>3. CASE Hooks!answer(k)
      <3>1. PICK retval \in hooks.Answers[v1.calls[k].hook] :
               v1' = Hooks!continue(Hooks!callback([v1 EXCEPT !.calls[k].left = @ - 1], k, retval))
        BY <2>3 DEF Hooks!answer
      <3>2. v1.calls[k].armed
        BY <2>3 DEF Hooks!answer, Polite
      <3>3. retval \in Hooks!Replies
        BY <2>1 DEF HooksAssumed
      <3>4. v1.calls[k].hook = "deny" => retval # "deny"
        BY DEF Polite
      <3>5. PICK n : n = v1.calls[k].left - 1
        OBVIOUS
      <3>6. n \in 0..2
        <4>1. v1.calls[k].left > 0
          BY <2>3 DEF Hooks!answer
        <4>. QED  BY ONLY <2>2, <3>5, <4>1
      <3>7. v1' = Hooks!continue(Hooks!callback([v1 EXCEPT !.calls[k].left = n], k, retval))
        BY ONLY <3>1, <3>5
      <3>. QED  BY ONLY HooksAssumed, Polite, HooksInv(v1), <2>1, <3>2, <3>3, <3>4, <3>6, <3>7, CalledBack
    <2>4. CASE Hooks!timeout(k)
      <3>1. v1' = Hooks!continue(Hooks!callback([v1 EXCEPT !.calls[k].left = 0], k, "deny"))
        BY <2>4 DEF Hooks!timeout, Polite
      <3>2. v1.calls[k].armed /\ v1.calls[k].hook # "deny"
        BY <2>4 DEF Hooks!timeout, Polite
      <3>3. "deny" \in Hooks!Replies /\ 0 \in 0..2
        BY DEF Hooks!Replies
      <3>4. PICK n \in 0..2 : n = 0
        BY ONLY <3>3
      <3>5. PICK retval \in Hooks!Replies : retval = "deny"
        BY ONLY <3>3
      <3>6. v1' = Hooks!continue(Hooks!callback([v1 EXCEPT !.calls[k].left = n], k, retval))
        BY ONLY <3>1, <3>4, <3>5
      <3>. QED  BY ONLY HooksAssumed, Polite, HooksInv(v1), <2>1, <3>2, <3>6, CalledBack
    <2>. QED  BY ONLY <1>4, <2>3, <2>4
  <1>. QED  BY <1>1, <1>2, <1>3, <1>4 DEF Hooks!Next

LEMMA HooksPromise == ASSUME HooksInv(v1) PROVE Hooks!OneAtATime /\ Hooks!RightFunction
  <1>0. v1 \in Hooks!Connection /\ Sound(v1) /\ Turns(v1)
    BY DEF HooksInv, Sound
  <1>1. DOMAIN v1.calls = 1..Len(v1.calls)
    BY ONLY <1>0 DEF Hooks!Connection
  <1>2. Hooks!Live = AtWork(v1)
    BY ONLY <1>1 DEF Hooks!Live, AtWork
  <1>3. Hooks!OneAtATime
    <2>1. CASE Quiet(v1)
      BY ONLY <1>0, <1>2, <2>1 DEF Hooks!OneAtATime, Quiet, Free, Sound
    <2>2. ASSUME NEW k, Works(v1, k)
          PROVE  Hooks!OneAtATime
      BY ONLY <1>0, <1>2, <2>2 DEF Hooks!OneAtATime, Works, Sound
    <2>. QED  BY ONLY <1>0, <2>1, <2>2 DEF Turns
  <1>4. Hooks!RightFunction
    BY ONLY <1>0, <1>1 DEF Hooks!RightFunction, Sound, CallsInTurn
  <1>. QED  BY ONLY <1>3, <1>4

LEMMA HooksAnswers == ASSUME HooksInv(v1), InTime(v1, v1') PROVE Hooks!AnswersInTime
  <1>1. DOMAIN v1.runs = 1..Len(v1.runs)
    BY DEF HooksInv, Sound, Hooks!Connection
  <1>. QED  BY ONLY <1>1, InTime(v1, v1') DEF InTime, Hooks!AnswersInTime

----------------------------------------------------------------------------
(***************************************************************************)
(* Recipient plugins (v1 running, v2 conn, v3 txn, v4 lookups, v5 queue).  *)
(***************************************************************************)

Mine == {<<"me", u>> : u \in Recipients!Users}
Forwards == {<<"own", u>> : u \in Recipients!Users}
Far == {<<"far", x>> : x \in {"staff1", "staff2", "other"}}
Given == Mine \cup Far
Payers == Recipients!Users \cup {"none"}

Conn == [n : Nat, up : BOOLEAN, from : {"local"} \cup rcpts.Clients, hook : {"none", "rcpt"},
         todo : Seq(Mine), rcpts : Nat, white : BOOLEAN]
Txn == [open : BOOLEAN, rcpt_to : Seq(Given), user : Payers]
Lookups == [user : Recipients!Users, conn : Nat, id : Nat, waits : BOOLEAN]

(* The recipients whose hook is over.                                      *)
FirstOf(s, n) == {s[i] : i \in 1..n}
Settled(c, t) == FirstOf(t.rcpt_to, IF c.hook = "rcpt" THEN Len(t.rcpt_to) - 1 ELSE Len(t.rcpt_to))

(* The user notes.user names is a recipient, and there is one if any is.   *)
Noted(c, t) ==
    IF t.user = "none" THEN Settled(c, t) \cap Mine = {}
    ELSE <<"me", t.user>> \in Settled(c, t)

(* The lookup the hook waits for is that of the last recipient; the others *)
(* are of connections that have gone.                                      *)
Lookup(c, t, l) ==
    /\ l.conn <= c.n
    /\ l.waits => /\ l.conn = c.n /\ c.hook = "rcpt"
                  /\ t.rcpt_to[Len(t.rcpt_to)] = <<"me", l.user>>
    /\ ~l.waits => l.conn < c.n \/ ~c.up

LookedUp(c, t, ls) ==
    /\ ls \in SUBSET Lookups
    /\ \A l \in ls : Lookup(c, t, l)
    /\ \A l, m \in ls : l.waits /\ m.waits => l = m
    /\ c.hook = "rcpt" => t.open /\ t.rcpt_to # <<>>

InSession(c, t) ==
    /\ c \in Conn /\ t \in Txn
    /\ t.open => c.up
    /\ ~t.open => t = Recipients!NoTxn
    /\ Noted(c, t)

Priced(e) ==
    /\ e.rcpts \in Seq(Given \cup Forwards) /\ e.payer \in Payers
    /\ e.white \in BOOLEAN
    /\ \A u \in Recipients!Own(e) : rcpts.Price[u] > 0 /\ ~e.white => e.payer = u
    /\ Recipients!In(e.rcpts) \cap Mine # {} => Recipients!Own(e) # {}

Mails ==
    /\ \A e \in v5 : Priced(e)
    /\ Recipients!InvoiceIsForRecipient
    /\ Recipients!PricedByOwn

RecipientsInv == v1 \in BOOLEAN /\ InSession(v2, v3) /\ LookedUp(v2, v3, v4) /\ Mails

----------------------------------------------------------------------------
(* f counts up what is chosen of the first n members of s.                 *)
Chooses(f, s, S, n) ==
    f = [i \in 0..n |-> IF i = 0 THEN <<>>
                        ELSE IF s[i] \in S THEN Append(f[i - 1], s[i]) ELSE f[i - 1]]

LEMMA ChoosesOne ==
    ASSUME NEW s, NEW S, NEW n \in Nat, NEW f, Chooses(f, s, S, n)
    PROVE  \E g : Chooses(g, s, S, n + 1)
  <1>. DEFINE last == IF s[n + 1] \in S THEN Append(f[n], s[n + 1]) ELSE f[n]
              g == [i \in 0..(n + 1) |-> IF i = n + 1 THEN last ELSE f[i]]
  <1>1. \A i \in 0..n : f[i] = IF i = 0 THEN <<>> ELSE IF s[i] \in S THEN Append(f[i - 1], s[i]) ELSE f[i - 1]
    BY DEF Chooses
  <1>2. \A i \in 0..(n + 1) :
            g[i] = IF i = 0 THEN <<>> ELSE IF s[i] \in S THEN Append(g[i - 1], s[i]) ELSE g[i - 1]
    <2>1. TAKE i \in 0..(n + 1)
    <2>2. CASE i = n + 1
      <3>1. g[i] = last /\ g[i - 1] = f[n] /\ i # 0
        BY <2>2
      <3>. QED
        BY <2>2, <3>1
    <2>3. CASE i # n + 1
      <3>1. i \in 0..n /\ g[i] = f[i]
        BY <2>3
      <3>2. i # 0 => i - 1 \in 0..n /\ g[i - 1] = f[i - 1]
        BY <2>3
      <3>. HIDE DEF g
      <3>. QED
        BY <1>1, <3>1, <3>2
    <2>. QED
      BY <2>2, <2>3
  <1>3. PICK h : h = g
    OBVIOUS
  <1>4. h = [i \in 0..(n + 1) |-> IF i = 0 THEN <<>> ELSE IF s[i] \in S THEN Append(h[i - 1], s[i]) ELSE h[i - 1]]
    <2>1. h = [i \in 0..(n + 1) |-> h[i]]
      BY <1>3
    <2>. HIDE DEF g
    <2>. QED
      BY <1>2, <1>3, <2>1
  <1>. QED
    BY <1>4 DEF Chooses

(* No first natural number is missing.                                     *)
LEMMA AllNumbers ==
    ASSUME NEW S \in SUBSET Nat, 0 \in S, \A n \in S : n + 1 \in S
    PROVE  S = Nat
  <1>. SUFFICES ASSUME Nat \ S # {} PROVE FALSE
    OBVIOUS
  <1>1. PICK x \in Nat \ S : \A y \in Nat \ S : ~(<<y, x>> \in OpToRel(<, Nat))
    BY NatLessThanWellFounded, WFMin
  <1>2. x \in Nat /\ x # 0
    BY <1>1
  <1>a. x - 1 \in Nat /\ x - 1 < x /\ (x - 1) + 1 = x
    BY <1>2
  <1>3. <<x - 1, x>> \in OpToRel(<, Nat)
    BY <1>2, <1>a DEF OpToRel
  <1>4. x - 1 \in S
    BY <1>1, <1>a, <1>3
  <1>5. (x - 1) + 1 \in S
    BY <1>4
  <1>. QED
    BY <1>1, <1>a, <1>5

LEMMA ChoosesAll == ASSUME NEW s, NEW S, NEW n \in Nat PROVE \E f : Chooses(f, s, S, n)
  <1>. DEFINE Done == {m \in Nat : \E f : Chooses(f, s, S, m)}
  <1>1. 0 \in Done
    <2>1. Chooses([i \in 0..0 |-> <<>>], s, S, 0)
      BY DEF Chooses
    <2>. QED
      BY <2>1
  <1>2. \A m \in Done : m + 1 \in Done
    BY ChoosesOne
  <1>3. Done = Nat
    <2>. HIDE DEF Done
    <2>1. Done \in SUBSET Nat
      BY DEF Done
    <2>. QED
      BY <1>1, <1>2, <2>1, AllNumbers
  <1>. QED
    BY <1>3

LEMMA ChosenIs ==
    ASSUME NEW T, NEW s \in Seq(T), NEW S
    PROVE  Recipients!Chosen(s, S) \in Seq(T) /\ Recipients!In(Recipients!Chosen(s, S)) = Recipients!In(s) \cap S
  <1>1. Len(s) \in Nat /\ DOMAIN s = 1..Len(s) /\ \A i \in 1..Len(s) : s[i] \in T
    BY LenProperties, ElementOfSeq
  <1>2. PICK f : Chooses(f, s, S, Len(s)) /\ Recipients!Chosen(s, S) = f[Len(s)]
    <2>1. \E f : Chooses(f, s, S, Len(s))
      BY <1>1, ChoosesAll
    <2>2. Chooses(CHOOSE f : Chooses(f, s, S, Len(s)), s, S, Len(s))
      BY <2>1
    <2>3. Recipients!Chosen(s, S) = (CHOOSE f : Chooses(f, s, S, Len(s)))[Len(s)]
      BY DEF Recipients!Chosen, Chooses
    <2>. QED
      BY <2>2, <2>3
  <1>. DEFINE Upto(n) == {s[i] : i \in 1..n} \cap S
              Right == {n \in Nat : n <= Len(s) => f[n] \in Seq(T) /\ Recipients!In(f[n]) = Upto(n)}
  <1>3. \A i \in 0..Len(s) : f[i] = IF i = 0 THEN <<>> ELSE IF s[i] \in S THEN Append(f[i - 1], s[i]) ELSE f[i - 1]
    BY <1>2 DEF Chooses
  <1>4. 0 \in Right
    <2>1. f[0] = <<>>
      BY <1>1, <1>3
    <2>2. f[0] \in Seq(T) /\ Recipients!In(f[0]) = {}
      BY <2>1, EmptySeq DEF Recipients!In
    <2>3. Upto(0) = {}
      OBVIOUS
    <2>. QED
      BY <2>2, <2>3
  <1>5. ASSUME NEW n \in Right PROVE n + 1 \in Right
    <2>. SUFFICES ASSUME n + 1 <= Len(s)
                  PROVE  f[n + 1] \in Seq(T) /\ Recipients!In(f[n + 1]) = Upto(n + 1)
      OBVIOUS
    <2>1. n \in Nat /\ n + 1 \in 1..Len(s) /\ n + 1 \in 0..Len(s) /\ n <= Len(s)
      BY <1>1
    <2>2. f[n] \in Seq(T) /\ Recipients!In(f[n]) = Upto(n) /\ s[n + 1] \in T
      BY <1>1, <2>1
    <2>3. f[n + 1] = IF s[n + 1] \in S THEN Append(f[n], s[n + 1]) ELSE f[n]
      BY <1>3, <2>1
    <2>4. 1..(n + 1) = (1..n) \cup {n + 1}
      BY <2>1
    <2>5. Upto(n + 1) = Upto(n) \cup ({s[n + 1]} \cap S)
      BY <2>4
    <2>6. CASE s[n + 1] \in S
      <3>1. PICK q \in Seq(T) : q = f[n]
        BY <2>2
      <3>2. PICK x \in T : x = s[n + 1]
        BY <2>2
      <3>3. f[n + 1] = Append(q, x)
        BY <2>3, <2>6, <3>1, <3>2
      <3>4. Recipients!In(Append(q, x)) = Recipients!In(q) \cup {x}
        <4>1. /\ Append(q, x) \in Seq(T) /\ Len(q) \in Nat /\ DOMAIN q = 1..Len(q)
              /\ Len(Append(q, x)) = Len(q) + 1 /\ DOMAIN Append(q, x) = 1..(Len(q) + 1)
              /\ \A i \in 1..Len(q) : Append(q, x)[i] = q[i]
              /\ Append(q, x)[Len(q) + 1] = x
          BY AppendProperties, LenProperties
        <4>2. 1..(Len(q) + 1) = (1..Len(q)) \cup {Len(q) + 1}
          BY <4>1
        <4>. QED
          BY <4>1, <4>2 DEF Recipients!In
      <3>5. f[n + 1] \in Seq(T)
        BY <3>3, AppendProperties
      <3>. QED
        BY <2>2, <2>5, <2>6, <3>1, <3>2, <3>3, <3>4, <3>5
    <2>7. CASE s[n + 1] \notin S
      BY <2>2, <2>3, <2>5, <2>7
    <2>. QED
      BY <2>6, <2>7
  <1>6. Len(s) \in Right
    <2>. HIDE DEF Right
    <2>1. Right \in SUBSET Nat
      BY DEF Right
    <2>2. Right = Nat
      BY <1>4, <1>5, <2>1, AllNumbers
    <2>. QED
      BY <1>1, <2>2
  <1>7. Upto(Len(s)) = Recipients!In(s) \cap S
    BY <1>1 DEF Recipients!In
  <1>. QED
    BY <1>1, <1>2, <1>6, <1>7

LEMMA InIs ==
    ASSUME NEW T, NEW q \in Seq(T)
    PROVE  /\ Recipients!In(q) = FirstOf(q, Len(q)) /\ Recipients!In(q) \subseteq T
           /\ Len(q) \in Nat
  BY LenProperties, ElementOfSeq DEF Recipients!In, FirstOf

LEMMA SeqOver ==
    ASSUME NEW T, NEW U, NEW q \in Seq(T), Recipients!In(q) \subseteq U
    PROVE  q \in Seq(U)
  <1>1. q \in [1..Len(q) -> T] /\ Len(q) \in Nat /\ DOMAIN q = 1..Len(q)
    BY LenProperties
  <1>2. q \in [1..Len(q) -> U]
    BY <1>1 DEF Recipients!In
  <1>. QED
    BY <1>1, <1>2, SeqDef

LEMMA PushIs ==
    ASSUME NEW T, NEW q \in Seq(T), NEW x \in T
    PROVE  /\ Append(q, x) \in Seq(T) /\ Append(q, x) # <<>>
           /\ Recipients!In(Append(q, x)) = Recipients!In(q) \cup {x}
           /\ Len(Append(q, x)) = Len(q) + 1 /\ Len(q) \in Nat
           /\ Append(q, x)[Len(Append(q, x))] = x
           /\ FirstOf(Append(q, x), Len(Append(q, x)) - 1) = Recipients!In(q)
  <1>1. /\ Append(q, x) \in Seq(T) /\ Len(q) \in Nat /\ DOMAIN q = 1..Len(q)
        /\ Len(Append(q, x)) = Len(q) + 1 /\ DOMAIN Append(q, x) = 1..(Len(q) + 1)
        /\ \A i \in 1..Len(q) : Append(q, x)[i] = q[i]
        /\ Append(q, x)[Len(q) + 1] = x
    BY AppendProperties, LenProperties
  <1>2. 1..(Len(q) + 1) = (1..Len(q)) \cup {Len(q) + 1}
    BY <1>1
  <1>3. (Len(q) + 1) - 1 = Len(q)
    BY <1>1
  <1>4. Append(q, x) # <<>>
    BY <1>1, EmptySeq
  <1>5. Recipients!In(Append(q, x)) = Recipients!In(q) \cup {x}
    BY <1>1, <1>2 DEF Recipients!In
  <1>6. FirstOf(Append(q, x), Len(q)) = Recipients!In(q)
    BY <1>1 DEF Recipients!In, FirstOf
  <1>. QED
    BY <1>1, <1>3, <1>4, <1>5, <1>6

LEMMA PopIs ==
    ASSUME NEW T, NEW q \in Seq(T), q # <<>>
    PROVE  /\ SubSeq(q, 1, Len(q) - 1) \in Seq(T)
           /\ Recipients!In(SubSeq(q, 1, Len(q) - 1)) = FirstOf(q, Len(q) - 1)
  <1>1. Len(q) \in Nat /\ Len(q) # 0
    BY LenProperties, EmptySeq
  <1>2. Len(q) - 1 \in Nat /\ Len(q) - 1 <= Len(q) /\ 1 <= (Len(q) - 1) + 1
    BY <1>1
  <1>3. PICK p : p = SubSeq(q, 1, Len(q) - 1)
    OBVIOUS
  <1>4. p \in Seq(T) /\ Len(p) = Len(q) - 1 /\ \A i \in 1..(Len(q) - 1) : p[i] = q[i]
    <2>1. \A i \in 1..(Len(q) - 1) : q[i] \in T
      BY <1>1, ElementOfSeq
    <2>2. \A i \in 1..(Len(q) - 1) : 1 + i - 1 = i
      BY <1>1
    <2>3. Len(q) - 1 \in Int /\ 1 \in Int /\ (Len(q) - 1) - 1 + 1 = Len(q) - 1 /\ (~(1 <= Len(q) - 1) => Len(q) - 1 = 0)
      <3>1. PICK n \in Nat : n = Len(q) /\ n # 0
        BY <1>1
      <3>2. n - 1 \in Int /\ 1 \in Int /\ (n - 1) - 1 + 1 = n - 1 /\ (~(1 <= n - 1) => n - 1 = 0)
        BY <3>1
      <3>. QED
        BY <3>1, <3>2
    <2>4. /\ SubSeq(q, 1, Len(q) - 1) \in Seq(T)
          /\ Len(SubSeq(q, 1, Len(q) - 1)) = IF 1 <= Len(q) - 1 THEN (Len(q) - 1) - 1 + 1 ELSE 0
          /\ \A i \in 1..((Len(q) - 1) - 1 + 1) : SubSeq(q, 1, Len(q) - 1)[i] = q[1 + i - 1]
      BY <2>1, <2>3, SubSeqProperties
    <2>. QED
      BY <1>3, <2>2, <2>3, <2>4
  <1>5. DOMAIN p = 1..(Len(q) - 1)
    BY <1>4, LenProperties
  <1>6. Recipients!In(p) = FirstOf(q, Len(q) - 1)
    BY <1>4, <1>5 DEF Recipients!In, FirstOf
  <1>. QED
    BY <1>3, <1>4, <1>6

(* The session closes.                                                     *)
LEMMA ForsakenAre ==
    ASSUME RecipientsInv, NEW c \in Conn, c.n = v2.n, ~c.up, c.hook = "none"
    PROVE  InSession(c, Recipients!NoTxn) /\ LookedUp(c, Recipients!NoTxn, Recipients!Forsaken)
  <1>1. PICK t : t = Recipients!NoTxn
    OBVIOUS
  <1>2. t.rcpt_to = <<>> /\ t.open = FALSE /\ t.user = "none"
    BY <1>1 DEF Recipients!NoTxn, Recipients!None
  <1>3. t \in Txn
    BY <1>1, EmptySeq DEF Txn, Payers, Recipients!NoTxn, Recipients!None
  <1>4. FirstOf(t.rcpt_to, Len(t.rcpt_to)) = {}
    BY <1>2, EmptySeq DEF FirstOf
  <1>5. Noted(c, t)
    BY <1>2, <1>4 DEF Noted, Settled
  <1>6. InSession(c, t)
    BY <1>1, <1>2, <1>3, <1>5 DEF InSession
  <1>7. \A l \in Recipients!Forsaken : l \in Lookups /\ ~l.waits /\ Lookup(c, t, l)
    <2>1. TAKE l \in Recipients!Forsaken
    <2>2. PICK m \in v4 : l = [m EXCEPT !.waits = FALSE]
      BY DEF Recipients!Forsaken
    <2>3. m \in Lookups /\ m.conn <= v2.n
      BY DEF RecipientsInv, LookedUp, Lookup
    <2>4. l \in Lookups /\ l.waits = FALSE /\ l.conn = m.conn
      BY <2>2, <2>3 DEF Lookups
    <2>. QED
      BY <2>3, <2>4 DEF Lookup
  <1>8. LookedUp(c, t, Recipients!Forsaken)
    BY <1>7 DEF LookedUp
  <1>. QED
    BY <1>1, <1>6, <1>8

LEMMA SessionFacts ==
    ASSUME RecipientsInv
    PROVE  /\ v2 \in Conn /\ v3 \in Txn /\ v3.rcpt_to \in Seq(Given) /\ v3.user \in Payers /\ v3.open \in BOOLEAN
           /\ v2.todo \in Seq(Mine) /\ v2.white \in BOOLEAN /\ v2.n \in Nat /\ v2.rcpts \in Nat /\ v2.up \in BOOLEAN
           /\ (v3.open => v2.up) /\ Noted(v2, v3)
           /\ v2.hook \in {"none", "rcpt"}
  BY DEF RecipientsInv, InSession, Conn, Txn

(* While no hook waits, lookups are of connections that have gone.         *)
LEMMA StillLookedUp ==
    ASSUME RecipientsInv, NEW c \in Conn, NEW t \in Txn, c.n = v2.n, c.up = v2.up,
           v2.hook = "none", c.hook = "none"
    PROVE  LookedUp(c, t, v4)
  BY DEF RecipientsInv, LookedUp, Lookup

LEMMA rcpt_other_Keeps ==
    ASSUME RecipientsAssumed, RecipientsInv, Recipients!rcpt_other PROVE RecipientsInv'
  <1>0. v1' = v1 /\ v4' = v4 /\ v5' = v5 /\ v6' = v6 /\ v7' = v7 /\ v2.up /\ v3.open /\ v2.hook = "none"
    BY DEF Recipients!rcpt_other, Recipients!Ready, Recipients!None
  <1>1. v2' \in Conn /\ v2'.n = v2.n /\ v2'.up = v2.up /\ v2'.hook = "none"
    <2>1. v2' = [v2 EXCEPT !.rcpts = v2.rcpts + 1] /\ v2.rcpts + 1 \in Nat
      BY SessionFacts DEF Recipients!rcpt_other
    <2>. QED
      BY <1>0, <2>1, SessionFacts DEF Conn
  <1>2. PICK a \in Recipients!Others : v3' = Recipients!wrte_special_emails(a)
    BY DEF Recipients!rcpt_other
  <1>3. a \in {<<"me", "special">>, <<"me", "noreply">>, <<"far", "other">>}
    BY DEF Recipients!Others, Recipients!At, RecipientsAssumed
  <1>4. PICK q \in Seq(Given) : q = v3.rcpt_to
    BY SessionFacts
  <1>5. \E X : \E p \in Seq(Given) : v3' = [v3 EXCEPT !.rcpt_to = p] /\ Recipients!In(p) = Recipients!In(q) \cup X /\ X \cap Mine = {}
    <2>1. CASE v3' = v3
      <3>1. v3' = [v3 EXCEPT !.rcpt_to = q] /\ Recipients!In(q) = Recipients!In(q) \cup {} /\ {} \cap Mine = {}
        BY <1>4, <2>1, SessionFacts DEF Txn
      <3>. QED
        BY <3>1
    <2>2. CASE v3' = [v3 EXCEPT !.rcpt_to = Append(v3.rcpt_to, a)] /\ a = <<"far", "other">>
      <3>1. a \in Given /\ {a} \cap Mine = {}
        BY <2>2 DEF Given, Far, Mine
      <3>2. Append(q, a) \in Seq(Given) /\ Recipients!In(Append(q, a)) = Recipients!In(q) \cup {a}
        BY <3>1, PushIs
      <3>. QED
        BY <1>4, <2>2, <3>1, <3>2
    <2>3. CASE a = <<"me", "special">> /\ v3' = Recipients!replaceRcpt(Recipients!Push(a), a)
      <3>1. PICK T : T = Given \cup {a}
        OBVIOUS
      <3>2. q \in Seq(T)
        BY <3>1, InIs, SeqOver
      <3>c. a \in T /\ \A x \in {q} : x \in Seq(T)
        BY <3>1, <3>2
      <3>d. Append(q, a) \in Seq(T) /\ Recipients!In(Append(q, a)) = Recipients!In(q) \cup {a}
        BY <3>2, <3>c, PushIs
      <3>3. PICK r \in Seq(T) : r = Append(q, a) /\ Recipients!In(r) = Recipients!In(q) \cup {a}
        BY <3>d
      <3>4. PICK S : S = Recipients!In(r) \ {a}
        OBVIOUS
      <3>5. PICK s \in Seq(T) : s = Recipients!Chosen(r, S) /\ Recipients!In(s) = Recipients!In(r) \cap S
        BY ChosenIs
      <3>6. a \notin Given
        BY <2>3, <1>3 DEF Given, Mine, Far, RecipientsAssumed
      <3>7. Recipients!In(q) \subseteq Given
        BY InIs
      <3>8. Recipients!In(s) = Recipients!In(q)
        BY <3>3, <3>4, <3>5, <3>6, <3>7
      <3>9. s \in Seq(Given)
        BY <3>7, <3>8, SeqOver
      <3>. DEFINE b == <<"far", "staff1">>
                  d == <<"far", "staff2">>
                  p == Append(Append(s, b), d)
      <3>10. b \in Given /\ d \in Given /\ {b, d} \cap Mine = {}
        BY DEF Given, Far, Mine
      <3>11. Append(s, b) \in Seq(Given) /\ Recipients!In(Append(s, b)) = Recipients!In(s) \cup {b}
        BY <3>9, <3>10, PushIs
      <3>a. PICK r2 \in Seq(Given) : r2 = Append(s, b)
        BY <3>11
      <3>b. Append(r2, d) \in Seq(Given) /\ Recipients!In(Append(r2, d)) = Recipients!In(r2) \cup {d}
        BY <3>10, PushIs
      <3>12. p \in Seq(Given) /\ Recipients!In(p) = Recipients!In(Append(s, b)) \cup {d}
        BY <3>a, <3>b
      <3>14. v3' = [v3 EXCEPT !.rcpt_to = p]
        <4>1. Recipients!Push(a) = [v3 EXCEPT !.rcpt_to = r]
          BY <1>4, <3>3 DEF Recipients!Push
        <4>2. PICK t : t = [v3 EXCEPT !.rcpt_to = r]
          OBVIOUS
        <4>3. t.rcpt_to = r /\ \A y : [t EXCEPT !.rcpt_to = y] = [v3 EXCEPT !.rcpt_to = y]
          BY <4>2, SessionFacts DEF Txn
        <4>4. v3' = [t EXCEPT !.rcpt_to = p]
          BY <2>3, <3>4, <3>5, <4>1, <4>2, <4>3 DEF Recipients!replaceRcpt, Recipients!At
        <4>. QED
          BY <4>3, <4>4
      <3>15. Recipients!In(p) = Recipients!In(q) \cup {b, d}
        BY <3>8, <3>11, <3>12
      <3>. HIDE DEF p, b, d
      <3>. QED
        BY <3>10, <3>12, <3>14, <3>15
    <2>4. a = <<"me", "special">> => v3' = Recipients!replaceRcpt(Recipients!Push(a), a)
      BY <1>2 DEF Recipients!wrte_special_emails, Recipients!At
    <2>5. a = <<"me", "noreply">> => v3' = v3
      BY <1>2, <<"me", "special">> # <<"me", "noreply">> DEF Recipients!wrte_special_emails, Recipients!At
    <2>6. a = <<"far", "other">> => v3' = v3 \/ v3' = [v3 EXCEPT !.rcpt_to = Append(v3.rcpt_to, a)]
      BY <1>2, <<"me", "special">> # <<"far", "other">>, <<"me", "noreply">> # <<"far", "other">>
         DEF Recipients!wrte_special_emails, Recipients!At, Recipients!Push
    <2>. QED
      BY <1>3, <2>1, <2>2, <2>3, <2>4, <2>5, <2>6
  <1>6. PICK p \in Seq(Given) : v3' = [v3 EXCEPT !.rcpt_to = p] /\ Recipients!In(p) \cap Mine = Recipients!In(q) \cap Mine
                                   /\ Recipients!In(q) \subseteq Recipients!In(p)
    BY <1>5
  <1>7. v3' \in Txn /\ v3'.rcpt_to = p /\ v3'.user = v3.user /\ v3'.open
    BY <1>0, <1>6, SessionFacts DEF Txn
  <1>8. Settled(v2, v3) = Recipients!In(q) /\ Settled(v2', v3') = Recipients!In(p)
    BY <1>0, <1>1, <1>4, <1>7, InIs DEF Settled
  <1>9. Noted(v2', v3')
    BY <1>6, <1>7, <1>8, SessionFacts DEF Noted
  <1>10. InSession(v2', v3')
    BY <1>0, <1>1, <1>7, <1>9 DEF InSession
  <1>11. LookedUp(v2', v3', v4')
    BY <1>0, <1>1, <1>7, StillLookedUp
  <1>. QED
    BY <1>0, <1>10, <1>11 DEF RecipientsInv, Mails, Recipients!InvoiceIsForRecipient, Recipients!PricedByOwn

LEMMA rcpt_Keeps ==
    ASSUME RecipientsAssumed, RecipientsInv, Recipients!rcpt PROVE RecipientsInv'
  <1>0. v1' = v1 /\ v5' = v5 /\ v6' = v6 /\ v7' = v7 /\ v2.up /\ v3.open /\ v2.hook = "none"
    BY DEF Recipients!rcpt, Recipients!Ready, Recipients!None, Recipients!wrte_user_exists
  <1>1. PICK u \in Recipients!Users :
            /\ Recipients!wrte_user_exists(u)
            /\ v2' \in Conn /\ v2'.n = v2.n /\ v2'.up = v2.up /\ v2'.hook = "rcpt"
    <2>0. v2.rcpts + 1 \in Nat
      BY SessionFacts
    <2>1. CASE /\ \E u \in Recipients!Users : Recipients!wrte_user_exists(u)
               /\ v2' = [v2 EXCEPT !.rcpts = v2.rcpts + 1, !.hook = "rcpt"]
      BY <2>0, <2>1, SessionFacts DEF Conn
    <2>2. CASE /\ v2.todo # <<>> /\ Recipients!wrte_user_exists(Head(v2.todo)[2])
               /\ v2' = [v2 EXCEPT !.rcpts = v2.rcpts + 1, !.hook = "rcpt", !.todo = Tail(v2.todo)]
      <3>1. Head(v2.todo) \in Mine /\ Tail(v2.todo) \in Seq(Mine)
        BY <2>2, SessionFacts, HeadTailProperties
      <3>2. Head(v2.todo)[2] \in Recipients!Users
        BY <3>1 DEF Mine
      <3>. QED
        BY <2>0, <2>2, <3>1, <3>2, SessionFacts DEF Conn
    <2>. QED
      BY <2>1, <2>2 DEF Recipients!rcpt
  <1>2. PICK q \in Seq(Given) : q = v3.rcpt_to
    BY SessionFacts
  <1>3. PICK x \in Given : x = <<"me", u>>
    BY DEF Given, Mine
  <1>4. PICK p \in Seq(Given) : p = Append(q, x) /\ p # <<>> /\ p[Len(p)] = x /\ FirstOf(p, Len(p) - 1) = Recipients!In(q)
    BY PushIs
  <1>5. v3' = [v3 EXCEPT !.rcpt_to = p]
    BY <1>1, <1>2, <1>3, <1>4 DEF Recipients!wrte_user_exists, Recipients!Push, Recipients!At
  <1>6. v3' \in Txn /\ v3'.rcpt_to = p /\ v3'.user = v3.user /\ v3'.open
    BY <1>0, <1>5, SessionFacts DEF Txn
  <1>7. Settled(v2, v3) = Recipients!In(q) /\ Settled(v2', v3') = Recipients!In(q)
    BY <1>0, <1>1, <1>2, <1>4, <1>6, InIs DEF Settled
  <1>8. InSession(v2', v3')
    BY <1>0, <1>1, <1>6, <1>7, SessionFacts DEF InSession, Noted
  <1>9. LookedUp(v2', v3', v4')
    <2>1. PICK l : l = [user |-> u, conn |-> v2.n, id |-> v2.rcpts, waits |-> TRUE]
      OBVIOUS
    <2>2. v4' = v4 \cup {l}
      BY <1>1, <2>1 DEF Recipients!wrte_user_exists
    <2>3. l \in Lookups /\ l.user = u /\ l.conn = v2.n /\ l.waits
      BY <2>1, SessionFacts DEF Lookups
    <2>4. Lookup(v2', v3', l)
      BY <1>1, <1>3, <1>4, <1>6, <2>3, SessionFacts DEF Lookup
    <2>5. \A m \in v4 : m \in Lookups /\ ~m.waits /\ Lookup(v2', v3', m)
      BY <1>0, <1>1 DEF RecipientsInv, LookedUp, Lookup
    <2>. QED
      BY <1>4, <1>6, <2>2, <2>3, <2>4, <2>5 DEF LookedUp
  <1>. QED
    BY <1>0, <1>8, <1>9 DEF RecipientsInv, Mails, Recipients!InvoiceIsForRecipient, Recipients!PricedByOwn

LEMMA MailsStay ==
    ASSUME RecipientsInv, v5' = v5, v6' = v6, v7' = v7 PROVE Mails'
  BY DEF RecipientsInv, Mails, Recipients!InvoiceIsForRecipient, Recipients!PricedByOwn

(* The hook's lookup is over.                                              *)
LEMMA NoLongerWaits ==
    ASSUME RecipientsInv, NEW l \in v4, l.waits, NEW c \in Conn, NEW t \in Txn,
           c.n = v2.n, c.up = v2.up, c.hook = "none"
    PROVE  LookedUp(c, t, v4 \ {l})
  BY DEF RecipientsInv, LookedUp, Lookup

LEMMA Answered_Keeps ==
    ASSUME RecipientsAssumed, RecipientsInv, NEW l \in v4,
           Recipients!found(l) \/ Recipients!not_found(l)
    PROVE  RecipientsInv'
  <1>0. /\ v4' = v4 \ {l} /\ v5' = v5 /\ v6' = v6 /\ v7' = v7 /\ l \in Lookups /\ v1' \in BOOLEAN
        /\ Lookup(v2, v3, l)
    BY DEF Recipients!found, Recipients!not_found, RecipientsInv, LookedUp
  <1>1. CASE ~l.waits
    <2>1. v2' = v2 /\ ~(l.conn = v2.n /\ v3.open)
      BY <1>0, <1>1, SessionFacts DEF Recipients!found, Recipients!not_found, Lookup, Lookups
    <2>2. v3' = v3
      BY <1>1, <2>1 DEF Recipients!found, Recipients!not_found
    <2>3. LookedUp(v2, v3, v4')
      BY <1>0 DEF RecipientsInv, LookedUp
    <2>. QED
      BY <1>0, <2>1, <2>2, <2>3, MailsStay DEF RecipientsInv
  <1>2. CASE l.waits
    <2>1. l.conn = v2.n /\ v2.hook = "rcpt" /\ v3.open /\ v3.rcpt_to # <<>> /\ v3.rcpt_to[Len(v3.rcpt_to)] = <<"me", l.user>>
      BY <1>0, <1>2 DEF Lookup, RecipientsInv, LookedUp
    <2>2. v2' = [v2 EXCEPT !.hook = "none"]
      BY <1>2 DEF Recipients!found, Recipients!not_found, Recipients!None
    <2>3. v2' \in Conn /\ v2'.n = v2.n /\ v2'.up = v2.up /\ v2'.hook = "none"
      BY <2>2, SessionFacts DEF Conn
    <2>4. PICK q \in Seq(Given) : q = v3.rcpt_to /\ q # <<>>
      BY <2>1, SessionFacts
    <2>5. Settled(v2, v3) = FirstOf(q, Len(q) - 1)
      BY <2>1, <2>4 DEF Settled
    <2>6. CASE Recipients!found(l)
      <3>1. v3' = [v3 EXCEPT !.user = l.user]
        BY <2>1, <2>6 DEF Recipients!found
      <3>2. l.user \in Recipients!Users
        BY <1>0 DEF Lookups
      <3>3. v3' \in Txn /\ v3'.rcpt_to = q /\ v3'.user = l.user /\ v3'.open
        BY <2>1, <2>4, <3>1, <3>2, SessionFacts DEF Txn, Payers
      <3>4. Len(q) \in Nat /\ Len(q) # 0
        BY <2>4, LenProperties, EmptySeq
      <3>5. <<"me", l.user>> \in FirstOf(q, Len(q))
        BY <2>1, <2>4, <3>4 DEF FirstOf
      <3>6. Noted(v2', v3')
        BY <2>3, <3>2, <3>3, <3>5 DEF Noted, Settled, RecipientsAssumed
      <3>7. InSession(v2', v3')
        BY <2>1, <2>3, <3>3, <3>6, SessionFacts DEF InSession
      <3>8. LookedUp(v2', v3', v4')
        BY <1>0, <1>2, <2>3, <3>3, NoLongerWaits
      <3>. QED
        BY <1>0, <3>7, <3>8, MailsStay DEF RecipientsInv
    <2>7. CASE Recipients!not_found(l)
      <3>1. PICK p \in Seq(Given) : p = SubSeq(q, 1, Len(q) - 1) /\ Recipients!In(p) = FirstOf(q, Len(q) - 1)
        BY <2>4, PopIs
      <3>2. v3' = [v3 EXCEPT !.rcpt_to = p]
        BY <1>2, <2>4, <2>7, <3>1 DEF Recipients!not_found, Recipients!Popped
      <3>3. v3' \in Txn /\ v3'.rcpt_to = p /\ v3'.user = v3.user /\ v3'.open
        BY <2>1, <3>2, SessionFacts DEF Txn
      <3>4. Settled(v2', v3') = Settled(v2, v3)
        BY <2>3, <2>5, <3>1, <3>3, InIs DEF Settled
      <3>5. InSession(v2', v3')
        BY <2>1, <2>3, <3>3, <3>4, SessionFacts DEF InSession, Noted
      <3>6. LookedUp(v2', v3', v4')
        BY <1>0, <1>2, <2>3, <3>3, NoLongerWaits
      <3>. QED
        BY <1>0, <3>5, <3>6, MailsStay DEF RecipientsInv
    <2>. QED
      BY <2>6, <2>7
  <1>. QED
    BY <1>1, <1>2, <1>0 DEF Lookups

LEMMA NewTxnIs ==
    ASSUME NEW c \in Conn, c.up, c.hook = "none"
    PROVE  InSession(c, Recipients!NewTxn)
  <1>1. PICK t : t = Recipients!NewTxn
    OBVIOUS
  <1>2. t.rcpt_to = <<>> /\ t.open = TRUE /\ t.user = "none"
    BY <1>1 DEF Recipients!NewTxn, Recipients!NoTxn, Recipients!None
  <1>3. t \in Txn
    BY <1>1, EmptySeq DEF Txn, Payers, Recipients!NewTxn, Recipients!NoTxn, Recipients!None
  <1>4. FirstOf(t.rcpt_to, Len(t.rcpt_to)) = {}
    BY <1>2, EmptySeq DEF FirstOf
  <1>. QED
    BY <1>1, <1>2, <1>3, <1>4 DEF InSession, Noted, Settled

LEMMA reset_transaction_Keeps ==
    ASSUME RecipientsInv, Recipients!reset_transaction PROVE RecipientsInv'
  <1>0. /\ v1' = v1 /\ v3' = Recipients!NewTxn /\ v4' = v4 /\ v5' = v5 /\ v6' = v6 /\ v7' = v7
        /\ v2.up /\ v2.hook = "none" /\ v2' \in Conn /\ v2'.n = v2.n /\ v2'.up = v2.up /\ v2'.hook = v2.hook
    <2>1. PICK w \in BOOLEAN : v2' = [v2 EXCEPT !.white = w]
      BY DEF Recipients!reset_transaction
    <2>2. v2' \in Conn /\ v2'.n = v2.n /\ v2'.up = v2.up /\ v2'.hook = v2.hook
      BY <2>1, SessionFacts DEF Conn
    <2>. QED
      BY <2>2 DEF Recipients!reset_transaction, Recipients!Ready, Recipients!None
  <1>1. InSession(v2', v3')
    BY <1>0, NewTxnIs, SessionFacts
  <1>2. LookedUp(v2', v3', v4')
    BY <1>0, <1>1, StillLookedUp, SessionFacts DEF InSession
  <1>. QED
    BY <1>0, <1>1, <1>2, MailsStay DEF RecipientsInv

(* The client leaves.                                                      *)
LEMMA LeaveKeeps ==
    ASSUME RecipientsInv, Recipients!Leave, v4' = Recipients!Forsaken
    PROVE  InSession(v2', v3') /\ LookedUp(v2', v3', v4')
  <1>1. v2' = [v2 EXCEPT !.up = FALSE, !.hook = "none"] /\ v3' = Recipients!NoTxn
    BY DEF Recipients!Leave, Recipients!None
  <1>2. v2' \in Conn /\ v2'.n = v2.n /\ v2'.up = FALSE /\ v2'.hook = "none"
    BY <1>1, SessionFacts DEF Conn
  <1>3. InSession(v2', Recipients!NoTxn) /\ LookedUp(v2', Recipients!NoTxn, Recipients!Forsaken)
    BY <1>2, ForsakenAre
  <1>. QED
    BY <1>1, <1>3

LEMMA gone_Keeps ==
    ASSUME RecipientsInv, Recipients!disconnect \/ Recipients!local_bounce \/ Recipients!hook_data_post_error
    PROVE  RecipientsInv'
  <1>1. v1' = v1 /\ v4' = Recipients!Forsaken /\ v5' = v5 /\ v6' = v6 /\ v7' = v7
    BY DEF Recipients!disconnect, Recipients!local_bounce, Recipients!hook_data_post_error
  <1>2. Recipients!Leave
    <2>1. CASE Recipients!disconnect \/ Recipients!local_bounce
      BY <2>1 DEF Recipients!disconnect, Recipients!local_bounce, Recipients!Leave
    <2>2. CASE Recipients!hook_data_post_error
      <3>1. v2.hook = "none" /\ v2' = [v2 EXCEPT !.up = FALSE] /\ v3' = Recipients!NoTxn
        BY <2>2 DEF Recipients!hook_data_post_error, Recipients!Ready, Recipients!None
      <3>2. [v2 EXCEPT !.up = FALSE] = [v2 EXCEPT !.up = FALSE, !.hook = "none"]
        BY <3>1, SessionFacts DEF Conn
      <3>. QED
        BY <3>1, <3>2 DEF Recipients!Leave, Recipients!None
    <2>. QED
      BY <2>1, <2>2
  <1>. QED
    BY <1>1, <1>2, LeaveKeeps, MailsStay DEF RecipientsInv

(* The mail that is queued.                                                *)
LEMMA RewrittenIs ==
    ASSUME RecipientsAssumed, RecipientsInv, v2.hook = "none", NEW payer \in Payers, NEW white \in BOOLEAN,
           v3.user # "none" /\ rcpts.Price[v3.user] > 0 /\ ~white => payer = v3.user
    PROVE  Priced([rcpts |-> Recipients!Rewritten(v3), payer |-> payer, white |-> white])
  <1>1. PICK q \in Seq(Given) : q = v3.rcpt_to
    BY SessionFacts
  <1>2. Len(q) \in Nat /\ DOMAIN q = 1..Len(q) /\ \A i \in 1..Len(q) : q[i] \in Given
    BY LenProperties, ElementOfSeq
  <1>3. PICK r : r = Recipients!Rewritten(v3)
    OBVIOUS
  <1>4. r = [i \in 1..Len(q) |-> IF q[i] = <<"me", v3.user>> THEN <<"own", v3.user>> ELSE q[i]]
    BY <1>1, <1>2, <1>3 DEF Recipients!Rewritten, Recipients!At
  <1>5. \A i \in 1..Len(q) : q[i] = <<"me", v3.user>> => v3.user \in Recipients!Users
    BY <1>2 DEF Given, Mine, Far
  <1>6. r \in [1..Len(q) -> Given \cup Forwards]
    BY <1>2, <1>4, <1>5 DEF Forwards
  <1>7. r \in Seq(Given \cup Forwards)
    BY <1>2, <1>6, SeqDef
  <1>8. PICK e : e = [rcpts |-> r, payer |-> payer, white |-> white]
    OBVIOUS
  <1>9. e.rcpts = r /\ e.payer = payer /\ e.white = white
    BY <1>8
  <1>10. DOMAIN r = 1..Len(q) /\ Recipients!In(r) = {r[i] : i \in 1..Len(q)}
    BY <1>4 DEF Recipients!In
  <1>11. \A u \in Recipients!Own(e) : u = v3.user
    <2>1. TAKE u \in Recipients!Own(e)
    <2>2. PICK i \in 1..Len(q) : r[i] = <<"own", u>>
      BY <1>9, <1>10 DEF Recipients!Own, Recipients!At
    <2>3. q[i] # <<"own", u>>
      BY <1>2 DEF Given, Mine, Far
    <2>. QED
      BY <1>4, <2>2, <2>3
  <1>12. \A u \in Recipients!Own(e) : rcpts.Price[u] > 0 /\ ~e.white => e.payer = u
    BY <1>9, <1>11 DEF Recipients!Own, RecipientsAssumed
  <1>13. Settled(v2, v3) = Recipients!In(q)
    BY <1>1, InIs DEF Settled
  <1>14. ASSUME NEW x \in Recipients!In(r) \cap Mine PROVE Recipients!Own(e) # {}
    <2>1. PICK i \in 1..Len(q) : r[i] = x
      BY <1>10
    <2>2. q[i] = x
      BY <1>4, <2>1 DEF Mine
    <2>3. q[i] \in Recipients!In(q)
      BY <1>2 DEF Recipients!In
    <2>4. v3.user # "none" /\ <<"me", v3.user>> \in Recipients!In(q)
      BY <1>13, <2>2, <2>3, SessionFacts DEF Noted
    <2>5. PICK j \in 1..Len(q) : q[j] = <<"me", v3.user>>
      BY <1>2, <2>4 DEF Recipients!In
    <2>6. r[j] = <<"own", v3.user>> /\ v3.user \in Recipients!Users
      BY <1>4, <1>5, <2>5
    <2>7. v3.user \in Recipients!Own(e)
      BY <1>9, <1>10, <2>5, <2>6 DEF Recipients!Own, Recipients!At
    <2>. QED
      BY <2>7
  <1>15. Priced(e)
    BY <1>7, <1>9, <1>12, <1>14 DEF Priced
  <1>. QED
    BY <1>3, <1>8, <1>15

LEMMA hook_data_post_Keeps ==
    ASSUME RecipientsAssumed, RecipientsInv, Recipients!hook_data_post_free \/ Recipients!hook_data_post
    PROVE  RecipientsInv'
  <1>0. v1' = v1 /\ v4' = Recipients!Forsaken /\ v7' = v7 /\ Recipients!Leave /\ v2.hook = "none"
    BY DEF Recipients!hook_data_post_free, Recipients!hook_data_post, Recipients!Ready, Recipients!None
  <1>1. InSession(v2', v3') /\ LookedUp(v2', v3', v4')
    BY <1>0, LeaveKeeps
  <1>2. PICK payer \in Payers :
            /\ v3.user # "none" /\ rcpts.Price[v3.user] > 0 /\ ~v2.white => payer = v3.user
            /\ Recipients!Queued(Recipients!Rewritten(v3), payer)
    <2>1. CASE Recipients!hook_data_post_free
      <3>1. v3.user # "none" /\ ~v2.white => ~(rcpts.Price[v3.user] > 0)
        <4>1. v3.user # "none" /\ ~v2.white => rcpts.Price[v3.user] = 0
          BY <2>1 DEF Recipients!hook_data_post_free, Recipients!Unpriced, Recipients!PriceOf, Recipients!None
        <4>. QED
          BY <4>1
      <3>2. "none" \in Payers /\ Recipients!Queued(Recipients!Rewritten(v3), "none")
        BY <2>1 DEF Recipients!hook_data_post_free, Recipients!None, Payers
      <3>. QED
        BY <3>1, <3>2
    <2>2. CASE Recipients!hook_data_post
      BY <2>2, SessionFacts DEF Recipients!hook_data_post
    <2>. QED
      BY <2>1, <2>2
  <1>3. PICK e : e = [rcpts |-> Recipients!Rewritten(v3), payer |-> payer, white |-> v2.white]
    OBVIOUS
  <1>a. PICK w \in BOOLEAN : w = v2.white
    BY SessionFacts
  <1>b. v3.user # "none" /\ rcpts.Price[v3.user] > 0 /\ ~w => payer = v3.user
    BY <1>2, <1>a
  <1>c. Priced([rcpts |-> Recipients!Rewritten(v3), payer |-> payer, white |-> w])
    BY <1>0, <1>b, RewrittenIs
  <1>4. Priced(e)
    BY <1>3, <1>a, <1>c
  <1>5. v5' = v5 \cup {e}
    BY <1>2, <1>3 DEF Recipients!Queued
  <1>6. \A x \in v5' : Priced(x)
    BY <1>4, <1>5 DEF RecipientsInv, Mails
  <1>7. Recipients!InvoiceIsForRecipient'
    <2>1. CASE Recipients!hook_data_post_free
      BY <2>1 DEF Recipients!hook_data_post_free, Recipients!InvoiceIsForRecipient, RecipientsInv, Mails
    <2>2. CASE Recipients!hook_data_post
      <3>1. PICK i : i = [user |-> v3.user, rcpts |-> Recipients!WrteUsers(v3.rcpt_to)]
        OBVIOUS
      <3>2. v6' = v6 \cup {i}
        BY <2>2, <3>1 DEF Recipients!hook_data_post
      <3>3. v3.user # "none"
        BY <2>2 DEF Recipients!hook_data_post, Recipients!Unpriced, Recipients!PriceOf, Recipients!None
      <3>4. <<"me", v3.user>> \in Recipients!In(v3.rcpt_to)
        BY <1>0, <3>3, SessionFacts, InIs DEF Noted, Settled
      <3>5. v3.user \in Recipients!Users
        BY <3>3, SessionFacts DEF Payers
      <3>6. i.user \in i.rcpts
        BY <3>1, <3>4, <3>5 DEF Recipients!WrteUsers, Recipients!At
      <3>. QED
        BY <3>2, <3>6 DEF Recipients!InvoiceIsForRecipient, RecipientsInv, Mails
    <2>. QED
      BY <2>1, <2>2
  <1>8. Recipients!PricedByOwn'
    BY <1>0 DEF Recipients!PricedByOwn, RecipientsInv, Mails
  <1>. QED
    BY <1>0, <1>1, <1>6, <1>7, <1>8 DEF RecipientsInv, Mails

LEMMA hook_get_mx_Keeps ==
    ASSUME RecipientsAssumed, RecipientsInv, Recipients!hook_get_mx PROVE RecipientsInv'
  <1>0. v1' = v1 /\ v4' = v4 /\ v6' = v6 /\ ~v2.up
    BY DEF Recipients!hook_get_mx
  <1>1. PICK e \in v5 :
            /\ v5' = v5 \ {e}
            /\ v7' = v7 \cup {[user |-> u, payer |-> e.payer, white |-> e.white] : u \in Recipients!Own(e)}
            /\ IF Recipients!ToMe(e) = <<>> THEN UNCHANGED <<v2, v3>>
               ELSE /\ v2' = [n |-> v2.n + 1, up |-> TRUE, from |-> "local", hook |-> "none",
                               todo |-> Recipients!ToMe(e), rcpts |-> 0, white |-> e.white]
                    /\ v3' = Recipients!NewTxn
    BY DEF Recipients!hook_get_mx, Recipients!None
  <1>2. Priced(e)
    BY DEF RecipientsInv, Mails
  <1>3. Recipients!ToMe(e) \in Seq(Mine)
    <2>1. PICK S : S = {a \in Recipients!In(e.rcpts) : a[1] = "me"}
      OBVIOUS
    <2>2. PICK s \in Seq(Given \cup Forwards) : s = Recipients!Chosen(e.rcpts, S) /\ Recipients!In(s) = Recipients!In(e.rcpts) \cap S
      BY <1>2, ChosenIs DEF Priced
    <2>3. Recipients!In(e.rcpts) \subseteq Given \cup Forwards
      BY <1>2, InIs DEF Priced
    <2>4. Recipients!In(s) \subseteq Mine
      BY <2>1, <2>2, <2>3 DEF Given, Mine, Far, Forwards
    <2>. QED
      BY <2>1, <2>2, <2>4, SeqOver DEF Recipients!ToMe
  <1>4. InSession(v2', v3') /\ LookedUp(v2', v3', v4')
    <2>1. CASE Recipients!ToMe(e) = <<>>
      BY <1>0, <1>1, <2>1 DEF RecipientsInv
    <2>2. CASE Recipients!ToMe(e) # <<>>
      <3>1. v2.n + 1 \in Nat /\ v2.n < v2.n + 1
        BY SessionFacts
      <3>2. v2' \in Conn /\ v2'.up /\ v2'.hook = "none" /\ v2'.n = v2.n + 1
        <4>1. PICK s \in Seq(Mine) : s = Recipients!ToMe(e)
          BY <1>3
        <4>2. PICK n \in Nat : n = v2.n + 1
          BY <3>1
        <4>a. PICK w \in BOOLEAN : w = e.white
          BY <1>2 DEF Priced
        <4>3. v2' = [n |-> n, up |-> TRUE, from |-> "local", hook |-> "none", todo |-> s, rcpts |-> 0, white |-> w]
          BY <1>1, <2>2, <4>1, <4>2, <4>a
        <4>. QED
          BY <4>2, <4>3 DEF Conn
      <3>3. InSession(v2', v3')
        BY <1>1, <2>2, <3>2, NewTxnIs
      <3>4. v2.hook = "none"
        BY <1>0, SessionFacts DEF RecipientsInv, LookedUp
      <3>5. \A l \in v4 : ~l.waits /\ Lookup(v2', v3', l)
        <4>1. TAKE l \in v4
        <4>2. Lookup(v2, v3, l) /\ l.conn \in Nat
          BY DEF RecipientsInv, LookedUp, Lookups
        <4>3. ~l.waits /\ l.conn <= v2.n
          BY <3>4, <4>2 DEF Lookup
        <4>4. l.conn < v2.n + 1
          BY <4>2, <4>3, SessionFacts
        <4>. QED
          BY <3>1, <3>2, <4>2, <4>3, <4>4 DEF Lookup
      <3>6. LookedUp(v2', v3', v4')
        BY <1>0, <3>2, <3>5 DEF LookedUp, RecipientsInv
      <3>. QED
        BY <3>3, <3>6
    <2>. QED
      BY <2>1, <2>2
  <1>5. Mails'
    <2>1. Recipients!PricedByOwn'
      <3>1. SUFFICES ASSUME NEW f \in v7', rcpts.Price[f.user] > 0, ~f.white PROVE f.payer = f.user
        BY DEF Recipients!PricedByOwn
      <3>2. CASE f \in v7
        BY <3>1, <3>2 DEF RecipientsInv, Mails, Recipients!PricedByOwn
      <3>3. CASE f \notin v7
        <4>1. PICK u \in Recipients!Own(e) : f = [user |-> u, payer |-> e.payer, white |-> e.white]
          BY <1>1, <3>3
        <4>. QED
          BY <1>2, <3>1, <4>1 DEF Priced
      <3>. QED
        BY <3>2, <3>3
    <2>. QED
      BY <1>0, <1>1, <2>1 DEF RecipientsInv, Mails, Recipients!InvoiceIsForRecipient
  <1>. QED
    BY <1>0, <1>4, <1>5 DEF RecipientsInv

LEMMA RecipientsInit ==
    ASSUME Recipients!Init PROVE RecipientsInv
  <1>1. v2 \in Conn /\ v2.up /\ v2.hook = "none"
    BY EmptySeq DEF Recipients!Init, Recipients!None, Conn
  <1>2. InSession(v2, v3)
    BY <1>1, NewTxnIs DEF Recipients!Init
  <1>. QED
    BY <1>1, <1>2 DEF Recipients!Init, RecipientsInv, LookedUp, Mails, Recipients!InvoiceIsForRecipient, Recipients!PricedByOwn

LEMMA RecipientsNext ==
    ASSUME RecipientsAssumed, rcpts.InTime = TRUE, RecipientsInv, Recipients!Next PROVE RecipientsInv'
  <1>1. ~Recipients!hook_timeout
    BY DEF Recipients!hook_timeout
  <1>. QED
    BY <1>1, rcpt_other_Keeps, rcpt_Keeps, Answered_Keeps, reset_transaction_Keeps, gone_Keeps,
       hook_data_post_Keeps, hook_get_mx_Keeps
       DEF Recipients!Next, Recipients!Answered, Recipients!DataPost

LEMMA RecipientsPromise ==
    ASSUME RecipientsInv
    PROVE  Recipients!PricedByOwn /\ Recipients!InvoiceIsForRecipient /\ Recipients!LoopServes
  <1>1. ASSUME NEW e \in v5, Recipients!ToMe(e) # <<>> PROVE Recipients!Own(e) # {}
    <2>0. Priced(e)
      BY DEF RecipientsInv, Mails
    <2>1. PICK S : S = {a \in Recipients!In(e.rcpts) : a[1] = "me"}
      OBVIOUS
    <2>2. PICK s \in Seq(Given \cup Forwards) : s = Recipients!Chosen(e.rcpts, S) /\ Recipients!In(s) = Recipients!In(e.rcpts) \cap S
      BY <2>0, ChosenIs DEF Priced
    <2>3. Recipients!In(e.rcpts) \subseteq Given \cup Forwards
      BY <2>0, InIs DEF Priced
    <2>4. Recipients!In(s) \subseteq Mine
      BY <2>1, <2>2, <2>3 DEF Given, Mine, Far, Forwards
    <2>5. s # <<>>
      BY <1>1, <2>1, <2>2 DEF Recipients!ToMe
    <2>6. 1 \in DOMAIN s
      BY <2>2, <2>5, EmptySeq, LenProperties
    <2>7. s[1] \in Recipients!In(s)
      BY <2>6 DEF Recipients!In
    <2>. QED
      BY <2>0, <2>2, <2>4, <2>7 DEF Priced
  <1>. QED
    BY <1>1 DEF RecipientsInv, Mails, Recipients!LoopServes

----------------------------------------------------------------------------
(***************************************************************************)
(* The timer queue (v1 queue, v3 clock, v4 added, v5 ran, v7 thrown).      *)
(***************************************************************************)

Timer == [id : Nat, fire_time : Nat, cb : BOOLEAN]

(* The order of the queue.                                                 *)
Before(t, u) == \/ t.fire_time < u.fire_time
                \/ t.fire_time = u.fire_time /\ t.id < u.id

Sorted(q) == \A i, j \in 1..Len(q) : i < j => Before(q[i], q[j])

Ids(q) == {q[i].id : i \in 1..Len(q)}

(* The invariant: the queue is sorted, its timers are among those made,    *)
(* and the others have run.                                                *)
TimersInv ==
    /\ v1 \in Seq(Timer)
    /\ v3 \in [now : Nat, taken : Nat]
    /\ v4 \in Nat
    /\ Sorted(v1)
    /\ Ids(v1) \cup v5 = 1..v4
    /\ ~v7

----------------------------------------------------------------------------
(* The order.                                                              *)

LEMMA BeforeTransitive ==
    ASSUME NEW t \in Timer, NEW u \in Timer, NEW v \in Timer,
           Before(t, u), Before(u, v)
    PROVE  Before(t, v)
  <1>. DEFINE a == t.fire_time
              b == u.fire_time
              c == v.fire_time
              i == t.id
              j == u.id
              k == v.id
  <1>1. a \in Nat /\ b \in Nat /\ c \in Nat /\ i \in Nat /\ j \in Nat /\ k \in Nat
    BY DEF Timer
  <1>2. (a < b \/ (a = b /\ i < j)) /\ (b < c \/ (b = c /\ j < k))
    BY DEF Before
  <1>3. a < c \/ (a = c /\ i < k)
    <2>. HIDE DEF a, b, c, i, j, k
    <2>. QED
      BY <1>1, <1>2
  <1>. QED
    BY <1>3 DEF Before

(* A set of positions has a first.                                         *)
LEMMA FirstIs ==
    ASSUME NEW S \in SUBSET Nat, S # {}
    PROVE  Timers!First(S) \in S /\ \A j \in S : Timers!First(S) <= j
  <1>1. PICK x \in S : \A y \in S : ~ (<<y, x>> \in OpToRel(<, Nat))
    BY NatLessThanWellFounded, WFMin
  <1>2. \A y \in S : x <= y
    <2>1. SUFFICES ASSUME NEW y \in S, ~(x <= y)
                   PROVE  FALSE
      OBVIOUS
    <2>2. y < x /\ x \in Nat /\ y \in Nat
      BY <2>1
    <2>3. <<y, x>> \in OpToRel(<, Nat)
      BY <2>2 DEF OpToRel
    <2>. QED
      BY <1>1, <2>3
  <1>. QED
    BY <1>2 DEF Timers!First

(* With an element put before position k.                                  *)
HasAt(r, q, k, t) ==
    /\ r \in Seq(Timer) /\ Len(r) = Len(q) + 1
    /\ \A i \in 1..k - 1 : r[i] = q[i]
    /\ r[k] = t
    /\ \A i \in k + 1..Len(q) + 1 : r[i] = q[i - 1]

LEMMA SplicedIs ==
    ASSUME NEW q \in Seq(Timer), NEW k \in 1..Len(q) + 1, NEW t \in Timer,
           NEW r, r = Timers!Spliced(q, k, t)
    PROVE  HasAt(r, q, k, t)
  <1>. SUFFICES /\ r \in Seq(Timer) /\ Len(r) = Len(q) + 1
                /\ \A i \in 1..k - 1 : r[i] = q[i]
                /\ r[k] = t
                /\ \A i \in k + 1..Len(q) + 1 : r[i] = q[i - 1]
    BY DEF HasAt
  <1>. DEFINE n == Len(q)
              a == SubSeq(q, 1, k - 1)
              b == SubSeq(q, k, n)
              m == <<t>>
              am == a \o m
  <1>1. n \in Nat /\ \A i \in 1..n : q[i] \in Timer
    BY LenProperties, ElementOfSeq
  <1>2. k \in Int /\ k >= 1 /\ k <= n + 1
    BY <1>1
  <1>3. a \in Seq(Timer) /\ Len(a) = k - 1 /\ \A i \in 1..k - 1 : a[i] = q[i]
    <2>. HIDE DEF n
    <2>1. \A i \in 1..(k - 1) : q[i] \in Timer
      BY <1>1, <1>2
    <2>2. /\ a \in Seq(Timer)
          /\ Len(a) = IF 1 <= k - 1 THEN (k - 1) - 1 + 1 ELSE 0
          /\ \A i \in 1..((k - 1) - 1 + 1) : a[i] = q[1 + i - 1]
      BY <1>2, <2>1, SubSeqProperties
    <2>. HIDE DEF a
    <2>. QED
      BY <1>2, <2>2
  <1>4. b \in Seq(Timer) /\ Len(b) = n + 1 - k /\ \A i \in 1..n + 1 - k : b[i] = q[k + i - 1]
    <2>1. PICK nn : nn = n
      OBVIOUS
    <2>2. nn \in Nat /\ k <= nn + 1 /\ b = SubSeq(q, k, nn) /\ \A i \in 1..nn : q[i] \in Timer
      BY <1>1, <1>2, <2>1
    <2>. HIDE DEF n, b
    <2>3. \A i \in k..nn : q[i] \in Timer
      BY <1>2, <2>2
    <2>4. /\ b \in Seq(Timer)
          /\ Len(b) = IF k <= nn THEN nn - k + 1 ELSE 0
          /\ \A i \in 1..(nn - k + 1) : b[i] = q[k + i - 1]
      BY <1>2, <2>2, <2>3, SubSeqProperties
    <2>. QED
      BY <1>2, <2>1, <2>2, <2>4
  <1>5. m \in Seq(Timer) /\ Len(m) = 1 /\ m[1] = t
    OBVIOUS
  <1>. HIDE DEF a, b, m, n
  <1>6. /\ am \in Seq(Timer) /\ Len(am) = k
        /\ \A i \in 1..k - 1 : am[i] = q[i]
        /\ am[k] = t
    <2>1. /\ am \in Seq(Timer)
          /\ Len(am) = Len(a) + Len(m)
          /\ \A i \in 1..Len(a) + Len(m) :
                am[i] = IF i <= Len(a) THEN a[i] ELSE m[i - Len(a)]
      BY <1>3, <1>5, ConcatProperties
    <2>. HIDE DEF am
    <2>2. /\ Len(am) = (k - 1) + 1
          /\ \A i \in 1..(k - 1) + 1 :
                am[i] = IF i <= k - 1 THEN a[i] ELSE m[i - (k - 1)]
      BY <2>1, <1>3, <1>5
    <2>3. Len(am) = k
      BY <2>2, <1>2
    <2>4. ASSUME NEW i \in 1..k - 1
          PROVE  am[i] = q[i]
      <3>1. i \in 1..(k - 1) + 1 /\ i <= k - 1
        BY <1>2
      <3>2. am[i] = a[i]
        BY <2>2, <3>1
      <3>. QED
        BY <3>2, <1>3, <2>4
    <2>5. am[k] = t
      <3>1. k \in 1..(k - 1) + 1 /\ ~(k <= k - 1) /\ k - (k - 1) = 1
        BY <1>2
      <3>2. am[k] = m[k - (k - 1)]
        BY <2>2, <3>1
      <3>. QED
        BY <3>1, <3>2, <1>5
    <2>. QED
      BY <2>1, <2>3, <2>4, <2>5
  <1>. HIDE DEF am
  <1>7. /\ r \in Seq(Timer) /\ Len(r) = n + 1
        /\ \A i \in 1..n + 1 : r[i] = IF i <= k THEN am[i] ELSE b[i - k]
    <2>1. r = am \o b
      BY DEF Timers!Spliced, am, a, b, m, n
    <2>2. /\ am \o b \in Seq(Timer)
          /\ Len(am \o b) = Len(am) + Len(b)
          /\ \A i \in 1..Len(am) + Len(b) :
                (am \o b)[i] = IF i <= Len(am) THEN am[i] ELSE b[i - Len(am)]
      BY <1>4, <1>6, ConcatProperties
    <2>3. Len(am) + Len(b) = n + 1
      BY <1>1, <1>2, <1>4, <1>6
    <2>. QED
      BY <1>6, <2>1, <2>2, <2>3
  <1>8. ASSUME NEW i \in 1..k - 1
        PROVE  r[i] = q[i]
    <2>1. i \in 1..n + 1 /\ i <= k
      BY <1>1, <1>2
    <2>. QED
      BY <1>6, <1>7, <1>8, <2>1
  <1>9. r[k] = t
    <2>1. k \in 1..n + 1 /\ k <= k
      BY <1>1, <1>2
    <2>. QED
      BY <1>6, <1>7, <2>1
  <1>10. ASSUME NEW i \in k + 1..n + 1
         PROVE  r[i] = q[i - 1]
    <2>1. i - k \in 1..n + 1 - k /\ i \in 1..n + 1 /\ ~(i <= k) /\ k + (i - k) - 1 = i - 1
      BY <1>1, <1>2
    <2>. QED
      BY <1>4, <1>7, <2>1
  <1>. QED
    BY <1>7, <1>8, <1>9, <1>10 DEF n

(* Put before the first one that comes after it, or at the end, a timer    *)
(* leaves the queue sorted.                                                *)
LEMMA PutIsSorted ==
    ASSUME NEW q \in Seq(Timer), Sorted(q), NEW k \in 1..Len(q) + 1, NEW t \in Timer,
           NEW r \in Seq(Timer), Len(r) = Len(q) + 1,
           \A i \in 1..k - 1 : r[i] = q[i],
           r[k] = t,
           \A i \in k + 1..Len(q) + 1 : r[i] = q[i - 1],
           \A i \in 1..k - 1 : Before(q[i], t),
           \A i \in k..Len(q) : Before(t, q[i])
    PROVE  Sorted(r) /\ Ids(r) = Ids(q) \cup {t.id}
  <1>. PICK n \in Nat : n = Len(q)
    BY LenProperties
  <1>1. ASSUME NEW i \in 1..n + 1, NEW j \in 1..n + 1, i < j
        PROVE  Before(r[i], r[j])
    <2>1. CASE j < k
      <3>1. i \in 1..k - 1 /\ j \in 1..k - 1 /\ i \in 1..n /\ j \in 1..n
        BY <1>1, <2>1
      <3>. QED
        BY <1>1, <3>1 DEF Sorted
    <2>2. CASE j = k
      <3>1. i \in 1..k - 1
        BY <1>1, <2>2
      <3>. QED
        BY <3>1, <2>2
    <2>3. CASE j > k
      <3>1. j \in k + 1..n + 1 /\ j - 1 \in 1..n /\ j - 1 \in k..n
        BY <1>1, <2>3
      <3>2. r[j] = q[j - 1]
        BY <3>1
      <3>3. CASE i < k
        <4>1. i \in 1..k - 1 /\ i \in 1..n /\ i < j - 1
          BY <3>3, <3>1, <2>3
        <4>. QED
          BY <3>1, <3>2, <4>1 DEF Sorted
      <3>4. CASE i = k
        BY <3>1, <3>2, <3>4
      <3>5. CASE i > k
        <4>1. i \in k + 1..n + 1 /\ i - 1 \in 1..n /\ i - 1 < j - 1
          BY <1>1, <3>5
        <4>. QED
          BY <3>1, <3>2, <4>1 DEF Sorted
      <3>. QED
        BY <3>3, <3>4, <3>5, <1>1
    <2>. QED
      BY <2>1, <2>2, <2>3, <1>1
  <1>2. ASSUME NEW i \in 1..n + 1
        PROVE  r[i].id \in Ids(q) \cup {t.id}
    <2>1. CASE i < k
      <3>1. i \in 1..k - 1 /\ i \in 1..n
        BY <1>2, <2>1
      <3>. QED
        BY <3>1 DEF Ids
    <2>2. CASE i = k
      BY <2>2
    <2>3. CASE i > k
      <3>1. i \in k + 1..n + 1 /\ i - 1 \in 1..n
        BY <1>2, <2>3
      <3>. QED
        BY <3>1 DEF Ids
    <2>. QED
      BY <2>1, <2>2, <2>3, <1>2
  <1>3. ASSUME NEW i \in 1..n
        PROVE  q[i].id \in Ids(r)
    <2>1. CASE i < k
      <3>1. i \in 1..k - 1 /\ i \in 1..n + 1
        BY <1>3, <2>1
      <3>. QED
        BY <3>1 DEF Ids
    <2>2. CASE ~(i < k)
      <3>1. i + 1 \in k + 1..n + 1 /\ i + 1 \in 1..n + 1 /\ (i + 1) - 1 = i
        BY <1>3, <2>2
      <3>2. r[i + 1] = q[i]
        BY <3>1
      <3>. QED
        BY <3>1, <3>2 DEF Ids
    <2>. QED
      BY <2>1, <2>2
  <1>4. t.id \in Ids(r)
    BY DEF Ids
  <1>. QED
    BY <1>1, <1>2, <1>3, <1>4 DEF Sorted, Ids

(* Sorted by what comes before, a queue is sorted by the times.            *)
LEMMA TimesRise ==
    ASSUME NEW q \in Seq(Timer), Sorted(q),
           NEW i \in 1..Len(q), NEW j \in 1..Len(q), i <= j
    PROVE  q[i].fire_time <= q[j].fire_time
  <1>1. q[i] \in Timer /\ q[j] \in Timer /\ i \in Int /\ j \in Int
    BY ElementOfSeq
  <1>. DEFINE a == q[i].fire_time
              b == q[j].fire_time
  <1>2. a \in Nat /\ b \in Nat
    BY <1>1 DEF Timer
  <1>3. i = j => a = b
    OBVIOUS
  <1>4. i < j => a < b \/ a = b
    BY DEF Sorted, Before
  <1>. HIDE DEF a, b
  <1>5. a <= b
    BY <1>1, <1>2, <1>3, <1>4
  <1>. QED
    BY <1>5 DEF a, b

(* add: a new timer goes to its place, and there is one.                   *)
LEMMA InsertedIs ==
    ASSUME NEW q \in Seq(Timer), Sorted(q), NEW t \in Timer,
           \A i \in 1..Len(q) : q[i].id < t.id
    PROVE  /\ Timers!Inserted(q, t) \in Seq(Timer)
           /\ Sorted(Timers!Inserted(q, t))
           /\ Ids(Timers!Inserted(q, t)) = Ids(q) \cup {t.id}
           /\ q # <<>> /\ t.fire_time < q[Len(q)].fire_time => Timers!Later(q, t.fire_time) # {}
  <1>. PICK n \in Nat : n = Len(q)
    BY LenProperties
  <1>. DEFINE T(i) == q[i].fire_time
              f    == t.fire_time
  <1>1. /\ \A i \in 1..n : q[i] \in Timer /\ T(i) \in Nat
        /\ f \in Nat
        /\ DOMAIN q = 1..n
        /\ q = <<>> <=> n = 0
        /\ n > 0 => q[Len(q)] = q[n] /\ n \in 1..n
    <2>1. \A i \in 1..n : q[i] \in Timer
      BY ElementOfSeq
    <2>2. q = <<>> <=> n = 0
      BY EmptySeq
    <2>. QED
      BY <2>1, <2>2 DEF Timer
  <1>2. Timers!Later(q, f) = {i \in 1..n : T(i) > f}
    BY <1>1 DEF Timers!Later
  <1>3. CASE n = 0 \/ f >= T(n)
    <2>. DEFINE r == Append(q, t)
    <2>1. Timers!Inserted(q, t) = r
      BY <1>1, <1>3 DEF Timers!Inserted
    <2>2. /\ r \in Seq(Timer) /\ Len(r) = n + 1
          /\ \A i \in 1..n : r[i] = q[i]
          /\ r[n + 1] = t
      BY AppendProperties
    <2>3. ASSUME NEW i \in 1..n
          PROVE  Before(q[i], t)
      <3>1. n > 0 /\ i <= n /\ n \in 1..n
        BY <2>3
      <3>2. T(i) <= T(n)
        BY <3>1, TimesRise
      <3>3. T(i) \in Nat /\ T(n) \in Nat /\ T(n) <= f
        BY <1>1, <1>3, <3>1
      <3>. HIDE DEF T, f
      <3>4. T(i) < f \/ T(i) = f
        BY <1>1, <3>2, <3>3
      <3>. QED
        BY <3>4 DEF Before, T, f
    <2>. HIDE DEF r
    <2>4. Sorted(r) /\ Ids(r) = Ids(q) \cup {t.id}
      <3>1. PICK k : k = n + 1
        OBVIOUS
      <3>2. /\ k \in 1..Len(q) + 1
            /\ Len(r) = Len(q) + 1
            /\ \A i \in 1..k - 1 : r[i] = q[i]
            /\ r[k] = t
            /\ \A i \in k + 1..Len(q) + 1 : r[i] = q[i - 1]
            /\ \A i \in 1..k - 1 : Before(q[i], t)
            /\ \A i \in k..Len(q) : Before(t, q[i])
        BY <2>2, <2>3, <3>1
      <3>. QED
        BY <2>2, <3>2, PutIsSorted
    <2>5. ~(q # <<>> /\ f < q[Len(q)].fire_time)
      <3>1. n > 0 => T(n) \in Nat /\ f >= T(n)
        BY <1>1, <1>3
      <3>. HIDE DEF f
      <3>2. n > 0 => ~(f < T(n))
        BY <1>1, <3>1
      <3>. QED
        BY <1>1, <3>2
    <2>. QED
      BY <2>1, <2>2, <2>4, <2>5
  <1>4. CASE n > 0 /\ ~(f >= T(n))
    <2>. DEFINE S == Timers!Later(q, f)
                k == Timers!First(S)
                r == Timers!Spliced(q, k, t)
    <2>1. n \in S /\ S \in SUBSET Nat
      BY <1>1, <1>2, <1>4
    <2>2. k \in S /\ \A j \in S : k <= j
      BY <2>1, FirstIs
    <2>3. k \in 1..n /\ T(k) > f
      BY <1>2, <2>2
    <2>4. Timers!Inserted(q, t) = r
      BY <1>1, <1>4 DEF Timers!Inserted
    <2>5. PICK rr : rr = r
      OBVIOUS
    <2>. HIDE DEF S, k
    <2>6. k \in 1..Len(q) + 1
      BY <2>3
    <2>7. /\ rr \in Seq(Timer) /\ Len(rr) = Len(q) + 1
          /\ \A i \in 1..k - 1 : rr[i] = q[i]
          /\ rr[k] = t
          /\ \A i \in k + 1..Len(q) + 1 : rr[i] = q[i - 1]
      <3>. PICK j : j = k
        OBVIOUS
      <3>1. rr = Timers!Spliced(q, j, t) /\ j \in 1..Len(q) + 1
        BY <2>5, <2>6
      <3>2. HasAt(rr, q, j, t)
        BY ONLY <3>1, q \in Seq(Timer), t \in Timer, SplicedIs
      <3>. QED
        BY <3>2 DEF HasAt
    <2>. HIDE DEF r
    <2>8. ASSUME NEW i \in 1..k - 1
          PROVE  Before(q[i], t)
      <3>1. i \in 1..n /\ ~(k <= i)
        BY <2>3
      <3>2. i \notin S
        BY <2>2, <3>1
      <3>3. ~(T(i) > f) /\ T(i) \in Nat
        BY <1>1, <1>2, <3>1, <3>2 DEF S
      <3>. HIDE DEF T, f
      <3>4. T(i) < f \/ T(i) = f
        BY <1>1, <3>3
      <3>. QED
        BY <3>1, <3>4 DEF Before, T, f
    <2>9. ASSUME NEW i \in k..Len(q)
          PROVE  Before(t, q[i])
      <3>1. i \in 1..n /\ k <= i
        BY <2>3
      <3>2. T(k) <= T(i)
        BY <2>3, <3>1, TimesRise
      <3>3. T(i) \in Nat /\ T(k) \in Nat
        BY <1>1, <2>3, <3>1
      <3>. HIDE DEF T, f
      <3>4. f < T(i)
        BY <1>1, <2>3, <3>2, <3>3
      <3>. QED
        BY <3>4 DEF Before, T, f
    <2>10. Sorted(rr) /\ Ids(rr) = Ids(q) \cup {t.id}
      BY <2>6, <2>7, <2>8, <2>9, PutIsSorted
    <2>. QED
      BY <2>1, <2>4, <2>5, <2>7, <2>10 DEF S
  <1>. QED
    BY <1>3, <1>4

(* The first timer is taken.                                               *)
LEMMA TailIsSorted ==
    ASSUME NEW q \in Seq(Timer), q # <<>>, Sorted(q)
    PROVE  /\ Tail(q) \in Seq(Timer) /\ Sorted(Tail(q))
           /\ Ids(q) = Ids(Tail(q)) \cup {Head(q).id}
  <1>. PICK n \in Nat : n = Len(q)
    BY LenProperties
  <1>. PICK r : r = Tail(q)
    OBVIOUS
  <1>1. /\ r \in Seq(Timer) /\ Len(r) = n - 1
        /\ \A i \in 1..n - 1 : r[i] = q[i + 1]
    BY HeadTailProperties
  <1>2. Head(q) = q[1] /\ n > 0
    BY EmptySeq
  <1>3. ASSUME NEW i \in 1..n - 1, NEW j \in 1..n - 1, i < j
        PROVE  Before(r[i], r[j])
    <2>1. i + 1 \in 1..n /\ j + 1 \in 1..n /\ i + 1 < j + 1
      BY <1>3
    <2>. QED
      BY <1>1, <2>1 DEF Sorted
  <1>4. ASSUME NEW i \in 1..n
        PROVE  q[i].id \in Ids(r) \cup {q[1].id}
    <2>1. CASE i = 1
      BY <2>1
    <2>2. CASE i # 1
      <3>1. i - 1 \in 1..n - 1 /\ (i - 1) + 1 = i
        BY <1>4, <2>2
      <3>2. r[i - 1] = q[i]
        BY <1>1, <3>1
      <3>. QED
        BY <1>1, <3>1, <3>2 DEF Ids
    <2>. QED
      BY <2>1, <2>2
  <1>5. ASSUME NEW i \in 1..n - 1
        PROVE  r[i].id \in Ids(q)
    <2>1. i + 1 \in 1..n
      BY <1>5
    <2>. QED
      BY <1>1, <2>1 DEF Ids
  <1>6. 1 \in 1..n
    BY <1>2
  <1>. QED
    BY <1>1, <1>2, <1>3, <1>4, <1>5, <1>6 DEF Sorted, Ids

----------------------------------------------------------------------------
(* The steps.                                                              *)

(* add, to the queue or to what a running loop has left of it.             *)
LEMMA AddKeeps ==
    ASSUME TimersAssumed, TimersInv,
           NEW q \in Seq(Timer), Sorted(q), Ids(q) \subseteq 1..v4, Timers!Add(q)
    PROVE  /\ v1' \in Seq(Timer) /\ Sorted(v1') /\ ~v7'
           /\ v4' = v4 + 1 /\ v4' \in Nat
           /\ Ids(v1') = Ids(q) \cup {v4'}
  <1>1. v4 \in Nat /\ v4' = v4 + 1 /\ v3.now \in Nat /\ ~v7
    BY DEF TimersInv, Timers!Add
  <1>2. PICK ms \in timers.Delays :
          /\ v1' = Timers!Inserted(q, Timers!TQTimer(ms))
          /\ v7' = (v7 \/ (/\ q # <<>> /\ Timers!TQTimer(ms).fire_time < q[Len(q)].fire_time
                                   /\ Timers!Later(q, Timers!TQTimer(ms).fire_time) = {}))
    BY DEF Timers!Add
  <1>. PICK t : t = Timers!TQTimer(ms)
    OBVIOUS
  <1>3. ms \in Nat
    BY DEF TimersAssumed
  <1>4. t = [id |-> v4 + 1, fire_time |-> v3.now + ms, cb |-> TRUE]
    BY DEF Timers!TQTimer
  <1>5. v4 + 1 \in Nat /\ v3.now + ms \in Nat
    BY <1>1, <1>3
  <1>6. t \in Timer /\ t.id = v4 + 1
    BY <1>4, <1>5 DEF Timer
  <1>7. ASSUME NEW i \in 1..Len(q)
        PROVE  q[i].id < t.id
    <2>1. q[i].id \in 1..v4
      BY DEF Ids
    <2>. QED
      BY <1>1, <1>6, <2>1
  <1>8. /\ Timers!Inserted(q, t) \in Seq(Timer)
        /\ Sorted(Timers!Inserted(q, t))
        /\ Ids(Timers!Inserted(q, t)) = Ids(q) \cup {t.id}
        /\ q # <<>> /\ t.fire_time < q[Len(q)].fire_time => Timers!Later(q, t.fire_time) # {}
    BY <1>6, <1>7, InsertedIs
  <1>. QED
    BY <1>1, <1>2, <1>5, <1>6, <1>8

LEMMA add_Keeps == ASSUME TimersAssumed, TimersInv, Timers!add PROVE TimersInv'
  <1>1. Timers!Add(v1) /\ UNCHANGED <<v3, v5>>
    BY DEF Timers!add
  <1>2. Ids(v1) \subseteq 1..v4 /\ v4 \in Nat
    BY DEF TimersInv
  <1>3. /\ v1' \in Seq(Timer) /\ Sorted(v1') /\ ~v7'
        /\ v4' = v4 + 1 /\ v4' \in Nat
        /\ Ids(v1') = Ids(v1) \cup {v4'}
    BY <1>1, <1>2, AddKeeps DEF TimersInv
  <1>4. 1..v4' = 1..v4 \cup {v4'}
    BY <1>2, <1>3
  <1>. QED
    BY <1>1, <1>3, <1>4 DEF TimersInv

(* A timer whose callback is cancelled keeps its place.                    *)
LEMMA cancel_Keeps == ASSUME TimersInv, Timers!cancel PROVE TimersInv'
  <1>1. /\ v1 \in Seq(Timer) /\ Sorted(v1)
        /\ UNCHANGED <<v3, v4, v7>>
    BY DEF TimersInv, Timers!cancel
  <1>2. PICK n \in Nat : n = Len(v1)
    BY <1>1, LenProperties
  <1>3. DOMAIN v1 = 1..n
    BY <1>1, <1>2
  <1>4. PICK k \in 1..n :
          /\ v1' = [v1 EXCEPT ![k].cb = FALSE]
          /\ v5' = v5 \union {v1[k].id}
    BY <1>3 DEF Timers!cancel
  <1>5. ASSUME NEW i \in 1..n
        PROVE  /\ v1'[i] \in Timer
               /\ v1'[i].id = v1[i].id
               /\ v1'[i].fire_time = v1[i].fire_time
    <2>1. v1[i] \in Timer
      BY <1>1, <1>2, ElementOfSeq
    <2>2. v1'[i] = IF i = k THEN [v1[i] EXCEPT !.cb = FALSE] ELSE v1[i]
      BY <1>3, <1>4
    <2>. QED
      BY <2>1, <2>2 DEF Timer
  <1>6. v1' \in Seq(Timer) /\ Len(v1') = n
    <2>1. v1' = [i \in 1..n |-> v1'[i]]
      BY <1>3, <1>4
    <2>2. PICK f : f = v1'
      OBVIOUS
    <2>3. \A i \in 1..n : f[i] \in Timer
      BY <1>5, <2>2
    <2>4. f = [i \in 1..n |-> f[i]]
      BY <2>1, <2>2
    <2>5. f \in Seq(Timer) /\ Len(f) = n
      BY <2>3, <2>4
    <2>. QED
      BY <2>2, <2>5
  <1>7. Sorted(v1')
    BY <1>1, <1>2, <1>5, <1>6 DEF Sorted, Before
  <1>8. Ids(v1') = Ids(v1) /\ v1[k].id \in Ids(v1)
    BY <1>2, <1>5, <1>6 DEF Ids
  <1>. QED
    BY <1>1, <1>4, <1>6, <1>7, <1>8 DEF TimersInv

(* One round of a loop.                                                    *)
LEMMA callback_Keeps == ASSUME TimersAssumed, TimersInv, Timers!callback PROVE TimersInv'
  <1>1. /\ v1 \in Seq(Timer) /\ Sorted(v1) /\ v1 # <<>>
        /\ v5' = v5 \union {Head(v1).id} /\ UNCHANGED v3
        /\ Ids(v1) \cup v5 = 1..v4 /\ v4 \in Nat /\ ~v7
        /\ v3 \in [now : Nat, taken : Nat]
    BY DEF TimersInv, Timers!callback, Timers!Due
  <1>2. /\ Tail(v1) \in Seq(Timer) /\ Sorted(Tail(v1))
        /\ Ids(v1) = Ids(Tail(v1)) \cup {Head(v1).id}
    BY <1>1, TailIsSorted
  <1>3. CASE v1' = Tail(v1) /\ UNCHANGED <<v4, v7>>
    BY <1>1, <1>2, <1>3 DEF TimersInv
  <1>4. CASE Timers!Add(Tail(v1))
    <2>1. /\ v1' \in Seq(Timer) /\ Sorted(v1') /\ ~v7'
          /\ v4' = v4 + 1 /\ v4' \in Nat
          /\ Ids(v1') = Ids(Tail(v1)) \cup {v4'}
      <3>1. Ids(Tail(v1)) \subseteq 1..v4
        BY <1>1, <1>2
      <3>. QED
        BY <1>2, <1>4, <3>1, AddKeeps
    <2>2. 1..v4' = 1..v4 \cup {v4'}
      BY <1>1, <2>1
    <2>3. Ids(v1') \cup v5' = 1..v4'
      BY <1>1, <1>2, <2>1, <2>2
    <2>. QED
      BY <1>1, <2>1, <2>3 DEF TimersInv
  <1>. QED
    BY <1>3, <1>4 DEF Timers!callback

LEMMA TimersInit == ASSUME Timers!Init PROVE TimersInv
  <1>1. PICK empty \in Seq(Timer) : empty = <<>>
    BY EmptySeq
  <1>2. v1 = empty /\ Len(empty) = 0
    BY <1>1, EmptySeq DEF Timers!Init
  <1>3. v1 \in Seq(Timer) /\ Sorted(v1) /\ Ids(v1) = {}
    BY <1>2 DEF Sorted, Ids
  <1>. QED
    BY <1>3 DEF Timers!Init, TimersInv

LEMMA TimersNext == ASSUME TimersAssumed, TimersInv, Timers!Next PROVE TimersInv'
  <1>1. CASE Timers!add
    BY <1>1, add_Keeps
  <1>2. CASE Timers!cancel
    BY <1>2, cancel_Keeps
  <1>3. CASE Timers!fire
    BY <1>3 DEF Timers!fire, TimersInv
  <1>4. CASE Timers!drain
    BY <1>4 DEF Timers!drain, TimersInv
  <1>5. CASE Timers!callback
    BY <1>5, callback_Keeps
  <1>6. CASE Timers!finish
    BY <1>6 DEF Timers!finish, TimersInv
  <1>7. CASE Timers!tick
    BY <1>7 DEF Timers!tick, TimersInv
  <1>8. CASE Timers!set_back
    <2>1. v3.now \in Nat /\ v3.now > 0 /\ v3.now - 1 \in Nat
      BY <1>8 DEF Timers!set_back, TimersInv
    <2>. QED
      BY <1>8, <2>1 DEF Timers!set_back, TimersInv
  <1>. QED
    BY <1>1, <1>2, <1>3, <1>4, <1>5, <1>6, <1>7, <1>8 DEF Timers!Next

LEMMA TimersPromise == ASSUME TimersInv PROVE Timers!InOrder /\ Timers!NoneLost
  <1>1. DOMAIN v1 = 1..Len(v1)
    BY DEF TimersInv
  <1>. QED
    BY <1>1 DEF TimersInv, Timers!InOrder, Timers!NoneLost, Sorted, Before, Ids

LEMMA TimersInTime == ASSUME Timers!Next PROVE Timers!InTime
  BY DEF Timers!InTime, Timers!Next, Timers!add, Timers!cancel, Timers!fire, Timers!drain,
         Timers!callback, Timers!finish, Timers!tick, Timers!set_back, Timers!Due

(* timer_queue.js, fire: the loop, which looks at the head alone, ends     *)
(* with no timer left that was due when it started, though callbacks add   *)
(* timers while it runs.                                                   *)
LeavesNoneDue ==
    v2 = "fire" /\ v2' = "none" => \A i \in DOMAIN v1' : v1'[i].fire_time > v3.taken

LEMMA FireLeavesNoneDue == ASSUME TimersInv, Timers!Next PROVE LeavesNoneDue
  <1>. SUFFICES ASSUME v2 = "fire", v2' = "none", NEW i \in DOMAIN v1'
                PROVE  v1'[i].fire_time > v3.taken
    BY DEF LeavesNoneDue
  <1>1. Timers!finish
    BY DEF Timers!Next, Timers!add, Timers!cancel, Timers!fire, Timers!drain, Timers!callback,
           Timers!tick, Timers!set_back
  <1>2. v1' = v1 /\ ~Timers!Due(v1)
    BY <1>1 DEF Timers!finish
  <1>3. v1 \in Seq(Timer) /\ Sorted(v1) /\ v3.taken \in Nat
    BY DEF TimersInv
  <1>4. PICK n \in Nat : n = Len(v1)
    BY <1>3, LenProperties
  <1>5. i \in 1..n
    BY <1>2, <1>3, <1>4
  <1>6. v1 # <<>> /\ Head(v1) = v1[1] /\ 1 \in 1..n /\ 1 <= i
    BY <1>3, <1>4, <1>5, EmptySeq
  <1>. DEFINE a == v1[1].fire_time
              b == v1[i].fire_time
              c == v3.taken
  <1>7. ~(a <= c)
    BY <1>2, <1>6 DEF Timers!Due
  <1>8. a <= b
    BY <1>3, <1>4, <1>5, <1>6, TimesRise
  <1>9. a \in Nat /\ b \in Nat /\ c \in Nat
    <2>1. v1[1] \in Timer /\ v1[i] \in Timer
      BY <1>3, <1>4, <1>5, <1>6, ElementOfSeq
    <2>. QED
      BY <1>3, <2>1 DEF Timer
  <1>. HIDE DEF a, b, c
  <1>10. b > c
    BY <1>7, <1>8, <1>9
  <1>. QED
    BY <1>2, <1>10 DEF b, c

----------------------------------------------------------------------------
(***************************************************************************)
(* Signup (v1 users, v2 text, v8 method, v9 me, v10 told).                 *)
(***************************************************************************)

Account == [alias : signups.Aliases \cup {"none"}, email : signups.Emails \cup {"none"},
            amount : BOOLEAN, verified : {"no", "justverified", "yes"}, links : BOOLEAN,
            temp : BOOLEAN, removal : BOOLEAN, removed : BOOLEAN]

Places == {"none", "alias", "email", "create", "set", "verification", "temp", "remove", "mail"}
Methods == [name : {"none", "signup", "removeUser"}, pc : Places,
            email : signups.Emails \cup {"none"}, uid : Nat]

(* No two accounts of users share an alias or an address.                  *)
Different(users) ==
    \A u, v \in 1..Len(users) :
        u # v /\ (users[u].alias = users[v].alias \/ users[u].email = users[v].email) =>
            users[u].removed \/ users[v].removed

(* What a signup that has come to pc has written of its account u.         *)
Wrote(users, u, pc) ==
    u \in 1..Len(users) /\ (users[u].removed \/
        ((pc \in {"verification", "temp", "told"} => users[u].amount)
            /\ (pc \in {"temp", "told"} => users[u].links)))

(* The account a method is about is there.                                 *)
SetUp(users, m) ==
    /\ m.name = "signup" /\ m.pc \in {"set", "verification", "temp"} => Wrote(users, m.uid, m.pc)
    /\ m.name = "signup" => m.pc \in {"alias", "email", "create", "set", "verification", "temp"} /\ m.email \in signups.Emails
    /\ m.name = "removeUser" => m.pc \in {"remove", "mail"} /\ m.uid \in 1..Len(users)

SignupInv ==
    /\ v1 \in Seq(Account)
    /\ v2 \in [signups.Browsers -> signups.Aliases]
    /\ v8 \in [signups.Browsers -> Methods]
    /\ v9 \in [signups.Browsers -> Nat] /\ v10 \in [signups.Browsers -> Nat]
    /\ Different(v1)
    /\ \A b \in signups.Browsers : SetUp(v1, v8[b])
    /\ \A b \in signups.Browsers : v9[b] # 0 => v9[b] \in 1..Len(v1)
    /\ \A b \in signups.Browsers : v10[b] # 0 => Wrote(v1, v10[b], "told")

----------------------------------------------------------------------------
(* What no write to an account changes.                                    *)
Kin(x, y) ==
    /\ x.removed => y.removed
    /\ y.removed \/ (y.alias = x.alias /\ y.email = x.email
                        /\ (x.amount => y.amount) /\ (x.links => y.links))

Grown(old, new) ==
    /\ old \in Seq(Account) /\ new \in Seq(Account)
    /\ Len(old) <= Len(new)
    /\ \A n \in 1..Len(old) : Kin(old[n], new[n])

LEMMA WroteStays ==
    ASSUME NEW old, NEW new, NEW u, NEW pc, Grown(old, new), Wrote(old, u, pc)
    PROVE  Wrote(new, u, pc)
  <1>1. u \in 1..Len(old) /\ Len(old) \in Nat /\ Len(new) \in Nat /\ Len(old) <= Len(new)
    BY LenProperties DEF Grown, Wrote
  <1>2. u \in 1..Len(new)
    BY <1>1
  <1>3. Kin(old[u], new[u])
    BY <1>1 DEF Grown
  <1>. QED
    BY <1>2, <1>3 DEF Kin, Wrote

LEMMA SetUpStays ==
    ASSUME NEW old, NEW new, NEW m, Grown(old, new), SetUp(old, m)
    PROVE  SetUp(new, m)
  <1>1. Len(old) \in Nat /\ Len(new) \in Nat /\ Len(old) <= Len(new)
    BY LenProperties DEF Grown
  <1>2. m.uid \in 1..Len(old) => m.uid \in 1..Len(new)
    BY <1>1
  <1>3. Wrote(old, m.uid, m.pc) => Wrote(new, m.uid, m.pc)
    BY WroteStays
  <1>. QED
    BY <1>2, <1>3 DEF SetUp

LEMMA SameIsGrown == ASSUME NEW s \in Seq(Account) PROVE Grown(s, s)
  BY LenProperties DEF Grown, Kin

(* The same number of accounts, written to: still different.               *)
LEMMA GrownDifferent ==
    ASSUME NEW old, NEW new, Grown(old, new), Len(new) = Len(old), Different(old)
    PROVE  Different(new)
  <1>. SUFFICES ASSUME NEW u \in 1..Len(new), NEW w \in 1..Len(new), u # w,
                       new[u].alias = new[w].alias \/ new[u].email = new[w].email,
                       ~new[u].removed, ~new[w].removed
                PROVE  FALSE
    BY DEF Different
  <1>1. Kin(old[u], new[u]) /\ Kin(old[w], new[w])
    BY DEF Grown
  <1>2. old[u].removed \/ old[w].removed
    BY <1>1 DEF Kin, Different
  <1>. QED
    BY <1>1, <1>2 DEF Kin

LEMMA SetGrows ==
    ASSUME v1 \in Seq(Account), Different(v1), NEW u \in 1..Len(v1), NEW x \in Account,
           Signup!Set(u, x), ~v1[u].removed => Kin(v1[u], x)
    PROVE  Grown(v1, v1') /\ Len(v1') = Len(v1) /\ Different(v1')
  <1>1. CASE v1[u].removed
    <2>1. v1' = v1
      BY <1>1 DEF Signup!Set
    <2>. QED
      BY <2>1, SameIsGrown
  <1>2. CASE ~v1[u].removed
    <2>1. v1' = [v1 EXCEPT ![u] = x]
      BY <1>2 DEF Signup!Set
    <2>2. v1' \in Seq(Account) /\ Len(v1') = Len(v1)
      BY <2>1, ExceptSeq
    <2>3. \A n \in 1..Len(v1) : Kin(v1[n], v1'[n])
      <3>1. TAKE n \in 1..Len(v1)
      <3>2. v1'[n] = IF n = u THEN x ELSE v1[n]
        BY <2>1, ExceptSeq
      <3>3. Kin(v1[n], v1[n])
        BY DEF Kin
      <3>. QED
        BY <1>2, <3>2, <3>3
    <2>4. Grown(v1, v1')
      BY <2>2, <2>3, LenProperties DEF Grown
    <2>. QED
      BY <2>2, <2>4, GrownDifferent
  <1>. QED
    BY <1>1, <1>2

(* The invariant after a step, from what the step may change.              *)
LEMMA SignupKept ==
    ASSUME SignupInv, Grown(v1, v1'), Different(v1'),
           v2' \in [signups.Browsers -> signups.Aliases],
           v8' \in [signups.Browsers -> Methods],
           v9' \in [signups.Browsers -> Nat], v10' \in [signups.Browsers -> Nat],
           \A b \in signups.Browsers : v8'[b] = v8[b] \/ SetUp(v1', v8'[b]),
           \A b \in signups.Browsers : v9'[b] = v9[b] \/ v9'[b] \in 1..Len(v1'),
           \A b \in signups.Browsers : v10'[b] = v10[b] \/ Wrote(v1', v10'[b], "told")
    PROVE  SignupInv'
  <1>1. v1' \in Seq(Account) /\ Len(v1) \in Nat /\ Len(v1') \in Nat /\ Len(v1) <= Len(v1')
    BY LenProperties DEF Grown
  <1>2. \A b \in signups.Browsers : SetUp(v1', v8'[b])
    <2>1. TAKE b \in signups.Browsers
    <2>2. SetUp(v1, v8[b])
      BY DEF SignupInv
    <2>3. SetUp(v1', v8[b])
      BY <2>2, SetUpStays
    <2>. QED
      BY <2>3
  <1>3. \A b \in signups.Browsers : v9'[b] # 0 => v9'[b] \in 1..Len(v1')
    <2>1. TAKE b \in signups.Browsers
    <2>2. v9[b] # 0 => v9[b] \in 1..Len(v1)
      BY DEF SignupInv
    <2>3. v9[b] \in 1..Len(v1) => v9[b] \in 1..Len(v1')
      BY <1>1
    <2>. QED
      BY <2>2, <2>3
  <1>4. \A b \in signups.Browsers : v10'[b] # 0 => Wrote(v1', v10'[b], "told")
    <2>1. TAKE b \in signups.Browsers
    <2>2. v10[b] # 0 => Wrote(v1, v10[b], "told")
      BY DEF SignupInv
    <2>3. Wrote(v1, v10[b], "told") => Wrote(v1', v10[b], "told")
      BY WroteStays
    <2>. QED
      BY <2>2, <2>3
  <1>. QED
    BY <1>1, <1>2, <1>3, <1>4 DEF SignupInv

LEMMA SignupSame == ASSUME SignupInv PROVE Grown(v1, v1) /\ Different(v1)
  BY SameIsGrown DEF SignupInv

(* Steps that change nothing, or only the form.                            *)
LEMMA form_Keeps ==
    ASSUME SignupInv, NEW b \in signups.Browsers, NEW a \in signups.Aliases,
           Signup!input(b, a) \/ Signup!handler(b) \/ Signup!reply(b)
    PROVE  SignupInv'
  <1>1. v1' = v1 /\ v8' = v8 /\ v9' = v9 /\ v10' = v10
    BY DEF Signup!input, Signup!handler, Signup!reply
  <1>2. v2' \in [signups.Browsers -> signups.Aliases]
    BY DEF Signup!input, Signup!handler, Signup!reply, SignupInv
  <1>. QED
    BY <1>1, <1>2, SignupSame, SignupKept DEF SignupInv

LEMMA ProgressIs ==
    ASSUME SignupInv, NEW b \in signups.Browsers, NEW m \in Methods, v8' = [v8 EXCEPT ![b] = m],
           SetUp(v1', m)
    PROVE  /\ v8' \in [signups.Browsers -> Methods]
           /\ \A c \in signups.Browsers : v8'[c] = v8[c] \/ SetUp(v1', v8'[c])
  BY DEF SignupInv

(* Writing to one account, and going on with the method.                   *)
LEMMA WriteKeeps ==
    ASSUME SignupInv, NEW b \in signups.Browsers, NEW u \in 1..Len(v1), NEW x \in Account,
           Signup!Set(u, x), ~v1[u].removed => Kin(v1[u], x), v2' = v2, v10' = v10,
           v8' \in [signups.Browsers -> Methods],
           \A c \in signups.Browsers : v8'[c] = v8[c] \/ SetUp(v1', v8'[c]),
           v9' = v9 \/ v9' = [v9 EXCEPT ![b] = u]
    PROVE  SignupInv'
  <1>1. Grown(v1, v1') /\ Len(v1') = Len(v1) /\ Different(v1')
    BY SetGrows DEF SignupInv
  <1>2. Len(v1) \in Nat
    BY LenProperties DEF SignupInv
  <1>3. u \in Nat
    BY <1>2
  <1>4. v9' \in [signups.Browsers -> Nat] /\ \A c \in signups.Browsers : v9'[c] = v9[c] \/ v9'[c] \in 1..Len(v1')
    BY <1>1, <1>3 DEF SignupInv
  <1>. QED
    BY <1>1, <1>4, SignupKept DEF SignupInv

(* The steps of the methods.                                               *)
LEMMA signup_Keeps ==
    ASSUME SignupInv, NEW b \in signups.Browsers, Signup!signup(b)
    PROVE  SignupInv'
  <1>. DEFINE m == v8[b]
              e == m.email
              n == Len(v1)
  <1>0. v2' = v2 /\ v9' = v9 /\ v9 \in [signups.Browsers -> Nat]
        /\ v2 \in [signups.Browsers -> signups.Aliases] /\ v1 \in Seq(Account) /\ n \in Nat
        /\ v10 \in [signups.Browsers -> Nat]
        /\ v8 \in [signups.Browsers -> Methods] /\ m \in Methods /\ SetUp(v1, m)
    BY LenProperties DEF SignupInv, Signup!signup, Signup!formVars
  <1>a. ASSUME v1' = v1, v10' = v10, NEW x \in Methods, v8' = [v8 EXCEPT ![b] = x], SetUp(v1, x)
        PROVE  SignupInv'
    <2>1. /\ v8' \in [signups.Browsers -> Methods]
          /\ \A c \in signups.Browsers : v8'[c] = v8[c] \/ SetUp(v1', v8'[c])
      BY <1>a, ProgressIs
    <2>. QED
      BY <1>0, <1>a, <2>1, SignupSame, SignupKept
  <1>none. Signup!NoMethod \in Methods /\ SetUp(v1, Signup!NoMethod)
    BY DEF Methods, Places, SetUp, Signup!NoMethod
  <1>1. CASE v10[b] = 0 /\ (\E f \in signups.Emails : Signup!Start(b, "signup", "alias", f, 0)) /\ UNCHANGED <<v1, v10>>
    <2>1. PICK f \in signups.Emails : Signup!Start(b, "signup", "alias", f, 0)
      BY <1>1
    <2>2. PICK x : x = [name |-> "signup", pc |-> "alias", email |-> f, uid |-> 0]
      OBVIOUS
    <2>3. x \in Methods /\ SetUp(v1, x)
      BY <2>2 DEF Methods, Places, SetUp
    <2>4. v8' = [v8 EXCEPT ![b] = x]
      BY <2>1, <2>2 DEF Signup!Start
    <2>. QED
      BY <1>1, <1>a, <2>3, <2>4
  <1>b. ASSUME v1' = v1, v10' = v10, NEW pc, Signup!Step(b, pc), pc \in Places, m.name = "signup",
               pc \in {"email", "create"}
        PROVE  SignupInv'
    <2>1. PICK x : x = [m EXCEPT !.pc = pc]
      OBVIOUS
    <2>2. x \in Methods /\ SetUp(v1, x)
      BY <1>0, <1>b, <2>1 DEF Methods, SetUp
    <2>3. v8' = [v8 EXCEPT ![b] = x]
      BY <1>0, <1>b, <2>1 DEF Signup!Step
    <2>. QED
      BY <1>a, <1>b, <2>2, <2>3
  <1>c. ASSUME v1' = v1, Signup!Fail(b) PROVE SignupInv'
    BY <1>a, <1>c, <1>none DEF Signup!Fail, Signup!End
  <1>2. CASE Signup!At(b, "signup", "alias") /\ v1' = v1
             /\ (IF Signup!isAliasTaken(v2[b]) = "alias_exists" THEN Signup!Fail(b) ELSE Signup!Step(b, "email") /\ UNCHANGED v10)
    BY <1>2, <1>b, <1>c DEF Signup!At, Places
  <1>3. CASE Signup!At(b, "signup", "email") /\ v1' = v1
             /\ (IF Signup!isEmailTaken(e) THEN Signup!Fail(b) ELSE Signup!Step(b, "create") /\ UNCHANGED v10)
    BY <1>3, <1>b, <1>c DEF Signup!At, Places
  <1>4. CASE Signup!At(b, "signup", "create") /\ ~(Signup!isAliasTaken(v2[b]) = "alias_exists" \/ Signup!isEmailTaken(e))
             /\ v1' = Append(v1, Signup!NewUser(v2[b], e))
             /\ v8' = [v8 EXCEPT ![b].pc = "set", ![b].uid = Len(v1) + 1] /\ v10' = v10
    <2>1. PICK u : u = Signup!NewUser(v2[b], e)
      OBVIOUS
    <2>2. u \in Account /\ u.alias = v2[b] /\ u.email = e /\ ~u.removed
      BY <1>0, <2>1 DEF Account, Methods, Signup!NewUser
    <2>3. v1' = Append(v1, u)
      BY <1>4, <2>1
    <2>4. /\ v1' \in Seq(Account) /\ Len(v1') = n + 1 /\ v1'[n + 1] = u
          /\ \A k \in 1..n : v1'[k] = v1[k]
      BY <1>0, <2>2, <2>3, AppendProperties
    <2>5. Grown(v1, v1')
      BY <1>0, <2>4 DEF Grown, Kin
    <2>6. \A k \in 1..n : v1[k].removed \/ (v1[k].alias # u.alias /\ v1[k].email # u.email)
      <3>1. DOMAIN v1 = 1..n
        BY <1>0, LenProperties
      <3>. QED
        BY <1>4, <2>2, <3>1 DEF Signup!isAliasTaken, Signup!isEmailTaken, Signup!Uids
    <2>7. Different(v1')
      <3>. SUFFICES ASSUME NEW j \in 1..(n + 1), NEW k \in 1..(n + 1), j # k,
                           v1'[j].alias = v1'[k].alias \/ v1'[j].email = v1'[k].email,
                           ~v1'[j].removed, ~v1'[k].removed
                    PROVE  FALSE
        BY <2>4 DEF Different
      <3>1. CASE j \in 1..n /\ k \in 1..n
        BY <2>4, <3>1 DEF Different, SignupInv
      <3>2. CASE j = n + 1 /\ k \in 1..n
        BY <2>4, <2>6, <3>2
      <3>3. CASE k = n + 1 /\ j \in 1..n
        BY <2>4, <2>6, <3>3
      <3>. QED
        BY <1>0, <3>1, <3>2, <3>3
    <2>8. PICK x : x = [m EXCEPT !.pc = "set", !.uid = n + 1]
      OBVIOUS
    <2>9. v8' = [v8 EXCEPT ![b] = x]
      BY <1>0, <1>4, <2>8
    <2>10. x \in Methods /\ x.name = "signup" /\ x.pc = "set" /\ x.uid = n + 1 /\ x.email = e
      <3>1. m.name = "signup" /\ n + 1 \in Nat /\ m \in Methods
        BY <1>0, <1>4 DEF Signup!At
      <3>. HIDE DEF m, n
      <3>. QED
        BY <2>8, <3>1 DEF Methods, Places
    <2>11. SetUp(v1', x)
      <3>1. n + 1 \in 1..Len(v1')
        BY <1>0, <2>4
      <3>. QED
        BY <1>0, <1>4, <2>10, <3>1 DEF SetUp, Wrote, Signup!At
    <2>12. /\ v8' \in [signups.Browsers -> Methods]
           /\ \A c \in signups.Browsers : v8'[c] = v8[c] \/ SetUp(v1', v8'[c])
      BY <2>9, <2>10, <2>11, ProgressIs
    <2>. QED
      BY <1>0, <1>4, <2>5, <2>7, <2>12, SignupKept
  <1>d. ASSUME NEW pc, m.name = "signup", m.pc = pc, pc \in {"set", "verification", "temp"}
        PROVE  /\ m.uid \in 1..n /\ v1[m.uid] \in Account /\ Wrote(v1, m.uid, pc)
               /\ \A x \in Account : Signup!Set(m.uid, x) /\ (~v1[m.uid].removed => Kin(v1[m.uid], x)) =>
                     Grown(v1, v1') /\ Len(v1') = n /\ Different(v1')
    <2>1. Wrote(v1, m.uid, pc)
      BY <1>0, <1>d DEF SetUp
    <2>2. m.uid \in 1..n
      BY <2>1 DEF Wrote
    <2>. QED
      BY <1>0, <2>1, <2>2, SetGrows, ElementOfSeq DEF SignupInv
  <1>e. ASSUME NEW pc \in {"verification", "temp"}, Signup!Step(b, pc), m.name = "signup", Grown(v1, v1'), Different(v1'),
               v10' = v10, Wrote(v1', m.uid, pc)
        PROVE  SignupInv'
    <2>1. PICK x : x = [m EXCEPT !.pc = pc]
      OBVIOUS
    <2>2. x \in Methods /\ SetUp(v1', x)
      BY <1>0, <1>e, <2>1 DEF Methods, SetUp, Places
    <2>3. v8' = [v8 EXCEPT ![b] = x]
      BY <1>0, <1>e, <2>1 DEF Signup!Step
    <2>4. /\ v8' \in [signups.Browsers -> Methods]
          /\ \A c \in signups.Browsers : v8'[c] = v8[c] \/ SetUp(v1', v8'[c])
      BY <2>2, <2>3, ProgressIs
    <2>. QED
      BY <1>0, <1>e, <2>4, SignupKept
  <1>5. CASE Signup!At(b, "signup", "set") /\ Signup!Set(m.uid, [v1[m.uid] EXCEPT !.amount = TRUE])
             /\ Signup!Step(b, "verification") /\ v10' = v10
    <2>1. m.uid \in 1..n /\ v1[m.uid] \in Account
      BY <1>5, <1>d DEF Signup!At
    <2>2. PICK x : x = [v1[m.uid] EXCEPT !.amount = TRUE]
      OBVIOUS
    <2>3. x \in Account /\ Kin(v1[m.uid], x) /\ x.amount
      BY <2>1, <2>2 DEF Account, Kin
    <2>4. Signup!Set(m.uid, x)
      BY <1>5, <2>2
    <2>5. Grown(v1, v1') /\ Len(v1') = n /\ Different(v1')
      BY <1>0, <2>1, <2>3, <2>4, SetGrows DEF SignupInv
    <2>6. v1'[m.uid].removed \/ v1'[m.uid].amount
      BY <1>0, <2>1, <2>3, <2>4, ExceptSeq DEF Signup!Set
    <2>7. Wrote(v1', m.uid, "verification")
      BY <2>1, <2>5, <2>6 DEF Wrote
    <2>. QED
      BY <1>5, <1>e, <2>5, <2>7 DEF Signup!At
  <1>6. CASE Signup!At(b, "signup", "verification") /\ Signup!Set(m.uid, [v1[m.uid] EXCEPT !.links = TRUE])
             /\ Signup!Step(b, "temp") /\ v10' = v10
    <2>1. m.uid \in 1..n /\ v1[m.uid] \in Account /\ Wrote(v1, m.uid, "verification")
      BY <1>6, <1>d DEF Signup!At
    <2>2. PICK x : x = [v1[m.uid] EXCEPT !.links = TRUE]
      OBVIOUS
    <2>3. x \in Account /\ Kin(v1[m.uid], x) /\ x.links /\ x.amount = v1[m.uid].amount
      BY <2>1, <2>2 DEF Account, Kin
    <2>4. Signup!Set(m.uid, x)
      BY <1>6, <2>2
    <2>5. Grown(v1, v1') /\ Len(v1') = n /\ Different(v1')
      BY <1>0, <2>1, <2>3, <2>4, SetGrows DEF SignupInv
    <2>6. v1'[m.uid].removed \/ (v1'[m.uid].links /\ v1'[m.uid].amount)
      <3>1. v1[m.uid].removed \/ v1[m.uid].amount
        BY <2>1 DEF Wrote
      <3>. QED
        BY <1>0, <2>1, <2>3, <2>4, <3>1, ExceptSeq DEF Signup!Set
    <2>7. Wrote(v1', m.uid, "temp")
      BY <2>1, <2>5, <2>6 DEF Wrote
    <2>. QED
      BY <1>6, <1>e, <2>5, <2>7 DEF Signup!At
  <1>7. CASE Signup!At(b, "signup", "temp") /\ Signup!Set(m.uid, [v1[m.uid] EXCEPT !.temp = TRUE])
             /\ Signup!End(b) /\ v10' = [v10 EXCEPT ![b] = m.uid]
    <2>1. m.uid \in 1..n /\ v1[m.uid] \in Account /\ Wrote(v1, m.uid, "temp")
      BY <1>7, <1>d DEF Signup!At
    <2>2. PICK x : x = [v1[m.uid] EXCEPT !.temp = TRUE]
      OBVIOUS
    <2>3. x \in Account /\ Kin(v1[m.uid], x)
      BY <2>1, <2>2 DEF Account, Kin
    <2>4. Signup!Set(m.uid, x)
      BY <1>7, <2>2
    <2>5. Grown(v1, v1') /\ Len(v1') = n /\ Different(v1')
      BY <1>0, <2>1, <2>3, <2>4, SetGrows DEF SignupInv
    <2>6. Wrote(v1', m.uid, "temp")
      BY <2>1, <2>5, WroteStays
    <2>7. Wrote(v1', m.uid, "told")
      BY <2>6 DEF Wrote
    <2>8. v10' \in [signups.Browsers -> Nat]
          /\ \A c \in signups.Browsers : v10'[c] = v10[c] \/ Wrote(v1', v10'[c], "told")
      BY <1>0, <1>7, <2>1, <2>7
    <2>9. SetUp(v1', Signup!NoMethod)
      BY DEF SetUp, Signup!NoMethod
    <2>10. /\ v8' \in [signups.Browsers -> Methods]
           /\ \A c \in signups.Browsers : v8'[c] = v8[c] \/ SetUp(v1', v8'[c])
      BY <1>7, <1>none, <2>9, ProgressIs DEF Signup!End
    <2>. QED
      BY <1>0, <2>5, <2>8, <2>10, SignupKept
  <1>8. CASE Signup!Fail(b) /\ v1' = v1
    BY <1>8, <1>c
  <1>. QED
    BY <1>1, <1>2, <1>3, <1>4, <1>5, <1>6, <1>7, <1>8 DEF Signup!signup

LEMMA login_Keeps ==
    ASSUME SignupInv, NEW b \in signups.Browsers,
           \/ Signup!login_temp(b) \/ Signup!send_login(b) \/ Signup!login_email(b)
           \/ Signup!user_state(b) \/ Signup!changeUser(b)
    PROVE  SignupInv'
  <1>0. v1 \in Seq(Account) /\ Len(v1) \in Nat /\ DOMAIN v1 = 1..Len(v1) /\ v9 \in [signups.Browsers -> Nat]
        /\ v10 \in [signups.Browsers -> Nat]
        /\ \A u \in 1..Len(v1) : v1[u] \in Account
    BY LenProperties, ElementOfSeq DEF SignupInv
  <1>1. v2' = v2 /\ v8' = v8 /\ v10' = v10
    BY DEF Signup!login_temp, Signup!send_login, Signup!login_email, Signup!user_state, Signup!changeUser, Signup!formVars
  <1>2. PICK u \in 1..Len(v1), x \in Account :
            Signup!Set(u, x) /\ Kin(v1[u], x) /\ (v9' = v9 \/ v9' = [v9 EXCEPT ![b] = u])
    <2>1. CASE Signup!login_temp(b)
      <3>1. v10[b] \in 1..Len(v1)
        BY <2>1 DEF Signup!login_temp, SignupInv, Wrote
      <3>2. PICK x : x = [v1[v10[b]] EXCEPT !.temp = FALSE]
        OBVIOUS
      <3>3. x \in Account /\ Kin(v1[v10[b]], x)
        BY <1>0, <3>1, <3>2 DEF Account, Kin
      <3>. QED
        BY <2>1, <3>1, <3>2, <3>3 DEF Signup!login_temp
    <2>2. CASE Signup!send_login(b)
      <3>1. PICK u \in 1..Len(v1) : Signup!Set(u, [v1[u] EXCEPT !.links = TRUE])
        BY <1>0, <2>2 DEF Signup!send_login, Signup!Uids
      <3>2. PICK x : x = [v1[u] EXCEPT !.links = TRUE]
        OBVIOUS
      <3>3. x \in Account /\ Kin(v1[u], x)
        BY <1>0, <3>1, <3>2 DEF Account, Kin
      <3>. QED
        BY <2>2, <3>1, <3>2, <3>3 DEF Signup!send_login
    <2>3. CASE Signup!login_email(b)
      <3>1. PICK u \in 1..Len(v1) :
              Signup!Set(u, [v1[u] EXCEPT !.verified = IF @ = "no" THEN "justverified" ELSE @]) /\ v9' = [v9 EXCEPT ![b] = u]
        BY <1>0, <2>3 DEF Signup!login_email, Signup!Uids
      <3>2. PICK x : x = [v1[u] EXCEPT !.verified = IF @ = "no" THEN "justverified" ELSE @]
        OBVIOUS
      <3>3. x \in Account /\ Kin(v1[u], x)
        BY <1>0, <3>1, <3>2 DEF Account, Kin
      <3>. QED
        BY <3>1, <3>2, <3>3
    <2>4. CASE Signup!user_state(b)
      <3>1. v9[b] \in 1..Len(v1)
        BY <2>4 DEF Signup!user_state, Signup!user, SignupInv
      <3>2. PICK x : x = [v1[v9[b]] EXCEPT !.verified = "yes"]
        OBVIOUS
      <3>3. x \in Account /\ Kin(v1[v9[b]], x)
        BY <1>0, <3>1, <3>2 DEF Account, Kin
      <3>. QED
        BY <2>4, <3>1, <3>2, <3>3 DEF Signup!user_state
    <2>5. CASE Signup!changeUser(b)
      <3>1. v9[b] \in 1..Len(v1)
        BY <2>5 DEF Signup!changeUser, Signup!user, SignupInv
      <3>2. PICK x : x = [v1[v9[b]] EXCEPT !.amount = TRUE]
        OBVIOUS
      <3>3. x \in Account /\ Kin(v1[v9[b]], x)
        BY <1>0, <3>1, <3>2 DEF Account, Kin
      <3>. QED
        BY <2>5, <3>1, <3>2, <3>3 DEF Signup!changeUser
    <2>. QED
      BY <2>1, <2>2, <2>3, <2>4, <2>5
  <1>. QED
    BY <1>1, <1>2, WriteKeeps DEF SignupInv

LEMMA removeUser_Keeps ==
    ASSUME SignupInv, NEW b \in signups.Browsers, Signup!removeUser(b)
    PROVE  SignupInv'
  <1>. DEFINE m == v8[b]
  <1>0. v1 \in Seq(Account) /\ Len(v1) \in Nat /\ v9 \in [signups.Browsers -> Nat]
        /\ \A u \in 1..Len(v1) : v1[u] \in Account
    BY LenProperties, ElementOfSeq DEF SignupInv
  <1>1. v2' = v2 /\ v9' = v9 /\ v10' = v10 /\ m \in Methods /\ SetUp(v1, m)
    BY DEF Signup!removeUser, Signup!formVars, SignupInv
  <1>2. CASE v1' = v1 /\ Signup!user(b) /\ \E pc \in {"remove", "mail"} : Signup!Start(b, "removeUser", pc, "none", v9[b])
    <2>1. PICK pc \in {"remove", "mail"} : Signup!Start(b, "removeUser", pc, "none", v9[b])
      BY <1>2
    <2>2. PICK x : x = [name |-> "removeUser", pc |-> pc, email |-> "none", uid |-> v9[b]]
      OBVIOUS
    <2>3. v9[b] \in 1..Len(v1)
      BY <1>2 DEF Signup!user, SignupInv
    <2>4. x \in Methods /\ SetUp(v1, x)
      BY <1>0, <2>2, <2>3 DEF Methods, Places, SetUp
    <2>5. v8' = [v8 EXCEPT ![b] = x]
      BY <2>1, <2>2 DEF Signup!Start
    <2>6. /\ v8' \in [signups.Browsers -> Methods]
          /\ \A c \in signups.Browsers : v8'[c] = v8[c] \/ SetUp(v1', v8'[c])
      BY <1>2, <2>4, <2>5, ProgressIs
    <2>. QED
      BY <1>1, <1>2, <2>6, SignupSame, SignupKept DEF SignupInv
  <1>3. ASSUME NEW x \in Account, m.name = "removeUser", Signup!Set(m.uid, x), Kin(v1[m.uid], x), Signup!End(b)
        PROVE  SignupInv'
    <2>1. m.uid \in 1..Len(v1)
      BY <1>1, <1>3 DEF SetUp
    <2>2. Signup!NoMethod \in Methods /\ SetUp(v1', Signup!NoMethod)
      BY DEF Methods, Places, SetUp, Signup!NoMethod
    <2>3. /\ v8' \in [signups.Browsers -> Methods]
          /\ \A c \in signups.Browsers : v8'[c] = v8[c] \/ SetUp(v1', v8'[c])
      BY <1>3, <2>2, ProgressIs DEF Signup!End
    <2>. QED
      BY <1>1, <1>3, <2>1, <2>3, WriteKeeps
  <1>4. CASE Signup!At(b, "removeUser", "remove") /\ Signup!Set(m.uid, Signup!Removed) /\ Signup!End(b)
    <2>1. Signup!Removed \in Account /\ Kin(v1[m.uid], Signup!Removed)
      BY DEF Account, Kin, Signup!Removed, Signup!NewUser
    <2>. QED
      BY <1>3, <1>4, <2>1 DEF Signup!At
  <1>5. CASE Signup!At(b, "removeUser", "mail") /\ Signup!Set(m.uid, [v1[m.uid] EXCEPT !.removal = TRUE]) /\ Signup!End(b)
    <2>1. m.uid \in 1..Len(v1)
      BY <1>1, <1>5 DEF SetUp, Signup!At
    <2>2. PICK x : x = [v1[m.uid] EXCEPT !.removal = TRUE]
      OBVIOUS
    <2>3. x \in Account /\ Kin(v1[m.uid], x)
      BY <1>0, <2>1, <2>2 DEF Account, Kin
    <2>. QED
      BY <1>3, <1>5, <2>2, <2>3 DEF Signup!At
  <1>. QED
    BY <1>2, <1>4, <1>5 DEF Signup!removeUser

LEMMA restart_Keeps == ASSUME SignupInv, Signup!restart PROVE SignupInv'
  <1>1. v1' = v1 /\ v2' = v2 /\ v9' = v9 /\ v10' = v10
    BY DEF Signup!restart, Signup!formVars
  <1>2. \A b \in signups.Browsers : v8'[b] \in Methods /\ SetUp(v1, v8'[b])
    <2>1. TAKE b \in signups.Browsers
    <2>2. v8[b] \in Methods /\ SetUp(v1, v8[b])
      BY DEF SignupInv
    <2>3. v8'[b] = IF v8[b].name = "signup" THEN [v8[b] EXCEPT !.pc = "alias", !.uid = 0] ELSE Signup!NoMethod
      BY DEF Signup!restart
    <2>4. CASE v8[b].name = "signup"
      <3>1. PICK x : x = [v8[b] EXCEPT !.pc = "alias", !.uid = 0]
        OBVIOUS
      <3>2. x \in Methods /\ SetUp(v1, x)
        BY <2>2, <2>4, <3>1 DEF Methods, Places, SetUp
      <3>. QED
        BY <2>3, <2>4, <3>1, <3>2
    <2>5. CASE v8[b].name # "signup"
      BY <2>3, <2>5 DEF Methods, Places, SetUp, Signup!NoMethod
    <2>. QED
      BY <2>4, <2>5
  <1>3. v8' \in [signups.Browsers -> Methods]
    BY <1>2 DEF Signup!restart
  <1>. QED
    BY <1>1, <1>2, <1>3, SignupSame, SignupKept DEF SignupInv

LEMMA SignupInit == ASSUME Signup!Init PROVE SignupInv
  <1>1. v1 = <<>> /\ v1 \in Seq(Account) /\ Len(v1) = 0
    BY EmptySeq DEF Signup!Init
  <1>2. Different(v1)
    BY <1>1 DEF Different
  <1>3. Signup!NoMethod \in Methods /\ SetUp(v1, Signup!NoMethod)
    BY DEF Methods, Places, SetUp, Signup!NoMethod
  <1>. QED
    BY <1>1, <1>2, <1>3 DEF Signup!Init, SignupInv

LEMMA SignupNext == ASSUME SignupInv, Signup!Next PROVE SignupInv'
  <1>1. CASE Signup!restart
    BY <1>1, restart_Keeps
  <1>2. ASSUME NEW b \in signups.Browsers, \E a \in signups.Aliases : Signup!input(b, a) PROVE SignupInv'
    BY <1>2, form_Keeps
  <1>3. ASSUME NEW b \in signups.Browsers, Signup!handler(b) \/ Signup!reply(b) PROVE SignupInv'
    <2>1. v2[b] \in signups.Aliases
      BY DEF SignupInv
    <2>. QED
      BY <1>3, <2>1, form_Keeps
  <1>. QED
    BY <1>1, <1>2, <1>3, signup_Keeps, login_Keeps, removeUser_Keeps DEF Signup!Next

LEMMA SignupPromise == ASSUME SignupInv PROVE Signup!OwnAlias
  <1>1. DOMAIN v1 = 1..Len(v1)
    BY LenProperties DEF SignupInv
  <1>. QED
    BY <1>1 DEF SignupInv, Different, Wrote, Signup!OwnAlias, Signup!Uids

----------------------------------------------------------------------------
(***************************************************************************)
(* Configuration (v1 disk, v2 events, v3 _read_args, v4 _config_cache, v5  *)
(* copies, v6 readers, v7 edits, v8 running).                              *)
(***************************************************************************)

Contents == [from : {"none", "empty", "f", "j"}, n : Nat]
Overrides == [over : BOOLEAN, n : Nat, cut : BOOLEAN]

(* What is cached under o, and what is cached of j for f.                  *)
Cached(o) == v4.f[o]
FromJson == [from |-> "j", n |-> v4.j.n]

ConfigTypes ==
    /\ v1 \in [f : Contents, j : Overrides] /\ v1.f.from \in {"empty", "f"}
    /\ v2 \in Seq({"f", "j"})
    /\ v3 \in [f : config.Readers \cup {"none"}, j : BOOLEAN]
    /\ v4 \in [f : [Config!Options -> Contents], j : Overrides]
    /\ v5 \in [config.Readers -> Contents]
    /\ v6 \in SUBSET config.Readers
    /\ v7 \in Nat /\ v8 \in BOOLEAN

(* The last reader is one of them.                                         *)
LastReads == v3.f \in v6 \/ (v3.f = "none" /\ v6 = {})

(* j stands for f under f's own name, and while it overrides f.            *)
Overridden == \A o \in Config!Options : 
        Cached(o).from = "j" => o = "none" /\ v4.j.over /\ Cached(o).n = v4.j.n

(* Nothing of f is cached for options nobody passed.                       *)
Unread ==
    \A o \in Config!Options :
        (\A r \in v6 : config.options[r] # o) => Cached(o) \in {Config!None, FromJson}

Alike == \A r, s \in v6 : config.options[r] = config.options[s]
NoneOfF == \A k \in 1..Len(v2) : v2[k] # "f"

(* What the cache and the last reader have, unless f has changed since.    *)
UpToDate ==
    Alike /\ NoneOfF =>
        \A r \in v6 :
            /\ Cached(config.options[r]) \in {Config!None, v1.f, FromJson}
            /\ r = v3.f /\ config.cb[r] => v5[r] = v1.f \/ v5[r].from = "j"

ConfigInv == ConfigTypes /\ LastReads /\ Overridden /\ Unread /\ UpToDate

----------------------------------------------------------------------------
Caches == [f : [Config!Options -> Contents], j : Overrides]

(* An action's effect on what is cached under each name, as operators, so  *)
(* that the lemmas below can be cited.                                     *)
Loads(cache, new, o) ==
    /\ new \in Caches /\ new.j = cache.j /\ new.f[o] = v1.f
    /\ \A a \in Config!Options : a # o => new.f[a] = cache.f[a]

LEMMA OptionsOf == \A r \in config.Readers : config.options[r] \in Config!Options
  BY DEF Config!Options

LEMMA LoadIs ==
    ASSUME NEW cache \in Caches, NEW o \in Config!Options, v1.f \in Contents
    PROVE  Loads(cache, Config!load_config(cache, o), o)
  BY DEF Loads, Caches, Config!load_config

LEMMA ReadIs ==
    ASSUME NEW cache \in Caches, NEW r \in config.Readers, v1.f \in Contents
    PROVE  \/ /\ cache.f[config.options[r]] = Config!None
              /\ Loads(cache, Config!Read(r, cache), config.options[r])
           \/ /\ cache.f[config.options[r]] # Config!None
              /\ Config!Read(r, cache) = cache
  BY LoadIs, OptionsOf DEF Config!Read

LEMMA FileIs ==
    ASSUME ConfigInv
    PROVE  /\ v1.f \in Contents /\ v1.f # Config!None /\ v1.f # FromJson
           /\ v1.f.from # "j" /\ v4 \in Caches
  BY DEF ConfigInv, ConfigTypes, Config!None, FromJson, Contents, Caches

LEMMA ConfigInit == ASSUME ConfigAssumed, Config!Init PROVE ConfigInv
  <1>. USE DEF Config!Init
  <1>1. ConfigTypes
    BY DEF ConfigTypes, Config!File, Config!Json, Config!None, Contents, Overrides, Config!Options
  <1>2. \A o \in Config!Options : Cached(o) = Config!None
    BY DEF Cached
  <1>3. LastReads
    BY DEF LastReads
  <1>4. Unread
    BY <1>2 DEF Unread
  <1>6. Overridden
    <2>. SUFFICES ASSUME NEW o \in Config!Options PROVE Cached(o).from # "j"
      BY DEF Overridden
    <2>1. Cached(o) = [from |-> "none", n |-> 0]
      BY <1>2 DEF Config!None
    <2>. QED
      BY <2>1
  <1>5. UpToDate
    BY DEF UpToDate
  <1>. QED
    BY <1>1, <1>3, <1>4, <1>5, <1>6 DEF ConfigInv

(* r reads f for the first time or again.                                  *)
LEMMA ReadersGet ==
    ASSUME ConfigAssumed, ConfigInv, NEW r \in config.Readers, Config!get(r)
    PROVE  ConfigInv'
  <1>. DEFINE o == config.options[r]
  <1>1. /\ v4' = Config!Read(r, v4) /\ v5' = [v5 EXCEPT ![r] = Config!Read(r, v4).f[o]]
        /\ v3' = [v3 EXCEPT !.f = r] /\ v6' = v6 \cup {r}
        /\ v1' = v1 /\ v2' = v2 /\ v7' = v7 /\ v8' = v8
    BY DEF Config!get, Config!read_config
  <1>2. v1.f \in Contents /\ v1.f # Config!None /\ v1.f # FromJson /\ v1.f.from # "j" /\ v4 \in Caches
    BY FileIs
  <1>3. o \in Config!Options
    BY OptionsOf
  <1>4. \/ Cached(o) = Config!None /\ Loads(v4, v4', o)
        \/ Cached(o) # Config!None /\ v4' = v4
    BY <1>1, <1>2, ReadIs DEF Cached
  <1>5. /\ v4' \in Caches /\ v4'.j = v4.j
        /\ \A a \in Config!Options : a # o => Cached(a)' = Cached(a)
        /\ Cached(o)' = (IF Cached(o) = Config!None THEN v1.f ELSE Cached(o))
    BY <1>2, <1>4 DEF Loads, Cached
  <1>6. FromJson' = FromJson
    BY <1>5 DEF FromJson
  <1>7. v5'[r] = Cached(o)' /\ v5' \in [config.Readers -> Contents] /\ v3'.f = r
    <2>1. v5 \in [config.Readers -> Contents] /\ v3 \in [f : config.Readers \cup {"none"}, j : BOOLEAN]
      BY DEF ConfigInv, ConfigTypes
    <2>2. Config!Read(r, v4).f[o] = Cached(o)' /\ Cached(o)' \in Contents
      BY <1>1, <1>3, <1>5 DEF Cached, Caches
    <2>. QED
      BY <1>1, <2>1, <2>2
  <1>8. ConfigTypes'
    BY <1>1, <1>5, <1>7 DEF ConfigTypes, ConfigInv, Caches
  <1>9. LastReads'
    BY <1>1, <1>7 DEF LastReads
  <1>10. Overridden'
    BY <1>2, <1>3, <1>5 DEF Overridden, ConfigInv
  <1>11. Unread'
    BY <1>1, <1>5, <1>6 DEF Unread, ConfigInv
  <1>12. UpToDate'
    <2>. SUFFICES ASSUME Alike', NoneOfF', NEW s \in v6'
                  PROVE  /\ Cached(config.options[s])' \in {Config!None, v1'.f, FromJson'}
                         /\ s = v3'.f /\ config.cb[s] => v5'[s] = v1'.f \/ v5'[s].from = "j"
      BY DEF UpToDate
    <2>1. \A t \in v6' : config.options[t] = o
      BY <1>1 DEF Alike
    <2>2. Cached(o) \in {Config!None, v1.f, FromJson}
      <3>1. CASE v6 = {}
        BY <1>3, <3>1 DEF Unread, ConfigInv
      <3>2. CASE v6 # {}
        <4>1. PICK t \in v6 : TRUE
          BY <3>2
        <4>2. Alike /\ NoneOfF
          BY <1>1 DEF Alike, NoneOfF
        <4>3. config.options[t] = o
          BY <2>1, <1>1
        <4>. QED
          BY <4>1, <4>2, <4>3 DEF UpToDate, ConfigInv
      <3>. QED
        BY <3>1, <3>2
    <2>3. Cached(o)' \in {v1.f, FromJson}
      BY <1>2, <1>5, <2>2
    <2>. QED
      BY <1>1, <1>6, <1>7, <2>1, <2>3 DEF FromJson
  <1>. QED
    BY <1>8, <1>9, <1>10, <1>11, <1>12 DEF ConfigInv

(* The last reader's options are loaded, whether or not it reads again.    *)
LEMMA ReaderTold ==
    ASSUME ConfigAssumed, ConfigInv, Config!watch_f
    PROVE  ConfigInv'
  <1>1. /\ v1' = v1 /\ v7' = v7 /\ v8' = v8 /\ v2' = Tail(v2) /\ v2 # <<>>
        /\ \/ v3.f # "none" /\ Config!changed_f(v3.f)
           \/ v3.f = "none" /\ v3' = v3 /\ v4' = v4 /\ v5' = v5 /\ v6' = v6
    BY DEF Config!watch_f
  <1>2. v2' \in Seq({"f", "j"})
    BY <1>1, HeadTailProperties DEF ConfigInv, ConfigTypes
  <1>3. CASE v3.f = "none"
    <2>1. v6 = {} /\ v3' = v3 /\ v4' = v4 /\ v5' = v5 /\ v6' = v6
      BY <1>1, <1>3 DEF LastReads, ConfigInv, ConfigTypes, ConfigAssumed
    <2>2. ConfigTypes' /\ LastReads'
      BY <1>1, <1>2, <2>1 DEF ConfigTypes, ConfigInv, LastReads
    <2>3. Overridden' /\ Unread'
      BY <2>1 DEF ConfigInv, Overridden, Unread, Cached, FromJson
    <2>4. UpToDate'
      BY <2>1 DEF UpToDate
    <2>. QED
      BY <2>2, <2>3, <2>4 DEF ConfigInv
  <1>4. CASE v3.f # "none"
    <2>0. v3.f \in config.Readers
      BY <1>4 DEF LastReads, ConfigInv, ConfigTypes
    <2>. PICK r \in config.Readers : r = v3.f
      BY <2>0
    <2>. PICK o : o = config.options[r]
      OBVIOUS
    <2>. DEFINE c == Config!load_config(v4, o)
    <2>1. r \in v6 /\ r \in config.Readers /\ Config!changed_f(r) /\ config.cb[r] \in BOOLEAN
      BY <1>1, <1>4 DEF LastReads, ConfigInv, ConfigTypes, ConfigAssumed
    <2>2. v1.f \in Contents /\ v1.f # Config!None /\ v1.f # FromJson /\ v1.f.from # "j" /\ v4 \in Caches
      BY FileIs
    <2>3. o \in Config!Options
      BY OptionsOf, <2>1
    <2>4. Loads(v4, c, o)
      BY <2>2, <2>3, LoadIs
    <2>5. c \in Caches /\ c.f[o] = v1.f
      BY <2>4 DEF Loads
    <2>6. Config!Read(r, c) = c
      <3>. HIDE DEF c
      <3>. QED
        BY <2>1, <2>2, <2>5 DEF Config!Read
    <2>7. /\ v4' = c
          /\ \/ /\ config.cb[r] /\ v5' = [v5 EXCEPT ![r] = c.f[o]]
                /\ v3' = [v3 EXCEPT !.f = r] /\ v6' = v6 \cup {r}
             \/ ~config.cb[r] /\ v3' = v3 /\ v5' = v5 /\ v6' = v6
      <3>1. CASE config.cb[r]
        BY <2>1, <2>6, <3>1 DEF Config!changed_f, Config!read_config
      <3>2. CASE ~config.cb[r]
        BY <2>1, <3>2 DEF Config!changed_f
      <3>. QED
        BY <3>1, <3>2
    <2>. HIDE DEF c
    <2>8. Loads(v4, v4', o)
      BY <2>4, <2>7
    <2>9. /\ v4' \in Caches /\ v4'.j = v4.j /\ Cached(o)' = v1.f
          /\ \A a \in Config!Options : a # o => Cached(a)' = Cached(a)
      <3>1. v4' \in Caches /\ v4'.j = v4.j /\ v4'.f[o] = v1.f
        BY <2>8 DEF Loads
      <3>2. \A a \in Config!Options : a # o => v4'.f[a] = v4.f[a]
        BY <2>8 DEF Loads
      <3>. QED
        BY <3>1, <3>2 DEF Cached
    <2>10. FromJson' = FromJson
      BY <2>9 DEF FromJson
    <2>11. v3' = v3 /\ v6' = v6
      <3>1. [v3 EXCEPT !.f = r] = v3
        BY DEF ConfigInv, ConfigTypes
      <3>2. v6 \cup {r} = v6
        BY <2>1
      <3>. QED
        BY <2>7, <3>1, <3>2
    <2>12. v5' \in [config.Readers -> Contents] /\ (config.cb[r] => v5'[r] = v1.f)
      BY <2>1, <2>2, <2>5, <2>7 DEF ConfigInv, ConfigTypes
    <2>13. ConfigTypes' /\ LastReads'
      BY <1>1, <1>2, <2>9, <2>11, <2>12 DEF ConfigTypes, ConfigInv, LastReads, Caches
    <2>14. Overridden'
      <3>1. Overridden
        BY DEF ConfigInv
      <3>2. SUFFICES ASSUME NEW a \in Config!Options, Cached(a)'.from = "j"
                     PROVE  a = "none" /\ v4'.j.over /\ Cached(a)'.n = v4'.j.n
        BY DEF Overridden
      <3>3. a # o
        BY <2>2, <2>9, <3>2
      <3>4. Cached(a)' = Cached(a)
        BY <2>9, <3>3
      <3>. QED
        BY <2>9, <3>1, <3>2, <3>4 DEF Overridden
    <2>15. Unread'
      BY <2>1, <2>9, <2>10, <2>11 DEF Unread, ConfigInv
    <2>16. UpToDate'
      BY <1>1, <2>1, <2>9, <2>11, <2>12 DEF UpToDate, Alike
    <2>. QED
      BY <2>13, <2>14, <2>15, <2>16 DEF ConfigInv
  <1>. QED
    BY <1>3, <1>4

(* What j overrode is dropped, what it overrides now is put in place.      *)
LEMMA Overriding ==
    ASSUME ConfigInv, v1' = v1, v3'.f = v3.f, v5' = v5, v6' = v6,
           NoneOfF' => NoneOfF,
           v4' = Config!process_file_overrides(v4)
    PROVE  /\ v4' \in Caches /\ Overridden' /\ Unread' /\ UpToDate'
  <1>. DEFINE n == CASE v1.j.over -> [from |-> "j", n |-> v1.j.n]
                     [] ~v1.j.over /\ v4.j.over -> Config!None
                     [] OTHER -> v4.f["none"]
  <1>1. v4' = [v4 EXCEPT !.f["none"] = n, !.j = v1.j]
    BY DEF Config!process_file_overrides
  <1>2. /\ v1.j \in Overrides /\ v4 \in Caches /\ "none" \in Config!Options
        /\ Cached("none") \in Contents
    BY DEF ConfigInv, ConfigTypes, Caches, Config!Options, Cached
  <1>3. n = (IF v1.j.over THEN [from |-> "j", n |-> v1.j.n]
             ELSE IF v4.j.over THEN Config!None ELSE Cached("none"))
    BY DEF Cached
  <1>4. n \in Contents
    BY <1>2, <1>3 DEF Contents, Overrides, Config!None
  <1>5. n = Config!None \/ n = [from |-> "j", n |-> v1.j.n] \/ (n = Cached("none") /\ ~v4.j.over)
    BY <1>3
  <1>. HIDE DEF n
  <1>6. /\ v4' \in Caches /\ v4'.j = v1.j /\ Cached("none")' = n
        /\ \A a \in Config!Options : a # "none" => Cached(a)' = Cached(a)
    BY <1>1, <1>2, <1>4 DEF Caches, Cached
  <1>7. FromJson' = [from |-> "j", n |-> v1.j.n]
    BY <1>6 DEF FromJson
  <1>8. \A a \in Config!Options : a # "none" => Cached(a).from # "j"
    BY DEF ConfigInv, Overridden
  <1>9. FromJson.from = "j" /\ FromJson'.from = "j"
    BY DEF FromJson
  <1>10. Overridden'
    <2>. SUFFICES ASSUME NEW a \in Config!Options, Cached(a)'.from = "j"
                  PROVE  a = "none" /\ v4'.j.over /\ Cached(a)'.n = v4'.j.n
      BY DEF Overridden
    <2>1. a = "none" /\ n.from = "j"
      BY <1>6, <1>8
    <2>2. n # Config!None
      BY <2>1 DEF Config!None
    <2>3. n = Cached("none") => v4.j.over
      BY <1>2, <2>1 DEF ConfigInv, Overridden
    <2>4. n = [from |-> "j", n |-> v1.j.n]
      BY <1>5, <2>2, <2>3
    <2>5. v1.j.over
      <3>1. CASE v1.j.over
        BY <3>1
      <3>2. CASE ~v1.j.over
        <4>1. v4.j.over => n = Config!None
          BY <1>3, <3>2
        <4>2. ~v4.j.over => n = Cached("none")
          BY <1>3, <3>2
        <4>. QED
          BY <2>2, <2>3, <4>1, <4>2
      <3>. QED
        BY <3>1, <3>2
    <2>6. n.n = v1.j.n
      BY <2>4
    <2>. QED
      BY <1>6, <2>1, <2>5, <2>6
  <1>11. Cached("none")' \in {Config!None, FromJson', Cached("none")}
    BY <1>5, <1>6, <1>7
  <1>12. Cached("none") = FromJson => Cached("none")' \in {Config!None, FromJson'}
    <2>. SUFFICES ASSUME Cached("none") = FromJson PROVE n = Config!None \/ n = FromJson'
      BY <1>6
    <2>1. v4.j.over
      BY <1>2, <1>9 DEF ConfigInv, Overridden
    <2>. QED
      BY <1>5, <1>7, <2>1
  <1>13. \A a \in Config!Options : a # "none" => Cached(a) # FromJson /\ Cached(a)' = Cached(a)
    BY <1>6, <1>8, <1>9
  <1>14. \A v : \A a \in Config!Options :
             Cached(a) \in {Config!None, v, FromJson} => Cached(a)' \in {Config!None, v, FromJson'}
    BY <1>11, <1>12, <1>13
  <1>15. \A a \in Config!Options :
             Cached(a) \in {Config!None, FromJson} => Cached(a)' \in {Config!None, FromJson'}
    BY <1>11, <1>12, <1>13
  <1>16. Unread'
    BY <1>15 DEF Unread, ConfigInv
  <1>17. UpToDate'
    <2>. SUFFICES ASSUME Alike', NoneOfF', NEW s \in v6'
                  PROVE  /\ Cached(config.options[s])' \in {Config!None, v1'.f, FromJson'}
                         /\ s = v3'.f /\ config.cb[s] => v5'[s] = v1'.f \/ v5'[s].from = "j"
      BY DEF UpToDate
    <2>1. s \in v6 /\ s \in config.Readers /\ Alike /\ NoneOfF
      BY DEF Alike, ConfigInv, ConfigTypes
    <2>2. Cached(config.options[s]) \in {Config!None, v1.f, FromJson}
      BY <2>1 DEF UpToDate, ConfigInv
    <2>3. config.options[s] \in Config!Options
      BY <2>1, OptionsOf
    <2>4. Cached(config.options[s])' \in {Config!None, v1'.f, FromJson'}
      BY <1>14, <2>2, <2>3
    <2>5. s = v3.f /\ config.cb[s] => v5[s] = v1.f \/ v5[s].from = "j"
      BY <2>1 DEF UpToDate, ConfigInv
    <2>. QED
      BY <2>4, <2>5
  <1>. QED
    BY <1>6, <1>10, <1>16, <1>17

LEMMA JsonRead ==
    ASSUME ConfigInv, Config!get_json \/ Config!watch_j
    PROVE  ConfigInv'
  <1>1. /\ v1' = v1 /\ v5' = v5 /\ v6' = v6 /\ v7' = v7
        /\ v2' = v2 \/ (v2 # <<>> /\ Head(v2) = "j" /\ v2' = Tail(v2))
        /\ v3' = v3 \/ v3' = [v3 EXCEPT !.j = TRUE]
        /\ v8' = v8 \/ v8' = FALSE
        /\ v4' = v4 \/ v4' = Config!process_file_overrides(v4)
    BY DEF Config!get_json, Config!watch_j
  <1>2. v2 \in Seq({"f", "j"})
    BY DEF ConfigInv, ConfigTypes
  <1>3. v2' \in Seq({"f", "j"}) /\ (NoneOfF' => NoneOfF)
    <2>1. CASE v2' = v2
      BY <1>2, <2>1 DEF NoneOfF
    <2>2. CASE v2 # <<>> /\ Head(v2) = "j" /\ v2' = Tail(v2)
      <3>1. /\ v2' \in Seq({"f", "j"}) /\ Len(v2) \in Nat /\ Len(v2') \in Nat
            /\ Len(v2') = Len(v2) - 1
            /\ \A k \in 1..Len(v2') : v2'[k] = v2[k + 1]
            /\ v2[1] = "j"
        BY <1>2, <2>2, HeadTailProperties, LenProperties
      <3>2. ASSUME NoneOfF', NEW k \in 1..Len(v2) PROVE v2[k] # "f"
        <4>1. CASE k = 1
          BY <3>1, <4>1
        <4>2. CASE k # 1
          <5>1. k - 1 \in 1..Len(v2') /\ (k - 1) + 1 = k
            BY <3>1, <4>2
          <5>. QED
            BY <3>1, <3>2, <5>1 DEF NoneOfF
        <4>. QED
          BY <4>1, <4>2
      <3>. QED
        BY <3>1, <3>2 DEF NoneOfF
    <2>. QED
      BY <1>1, <2>1, <2>2
  <1>4. v3' \in [f : config.Readers \cup {"none"}, j : BOOLEAN] /\ v3'.f = v3.f
    BY <1>1 DEF ConfigInv, ConfigTypes
  <1>5. v4' \in Caches /\ Overridden' /\ Unread' /\ UpToDate'
    <2>1. CASE v4' = v4
      <3>1. v4' \in Caches
        BY <2>1 DEF ConfigInv, ConfigTypes, Caches
      <3>2. FromJson' = FromJson /\ \A o \in Config!Options : Cached(o)' = Cached(o)
        BY <2>1 DEF FromJson, Cached
      <3>3. Overridden' /\ Unread'
        BY <1>1, <2>1, <3>2 DEF ConfigInv, Overridden, Unread
      <3>4. UpToDate'
        <4>1. Alike' => Alike
          BY <1>1 DEF Alike
        <4>2. \A s \in v6 : Cached(config.options[s])' = Cached(config.options[s])
          BY <2>1 DEF Cached
        <4>. QED
          BY <1>1, <1>3, <1>4, <3>2, <4>1, <4>2 DEF ConfigInv, UpToDate
      <3>. QED
        BY <3>1, <3>3, <3>4
    <2>2. CASE v4' = Config!process_file_overrides(v4)
      BY <1>1, <1>3, <1>4, <2>2, Overriding
    <2>. QED
      BY <1>1, <2>1, <2>2
  <1>6. ConfigTypes'
    <2>1. v8' \in BOOLEAN
      BY <1>1 DEF ConfigInv, ConfigTypes
    <2>. QED
      BY <1>1, <1>3, <1>4, <1>5, <2>1 DEF ConfigInv, ConfigTypes, Caches
  <1>7. LastReads'
    BY <1>1, <1>4 DEF ConfigInv, LastReads
  <1>. QED
    BY <1>5, <1>6, <1>7 DEF ConfigInv

(* An edit is reported: of f, and what is cached of it is held out of date *)
(* until then; of j, and nothing is said of it.                            *)
LEMMA Edited ==
    ASSUME ConfigInv, NEW file \in {"f", "j"}, Config!truncate(file) \/ Config!write(file)
    PROVE  ConfigInv'
  <1>1. /\ v2' = Append(v2, file) /\ v3' = v3 /\ v4' = v4 /\ v5' = v5 /\ v6' = v6 /\ v8' = v8
        /\ v7' = v7 \/ v7' = v7 + 1
    BY DEF Config!truncate, Config!write, Config!Changes
  <1>2. /\ v1' \in [f : Contents, j : Overrides] /\ v1'.f.from \in {"empty", "f"}
        /\ file = "j" => v1'.f = v1.f
    <2>0. v1 \in [f : Contents, j : Overrides] /\ v1.f.from \in {"empty", "f"} /\ v7 \in Nat
      BY DEF ConfigInv, ConfigTypes
    <2>1. CASE file = "f"
      <3>1. v1' = [v1 EXCEPT !.f = Config!Empty] \/ v1' = [v1 EXCEPT !.f = Config!File(v7 + 1)]
        BY <2>1 DEF Config!truncate, Config!write
      <3>2. Config!Empty \in Contents /\ Config!Empty.from = "empty"
        BY DEF Config!Empty, Contents
      <3>3. Config!File(v7 + 1) \in Contents /\ Config!File(v7 + 1).from = "f"
        BY <2>0 DEF Config!File, Contents
      <3>. QED
        BY <2>0, <2>1, <3>1, <3>2, <3>3
    <2>2. CASE file = "j"
      <3>1. \/ v1' = [v1 EXCEPT !.j.cut = TRUE]
            \/ \E over \in BOOLEAN : v1' = [v1 EXCEPT !.j = Config!Json(v7 + 1, over)]
        BY <2>2 DEF Config!truncate, Config!write
      <3>2. \A over \in BOOLEAN : Config!Json(v7 + 1, over) \in Overrides
        BY <2>0 DEF Config!Json, Overrides
      <3>3. [v1 EXCEPT !.j.cut = TRUE] \in [f : Contents, j : Overrides]
        BY <2>0 DEF Overrides
      <3>. QED
        BY <2>0, <3>1, <3>2, <3>3
    <2>. QED
      BY <2>1, <2>2
  <1>3. ConfigTypes'
    <2>1. v2' \in Seq({"f", "j"})
      BY <1>1, AppendProperties DEF ConfigInv, ConfigTypes
    <2>2. v7' \in Nat
      BY <1>1 DEF ConfigInv, ConfigTypes
    <2>. QED
      BY <1>1, <1>2, <2>1, <2>2 DEF ConfigInv, ConfigTypes
  <1>4. /\ Alike' = Alike /\ FromJson' = FromJson
        /\ \A o : Cached(o)' = Cached(o)
    BY <1>1 DEF Alike, FromJson, Cached
  <1>5. LastReads' /\ Overridden' /\ Unread'
    BY <1>1, <1>4 DEF ConfigInv, LastReads, Overridden, Unread
  <1>6. NoneOfF' => file = "j" /\ NoneOfF
    <2>1. /\ Len(v2) \in Nat /\ Len(v2') = Len(v2) + 1 /\ v2'[Len(v2) + 1] = file
          /\ \A k \in 1..Len(v2) : v2'[k] = v2[k]
      BY <1>1, AppendProperties, LenProperties DEF ConfigInv, ConfigTypes
    <2>2. Len(v2) + 1 \in 1..Len(v2') /\ \A k \in 1..Len(v2) : k \in 1..Len(v2')
      BY <2>1
    <2>. QED
      BY <2>1, <2>2 DEF NoneOfF
  <1>7. UpToDate'
    BY <1>1, <1>2, <1>4, <1>6 DEF ConfigInv, UpToDate
  <1>. QED
    BY <1>3, <1>5, <1>7 DEF ConfigInv

LEMMA ConfigNext == ASSUME ConfigAssumed, ConfigInv, Config!Next PROVE ConfigInv'
  BY ReadersGet, ReaderTold, JsonRead, Edited DEF Config!Next

LEMMA ConfigPromise == ASSUME ConfigInv PROVE Config!Current
  <1>. SUFFICES ASSUME Config!Quiet, Alike, NEW r \in v6
                PROVE  /\ Cached(config.options[r]) \in {Config!None, v1.f, FromJson}
                       /\ r = v3.f /\ config.cb[r] => v5[r] = v1.f \/ v5[r].from = "j"
    BY DEF Config!Current, Alike, Cached, FromJson
  <1>1. NoneOfF
    BY DEF NoneOfF, Config!Quiet
  <1>. QED
    BY <1>1 DEF ConfigInv, UpToDate

----------------------------------------------------------------------------
(***************************************************************************)
(* The message stream (v1 buffer_max, v2 given, v3 ms).                    *)
(***************************************************************************)

(* The hypothesis: the store never reaches the limit exactly (with         *)
(* spool_after a multiple of 64 KB it does, and loses what it wrote).      *)
StreamAssumed == \A max \in stream.SpoolAfter : max \in Int /\ \A n \in Nat \ {0} : max # Stream!Full * n

Chunk == Nat \X Nat

MessageSet ==
    [queue : Seq(Chunk), buffered : Int, spooling : BOOLEAN, file : Seq(Chunk),
     fd : BOOLEAN, open_pending : BOOLEAN, write_pending : BOOLEAN,
     end_called : BOOLEAN, ended : {0, 1}, write_complete : BOOLEAN,
     in_pipe : BOOLEAN, paused : BOOLEAN, headers_done : BOOLEAN, rs : Nat,
     listens : BOOLEAN, out : Seq(Chunk), pipes : Nat, thrown : BOOLEAN,
     reads : SUBSET Seq(Chunk), failed : BOOLEAN,
     destroyed : {"no", "opening", "yes"}, exists : BOOLEAN]

(* Where the chunks g are: in memory, or the first in the file.  Until the *)
(* message ends those in memory are full; once it has ended nothing waits. *)
Stored(s, g) ==
    /\ ~s.spooling => s.file = <<>> /\ s.queue = g /\ ~Stream!Pending(s)
    /\ s.spooling => s.file \o s.queue = g
    /\ ~s.end_called => /\ s.ended = 0
                        /\ s.buffered = Stream!Full * Len(s.queue)
                        /\ \A i \in 1..Len(s.queue) : s.queue[i][2] = Stream!Full
    /\ s.end_called => g # <<>>
    /\ s.write_complete <=> s.ended = 1
    /\ s.ended = 1 => ~Stream!Pending(s) /\ (s.spooling => s.queue = <<>>)

(* What the reader has got: the headers, and as much of the chunks as the  *)
(* read stream has given.  Nobody reads before the message is complete.    *)
Reading(s, g) ==
    /\ s.in_pipe => s.write_complete /\ s.headers_done /\ (s.paused \/ s.rs > 0)
    /\ ~s.in_pipe => ~s.listens /\ s.rs = 0
    /\ s.rs > 0 => s.spooling /\ s.rs <= Len(g) + 1
    /\ s.listens /\ s.rs = 0 => s.out = <<Stream!Headers>>
    /\ s.listens /\ s.rs > 0 =>
          /\ Len(s.out) = s.rs /\ s.out[1] = Stream!Headers
          /\ \A i \in 1..Len(g) : i < s.rs => s.out[i + 1] = g[i]
    /\ \A r \in s.reads : s.write_complete /\ r = <<Stream!Headers>> \o g

(* The spool file: opened at most once.                                    *)
SpoolRemoved(s) == s.destroyed = "yes" => ~s.exists /\ ~s.open_pending

GoodStream(s, g) == s \in MessageSet /\ Stored(s, g) /\ Reading(s, g) /\ SpoolRemoved(s)

StreamInv ==
    /\ v1 \in stream.SpoolAfter
    /\ v2 \in Seq(Chunk)
    /\ GoodStream(v3, v2)

LEMMA FullIs == Stream!Full = 2
  BY DEF Stream!Full

----------------------------------------------------------------------------
(* Reading.                                                                *)

LEMMA HeadersIs == Stream!Headers \in Chunk
  BY DEF Stream!Headers, Chunk

LEMMA MessageIs ==
    ASSUME NEW g \in Seq(Chunk)
    PROVE  /\ <<Stream!Headers>> \o g \in Seq(Chunk)
           /\ Len(<<Stream!Headers>> \o g) = Len(g) + 1
           /\ (<<Stream!Headers>> \o g)[1] = Stream!Headers
           /\ \A i \in 1..Len(g) : (<<Stream!Headers>> \o g)[i + 1] = g[i]
  <1>. PICK x \in Chunk : x = Stream!Headers
    BY HeadersIs
  <1>. PICK h \in Seq(Chunk) : h = <<x>> /\ Len(h) = 1 /\ h[1] = x
    <2>1. <<x>> \in Seq(Chunk) /\ Len(<<x>>) = 1 /\ <<x>>[1] = x
      OBVIOUS
    <2>. QED
      BY <2>1
  <1>. PICK n \in Nat : n = Len(g)
    BY LenProperties
  <1>1. /\ h \o g \in Seq(Chunk) /\ Len(h \o g) = 1 + n
        /\ \A i \in 1..1 + n : (h \o g)[i] = IF i <= 1 THEN h[i] ELSE g[i - 1]
    BY ConcatProperties
  <1>2. (h \o g)[1] = h[1]
    <2>1. 1 \in 1..1 + n
      OBVIOUS
    <2>. QED
      BY <1>1, <2>1
  <1>3. ASSUME NEW i \in 1..n
        PROVE  (h \o g)[i + 1] = g[i]
    <2>1. i + 1 \in 1..1 + n /\ ~(i + 1 <= 1) /\ (i + 1) - 1 = i
      OBVIOUS
    <2>. QED
      BY <1>1, <2>1
  <1>. QED
    BY <1>1, <1>2, <1>3

LEMMA ChunksAssociative ==
    ASSUME NEW x \in Seq(Chunk), NEW y \in Seq(Chunk), NEW z \in Seq(Chunk)
    PROVE  (x \o y) \o z = x \o (y \o z)
  BY ConcatAssociative

(* What has been read to the end is the message.                           *)
LEMMA ReadToEnd ==
    ASSUME NEW g \in Seq(Chunk), NEW out \in Seq(Chunk),
           Len(out) = Len(g) + 1, out[1] = Stream!Headers,
           \A i \in 1..Len(g) : out[i + 1] = g[i]
    PROVE  out = <<Stream!Headers>> \o g
  <1>. PICK m \in Seq(Chunk) : m = <<Stream!Headers>> \o g
    BY MessageIs
  <1>. PICK n \in Nat : n = Len(g)
    BY LenProperties
  <1>1. Len(m) = n + 1 /\ m[1] = Stream!Headers /\ \A i \in 1..n : m[i + 1] = g[i]
    BY MessageIs
  <1>2. ASSUME NEW i \in 1..n + 1
        PROVE  out[i] = m[i]
    <2>1. CASE i = 1
      BY <1>1, <2>1
    <2>2. CASE i # 1
      <3>1. i - 1 \in 1..n /\ (i - 1) + 1 = i
        BY <2>2
      <3>. QED
        BY <1>1, <3>1
    <2>. QED
      BY <2>1, <2>2
  <1>. QED
    BY <1>1, <1>2, SeqEqual

----------------------------------------------------------------------------
(* What does not concern readers.                                          *)
SameStore(s, t) ==
    /\ t.queue = s.queue /\ t.buffered = s.buffered /\ t.spooling = s.spooling
    /\ t.file = s.file /\ t.open_pending = s.open_pending
    /\ t.write_pending = s.write_pending /\ t.end_called = s.end_called
    /\ t.ended = s.ended /\ t.write_complete = s.write_complete

SameLife(s, t) ==
    /\ t.destroyed = s.destroyed /\ t.exists = s.exists /\ t.failed = s.failed

LEMMA SameStored ==
    ASSUME NEW s \in MessageSet, NEW t \in MessageSet, NEW g, SameStore(s, t)
    PROVE  Stored(s, g) <=> Stored(t, g)
  BY DEF SameStore, Stored, Stream!Pending

(* The message is complete, and somebody has asked for it: the state in    *)
(* which _read goes on to the body.                                        *)
AtBody(s, g) ==
    /\ s \in MessageSet /\ Stored(s, g) /\ s.write_complete /\ s.in_pipe /\ ~s.paused
    /\ s.headers_done /\ s.rs = 0
    /\ s.listens => s.out = <<Stream!Headers>>
    /\ \A r \in s.reads : r = <<Stream!Headers>> \o g

LEMMA finish_Is ==
    ASSUME NEW s \in MessageSet, NEW g, Stored(s, g), s.write_complete,
           \A r \in s.reads : r = <<Stream!Headers>> \o g,
           s.listens => s.out = <<Stream!Headers>> \o g
    PROVE  LET t == Stream!_read_finish(s)
           IN  /\ t \in MessageSet /\ Stored(t, g) /\ Reading(t, g)
               /\ SameLife(s, t) /\ t.thrown = s.thrown /\ t.open_pending = s.open_pending
  <1>. PICK t : t = Stream!_read_finish(s)
    OBVIOUS
  <1>. PICK reads : reads = IF s.listens THEN s.reads \union {s.out} ELSE s.reads
    OBVIOUS
  <1>. PICK off \in BOOLEAN, zero \in Nat : off = FALSE /\ zero = 0
    OBVIOUS
  <1>1. t = [s EXCEPT !.in_pipe = off, !.rs = zero, !.listens = off, !.reads = reads]
    BY DEF Stream!_read_finish
  <1>2. reads \in SUBSET Seq(Chunk) /\ \A r \in reads : r = <<Stream!Headers>> \o g
    BY DEF MessageSet
  <1>3. t \in MessageSet
    BY <1>1, <1>2 DEF MessageSet
  <1>4. /\ ~t.in_pipe /\ t.rs = 0 /\ ~t.listens /\ t.reads = reads
        /\ SameStore(s, t) /\ SameLife(s, t) /\ t.thrown = s.thrown
        /\ t.write_complete
    BY <1>1 DEF MessageSet, SameStore, SameLife
  <1>5. Stored(t, g)
    BY <1>3, <1>4, SameStored
  <1>6. Reading(t, g)
    BY <1>2, <1>4 DEF Reading
  <1>. QED
    BY <1>3, <1>4, <1>5, <1>6 DEF SameStore

LEMMA body_Is ==
    ASSUME NEW g \in Seq(Chunk), NEW s, AtBody(s, g), g # <<>>
    PROVE  LET t == Stream!_read_body(s)
           IN  /\ t \in MessageSet /\ Stored(t, g) /\ Reading(t, g)
               /\ SameLife(s, t) /\ t.thrown = s.thrown /\ t.open_pending = s.open_pending
  <1>1. /\ s \in MessageSet /\ Stored(s, g) /\ s.write_complete /\ s.in_pipe /\ ~s.paused
        /\ s.headers_done /\ s.rs = 0
        /\ s.listens => s.out = <<Stream!Headers>>
        /\ \A r \in s.reads : r = <<Stream!Headers>> \o g
    BY DEF AtBody
  <1>2. s.ended = 1 /\ ~Stream!Pending(s)
    BY <1>1 DEF Stored
  <1>3. CASE s.queue # <<>>
    <2>1. s.queue = g
      BY <1>1, <1>2, <1>3 DEF Stored, MessageSet
    <2>. PICK u : u = IF s.listens THEN [s EXCEPT !.out = @ \o s.queue] ELSE s
      OBVIOUS
    <2>2. Stream!_read_body(s) = Stream!_read_finish(u)
      BY <1>3 DEF Stream!_read_body, Stream!ReadQueue
    <2>3. /\ u \in MessageSet /\ SameStore(s, u) /\ SameLife(s, u) /\ u.thrown = s.thrown
          /\ u.reads = s.reads /\ u.write_complete /\ u.open_pending = s.open_pending
          /\ u.listens = s.listens
          /\ u.listens => u.out = <<Stream!Headers>> \o g
      <3>1. CASE s.listens
        <4>1. PICK o : o = <<Stream!Headers>> \o g
          OBVIOUS
        <4>2. o \in Seq(Chunk) /\ s.out \o s.queue = o
          BY <1>1, <2>1, <3>1, <4>1, MessageIs
        <4>3. u = [s EXCEPT !.out = o]
          BY <3>1, <4>2
        <4>. QED
          BY <1>1, <4>1, <4>2, <4>3 DEF MessageSet, SameStore, SameLife
      <3>2. CASE ~s.listens
        BY <1>1, <3>2 DEF SameStore, SameLife
      <3>. QED
        BY <3>1, <3>2
    <2>4. Stored(u, g)
      BY <1>1, <2>3, SameStored
    <2>5. LET t == Stream!_read_finish(u)
          IN  /\ t \in MessageSet /\ Stored(t, g) /\ Reading(t, g)
              /\ SameLife(u, t) /\ t.thrown = u.thrown /\ t.open_pending = u.open_pending
      BY <1>1, <2>3, <2>4, finish_Is
    <2>. QED
      BY <2>2, <2>3, <2>5 DEF SameLife
  <1>4. CASE s.queue = <<>>
    <2>1. s.spooling
      BY <1>1, <1>4 DEF Stored, MessageSet
    <2>. PICK t : t = Stream!_read_body(s)
      OBVIOUS
    <2>. PICK one \in Nat : one = 1
      OBVIOUS
    <2>2. t = [s EXCEPT !.rs = one]
      BY <1>4 DEF Stream!_read_body
    <2>3. /\ t \in MessageSet /\ SameStore(s, t) /\ SameLife(s, t) /\ t.thrown = s.thrown
          /\ t.in_pipe /\ t.headers_done /\ t.write_complete /\ t.rs = 1 /\ t.spooling
          /\ t.listens = s.listens /\ t.out = s.out /\ t.reads = s.reads
      BY <1>1, <2>1, <2>2 DEF MessageSet, SameStore, SameLife
    <2>4. Stored(t, g)
      BY <1>1, <2>3, SameStored
    <2>5. Reading(t, g)
      <3>1. 1 <= Len(g) + 1
        BY LenProperties
      <3>2. t.listens => Len(t.out) = 1 /\ t.out[1] = Stream!Headers
        BY <1>1, <2>3
      <3>3. \A i \in 1..Len(g) : ~(i < 1)
        OBVIOUS
      <3>. QED
        BY <1>1, <2>3, <3>1, <3>2, <3>3 DEF Reading
    <2>. QED
      BY <2>3, <2>4, <2>5 DEF SameStore
  <1>. QED
    BY <1>3, <1>4

(* The same, with the headers to be given first.                           *)
AtHeaders(s, g) ==
    /\ s \in MessageSet /\ Stored(s, g) /\ s.write_complete /\ s.in_pipe /\ ~s.paused
    /\ ~s.headers_done /\ s.rs = 0 /\ s.listens /\ s.out = <<>>
    /\ \A r \in s.reads : r = <<Stream!Headers>> \o g

ReadsOn(s, t, g) ==
    /\ t \in MessageSet /\ Stored(t, g) /\ Reading(t, g)
    /\ SameLife(s, t) /\ t.open_pending = s.open_pending

LEMMA read_Is ==
    ASSUME NEW g \in Seq(Chunk), NEW s, AtHeaders(s, g), g # <<>>, NEW full \in BOOLEAN
    PROVE  ReadsOn(s, Stream!_read(s, full), g) /\ Stream!_read(s, full).thrown = s.thrown
  <1>1. /\ s \in MessageSet /\ Stored(s, g) /\ s.write_complete /\ s.in_pipe /\ ~s.paused
        /\ ~s.headers_done /\ s.rs = 0 /\ s.listens /\ s.out = <<>>
        /\ \A r \in s.reads : r = <<Stream!Headers>> \o g
    BY DEF AtHeaders
  <1>. PICK yes \in BOOLEAN : yes = TRUE
    OBVIOUS
  <1>. PICK o : o = <<Stream!Headers>>
    OBVIOUS
  <1>2. o \in Seq(Chunk) /\ Append(<<>>, Stream!Headers) = o
    BY HeadersIs
  <1>. PICK e : e = Stream!Emit(s, Stream!Headers)
    OBVIOUS
  <1>3. e = [s EXCEPT !.out = o]
    BY <1>1, <1>2 DEF Stream!Emit
  <1>4. /\ e \in MessageSet /\ SameStore(s, e) /\ SameLife(s, e) /\ e.thrown = s.thrown
        /\ e.write_complete /\ e.in_pipe /\ e.rs = 0 /\ e.listens /\ e.out = o
        /\ e.reads = s.reads /\ e.open_pending = s.open_pending
    BY <1>1, <1>2, <1>3 DEF MessageSet, SameStore, SameLife
  <1>. PICK u : u = [e EXCEPT !.headers_done = yes, !.paused = full /\ s.listens]
    OBVIOUS
  <1>5. Stream!_read(s, full) = IF u.paused THEN u ELSE Stream!_read_body(u)
    <2>1. Stream!_read(s, full) = LET v == [e EXCEPT !.headers_done = TRUE,
                                              !.paused = full /\ s.listens]
                           IN  IF v.paused THEN v ELSE Stream!_read_body(v)
      BY <1>1 DEF Stream!_read
    <2>. QED
      BY <2>1
  <1>. PICK p \in BOOLEAN : p = full
    OBVIOUS
  <1>6. u = [e EXCEPT !.headers_done = yes, !.paused = p]
    BY <1>1
  <1>7. /\ u \in MessageSet /\ SameStore(e, u) /\ SameLife(e, u) /\ u.thrown = e.thrown
        /\ u.write_complete /\ u.in_pipe /\ u.headers_done /\ u.rs = 0 /\ u.listens /\ u.out = o
        /\ u.reads = e.reads /\ u.open_pending = e.open_pending
    <2>1. u \in MessageSet
      <3>1. e \in MessageSet /\ yes \in BOOLEAN /\ p \in BOOLEAN
        BY <1>4
      <3>. QED
        BY ONLY <3>1, <1>6 DEF MessageSet
    <2>2. /\ u.in_pipe = e.in_pipe /\ u.headers_done = yes /\ u.rs = e.rs
          /\ u.listens = e.listens /\ u.out = e.out /\ u.reads = e.reads
          /\ u.thrown = e.thrown /\ u.write_complete = e.write_complete
      BY <1>4, <1>6 DEF MessageSet
    <2>3. SameStore(e, u) /\ SameLife(e, u)
      BY <1>4, <1>6 DEF MessageSet, SameStore, SameLife
    <2>. QED
      BY <1>4, <2>1, <2>2, <2>3 DEF SameStore
  <1>8. /\ SameStore(s, u) /\ SameLife(s, u) /\ u.thrown = s.thrown /\ u.reads = s.reads
        /\ u.open_pending = s.open_pending
        /\ Stored(u, g)
    <2>1. /\ SameStore(s, u) /\ SameLife(s, u) /\ u.thrown = s.thrown /\ u.reads = s.reads
          /\ u.open_pending = s.open_pending
      BY <1>4, <1>7 DEF SameStore, SameLife
    <2>. QED
      BY <1>1, <1>7, <2>1, SameStored
  <1>9. CASE u.paused
    <2>1. Reading(u, g)
      BY <1>1, <1>7, <1>8, <1>9 DEF Reading
    <2>. QED
      BY <1>5, <1>7, <1>8, <1>9, <2>1 DEF ReadsOn
  <1>10. CASE ~u.paused
    <2>1. AtBody(u, g)
      BY <1>1, <1>7, <1>8, <1>10 DEF AtBody
    <2>2. LET t == Stream!_read_body(u)
          IN  /\ t \in MessageSet /\ Stored(t, g) /\ Reading(t, g)
              /\ SameLife(u, t) /\ t.thrown = u.thrown /\ t.open_pending = u.open_pending
      BY <2>1, body_Is
    <2>. QED
      BY <1>5, <1>8, <1>10, <2>2 DEF ReadsOn, SameLife
  <1>. QED
    BY <1>9, <1>10

(* A reader starts: on a complete message he is served, on one that ends   *)
(* at this moment he is when it has.                                       *)
LEMMA pipe_Starts ==
    ASSUME NEW s \in MessageSet, ~s.in_pipe
    PROVE  \E u \in MessageSet :
              /\ \A full : Stream!pipe(s, full) = IF u.write_complete THEN Stream!_read(u, full) ELSE u
              /\ SameStore(s, u) /\ SameLife(s, u) /\ u.thrown = s.thrown
              /\ u.in_pipe /\ ~u.paused /\ ~u.headers_done /\ u.rs = 0 /\ u.listens
              /\ u.out = <<>> /\ u.reads = s.reads
  <1>. PICK off \in BOOLEAN, on \in BOOLEAN, zero \in Nat :
          off = FALSE /\ on = TRUE /\ zero = 0
    OBVIOUS
  <1>. PICK empty \in Seq(Chunk) : empty = <<>>
    BY EmptySeq
  <1>. PICK n : n = s.pipes + 1
    OBVIOUS
  <1>1. n \in Nat
    <2>1. s.pipes \in Nat
      BY DEF MessageSet
    <2>. QED
      BY <2>1
  <1>. PICK u : u = [s EXCEPT !.in_pipe = on, !.paused = off, !.headers_done = off,
                              !.rs = zero, !.listens = on, !.out = empty, !.pipes = n]
    OBVIOUS
  <1>2. \A full : Stream!pipe(s, full) = IF u.write_complete THEN Stream!_read(u, full) ELSE u
    BY DEF Stream!pipe
  <1>3. u \in MessageSet
    BY <1>1 DEF MessageSet
  <1>4. /\ SameStore(s, u) /\ SameLife(s, u) /\ u.thrown = s.thrown
        /\ u.in_pipe /\ ~u.paused /\ ~u.headers_done /\ u.rs = 0 /\ u.listens
        /\ u.out = <<>> /\ u.reads = s.reads
    BY DEF MessageSet, SameStore, SameLife
  <1>. QED
    BY <1>2, <1>3, <1>4

LEMMA pipe_Is ==
    ASSUME NEW g \in Seq(Chunk), g # <<>>, NEW s \in MessageSet, Stored(s, g), Reading(s, g),
           s.write_complete, NEW full \in BOOLEAN
    PROVE  /\ ReadsOn(s, Stream!pipe(s, full), g)
           /\ Stream!pipe(s, full).thrown /\ ~s.thrown => s.paused \/ s.rs > 0
  <1>1. CASE s.in_pipe
    <2>. PICK on \in BOOLEAN : on = TRUE
      OBVIOUS
    <2>. PICK n : n = s.pipes + 1
      OBVIOUS
    <2>1. n \in Nat
      <3>1. s.pipes \in Nat
        BY DEF MessageSet
      <3>. QED
        BY <3>1
    <2>. PICK t : t = Stream!pipe(s, full)
      OBVIOUS
    <2>2. t = [s EXCEPT !.thrown = on, !.pipes = n]
      BY <1>1 DEF Stream!pipe
    <2>3. /\ t \in MessageSet /\ SameStore(s, t) /\ SameLife(s, t) /\ t.in_pipe = s.in_pipe
          /\ t.headers_done = s.headers_done /\ t.paused = s.paused /\ t.rs = s.rs
          /\ t.listens = s.listens /\ t.out = s.out /\ t.reads = s.reads
      BY <2>1, <2>2 DEF MessageSet, SameStore, SameLife
    <2>4. Stored(t, g)
      BY <2>3, SameStored
    <2>5. Reading(t, g)
      BY <2>3 DEF Reading, SameStore
    <2>6. s.paused \/ s.rs > 0
      BY <1>1 DEF Reading
    <2>. QED
      BY <2>3, <2>4, <2>5, <2>6 DEF ReadsOn, SameStore
  <1>2. CASE ~s.in_pipe
    <2>1. PICK u \in MessageSet :
             /\ \A f : Stream!pipe(s, f) = IF u.write_complete THEN Stream!_read(u, f) ELSE u
             /\ SameStore(s, u) /\ SameLife(s, u) /\ u.thrown = s.thrown
             /\ u.in_pipe /\ ~u.paused /\ ~u.headers_done /\ u.rs = 0 /\ u.listens
             /\ u.out = <<>> /\ u.reads = s.reads
      BY <1>2, pipe_Starts
    <2>2. Stream!pipe(s, full) = Stream!_read(u, full)
      BY <2>1 DEF SameStore
    <2>3. Stored(u, g)
      BY <2>1, SameStored
    <2>4. AtHeaders(u, g)
      BY <2>1, <2>3 DEF AtHeaders, SameStore, Reading
    <2>5. ReadsOn(u, Stream!_read(u, full), g) /\ Stream!_read(u, full).thrown = u.thrown
      BY <2>4, read_Is
    <2>. QED
      BY <2>1, <2>2, <2>5 DEF ReadsOn, SameLife, SameStore
  <1>. QED
    BY <1>1, <1>2

----------------------------------------------------------------------------
(* Writing.                                                                *)

(* All of the message is in its place, and nobody was told.                *)
AtEnd(s, g) ==
    /\ s \in MessageSet /\ Stored(s, g) /\ Reading(s, g)
    /\ s.end_called /\ s.ended = 0 /\ ~Stream!Pending(s)
    /\ s.spooling => s.queue = <<>>

LEMMA Finish_Is ==
    ASSUME NEW g \in Seq(Chunk), NEW s, AtEnd(s, g),
           NEW reader_ \in BOOLEAN, NEW full \in BOOLEAN
    PROVE  ReadsOn(s, Stream!Finish(s, reader_, full), g) /\ Stream!Finish(s, reader_, full).thrown = s.thrown
  <1>1. /\ s \in MessageSet /\ Stored(s, g) /\ Reading(s, g)
        /\ s.end_called /\ s.ended = 0 /\ ~Stream!Pending(s) /\ ~s.write_complete
        /\ s.spooling => s.queue = <<>>
        /\ g # <<>>
    BY DEF AtEnd, Stored, MessageSet
  <1>2. ~s.in_pipe /\ ~s.listens /\ s.rs = 0 /\ s.reads = {}
    BY <1>1 DEF Reading, MessageSet
  <1>. PICK on \in BOOLEAN, one \in {0, 1} : on = TRUE /\ one = 1
    OBVIOUS
  <1>. PICK u : u = [s EXCEPT !.ended = one]
    OBVIOUS
  <1>3. u = [s EXCEPT !.ended = @ + 1]
    BY <1>1
  <1>4. /\ u \in MessageSet /\ SameLife(s, u) /\ u.thrown = s.thrown
        /\ u.queue = s.queue /\ u.buffered = s.buffered /\ u.spooling = s.spooling
        /\ u.file = s.file /\ u.open_pending = s.open_pending
        /\ u.write_pending = s.write_pending /\ u.end_called = s.end_called
        /\ u.ended = 1 /\ u.write_complete = s.write_complete
        /\ u.in_pipe = s.in_pipe /\ u.listens = s.listens /\ u.rs = s.rs /\ u.reads = s.reads
    BY <1>1 DEF MessageSet, SameLife
  <1>. DEFINE p == IF reader_ /\ s.ended = 0 THEN Stream!pipe(u, full) ELSE u
              w == [p EXCEPT !.write_complete = TRUE]
  <1>5. Stream!Finish(s, reader_, full) = IF p.listens /\ ~p.write_complete THEN Stream!_read(w, full) ELSE w
    BY <1>3 DEF Stream!Finish
  <1>6. \E v \in MessageSet :
           /\ p = v /\ SameStore(u, v) /\ SameLife(u, v) /\ v.thrown = u.thrown
           /\ v.reads = u.reads
           /\ IF reader_ THEN /\ v.in_pipe /\ ~v.paused /\ ~v.headers_done /\ v.rs = 0
                              /\ v.listens /\ v.out = <<>>
              ELSE ~v.in_pipe /\ ~v.listens /\ v.rs = 0
    <2>1. CASE reader_
      <3>1. PICK v \in MessageSet :
               /\ \A f : Stream!pipe(u, f) = IF v.write_complete THEN Stream!_read(v, f) ELSE v
               /\ SameStore(u, v) /\ SameLife(u, v) /\ v.thrown = u.thrown
               /\ v.in_pipe /\ ~v.paused /\ ~v.headers_done /\ v.rs = 0 /\ v.listens
               /\ v.out = <<>> /\ v.reads = u.reads
        BY <1>2, <1>4, pipe_Starts
      <3>2. p = v
        BY <1>1, <1>4, <2>1, <3>1 DEF SameStore
      <3>. QED
        BY <2>1, <3>1, <3>2
    <2>2. CASE ~reader_
      BY <1>2, <1>4, <2>2 DEF SameStore, SameLife
    <2>. QED
      BY <2>1, <2>2
  <1>. HIDE DEF p
  <1>7. PICK v \in MessageSet :
           /\ p = v /\ SameStore(u, v) /\ SameLife(u, v) /\ v.thrown = u.thrown
           /\ v.reads = u.reads
           /\ IF reader_ THEN /\ v.in_pipe /\ ~v.paused /\ ~v.headers_done /\ v.rs = 0
                              /\ v.listens /\ v.out = <<>>
              ELSE ~v.in_pipe /\ ~v.listens /\ v.rs = 0
    BY <1>6
  <1>. PICK x : x = [v EXCEPT !.write_complete = on]
    OBVIOUS
  <1>8. x = w
    BY <1>7
  <1>20. /\ x \in MessageSet /\ x.write_complete
         /\ x.queue = v.queue /\ x.spooling = v.spooling /\ x.file = v.file
         /\ x.open_pending = v.open_pending /\ x.write_pending = v.write_pending
         /\ x.end_called = v.end_called /\ x.ended = v.ended
         /\ SameLife(v, x) /\ x.thrown = v.thrown /\ x.reads = v.reads
         /\ x.in_pipe = v.in_pipe /\ x.paused = v.paused /\ x.headers_done = v.headers_done
         /\ x.rs = v.rs /\ x.listens = v.listens /\ x.out = v.out
    BY DEF MessageSet, SameLife
  <1>9. /\ x \in MessageSet /\ x.write_complete
        /\ x.queue = s.queue /\ x.spooling = s.spooling /\ x.file = s.file
        /\ x.open_pending = s.open_pending /\ x.write_pending = s.write_pending
        /\ x.end_called = s.end_called /\ x.ended = 1
        /\ SameLife(s, x) /\ x.thrown = s.thrown /\ x.reads = {}
        /\ x.in_pipe = v.in_pipe /\ x.paused = v.paused /\ x.headers_done = v.headers_done
        /\ x.rs = v.rs /\ x.listens = v.listens /\ x.out = v.out
    BY <1>2, <1>4, <1>7, <1>20 DEF SameStore, SameLife
  <1>10. Stored(x, g)
    BY <1>1, <1>9 DEF Stored, Stream!Pending
  <1>11. CASE reader_
    <2>1. AtHeaders(x, g)
      BY <1>7, <1>9, <1>10, <1>11 DEF AtHeaders
    <2>2. ReadsOn(x, Stream!_read(x, full), g) /\ Stream!_read(x, full).thrown = x.thrown
      BY <1>1, <2>1, read_Is
    <2>3. Stream!Finish(s, reader_, full) = Stream!_read(x, full)
      BY <1>1, <1>4, <1>5, <1>7, <1>8, <1>11 DEF SameStore
    <2>. QED
      BY <1>9, <2>2, <2>3 DEF ReadsOn, SameLife
  <1>12. CASE ~reader_
    <2>1. Reading(x, g)
      BY <1>7, <1>9, <1>12 DEF Reading
    <2>2. Stream!Finish(s, reader_, full) = x
      BY <1>5, <1>7, <1>8, <1>12
    <2>. QED
      BY <1>9, <1>10, <2>1, <2>2 DEF ReadsOn
  <1>. QED
    BY <1>11, <1>12

(* The first chunk goes to the file.                                       *)
LEMMA ToFile_Is ==
    ASSUME NEW g \in Seq(Chunk), NEW s \in MessageSet, Stored(s, g), Reading(s, g),
           s.spooling, s.queue # <<>>, s.ended = 0, ~Stream!Pending(s),
           NEW wait \in BOOLEAN, NEW reader_ \in BOOLEAN, NEW full \in BOOLEAN
    PROVE  ReadsOn(s, Stream!ToFile(s, wait, reader_, full), g)
           /\ Stream!ToFile(s, wait, reader_, full).thrown = s.thrown
  <1>. DEFINE c == Head(s.queue)
              q == Tail(s.queue)
              f == Append(s.file, c)
              b == s.buffered - c[2]
  <1>1. /\ s.queue \in Seq(Chunk) /\ s.file \in Seq(Chunk) /\ s.buffered \in Int
        /\ s.file \o s.queue = g
    BY DEF MessageSet, Stored
  <1>. PICK n \in Nat : n = Len(s.queue)
    BY <1>1, LenProperties
  <1>2. /\ c \in Chunk /\ q \in Seq(Chunk) /\ Len(q) = n - 1
        /\ \A i \in 1..n - 1 : q[i] = s.queue[i + 1]
    BY <1>1, HeadTailProperties
  <1>3. c = s.queue[1] /\ n > 0
    BY <1>1, EmptySeq
  <1>4. f \in Seq(Chunk) /\ f \o q = g
    <2>1. s.queue = <<c>> \o q
      BY <1>1
    <2>2. f = s.file \o <<c>>
      BY <1>1
    <2>3. <<c>> \in Seq(Chunk)
      BY <1>2
    <2>4. (s.file \o <<c>>) \o q = s.file \o (<<c>> \o q)
      <3>. HIDE DEF c, q
      <3>. QED
        BY ONLY <1>1, <1>2, <2>3, ChunksAssociative
    <2>. QED
      BY <1>1, <1>2, <2>1, <2>2, <2>3, <2>4, AppendProperties
  <1>5. b \in Int
    <2>1. c[2] \in Nat
      BY <1>2 DEF Chunk
    <2>. QED
      BY <1>1, <2>1
  <1>6. ~s.end_called => /\ b = Stream!Full * (n - 1)
                         /\ \A i \in 1..n - 1 : q[i][2] = Stream!Full
    <2>. SUFFICES ASSUME ~s.end_called
                  PROVE  b = Stream!Full * (n - 1) /\ \A i \in 1..n - 1 : q[i][2] = Stream!Full
      OBVIOUS
    <2>1. s.buffered = Stream!Full * n /\ \A i \in 1..n : s.queue[i][2] = Stream!Full
      BY DEF Stored
    <2>2. c[2] = Stream!Full
      <3>1. 1 \in 1..n
        BY <1>3
      <3>. QED
        BY <1>3, <2>1, <3>1
    <2>3. \A i \in 1..n - 1 : i + 1 \in 1..n
      OBVIOUS
    <2>4. b = Stream!Full * n - Stream!Full
      BY <2>1, <2>2
    <2>. HIDE DEF b, q
    <2>5. b = Stream!Full * (n - 1)
      BY <2>4, FullIs
    <2>. QED
      BY <1>2, <2>1, <2>3, <2>5
  <1>. PICK u : u = [s EXCEPT !.queue = q, !.buffered = b, !.file = f, !.write_pending = wait]
    OBVIOUS
  <1>7. u = [s EXCEPT !.queue = Tail(@), !.buffered = @ - c[2], !.file = Append(@, c),
                      !.write_pending = wait]
    OBVIOUS
  <1>8. Stream!ToFile(s, wait, reader_, full) =
           IF ~wait /\ Stream!Done(u) THEN Stream!Finish(u, reader_, full) ELSE u
    BY <1>7 DEF Stream!ToFile
  <1>. HIDE DEF c, q, f, b
  <1>9. u \in MessageSet
    BY ONLY s \in MessageSet, wait \in BOOLEAN, <1>2, <1>4, <1>5,
            u = [s EXCEPT !.queue = q, !.buffered = b, !.file = f, !.write_pending = wait] DEF MessageSet
  <1>10. /\ u.queue = q /\ u.buffered = b /\ u.file = f /\ u.write_pending = wait
         /\ u.spooling = s.spooling /\ u.open_pending = s.open_pending
         /\ u.end_called = s.end_called /\ u.ended = s.ended
         /\ u.write_complete = s.write_complete /\ u.thrown = s.thrown
         /\ u.in_pipe = s.in_pipe /\ u.headers_done = s.headers_done /\ u.paused = s.paused
         /\ u.rs = s.rs /\ u.listens = s.listens /\ u.out = s.out /\ u.reads = s.reads
    BY DEF MessageSet
  <1>11. SameLife(s, u)
    BY DEF MessageSet, SameLife
  <1>12. Stored(u, g)
    <2>1. ~u.end_called => /\ u.ended = 0
                           /\ u.buffered = Stream!Full * Len(u.queue)
                           /\ \A i \in 1..Len(u.queue) : u.queue[i][2] = Stream!Full
      BY <1>2, <1>6, <1>10
    <2>2. u.end_called => g # <<>>
      BY <1>10 DEF Stored
    <2>3. u.write_complete <=> u.ended = 1
      BY <1>10 DEF Stored
    <2>. QED
      BY <1>4, <1>10, <2>1, <2>2, <2>3 DEF Stored
  <1>13. Reading(u, g)
    BY <1>10 DEF Reading
  <1>14. CASE ~wait /\ Stream!Done(u)
    <2>1. AtEnd(u, g)
      BY <1>9, <1>10, <1>12, <1>13, <1>14 DEF AtEnd, Stream!Done, Stream!Pending
    <2>2. ReadsOn(u, Stream!Finish(u, reader_, full), g) /\ Stream!Finish(u, reader_, full).thrown = u.thrown
      BY <2>1, Finish_Is
    <2>. QED
      BY <1>8, <1>10, <1>11, <1>14, <2>2 DEF ReadsOn, SameLife
  <1>15. CASE ~(~wait /\ Stream!Done(u))
    BY <1>8, <1>9, <1>10, <1>11, <1>12, <1>13, <1>15 DEF ReadsOn
  <1>. QED
    BY <1>14, <1>15

(* _write keeps every chunk in its place.                                  *)
Written(s, t, g) ==
    /\ t \in MessageSet /\ Stored(t, g) /\ Reading(t, g)
    /\ SameLife(s, t) /\ t.thrown = s.thrown

LEMMA write_Is ==
    ASSUME StreamAssumed, v1 \in stream.SpoolAfter,
           NEW g \in Seq(Chunk),
           NEW s \in MessageSet, Stored(s, g), Reading(s, g), s.ended = 0,
           NEW wait \in BOOLEAN, NEW reader_ \in BOOLEAN, NEW full \in BOOLEAN
    PROVE  Written(s, Stream!_write(s, wait, reader_, full), g)
  <1>. DEFINE over == s.spooling \/ (v1 # -1 /\ s.buffered > v1)
  <1>. PICK o \in BOOLEAN : o = over
    BY DEF MessageSet
  <1>. PICK u : u = [s EXCEPT !.spooling = o]
    OBVIOUS
  <1>1. u = [s EXCEPT !.spooling = @ \/ (v1 # -1 /\ s.buffered > v1)]
    OBVIOUS
  <1>2. u \in MessageSet
    BY ONLY s \in MessageSet, o \in BOOLEAN, u = [s EXCEPT !.spooling = o] DEF MessageSet
  <1>3. /\ u.queue = s.queue /\ u.buffered = s.buffered /\ u.file = s.file
        /\ u.spooling = o /\ u.open_pending = s.open_pending
        /\ u.write_pending = s.write_pending
        /\ u.end_called = s.end_called /\ u.ended = s.ended
        /\ u.write_complete = s.write_complete /\ u.thrown = s.thrown
        /\ u.in_pipe = s.in_pipe /\ u.headers_done = s.headers_done /\ u.paused = s.paused
        /\ u.rs = s.rs /\ u.listens = s.listens /\ u.out = s.out /\ u.reads = s.reads
        /\ u.fd = s.fd
    BY DEF MessageSet
  <1>4. SameLife(s, u)
    BY DEF MessageSet, SameLife
  <1>5. Stored(u, g)
    <2>1. u.spooling => u.file \o u.queue = g
      <3>1. CASE s.spooling
        BY <1>3, <3>1 DEF Stored
      <3>2. CASE ~s.spooling
        <4>1. <<>> \o g = g
          BY ConcatEmptySeq
        <4>. QED
          BY <1>3, <3>2, <4>1 DEF Stored
      <3>. QED
        BY <3>1, <3>2
    <2>2. ~u.spooling => u.file = <<>> /\ u.queue = g /\ ~Stream!Pending(u)
      BY <1>3 DEF Stored, Stream!Pending
    <2>3. ~u.end_called => /\ u.ended = 0
                           /\ u.buffered = Stream!Full * Len(u.queue)
                           /\ \A i \in 1..Len(u.queue) : u.queue[i][2] = Stream!Full
      BY <1>3 DEF Stored
    <2>4. (u.write_complete <=> u.ended = 1) /\ u.ended = 0
      BY <1>3 DEF Stored
    <2>5. u.end_called => g # <<>>
      BY <1>3 DEF Stored
    <2>6. u.ended = 1 => ~Stream!Pending(u) /\ (u.spooling => u.queue = <<>>)
      BY <2>4
    <2>. QED
      BY ONLY <2>1, <2>2, <2>3, <2>4, <2>5, <2>6 DEF Stored
  <1>6. Reading(u, g)
    <2>1. s.rs > 0 => u.spooling
      BY <1>3 DEF Reading
    <2>. QED
      BY <1>3, <2>1 DEF Reading
  <1>. PICK mem \in BOOLEAN : mem = (v1 = -1 \/ (u.buffered < v1 /\ ~u.spooling))
    OBVIOUS
  <1>. PICK disk \in BOOLEAN : disk = (~Stream!Pending(s) /\ ~Stream!Done(u) /\ ~mem /\ u.queue # <<>>)
    OBVIOUS
  <1>7. Stream!_write(s, wait, reader_, full) =
          CASE Stream!Pending(s) -> s
            [] ~Stream!Pending(s) /\ Stream!Done(u) -> Stream!Finish(u, reader_, full)
            [] disk /\ ~u.fd -> [u EXCEPT !.open_pending = TRUE]
            [] disk /\ u.fd -> Stream!ToFile(u, wait, reader_, full)
            [] OTHER -> u
    BY <1>1 DEF Stream!_write
  <1>8. Stream!Pending(u) <=> Stream!Pending(s)
    BY <1>3 DEF Stream!Pending
  <1>9. CASE Stream!Pending(s)
    <2>1. Stream!_write(s, wait, reader_, full) = s
      BY <1>7, <1>9
    <2>. QED
      BY <2>1 DEF Written, SameLife
  <1>10. CASE ~Stream!Pending(s) /\ Stream!Done(u)
    <2>1. AtEnd(u, g)
      BY <1>2, <1>3, <1>5, <1>6, <1>8, <1>10 DEF AtEnd, Stream!Done
    <2>2. ReadsOn(u, Stream!Finish(u, reader_, full), g) /\ Stream!Finish(u, reader_, full).thrown = u.thrown
      BY ONLY <2>1, g \in Seq(Chunk), reader_ \in BOOLEAN, full \in BOOLEAN, Finish_Is
    <2>3. Stream!_write(s, wait, reader_, full) = Stream!Finish(u, reader_, full)
      BY <1>7, <1>10
    <2>. QED
      BY <1>3, <1>4, <2>2, <2>3 DEF ReadsOn, Written, SameLife
  <1>11. CASE disk
    <2>1. u.spooling
      <3>. SUFFICES ASSUME ~u.spooling
                    PROVE  FALSE
        OBVIOUS
      <3>1. ~u.end_called
        BY <1>11 DEF Stream!Done
      <3>. PICK n \in Nat : n = Len(u.queue)
        BY <1>2, LenProperties DEF MessageSet
      <3>2. n # 0
        BY <1>2, <1>11, EmptySeq DEF MessageSet
      <3>3. u.buffered = Stream!Full * n
        BY <1>5, <3>1 DEF Stored
      <3>4. ~(u.buffered > v1) /\ ~(u.buffered < v1)
        BY <1>3, <1>11
      <3>5. v1 \in Int /\ v1 # Stream!Full * n
        BY <3>2 DEF StreamAssumed
      <3>6. Stream!Full * n \in Int
        BY FullIs
      <3>. QED
        BY <3>3, <3>4, <3>5, <3>6
    <2>2. CASE ~u.fd
      <3>. PICK on \in BOOLEAN : on = TRUE
        OBVIOUS
      <3>. PICK v : v = [u EXCEPT !.open_pending = on]
        OBVIOUS
      <3>1. Stream!_write(s, wait, reader_, full) = v
        BY <1>7, <1>11, <2>2
      <3>2. v \in MessageSet
        BY ONLY u \in MessageSet, on \in BOOLEAN, v = [u EXCEPT !.open_pending = on], <1>2 DEF MessageSet
      <3>3. /\ v.queue = u.queue /\ v.buffered = u.buffered /\ v.file = u.file
            /\ v.spooling = u.spooling
            /\ v.end_called = u.end_called /\ v.ended = u.ended
            /\ v.write_complete = u.write_complete /\ v.thrown = u.thrown
            /\ v.in_pipe = u.in_pipe /\ v.headers_done = u.headers_done /\ v.paused = u.paused
            /\ v.rs = u.rs /\ v.listens = u.listens /\ v.out = u.out /\ v.reads = u.reads
        BY <1>2 DEF MessageSet
      <3>4. SameLife(u, v)
        BY <1>2 DEF MessageSet, SameLife
      <3>5. Stored(v, g)
        <4>1. ~v.end_called => /\ v.ended = 0
                               /\ v.buffered = Stream!Full * Len(v.queue)
                               /\ \A i \in 1..Len(v.queue) : v.queue[i][2] = Stream!Full
          BY <1>5, <3>3 DEF Stored
        <4>2. (v.write_complete <=> v.ended = 1) /\ v.ended = 0
          BY <1>3, <1>5, <3>3 DEF Stored
        <4>3. v.spooling /\ v.file \o v.queue = g
          BY <1>5, <2>1, <3>3 DEF Stored
        <4>4. v.end_called => g # <<>>
          BY <1>5, <3>3 DEF Stored
        <4>5. v.ended = 1 => ~Stream!Pending(v) /\ (v.spooling => v.queue = <<>>)
          BY <4>2
        <4>. QED
          BY ONLY <4>1, <4>2, <4>3, <4>4, <4>5 DEF Stored
      <3>6. Reading(v, g)
        BY <1>6, <3>3 DEF Reading
      <3>. QED
        BY <1>3, <1>4, <3>1, <3>2, <3>3, <3>4, <3>5, <3>6 DEF Written, SameLife
    <2>3. CASE u.fd
      <3>1. ReadsOn(u, Stream!ToFile(u, wait, reader_, full), g)
            /\ Stream!ToFile(u, wait, reader_, full).thrown = u.thrown
        <4>1. u.ended = 0 /\ ~Stream!Pending(u) /\ u.queue # <<>>
          BY <1>3, <1>8, <1>11
        <4>. QED
          BY ONLY <1>2, <1>5, <1>6, <2>1, <4>1, g \in Seq(Chunk), wait \in BOOLEAN,
                  reader_ \in BOOLEAN, full \in BOOLEAN, ToFile_Is
      <3>2. Stream!_write(s, wait, reader_, full) = Stream!ToFile(u, wait, reader_, full)
        BY <1>7, <1>11, <2>3
      <3>. QED
        BY <1>3, <1>4, <3>1, <3>2 DEF ReadsOn, Written, SameLife
    <2>. QED
      BY <2>2, <2>3
  <1>12. CASE ~Stream!Pending(s) /\ ~Stream!Done(u) /\ ~disk
    <2>1. Stream!_write(s, wait, reader_, full) = u
      BY <1>7, <1>12
    <2>. QED
      BY <1>2, <1>3, <1>4, <1>5, <1>6, <2>1 DEF Written
  <1>. QED
    BY <1>9, <1>10, <1>11, <1>12

----------------------------------------------------------------------------
(* A chunk arrives: it is the last, or it is full.                         *)
Fresh(g, len) == <<Len(g) + 1, len>>

With(s, c, len, e) ==
    [s EXCEPT !.queue = Append(s.queue, c), !.buffered = s.buffered + len, !.end_called = e]

Arrived(s, t, h) ==
    /\ h \in Seq(Chunk) /\ h # <<>>
    /\ t \in MessageSet /\ Stored(t, h) /\ Reading(t, h)
    /\ t.ended = 0 /\ SameLife(s, t) /\ t.thrown = s.thrown

LEMMA Queued_Is ==
    ASSUME NEW g \in Seq(Chunk), NEW s \in MessageSet, Stored(s, g), Reading(s, g),
           ~s.end_called, NEW len \in Nat, NEW e \in BOOLEAN, e \/ len = Stream!Full
    PROVE  Arrived(s, With(s, Fresh(g, len), len, e), Append(g, Fresh(g, len)))
  <1>. PICK c : c = Fresh(g, len)
    OBVIOUS
  <1>. PICK t : t = With(s, c, len, e)
    OBVIOUS
  <1>1. /\ s.queue \in Seq(Chunk) /\ s.file \in Seq(Chunk) /\ s.buffered \in Int
        /\ s.ended = 0 /\ s.buffered = Stream!Full * Len(s.queue)
        /\ \A i \in 1..Len(s.queue) : s.queue[i][2] = Stream!Full
        /\ ~s.write_complete
    <2>1. s.queue \in Seq(Chunk) /\ s.file \in Seq(Chunk) /\ s.buffered \in Int
      BY DEF MessageSet
    <2>2. s.write_complete \in BOOLEAN
      BY DEF MessageSet
    <2>. QED
      BY <2>1, <2>2 DEF Stored
  <1>. PICK n \in Nat : n = Len(s.queue)
    BY <1>1, LenProperties
  <1>2. c \in Chunk /\ c[2] = len
    <2>1. Len(g) + 1 \in Nat
      BY LenProperties
    <2>. QED
      BY <2>1 DEF Chunk, Fresh
  <1>. PICK q \in Seq(Chunk) : q = Append(s.queue, c)
    BY <1>1, <1>2, AppendProperties
  <1>. PICK h \in Seq(Chunk) : h = Append(g, c)
    BY <1>2, AppendProperties
  <1>. PICK b \in Int : b = s.buffered + len
    BY <1>1
  <1>3. Len(q) = n + 1 /\ \A i \in 1..n + 1 : q[i] = IF i <= n THEN s.queue[i] ELSE c
    BY <1>1, <1>2, AppendProperties
  <1>4. h # <<>>
    BY <1>2, AppendProperties
  <1>5. t = [s EXCEPT !.queue = q, !.buffered = b, !.end_called = e]
    BY DEF With
  <1>6. t \in MessageSet
    BY ONLY s \in MessageSet, q \in Seq(Chunk), b \in Int, e \in BOOLEAN, <1>5 DEF MessageSet
  <1>7. /\ t.queue = q /\ t.buffered = b /\ t.end_called = e /\ t.file = s.file
        /\ t.spooling = s.spooling /\ t.open_pending = s.open_pending
        /\ t.write_pending = s.write_pending /\ t.ended = s.ended
        /\ t.write_complete = s.write_complete /\ t.thrown = s.thrown
        /\ t.in_pipe = s.in_pipe /\ t.listens = s.listens /\ t.rs = s.rs /\ t.reads = s.reads
    BY <1>5 DEF MessageSet
  <1>8. SameLife(s, t)
    BY <1>5 DEF MessageSet, SameLife
  <1>9. Stored(t, h)
    <2>1. ~t.spooling => t.file = <<>> /\ t.queue = h /\ ~Stream!Pending(t)
      BY <1>7 DEF Stored, Stream!Pending
    <2>2. t.spooling => t.file \o t.queue = h
      <3>. SUFFICES ASSUME s.spooling
                    PROVE  s.file \o q = h
        BY <1>7
      <3>4. <<c>> \in Seq(Chunk)
        BY <1>2
      <3>. PICK z \in Seq(Chunk) : z = <<c>>
        BY <3>4
      <3>5. Append(s.queue, c) = s.queue \o <<c>>
        BY <1>1, <1>2, AppendIsConcat
      <3>6. Append(g, c) = g \o <<c>>
        BY <1>2, AppendIsConcat
      <3>1. q = s.queue \o z /\ h = g \o z
        BY <3>5, <3>6
      <3>2. (s.file \o s.queue) \o z = s.file \o (s.queue \o z)
        BY ONLY <1>1, z \in Seq(Chunk), ChunksAssociative
      <3>3. s.file \o s.queue = g
        BY DEF Stored
      <3>. QED
        BY ONLY <3>1, <3>2, <3>3
    <2>3. ~t.end_called => /\ t.ended = 0
                           /\ t.buffered = Stream!Full * Len(t.queue)
                           /\ \A i \in 1..Len(t.queue) : t.queue[i][2] = Stream!Full
      <3>. SUFFICES ASSUME ~e
                    PROVE  b = Stream!Full * (n + 1) /\ \A i \in 1..n + 1 : q[i][2] = Stream!Full
        BY <1>1, <1>3, <1>7
      <3>1. b = Stream!Full * n + Stream!Full
        BY <1>1
      <3>2. b = Stream!Full * (n + 1)
        BY <3>1, FullIs
      <3>3. \A i \in 1..n + 1 : i <= n => i \in 1..n
        OBVIOUS
      <3>. QED
        BY <1>1, <1>2, <1>3, <3>2, <3>3
    <2>4. t.end_called => h # <<>>
      BY <1>4
    <2>5. (t.write_complete <=> t.ended = 1) /\ t.ended = 0
      BY <1>1, <1>7
    <2>6. t.ended = 1 => ~Stream!Pending(t) /\ (t.spooling => t.queue = <<>>)
      BY <2>5
    <2>. QED
      BY ONLY <2>1, <2>2, <2>3, <2>4, <2>5, <2>6 DEF Stored
  <1>10. Reading(t, h)
    BY <1>1, <1>7 DEF Reading
  <1>. QED
    BY <1>1, <1>4, <1>6, <1>7, <1>8, <1>9, <1>10 DEF Arrived

(* The end of the message with nothing left to emit, and the end of an     *)
(* operation on the file.                                                  *)
LEMMA End_Is ==
    ASSUME NEW g \in Seq(Chunk), g # <<>>, NEW s \in MessageSet, Stored(s, g), Reading(s, g),
           ~s.end_called
    PROVE  LET t == [s EXCEPT !.end_called = TRUE]
           IN  /\ t \in MessageSet /\ Stored(t, g) /\ Reading(t, g)
               /\ t.ended = 0 /\ SameLife(s, t) /\ t.thrown = s.thrown
  <1>. PICK on \in BOOLEAN : on = TRUE
    OBVIOUS
  <1>. PICK t : t = [s EXCEPT !.end_called = on]
    OBVIOUS
  <1>1. t \in MessageSet
    BY ONLY s \in MessageSet, on \in BOOLEAN, t = [s EXCEPT !.end_called = on] DEF MessageSet
  <1>2. /\ t.queue = s.queue /\ t.buffered = s.buffered /\ t.end_called /\ t.file = s.file
        /\ t.spooling = s.spooling /\ t.open_pending = s.open_pending
        /\ t.write_pending = s.write_pending /\ t.ended = s.ended
        /\ t.write_complete = s.write_complete /\ t.thrown = s.thrown
        /\ t.in_pipe = s.in_pipe /\ t.listens = s.listens /\ t.rs = s.rs /\ t.reads = s.reads
        /\ t.headers_done = s.headers_done /\ t.paused = s.paused /\ t.out = s.out
    BY DEF MessageSet
  <1>3. SameLife(s, t)
    BY DEF MessageSet, SameLife
  <1>4. Stored(t, g)
    BY <1>2 DEF Stored, Stream!Pending
  <1>5. Reading(t, g)
    BY <1>2 DEF Reading
  <1>6. t.ended = 0
    BY <1>2 DEF Stored
  <1>. QED
    BY <1>1, <1>2, <1>3, <1>4, <1>5, <1>6

(* An open file is still empty, and nothing else changes.                  *)
LEMMA Opened_Is ==
    ASSUME NEW g \in Seq(Chunk), NEW s \in MessageSet, Stored(s, g), Reading(s, g), s.open_pending
    PROVE  LET t == [s EXCEPT !.open_pending = FALSE, !.fd = TRUE, !.exists = TRUE]
           IN  /\ t \in MessageSet /\ Stored(t, g) /\ Reading(t, g)
               /\ t.ended = 0 /\ t.thrown = s.thrown /\ t.destroyed = s.destroyed
  <1>. PICK off \in BOOLEAN, on \in BOOLEAN : off = FALSE /\ on = TRUE
    OBVIOUS
  <1>. PICK t : t = [s EXCEPT !.open_pending = off, !.fd = on, !.exists = on]
    OBVIOUS
  <1>1. t \in MessageSet
    BY ONLY s \in MessageSet, on \in BOOLEAN, off \in BOOLEAN,
            t = [s EXCEPT !.open_pending = off, !.fd = on, !.exists = on] DEF MessageSet
  <1>2. /\ t.queue = s.queue /\ t.buffered = s.buffered /\ t.end_called = s.end_called
        /\ t.file = s.file /\ t.destroyed = s.destroyed
        /\ t.spooling = s.spooling /\ ~t.open_pending
        /\ t.write_pending = s.write_pending /\ t.ended = s.ended
        /\ t.write_complete = s.write_complete /\ t.thrown = s.thrown
        /\ t.in_pipe = s.in_pipe /\ t.listens = s.listens /\ t.rs = s.rs /\ t.reads = s.reads
        /\ t.headers_done = s.headers_done /\ t.paused = s.paused /\ t.out = s.out
    BY DEF MessageSet
  <1>3. s.ended = 0 /\ s.spooling
    BY DEF Stored, Stream!Pending, MessageSet
  <1>4. Stored(t, g)
    BY <1>2, <1>3 DEF Stored, Stream!Pending
  <1>5. Reading(t, g)
    BY <1>2 DEF Reading
  <1>. QED
    BY <1>1, <1>2, <1>3, <1>4, <1>5

LEMMA Drained_Is ==
    ASSUME NEW g \in Seq(Chunk), NEW s \in MessageSet, Stored(s, g), Reading(s, g), s.write_pending
    PROVE  LET t == [s EXCEPT !.write_pending = FALSE]
           IN  /\ t \in MessageSet /\ Stored(t, g) /\ Reading(t, g)
               /\ t.ended = 0 /\ SameLife(s, t) /\ t.thrown = s.thrown
  <1>. PICK off \in BOOLEAN : off = FALSE
    OBVIOUS
  <1>. PICK t : t = [s EXCEPT !.write_pending = off]
    OBVIOUS
  <1>1. t \in MessageSet
    BY ONLY s \in MessageSet, off \in BOOLEAN, t = [s EXCEPT !.write_pending = off] DEF MessageSet
  <1>2. /\ t.queue = s.queue /\ t.buffered = s.buffered /\ t.end_called = s.end_called
        /\ t.file = s.file /\ t.spooling = s.spooling /\ t.open_pending = s.open_pending
        /\ ~t.write_pending /\ t.ended = s.ended
        /\ t.write_complete = s.write_complete /\ t.thrown = s.thrown
        /\ t.in_pipe = s.in_pipe /\ t.listens = s.listens /\ t.rs = s.rs /\ t.reads = s.reads
        /\ t.headers_done = s.headers_done /\ t.paused = s.paused /\ t.out = s.out
    BY DEF MessageSet
  <1>3. SameLife(s, t)
    BY DEF MessageSet, SameLife
  <1>4. s.ended = 0 /\ s.spooling
    BY DEF Stored, Stream!Pending, MessageSet
  <1>5. Stored(t, g)
    BY <1>2, <1>4 DEF Stored, Stream!Pending
  <1>6. Reading(t, g)
    BY <1>2 DEF Reading
  <1>. QED
    BY <1>1, <1>2, <1>3, <1>4, <1>5, <1>6

----------------------------------------------------------------------------
(* The steps.                                                              *)
Stalled == v3.paused \/ v3.rs > 0

StreamSteps ==
    /\ StreamInv'
    /\ v3'.thrown /\ ~v3.thrown => Stalled

LEMMA Write_Is ==
    ASSUME StreamAssumed, v1 \in stream.SpoolAfter,
           NEW g \in Seq(Chunk),
           NEW s \in MessageSet, Stored(s, g), Reading(s, g), s.ended = 0, Stream!Write(s)
    PROVE  Written(s, v3', g)
  <1>1. PICK wait \in Stream!Waits(s), reader_ \in BOOLEAN, full \in BOOLEAN :
           v3' = Stream!_write(s, wait, reader_, full)
    BY DEF Stream!Write
  <1>2. wait \in BOOLEAN
    BY <1>1 DEF Stream!Waits
  <1>3. Written(s, Stream!_write(s, wait, reader_, full), g)
    BY <1>2, write_Is
  <1>. QED
    BY <1>1, <1>3

(* A step that writes, on a message nobody has destroyed.                  *)
LEMMA StreamWrites ==
    ASSUME StreamAssumed, StreamInv, v3.destroyed = "no", v1' = v1,
           v2' \in Seq(Chunk),
           NEW s \in MessageSet, Stored(s, v2'), Reading(s, v2'), s.ended = 0,
           s.destroyed = "no", s.thrown = v3.thrown, Stream!Write(s)
    PROVE  StreamSteps
  <1>. PICK g \in Seq(Chunk) : g = v2'
    OBVIOUS
  <1>1. v1 \in stream.SpoolAfter
    BY DEF StreamInv
  <1>2. Written(s, v3', g)
    BY <1>1, Write_Is
  <1>3. /\ v3' \in MessageSet /\ Stored(v3', g) /\ Reading(v3', g)
        /\ v3'.destroyed = "no" /\ v3'.thrown = v3.thrown
    BY <1>2 DEF Written, SameLife
  <1>4. GoodStream(v3', g)
    BY <1>3 DEF GoodStream, SpoolRemoved
  <1>. QED
    BY <1>1, <1>3, <1>4 DEF StreamSteps, StreamInv

LEMMA StreamInvIs ==
    ASSUME StreamInv
    PROVE  /\ v1 \in stream.SpoolAfter /\ v2 \in Seq(Chunk)
           /\ v3 \in MessageSet /\ Stored(v3, v2) /\ Reading(v3, v2) /\ SpoolRemoved(v3)
  BY DEF StreamInv, GoodStream

LEMMA add_line_Is ==
    ASSUME StreamAssumed, StreamInv, Stream!add_line
    PROVE  StreamSteps
  <1>. PICK g \in Seq(Chunk) : g = v2
    BY StreamInvIs
  <1>. PICK s \in MessageSet : s = v3
    BY StreamInvIs
  <1>1. /\ Stored(s, g) /\ Reading(s, g) /\ s.destroyed = "no" /\ ~s.end_called
        /\ v1' = v1
    BY StreamInvIs DEF Stream!add_line, Stream!Alive
  <1>. PICK len \in Nat : len = Stream!Full
    BY FullIs
  <1>. PICK e \in BOOLEAN : e = s.end_called
    BY DEF MessageSet
  <1>. PICK t : t = With(s, Fresh(g, len), len, e)
    OBVIOUS
  <1>2. Stream!Queued(Stream!Full) = t
    <2>1. t = [s EXCEPT !.queue = Append(s.queue, Fresh(g, len)), !.buffered = s.buffered + len]
      BY DEF MessageSet, With
    <2>. QED
      BY <2>1 DEF Stream!Queued, Fresh
  <1>3. v2' = Append(g, Fresh(g, len)) /\ Stream!Write(t)
    BY <1>2 DEF Stream!add_line, Stream!Given, Fresh
  <1>4. Arrived(s, t, Append(g, Fresh(g, len)))
    <2>1. e \/ len = Stream!Full
      OBVIOUS
    <2>. QED
      BY <1>1, <2>1, Queued_Is
  <1>. QED
    BY <1>1, <1>3, <1>4, StreamWrites DEF SameLife, Arrived

LEMMA add_line_end_Is ==
    ASSUME StreamAssumed, StreamInv, Stream!add_line_end
    PROVE  StreamSteps
  <1>. PICK g \in Seq(Chunk) : g = v2
    BY StreamInvIs
  <1>. PICK s \in MessageSet : s = v3
    BY StreamInvIs
  <1>1. /\ Stored(s, g) /\ Reading(s, g) /\ s.destroyed = "no" /\ ~s.end_called
        /\ v1' = v1
    BY StreamInvIs DEF Stream!add_line_end, Stream!Alive
  <1>2. CASE v2' = Stream!Given(1) /\ Stream!Write([Stream!Queued(1) EXCEPT !.end_called = TRUE])
    <2>. PICK len \in Nat : len = 1
      OBVIOUS
    <2>. PICK e \in BOOLEAN : e = TRUE
      OBVIOUS
    <2>. PICK t : t = With(s, Fresh(g, len), len, e)
      OBVIOUS
    <2>1. [Stream!Queued(1) EXCEPT !.end_called = TRUE] = t
      BY DEF Stream!Queued, With, Fresh
    <2>2. v2' = Append(g, Fresh(g, len)) /\ Stream!Write(t)
      BY <1>2, <2>1 DEF Stream!Given, Fresh
    <2>3. Arrived(s, t, Append(g, Fresh(g, len)))
      <3>1. e \/ len = Stream!Full
        OBVIOUS
      <3>. QED
        BY <1>1, <3>1, Queued_Is
    <2>. QED
      BY <1>1, <2>2, <2>3, StreamWrites DEF SameLife, Arrived
  <1>3. CASE v2 # <<>> /\ Stream!Write([v3 EXCEPT !.end_called = TRUE]) /\ v2' = v2
    <2>. PICK t : t = [s EXCEPT !.end_called = TRUE]
      OBVIOUS
    <2>1. /\ t \in MessageSet /\ Stored(t, g) /\ Reading(t, g)
          /\ t.ended = 0 /\ SameLife(s, t) /\ t.thrown = s.thrown
      BY <1>1, <1>3, End_Is
    <2>. QED
      BY <1>1, <1>3, <2>1, StreamWrites DEF SameLife
  <1>. QED
    BY <1>2, <1>3 DEF Stream!add_line_end

LEMMA ws_open_Is ==
    ASSUME StreamAssumed, StreamInv, Stream!ws_open
    PROVE  StreamSteps
  <1>. PICK g \in Seq(Chunk) : g = v2 /\ g = v2'
    BY StreamInvIs DEF Stream!ws_open
  <1>. PICK t : t = [v3 EXCEPT !.open_pending = FALSE, !.fd = TRUE, !.exists = TRUE]
    OBVIOUS
  <1>1. /\ v3 \in MessageSet /\ Stored(v3, g) /\ Reading(v3, g) /\ SpoolRemoved(v3)
        /\ v1 \in stream.SpoolAfter /\ v3.open_pending /\ v1' = v1
    BY StreamInvIs DEF Stream!ws_open
  <1>2. /\ t \in MessageSet /\ Stored(t, g) /\ Reading(t, g)
        /\ t.ended = 0 /\ t.thrown = v3.thrown /\ t.destroyed = v3.destroyed
    BY <1>1, Opened_Is
  <1>3. CASE v3.destroyed = "no"
    <2>1. Stream!Write(t)
      BY <1>3 DEF Stream!ws_open
    <2>. QED
      BY <1>1, <1>2, <1>3, <2>1, StreamWrites
  <1>4. CASE v3.destroyed # "no"
    <2>1. v3' = t
      BY <1>4 DEF Stream!ws_open
    <2>2. t.destroyed # "yes"
      BY <1>1, <1>2 DEF SpoolRemoved
    <2>3. GoodStream(t, g)
      BY <1>2, <2>2 DEF GoodStream, SpoolRemoved
    <2>. QED
      BY <1>1, <1>2, <2>1, <2>3 DEF StreamSteps, StreamInv
  <1>. QED
    BY <1>3, <1>4

LEMMA ws_drain_Is ==
    ASSUME StreamAssumed, StreamInv, Stream!ws_drain
    PROVE  StreamSteps
  <1>. PICK g \in Seq(Chunk) : g = v2 /\ g = v2'
    BY StreamInvIs DEF Stream!ws_drain
  <1>. PICK t : t = [v3 EXCEPT !.write_pending = FALSE]
    OBVIOUS
  <1>1. /\ v3 \in MessageSet /\ Stored(v3, g) /\ Reading(v3, g) /\ v3.destroyed = "no"
        /\ v1' = v1 /\ v3.write_pending
    BY StreamInvIs DEF Stream!ws_drain, Stream!Alive
  <1>2. /\ t \in MessageSet /\ Stored(t, g) /\ Reading(t, g)
        /\ t.ended = 0 /\ SameLife(v3, t) /\ t.thrown = v3.thrown
    BY <1>1, Drained_Is
  <1>3. Stream!Write(t)
    BY DEF Stream!ws_drain
  <1>. QED
    BY <1>1, <1>2, <1>3, StreamWrites DEF SameLife

(* The other steps leave the chunks where they are.                        *)
LEMMA Reads ==
    ASSUME StreamInv, NEW g \in Seq(Chunk), g = v2, UNCHANGED <<v1, v2>>,
           v3' \in MessageSet, Stored(v3', g), Reading(v3', g), SpoolRemoved(v3'),
           v3'.thrown /\ ~v3.thrown => Stalled
    PROVE  StreamSteps
  BY StreamInvIs DEF StreamSteps, StreamInv, GoodStream

LEMMA ws_error_Is ==
    ASSUME StreamInv, Stream!ws_error
    PROVE  StreamSteps
  <1>. PICK g \in Seq(Chunk) : g = v2
    BY StreamInvIs
  <1>. PICK s \in MessageSet : s = v3
    BY StreamInvIs
  <1>1. Stored(s, g) /\ Reading(s, g) /\ SpoolRemoved(s)
    BY StreamInvIs
  <1>. PICK off \in BOOLEAN, on \in BOOLEAN : off = FALSE /\ on = TRUE
    OBVIOUS
  <1>. PICK t : t = [s EXCEPT !.failed = on, !.open_pending = off]
    OBVIOUS
  <1>2. t \in MessageSet
    BY ONLY s \in MessageSet, on \in BOOLEAN, off \in BOOLEAN,
            t = [s EXCEPT !.failed = on, !.open_pending = off] DEF MessageSet
  <1>3. /\ t.queue = s.queue /\ t.buffered = s.buffered /\ t.end_called = s.end_called
        /\ t.file = s.file /\ t.destroyed = s.destroyed /\ t.exists = s.exists
        /\ t.spooling = s.spooling /\ ~t.open_pending
        /\ t.write_pending = s.write_pending /\ t.ended = s.ended
        /\ t.write_complete = s.write_complete /\ t.thrown = s.thrown
        /\ t.in_pipe = s.in_pipe /\ t.listens = s.listens /\ t.rs = s.rs /\ t.reads = s.reads
        /\ t.headers_done = s.headers_done /\ t.paused = s.paused /\ t.out = s.out
    BY DEF MessageSet
  <1>4. Stored(t, g)
    BY <1>1, <1>3 DEF Stored, Stream!Pending
  <1>5. Reading(t, g) /\ SpoolRemoved(t)
    BY <1>1, <1>3 DEF Reading, SpoolRemoved
  <1>6. v3' = t
    BY DEF Stream!ws_error
  <1>. QED
    BY <1>2, <1>3, <1>4, <1>5, <1>6, Reads DEF Stream!ws_error

LEMMA reader_Is ==
    ASSUME StreamInv, Stream!reader
    PROVE  StreamSteps
  <1>. PICK g \in Seq(Chunk) : g = v2
    BY StreamInvIs
  <1>1. v3 \in MessageSet /\ Stored(v3, g) /\ Reading(v3, g) /\ SpoolRemoved(v3)
        /\ v3.write_complete
    BY StreamInvIs DEF Stream!reader
  <1>2. g # <<>>
    BY <1>1 DEF Stored, MessageSet
  <1>3. PICK full \in BOOLEAN : v3' = Stream!pipe(v3, full)
    BY DEF Stream!reader
  <1>4. /\ ReadsOn(v3, Stream!pipe(v3, full), g)
        /\ Stream!pipe(v3, full).thrown /\ ~v3.thrown => Stalled
    BY <1>1, <1>2, pipe_Is DEF Stalled
  <1>. QED
    BY <1>1, <1>3, <1>4, Reads DEF ReadsOn, SpoolRemoved, SameLife, Stream!reader

LEMMA rs_data_Is ==
    ASSUME StreamInv, Stream!rs_data
    PROVE  StreamSteps
  <1>. PICK g \in Seq(Chunk) : g = v2
    BY StreamInvIs
  <1>. PICK s \in MessageSet : s = v3
    BY StreamInvIs
  <1>1. /\ Stored(s, g) /\ Reading(s, g) /\ SpoolRemoved(s)
        /\ s.rs > 0 /\ ~s.paused /\ s.rs <= Len(s.file)
    BY StreamInvIs DEF Stream!rs_data
  <1>2. /\ s.in_pipe /\ s.write_complete /\ s.headers_done /\ s.spooling
        /\ s.rs \in Nat /\ s.file \in Seq(Chunk) /\ s.queue \in Seq(Chunk)
    BY <1>1 DEF Reading, MessageSet
  <1>3. s.file = g
    <2>1. s.queue = <<>> /\ s.file \o s.queue = g
      BY <1>1, <1>2 DEF Stored
    <2>. QED
      BY <1>2, <2>1, ConcatEmptySeq
  <1>. PICK i \in Nat : i = s.rs
    BY <1>2
  <1>. PICK n \in Nat : n = Len(g)
    BY LenProperties
  <1>4. i > 0 /\ i <= n
    BY <1>1, <1>3
  <1>. PICK x \in Chunk : x = g[i]
    <2>1. i \in 1..n
      BY <1>4
    <2>. QED
      BY <2>1, ElementOfSeq
  <1>5. PICK full \in BOOLEAN :
           v3' = [Stream!Emit(s, x) EXCEPT !.rs = @ + 1, !.paused = full /\ s.listens]
    BY <1>3 DEF Stream!rs_data
  <1>. PICK j \in Nat : j = i + 1
    OBVIOUS
  <1>. PICK p \in BOOLEAN : p = (full /\ s.listens)
    BY DEF MessageSet
  <1>6. CASE s.listens
    <2>1. /\ s.out \in Seq(Chunk) /\ Len(s.out) = i /\ s.out[1] = Stream!Headers
          /\ \A k \in 1..n : k < i => s.out[k + 1] = g[k]
      BY <1>1, <1>4, <1>6 DEF Reading, MessageSet
    <2>. PICK o \in Seq(Chunk) : o = Append(s.out, x)
      BY <2>1, AppendProperties
    <2>2. Len(o) = i + 1 /\ \A k \in 1..i + 1 : o[k] = IF k <= i THEN s.out[k] ELSE x
      BY <2>1, AppendProperties
    <2>. PICK t : t = [s EXCEPT !.rs = j, !.paused = p, !.out = o]
      OBVIOUS
    <2>3. v3' = t
      <3>1. Stream!Emit(s, x) = [s EXCEPT !.out = o]
        BY <1>6 DEF Stream!Emit
      <3>2. Stream!Emit(s, x).rs = i
        BY <3>1 DEF MessageSet
      <3>. QED
        BY <1>5, <3>1, <3>2
    <2>4. t \in MessageSet
      BY ONLY s \in MessageSet, j \in Nat, p \in BOOLEAN, o \in Seq(Chunk),
              t = [s EXCEPT !.rs = j, !.paused = p, !.out = o] DEF MessageSet
    <2>5. /\ SameStore(s, t) /\ SameLife(s, t) /\ t.thrown = s.thrown
          /\ t.in_pipe = s.in_pipe /\ t.headers_done = s.headers_done
          /\ t.rs = j /\ t.listens = s.listens /\ t.out = o /\ t.reads = s.reads
      BY DEF MessageSet, SameStore, SameLife
    <2>6. Stored(t, g)
      BY <1>1, <2>4, <2>5, SameStored
    <2>7. Reading(t, g)
      <3>1. j > 0 /\ j <= n + 1
        BY <1>4
      <3>2. o[1] = Stream!Headers
        <4>1. 1 \in 1..i + 1 /\ 1 <= i
          BY <1>4
        <4>. QED
          BY <2>1, <2>2, <4>1
      <3>3. ASSUME NEW k \in 1..n, k < j
            PROVE  o[k + 1] = g[k]
        <4>1. k + 1 \in 1..i + 1
          BY <3>3
        <4>2. CASE k = i
          <5>1. ~(k + 1 <= i)
            BY <4>2
          <5>. QED
            BY <2>2, <4>1, <4>2, <5>1
        <4>3. CASE k # i
          <5>1. k < i /\ k + 1 <= i
            BY <3>3, <4>3
          <5>. QED
            BY <2>1, <2>2, <4>1, <5>1
        <4>. QED
          BY <4>2, <4>3
      <3>4. t.write_complete /\ t.spooling /\ t.in_pipe /\ t.headers_done /\ t.listens
        BY <1>2, <1>6, <2>5 DEF SameStore
      <3>5. \A r \in t.reads : t.write_complete /\ r = <<Stream!Headers>> \o g
        BY <1>1, <2>5, <3>4 DEF Reading
      <3>6. /\ t.rs > 0 /\ t.rs <= Len(g) + 1
            /\ Len(t.out) = t.rs /\ t.out[1] = Stream!Headers
            /\ \A k \in 1..Len(g) : k < t.rs => t.out[k + 1] = g[k]
        BY <2>2, <2>5, <3>1, <3>2, <3>3
      <3>7. t.rs # 0
        BY <3>1, <2>5
      <3>. QED
        BY ONLY <3>4, <3>5, <3>6, <3>7 DEF Reading
    <2>. QED
      BY <1>1, <2>3, <2>4, <2>5, <2>6, <2>7, Reads DEF Stream!rs_data, SameStore, SameLife, SpoolRemoved
  <1>7. CASE ~s.listens
    <2>. PICK t : t = [s EXCEPT !.rs = j, !.paused = p]
      OBVIOUS
    <2>3. v3' = t
      BY <1>5, <1>7 DEF Stream!Emit
    <2>4. t \in MessageSet
      BY ONLY s \in MessageSet, j \in Nat, p \in BOOLEAN,
              t = [s EXCEPT !.rs = j, !.paused = p] DEF MessageSet
    <2>5. /\ SameStore(s, t) /\ SameLife(s, t) /\ t.thrown = s.thrown
          /\ t.in_pipe = s.in_pipe /\ t.headers_done = s.headers_done
          /\ t.rs = j /\ t.listens = s.listens /\ t.reads = s.reads
      BY DEF MessageSet, SameStore, SameLife
    <2>6. Stored(t, g)
      BY <1>1, <2>4, <2>5, SameStored
    <2>7. Reading(t, g)
      <3>1. t.rs > 0 /\ t.rs <= Len(g) + 1
        BY <1>4, <2>5
      <3>2. t.write_complete /\ t.spooling /\ t.in_pipe /\ t.headers_done /\ ~t.listens
        BY <1>2, <1>7, <2>5 DEF SameStore
      <3>3. \A r \in t.reads : t.write_complete /\ r = <<Stream!Headers>> \o g
        BY <1>1, <2>5, <3>2 DEF Reading
      <3>. QED
        BY ONLY <3>1, <3>2, <3>3 DEF Reading
    <2>. QED
      BY <1>1, <2>3, <2>4, <2>5, <2>6, <2>7, Reads DEF Stream!rs_data, SameStore, SameLife, SpoolRemoved
  <1>. QED
    BY <1>6, <1>7

LEMMA rs_end_Is ==
    ASSUME StreamInv, Stream!rs_end
    PROVE  StreamSteps
  <1>. PICK g \in Seq(Chunk) : g = v2
    BY StreamInvIs
  <1>. PICK s \in MessageSet : s = v3
    BY StreamInvIs
  <1>1. /\ Stored(s, g) /\ Reading(s, g) /\ SpoolRemoved(s)
        /\ s.rs > Len(s.file) /\ v3' = Stream!_read_finish(s)
    BY StreamInvIs DEF Stream!rs_end
  <1>2. s.rs \in Nat /\ s.file \in Seq(Chunk) /\ s.queue \in Seq(Chunk)
    BY DEF MessageSet
  <1>3. s.rs > 0
    <2>1. Len(s.file) \in Nat
      BY <1>2, LenProperties
    <2>. QED
      BY <1>1, <1>2, <2>1
  <1>4. s.in_pipe /\ s.write_complete /\ s.spooling /\ s.rs <= Len(g) + 1
    BY <1>1, <1>3 DEF Reading
  <1>5. s.file = g
    <2>1. s.queue = <<>> /\ s.file \o s.queue = g
      BY <1>1, <1>4 DEF Stored
    <2>. QED
      BY <1>2, <2>1, ConcatEmptySeq
  <1>. PICK n \in Nat : n = Len(g)
    BY LenProperties
  <1>6. s.rs = n + 1
    BY <1>1, <1>2, <1>4, <1>5
  <1>7. s.listens => s.out = <<Stream!Headers>> \o g
    <2>. SUFFICES ASSUME s.listens
                  PROVE  s.out = <<Stream!Headers>> \o g
      OBVIOUS
    <2>1. /\ s.out \in Seq(Chunk) /\ Len(s.out) = n + 1 /\ s.out[1] = Stream!Headers
          /\ \A k \in 1..n : k < n + 1 => s.out[k + 1] = g[k]
      BY <1>1, <1>3, <1>6 DEF Reading, MessageSet
    <2>2. \A k \in 1..n : s.out[k + 1] = g[k]
      BY <2>1
    <2>. QED
      BY <2>1, <2>2, ReadToEnd
  <1>8. \A r \in s.reads : r = <<Stream!Headers>> \o g
    BY <1>1 DEF Reading
  <1>9. LET t == Stream!_read_finish(s)
        IN  /\ t \in MessageSet /\ Stored(t, g) /\ Reading(t, g)
            /\ SameLife(s, t) /\ t.thrown = s.thrown /\ t.open_pending = s.open_pending
    BY <1>1, <1>4, <1>7, <1>8, finish_Is
  <1>. QED
    BY <1>1, <1>9, Reads DEF Stream!rs_end, SameLife, SpoolRemoved

LEMMA resume_Is ==
    ASSUME StreamInv, Stream!resume
    PROVE  StreamSteps
  <1>. PICK g \in Seq(Chunk) : g = v2
    BY StreamInvIs
  <1>. PICK s \in MessageSet : s = v3
    BY StreamInvIs
  <1>1. /\ Stored(s, g) /\ Reading(s, g) /\ SpoolRemoved(s)
        /\ s.in_pipe /\ s.listens /\ s.paused
        /\ s.write_complete /\ s.headers_done
    BY StreamInvIs DEF Stream!resume, Reading
  <1>. PICK off \in BOOLEAN : off = FALSE
    OBVIOUS
  <1>. PICK u : u = [s EXCEPT !.paused = off]
    OBVIOUS
  <1>2. u \in MessageSet
    BY ONLY s \in MessageSet, off \in BOOLEAN, u = [s EXCEPT !.paused = off] DEF MessageSet
  <1>3. /\ SameStore(s, u) /\ SameLife(s, u) /\ u.thrown = s.thrown
        /\ u.in_pipe = s.in_pipe /\ u.headers_done = s.headers_done /\ ~u.paused
        /\ u.rs = s.rs /\ u.listens = s.listens /\ u.out = s.out /\ u.reads = s.reads
    BY DEF MessageSet, SameStore, SameLife
  <1>4. Stored(u, g)
    BY <1>1, <1>2, <1>3, SameStored
  <1>5. v3' = IF u.rs > 0 THEN u ELSE Stream!_read(u, FALSE)
    BY <1>3 DEF Stream!resume
  <1>8. UNCHANGED <<v1, v2>>
    BY DEF Stream!resume
  <1>6. CASE s.rs > 0
    <2>1. Reading(u, g)
      BY <1>1, <1>3, <1>6 DEF Reading, SameStore
    <2>2. v3' = u
      BY <1>3, <1>5, <1>6
    <2>. QED
      BY <1>1, <1>2, <1>3, <1>4, <1>8, <2>1, <2>2, Reads DEF SameLife, SameStore, SpoolRemoved
  <1>7. CASE ~(s.rs > 0)
    <2>1. s.rs = 0
      BY <1>7 DEF MessageSet
    <2>2. AtBody(u, g)
      <3>1. s.out = <<Stream!Headers>>
        BY <1>1, <2>1 DEF Reading
      <3>2. \A r \in s.reads : r = <<Stream!Headers>> \o g
        BY <1>1 DEF Reading
      <3>. QED
        BY <1>1, <1>2, <1>3, <1>4, <2>1, <3>1, <3>2 DEF AtBody, SameStore
    <2>3. g # <<>>
      BY <1>1 DEF Stored, MessageSet
    <2>4. LET t == Stream!_read_body(u)
          IN  /\ t \in MessageSet /\ Stored(t, g) /\ Reading(t, g)
              /\ SameLife(u, t) /\ t.thrown = u.thrown /\ t.open_pending = u.open_pending
      BY <2>2, <2>3, body_Is
    <2>5. v3' = Stream!_read_body(u)
      BY <1>1, <1>3, <1>5, <2>1 DEF Stream!_read, SameStore
    <2>. QED
      BY <1>1, <1>3, <1>8, <2>4, <2>5, Reads DEF SameLife, SameStore, SpoolRemoved
  <1>. QED
    BY <1>6, <1>7

LEMMA dest_closed_Is ==
    ASSUME StreamInv, Stream!dest_closed
    PROVE  StreamSteps
  <1>. PICK g \in Seq(Chunk) : g = v2
    BY StreamInvIs
  <1>. PICK s \in MessageSet : s = v3
    BY StreamInvIs
  <1>1. /\ Stored(s, g) /\ Reading(s, g) /\ SpoolRemoved(s) /\ s.in_pipe
    BY StreamInvIs DEF Stream!dest_closed
  <1>. PICK off \in BOOLEAN : off = FALSE
    OBVIOUS
  <1>. PICK u : u = [s EXCEPT !.listens = off]
    OBVIOUS
  <1>2. u \in MessageSet
    BY ONLY s \in MessageSet, off \in BOOLEAN, u = [s EXCEPT !.listens = off] DEF MessageSet
  <1>3. /\ SameStore(s, u) /\ SameLife(s, u) /\ u.thrown = s.thrown
        /\ u.in_pipe = s.in_pipe /\ u.headers_done = s.headers_done /\ u.paused = s.paused
        /\ u.rs = s.rs /\ ~u.listens /\ u.reads = s.reads
    BY DEF MessageSet, SameStore, SameLife
  <1>4. Stored(u, g)
    BY <1>1, <1>2, <1>3, SameStored
  <1>5. Reading(u, g)
    BY <1>1, <1>3 DEF Reading, SameStore
  <1>6. v3' = u
    BY DEF Stream!dest_closed
  <1>. QED
    BY <1>1, <1>2, <1>3, <1>4, <1>5, <1>6, Reads DEF Stream!dest_closed, SameLife, SameStore, SpoolRemoved

LEMMA destroy_Is ==
    ASSUME StreamInv, Stream!destroy
    PROVE  StreamSteps
  <1>. PICK g \in Seq(Chunk) : g = v2
    BY StreamInvIs
  <1>. PICK s \in MessageSet : s = v3
    BY StreamInvIs
  <1>1. Stored(s, g) /\ Reading(s, g)
    BY StreamInvIs
  <1>. PICK d \in {"no", "opening", "yes"} : d = IF s.open_pending THEN "opening" ELSE "yes"
    OBVIOUS
  <1>. PICK off \in BOOLEAN : off = FALSE
    OBVIOUS
  <1>. PICK u : u = [s EXCEPT !.destroyed = d, !.exists = off]
    OBVIOUS
  <1>2. u \in MessageSet
    BY ONLY s \in MessageSet, off \in BOOLEAN, d \in {"no", "opening", "yes"},
            u = [s EXCEPT !.destroyed = d, !.exists = off] DEF MessageSet
  <1>3. /\ SameStore(s, u) /\ u.thrown = s.thrown /\ u.destroyed = d /\ ~u.exists
        /\ u.in_pipe = s.in_pipe /\ u.headers_done = s.headers_done /\ u.paused = s.paused
        /\ u.rs = s.rs /\ u.listens = s.listens /\ u.reads = s.reads /\ u.out = s.out
    BY DEF MessageSet, SameStore
  <1>4. Stored(u, g)
    BY <1>1, <1>2, <1>3, SameStored
  <1>5. Reading(u, g)
    BY <1>1, <1>3 DEF Reading, SameStore
  <1>6. SpoolRemoved(u)
    BY <1>3 DEF SpoolRemoved, SameStore
  <1>7. v3' = u
    BY DEF Stream!destroy
  <1>. QED
    BY <1>2, <1>3, <1>4, <1>5, <1>6, <1>7, Reads DEF Stream!destroy

LEMMA StreamInit == StreamAssumed /\ Stream!Init => StreamInv
  <1>. SUFFICES ASSUME Stream!Init
                PROVE  StreamInv
    OBVIOUS
  <1>. PICK empty \in Seq(Chunk) : empty = <<>>
    BY EmptySeq
  <1>. PICK off \in BOOLEAN, zero \in Nat : off = FALSE /\ zero = 0
    OBVIOUS
  <1>. PICK s : s = v3
    OBVIOUS
  <1>1. s = [queue |-> empty, buffered |-> zero, spooling |-> off, file |-> empty,
             fd |-> off, open_pending |-> off, write_pending |-> off,
             end_called |-> off, ended |-> zero, write_complete |-> off,
             in_pipe |-> off, paused |-> off, headers_done |-> off, rs |-> zero,
             listens |-> off, out |-> empty, pipes |-> zero, thrown |-> off,
             reads |-> {}, failed |-> off, destroyed |-> "no", exists |-> off]
    BY DEF Stream!Init, Stream!NewStream
  <1>2. s \in MessageSet
    BY <1>1 DEF MessageSet
  <1>3. /\ s.queue = <<>> /\ s.buffered = 0 /\ ~s.spooling /\ s.file = <<>>
        /\ ~s.open_pending /\ ~s.write_pending /\ ~s.end_called /\ s.ended = 0
        /\ ~s.write_complete /\ ~s.in_pipe /\ s.rs = 0 /\ ~s.listens /\ s.reads = {}
        /\ s.destroyed = "no"
    BY <1>1
  <1>4. Stored(s, <<>>)
    <2>1. s.buffered = Stream!Full * Len(s.queue)
      BY <1>3, FullIs
    <2>2. \A i \in 1..Len(s.queue) : s.queue[i][2] = Stream!Full
      BY <1>3
    <2>. QED
      BY <1>3, <2>1, <2>2 DEF Stored, Stream!Pending
  <1>5. Reading(s, <<>>) /\ SpoolRemoved(s)
    BY <1>3 DEF Reading, SpoolRemoved
  <1>. QED
    BY <1>2, <1>4, <1>5 DEF Stream!Init, StreamInv, GoodStream

LEMMA StreamStepped ==
    ASSUME StreamAssumed, StreamInv, [Stream!Next]_(Stream!vars)
    PROVE  StreamSteps
  <1>1. CASE UNCHANGED Stream!vars
    BY <1>1 DEF Stream!vars, StreamSteps, StreamInv, GoodStream
  <1>2. CASE Stream!Next
    BY <1>2, add_line_Is, add_line_end_Is, ws_open_Is, ws_drain_Is, ws_error_Is, reader_Is,
       rs_data_Is, rs_end_Is, resume_Is, dest_closed_Is, destroy_Is DEF Stream!Next
  <1>. QED
    BY <1>1, <1>2

(* What the invariant says of readers, of the end and of the file.         *)
LEMMA EndsOnce_Is ==
    ASSUME StreamInv
    PROVE  Stream!EndsOnce
  <1>. PICK g \in Seq(Chunk) : g = v2
    BY StreamInvIs
  <1>. PICK s \in MessageSet : s = v3
    BY StreamInvIs
  <1>1. Stored(s, g)
    BY StreamInvIs
  <1>2. s.ended <= 1
    BY DEF MessageSet
  <1>3. ASSUME s.ended = 1
        PROVE  \/ s.queue = <<>> /\ s.file = g
               \/ s.file = <<>> /\ s.queue = g
    <2>1. CASE s.spooling
      <3>1. s.queue = <<>> /\ s.file \o s.queue = g /\ s.file \in Seq(Chunk)
        BY <1>1, <1>3, <2>1 DEF Stored, MessageSet
      <3>. QED
        BY <3>1, ConcatEmptySeq
    <2>2. CASE ~s.spooling
      BY <1>1, <2>2 DEF Stored
    <2>. QED
      BY <2>1, <2>2
  <1>. QED
    BY <1>2, <1>3 DEF Stream!EndsOnce

LEMMA StreamPromise ==
    ASSUME StreamInv
    PROVE  Stream!WholeMessage /\ Stream!EndsOnce /\ Stream!FileIsRemoved
  BY EndsOnce_Is DEF StreamInv, GoodStream, Reading, Stream!WholeMessage, Stream!Message, SpoolRemoved, Stream!FileIsRemoved

LEMMA SteppedIs ==
    ASSUME StreamSteps
    PROVE  StreamInv' /\ Stream!TurnedAway
  BY DEF StreamSteps, Stalled, Stream!TurnedAway

LEMMA StreamNext ==
    ASSUME StreamAssumed, StreamInv, Stream!Next
    PROVE  StreamInv' /\ Stream!TurnedAway
  <1>1. [Stream!Next]_(Stream!vars)
    OBVIOUS
  <1>. QED
    BY <1>1, StreamStepped, SteppedIs

----------------------------------------------------------------------------
(***************************************************************************)
(* The queue's loaders.                                                    *)
(***************************************************************************)

(* The theorems of QueueLoader, for a cluster and for a process alone.     *)
LoaderOwned == INSTANCE QueueLoader_proofs WITH
    Mails <- loader.Mails, Old <- loader.Old, Workers <- loader.Workers,
    Spare <- loader.Spare, EarlyMail <- loader.EarlyMail, file <- v1, told <- v2,
    proc <- v3, messages <- v4, ops <- v5, items <- v6, dropped <- v7

AloneOwned == INSTANCE QueueLoader_proofs WITH
    Mails <- alone.Mails, Old <- alone.Old, Workers <- alone.Workers,
    Spare <- alone.Spare, EarlyMail <- alone.EarlyMail, file <- v1, told <- v2,
    proc <- v3, messages <- v4, ops <- v5, items <- v6, dropped <- v7

LoaderAssumed == LoaderOwned!InSequence
AloneAssumed == AloneOwned!InSequence
LoaderInv == LoaderOwned!Owned
AloneInv == AloneOwned!Owned

----------------------------------------------------------------------------
(* LoaderOwned is about the same definitions.                          *)
LEMMA SameLoaderTerms ==
    /\ Loader!All = LoaderOwned!All
    /\ Loader!Pids = LoaderOwned!Pids
    /\ Loader!Cluster <=> LoaderOwned!Cluster
    /\ \A p : Loader!Up(p) <=> LoaderOwned!Up(p)
    /\ \A m : Loader!Exists(m) <=> LoaderOwned!Exists(m)
    /\ \A p : Loader!Concerned(p) = LoaderOwned!Concerned(p)
    /\ Loader!Unused = LoaderOwned!Unused
    /\ \A s : Loader!Range_(s) = LoaderOwned!Range_(s)
  <1>1. Loader!All = LoaderOwned!All
    BY DEF Loader!All, LoaderOwned!All
  <1>2. ASSUME NEW s PROVE Loader!Range_(s) = LoaderOwned!Range_(s)
    BY DEF Loader!Range_, LoaderOwned!Range_
  <1>3. Loader!Pids = LoaderOwned!Pids
    BY <1>2 DEF Loader!Pids, LoaderOwned!Pids
  <1>4. Loader!Cluster <=> LoaderOwned!Cluster
    BY DEF Loader!Cluster, LoaderOwned!Cluster
  <1>5. ASSUME NEW p PROVE Loader!Up(p) <=> LoaderOwned!Up(p)
    BY DEF Loader!Up, LoaderOwned!Up
  <1>6. ASSUME NEW m PROVE Loader!Exists(m) <=> LoaderOwned!Exists(m)
    BY DEF Loader!Exists, LoaderOwned!Exists
  <1>7. ASSUME NEW p PROVE Loader!Concerned(p) = LoaderOwned!Concerned(p)
    BY <1>1, <1>6 DEF Loader!Concerned, LoaderOwned!Concerned
  <1>8. Loader!Unused = LoaderOwned!Unused
    BY DEF Loader!Unused, LoaderOwned!Unused
  <1>. QED
    BY <1>1, <1>2, <1>3, <1>4, <1>5, <1>6, <1>7, <1>8

LEMMA SameLoaderInit ==
    Loader!Init <=> LoaderOwned!Init
  <1>1. ASSUME NEW files
        PROVE  Loader!scan_queue_pids(files) = LoaderOwned!scan_queue_pids(files)
    BY DEF Loader!scan_queue_pids, LoaderOwned!scan_queue_pids
  <1>2. ASSUME NEW S PROVE Loader!Orders(S) = LoaderOwned!Orders(S)
    <2>1. Loader!Cardinality(S) = LoaderOwned!Cardinality(S)
      BY DEF Loader!Cardinality, LoaderOwned!Cardinality
    <2>. QED
      BY <2>1 DEF Loader!Orders, LoaderOwned!Orders
  <1>3. ASSUME NEW order, NEW p
        PROVE  Loader!Dealt(order, p) = LoaderOwned!Dealt(order, p)
    BY DEF Loader!Dealt, LoaderOwned!Dealt
  <1>. QED
    BY <1>1, <1>2, <1>3, SameLoaderTerms DEF Loader!Init, LoaderOwned!Init

LEMMA SameLoaderNext ==
    Loader!Next <=> LoaderOwned!Next
  <1>1. ASSUME NEW p
        PROVE  Loader!load_queue(p) <=> LoaderOwned!load_queue(p)
    BY SameLoaderTerms DEF Loader!load_queue, LoaderOwned!load_queue
  <1>2. ASSUME NEW p
        PROVE  Loader!load_queue_files(p) <=> LoaderOwned!load_queue_files(p)
    BY SameLoaderTerms DEF Loader!load_queue_files, LoaderOwned!load_queue_files
  <1>3. ASSUME NEW p
        PROVE  Loader!crash(p) <=> LoaderOwned!crash(p)
    BY SameLoaderTerms DEF Loader!crash, LoaderOwned!crash
  <1>4. ASSUME NEW p
        PROVE  Loader!exit(p) <=> LoaderOwned!exit(p)
    BY SameLoaderTerms DEF Loader!exit, LoaderOwned!exit
  <1>5. ASSUME NEW p, NEW m
        PROVE  Loader!process_delivery(p, m) <=> LoaderOwned!process_delivery(p, m)
    BY SameLoaderTerms DEF Loader!process_delivery, LoaderOwned!process_delivery
  <1>6. ASSUME NEW p, NEW m
        PROVE  Loader!delivered(p, m) <=> LoaderOwned!delivered(p, m)
    BY SameLoaderTerms DEF Loader!delivered, LoaderOwned!delivered
  <1>7. ASSUME NEW m
        PROVE  Loader!ws_close(m) <=> LoaderOwned!ws_close(m)
    BY SameLoaderTerms DEF Loader!ws_close, LoaderOwned!ws_close
  <1>. QED
    BY <1>1, <1>2, <1>3, <1>4, <1>5, <1>6, <1>7, SameLoaderTerms DEF Loader!Next, LoaderOwned!Next

LEMMA SameLoaderPromises ==
    /\ Loader!OneOwner <=> LoaderOwned!OneOwner
    /\ Loader!Kept <=> LoaderOwned!Kept
    /\ Loader!NothingStranded <=> LoaderOwned!NothingStranded
  <1>1. ASSUME NEW m PROVE Loader!Loadable(m) <=> LoaderOwned!Loadable(m)
    BY SameLoaderTerms DEF Loader!Loadable, LoaderOwned!Loadable
  <1>. QED
    BY <1>1, SameLoaderTerms
       DEF Loader!OneOwner, LoaderOwned!OneOwner,
           Loader!Kept, LoaderOwned!Kept,
           Loader!NothingStranded, LoaderOwned!NothingStranded

LEMMA LoaderInit ==
    ASSUME LoaderAssumed, Loader!Init
    PROVE  LoaderInv
  BY SameLoaderInit, LoaderOwned!InitOwned DEF LoaderAssumed, LoaderInv, LoaderOwned!InSequence

LEMMA LoaderNext ==
    ASSUME LoaderAssumed, LoaderInv, Loader!Next
    PROVE  LoaderInv'
  <1>1. [LoaderOwned!Next]_(LoaderOwned!vars)
    BY SameLoaderNext
  <1>. QED
    BY <1>1, LoaderOwned!NextOwned DEF LoaderAssumed, LoaderInv

LEMMA LoaderPromise ==
    ASSUME LoaderInv
    PROVE  Loader!OneOwner /\ Loader!Kept /\ Loader!NothingStranded
  BY SameLoaderPromises, LoaderOwned!OwnedIsKept DEF LoaderInv

(* AloneOwned is about the same definitions.                           *)
LEMMA SameAloneTerms ==
    /\ Alone!All = AloneOwned!All
    /\ Alone!Pids = AloneOwned!Pids
    /\ Alone!Cluster <=> AloneOwned!Cluster
    /\ \A p : Alone!Up(p) <=> AloneOwned!Up(p)
    /\ \A m : Alone!Exists(m) <=> AloneOwned!Exists(m)
    /\ \A p : Alone!Concerned(p) = AloneOwned!Concerned(p)
    /\ Alone!Unused = AloneOwned!Unused
    /\ \A s : Alone!Range_(s) = AloneOwned!Range_(s)
  <1>1. Alone!All = AloneOwned!All
    BY DEF Alone!All, AloneOwned!All
  <1>2. ASSUME NEW s PROVE Alone!Range_(s) = AloneOwned!Range_(s)
    BY DEF Alone!Range_, AloneOwned!Range_
  <1>3. Alone!Pids = AloneOwned!Pids
    BY <1>2 DEF Alone!Pids, AloneOwned!Pids
  <1>4. Alone!Cluster <=> AloneOwned!Cluster
    BY DEF Alone!Cluster, AloneOwned!Cluster
  <1>5. ASSUME NEW p PROVE Alone!Up(p) <=> AloneOwned!Up(p)
    BY DEF Alone!Up, AloneOwned!Up
  <1>6. ASSUME NEW m PROVE Alone!Exists(m) <=> AloneOwned!Exists(m)
    BY DEF Alone!Exists, AloneOwned!Exists
  <1>7. ASSUME NEW p PROVE Alone!Concerned(p) = AloneOwned!Concerned(p)
    BY <1>1, <1>6 DEF Alone!Concerned, AloneOwned!Concerned
  <1>8. Alone!Unused = AloneOwned!Unused
    BY DEF Alone!Unused, AloneOwned!Unused
  <1>. QED
    BY <1>1, <1>2, <1>3, <1>4, <1>5, <1>6, <1>7, <1>8

LEMMA SameAloneInit ==
    Alone!Init <=> AloneOwned!Init
  <1>1. ASSUME NEW files
        PROVE  Alone!scan_queue_pids(files) = AloneOwned!scan_queue_pids(files)
    BY DEF Alone!scan_queue_pids, AloneOwned!scan_queue_pids
  <1>2. ASSUME NEW S PROVE Alone!Orders(S) = AloneOwned!Orders(S)
    <2>1. Alone!Cardinality(S) = AloneOwned!Cardinality(S)
      BY DEF Alone!Cardinality, AloneOwned!Cardinality
    <2>. QED
      BY <2>1 DEF Alone!Orders, AloneOwned!Orders
  <1>3. ASSUME NEW order, NEW p
        PROVE  Alone!Dealt(order, p) = AloneOwned!Dealt(order, p)
    BY DEF Alone!Dealt, AloneOwned!Dealt
  <1>. QED
    BY <1>1, <1>2, <1>3, SameAloneTerms DEF Alone!Init, AloneOwned!Init

LEMMA SameAloneNext ==
    Alone!Next <=> AloneOwned!Next
  <1>1. ASSUME NEW p
        PROVE  Alone!load_queue(p) <=> AloneOwned!load_queue(p)
    BY SameAloneTerms DEF Alone!load_queue, AloneOwned!load_queue
  <1>2. ASSUME NEW p
        PROVE  Alone!load_queue_files(p) <=> AloneOwned!load_queue_files(p)
    BY SameAloneTerms DEF Alone!load_queue_files, AloneOwned!load_queue_files
  <1>3. ASSUME NEW p
        PROVE  Alone!crash(p) <=> AloneOwned!crash(p)
    BY SameAloneTerms DEF Alone!crash, AloneOwned!crash
  <1>4. ASSUME NEW p
        PROVE  Alone!exit(p) <=> AloneOwned!exit(p)
    BY SameAloneTerms DEF Alone!exit, AloneOwned!exit
  <1>5. ASSUME NEW p, NEW m
        PROVE  Alone!process_delivery(p, m) <=> AloneOwned!process_delivery(p, m)
    BY SameAloneTerms DEF Alone!process_delivery, AloneOwned!process_delivery
  <1>6. ASSUME NEW p, NEW m
        PROVE  Alone!delivered(p, m) <=> AloneOwned!delivered(p, m)
    BY SameAloneTerms DEF Alone!delivered, AloneOwned!delivered
  <1>7. ASSUME NEW m
        PROVE  Alone!ws_close(m) <=> AloneOwned!ws_close(m)
    BY SameAloneTerms DEF Alone!ws_close, AloneOwned!ws_close
  <1>. QED
    BY <1>1, <1>2, <1>3, <1>4, <1>5, <1>6, <1>7, SameAloneTerms DEF Alone!Next, AloneOwned!Next

LEMMA SameAlonePromises ==
    /\ Alone!OneOwner <=> AloneOwned!OneOwner
    /\ Alone!Kept <=> AloneOwned!Kept
    /\ Alone!NothingStranded <=> AloneOwned!NothingStranded
  <1>1. ASSUME NEW m PROVE Alone!Loadable(m) <=> AloneOwned!Loadable(m)
    BY SameAloneTerms DEF Alone!Loadable, AloneOwned!Loadable
  <1>. QED
    BY <1>1, SameAloneTerms
       DEF Alone!OneOwner, AloneOwned!OneOwner,
           Alone!Kept, AloneOwned!Kept,
           Alone!NothingStranded, AloneOwned!NothingStranded

LEMMA AloneInit ==
    ASSUME AloneAssumed, Alone!Init
    PROVE  AloneInv
  BY SameAloneInit, AloneOwned!InitOwned DEF AloneAssumed, AloneInv, AloneOwned!InSequence

LEMMA AloneNext ==
    ASSUME AloneAssumed, AloneInv, Alone!Next
    PROVE  AloneInv'
  <1>1. [AloneOwned!Next]_(AloneOwned!vars)
    BY SameAloneNext
  <1>. QED
    BY <1>1, AloneOwned!NextOwned DEF AloneAssumed, AloneInv

LEMMA AlonePromise ==
    ASSUME AloneInv
    PROVE  Alone!OneOwner /\ Alone!Kept /\ Alone!NothingStranded
  BY SameAlonePromises, AloneOwned!OwnedIsKept DEF AloneInv

----------------------------------------------------------------------------
(***************************************************************************)
(* The parts together.  A step is one of the part that was chosen, or      *)
(* changes nothing.                                                        *)
(***************************************************************************)

(* A step that changes nothing keeps the invariants.                       *)
LEMMA HooksStay ==
    ASSUME HooksInv(v1), UNCHANGED state
    PROVE  HooksInv(v1)' /\ Hooks!AnswersInTime
  BY DEF state, Hooks!AnswersInTime

LEMMA StreamStays ==
    ASSUME StreamAssumed, StreamInv, UNCHANGED state
    PROVE  StreamInv' /\ Stream!TurnedAway
  <1>1. [Stream!Next]_(Stream!vars)
    BY DEF state, Stream!vars
  <1>. QED
    BY <1>1, StreamStepped, SteppedIs

LEMMA TimersStay ==
    ASSUME TimersInv, UNCHANGED state
    PROVE  TimersInv' /\ Timers!InTime
  BY DEF state, TimersInv, Sorted, Ids, Timers!InTime

LEMMA ConfigStays ==
    ASSUME ConfigInv, UNCHANGED state
    PROVE  ConfigInv'
  BY DEF state, ConfigInv, ConfigTypes, LastReads, Overridden, Unread, UpToDate, Alike, NoneOfF,
         Cached, FromJson

LEMMA ListsStay ==
    ASSUME ListsInv, UNCHANGED state
    PROVE  ListsInv' /\ Lists!RestoredByCheck
  BY DEF state, ListsInv, ListsTypes, LookupFine, AllAsked, CalledIn, Decided,
         Lists!RestoredByCheck

LEMMA ChecksStay ==
    ASSUME ChecksInv, UNCHANGED state
    PROVE  ChecksInv'
  <1>1. UNCHANGED <<v1, v2, v3, v4, v5>>
    BY DEF state
  <1>2. ChecksTypes' /\ InForce'
    BY <1>1, CallIs, TypesStay
  <1>3. Asked'
    BY <1>1 DEF ChecksInv, Asked
  <1>4. Known'
    BY <1>1, KnownStays DEF ChecksInv, Known
  <1>5. Checks!OrderDoesNotMatter'
    BY <1>1, FollowsIs, FollowsStill DEF ChecksInv
  <1>. QED
    BY <1>2, <1>3, <1>4, <1>5 DEF ChecksInv

LEMMA P0fStays ==
    ASSUME P0fInv, UNCHANGED state
    PROVE  P0fInv' /\ P0f!KeptInStep
  <1>1. P0fInv'
    BY DEF state, P0fInv, P0fTypes, Expected, WaitsInQueue, InQueue
  <1>2. P0f!InStep' <=> P0f!InStep
    BY DEF state, P0f!InStep
  <1>. QED
    BY <1>1, <1>2 DEF P0f!KeptInStep

LEMMA ScanStays ==
    ASSUME ScanInv, UNCHANGED state
    PROVE  ScanInv'
  BY DEF state, ScanInv, ScanTypes, MarkedFine, Fine, OwnText, Recognised, GoesOn, Justified, Removed

LEMMA SpfStays ==
    ASSUME SenderAssumed, SpfInv, UNCHANGED state
    PROVE  SpfInv'
  <1>1. [Sender!Next]_(Sender!vars)
    BY DEF state, Sender!vars
  <1>. QED
    BY <1>1, SpfKept

LEMMA DenialsStay ==
    ASSUME DenialsInv, ScoreKept, UNCHANGED state
    PROVE  DenialsInv' /\ ScoreKept' /\ Denied!AcceptedUndenied
  <1>1. DenialsInv' /\ Denied!AcceptedUndenied
    BY DEF state, DenialsInv, DenialTypes, Current, MailKept, Undenied, HadTurn, GoodKarma,
           Denied!Has, Denied!AcceptedUndenied
  <1>2. ScoreKept'
    BY DEF state, ScoreKept, KarmaJudges, Given, Unscored, HadTurn, Denied!Has
  <1>. QED
    BY <1>1, <1>2

LEMMA RatesStay ==
    ASSUME RatesInv, UNCHANGED state
    PROVE  RatesInv'
  BY DEF state, RatesInv, RatesTypes, NoMoreThanAnswered, UnderOneKey, Counted, Opened,
         Rates!LeftEarly

LEMMA SignupStays ==
    ASSUME SignupInv, UNCHANGED state
    PROVE  SignupInv'
  BY DEF state, SignupInv

LEMMA LoaderStays ==
    ASSUME LoaderAssumed, LoaderInv, UNCHANGED state
    PROVE  LoaderInv'
  <1>1. [LoaderOwned!Next]_(LoaderOwned!vars)
    BY DEF state, LoaderOwned!vars
  <1>. QED
    BY <1>1, LoaderOwned!NextOwned DEF LoaderAssumed, LoaderInv

LEMMA AloneStays ==
    ASSUME AloneAssumed, AloneInv, UNCHANGED state
    PROVE  AloneInv'
  <1>1. [AloneOwned!Next]_(AloneOwned!vars)
    BY DEF state, AloneOwned!vars
  <1>. QED
    BY <1>1, AloneOwned!NextOwned DEF AloneAssumed, AloneInv

LEMMA RecipientsStay ==
    ASSUME RecipientsInv, UNCHANGED state
    PROVE  RecipientsInv'
  BY DEF state, RecipientsInv, InSession, LookedUp, Mails, Noted, Settled, Lookup,
         Recipients!InvoiceIsForRecipient, Recipients!PricedByOwn

(* A step is one of the part.                                              *)
LEMMA OnePartGoes ==
    ASSUME [Next]_state
    PROVE  /\ part' = part
           /\ \/ UNCHANGED state
              \/ /\ part = "hooks" => Hooks!Next
                 /\ part = "stream" => Stream!Next
                 /\ part = "timers" => Timers!Next
                 /\ part = "config" => Config!Next
                 /\ part = "lists" => Lists!Next
                 /\ part = "checks" => Checks!Next
                 /\ part = "p0f" => P0f!Next
                 /\ part = "scan" => Scan!Next
                 /\ part = "spf" => Sender!Next
                 /\ part = "denials" => Denied!Next
                 /\ part = "rates" => Rates!Next
                 /\ part = "signup" => Signup!Next
                 /\ part = "loader" => Loader!Next
                 /\ part = "alone" => Alone!Next
                 /\ part = "rcpts" => Recipients!Next
  BY DEF Next, state, After1, After3, After5, After6, After7, After8, After10, After11, After12

LEMMA OnePartStarts ==
    ASSUME Init
    PROVE  /\ part = "hooks" => Hooks!Init
           /\ part = "stream" => Stream!Init
           /\ part = "timers" => Timers!Init
           /\ part = "config" => Config!Init
           /\ part = "lists" => Lists!Init
           /\ part = "checks" => Checks!Init
           /\ part = "p0f" => P0f!Init
           /\ part = "scan" => Scan!Init
           /\ part = "spf" => Sender!Init
           /\ part = "denials" => Denied!Init
           /\ part = "rates" => Rates!Init
           /\ part = "signup" => Signup!Init
           /\ part = "loader" => Loader!Init
           /\ part = "alone" => Alone!Init
           /\ part = "rcpts" => Recipients!Init
  BY DEF Init

----------------------------------------------------------------------------
(* Each part keeps its invariant.                                          *)
HooksSound == part = "hooks" => HooksInv(v1)

LEMMA HooksSoundAlways == Polite => (Spec => []HooksSound)
  <1>. SUFFICES ASSUME Polite
                PROVE  Spec => []HooksSound
    OBVIOUS
  <1>1. Init => HooksSound
    BY OnePartStarts, HooksInit, Constants DEF HooksSound
  <1>2. HooksSound /\ [Next]_state => HooksSound'
    <2>. SUFFICES ASSUME HooksSound, [Next]_state, part' = "hooks"
                  PROVE  HooksInv(v1')
      BY DEF HooksSound
    <2>1. part = "hooks" /\ HooksInv(v1) /\ (UNCHANGED state \/ Hooks!Next)
      BY OnePartGoes DEF HooksSound
    <2>. QED
      BY <2>1, HooksStay, HooksNext, Constants DEF HooksStep
  <1>. QED
    BY <1>1, <1>2, PTL DEF Spec

StreamSound == part = "stream" => StreamInv

LEMMA StreamSoundAlways == StreamAssumed => (Spec => []StreamSound)
  <1>. SUFFICES ASSUME StreamAssumed
                PROVE  Spec => []StreamSound
    OBVIOUS
  <1>1. Init => StreamSound
    BY OnePartStarts, StreamInit, Constants DEF StreamSound
  <1>2. StreamSound /\ [Next]_state => StreamSound'
    <2>. SUFFICES ASSUME StreamSound, [Next]_state, part' = "stream"
                  PROVE  StreamInv'
      BY DEF StreamSound
    <2>1. part = "stream" /\ StreamInv /\ (UNCHANGED state \/ Stream!Next)
      BY OnePartGoes DEF StreamSound
    <2>. QED
      BY <2>1, StreamStays, StreamNext, Constants
  <1>. QED
    BY <1>1, <1>2, PTL DEF Spec

TimersSound == part = "timers" => TimersInv

LEMMA TimersSoundAlways == Spec => []TimersSound
  <1>1. Init => TimersSound
    BY OnePartStarts, TimersInit, Constants DEF TimersSound
  <1>2. TimersSound /\ [Next]_state => TimersSound'
    <2>. SUFFICES ASSUME TimersSound, [Next]_state, part' = "timers"
                  PROVE  TimersInv'
      BY DEF TimersSound
    <2>1. part = "timers" /\ TimersInv /\ (UNCHANGED state \/ Timers!Next)
      BY OnePartGoes DEF TimersSound
    <2>. QED
      BY <2>1, TimersStay, TimersNext, Constants
  <1>. QED
    BY <1>1, <1>2, PTL DEF Spec

ConfigSound == part = "config" => ConfigInv

LEMMA ConfigSoundAlways == Spec => []ConfigSound
  <1>1. Init => ConfigSound
    BY OnePartStarts, ConfigInit, Constants DEF ConfigSound
  <1>2. ConfigSound /\ [Next]_state => ConfigSound'
    <2>. SUFFICES ASSUME ConfigSound, [Next]_state, part' = "config"
                  PROVE  ConfigInv'
      BY DEF ConfigSound
    <2>1. part = "config" /\ ConfigInv /\ (UNCHANGED state \/ Config!Next)
      BY OnePartGoes DEF ConfigSound
    <2>. QED
      BY <2>1, ConfigStays, ConfigNext, Constants
  <1>. QED
    BY <1>1, <1>2, PTL DEF Spec

ListsSound == part = "lists" => ListsInv

LEMMA ListsSoundAlways == Spec => []ListsSound
  <1>1. Init => ListsSound
    BY OnePartStarts, ListsInit, Constants DEF ListsSound
  <1>2. ListsSound /\ [Next]_state => ListsSound'
    <2>. SUFFICES ASSUME ListsSound, [Next]_state, part' = "lists"
                  PROVE  ListsInv'
      BY DEF ListsSound
    <2>1. part = "lists" /\ ListsInv /\ (UNCHANGED state \/ Lists!Next)
      BY OnePartGoes DEF ListsSound
    <2>. QED
      BY <2>1, ListsStay, ListsNext, Constants DEF ListsStep
  <1>. QED
    BY <1>1, <1>2, PTL DEF Spec

ChecksSound == part = "checks" => ChecksInv

LEMMA ChecksSoundAlways == Spec => []ChecksSound
  <1>1. Init => ChecksSound
    BY OnePartStarts, ChecksInit, Constants DEF ChecksSound
  <1>2. ChecksSound /\ [Next]_state => ChecksSound'
    <2>. SUFFICES ASSUME ChecksSound, [Next]_state, part' = "checks"
                  PROVE  ChecksInv'
      BY DEF ChecksSound
    <2>1. part = "checks" /\ ChecksInv /\ (UNCHANGED state \/ Checks!Next)
      BY OnePartGoes DEF ChecksSound
    <2>. QED
      BY <2>1, ChecksStay, ChecksNext, Constants
  <1>. QED
    BY <1>1, <1>2, PTL DEF Spec

P0fSound == part = "p0f" => P0fInv

LEMMA P0fSoundAlways == Spec => []P0fSound
  <1>1. Init => P0fSound
    BY OnePartStarts, P0fInit, Constants DEF P0fSound
  <1>2. P0fSound /\ [Next]_state => P0fSound'
    <2>. SUFFICES ASSUME P0fSound, [Next]_state, part' = "p0f"
                  PROVE  P0fInv'
      BY DEF P0fSound
    <2>1. part = "p0f" /\ P0fInv /\ (UNCHANGED state \/ P0f!Next)
      BY OnePartGoes DEF P0fSound
    <2>. QED
      BY <2>1, P0fStays, P0fNext, Constants DEF P0fStep
  <1>. QED
    BY <1>1, <1>2, PTL DEF Spec

ScanSound == part = "scan" => ScanInv

LEMMA ScanSoundAlways == Spec => []ScanSound
  <1>1. Init => ScanSound
    BY OnePartStarts, ScanInit, Constants DEF ScanSound
  <1>2. ScanSound /\ [Next]_state => ScanSound'
    <2>. SUFFICES ASSUME ScanSound, [Next]_state, part' = "scan"
                  PROVE  ScanInv'
      BY DEF ScanSound
    <2>1. part = "scan" /\ ScanInv /\ (UNCHANGED state \/ Scan!Next)
      BY OnePartGoes DEF ScanSound
    <2>. QED
      BY <2>1, ScanStays, ScanNext, Constants
  <1>. QED
    BY <1>1, <1>2, PTL DEF Spec

SpfSound == part = "spf" => SpfInv

LEMMA SpfSoundAlways == Spec => []SpfSound
  <1>1. Init => SpfSound
    BY OnePartStarts, SpfFirst, Constants DEF SpfSound
  <1>2. SpfSound /\ [Next]_state => SpfSound'
    <2>. SUFFICES ASSUME SpfSound, [Next]_state, part' = "spf"
                  PROVE  SpfInv'
      BY DEF SpfSound
    <2>1. part = "spf" /\ SpfInv /\ (UNCHANGED state \/ Sender!Next)
      BY OnePartGoes DEF SpfSound
    <2>. QED
      BY <2>1, SpfStays, SpfKept, Constants
  <1>. QED
    BY <1>1, <1>2, PTL DEF Spec

DenialsSound == part = "denials" => DenialsInv /\ ScoreKept

LEMMA DenialsSoundAlways == Spec => []DenialsSound
  <1>1. Init => DenialsSound
    BY OnePartStarts, DenialsInit, ScoreInit, Constants DEF DenialsSound
  <1>2. DenialsSound /\ [Next]_state => DenialsSound'
    <2>. SUFFICES ASSUME DenialsSound, [Next]_state, part' = "denials"
                  PROVE  DenialsInv' /\ ScoreKept'
      BY DEF DenialsSound
    <2>1. part = "denials" /\ DenialsInv /\ ScoreKept /\ (UNCHANGED state \/ Denied!Next)
      BY OnePartGoes DEF DenialsSound
    <2>. QED
      BY <2>1, DenialsStay, DenialsNext, ScoreNext, Constants
  <1>. QED
    BY <1>1, <1>2, PTL DEF Spec

RatesSound == part = "rates" => RatesInv

LEMMA RatesSoundAlways == Spec => []RatesSound
  <1>1. Init => RatesSound
    BY OnePartStarts, RatesInit, Constants DEF RatesSound
  <1>2. RatesSound /\ [Next]_state => RatesSound'
    <2>. SUFFICES ASSUME RatesSound, [Next]_state, part' = "rates"
                  PROVE  RatesInv'
      BY DEF RatesSound
    <2>1. part = "rates" /\ RatesInv /\ (UNCHANGED state \/ Rates!Next)
      BY OnePartGoes DEF RatesSound
    <2>. QED
      BY <2>1, RatesStay, RatesNext, Constants
  <1>. QED
    BY <1>1, <1>2, PTL DEF Spec

SignupSound == part = "signup" => SignupInv

LEMMA SignupSoundAlways == Spec => []SignupSound
  <1>1. Init => SignupSound
    BY OnePartStarts, SignupInit, Constants DEF SignupSound
  <1>2. SignupSound /\ [Next]_state => SignupSound'
    <2>. SUFFICES ASSUME SignupSound, [Next]_state, part' = "signup"
                  PROVE  SignupInv'
      BY DEF SignupSound
    <2>1. part = "signup" /\ SignupInv /\ (UNCHANGED state \/ Signup!Next)
      BY OnePartGoes DEF SignupSound
    <2>. QED
      BY <2>1, SignupStays, SignupNext, Constants
  <1>. QED
    BY <1>1, <1>2, PTL DEF Spec

LoaderSound == part = "loader" => LoaderInv

LEMMA LoaderSoundAlways == LoaderAssumed => (Spec => []LoaderSound)
  <1>. SUFFICES ASSUME LoaderAssumed
                PROVE  Spec => []LoaderSound
    OBVIOUS
  <1>1. Init => LoaderSound
    BY OnePartStarts, LoaderInit, Constants DEF LoaderSound
  <1>2. LoaderSound /\ [Next]_state => LoaderSound'
    <2>. SUFFICES ASSUME LoaderSound, [Next]_state, part' = "loader"
                  PROVE  LoaderInv'
      BY DEF LoaderSound
    <2>1. part = "loader" /\ LoaderInv /\ (UNCHANGED state \/ Loader!Next)
      BY OnePartGoes DEF LoaderSound
    <2>. QED
      BY <2>1, LoaderStays, LoaderNext, Constants
  <1>. QED
    BY <1>1, <1>2, PTL DEF Spec

AloneSound == part = "alone" => AloneInv

LEMMA AloneSoundAlways == AloneAssumed => (Spec => []AloneSound)
  <1>. SUFFICES ASSUME AloneAssumed
                PROVE  Spec => []AloneSound
    OBVIOUS
  <1>1. Init => AloneSound
    BY OnePartStarts, AloneInit, Constants DEF AloneSound
  <1>2. AloneSound /\ [Next]_state => AloneSound'
    <2>. SUFFICES ASSUME AloneSound, [Next]_state, part' = "alone"
                  PROVE  AloneInv'
      BY DEF AloneSound
    <2>1. part = "alone" /\ AloneInv /\ (UNCHANGED state \/ Alone!Next)
      BY OnePartGoes DEF AloneSound
    <2>. QED
      BY <2>1, AloneStays, AloneNext, Constants
  <1>. QED
    BY <1>1, <1>2, PTL DEF Spec

RecipientsSound == part = "rcpts" => RecipientsInv

LEMMA RecipientsSoundAlways == rcpts.InTime = TRUE => (Spec => []RecipientsSound)
  <1>. SUFFICES ASSUME rcpts.InTime = TRUE
                PROVE  Spec => []RecipientsSound
    OBVIOUS
  <1>1. Init => RecipientsSound
    BY OnePartStarts, RecipientsInit, Constants DEF RecipientsSound
  <1>2. RecipientsSound /\ [Next]_state => RecipientsSound'
    <2>. SUFFICES ASSUME RecipientsSound, [Next]_state, part' = "rcpts"
                  PROVE  RecipientsInv'
      BY DEF RecipientsSound
    <2>1. part = "rcpts" /\ RecipientsInv /\ (UNCHANGED state \/ Recipients!Next)
      BY OnePartGoes DEF RecipientsSound
    <2>. QED
      BY <2>1, RecipientsStay, RecipientsNext, Constants
  <1>. QED
    BY <1>1, <1>2, PTL DEF Spec

----------------------------------------------------------------------------
(* The theorems.                                                           *)

(* run_hooks and hook_fn (plugins.js): with polite plugins, one function   *)
(* works for a connection at a time, the one registered for the hook, in   *)
(* turn, through timeouts, denials and disconnects.                        *)
THEOREM HooksInTurn == Polite => (Spec => []RunsInTurn)
  <1>1. HooksSound => RunsInTurn
    BY HooksPromise DEF HooksSound, RunsInTurn
  <1>. QED
    BY <1>1, HooksSoundAlways, PTL

(* messagestream.js: with a limit that is no whole number of chunks, each  *)
(* reader gets the whole message, hook_data_post runs once, and the spool  *)
(* file goes with the message.                                             *)
THEOREM StreamWhole == StreamAssumed => (Spec => []WholeMessage)
  <1>1. StreamSound => WholeMessage
    BY StreamPromise DEF StreamSound, WholeMessage
  <1>. QED
    BY <1>1, StreamSoundAlways, PTL

(* timer_queue.js, add, cancel and fire: the queue stays in the order of   *)
(* its times, and no timer is lost, whatever the callbacks add and however *)
(* the clock is set back.                                                  *)
THEOREM TimersInOrder == Spec => []InOrder
  <1>1. TimersSound => InOrder
    BY TimersPromise DEF TimersSound, InOrder
  <1>. QED
    BY <1>1, TimersSoundAlways, PTL

(* timer_queue.js, fire: its loop looks at the head alone, but when it     *)
(* ends no timer is left that was due when it started, though callbacks    *)
(* add timers while it runs.                                               *)
THEOREM FireIsComplete == Spec => [][part = "timers" => LeavesNoneDue]_state
  <1>1. TimersSound /\ [Next]_state => [part = "timers" => LeavesNoneDue]_state
    <2>. SUFFICES ASSUME TimersSound, Next, part = "timers", state' # state
                  PROVE  LeavesNoneDue
      OBVIOUS
    <2>1. TimersInv /\ Timers!Next
      BY OnePartGoes DEF TimersSound
    <2>. QED
      BY <2>1, FireLeavesNoneDue
  <1>. QED
    BY <1>1, TimersSoundAlways, PTL DEF Spec

(* configfile.js, the watcher and the cache: once the events of the        *)
(* directory are handled, what is cached of a file is what it holds, or    *)
(* what the JSON file in its place held when it was loaded.                *)
THEOREM ConfigCurrent == Spec => []ConfigIsCurrent
  <1>1. ConfigSound => ConfigIsCurrent
    BY ConfigPromise DEF ConfigSound, ConfigIsCurrent
  <1>. QED
    BY <1>1, ConfigSoundAlways, PTL

(* dns_list_base.js, the DNS plugins, connect.p0f.js, the scanners and     *)
(* spf.js: a verdict follows from the answers, whatever their order; p0f   *)
(* and the scanners answer for the connection or message that asked; and   *)
(* SPF's result is the one its records come to, if none of them refers to  *)
(* one that refers on or is referred to twice, no MX host's lookup fails   *)
(* and the limit of lookups is not reached.                                *)
THEOREM VerdictsJustified == Spec => []VerdictIsJustified
  <1>1. ListsSound /\ ChecksSound /\ P0fSound /\ ScanSound => (part # "spf" => VerdictIsJustified)
    BY ListsPromise, ChecksPromise, P0fPromise, ScanPromise
       DEF ListsSound, ChecksSound, P0fSound, ScanSound, VerdictIsJustified
  <1>2. SpfSound => (part = "spf" => VerdictIsJustified)
    BY SpfGives, Constants DEF SpfSound, VerdictIsJustified
  <1>3. ListsSound /\ ChecksSound /\ P0fSound /\ ScanSound /\ SpfSound => VerdictIsJustified
    BY <1>1, <1>2
  <1>. QED
    BY <1>3, ListsSoundAlways, ChecksSoundAlways, P0fSoundAlways, ScanSoundAlways, SpfSoundAlways, PTL

(* karma.js and rate_limit.js: what is counted as open is open, but for    *)
(* connections that leave early and reloads; and no message is queued of a *)
(* sender that was denied too often, if karma has the last word.           *)
THEOREM SendersJudged == Spec => []SenderIsJudged
  <1>1. RatesSound /\ DenialsSound => SenderIsJudged
    BY RatesPromise, DenialsPromise, Constants DEF RatesSound, DenialsSound, SenderIsJudged
  <1>. QED
    BY <1>1, RatesSoundAlways, DenialsSoundAlways, PTL

(* signup.js and users.js: no two accounts share an alias or an address,   *)
(* for any number of browsers; outbound.js: no two processes own a queue   *)
(* file, and every file of the queue is somebody's.                        *)
THEOREM EachOwnedOnce == LoaderAssumed /\ AloneAssumed => (Spec => []OwnedOnce)
  <1>1. SignupSound /\ LoaderSound /\ AloneSound => OwnedOnce
    BY SignupPromise, LoaderPromise, AlonePromise DEF SignupSound, LoaderSound, AloneSound, OwnedOnce
  <1>. QED
    BY <1>1, SignupSoundAlways, LoaderSoundAlways, AloneSoundAlways, PTL

(* wrte.js: when lookups are answered before the plugin's timeout, each    *)
(* user among a mail's recipients sets the price of what he gets, and a    *)
(* sender pays only users he wrote to.                                     *)
THEOREM RecipientsArePaid == rcpts.InTime = TRUE => (Spec => []RecipientsPaid)
  <1>1. RecipientsSound => RecipientsPaid
    BY RecipientsPromise DEF RecipientsSound, RecipientsPaid
  <1>. QED
    BY <1>1, RecipientsSoundAlways, PTL

(* plugins.js and messagestream.js: a hook is answered once, and for a     *)
(* command only while its client is there; a reader is turned away only    *)
(* while another is served.                                                *)
THEOREM EachAnsweredInTime == Polite /\ StreamAssumed => (Spec => AnsweredInTime)
  <1>. SUFFICES ASSUME Polite, StreamAssumed
                PROVE  Spec => AnsweredInTime
    OBVIOUS
  <1>1. HooksSound /\ StreamSound /\ [Next]_state
           => [/\ part = "hooks"  => Hooks!AnswersInTime
               /\ part = "stream" => Stream!TurnedAway]_state
    <2>. SUFFICES ASSUME HooksSound, StreamSound, Next, state' # state
                  PROVE  /\ part = "hooks"  => Hooks!AnswersInTime
                         /\ part = "stream" => Stream!TurnedAway
      OBVIOUS
    <2>1. ASSUME part = "hooks" PROVE Hooks!AnswersInTime
      <3>1. HooksInv(v1) /\ Hooks!Next
        BY <2>1, OnePartGoes DEF HooksSound
      <3>2. InTime(v1, v1')
        BY <3>1, HooksNext, Constants DEF HooksStep
      <3>. QED
        BY <3>1, <3>2, HooksAnswers
    <2>2. ASSUME part = "stream" PROVE Stream!TurnedAway
      <3>1. StreamInv /\ Stream!Next
        BY <2>2, OnePartGoes DEF StreamSound
      <3>. QED
        BY <3>1, StreamNext
    <2>. QED
      BY <2>1, <2>2
  <1>2. Spec => []HooksSound /\ []StreamSound
    BY HooksSoundAlways, StreamSoundAlways
  <1>. QED
    BY <1>1, <1>2, PTL DEF Spec, AnsweredInTime

(* delay_deny.js, connect.p0f.js, dns_list_base.js and timer_queue.js: a   *)
(* denial kept for later is not forgotten; p0f's answers stay in step with *)
(* the queries, but for a socket that fails with several of them; a        *)
(* disabled list comes back by its check alone; and no timer is early.     *)
THEOREM NoneForgotten == Spec => NothingForgotten
  <1>1. DenialsSound /\ P0fSound /\ ListsSound /\ [Next]_state
           => [/\ part = "denials" => Denied!AcceptedUndenied
               /\ part = "p0f"     => P0f!KeptInStep
               /\ part = "lists"   => Lists!RestoredByCheck
               /\ part = "timers"  => Timers!InTime]_state
    <2>. SUFFICES ASSUME DenialsSound, P0fSound, ListsSound, Next, state' # state
                  PROVE  /\ part = "denials" => Denied!AcceptedUndenied
                         /\ part = "p0f"     => P0f!KeptInStep
                         /\ part = "lists"   => Lists!RestoredByCheck
                         /\ part = "timers"  => Timers!InTime
      OBVIOUS
    <2>1. ASSUME part = "denials" PROVE Denied!AcceptedUndenied
      <3>1. DenialsInv /\ Denied!Next
        BY <2>1, OnePartGoes DEF DenialsSound
      <3>. QED
        BY <3>1, DenialsNext, Constants
    <2>2. ASSUME part = "p0f" PROVE P0f!KeptInStep
      <3>1. P0fInv /\ P0f!Next
        BY <2>2, OnePartGoes DEF P0fSound
      <3>. QED
        BY <3>1, P0fNext DEF P0fStep
    <2>3. ASSUME part = "lists" PROVE Lists!RestoredByCheck
      <3>1. ListsInv /\ Lists!Next
        BY <2>3, OnePartGoes DEF ListsSound
      <3>. QED
        BY <3>1, ListsNext, Constants DEF ListsStep
    <2>4. ASSUME part = "timers" PROVE Timers!InTime
      <3>1. Timers!Next
        BY <2>4, OnePartGoes
      <3>. QED
        BY <3>1, TimersInTime
    <2>. QED
      BY <2>1, <2>2, <2>3, <2>4
  <1>. QED
    BY <1>1, DenialsSoundAlways, P0fSoundAlways, ListsSoundAlways, PTL DEF Spec, NothingForgotten
=============================================================================
