------------------------------ MODULE DnsChecks ------------------------------
(***************************************************************************)
(* Four plugins that put several DNS queries at once and answer their hook *)
(* from the results: mail_from.is_resolvable, lookup_rdns.strict,          *)
(* connect.fcrdns and data.uribl.  What they share is the closure of a     *)
(* call: the number of outstanding queries, called_next and a timer.       *)
(*                                                                         *)
(* dns is what the name servers hold: an outcome for each query.  Answers  *)
(* come in any order or never.  What a plugin decides can so be compared   *)
(* with what it would decide if it saw all the records at once.            *)
(***************************************************************************)
EXTENDS Naturals, Sequences, FiniteSets

CONSTANTS
    Plugins,     \* the plugins looked at
    NNames,      \* MX hosts, PTR names, or URIs of a group
    NGroups      \* groups of URIs in a message (from, reply-to, msgid, body)

AllPlugins == {"is_resolvable", "rdns_strict", "fcrdns", "uribl"}
Names == 1..NNames

\* Outcomes of the first query, and of the query for a name.  A name may be
\* settled without a query: an MX that is an address ("ip"), a PTR name in
\* the whitelist ("white") or without a valid TLD ("bad_tld").
First(p) ==
    CASE p = "is_resolvable" -> {"error", "none", "found"}
      [] p \in {"rdns_strict", "fcrdns"} -> {"error", "nxdomain", "found"}
      [] p = "uribl" -> {"found"}
ForName(p) ==
    CASE p = "is_resolvable" -> {"ip", "error", "none", "bogus", "good"}
      [] p = "rdns_strict" -> {"white", "error", "other", "match"}
      [] p = "fcrdns" -> {"bad_tld", "error", "other", "match", "generic"}
      [] p = "uribl" -> {"error", "unlisted", "ignored", "listed"}

\* The settings that decide: reject_no_mx or the [reject] section, and
\* allow_mx_ip.
Settings(p) ==
    CASE p = "is_resolvable" -> [reject : SUBSET {"no_mx"}, allow_mx_ip : BOOLEAN]
      [] p = "fcrdns" ->
            [reject : SUBSET {"no_rdns", "no_fcrdns", "invalid_tld", "generic_rdns"},
             allow_mx_ip : {FALSE}]
      [] p \in {"rdns_strict", "uribl"} -> [reject : {{}}, allow_mx_ip : {FALSE}]

VARIABLES
    plugin,
    dns,      \* [first, implicit, names]: what the name servers hold
    ini,      \* the settings in the file
    cfg,      \* plugin.cfg, shared by all connections
    call      \* the closure of the hook call (under: a note of the model,
              \* the settings that were in force before its answer)

vars == <<plugin, dns, ini, cfg, call>>

None == "none"
NewCall == [started |-> FALSE, group |-> 1, asked |-> "nothing", pending |-> {}, seen |-> {},
            timer |-> FALSE, called |-> FALSE, answer |-> None, timed_out |-> FALSE,
            under |-> {}]

\* Only MX hosts have an implicit record; a message has groups of URIs.
Groups(p) == IF p = "uribl" THEN 1..NGroups ELSE {1}

Init ==
    /\ plugin \in Plugins
    /\ dns \in [first : First(plugin),
                implicit : IF plugin = "is_resolvable" THEN {"error", "none", "bogus", "good"} ELSE {"none"},
                names : [Groups(plugin) -> [Names -> ForName(plugin)]]]
    /\ ini \in Settings(plugin)
    /\ cfg = ini
    /\ call = NewCall

Rejects(flag) == flag \in cfg.reject
Name(c, n) == dns.names[c.group][n]

-----------------------------------------------------------------------------
(* next, called through do_next, mxDone, do_reject: once per call.         *)
Next_(c, ret) ==
    IF c.called THEN c
    ELSE [c EXCEPT !.called = TRUE, !.timer = FALSE,
                   !.answer = IF @ = None THEN ret ELSE @]

DenyIf(flag) == IF Rejects(flag) THEN "deny" ELSE "denysoft"

-----------------------------------------------------------------------------
(* mail_from.is_resolvable: check_results, mxErr, implicit_mx.             *)
Usable(c, n) ==
    \/ Name(c, n) = "good" /\ n \in c.seen
    \/ Name(c, n) = "ip" /\ cfg.allow_mx_ip

\* (..._Name: the form of a mutant that PROJECT.json names.)
check_results_First(c) ==
    Next_(c, IF \E n \in Names : Usable(c, n) THEN "cont" ELSE DenyIf("no_mx"))

check_results(c) ==
    IF c.pending # {} THEN c
    ELSE Next_(c, IF \E n \in Names : Usable(c, n) THEN "cont" ELSE DenyIf("no_mx"))

resolveMx(c) ==
    CASE dns.first = "error" -> Next_(c, "denysoft")
      [] dns.first = "none"  -> [c EXCEPT !.asked = IF c.answer = None THEN "implicit" ELSE "late"]
      [] dns.first = "found" ->
            check_results([c EXCEPT !.asked = "names",
                                    !.pending = {n \in Names : Name(c, n) # "ip"}])

\* An A record that is bogus is a failed check, but not an answer.
\* (late: asked for after MAIL had been answered, for its transaction or the
\* next one.)
implicit_mx(c) ==
    Next_(c, CASE dns.implicit = "error" -> "denysoft"
               [] dns.implicit = "none"  -> DenyIf("no_mx")
               [] dns.implicit \in {"bogus", "good"} -> "cont")

-----------------------------------------------------------------------------
(* lookup_rdns.strict.  A name of the whitelist answers, whatever          *)
(* called_next says; plugins.js ignores a second answer.                   *)
rdns_reverse(c) ==
    CASE dns.first \in {"error", "nxdomain"} -> Next_(c, "denydisconnect")
      [] OTHER ->
            IF \E n \in Names : Name(c, n) = "white"
            THEN [c EXCEPT !.called = TRUE, !.timer = FALSE,
                           !.answer = IF @ = None THEN "ok" ELSE @]
            ELSE [c EXCEPT !.asked = "names", !.pending = Names]

rdns_forward(c, n) ==
    IF Name(c, n) = "match" THEN Next_(c, "ok")
    ELSE IF c.pending = {} THEN Next_(c, "denydisconnect")
    ELSE c

-----------------------------------------------------------------------------
(* connect.fcrdns: check_fcrdns sees the results of all names.             *)
check_fcrdns(c) ==
    IF Rejects("generic_rdns") /\ \E n \in c.seen : Name(c, n) = "generic" THEN Next_(c, "deny")
    ELSE IF Rejects("no_fcrdns") /\ ~\E n \in c.seen : Name(c, n) = "match" THEN Next_(c, "deny")
    ELSE Next_(c, "cont")

\* A bad TLD is rejected in the middle of the loop: names before it are
\* asked for all the same, names after it are not.
fcrdns_reverse(c) ==
    LET bad == {n \in Names : Name(c, n) = "bad_tld"} IN
    CASE dns.first = "nxdomain" -> Next_(c, IF Rejects("no_rdns") THEN "deny" ELSE "cont")
      [] dns.first = "error" -> Next_(c, IF Rejects("no_rdns") THEN "denysoft" ELSE "cont")
      [] dns.first = "found" /\ Rejects("invalid_tld") /\ bad # {} ->
            LET stop == CHOOSE n \in bad : \A m \in bad : n <= m IN
            Next_([c EXCEPT !.asked = "names", !.pending = 1..(stop - 1)], "deny")
      [] OTHER ->
            IF bad = Names THEN Next_(c, "cont")
            ELSE [c EXCEPT !.asked = "names", !.pending = Names \ bad]

fcrdns_forward(c) == IF c.pending = {} THEN check_fcrdns(c) ELSE c

\* refresh_config: for a whitelisted connection the tests are switched off,
\* in the settings that all connections share.
SwitchedOff == [cfg EXCEPT !.reject = @ \ {"no_rdns", "invalid_tld", "generic_rdns"}]

Under(c, s) == IF c.answer = None THEN [c EXCEPT !.under = @ \union {s}] ELSE c

-----------------------------------------------------------------------------
(* data.uribl: do_lookups for one group after the other.                   *)
do_lookups(c) == [c EXCEPT !.asked = "names", !.pending = Names, !.seen = {},
                           !.timer = TRUE, !.called = FALSE]

\* chain_caller: without an answer the next group is looked up.
chain_caller(c) ==
    IF c.group = NGroups THEN Next_(c, "cont")
    ELSE do_lookups([c EXCEPT !.group = @ + 1])

uribl_answer(c, n) ==
    IF Name(c, n) = "listed" THEN Next_(c, "deny")
    ELSE IF c.pending = {} /\ ~c.called THEN chain_caller(c)
    ELSE c

-----------------------------------------------------------------------------
(* The hook is run, for a connection that rdns_access may have whitelisted. *)
hook ==
    /\ ~call.started
    /\ \E s \in IF plugin = "fcrdns" THEN {cfg, SwitchedOff} ELSE {cfg} :
          LET c == [NewCall EXCEPT !.started = TRUE, !.timer = TRUE, !.asked = "first",
                                   !.under = {s}] IN
          /\ cfg' = s
          /\ call' = IF plugin = "uribl" THEN do_lookups(c) ELSE c
    /\ UNCHANGED <<plugin, dns, ini>>

\* Meanwhile the hook is run for another connection, a whitelisted one.
refresh_config ==
    /\ plugin = "fcrdns"
    /\ cfg' = SwitchedOff
    /\ call' = Under(call, SwitchedOff)
    /\ UNCHANGED <<plugin, dns, ini>>

\* The answer to the first query.
first ==
    /\ call.asked \in {"first", "implicit", "late"}
    /\ LET c == [call EXCEPT !.asked = "nothing"] IN
       call' = CASE call.asked \in {"implicit", "late"} -> implicit_mx(c)
                 [] call.asked = "first" /\ plugin = "is_resolvable" -> resolveMx(c)
                 [] call.asked = "first" /\ plugin = "rdns_strict" -> rdns_reverse(c)
                 [] call.asked = "first" /\ plugin = "fcrdns" -> fcrdns_reverse(c)
    /\ UNCHANGED <<plugin, dns, ini, cfg>>

\* There was no transaction when implicit_mx asked: it has nowhere to put a
\* result, throws, and the process exits.
no_transaction ==
    /\ call.asked = "late" /\ dns.implicit # "error"
    /\ call' = [call EXCEPT !.asked = "thrown", !.timer = FALSE]
    /\ UNCHANGED <<plugin, dns, ini, cfg>>

\* The answer to the query for a name.
forward(n) ==
    /\ call.asked = "names" /\ n \in call.pending
    /\ LET c == [call EXCEPT !.pending = @ \ {n}, !.seen = @ \union {n}] IN
       call' = CASE plugin = "is_resolvable" -> check_results(c)
                 [] plugin = "rdns_strict" -> rdns_forward(c, n)
                 [] plugin = "fcrdns" -> fcrdns_forward(c)
                 [] plugin = "uribl" -> uribl_answer(c, n)
    /\ UNCHANGED <<plugin, dns, ini, cfg>>

\* The plugin's own timer.  data.uribl goes on with the next group.
TimerReply(s) ==
    CASE plugin = "is_resolvable" -> "denysoft"
      [] plugin = "rdns_strict" -> "denydisconnect"
      [] plugin = "fcrdns" -> IF "no_rdns" \in s.reject THEN "denysoft" ELSE "cont"
      [] plugin = "uribl" -> "cont"

timeout ==
    /\ call.timer
    /\ LET c == [call EXCEPT !.timer = FALSE, !.timed_out = TRUE] IN
       call' = IF plugin = "uribl" THEN chain_caller(c) ELSE Next_(c, TimerReply(cfg))
    /\ UNCHANGED <<plugin, dns, ini, cfg>>

\* The hook times out in plugins.js.  The queries and the timer go on.
hook_timeout ==
    /\ call.started /\ call.answer = None
    /\ call' = [call EXCEPT !.answer = "denysoft", !.timed_out = TRUE]
    /\ UNCHANGED <<plugin, dns, ini, cfg>>

\* The file is read again.
load_ini ==
    /\ cfg # ini
    /\ cfg' = ini
    /\ call' = Under(call, ini)
    /\ UNCHANGED <<plugin, dns, ini>>

Next ==
    \/ hook \/ refresh_config \/ first \/ no_transaction \/ (\E n \in Names : forward(n))
    \/ timeout \/ hook_timeout \/ load_ini

Spec == Init /\ [][Next]_vars

FairSpec == Spec /\ WF_vars(timeout)

-----------------------------------------------------------------------------
(* Properties.                                                             *)

\* The verdict on all the records at once, under the settings s.
AllNames == UNION {{<<g, n>> : n \in Names} : g \in Groups(plugin)}
SomeName(o) == \E x \in AllNames : dns.names[x[1]][x[2]] = o

Verdict(s) ==
    LET no == IF "no_mx" \in s.reject THEN "deny" ELSE "denysoft" IN
    CASE plugin = "is_resolvable" ->
            (CASE dns.first = "error" -> "denysoft"
               [] dns.first = "found" ->
                     IF SomeName("good") \/ (s.allow_mx_ip /\ SomeName("ip")) THEN "cont" ELSE no
               [] dns.first = "none" /\ dns.implicit = "error" -> "denysoft"
               [] dns.first = "none" /\ dns.implicit = "none" -> no
               [] OTHER -> "cont")
      [] plugin = "rdns_strict" ->
            IF dns.first = "found" /\ (SomeName("white") \/ SomeName("match")) THEN "ok"
            ELSE "denydisconnect"
      [] plugin = "fcrdns" ->
            (CASE dns.first = "nxdomain" -> IF "no_rdns" \in s.reject THEN "deny" ELSE "cont"
               [] dns.first = "error" -> IF "no_rdns" \in s.reject THEN "denysoft" ELSE "cont"
               [] OTHER ->
                    IF \/ "invalid_tld" \in s.reject /\ SomeName("bad_tld")
                       \/ "generic_rdns" \in s.reject /\ SomeName("generic")
                       \/ /\ "no_fcrdns" \in s.reject /\ ~SomeName("match")
                          /\ \E x \in AllNames : dns.names[x[1]][x[2]] # "bad_tld"
                    THEN "deny" ELSE "cont")
      [] plugin = "uribl" -> IF SomeName("listed") THEN "deny" ELSE "cont"

\* A verdict that no timeout forced is the verdict on all the records,
\* in whatever order and however few of them had arrived; one that a timeout
\* forced is that or the timer's reply.
OrderDoesNotMatter ==
    call.answer # None =>
        \/ \E s \in call.under : call.answer = Verdict(s)
        \/ /\ call.timed_out
           /\ \/ call.answer = "denysoft"
              \/ \E s \in call.under : call.answer = TimerReply(s)

\* mail_from.is_resolvable.md:29, "DNS errors always return DENYSOFT".
DnsErrorsAreTemporary ==
    plugin = "is_resolvable" /\ call.answer = "deny" =>
        ~\E n \in call.seen : Name(call, n) = "error"

\* The plugin's own timer answers, if nothing else does.
Called == call.started
Answered == call.answer # None

Finishes == Called ~> Answered
=============================================================================
