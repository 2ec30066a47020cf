------------------------------ MODULE DnsLists ------------------------------
(***************************************************************************)
(* plugins/dns_list_base.js with its two users, dnsbl and dnswl: every     *)
(* list (zone) is asked about the address of a new connection, all at      *)
(* once, and the connect hook is answered from what comes back.  A list    *)
(* that fails is disabled, for all connections, and a periodic check of    *)
(* all lists disables and enables them too.                                *)
(*                                                                         *)
(* async.each counts the completed zones against the length of the array   *)
(* it was given, read anew each time.  That array is plugin.zones itself,  *)
(* which disable_zone shortens and a reload replaces.                      *)
(***************************************************************************)
EXTENDS Naturals, FiniteSets

CONSTANTS
    Zones,         \* the configured lists
    Lookups,       \* connections whose address is looked up
    Searches,      \* subset of {"first", "all", "white"}: dnsbl or dnswl
    MaxChecks,     \* bound: periodic checks
    MaxReloads     \* bound: reloads of the configuration

VARIABLES
    search,           \* the plugin and its mode
    sick,             \* lists that may answer anything, or nothing
    listed,           \* [Lookups -> SUBSET Zones]: healthy lists naming it
    zones,            \* plugin.zones
    disabled,         \* plugin.disabled_zones
    disable_allowed,  \* a check was started
    lk,               \* the lookups: closures of multi, and the hook's answer
    probe,            \* the check: what each list is being asked
    checks, reloads

vars == <<search, sick, listed, zones, disabled, disable_allowed, lk, probe, checks, reloads>>

None == "none"
NoLookup == [pending |-> {}, shared |-> FALSE, size |-> 0, completed |-> 0,
             hits |-> {}, ran_cb |-> FALSE, answer |-> None, changed |-> FALSE]

Init ==
    /\ search \in Searches
    /\ sick \in SUBSET Zones
    /\ listed \in [Lookups -> SUBSET (Zones \ sick)]
    /\ zones = Zones /\ disabled = {} /\ disable_allowed = FALSE
    /\ lk = [c \in Lookups |-> NoLookup]
    /\ probe = [z \in Zones |-> "idle"]
    /\ checks = 0 /\ reloads = 0

-----------------------------------------------------------------------------
(* What dns.resolve may call back with.  "wrong" is 127.0.0.1, or an       *)
(* address outside 127/8.                                                  *)
Outcomes(z, truth) ==
    IF z \in sick THEN {"a", "unlisted", "wrong", "ETIMEOUT", "error"} ELSE {truth}

Disables(o) == o \in {"wrong", "ETIMEOUT"}

\* disable_zone: the lookups that share the array see it shrink.
disable_zone(z) ==
    IF disable_allowed /\ z \in zones
    THEN /\ zones' = zones \ {z}
         /\ disabled' = disabled \union {z}
    ELSE UNCHANGED <<zones, disabled>>

\* arr.length, after the step.
Length(l, now) == IF l.shared THEN Cardinality(now) ELSE l.size

\* The hook's answer, unless it was given: plugins.js ignores a second one.
Answered(l, ret) == IF l.answer = None THEN [l EXCEPT !.answer = ret] ELSE l

Deny == IF search = "white" THEN "ok" ELSE "deny"

\* The callback of multi: one zone's result, pending is true.
OneResult(l, z, o) ==
    IF o # "a" THEN l
    ELSE LET h == [l EXCEPT !.hits = @ \union {z}] IN
         IF search = "all" \/ l.ran_cb THEN h ELSE [Answered(h, Deny) EXCEPT !.ran_cb = TRUE]

\* zonesDone: pending is false.
zonesDone(l) ==
    IF search = "all" THEN Answered(l, IF l.hits # {} THEN Deny ELSE "cont")
    ELSE IF l.ran_cb THEN l ELSE [Answered(l, "cont") EXCEPT !.ran_cb = TRUE]

\* async.each calls back whenever completed has reached the length.
Completed(l, now) ==
    LET d == [l EXCEPT !.completed = @ + 1] IN
    IF d.completed >= Length(d, now) THEN zonesDone(d) ELSE d

-----------------------------------------------------------------------------
(* connect_first, connect_multi, dnswl's hook_connect: all zones are       *)
(* asked; without zones there is nothing to do.                            *)
hook_connect(c) ==
    /\ lk[c] = NoLookup
    /\ lk' = [lk EXCEPT ![c] =
                IF zones = {} THEN [NoLookup EXCEPT !.answer = "cont"]
                ELSE [NoLookup EXCEPT !.pending = zones, !.shared = TRUE,
                                      !.size = Cardinality(zones)]]
    /\ UNCHANGED <<search, sick, listed, zones, disabled, disable_allowed, probe, checks, reloads>>

\* (A note of the model: its array changed while answers were to come.)
Noted(l) == [l EXCEPT !.changed = @ \/ (l.shared /\ l.pending # {} /\ zones' # zones)]

\* A list's answer about the address of a connection.
answer(c, z) ==
    /\ z \in lk[c].pending
    /\ \E o \in Outcomes(z, IF z \in listed[c] THEN "a" ELSE "unlisted") :
          /\ IF Disables(o) THEN disable_zone(z) ELSE UNCHANGED <<zones, disabled>>
          /\ LET l == [Noted(lk[c]) EXCEPT !.pending = @ \ {z}] IN
             lk' = [[d \in Lookups |-> Noted(lk[d])]
                      EXCEPT ![c] = Completed(OneResult(l, z, o), zones')]
    /\ UNCHANGED <<search, sick, listed, disable_allowed, probe, checks, reloads>>

\* The hook times out in plugins.js.
hook_timeout(c) ==
    /\ lk[c].pending # {} /\ lk[c].answer = None
    /\ lk' = [lk EXCEPT ![c].answer = "denysoft"]
    /\ UNCHANGED <<search, sick, listed, zones, disabled, disable_allowed, probe, checks, reloads>>

-----------------------------------------------------------------------------
(* check_zones: both kinds of zones are asked about 127.0.0.1.  (A zone on *)
(* both lists, asked twice by the code, is asked once here.)               *)
check_zones ==
    /\ checks < MaxChecks
    /\ \A z \in Zones : probe[z] = "idle"
    /\ disable_allowed' = TRUE
    /\ probe' = [z \in Zones |-> IF z \in zones \union disabled THEN "127.0.0.1" ELSE "idle"]
    /\ checks' = checks + 1
    /\ UNCHANGED <<search, sick, listed, zones, disabled, lk, reloads>>

\* 127.0.0.1 must not be listed; then the test point 127.0.0.2 is asked.
\* An answer that is "wrong" disables the zone and counts as not listed.
probed_loopback(z) ==
    /\ probe[z] = "127.0.0.1"
    /\ \E o \in Outcomes(z, "unlisted") :
          /\ probe' = [probe EXCEPT ![z] = IF o \in {"a", "ETIMEOUT"} THEN "idle" ELSE "127.0.0.2"]
          /\ IF Disables(o) \/ o = "a" THEN disable_zone(z) ELSE UNCHANGED <<zones, disabled>>
    /\ lk' = [d \in Lookups |-> Noted(lk[d])]
    /\ UNCHANGED <<search, sick, listed, disable_allowed, checks, reloads>>

\* The test point must be listed.  A zone that works again is pushed back;
\* it stays in disabled_zones.
probed_test_point(z) ==
    /\ probe[z] = "127.0.0.2"
    /\ probe' = [probe EXCEPT ![z] = "idle"]
    /\ \E o \in Outcomes(z, "a") :
          \/ /\ o # "a" /\ disable_zone(z)
          \/ /\ o = "a"
             /\ zones' = zones \union {z}
             /\ UNCHANGED disabled
    /\ lk' = [d \in Lookups |-> Noted(lk[d])]
    /\ UNCHANGED <<search, sick, listed, disable_allowed, checks, reloads>>

\* A file changed: load_config makes a new array of all zones.  (dnswl's
\* callback has no this, and throws: the process ends there.)
load_config ==
    /\ search # "white"
    /\ reloads < MaxReloads
    /\ reloads' = reloads + 1
    /\ zones' = Zones
    /\ lk' = [d \in Lookups |-> [lk[d] EXCEPT !.size = Length(lk[d], zones), !.shared = FALSE]]
    /\ UNCHANGED <<search, sick, listed, disabled, disable_allowed, probe, checks>>

\* A list gets well.  Its answers are true from now on.
recover ==
    /\ sick # {}
    /\ sick' = {}
    /\ UNCHANGED <<search, listed, zones, disabled, disable_allowed, lk, probe, checks, reloads>>

Next ==
    \/ \E c \in Lookups : \/ hook_connect(c) \/ hook_timeout(c)
                          \/ \E z \in Zones : answer(c, z)
    \/ check_zones
    \/ \E z \in Zones : probed_loopback(z) \/ probed_test_point(z)
    \/ load_config \/ recover

Spec == Init /\ [][Next]_vars

-----------------------------------------------------------------------------
(* Properties.                                                             *)

\* The order of the answers does not matter, as long as the array of zones
\* stays as it was: when all have come the hook is answered, and a client
\* that a working list names is not let in.
UnchangedIsDecided ==
    \A c \in Lookups :
        lk[c] # NoLookup /\ ~lk[c].changed =>
            /\ lk[c].pending = {} => lk[c].answer # None
            /\ lk[c].answer = "cont" => listed[c] \intersect (lk[c].hits \union lk[c].pending) = {}

\* dnsbl.md:4-5, "Mails found to be in the blocklist are rejected": a client
\* is not let in while, or after, a list says that it is named.
ListedIsRejected ==
    \A c \in Lookups :
        lk[c].answer = "cont" => listed[c] \intersect (lk[c].hits \union lk[c].pending) = {}

\* A check that ends with no list sick leaves all of them in use.
RestoredByCheck ==
    \A z \in Zones :
        probe[z] = "127.0.0.2" /\ probe'[z] = "idle" /\ z \notin sick => z \in zones'

CheckRestores == [][RestoredByCheck]_vars
=============================================================================
