--------------------------------- MODULE Spf ---------------------------------
(***************************************************************************)
(* The SPF check of spf.js and the hooks of plugins/spf.js.                *)
(*                                                                         *)
(* A check is a chain of callbacks: each mechanism of a record is run by   *)
(* the callback of the one before it, includes and redirects start the     *)
(* chain of another record, and a mechanism that asks the DNS calls back   *)
(* later.  What the DNS answers is fixed with the records, so that a check *)
(* can be compared with a definition of what SPF says (Judged).            *)
(***************************************************************************)
EXTENDS Integers, Sequences

CONSTANTS
    Domains,     \* names; Start is the one of the sender
    Start,
    Zones,       \* set of [Domains -> record], what their TXT records say
    LIMIT,       \* lookups a check may make (10)
    Enabled      \* options of spf.ini that are set: "mail_fail", "helo_fail", ...

(* A mechanism: q is its qualifier's result, to the domain of an include,  *)
(* and out what is found: per host of mx and ptr, or the one result of     *)
(* all, ip4, a and exists.  exists is an "a" here, and so is an mx or a    *)
(* ptr that its first lookup decides: no hosts, an error, or too many.     *)
Mechanism ==
    {m \in [kind : {"all", "ip", "a", "mx", "ptr", "include"},
            q : {"pass", "fail", "softfail", "neutral"},
            to : Domains, out : Seq({"match", "no", "error", "many"})] :
        /\ m.kind \in {"all", "ip", "a"} => Len(m.out) = 1
        /\ m.kind \in {"all", "ip"} => m.out[1] \notin {"error", "many"}
        /\ m.kind \in {"mx", "ptr"} => m.out # <<>> /\ \A i \in DOMAIN m.out : m.out[i] # "many"}

(* A record, no record, an error of the DNS, or a syntax error or two      *)
(* records.                                                                *)
Record ==
    [text : {"spf", "none", "error", "bad"}, mechs : Seq(Mechanism),
     redirect : Domains \union {"none"}]

VARIABLES
    zone, scope,
    been_there,  \* domains included or redirected to, shared by all records
    count,       \* per SPF object
    chain,       \* chains started: [obj, mechs, redirect, up, via]
    call,        \* the callback that is running: [to, res, by]
    asks,        \* the lookups that are out
    said,        \* the results the hook's callback was given
    answer,      \* what the hook answered
    texts        \* records fetched

vars == <<zone, scope, been_there, count, chain, call, asks, said, answer, texts>>

Idle == [to |-> 0, res |-> "none", by |-> "none"]

\* The TXT lookup of a domain, as the one other mechanism that asks.
Txt(d) == [kind |-> "txt", q |-> "none", to |-> d, out |-> <<>>]

\* A lookup of chain c, with n mechanisms after it; of several hosts, those left.
Ask(c, n, m, left, found) == [c |-> c, n |-> n, mech |-> m, left |-> left, found |-> found]

\* A chain of an SPF object, before its record has come: up is what its
\* result goes to.
Chain(obj, up, via) == [obj |-> obj, mechs |-> <<>>, redirect |-> "none", up |-> up, via |-> via]

Init ==
    /\ zone \in Zones
    /\ scope \in {"helo", "mail"}
    /\ been_there = {}
    /\ count = <<0>>
    /\ chain = <<Chain(1, 0, "hook")>>
    /\ call = Idle
    /\ asks = {Ask(1, 0, Txt(Start), {}, FALSE)}
    /\ said = <<>> /\ answer = "none"
    /\ texts = [d \in Domains |-> IF d = Start THEN 1 ELSE 0]

-----------------------------------------------------------------------------
Back(c, r) == call' = [to |-> c, res |-> r, by |-> "mech"]

\* cb of check_host: the result of chain c goes to what started it.
Result(c, r) == call' = [to |-> c, res |-> r, by |-> "result"]

\* check_host asks for the TXT record of a domain, for a new chain.
check_host(chains, obj, d, up, via) ==
    /\ chain' = Append(chains, Chain(obj, up, via))
    /\ asks' = asks \union {Ask(Len(chains) + 1, 0, Txt(d), {}, FALSE)}
    /\ texts' = [texts EXCEPT ![d] = @ + 1]
    /\ been_there' = been_there \union {d}
    /\ call' = Idle

(* The answer to check_host's TXT lookup: the record's mechanisms and its  *)
(* modifier are chained, and the first one runs.                           *)
txt(a) ==
    LET r == zone[a.mech.to] IN
    /\ a.mech.kind = "txt"
    /\ asks' = asks \ {a}
    /\ IF r.text = "spf"
       THEN /\ chain' = [chain EXCEPT ![a.c].mechs = r.mechs, ![a.c].redirect = r.redirect]
            /\ Back(a.c, "none")
       ELSE /\ Result(a.c, CASE r.text = "none" -> "none"
                             [] r.text = "error" -> "temperror"
                             [] r.text = "bad" -> "permerror")
            /\ UNCHANGED chain
    /\ UNCHANGED <<zone, scope, been_there, count, said, answer, texts>>

\* The result of a mechanism that one lookup decides.
Found(out, q) ==
    CASE out = "match" -> q [] out = "no" -> "none"
      [] out = "error" -> "temperror" [] out = "many" -> "permerror"

lookup(a) ==
    /\ a.mech.kind = "a"
    /\ asks' = asks \ {a}
    /\ Back(a.c, Found(a.mech.out[1], a.mech.q))
    /\ UNCHANGED <<zone, scope, been_there, count, chain, said, answer, texts>>

(* One of the lookups of mx and ptr.  mx calls back for an error at once,  *)
(* and goes on with those left; ptr skips errors.                          *)
host(a, i) ==
    LET found == a.found \/ a.mech.out[i] = "match"
        left  == a.left \ {i}
        bad   == a.mech.kind = "mx" /\ a.mech.out[i] = "error" IN
    /\ a.mech.kind \in {"mx", "ptr"} /\ i \in a.left
    /\ asks' = (asks \ {a}) \union (IF left = {} THEN {} ELSE {[a EXCEPT !.left = left, !.found = found]})
    /\ CASE bad -> Back(a.c, "temperror")
         [] ~bad /\ left = {} -> Back(a.c, IF found THEN a.mech.q ELSE "none")
         [] OTHER -> call' = Idle
    /\ UNCHANGED <<zone, scope, been_there, count, chain, said, answer, texts>>

answered == \E a \in asks :
    /\ call = Idle
    /\ \/ txt(a) \/ lookup(a)
       \/ \E i \in a.left : host(a, i)

-----------------------------------------------------------------------------
(* A mechanism runs.                                                       *)

\* The SPF object of an include starts from the count so far; what it
\* counts itself is not added to its includer's.
mech_include(c, m) ==
    IF m.to \in been_there
    THEN /\ Back(c, "none")
         /\ chain' = [chain EXCEPT ![c].mechs = Tail(@)]
         /\ UNCHANGED <<been_there, count, asks, texts>>
    ELSE /\ count' = [Append(count, count[chain[c].obj] + 1) EXCEPT ![chain[c].obj] = @ + 1]
         /\ check_host([chain EXCEPT ![c].mechs = Tail(@)], Len(count) + 1, m.to, c, "include")

\* all, ip4 and ip6 call back at once; the others ask the DNS.
mech(c, m) ==
    /\ chain' = [chain EXCEPT ![c].mechs = Tail(@)]
    /\ CASE m.kind \in {"all", "ip"} ->
              Back(c, Found(m.out[1], m.q)) /\ UNCHANGED <<count, asks>>
         [] OTHER ->
              /\ count' = [count EXCEPT ![chain[c].obj] = @ + 1]
              /\ asks' = asks \union {Ask(c, Len(chain[c].mechs), m, DOMAIN m.out, FALSE)}
              /\ call' = Idle
    /\ UNCHANGED <<been_there, texts>>

\* The redirect runs in the SPF object it is found in.
mod_redirect(c) ==
    LET d == chain[c].redirect IN
    IF d \in been_there
    THEN /\ call' = [to |-> c, res |-> "none", by |-> "mod"]
         /\ chain' = [chain EXCEPT ![c].redirect = "none"]
         /\ UNCHANGED <<been_there, count, asks, texts>>
    ELSE /\ count' = [count EXCEPT ![chain[c].obj] = @ + 1]
         /\ check_host([chain EXCEPT ![c].redirect = "none"], chain[c].obj, d, c, "redirect")

(* mech_chain_caller and mod_chain_caller: the limit, a result, the next   *)
(* of the chain, or Neutral.                                               *)
chain_caller ==
    LET c == call.to
        k == chain[c]
        keep == UNCHANGED <<been_there, count, chain, asks, texts>> IN
    /\ call.by \in {"mech", "mod"}
    /\ CASE count[k.obj] > LIMIT -> Result(c, "permerror") /\ keep
         [] count[k.obj] <= LIMIT /\ call.res # "none" -> Result(c, call.res) /\ keep
         [] OTHER ->
              IF call.by = "mech" /\ k.mechs # <<>>
              THEN LET m == Head(k.mechs) IN
                   IF m.kind = "include" THEN mech_include(c, m) ELSE mech(c, m)
              ELSE IF k.redirect # "none" THEN mod_redirect(c) ELSE Result(c, "neutral") /\ keep
    /\ UNCHANGED <<zone, scope, said, answer>>

-----------------------------------------------------------------------------
(* The result of a chain goes to its includer, to the chain it redirected, *)
(* or to the hook.                                                         *)
Included(r) ==
    CASE r = "pass" -> "pass"
      [] r \in {"fail", "softfail", "neutral"} -> "none"
      [] r = "temperror" -> "temperror"
      [] OTHER -> "permerror"

\* return_results: the option's name starts with the scope.
return_results(r) ==
    IF r \in {"fail", "softfail", "permerror", "temperror"} /\ <<scope, r>> \in Enabled
    THEN IF r = "temperror" THEN "denysoft" ELSE "deny"
    ELSE "cont"

chain_result ==
    LET k == chain[call.to] IN
    /\ call.by = "result"
    /\ CASE k.via = "include" -> Back(k.up, Included(call.res)) /\ UNCHANGED <<said, answer>>
         [] k.via = "redirect" -> call' = [to |-> k.up, res |-> call.res, by |-> "mod"] /\ UNCHANGED <<said, answer>>
         [] k.via = "hook" ->
              /\ call' = Idle
              /\ said' = IF answer = "timeout" THEN said ELSE Append(said, call.res)
              /\ answer' = IF answer = "none" /\ scope = "mail" THEN return_results(call.res)
                           ELSE IF answer = "none" THEN "cont" ELSE answer
    /\ UNCHANGED <<zone, scope, been_there, count, chain, asks, texts>>

\* The hook's own timer.
timer ==
    /\ call = Idle /\ answer = "none"
    /\ answer' = "timeout"
    /\ UNCHANGED <<zone, scope, been_there, count, chain, call, asks, said, texts>>

(* MAIL FROM:<>: the result of HELO's check is the answer, if there is one *)
hook_mail ==
    /\ call = Idle /\ scope = "helo" /\ answer \in {"cont", "timeout"}
    /\ answer' = IF said = <<>> THEN "cont" ELSE return_results(said[Len(said)])
    /\ scope' = "null"
    /\ UNCHANGED <<zone, been_there, count, chain, call, asks, said, texts>>

Next == answered \/ chain_caller \/ chain_result \/ timer \/ hook_mail

Spec == Init /\ [][Next]_vars

(* The resolver answers or fails, and callbacks run to their end.          *)
FairSpec == Spec /\ WF_vars(answered \/ chain_caller \/ chain_result)

-----------------------------------------------------------------------------
(* What SPF says of a record: the first mechanism that matches decides.    *)
(* A host's address counts whatever order the hosts' answers come in.      *)

\* What mechanism m comes to, when judged says it of the records referred to.
Says(m, judged) ==
    IF m.kind = "include"
    THEN LET j == judged[m.to] IN
         CASE j = "pass" -> m.q
           [] j \in {"none", "permerror"} -> "permerror"
           [] j = "temperror" -> j
           [] OTHER -> "none"
    ELSE IF "match" \in {m.out[i] : i \in DOMAIN m.out} THEN m.q
    ELSE IF m.kind = "a" /\ m.out[1] = "error" THEN "temperror"
    ELSE IF m.kind = "a" /\ m.out[1] = "many" THEN "permerror"
    ELSE "none"

Judged(r, judged) ==
    LET Deciding == {i \in DOMAIN r.mechs : Says(r.mechs[i], judged) # "none"}
    IN  CASE r.text = "none" -> "none"
          [] r.text = "error" -> "temperror"
          [] r.text = "bad" -> "permerror"
          [] r.text = "spf" /\ Deciding # {} ->
                Says(r.mechs[CHOOSE i \in Deciding : \A j \in Deciding : i <= j], judged)
          [] OTHER ->
                IF r.redirect = "none" \/ judged[r.redirect] = "none" THEN "neutral"
                ELSE judged[r.redirect]

\* The sender's record: those it refers to refer to no other (NoCircle).
Unjudged == [d \in Domains |-> "none"]
Judge == Judged(zone[Start], [d \in Domains |-> Judged(zone[d], Unjudged)])

Mechs(d) == {zone[d].mechs[i] : i \in DOMAIN zone[d].mechs}
MxError == \E d \in Domains : \E m \in Mechs(d) : m.kind = "mx" /\ "error" \in {m.out[i] : i \in DOMAIN m.out}

\* Records that refer to no record that refers on.  (include as such, with
\* no qualifier.)
Refers(d) == {m.to : m \in {n \in Mechs(d) : n.kind = "include"}} \union ({zone[d].redirect} \ {"none"})
NoCircle ==
    /\ Start \notin Refers(Start)
    /\ \A d \in Domains \ {Start} : Refers(d) = {}
    /\ \A d \in Domains : \A m \in Mechs(d) : m.kind = "include" => m.q = "pass"

\* A record is included twice, or included and redirected to.
Repeats ==
    \E i, j \in DOMAIN zone[Start].mechs :
        /\ zone[Start].mechs[i].kind = "include"
        /\ \/ zone[Start].mechs[i].to = zone[Start].redirect
           \/ i # j /\ zone[Start].mechs[j].kind = "include" /\ zone[Start].mechs[i].to = zone[Start].mechs[j].to

WithinLimit == \A o \in DOMAIN count : count[o] <= LIMIT

(* spf.js chains every record's mechanisms, includes and redirects into    *)
(* the result SPF gives the record, in whatever order the DNS answers.     *)
JudgedRight ==
    said # <<>> /\ NoCircle /\ ~Repeats /\ ~MxError /\ WithinLimit => said[1] = Judge

(* spf.js:341 and 659: been_there is there to avoid circular references.   *)
(* A record referred to twice, without a circle, is taken for one.         *)
OnlyCirclesAreCut == said # <<>> /\ NoCircle /\ ~MxError /\ WithinLimit => said[1] = Judge

(* The hook is told once, unless the address of an MX host could not be    *)
(* looked up: mech_mx calls back for it and goes on.                       *)
ToldOnce == Len(said) > 1 => MxError

(* been_there: whatever records refer to each other, each is fetched once, *)
(* and the sender's once more.                                             *)
FetchedOnce == \A d \in Domains : texts[d] <= IF d = Start THEN 2 ELSE 1

(* A sender is refused for a result its check had, with the option set.    *)
RefusedForResult ==
    answer \in {"deny", "denysoft"} =>
        \E i \in DOMAIN said : \E o \in Enabled : o[2] = said[i]

(* Every chain of callbacks ends, also one of records that refer to each   *)
(* other.                                                                  *)
Over == asks = {} /\ call = Idle

Finishes == <>[]Over

=============================================================================
