---------------------------- MODULE Verdicts_proofs ----------------------------
(***************************************************************************)
(* The invariants of the parts that judge a client, a sender or a message, *)
(* for any values of their constants that the assumption named after each  *)
(* part allows.  Parts_proofs puts them together with the others.          *)
(***************************************************************************)
EXTENDS Parts, FiniteSetTheorems, SequenceTheorems, WellFoundedInduction, TLAPS

----------------------------------------------------------------------------
(***************************************************************************)
(* DNS checks (v1 plugin, v2 dns, v3 ini, v4 cfg, v5 call).                *)
(***************************************************************************)

Flags == {"no_mx", "no_rdns", "no_fcrdns", "invalid_tld", "generic_rdns"}
Setting == [reject : SUBSET Flags, allow_mx_ip : BOOLEAN]
Replies == {"none", "denysoft", "deny", "cont", "ok", "denydisconnect"}
CheckSet ==
    [started : BOOLEAN, group : Nat, asked : {"nothing", "first", "implicit", "late", "thrown", "names"},
     pending : SUBSET Int, seen : SUBSET Int, timer : BOOLEAN, called : BOOLEAN,
     answer : Replies, timed_out : BOOLEAN, under : SUBSET Setting]

ChecksTypes ==
    /\ v1 \in Checks!AllPlugins /\ v2.first \in Checks!First(v1)
    /\ v1 = "is_resolvable" => v2.implicit \in {"error", "none", "bogus", "good"}
    /\ v3 \in Setting /\ v4 \in Setting /\ v5 \in CheckSet
    /\ v5.group \in Checks!Groups(v1)

(* The settings in force are those of the file, or those of a whitelisted  *)
(* connection.                                                             *)
Off == [v3 EXCEPT !.reject = @ \ {"no_rdns", "invalid_tld", "generic_rdns"}]
InForce == v4 = v3 \/ (v1 = "fcrdns" /\ v4 = Off)

(* What is asked when.                                                     *)
Asked ==
    /\ ~v5.started => v5.answer = "none" /\ v5.asked = "nothing" /\ ~v5.timer
    /\ v5.called => v5.answer # "none"
    /\ v5.started /\ v5.answer = "none" => v4 \in v5.under
    /\ v5.asked = "first" => v1 # "uribl"
    /\ v5.asked \in {"implicit", "late"} => v1 = "is_resolvable" /\ v2.first = "none"
    /\ v5.asked = "names" => v2.first = "found" /\ v5.started
    /\ v5.asked # "names" => v5.seen = {}

(* What is known of the names while the hook is not answered.              *)
KnownOf(c) ==
    c.answer = "none" /\ c.asked = "names" =>
        /\ v1 = "is_resolvable" =>
                c.pending \cup c.seen = {n \in Checks!Names : v2.names[1][n] # "ip"}
        /\ v1 = "rdns_strict" =>
                /\ c.pending \cup c.seen = Checks!Names
                /\ \A n \in Checks!Names : v2.names[1][n] # "white"
                /\ \A n \in c.seen : v2.names[1][n] # "match"
        /\ v1 = "fcrdns" =>
                /\ c.pending \cup c.seen = {n \in Checks!Names : v2.names[1][n] # "bad_tld"}
                /\ c.pending \cup c.seen # {}
                /\ c.pending \cup c.seen # Checks!Names =>
                      "invalid_tld" \notin v3.reject \/ Off \in c.under
        /\ v1 = "uribl" /\ ~c.timed_out =>
                /\ c.pending \cup c.seen = Checks!Names
                /\ \A n \in c.seen : v2.names[c.group][n] # "listed"
                /\ \A g \in 1..(c.group - 1) : \A n \in Checks!Names : v2.names[g][n] # "listed"
Known == KnownOf(v5)

ChecksInv == ChecksTypes /\ InForce /\ Asked /\ Known /\ Checks!OrderDoesNotMatter

----------------------------------------------------------------------------
(* What it takes that an answer follows from the records.                  *)
Follows(c, ret) ==
    \/ \E s \in c.under : ret = Checks!Verdict(s)
    \/ /\ c.timed_out
       /\ \/ ret = "denysoft"
          \/ \E s \in c.under : ret = Checks!TimerReply(s)

Placed(c) ==
    /\ c.started /\ c.group \in Checks!Groups(v1)
    /\ c.asked = "first" => v1 # "uribl"
    /\ c.asked \in {"implicit", "late"} => v1 = "is_resolvable" /\ v2.first = "none"
    /\ c.asked = "names" => v2.first = "found"
    /\ c.asked # "names" => c.seen = {}
    /\ c.called => c.answer # "none"

(* The closure of a call as it is when a reply comes in.                   *)
Same(c) ==
    /\ c.answer = v5.answer /\ c.under = v5.under
    /\ v5.timed_out => c.timed_out
    /\ c.answer = "none" => v4 \in c.under

Told(c, ret, u) ==
    /\ u \in CheckSet
    /\ u.answer = (IF c.answer = "none" THEN ret ELSE c.answer)
    /\ u.started = c.started /\ u.group = c.group /\ u.asked = c.asked
    /\ u.timed_out = c.timed_out /\ u.under = c.under /\ u.seen = c.seen

LEMMA NextTells ==
    ASSUME NEW c \in CheckSet, Placed(c), NEW ret \in Replies \ {"none"}
    PROVE  \E u : u = Checks!Next_(c, ret) /\ Told(c, ret, u)
  <1>1. CASE c.called
    BY <1>1 DEF Checks!Next_, Told, Placed
  <1>2. CASE ~c.called
    <2>. PICK yes \in BOOLEAN, no \in BOOLEAN : yes = TRUE /\ no = FALSE
      OBVIOUS
    <2>. PICK a \in Replies : a = IF c.answer = "none" THEN ret ELSE c.answer
      BY DEF CheckSet
    <2>. PICK u : u = [c EXCEPT !.called = yes, !.timer = no, !.answer = a]
      OBVIOUS
    <2>1. Told(c, ret, u)
      BY DEF CheckSet, Told
    <2>2. u = Checks!Next_(c, ret)
      BY <1>2 DEF Checks!Next_, Checks!None, CheckSet
    <2>. QED
      BY <2>1, <2>2
  <1>. QED
    BY <1>1, <1>2

LEMMA NoAnswerIs == Checks!None = "none"
  BY DEF Checks!None

LEMMA VerdictStays ==
    ASSUME UNCHANGED <<v1, v2>>, NEW s
    PROVE  /\ Checks!Verdict(s)' = Checks!Verdict(s)
           /\ Checks!TimerReply(s)' = Checks!TimerReply(s)
  BY DEF Checks!Verdict, Checks!TimerReply, Checks!SomeName, Checks!AllNames, Checks!Groups

LEMMA FollowsIs ==
    Checks!OrderDoesNotMatter <=> (v5.answer # "none" => Follows(v5, v5.answer))
  BY NoAnswerIs DEF Checks!OrderDoesNotMatter, Follows

LEMMA FollowsStill ==
    ASSUME UNCHANGED <<v1, v2>>, NEW u, v5' = u,
           u.answer # "none" => Follows(u, u.answer)
    PROVE  Checks!OrderDoesNotMatter'
  <1>1. CASE u.answer = "none"
    BY <1>1 DEF Checks!OrderDoesNotMatter, Checks!None
  <1>2. CASE \E s \in u.under : u.answer = Checks!Verdict(s)
    <2>. PICK s \in u.under : u.answer = Checks!Verdict(s)
      BY <1>2
    <2>1. v5'.answer = Checks!Verdict(s)'
      BY VerdictStays
    <2>. QED
      BY <2>1 DEF Checks!OrderDoesNotMatter
  <1>3. CASE u.timed_out /\ u.answer = "denysoft"
    BY <1>3 DEF Checks!OrderDoesNotMatter
  <1>4. CASE u.timed_out /\ \E s \in u.under : u.answer = Checks!TimerReply(s)
    <2>. PICK s \in u.under : u.answer = Checks!TimerReply(s)
      BY <1>4
    <2>1. v5'.answer = Checks!TimerReply(s)'
      BY VerdictStays
    <2>. QED
      BY <1>4, <2>1 DEF Checks!OrderDoesNotMatter
  <1>. QED
    BY <1>1, <1>2, <1>3, <1>4 DEF Follows

LEMMA KnownStays ==
    ASSUME UNCHANGED <<v1, v2, v3>>, NEW u, v5' = u, KnownOf(u)
    PROVE  Known'
  BY DEF Known, KnownOf, Checks!Names, Off

LEMMA TypesStay ==
    ASSUME ChecksInv, UNCHANGED <<v1, v2, v3>>, NEW u \in CheckSet, v5' = u,
           u.group \in Checks!Groups(v1), v4' = v4 \/ v4' = v3 \/ (v1 = "fcrdns" /\ v4' = Off)
    PROVE  ChecksTypes' /\ InForce'
  <1>1. Off \in Setting
    BY DEF ChecksInv, ChecksTypes, Off, Setting
  <1>2. InForce'
    BY DEF ChecksInv, InForce, Off
  <1>3. v4' \in Setting
    BY <1>1 DEF ChecksInv, ChecksTypes
  <1>4. Checks!First(v1)' = Checks!First(v1) /\ Checks!Groups(v1)' = Checks!Groups(v1)
    BY DEF Checks!First, Checks!Groups
  <1>. QED
    BY <1>2, <1>3, <1>4 DEF ChecksInv, ChecksTypes, CheckSet, Setting

LEMMA AskedStays ==
    ASSUME UNCHANGED <<v1, v2>>, NEW u, v5' = u, Placed(u), u.answer = "none" => v4' \in u.under
    PROVE  Asked'
  BY DEF Asked, Placed

(* A reply that leaves the hook unanswered.                                *)
LEMMA StillWaits ==
    ASSUME ChecksInv, UNCHANGED <<v1, v2, v3, v4>>, NEW c \in CheckSet,
           Placed(c), Same(c), KnownOf(c), v5' = c
    PROVE  ChecksInv'
  <1>1. ChecksTypes' /\ InForce'
    BY TypesStay DEF Placed
  <1>2. Asked'
    BY AskedStays DEF Same
  <1>3. Known'
    BY KnownStays
  <1>4. c.answer # "none" => Follows(c, c.answer)
    BY FollowsIs DEF ChecksInv, Same, Follows
  <1>5. Checks!OrderDoesNotMatter'
    BY <1>4, FollowsStill
  <1>. QED
    BY <1>1, <1>2, <1>3, <1>5 DEF ChecksInv

(* A reply that answers the hook, unless it was answered before.           *)
LEMMA IsAnswered ==
    ASSUME ChecksInv, UNCHANGED <<v1, v2, v3, v4>>, NEW c \in CheckSet,
           Placed(c), Same(c), NEW ret \in Replies \ {"none"},
           c.answer = "none" => Follows(c, ret), NEW u, Told(c, ret, u), v5' = u
    PROVE  ChecksInv'
  <1>1. u \in CheckSet /\ u.answer # "none"
    BY DEF Told
  <1>2. Placed(u)
    BY <1>1 DEF Told, Placed
  <1>3. ChecksTypes' /\ InForce'
    BY <1>1, <1>2, TypesStay DEF Placed
  <1>4. Asked'
    BY <1>1, <1>2, AskedStays
  <1>5. Known'
    BY <1>1, KnownStays DEF KnownOf
  <1>6. Follows(u, u.answer)
    <2>1. CASE c.answer = "none"
      BY <2>1 DEF Told, Follows
    <2>2. CASE c.answer # "none"
      BY <2>2, FollowsIs DEF Told, Follows, Same, ChecksInv
    <2>. QED
      BY <2>1, <2>2
  <1>7. Checks!OrderDoesNotMatter'
    BY <1>6, FollowsStill
  <1>. QED
    BY <1>3, <1>4, <1>5, <1>7 DEF ChecksInv

LEMMA RepliesWith ==
    ASSUME ChecksInv, UNCHANGED <<v1, v2, v3, v4>>, NEW c \in CheckSet,
           Placed(c), Same(c), NEW ret \in Replies \ {"none"},
           c.answer = "none" => Follows(c, ret), v5' = Checks!Next_(c, ret)
    PROVE  ChecksInv'
  BY NextTells, IsAnswered

(* Except for data.uribl there is one group.                               *)
LEMMA AllNamesAre ==
    ASSUME NEW G, Checks!Groups(v1) = G
    PROVE  /\ \A x \in Checks!AllNames : \E g \in G : \E n \in Checks!Names : x[1] = g /\ x[2] = n
           /\ \A g \in G : \A n \in Checks!Names :
                 \E x \in Checks!AllNames : x[1] = g /\ x[2] = n
  <1>. DEFINE Row(g) == {<<g, n>> : n \in Checks!Names}
  <1>1. Checks!AllNames = UNION {Row(g) : g \in G}
    BY DEF Checks!AllNames
  <1>2. ASSUME NEW x \in Checks!AllNames
        PROVE  \E g \in G : \E n \in Checks!Names : x[1] = g /\ x[2] = n
    <2>1. PICK g \in G : x \in Row(g)
      BY <1>1
    <2>2. PICK n \in Checks!Names : x = <<g, n>>
      BY <2>1
    <2>3. x[1] = g /\ x[2] = n
      BY <2>2
    <2>. QED
      BY <2>3
  <1>3. ASSUME NEW g \in G, NEW n \in Checks!Names
        PROVE  \E x \in Checks!AllNames : x[1] = g /\ x[2] = n
    <2>. DEFINE x == <<g, n>>
    <2>1. x \in Row(g)
      OBVIOUS
    <2>2. x \in Checks!AllNames
      BY <1>1, <2>1
    <2>3. x[1] = g /\ x[2] = n
      OBVIOUS
    <2>. HIDE DEF x
    <2>. QED
      BY <2>2, <2>3
  <1>. QED
    BY <1>2, <1>3

LEMMA SomeNameIs ==
    ASSUME NEW o
    PROVE  /\ v1 # "uribl" =>
                (Checks!SomeName(o) <=> \E n \in Checks!Names : v2.names[1][n] = o)
           /\ v1 = "uribl" =>
                (Checks!SomeName(o) <=>
                    \E g \in 1..checks.NGroups : \E n \in Checks!Names : v2.names[g][n] = o)
  <1>1. ASSUME NEW G, Checks!Groups(v1) = G
        PROVE  Checks!SomeName(o) <=> \E g \in G : \E n \in Checks!Names : v2.names[g][n] = o
    <2>1. /\ \A x \in Checks!AllNames :
                \E g \in G : \E n \in Checks!Names : x[1] = g /\ x[2] = n
          /\ \A g \in G : \A n \in Checks!Names :
                \E x \in Checks!AllNames : x[1] = g /\ x[2] = n
      BY <1>1, AllNamesAre
    <2>. QED
      BY <2>1 DEF Checks!SomeName
  <1>2. ASSUME v1 # "uribl" PROVE Checks!Groups(v1) = {1}
    BY <1>2 DEF Checks!Groups
  <1>3. ASSUME v1 = "uribl" PROVE Checks!Groups(v1) = 1..checks.NGroups
    BY <1>3 DEF Checks!Groups
  <1>4. ASSUME v1 # "uribl"
        PROVE  Checks!SomeName(o) <=> \E n \in Checks!Names : v2.names[1][n] = o
    <2>1. Checks!SomeName(o) <=> \E g \in {1} : \E n \in Checks!Names : v2.names[g][n] = o
      BY <1>1, <1>2, <1>4
    <2>. QED
      BY <2>1
  <1>5. ASSUME v1 = "uribl"
        PROVE  Checks!SomeName(o) <=>
               \E g \in 1..checks.NGroups : \E n \in Checks!Names : v2.names[g][n] = o
    BY <1>1, <1>3, <1>5
  <1>. QED
    BY <1>4, <1>5

LEMMA UsableIs ==
    ASSUME v1 = "fcrdns"
    PROVE  (\E x \in Checks!AllNames : v2.names[x[1]][x[2]] # "bad_tld") <=>
           \E n \in Checks!Names : v2.names[1][n] # "bad_tld"
  <1>1. Checks!Groups(v1) = {1}
    BY DEF Checks!Groups
  <1>2. /\ \A x \in Checks!AllNames :
              \E g \in {1} : \E n \in Checks!Names : x[1] = g /\ x[2] = n
        /\ \A g \in {1} : \A n \in Checks!Names :
              \E x \in Checks!AllNames : x[1] = g /\ x[2] = n
    BY <1>1, AllNamesAre
  <1>. QED
    BY <1>2

----------------------------------------------------------------------------
(* The verdicts.                                                           *)
No(s) == IF "no_mx" \in s.reject THEN "deny" ELSE "denysoft"
Is(o) == \E n \in Checks!Names : v2.names[1][n] = o

LEMMA VerdictOfResolvable ==
    ASSUME v1 = "is_resolvable", NEW s
    PROVE  /\ v2.first = "error" => Checks!Verdict(s) = "denysoft"
           /\ v2.first = "found" /\ (Is("good") \/ (s.allow_mx_ip /\ Is("ip"))) =>
                  Checks!Verdict(s) = "cont"
           /\ v2.first = "found" /\ ~(Is("good") \/ (s.allow_mx_ip /\ Is("ip"))) =>
                  Checks!Verdict(s) = No(s)
           /\ v2.first = "none" /\ v2.implicit = "error" => Checks!Verdict(s) = "denysoft"
           /\ v2.first = "none" /\ v2.implicit = "none" => Checks!Verdict(s) = No(s)
           /\ v2.first = "none" /\ v2.implicit \in {"bogus", "good"} => Checks!Verdict(s) = "cont"
  <1>1. (Checks!SomeName("good") <=> Is("good")) /\ (Checks!SomeName("ip") <=> Is("ip"))
    BY SomeNameIs DEF Is
  <1>. QED
    BY <1>1 DEF Checks!Verdict, No

LEMMA VerdictOfStrict ==
    ASSUME v1 = "rdns_strict", NEW s
    PROVE  /\ v2.first = "found" /\ (Is("white") \/ Is("match")) => Checks!Verdict(s) = "ok"
           /\ ~(v2.first = "found" /\ (Is("white") \/ Is("match"))) =>
                  Checks!Verdict(s) = "denydisconnect"
  <1>1. (Checks!SomeName("white") <=> Is("white")) /\ (Checks!SomeName("match") <=> Is("match"))
    BY SomeNameIs DEF Is
  <1>. QED
    BY <1>1 DEF Checks!Verdict

Bad(s) ==
    \/ "invalid_tld" \in s.reject /\ Is("bad_tld")
    \/ "generic_rdns" \in s.reject /\ Is("generic")
    \/ /\ "no_fcrdns" \in s.reject /\ ~Is("match")
       /\ \E n \in Checks!Names : v2.names[1][n] # "bad_tld"

LEMMA VerdictOfFcrdns ==
    ASSUME v1 = "fcrdns", NEW s
    PROVE  /\ v2.first = "nxdomain" =>
                  Checks!Verdict(s) = IF "no_rdns" \in s.reject THEN "deny" ELSE "cont"
           /\ v2.first = "error" =>
                  Checks!Verdict(s) = IF "no_rdns" \in s.reject THEN "denysoft" ELSE "cont"
           /\ v2.first = "found" => Checks!Verdict(s) = IF Bad(s) THEN "deny" ELSE "cont"
  <1>1. /\ Checks!SomeName("bad_tld") <=> Is("bad_tld")
        /\ Checks!SomeName("generic") <=> Is("generic")
        /\ Checks!SomeName("match") <=> Is("match")
    BY SomeNameIs DEF Is
  <1>2. Bad(s) <=>
          \/ "invalid_tld" \in s.reject /\ Checks!SomeName("bad_tld")
          \/ "generic_rdns" \in s.reject /\ Checks!SomeName("generic")
          \/ /\ "no_fcrdns" \in s.reject /\ ~Checks!SomeName("match")
             /\ \E x \in Checks!AllNames : v2.names[x[1]][x[2]] # "bad_tld"
    BY <1>1, UsableIs DEF Bad
  <1>. HIDE DEF Bad
  <1>. QED
    BY <1>2 DEF Checks!Verdict

LEMMA VerdictOfUribl ==
    ASSUME v1 = "uribl", NEW s
    PROVE  Checks!Verdict(s) =
           IF \E g \in 1..checks.NGroups : \E n \in Checks!Names : v2.names[g][n] = "listed"
           THEN "deny" ELSE "cont"
  <1>1. Checks!SomeName("listed") <=>
           \E g \in 1..checks.NGroups : \E n \in Checks!Names : v2.names[g][n] = "listed"
    BY SomeNameIs
  <1>. QED
    BY <1>1 DEF Checks!Verdict

----------------------------------------------------------------------------
(* Queries are put.                                                        *)
Puts(c, a, P, u) ==
    /\ u \in CheckSet /\ u.asked = a /\ u.pending = P
    /\ u.answer = c.answer /\ u.under = c.under /\ u.timed_out = c.timed_out
    /\ u.started = c.started /\ u.group = c.group /\ u.seen = c.seen /\ u.called = c.called

LEMMA PutsIs ==
    ASSUME NEW c \in CheckSet, NEW a \in {"nothing", "first", "implicit", "late", "thrown", "names"},
           NEW P \in SUBSET Int
    PROVE  /\ Puts(c, a, P, [c EXCEPT !.asked = a, !.pending = P])
           /\ Puts(c, a, c.pending, [c EXCEPT !.asked = a])
  BY DEF Puts, CheckSet

LEMMA NamesAre ==
    ASSUME ChecksAssumed
    PROVE  Checks!Names \in SUBSET Int /\ Checks!Names \subseteq Nat
  BY DEF ChecksAssumed, Checks!Names

(* The replies for the names of mail_from.is_resolvable.                   *)
LEMMA ResolvableChecked ==
    ASSUME ChecksAssumed, ChecksInv, v1 = "is_resolvable", UNCHANGED <<v1, v2, v3, v4>>,
           NEW c \in CheckSet, Placed(c), Same(c), c.asked = "names", KnownOf(c),
           v5' = Checks!check_results(c)
    PROVE  ChecksInv'
  <1>1. CASE c.pending # {}
    BY <1>1, StillWaits DEF Checks!check_results
  <1>2. CASE c.pending = {}
    <2>. PICK ret : ret = IF \E n \in Checks!Names : Checks!Usable(c, n) THEN "cont"
                          ELSE Checks!DenyIf("no_mx")
      OBVIOUS
    <2>1. v5' = Checks!Next_(c, ret)
      BY <1>2 DEF Checks!check_results
    <2>2. ret \in Replies \ {"none"}
      BY DEF Replies, Checks!DenyIf
    <2>3. ASSUME c.answer = "none"
          PROVE  Follows(c, ret)
      <3>1. c.group = 1 /\ v2.first = "found" /\ v4 \in c.under
        BY <2>3 DEF Placed, Checks!Groups, Same
      <3>2. c.seen = {n \in Checks!Names : v2.names[1][n] # "ip"}
        BY <1>2, <2>3 DEF KnownOf
      <3>3. (\E n \in Checks!Names : Checks!Usable(c, n)) <=>
                Is("good") \/ (v4.allow_mx_ip /\ Is("ip"))
        BY <3>1, <3>2 DEF Checks!Usable, Checks!Name, Is
      <3>4. Checks!DenyIf("no_mx") = No(v4)
        BY DEF Checks!DenyIf, Checks!Rejects, No
      <3>5. ret = Checks!Verdict(v4)
        BY <3>1, <3>3, <3>4, VerdictOfResolvable
      <3>. QED
        BY <3>1, <3>5 DEF Follows
    <2>. QED
      BY <2>1, <2>2, <2>3, RepliesWith
  <1>. QED
    BY <1>1, <1>2

(* The reply to the first query of mail_from.is_resolvable.                *)
LEMMA ResolvableFirst ==
    ASSUME ChecksAssumed, ChecksInv, v1 = "is_resolvable", UNCHANGED <<v1, v2, v3, v4>>,
           NEW c \in CheckSet, Placed(c), Same(c), c.asked = "nothing",
           v5' = Checks!resolveMx(c)
    PROVE  ChecksInv'
  <1>0. /\ v2.first \in {"error", "none", "found"} /\ c.group = 1 /\ c.seen = {}
        /\ c.answer = "none" => v4 \in c.under
    BY DEF ChecksInv, ChecksTypes, Checks!First, Placed, Checks!Groups, Same
  <1>1. CASE v2.first = "error"
    <2>1. v5' = Checks!Next_(c, "denysoft")
      BY <1>1 DEF Checks!resolveMx
    <2>2. c.answer = "none" => Follows(c, "denysoft")
      BY <1>0, <1>1, VerdictOfResolvable DEF Follows
    <2>. QED
      BY <2>1, <2>2, RepliesWith DEF Replies
  <1>2. CASE v2.first = "none"
    <2>. PICK a \in {"implicit", "late"} : a = IF c.answer = "none" THEN "implicit" ELSE "late"
      OBVIOUS
    <2>. PICK u : u = [c EXCEPT !.asked = a]
      OBVIOUS
    <2>1. v5' = u
      BY <1>2 DEF Checks!resolveMx, Checks!None
    <2>2. Puts(c, a, c.pending, u)
      BY PutsIs
    <2>3. u \in CheckSet /\ Placed(u) /\ Same(u) /\ KnownOf(u)
      BY <1>0, <1>2, <2>2 DEF Puts, Placed, Same, KnownOf
    <2>. QED
      BY <2>1, <2>3, StillWaits
  <1>3. CASE v2.first = "found"
    <2>. PICK P \in SUBSET Int : P = {n \in Checks!Names : Checks!Name(c, n) # "ip"}
      BY NamesAre
    <2>. PICK u : u = [c EXCEPT !.asked = "names", !.pending = P]
      OBVIOUS
    <2>1. v5' = Checks!check_results(u)
      BY <1>3 DEF Checks!resolveMx
    <2>2. Puts(c, "names", P, u)
      BY PutsIs
    <2>3. u \in CheckSet /\ Placed(u) /\ Same(u)
      BY <1>0, <1>3, <2>2 DEF Puts, Placed, Same
    <2>4. P = {n \in Checks!Names : v2.names[1][n] # "ip"}
      BY <1>0 DEF Checks!Name
    <2>5. KnownOf(u)
      BY <1>0, <2>2, <2>4 DEF Puts, KnownOf
    <2>. QED
      BY <2>1, <2>2, <2>3, <2>5, ResolvableChecked DEF Puts
  <1>. QED
    BY <1>0, <1>1, <1>2, <1>3

LEMMA ResolvableImplicit ==
    ASSUME ChecksAssumed, ChecksInv, v1 = "is_resolvable", UNCHANGED <<v1, v2, v3, v4>>,
           NEW c \in CheckSet, Placed(c), Same(c), v2.first = "none",
           v5' = Checks!implicit_mx(c)
    PROVE  ChecksInv'
  <1>. PICK ret : ret = CASE v2.implicit = "error" -> "denysoft"
                          [] v2.implicit = "none"  -> Checks!DenyIf("no_mx")
                          [] v2.implicit \in {"bogus", "good"} -> "cont"
    OBVIOUS
  <1>1. v5' = Checks!Next_(c, ret)
    BY DEF Checks!implicit_mx
  <1>2. v2.implicit \in {"error", "none", "bogus", "good"}
    BY DEF ChecksInv, ChecksTypes
  <1>3. Checks!DenyIf("no_mx") = No(v4) /\ No(v4) \in {"deny", "denysoft"}
    BY DEF Checks!DenyIf, Checks!Rejects, No
  <1>4. /\ v2.implicit = "error" => ret = "denysoft"
        /\ v2.implicit = "none" => ret = No(v4)
        /\ v2.implicit \in {"bogus", "good"} => ret = "cont"
    BY <1>3
  <1>5. ret = Checks!Verdict(v4)
    BY <1>2, <1>4, VerdictOfResolvable
  <1>6. ret \in Replies \ {"none"}
    BY <1>2, <1>3, <1>4 DEF Replies
  <1>7. c.answer = "none" => Follows(c, ret)
    BY <1>5 DEF Follows, Same
  <1>. QED
    BY <1>1, <1>6, <1>7, RepliesWith

----------------------------------------------------------------------------
(* lookup_rdns.strict.                                                     *)
LEMMA StrictFirst ==
    ASSUME ChecksAssumed, ChecksInv, v1 = "rdns_strict", UNCHANGED <<v1, v2, v3, v4>>,
           NEW c \in CheckSet, Placed(c), Same(c), c.asked = "nothing",
           v5' = Checks!rdns_reverse(c)
    PROVE  ChecksInv'
  <1>0. /\ v2.first \in {"error", "nxdomain", "found"} /\ c.group = 1 /\ c.seen = {}
        /\ c.answer = "none" => v4 \in c.under
    BY DEF ChecksInv, ChecksTypes, Checks!First, Placed, Checks!Groups, Same
  <1>1. CASE v2.first # "found"
    <2>1. v5' = Checks!Next_(c, "denydisconnect")
      BY <1>0, <1>1 DEF Checks!rdns_reverse
    <2>2. c.answer = "none" => Follows(c, "denydisconnect")
      BY <1>0, <1>1, VerdictOfStrict DEF Follows
    <2>. QED
      BY <2>1, <2>2, RepliesWith DEF Replies
  <1>2. CASE v2.first = "found" /\ \E n \in Checks!Names : Checks!Name(c, n) = "white"
    <2>. PICK yes \in BOOLEAN, no \in BOOLEAN : yes = TRUE /\ no = FALSE
      OBVIOUS
    <2>. PICK a \in Replies : a = IF c.answer = "none" THEN "ok" ELSE c.answer
      BY DEF CheckSet, Replies
    <2>. PICK u : u = [c EXCEPT !.called = yes, !.timer = no, !.answer = a]
      OBVIOUS
    <2>1. Told(c, "ok", u)
      BY DEF CheckSet, Told
    <2>2. v5' = u
      BY <1>2 DEF Checks!rdns_reverse, Checks!None, CheckSet
    <2>3. Is("white")
      BY <1>0, <1>2 DEF Is, Checks!Name
    <2>4. c.answer = "none" => Follows(c, "ok")
      BY <1>0, <1>2, <2>3, VerdictOfStrict DEF Follows
    <2>. QED
      BY <2>1, <2>2, <2>4, IsAnswered DEF Replies
  <1>3. CASE v2.first = "found" /\ ~\E n \in Checks!Names : Checks!Name(c, n) = "white"
    <2>. PICK P \in SUBSET Int : P = Checks!Names
      BY NamesAre
    <2>. PICK u : u = [c EXCEPT !.asked = "names", !.pending = P]
      OBVIOUS
    <2>1. v5' = u
      BY <1>3 DEF Checks!rdns_reverse
    <2>2. Puts(c, "names", P, u)
      BY PutsIs
    <2>3. u \in CheckSet /\ Placed(u) /\ Same(u)
      BY <1>0, <1>3, <2>2 DEF Puts, Placed, Same
    <2>4. KnownOf(u)
      BY <1>0, <1>3, <2>2 DEF Puts, KnownOf, Checks!Name
    <2>. QED
      BY <2>1, <2>3, <2>4, StillWaits
  <1>. QED
    BY <1>1, <1>2, <1>3

LEMMA StrictForward ==
    ASSUME ChecksAssumed, ChecksInv, v1 = "rdns_strict", UNCHANGED <<v1, v2, v3, v4>>,
           NEW c \in CheckSet, Placed(c), Same(c), c.asked = "names",
           NEW n \in Checks!Names,
           c.answer = "none" => /\ c.pending \cup c.seen = Checks!Names
                                /\ \A m \in Checks!Names : v2.names[1][m] # "white"
                                /\ \A m \in c.seen \ {n} : v2.names[1][m] # "match",
           v5' = Checks!rdns_forward(c, n)
    PROVE  ChecksInv'
  <1>0. /\ v2.first = "found" /\ c.group = 1 /\ Checks!Name(c, n) = v2.names[1][n]
        /\ c.answer = "none" => v4 \in c.under
    BY DEF Placed, Checks!Groups, Same, Checks!Name
  <1>1. CASE v2.names[1][n] = "match"
    <2>1. v5' = Checks!Next_(c, "ok")
      BY <1>0, <1>1 DEF Checks!rdns_forward
    <2>2. c.answer = "none" => Follows(c, "ok")
      BY <1>0, <1>1, VerdictOfStrict DEF Follows, Is
    <2>. QED
      BY <2>1, <2>2, RepliesWith DEF Replies
  <1>2. CASE v2.names[1][n] # "match" /\ c.pending = {}
    <2>1. v5' = Checks!Next_(c, "denydisconnect")
      BY <1>0, <1>2 DEF Checks!rdns_forward
    <2>2. c.answer = "none" => ~Is("white") /\ ~Is("match")
      BY <1>2 DEF Is
    <2>3. c.answer = "none" => Follows(c, "denydisconnect")
      BY <1>0, <2>2, VerdictOfStrict DEF Follows
    <2>. QED
      BY <2>1, <2>3, RepliesWith DEF Replies
  <1>3. CASE v2.names[1][n] # "match" /\ c.pending # {}
    <2>1. v5' = c
      BY <1>0, <1>3 DEF Checks!rdns_forward
    <2>2. KnownOf(c)
      BY <1>3 DEF KnownOf
    <2>. QED
      BY <2>1, <2>2, StillWaits
  <1>. QED
    BY <1>1, <1>2, <1>3

----------------------------------------------------------------------------
(* connect.fcrdns.                                                         *)
BadNames(c) == {n \in Checks!Names : Checks!Name(c, n) = "bad_tld"}

(* The least of some numbers.                                              *)
LEMMA LeastIs ==
    ASSUME NEW S \in SUBSET Nat, S # {}
    PROVE  (CHOOSE n \in S : \A m \in S : n <= m) \in S
  <1>1. PICK x \in S : \A y \in S : ~(<<y, x>> \in OpToRel(<, Nat))
    BY NatLessThanWellFounded, WFMin
  <1>2. ASSUME NEW m \in S, ~(x <= m)
        PROVE  FALSE
    <2>1. m < x /\ m \in Nat /\ x \in Nat
      BY <1>2
    <2>2. <<m, x>> \in OpToRel(<, Nat)
      BY <2>1 DEF OpToRel
    <2>. QED
      BY <1>1, <2>2
  <1>. QED
    BY <1>2

LEMMA FcrdnsFirst ==
    ASSUME ChecksAssumed, ChecksInv, v1 = "fcrdns", UNCHANGED <<v1, v2, v3, v4>>,
           NEW c \in CheckSet, Placed(c), Same(c), c.asked = "nothing",
           v5' = Checks!fcrdns_reverse(c)
    PROVE  ChecksInv'
  <1>0. /\ v2.first \in {"error", "nxdomain", "found"} /\ c.group = 1 /\ c.seen = {}
        /\ c.answer = "none" => v4 \in c.under
        /\ BadNames(c) = {n \in Checks!Names : v2.names[1][n] = "bad_tld"}
    BY DEF ChecksInv, ChecksTypes, Checks!First, Placed, Checks!Groups, Same, BadNames, Checks!Name
  <1>1. CASE v2.first = "nxdomain"
    <2>. PICK ret : ret = IF Checks!Rejects("no_rdns") THEN "deny" ELSE "cont"
      OBVIOUS
    <2>1. v5' = Checks!Next_(c, ret) /\ ret \in Replies \ {"none"}
      BY <1>1 DEF Checks!fcrdns_reverse, Replies
    <2>2. ret = Checks!Verdict(v4)
      BY <1>1, VerdictOfFcrdns DEF Checks!Rejects
    <2>3. c.answer = "none" => Follows(c, ret)
      BY <1>0, <2>2 DEF Follows
    <2>. QED
      BY <2>1, <2>3, RepliesWith
  <1>2. CASE v2.first = "error"
    <2>. PICK ret : ret = IF Checks!Rejects("no_rdns") THEN "denysoft" ELSE "cont"
      OBVIOUS
    <2>1. v5' = Checks!Next_(c, ret) /\ ret \in Replies \ {"none"}
      BY <1>2 DEF Checks!fcrdns_reverse, Replies
    <2>2. ret = Checks!Verdict(v4)
      BY <1>2, VerdictOfFcrdns DEF Checks!Rejects
    <2>3. c.answer = "none" => Follows(c, ret)
      BY <1>0, <2>2 DEF Follows
    <2>. QED
      BY <2>1, <2>3, RepliesWith
  <1>3. CASE v2.first = "found" /\ Checks!Rejects("invalid_tld") /\ BadNames(c) # {}
    <2>. PICK stop : stop = CHOOSE n \in BadNames(c) : \A m \in BadNames(c) : n <= m
      OBVIOUS
    <2>1. stop \in Nat
      <3>1. BadNames(c) \in SUBSET Nat
        BY NamesAre DEF BadNames
      <3>. QED
        BY <1>3, <3>1, LeastIs
    <2>. PICK P \in SUBSET Int : P = 1..(stop - 1)
      <3>1. (1..(stop - 1)) \in SUBSET Int
        BY ONLY <2>1
      <3>. QED
        BY <3>1
    <2>. PICK u : u = [c EXCEPT !.asked = "names", !.pending = P]
      OBVIOUS
    <2>2. v5' = Checks!Next_(u, "deny")
      BY <1>3 DEF Checks!fcrdns_reverse, BadNames
    <2>3. Puts(c, "names", P, u)
      BY PutsIs
    <2>4. u \in CheckSet /\ Placed(u) /\ Same(u)
      BY <1>0, <1>3, <2>3 DEF Puts, Placed, Same
    <2>5. Bad(v4)
      BY <1>0, <1>3 DEF Bad, Is, Checks!Rejects
    <2>6. Checks!Verdict(v4) = "deny"
      BY <1>3, <2>5, VerdictOfFcrdns
    <2>7. u.answer = "none" => Follows(u, "deny")
      BY <1>0, <2>3, <2>6 DEF Follows, Puts
    <2>. QED
      BY <2>2, <2>4, <2>7, RepliesWith DEF Replies
  <1>4. CASE /\ v2.first = "found" /\ ~(Checks!Rejects("invalid_tld") /\ BadNames(c) # {})
             /\ BadNames(c) = Checks!Names
    <2>1. v5' = Checks!Next_(c, "cont")
      BY <1>4 DEF Checks!fcrdns_reverse, BadNames
    <2>2. \A n \in Checks!Names : v2.names[1][n] = "bad_tld"
      BY <1>0, <1>4
    <2>3. ~Bad(v4)
      BY <1>4, <2>2 DEF Bad, Is, Checks!Rejects
    <2>4. Checks!Verdict(v4) = "cont"
      BY <1>4, <2>3, VerdictOfFcrdns
    <2>5. c.answer = "none" => Follows(c, "cont")
      BY <1>0, <2>4 DEF Follows
    <2>. QED
      BY <2>1, <2>5, RepliesWith DEF Replies
  <1>5. CASE /\ v2.first = "found" /\ ~(Checks!Rejects("invalid_tld") /\ BadNames(c) # {})
             /\ BadNames(c) # Checks!Names
    <2>. PICK P \in SUBSET Int : P = Checks!Names \ BadNames(c)
      BY NamesAre
    <2>. PICK u : u = [c EXCEPT !.asked = "names", !.pending = P]
      OBVIOUS
    <2>1. v5' = u
      BY <1>5 DEF Checks!fcrdns_reverse, BadNames
    <2>2. Puts(c, "names", P, u)
      BY PutsIs
    <2>3. u \in CheckSet /\ Placed(u) /\ Same(u)
      BY <1>0, <1>5, <2>2 DEF Puts, Placed, Same
    <2>4. P = {n \in Checks!Names : v2.names[1][n] # "bad_tld"} /\ P # {}
      BY <1>0, <1>5 DEF BadNames
    <2>5. ASSUME c.answer = "none", P # Checks!Names
          PROVE  "invalid_tld" \notin v3.reject \/ Off \in c.under
      <3>1. "invalid_tld" \notin v4.reject
        BY <1>5, <2>5 DEF Checks!Rejects
      <3>2. v4 = v3 \/ v4 = Off
        BY DEF ChecksInv, InForce
      <3>. QED
        BY <1>0, <2>5, <3>1, <3>2
    <2>6. KnownOf(u)
      BY <1>0, <2>2, <2>4, <2>5 DEF Puts, KnownOf
    <2>. QED
      BY <2>1, <2>3, <2>6, StillWaits
  <1>. QED
    BY <1>0, <1>1, <1>2, <1>3, <1>4, <1>5

LEMMA FcrdnsForward ==
    ASSUME ChecksAssumed, ChecksInv, v1 = "fcrdns", UNCHANGED <<v1, v2, v3, v4>>,
           NEW c \in CheckSet, Placed(c), Same(c), c.asked = "names", KnownOf(c),
           v5' = Checks!fcrdns_forward(c)
    PROVE  ChecksInv'
  <1>0. /\ v2.first = "found" /\ c.group = 1
        /\ c.answer = "none" => v4 \in c.under
    BY DEF Placed, Checks!Groups, Same
  <1>1. CASE c.pending # {}
    BY <1>1, StillWaits DEF Checks!fcrdns_forward
  <1>2. CASE c.pending = {}
    <2>1. v5' = Checks!check_fcrdns(c)
      BY <1>2 DEF Checks!fcrdns_forward
    <2>. DEFINE Denies ==
             \/ "generic_rdns" \in v4.reject /\ \E n \in c.seen : v2.names[1][n] = "generic"
             \/ "no_fcrdns" \in v4.reject /\ ~\E n \in c.seen : v2.names[1][n] = "match"
    <2>. PICK ret : ret = IF Denies THEN "deny" ELSE "cont"
      OBVIOUS
    <2>2. v5' = Checks!Next_(c, ret)
      BY <1>0, <2>1 DEF Checks!check_fcrdns, Checks!Rejects, Checks!Name
    <2>3. ret \in Replies \ {"none"}
      BY DEF Replies
    <2>4. ASSUME c.answer = "none"
          PROVE  Follows(c, ret)
      <3>1. /\ c.seen = {n \in Checks!Names : v2.names[1][n] # "bad_tld"} /\ c.seen # {}
            /\ c.seen # Checks!Names => "invalid_tld" \notin v3.reject \/ Off \in c.under
        BY <1>2, <2>4 DEF KnownOf
      <3>2. /\ Is("generic") <=> \E n \in c.seen : v2.names[1][n] = "generic"
            /\ Is("match") <=> \E n \in c.seen : v2.names[1][n] = "match"
            /\ \E n \in Checks!Names : v2.names[1][n] # "bad_tld"
            /\ Is("bad_tld") <=> c.seen # Checks!Names
        BY <3>1 DEF Is
      <3>3. CASE Denies
        <4>1. Bad(v4)
          BY <3>2, <3>3 DEF Bad
        <4>2. Checks!Verdict(v4) = "deny"
          BY <1>0, <4>1, VerdictOfFcrdns
        <4>. QED
          BY <1>0, <2>4, <3>3, <4>2 DEF Follows
      <3>4. CASE ~Denies /\ ~Bad(v4)
        <4>1. Checks!Verdict(v4) = "cont"
          BY <1>0, <3>4, VerdictOfFcrdns
        <4>. QED
          BY <1>0, <2>4, <3>4, <4>1 DEF Follows
      <3>5. CASE ~Denies /\ Bad(v4)
        <4>1. "invalid_tld" \in v4.reject /\ Is("bad_tld")
          BY <3>2, <3>5 DEF Bad
        <4>2. v4 = v3 \/ v4 = Off
          BY DEF ChecksInv, InForce
        <4>3. /\ "invalid_tld" \notin Off.reject /\ "generic_rdns" \notin Off.reject
              /\ "no_fcrdns" \in Off.reject <=> "no_fcrdns" \in v3.reject
          BY DEF ChecksInv, ChecksTypes, Setting, Off
        <4>4. v4 = v3 /\ Off \in c.under
          BY <3>1, <3>2, <4>1, <4>2, <4>3
        <4>5. ~Bad(Off)
          BY <3>2, <3>5, <4>3, <4>4 DEF Bad
        <4>6. Checks!Verdict(Off) = "cont"
          BY <1>0, <4>5, VerdictOfFcrdns
        <4>. QED
          BY <3>5, <4>4, <4>6 DEF Follows
      <3>. QED
        BY <3>3, <3>4, <3>5
    <2>. QED
      BY <2>2, <2>3, <2>4, RepliesWith
  <1>. QED
    BY <1>1, <1>2

----------------------------------------------------------------------------
(* data.uribl.                                                             *)
LEMMA UriblLooks ==
    ASSUME ChecksAssumed, NEW c \in CheckSet
    PROVE  \E u \in CheckSet :
              /\ u = Checks!do_lookups(c)
              /\ u.asked = "names" /\ u.pending = Checks!Names /\ u.seen = {} /\ ~u.called
              /\ u.answer = c.answer /\ u.under = c.under /\ u.timed_out = c.timed_out
              /\ u.started = c.started /\ u.group = c.group
  <1>. PICK P \in SUBSET Int : P = Checks!Names
    BY NamesAre
  <1>. PICK yes \in BOOLEAN, no \in BOOLEAN, S \in SUBSET Int : yes = TRUE /\ no = FALSE /\ S = {}
    OBVIOUS
  <1>. PICK u : u = [c EXCEPT !.asked = "names", !.pending = P, !.seen = S,
                              !.timer = yes, !.called = no]
    OBVIOUS
  <1>1. /\ u \in CheckSet /\ u.asked = "names" /\ u.pending = P /\ u.seen = S /\ u.called = no
        /\ u.answer = c.answer /\ u.under = c.under /\ u.timed_out = c.timed_out
        /\ u.started = c.started /\ u.group = c.group
    BY DEF CheckSet
  <1>2. u = Checks!do_lookups(c)
    BY DEF Checks!do_lookups
  <1>. QED
    BY <1>1, <1>2

(* No name of the groups up to the present one is listed.                  *)
Unlisted(c) ==
    \A g \in 1..c.group : \A n \in Checks!Names : v2.names[g][n] # "listed"

LEMMA UriblGoesOn ==
    ASSUME ChecksAssumed, ChecksInv, v1 = "uribl", UNCHANGED <<v1, v2, v3, v4>>,
           NEW c \in CheckSet, Placed(c), Same(c), v2.first = "found",
           c.answer = "none" => c.timed_out \/ Unlisted(c),
           v5' = Checks!chain_caller(c)
    PROVE  ChecksInv'
  <1>. PICK k \in Nat : k = c.group
    BY DEF CheckSet
  <1>. PICK max \in Nat : max = checks.NGroups
    BY DEF ChecksAssumed
  <1>0. /\ k \in 1..max /\ (c.answer = "none" => v4 \in c.under)
    BY DEF Placed, Checks!Groups, Same
  <1>1. CASE k = max
    <2>1. v5' = Checks!Next_(c, "cont")
      BY <1>1 DEF Checks!chain_caller
    <2>2. ASSUME c.answer = "none", Unlisted(c)
          PROVE  Follows(c, "cont")
      <3>1. \A g \in 1..checks.NGroups : \A n \in Checks!Names : v2.names[g][n] # "listed"
        BY <1>1, <2>2 DEF Unlisted
      <3>2. Checks!Verdict(v4) = "cont"
        BY <3>1, VerdictOfUribl
      <3>. QED
        BY <1>0, <2>2, <3>2 DEF Follows
    <2>3. ASSUME c.answer = "none", c.timed_out
          PROVE  Follows(c, "cont")
      BY <1>0, <2>3 DEF Follows, Checks!TimerReply
    <2>. QED
      BY <2>1, <2>2, <2>3, RepliesWith DEF Replies
  <1>2. CASE k # max
    <2>. PICK next \in Nat : next = k + 1
      OBVIOUS
    <2>0. next \in 1..max /\ next - 1 = k
      BY <1>0, <1>2
    <2>. PICK d : d = [c EXCEPT !.group = next]
      OBVIOUS
    <2>1. /\ d \in CheckSet /\ d.group = next /\ d.answer = c.answer /\ d.under = c.under
          /\ d.timed_out = c.timed_out /\ d.started = c.started
      BY DEF CheckSet
    <2>2. v5' = Checks!do_lookups(d)
      <3>1. d = [c EXCEPT !.group = @ + 1]
        OBVIOUS
      <3>. QED
        BY <1>2, <3>1 DEF Checks!chain_caller
    <2>3. PICK u \in CheckSet :
              /\ u = Checks!do_lookups(d)
              /\ u.asked = "names" /\ u.pending = Checks!Names /\ u.seen = {} /\ ~u.called
              /\ u.answer = d.answer /\ u.under = d.under /\ u.timed_out = d.timed_out
              /\ u.started = d.started /\ u.group = d.group
      BY <2>1, UriblLooks
    <2>4. Placed(u)
      BY <2>0, <2>1, <2>3 DEF Placed, Checks!Groups
    <2>5. Same(u)
      BY <2>1, <2>3 DEF Same
    <2>6. KnownOf(u)
      <3>1. ASSUME u.answer = "none", ~u.timed_out, NEW g \in 1..(u.group - 1)
            PROVE  \A n \in Checks!Names : v2.names[g][n] # "listed"
        <4>1. Unlisted(c)
          BY <2>1, <2>3, <3>1
        <4>2. g \in 1..c.group
          BY <2>0, <2>1, <2>3
        <4>. QED
          BY <4>1, <4>2 DEF Unlisted
      <3>. QED
        BY <2>3, <3>1 DEF KnownOf
    <2>. QED
      BY <2>2, <2>3, <2>4, <2>5, <2>6, StillWaits
  <1>. QED
    BY <1>1, <1>2

LEMMA UriblForward ==
    ASSUME ChecksAssumed, ChecksInv, v1 = "uribl", UNCHANGED <<v1, v2, v3, v4>>,
           NEW c \in CheckSet, Placed(c), Same(c), c.asked = "names",
           NEW n \in Checks!Names,
           c.answer = "none" /\ ~c.timed_out =>
               /\ c.pending \cup c.seen = Checks!Names
               /\ \A m \in c.seen \ {n} : v2.names[c.group][m] # "listed"
               /\ \A g \in 1..(c.group - 1) : \A m \in Checks!Names : v2.names[g][m] # "listed",
           v5' = Checks!uribl_answer(c, n)
    PROVE  ChecksInv'
  <1>0. /\ v2.first = "found" /\ c.group \in 1..checks.NGroups
        /\ Checks!Name(c, n) = v2.names[c.group][n]
        /\ c.answer = "none" => v4 \in c.under
    BY DEF Placed, Checks!Groups, Same, Checks!Name
  <1>1. CASE v2.names[c.group][n] = "listed"
    <2>1. v5' = Checks!Next_(c, "deny")
      BY <1>0, <1>1 DEF Checks!uribl_answer
    <2>2. Checks!Verdict(v4) = "deny"
      BY <1>0, <1>1, VerdictOfUribl
    <2>3. c.answer = "none" => Follows(c, "deny")
      BY <1>0, <2>2 DEF Follows
    <2>. QED
      BY <2>1, <2>3, RepliesWith DEF Replies
  <1>2. CASE v2.names[c.group][n] # "listed" /\ c.pending = {} /\ ~c.called
    <2>1. v5' = Checks!chain_caller(c)
      BY <1>0, <1>2 DEF Checks!uribl_answer
    <2>2. ASSUME c.answer = "none", ~c.timed_out
          PROVE  Unlisted(c)
      <3>. SUFFICES ASSUME NEW g \in 1..c.group, NEW m \in Checks!Names
                    PROVE  v2.names[g][m] # "listed"
        BY DEF Unlisted
      <3>1. CASE g = c.group
        BY <1>2, <2>2, <3>1
      <3>2. CASE g # c.group
        <4>1. g \in 1..(c.group - 1)
          BY <3>2 DEF CheckSet
        <4>. QED
          BY <2>2, <4>1
      <3>. QED
        BY <3>1, <3>2
    <2>. QED
      BY <1>0, <2>1, <2>2, UriblGoesOn
  <1>3. CASE v2.names[c.group][n] # "listed" /\ ~(c.pending = {} /\ ~c.called)
    <2>1. v5' = c
      BY <1>0, <1>3 DEF Checks!uribl_answer
    <2>2. ASSUME c.answer = "none", ~c.timed_out
          PROVE  \A m \in c.seen : v2.names[c.group][m] # "listed"
      BY <1>3, <2>2
    <2>3. KnownOf(c)
      BY <2>2 DEF KnownOf
    <2>. QED
      BY <2>1, <2>3, StillWaits
  <1>. QED
    BY <1>1, <1>2, <1>3

----------------------------------------------------------------------------
(* The steps.                                                              *)
LEMMA CallIs ==
    ASSUME ChecksInv
    PROVE  /\ v5 \in CheckSet /\ v5.group \in Checks!Groups(v1)
           /\ v5.started => Placed(v5) /\ Same(v5)
  BY DEF ChecksInv, ChecksTypes, Asked, Placed, Same

LEMMA FirstReplies ==
    ASSUME ChecksAssumed, ChecksInv, Checks!first
    PROVE  ChecksInv'
  <1>. PICK old \in CheckSet : old = v5
    BY CallIs
  <1>. PICK c : c = [old EXCEPT !.asked = "nothing"]
    OBVIOUS
  <1>1. Puts(old, "nothing", old.pending, c)
    BY PutsIs
  <1>2. old.asked \in {"first", "implicit", "late"} /\ UNCHANGED <<v1, v2, v3, v4>>
    BY DEF Checks!first
  <1>3. Placed(old) /\ Same(old)
    BY <1>2, CallIs DEF ChecksInv, Asked
  <1>4. c \in CheckSet /\ c.asked = "nothing" /\ Placed(c) /\ Same(c)
    BY <1>1, <1>2, <1>3 DEF Puts, Placed, Same
  <1>5. CASE old.asked \in {"implicit", "late"}
    <2>1. v5' = Checks!implicit_mx(c)
      BY <1>5 DEF Checks!first
    <2>2. v1 = "is_resolvable" /\ v2.first = "none"
      BY <1>3, <1>5 DEF Placed
    <2>. QED
      BY <1>2, <1>4, <2>1, <2>2, ResolvableImplicit
  <1>6. CASE old.asked = "first" /\ v1 = "is_resolvable"
    <2>1. v5' = Checks!resolveMx(c)
      BY <1>6 DEF Checks!first
    <2>. QED
      BY <1>2, <1>4, <1>6, <2>1, ResolvableFirst
  <1>7. CASE old.asked = "first" /\ v1 = "rdns_strict"
    <2>1. v5' = Checks!rdns_reverse(c)
      BY <1>7 DEF Checks!first
    <2>. QED
      BY <1>2, <1>4, <1>7, <2>1, StrictFirst
  <1>8. CASE old.asked = "first" /\ v1 = "fcrdns"
    <2>1. v5' = Checks!fcrdns_reverse(c)
      BY <1>8 DEF Checks!first
    <2>. QED
      BY <1>2, <1>4, <1>8, <2>1, FcrdnsFirst
  <1>9. old.asked = "first" => v1 \in {"is_resolvable", "rdns_strict", "fcrdns"}
    BY <1>3 DEF Placed, ChecksInv, ChecksTypes, Checks!AllPlugins
  <1>. QED
    BY <1>2, <1>5, <1>6, <1>7, <1>8, <1>9

LEMMA NoTransaction ==
    ASSUME ChecksAssumed, ChecksInv, Checks!no_transaction
    PROVE  ChecksInv'
  <1>. PICK c \in CheckSet : c = v5
    BY CallIs
  <1>1. c.asked = "late" /\ UNCHANGED <<v1, v2, v3, v4>>
    BY DEF Checks!no_transaction
  <1>2. Placed(c) /\ Same(c)
    BY <1>1, CallIs DEF ChecksInv, Asked
  <1>. PICK no \in BOOLEAN : no = FALSE
    OBVIOUS
  <1>. PICK u : u = [c EXCEPT !.asked = "thrown", !.timer = no]
    OBVIOUS
  <1>3. v5' = u
    BY DEF Checks!no_transaction
  <1>4. /\ u \in CheckSet /\ u.asked = "thrown" /\ u.seen = c.seen
        /\ u.answer = c.answer /\ u.under = c.under /\ u.timed_out = c.timed_out
        /\ u.started = c.started /\ u.group = c.group /\ u.called = c.called
    BY DEF CheckSet
  <1>5. Placed(u) /\ Same(u) /\ KnownOf(u)
    BY <1>1, <1>2, <1>4 DEF Placed, Same, KnownOf
  <1>. QED
    BY <1>1, <1>3, <1>4, <1>5, StillWaits

LEMMA ForwardReplies ==
    ASSUME ChecksAssumed, ChecksInv, NEW n \in Checks!Names, Checks!forward(n)
    PROVE  ChecksInv'
  <1>. PICK old \in CheckSet : old = v5
    BY CallIs
  <1>1. /\ old.asked = "names" /\ n \in old.pending /\ UNCHANGED <<v1, v2, v3, v4>>
    BY DEF Checks!forward
  <1>2. Placed(old) /\ Same(old) /\ KnownOf(old)
    BY <1>1, CallIs DEF ChecksInv, Asked, Known
  <1>. PICK P \in SUBSET Int, S \in SUBSET Int : P = old.pending \ {n} /\ S = old.seen \cup {n}
    BY NamesAre DEF CheckSet
  <1>. PICK c : c = [old EXCEPT !.pending = P, !.seen = S]
    OBVIOUS
  <1>3. /\ c \in CheckSet /\ c.asked = "names" /\ c.pending = P /\ c.seen = S
        /\ c.answer = old.answer /\ c.under = old.under /\ c.timed_out = old.timed_out
        /\ c.started = old.started /\ c.group = old.group /\ c.called = old.called
    BY <1>1 DEF CheckSet
  <1>4. Placed(c) /\ Same(c)
    BY <1>1, <1>2, <1>3 DEF Placed, Same
  <1>5. P \cup S = old.pending \cup old.seen
    BY <1>1
  <1>6. v5' = CASE v1 = "is_resolvable" -> Checks!check_results(c)
                [] v1 = "rdns_strict" -> Checks!rdns_forward(c, n)
                [] v1 = "fcrdns" -> Checks!fcrdns_forward(c)
                [] v1 = "uribl" -> Checks!uribl_answer(c, n)
    <2>1. c = [v5 EXCEPT !.pending = @ \ {n}, !.seen = @ \union {n}]
      OBVIOUS
    <2>. QED
      BY <2>1 DEF Checks!forward
  <1>7. CASE v1 = "is_resolvable"
    <2>1. v5' = Checks!check_results(c)
      BY <1>6, <1>7
    <2>2. KnownOf(c)
      BY <1>2, <1>3, <1>5, <1>7 DEF KnownOf
    <2>. QED
      BY <1>1, <1>3, <1>4, <1>7, <2>1, <2>2, ResolvableChecked
  <1>8. CASE v1 = "rdns_strict"
    <2>1. v5' = Checks!rdns_forward(c, n)
      BY <1>6, <1>8
    <2>2. c.answer = "none" => /\ c.pending \cup c.seen = Checks!Names
                               /\ \A m \in Checks!Names : v2.names[1][m] # "white"
                               /\ \A m \in c.seen \ {n} : v2.names[1][m] # "match"
      BY <1>1, <1>2, <1>3, <1>5, <1>8 DEF KnownOf
    <2>. QED
      BY <1>1, <1>3, <1>4, <1>8, <2>1, <2>2, StrictForward
  <1>9. CASE v1 = "fcrdns"
    <2>1. v5' = Checks!fcrdns_forward(c)
      BY <1>6, <1>9
    <2>2. KnownOf(c)
      BY <1>1, <1>2, <1>3, <1>5, <1>9 DEF KnownOf
    <2>. QED
      BY <1>1, <1>3, <1>4, <1>9, <2>1, <2>2, FcrdnsForward
  <1>10. CASE v1 = "uribl"
    <2>1. v5' = Checks!uribl_answer(c, n)
      BY <1>6, <1>10
    <2>2. c.answer = "none" /\ ~c.timed_out =>
            /\ c.pending \cup c.seen = Checks!Names
            /\ \A m \in c.seen \ {n} : v2.names[c.group][m] # "listed"
            /\ \A g \in 1..(c.group - 1) : \A m \in Checks!Names : v2.names[g][m] # "listed"
      BY <1>1, <1>2, <1>3, <1>5, <1>10 DEF KnownOf
    <2>. QED
      BY <1>1, <1>3, <1>4, <1>10, <2>1, <2>2, UriblForward
  <1>. QED
    BY <1>7, <1>8, <1>9, <1>10 DEF ChecksInv, ChecksTypes, Checks!AllPlugins

LEMMA TimerEnds ==
    ASSUME ChecksAssumed, ChecksInv, Checks!timeout
    PROVE  ChecksInv'
  <1>. PICK old \in CheckSet : old = v5
    BY CallIs
  <1>1. old.timer /\ UNCHANGED <<v1, v2, v3, v4>>
    BY DEF Checks!timeout
  <1>2. Placed(old) /\ Same(old)
    BY <1>1, CallIs DEF ChecksInv, Asked
  <1>. PICK yes \in BOOLEAN, no \in BOOLEAN : yes = TRUE /\ no = FALSE
    OBVIOUS
  <1>. PICK c : c = [old EXCEPT !.timer = no, !.timed_out = yes]
    OBVIOUS
  <1>3. /\ c \in CheckSet /\ c.asked = old.asked /\ c.seen = old.seen /\ c.timed_out
        /\ c.answer = old.answer /\ c.under = old.under
        /\ c.started = old.started /\ c.group = old.group /\ c.called = old.called
    BY DEF CheckSet
  <1>4. Placed(c) /\ Same(c)
    BY <1>2, <1>3 DEF Placed, Same
  <1>5. v5' = IF v1 = "uribl" THEN Checks!chain_caller(c)
              ELSE Checks!Next_(c, Checks!TimerReply(v4))
    BY DEF Checks!timeout
  <1>6. CASE v1 = "uribl"
    <2>1. v5' = Checks!chain_caller(c)
      BY <1>5, <1>6
    <2>2. v2.first = "found"
      BY <1>6 DEF ChecksInv, ChecksTypes, Checks!First
    <2>. QED
      BY <1>1, <1>3, <1>4, <1>6, <2>1, <2>2, UriblGoesOn
  <1>7. CASE v1 # "uribl"
    <2>. PICK ret : ret = Checks!TimerReply(v4)
      OBVIOUS
    <2>1. ret \in Replies \ {"none"}
      BY DEF Checks!TimerReply, Replies, ChecksInv, ChecksTypes, Checks!AllPlugins
    <2>2. v5' = Checks!Next_(c, ret)
      BY <1>5, <1>7
    <2>3. c.answer = "none" => Follows(c, ret)
      BY <1>3, <1>4 DEF Follows, Same
    <2>. QED
      BY <1>1, <1>3, <1>4, <2>1, <2>2, <2>3, RepliesWith
  <1>. QED
    BY <1>6, <1>7

LEMMA HookTimesOut ==
    ASSUME ChecksAssumed, ChecksInv, Checks!hook_timeout
    PROVE  ChecksInv'
  <1>. PICK old \in CheckSet : old = v5
    BY CallIs
  <1>1. old.started /\ old.answer = "none" /\ UNCHANGED <<v1, v2, v3, v4>>
    BY NoAnswerIs DEF Checks!hook_timeout
  <1>2. Placed(old) /\ Same(old)
    BY <1>1, CallIs
  <1>. PICK yes \in BOOLEAN : yes = TRUE
    OBVIOUS
  <1>. PICK u : u = [old EXCEPT !.answer = "denysoft", !.timed_out = yes]
    OBVIOUS
  <1>3. /\ u \in CheckSet /\ u.asked = old.asked /\ u.seen = old.seen /\ u.timed_out
        /\ u.answer = "denysoft" /\ u.under = old.under
        /\ u.started = old.started /\ u.group = old.group /\ u.called = old.called
    BY DEF CheckSet, Replies
  <1>4. v5' = u
    BY DEF Checks!hook_timeout
  <1>5. Placed(u)
    BY <1>2, <1>3 DEF Placed
  <1>6. ChecksTypes' /\ InForce'
    BY <1>1, <1>3, <1>4, <1>5, TypesStay DEF Placed
  <1>7. Asked'
    BY <1>1, <1>3, <1>4, <1>5, AskedStays
  <1>8. Known'
    BY <1>1, <1>3, <1>4, KnownStays DEF KnownOf
  <1>9. Checks!OrderDoesNotMatter'
    BY <1>1, <1>3, <1>4, FollowsStill DEF Follows
  <1>. QED
    BY <1>6, <1>7, <1>8, <1>9 DEF ChecksInv

LEMMA SwitchedOffIs ==
    ASSUME ChecksInv
    PROVE  Checks!SwitchedOff = Off /\ Off \in Setting
  <1>. PICK d : d = {"no_rdns", "invalid_tld", "generic_rdns"}
    OBVIOUS
  <1>. PICK R \in SUBSET Flags, b \in BOOLEAN : v3 = [reject |-> R, allow_mx_ip |-> b]
    BY DEF ChecksInv, ChecksTypes, Setting
  <1>1. Off = [reject |-> R \ d, allow_mx_ip |-> b]
    BY DEF Off
  <1>2. v4 = v3 \/ v4 = Off
    BY DEF ChecksInv, InForce
  <1>3. Checks!SwitchedOff = [v4 EXCEPT !.reject = @ \ d]
    BY DEF Checks!SwitchedOff
  <1>4. [v3 EXCEPT !.reject = @ \ d] = [reject |-> R \ d, allow_mx_ip |-> b]
    OBVIOUS
  <1>5. ASSUME v4 = Off
        PROVE  [v4 EXCEPT !.reject = @ \ d] = [reject |-> R \ d, allow_mx_ip |-> b]
    <2>1. (R \ d) \ d = R \ d
      OBVIOUS
    <2>2. [v4 EXCEPT !.reject = @ \ d] = [reject |-> (R \ d) \ d, allow_mx_ip |-> b]
      BY <1>1, <1>5
    <2>. QED
      BY <2>1, <2>2
  <1>6. Off \in Setting
    BY <1>1 DEF Setting
  <1>. QED
    BY <1>1, <1>2, <1>3, <1>4, <1>5, <1>6

(* Other settings come into force.                                         *)
LEMMA SettingsChange ==
    ASSUME ChecksAssumed, ChecksInv, UNCHANGED <<v1, v2, v3>>, NEW s \in Setting, v4' = s,
           s = v3 \/ (v1 = "fcrdns" /\ s = Off), v5' = Checks!Under(v5, s)
    PROVE  ChecksInv'
  <1>. PICK old \in CheckSet : old = v5
    BY CallIs
  <1>. PICK w \in SUBSET Setting : w = old.under \cup {s}
    BY DEF CheckSet
  <1>. PICK u : u = IF old.answer = "none" THEN [old EXCEPT !.under = w] ELSE old
    OBVIOUS
  <1>1. v5' = u
    BY DEF Checks!Under, Checks!None
  <1>2. /\ u \in CheckSet /\ u.asked = old.asked /\ u.seen = old.seen /\ u.pending = old.pending
        /\ u.answer = old.answer /\ u.timed_out = old.timed_out /\ u.timer = old.timer
        /\ u.started = old.started /\ u.group = old.group /\ u.called = old.called
        /\ u.answer = "none" => s \in u.under /\ \A x \in old.under : x \in u.under
        /\ u.answer # "none" => u = old
    BY DEF CheckSet
  <1>3. u.group \in Checks!Groups(v1)
    BY <1>2, CallIs
  <1>4. ChecksTypes' /\ InForce'
    BY <1>1, <1>2, <1>3, TypesStay
  <1>5. Asked'
    BY <1>1, <1>2 DEF ChecksInv, Asked
  <1>6. KnownOf(u)
    BY <1>2 DEF ChecksInv, Known, KnownOf
  <1>7. Known'
    BY <1>1, <1>6, KnownStays
  <1>8. Checks!OrderDoesNotMatter'
    BY <1>1, <1>2, FollowsStill, FollowsIs DEF ChecksInv
  <1>. QED
    BY <1>4, <1>5, <1>7, <1>8 DEF ChecksInv

LEMMA Refreshes ==
    ASSUME ChecksAssumed, ChecksInv, Checks!refresh_config
    PROVE  ChecksInv'
  BY SwitchedOffIs, SettingsChange DEF Checks!refresh_config

LEMMA LoadsIni ==
    ASSUME ChecksAssumed, ChecksInv, Checks!load_ini
    PROVE  ChecksInv'
  <1>1. v3 \in Setting
    BY DEF ChecksInv, ChecksTypes
  <1>. QED
    BY <1>1, SettingsChange DEF Checks!load_ini

LEMMA HookStarts ==
    ASSUME ChecksAssumed, ChecksInv, Checks!hook
    PROVE  ChecksInv'
  <1>. PICK s \in IF v1 = "fcrdns" THEN {v4, Checks!SwitchedOff} ELSE {v4} :
          LET c == [Checks!NewCall EXCEPT !.started = TRUE, !.timer = TRUE, !.asked = "first",
                                          !.under = {s}] IN
          /\ v4' = s
          /\ v5' = IF v1 = "uribl" THEN Checks!do_lookups(c) ELSE c
    BY DEF Checks!hook
  <1>1. UNCHANGED <<v1, v2, v3>>
    BY DEF Checks!hook
  <1>2. s \in Setting /\ (v4' = v4 \/ (v1 = "fcrdns" /\ v4' = Off))
    BY SwitchedOffIs DEF ChecksInv, ChecksTypes
  <1>. PICK yes \in BOOLEAN, no \in BOOLEAN, S \in SUBSET Int, w \in SUBSET Setting :
          yes = TRUE /\ no = FALSE /\ S = {} /\ w = {s}
    BY <1>2
  <1>. PICK w0 \in SUBSET Setting : w0 = {}
    OBVIOUS
  <1>. PICK n : n = [started |-> no, group |-> 1, asked |-> "nothing", pending |-> S,
                     seen |-> S, timer |-> no, called |-> no, answer |-> "none",
                     timed_out |-> no, under |-> w0]
    OBVIOUS
  <1>n. n \in CheckSet /\ n = Checks!NewCall
    BY DEF CheckSet, Replies, Checks!NewCall, Checks!None
  <1>. PICK c : c = [n EXCEPT !.started = yes, !.timer = yes, !.asked = "first", !.under = w]
    OBVIOUS
  <1>3. c = [Checks!NewCall EXCEPT !.started = TRUE, !.timer = TRUE, !.asked = "first",
                                   !.under = {s}]
    BY <1>n
  <1>4. v5' = IF v1 = "uribl" THEN Checks!do_lookups(c) ELSE c
    BY <1>3
  <1>5. c \in CheckSet
    BY <1>n DEF CheckSet
  <1>6. /\ c.started = yes /\ c.group = 1 /\ c.asked = "first" /\ c.seen = S /\ ~c.called
        /\ c.answer = "none" /\ c.under = w /\ c.timed_out = no
    BY <1>n DEF CheckSet
  <1>7. 1 \in Checks!Groups(v1)
    BY DEF Checks!Groups, ChecksAssumed
  <1>8. \E u \in CheckSet : /\ v5' = u /\ Placed(u) /\ KnownOf(u)
                           /\ u.answer = "none" /\ u.under = w
    <2>1. CASE v1 # "uribl"
      <3>1. Placed(c) /\ KnownOf(c)
        BY <1>6, <1>7, <2>1 DEF Placed, KnownOf
      <3>. QED
        BY <1>4, <1>5, <1>6, <2>1, <3>1
    <2>2. CASE v1 = "uribl"
      <3>1. PICK u \in CheckSet :
                /\ u = Checks!do_lookups(c)
                /\ u.asked = "names" /\ u.pending = Checks!Names /\ u.seen = {} /\ ~u.called
                /\ u.answer = c.answer /\ u.under = c.under /\ u.timed_out = c.timed_out
                /\ u.started = c.started /\ u.group = c.group
        BY <1>5, UriblLooks
      <3>2. v2.first = "found"
        BY <2>2 DEF ChecksInv, ChecksTypes, Checks!First
      <3>3. Placed(u)
        BY <1>6, <1>7, <3>1, <3>2 DEF Placed
      <3>4. \A g \in 1..(u.group - 1) : FALSE
        BY <1>6, <3>1
      <3>5. u.pending \cup u.seen = Checks!Names /\ \A m \in u.seen : FALSE
        BY <3>1
      <3>6. KnownOf(u)
        BY <2>2, <3>4, <3>5 DEF KnownOf
      <3>. QED
        BY <1>4, <1>6, <2>2, <3>1, <3>3, <3>6
    <2>. QED
      BY <2>1, <2>2
  <1>. PICK u \in CheckSet : /\ v5' = u /\ Placed(u) /\ KnownOf(u)
                            /\ u.answer = "none" /\ u.under = w
    BY <1>8
  <1>9. ChecksTypes' /\ InForce'
    BY <1>1, <1>2, TypesStay DEF Placed
  <1>10. Asked'
    BY <1>1, AskedStays
  <1>11. Known'
    BY <1>1, KnownStays
  <1>12. Checks!OrderDoesNotMatter'
    BY <1>1, FollowsStill
  <1>. QED
    BY <1>9, <1>10, <1>11, <1>12 DEF ChecksInv

LEMMA ChecksInit ==
    ASSUME ChecksAssumed, Checks!Init
    PROVE  ChecksInv
  <1>1. v1 \in Checks!AllPlugins /\ v2.first \in Checks!First(v1)
    BY DEF Checks!Init, ChecksAssumed
  <1>2. v1 = "is_resolvable" => v2.implicit \in {"error", "none", "bogus", "good"}
    BY DEF Checks!Init
  <1>3. v3 \in Setting /\ v4 = v3
    BY <1>1 DEF Checks!Init, Checks!Settings, Setting, Flags, Checks!AllPlugins
  <1>. PICK no \in BOOLEAN, S \in SUBSET Int, w \in SUBSET Setting : no = FALSE /\ S = {} /\ w = {}
    OBVIOUS
  <1>. PICK c : c = [started |-> no, group |-> 1, asked |-> "nothing", pending |-> S, seen |-> S,
                     timer |-> no, called |-> no, answer |-> "none", timed_out |-> no,
                     under |-> w]
    OBVIOUS
  <1>4. v5 = c
    BY DEF Checks!Init, Checks!NewCall, Checks!None
  <1>5. c \in CheckSet
    BY DEF CheckSet, Replies
  <1>6. /\ c.started = no /\ c.group = 1 /\ c.asked = "nothing" /\ c.seen = S /\ ~c.called
        /\ c.answer = "none" /\ c.timer = no
    OBVIOUS
  <1>7. 1 \in Checks!Groups(v1)
    BY DEF Checks!Groups, ChecksAssumed
  <1>8. ChecksTypes /\ InForce
    BY <1>1, <1>2, <1>3, <1>4, <1>5, <1>6, <1>7 DEF ChecksTypes, InForce
  <1>9. Asked /\ Known
    BY <1>4, <1>6 DEF Asked, Known, KnownOf
  <1>10. Checks!OrderDoesNotMatter
    BY <1>4, <1>6, FollowsIs
  <1>. QED
    BY <1>8, <1>9, <1>10 DEF ChecksInv

LEMMA ChecksNext ==
    ASSUME ChecksAssumed, ChecksInv, Checks!Next
    PROVE  ChecksInv'
  BY HookStarts, Refreshes, FirstReplies, NoTransaction, ForwardReplies, TimerEnds, HookTimesOut, LoadsIni
     DEF Checks!Next

LEMMA ChecksPromise ==
    ASSUME ChecksInv
    PROVE  Checks!OrderDoesNotMatter
  BY DEF ChecksInv

----------------------------------------------------------------------------
(***************************************************************************)
(* Content scanners (v1 plugin, v2 bad, v3 txn, v4 scans, v5 answers, v6   *)
(* marks).                                                                 *)
(***************************************************************************)

Verdicts == {"none", "skipped", "denysoft", "deny", "cont", "left"}
Read == {"none", "infected", "garbled", "limit", "excluded", "clean"}
ScanSet ==
    [sock : {"none", "file", "connecting", "up", "ended", "closed"}, hosts : Nat,
     text : scan.Messages \cup {0}, reply : Read, file : BOOLEAN, late : BOOLEAN]

ScanTypes ==
    /\ v1 \in scan.Plugins /\ v2 \in SUBSET scan.Messages
    /\ v3 \in scan.Messages \cup {0}
    /\ v4 \in [scan.Messages -> ScanSet] /\ v5 \in [scan.Messages -> Verdicts]
    /\ v6 \in [scan.Messages -> SUBSET scan.Messages]

(* A daemon is given nothing before the connection to it is up.            *)
NothingGiven(s) == s.sock \in {"none", "file", "connecting"} => s.text = 0 /\ s.reply = "none"

(* A message that is scanned, and its hook not answered, is its            *)
(* connection's, and the daemon was given its own text.                    *)
IsCurrent(m, s, a, t) == a = "none" /\ s.sock # "none" => t = m
OwnText(m, s, a) ==
    s.sock \in {"up", "ended"} /\ (v1 # "spamassassin" \/ a = "none") => s.text = m

(* What is recognised is what was given.                                   *)
Recognised(s) == s.reply \in {"infected", "excluded"} => s.text \in v2

(* spamassassin writes no file, and goes on only with a message that was   *)
(* given up.                                                               *)
GoesOn(s, a) ==
    v1 = "spamassassin" =>
        /\ s.sock # "file"
        /\ s.sock \in {"connecting", "up", "ended"} => a = "none" \/ a = "left" \/ s.late

Justified(m, s, a) ==
    /\ a = "deny" => m \in v2
    /\ a = "cont" /\ v1 \in {"clamd", "avg"} =>
          s.text = m /\ s.reply \in {"clean", "limit", "excluded"}
Removed(s, a) == a \in {"cont", "deny"} /\ v1 = "avg" => ~s.file

Fine(m, s, a, t) ==
    /\ NothingGiven(s) /\ IsCurrent(m, s, a, t) /\ OwnText(m, s, a)
    /\ Recognised(s) /\ GoesOn(s, a) /\ Justified(m, s, a) /\ Removed(s, a)

GivenUp(s, a) == s.late \/ a = "left"

MarkedFine ==
    \A m \in scan.Messages : \A n \in v6[m] :
        n # m => v1 = "spamassassin" /\ GivenUp(v4[n], v5[n])

ScanInv ==
    /\ ScanTypes
    /\ \A m \in scan.Messages : Fine(m, v4[m], v5[m], v3)
    /\ MarkedFine

----------------------------------------------------------------------------
Turned(m, s, a) == v4' = [v4 EXCEPT ![m] = s] /\ v5' = [v5 EXCEPT ![m] = a]
Own(m, t) == v3' = v3 \/ (v3 = 0 /\ v3' = m)
Marks(m, s, a) ==
    \/ v6' = v6
    \/ \E n \in scan.Messages :
          v6' = [v6 EXCEPT ![n] = @ \cup {m}] /\ (n = m \/ (v1 = "spamassassin" /\ GivenUp(s, a)))

(* Where the scan of m and its hook's answer go in a step.                 *)
Turn(m, s, a) ==
    /\ s \in ScanSet /\ a \in Verdicts
    /\ Turned(m, s, a) /\ Own(m, v3) /\ v1' = v1 /\ v2' = v2
    /\ Fine(m, s, a, v3') /\ (GivenUp(v4[m], v5[m]) => GivenUp(s, a))
    /\ Marks(m, s, a)

LEMMA NotCurrent ==
    ASSUME ScanAssumed, NEW n \in scan.Messages, NEW s, NEW a, NEW t, Fine(n, s, a, 0)
    PROVE  Fine(n, s, a, t)
  <1>1. n # 0
    BY DEF ScanAssumed
  <1>. QED
    BY <1>1 DEF Fine, IsCurrent

LEMMA OneTurn ==
    ASSUME ScanAssumed, ScanInv, NEW m \in scan.Messages, NEW s, NEW a, Turn(m, s, a)
    PROVE  ScanInv'
  <1>1. /\ v1 \in scan.Plugins /\ v2 \in SUBSET scan.Messages /\ v3 \in scan.Messages \cup {0}
        /\ v4 \in [scan.Messages -> ScanSet] /\ v5 \in [scan.Messages -> Verdicts]
        /\ v6 \in [scan.Messages -> SUBSET scan.Messages]
    BY DEF ScanInv, ScanTypes
  <1>2. /\ s \in ScanSet /\ a \in Verdicts /\ v1' = v1 /\ v2' = v2
        /\ v4' = [v4 EXCEPT ![m] = s] /\ v5' = [v5 EXCEPT ![m] = a]
        /\ v3' = v3 \/ (v3 = 0 /\ v3' = m)
        /\ Fine(m, s, a, v3') /\ (GivenUp(v4[m], v5[m]) => GivenUp(s, a)) /\ Marks(m, s, a)
    BY DEF Turn, Turned, Own
  <1>3. /\ v4' \in [scan.Messages -> ScanSet] /\ v5' \in [scan.Messages -> Verdicts]
        /\ v4'[m] = s /\ v5'[m] = a
        /\ \A n \in scan.Messages : n # m => v4'[n] = v4[n] /\ v5'[n] = v5[n]
    BY <1>1, <1>2
  <1>4. v6' \in [scan.Messages -> SUBSET scan.Messages]
    BY <1>1, <1>2 DEF Marks
  <1>5. ScanTypes'
    BY <1>1, <1>2, <1>3, <1>4 DEF ScanTypes
  <1>6. ASSUME NEW n \in scan.Messages, n # m PROVE Fine(n, v4[n], v5[n], v3')
    <2>1. Fine(n, v4[n], v5[n], v3)
      BY DEF ScanInv
    <2>2. CASE v3' = v3
      BY <2>1, <2>2
    <2>3. CASE v3 = 0
      BY <2>1, <2>3, NotCurrent
    <2>. QED
      BY <1>2, <2>2, <2>3
  <1>7. ASSUME NEW n \in scan.Messages PROVE Fine(n, v4[n], v5[n], v3)'
    <2>1. Fine(n, v4'[n], v5'[n], v3')
      BY <1>2, <1>3, <1>6
    <2>. QED
      BY <1>2, <2>1
         DEF Fine, NothingGiven, IsCurrent, OwnText, Recognised, GoesOn, Justified, Removed
  <1>8. \A n \in scan.Messages : GivenUp(v4[n], v5[n]) => GivenUp(v4'[n], v5'[n])
    BY <1>2, <1>3
  <1>9. MarkedFine'
    <2>. SUFFICES ASSUME NEW k \in scan.Messages, NEW n \in v6'[k], n # k
                  PROVE  v1 = "spamassassin" /\ GivenUp(v4'[n], v5'[n])
      BY <1>2 DEF MarkedFine, GivenUp
    <2>1. n \in scan.Messages
      BY <1>4
    <2>2. CASE n \in v6[k]
      BY <1>8, <2>1, <2>2 DEF ScanInv, MarkedFine
    <2>3. CASE n \notin v6[k]
      <3>1. PICK j \in scan.Messages :
                v6' = [v6 EXCEPT ![j] = @ \cup {m}] /\ (j = m \/ (v1 = "spamassassin" /\ GivenUp(s, a)))
        BY <1>2, <2>3 DEF Marks
      <3>2. k = j /\ n = m
        BY <1>1, <2>3, <3>1
      <3>. QED
        BY <1>3, <3>1, <3>2
    <2>. QED
      BY <2>2, <2>3
  <1>10. \A n \in scan.Messages : Fine(n, v4[n], v5[n], v3)'
    BY <1>7
  <1>. QED
    BY <1>5, <1>9, <1>10 DEF ScanInv

LEMMA ScanInit == ASSUME ScanAssumed, Scan!Init PROVE ScanInv
  <1>. USE DEF Scan!Init
  <1>1. Scan!NewScan \in ScanSet
    BY DEF Scan!NewScan, Scan!None, ScanSet, Read
  <1>2. ScanTypes
    BY <1>1 DEF ScanTypes, Verdicts, Scan!None
  <1>3. ASSUME NEW m \in scan.Messages PROVE Fine(m, v4[m], v5[m], v3)
    <2>1. v4[m].sock = "none" /\ v4[m].text = 0 /\ v4[m].reply = "none" /\ v5[m] = "none"
      BY DEF Scan!NewScan, Scan!None
    <2>. QED
      BY <2>1 DEF Fine, NothingGiven, IsCurrent, OwnText, Recognised, GoesOn, Justified, Removed
  <1>4. MarkedFine
    BY DEF MarkedFine
  <1>. QED
    BY <1>2, <1>3, <1>4 DEF ScanInv

(* The state of the scan of m before the step.                             *)
LEMMA Scanned ==
    ASSUME ScanAssumed, ScanInv, NEW m \in scan.Messages
    PROVE  /\ v4[m] \in ScanSet /\ v5[m] \in Verdicts /\ Fine(m, v4[m], v5[m], v3) /\ m # 0
           /\ v3 \in scan.Messages \cup {0} /\ v4 \in [scan.Messages -> ScanSet]
           /\ v5 \in [scan.Messages -> Verdicts] /\ v6 \in [scan.Messages -> SUBSET scan.Messages]
           /\ v1 \in {"clamd", "avg", "spamassassin", "messagesniffer"}
  BY DEF ScanInv, ScanTypes, ScanAssumed

(* A scan is closed, or was, and its hook is answered, or was.             *)
Closes(s0, s) ==
    /\ s.sock = "closed" /\ s.text = s0.text /\ s.reply = s0.reply
    /\ s.file => s0.file
    /\ s0.late => s.late
Settles(a0, a, code) == a = IF a0 = "none" THEN code ELSE a0

LEMMA Closing ==
    ASSUME NEW m, NEW s0, NEW s, NEW a0, NEW a, NEW code, NEW t,
           Fine(m, s0, a0, t), Closes(s0, s), Settles(a0, a, code), code # "none",
           a0 = "none" => Justified(m, s, code) /\ Removed(s, code)
    PROVE  Fine(m, s, a, t) /\ (GivenUp(s0, a0) => GivenUp(s, a))
  <1>1. Justified(m, s, a) /\ Removed(s, a)
    BY DEF Fine, Closes, Settles, Justified, Removed
  <1>2. NothingGiven(s) /\ OwnText(m, s, a) /\ GoesOn(s, a) /\ Recognised(s)
    BY DEF Fine, Closes, NothingGiven, OwnText, GoesOn, Recognised
  <1>3. IsCurrent(m, s, a, t)
    BY DEF Fine, Settles, IsCurrent
  <1>4. GivenUp(s0, a0) => GivenUp(s, a)
    BY DEF Closes, Settles, GivenUp
  <1>. QED
    BY <1>1, <1>2, <1>3, <1>4 DEF Fine

LEMMA Failed ==
    ASSUME ScanAssumed, ScanInv, NEW m, NEW s
    PROVE  /\ Justified(m, s, Scan!OnFailure) /\ Removed(s, Scan!OnFailure)
           /\ Scan!OnFailure \in {"denysoft", "cont"}
  BY DEF Scan!OnFailure, Justified, Removed

LEMMA Judging ==
    ASSUME ScanAssumed, ScanInv, NEW m, NEW s, s.text = m, Recognised(s), s.reply \in Read
    PROVE  /\ Justified(m, s, Scan!Verdict(s.reply))
           /\ Scan!Verdict(s.reply) \in {"cont", "deny", "denysoft"}
  <1>1. CASE s.reply \in {"clean", "limit", "excluded"}
    BY <1>1 DEF Scan!Verdict, Justified
  <1>2. CASE s.reply = "infected"
    BY <1>2 DEF Scan!Verdict, Justified, Recognised
  <1>3. CASE s.reply \notin {"clean", "limit", "excluded"} /\ s.reply # "infected"
    <2>1. Scan!Verdict(s.reply) = Scan!OnFailure
      BY <1>3 DEF Scan!Verdict
    <2>. QED
      BY <2>1, Failed
  <1>. QED
    BY <1>1, <1>2, <1>3

LEMMA Hooked ==
    ASSUME ScanAssumed, ScanInv, NEW m \in scan.Messages, Scan!hook_data_post(m)
    PROVE  \E s, a : Turn(m, s, a)
  <1>. DEFINE n == Scan!NewScan
  <1>0. /\ n \in ScanSet /\ n.sock = "none" /\ n.text = 0 /\ n.reply = "none" /\ ~n.late
        /\ v4 \in [scan.Messages -> ScanSet] /\ v5 \in [scan.Messages -> Verdicts]
        /\ scan.NHosts \in Nat /\ v1 \in {"clamd", "avg", "spamassassin", "messagesniffer"}
    BY Scanned DEF ScanAssumed, Scan!NewScan, Scan!None, ScanSet, Read
  <1>1. /\ v3 = 0 /\ v3' = m /\ v5[m] = "none" /\ v4[m] = n
        /\ v1' = v1 /\ v2' = v2 /\ v6' = v6
    BY DEF Scan!hook_data_post, Scan!None
  <1>2. PICK s \in ScanSet, a \in {"none", "skipped", "denysoft"} :
            /\ Turned(m, s, a) /\ s.text = 0 /\ s.reply = "none" /\ ~s.late
            /\ s.sock \in {"none", "file", "connecting", "closed"}
            /\ s.sock = "connecting" => a = "none"
            /\ s.sock = "file" => v1 # "spamassassin"
    <2>1. CASE v5' = [v5 EXCEPT ![m] = "skipped"] /\ v4' = v4
      <3>1. v4' = [v4 EXCEPT ![m] = n]
        BY <1>0, <1>1, <2>1
      <3>2. Turned(m, n, "skipped")
        BY <2>1, <3>1 DEF Turned
      <3>. QED
        BY <1>0, <3>2
    <2>2. CASE v1 = "clamd" /\ Scan!try_next_host(m, [n EXCEPT !.hosts = scan.NHosts])
      <3>. PICK h : h = [n EXCEPT !.hosts = scan.NHosts]
        OBVIOUS
      <3>1. /\ h \in ScanSet /\ h.hosts = scan.NHosts /\ h.sock = "none" /\ h.text = 0
            /\ h.reply = "none" /\ ~h.late
        BY <1>0 DEF ScanSet
      <3>2. CASE h.hosts = 0
        <4>. PICK s : s = [h EXCEPT !.sock = "closed"]
          OBVIOUS
        <4>1. s \in ScanSet /\ s.sock = "closed" /\ s.text = 0 /\ s.reply = "none" /\ ~s.late
          BY <3>1 DEF ScanSet
        <4>2. Turned(m, s, "denysoft")
          BY <1>1, <2>2, <3>2 DEF Scan!try_next_host, Scan!Answered, Scan!Scan, Scan!None, Turned
        <4>. QED
          BY <4>1, <4>2
      <3>3. CASE h.hosts # 0
        <4>. PICK s : s = [h EXCEPT !.hosts = @ - 1, !.sock = "connecting"]
          OBVIOUS
        <4>1. s \in ScanSet /\ s.sock = "connecting" /\ s.text = 0 /\ s.reply = "none" /\ ~s.late
          <5>1. h.hosts - 1 \in Nat
            BY <1>0, <3>1, <3>3
          <5>. QED
            BY <3>1, <5>1 DEF ScanSet
        <4>2. v4' = [v4 EXCEPT ![m] = s] /\ v5' = v5
          BY <2>2, <3>3 DEF Scan!try_next_host, Scan!Scan
        <4>3. Turned(m, s, "none")
          BY <1>0, <1>1, <4>2 DEF Turned
        <4>. QED
          BY <4>1, <4>3
      <3>. QED
        BY <3>2, <3>3
    <2>3. CASE /\ v4' = [v4 EXCEPT ![m] = [n EXCEPT !.sock = "connecting"]] /\ v5' = v5
      <3>. PICK s : s = [n EXCEPT !.sock = "connecting"]
        OBVIOUS
      <3>1. s \in ScanSet /\ s.sock = "connecting" /\ s.text = 0 /\ s.reply = "none" /\ ~s.late
        BY <1>0 DEF ScanSet
      <3>2. Turned(m, s, "none")
        BY <1>0, <1>1, <2>3 DEF Turned
      <3>. QED
        BY <3>1, <3>2
    <2>4. CASE /\ v4' = [v4 EXCEPT ![m] = [n EXCEPT !.sock = "file", !.file = TRUE]] /\ v5' = v5
               /\ v1 # "spamassassin"
      <3>. PICK s : s = [n EXCEPT !.sock = "file", !.file = TRUE]
        OBVIOUS
      <3>1. s \in ScanSet /\ s.sock = "file" /\ s.text = 0 /\ s.reply = "none" /\ ~s.late
        BY <1>0 DEF ScanSet
      <3>2. Turned(m, s, "none")
        BY <1>0, <1>1, <2>4 DEF Turned
      <3>. QED
        BY <2>4, <3>1, <3>2
    <2>. HIDE DEF n
    <2>5. \/ v5' = [v5 EXCEPT ![m] = "skipped"] /\ v4' = v4
          \/ CASE v1 = "clamd" -> Scan!try_next_host(m, [n EXCEPT !.hosts = scan.NHosts])
               [] v1 = "spamassassin" -> Scan!Scan(m, [n EXCEPT !.sock = "connecting"]) /\ v5' = v5
               [] v1 \in Scan!WithFile ->
                    Scan!Scan(m, [n EXCEPT !.sock = "file", !.file = TRUE]) /\ v5' = v5
      BY DEF Scan!hook_data_post, n
    <2>6. CASE v1 = "clamd"
      BY <2>1, <2>2, <2>5, <2>6 DEF Scan!WithFile
    <2>7. CASE v1 = "spamassassin"
      BY <2>1, <2>3, <2>5, <2>7 DEF Scan!WithFile, Scan!Scan
    <2>8. CASE v1 \in {"avg", "messagesniffer"}
      BY <2>1, <2>4, <2>5, <2>8 DEF Scan!WithFile, Scan!Scan
    <2>. QED
      BY <1>0, <2>6, <2>7, <2>8
  <1>3. Fine(m, s, a, v3')
    BY <1>1, <1>2 DEF Fine, NothingGiven, IsCurrent, OwnText, Recognised, GoesOn, Justified, Removed
  <1>4. ~GivenUp(v4[m], v5[m])
    BY <1>0, <1>1 DEF GivenUp
  <1>. QED
    BY <1>1, <1>2, <1>3, <1>4 DEF Turn, Verdicts, Own, Marks

(* The steps that change nothing but the scan of m and its hook's answer.  *)
Stays == v1' = v1 /\ v2' = v2 /\ v3' = v3 /\ v6' = v6

LEMMA Turning ==
    ASSUME ScanAssumed, ScanInv, NEW m \in scan.Messages, NEW s \in ScanSet, NEW a \in Verdicts,
           Turned(m, s, a), Stays, Fine(m, s, a, v3), GivenUp(v4[m], v5[m]) => GivenUp(s, a)
    PROVE  Turn(m, s, a)
  BY DEF Turn, Stays, Own, Marks

LEMMA TurnsClosed ==
    ASSUME ScanAssumed, ScanInv, NEW m \in scan.Messages, NEW s \in ScanSet, NEW code \in Verdicts,
           Closes(v4[m], s), Stays, code # "none",
           v4' = [v4 EXCEPT ![m] = s], Scan!Answered(m, code),
           v5[m] = "none" => Justified(m, s, code) /\ Removed(s, code)
    PROVE  \E t, a : Turn(m, t, a)
  <1>. PICK a : a = IF v5[m] = "none" THEN code ELSE v5[m]
    OBVIOUS
  <1>1. a \in Verdicts /\ Settles(v5[m], a, code)
    BY Scanned DEF Settles
  <1>2. Turned(m, s, a)
    BY DEF Turned, Scan!Answered, Scan!None
  <1>3. Fine(m, s, a, v3) /\ (GivenUp(v4[m], v5[m]) => GivenUp(s, a))
    BY <1>1, Closing, Scanned
  <1>. QED
    BY <1>1, <1>2, <1>3, Turning

LEMMA Writes ==
    ASSUME ScanAssumed, ScanInv, NEW m \in scan.Messages, Scan!ws_close(m) \/ Scan!ws_error(m)
    PROVE  \E s, a : Turn(m, s, a)
  <1>. PICK s0 \in ScanSet : s0 = v4[m]
    BY Scanned
  <1>0. /\ Fine(m, s0, v5[m], v3) /\ v5 \in [scan.Messages -> Verdicts] /\ m # 0
        /\ v4 \in [scan.Messages -> ScanSet]
    BY Scanned
  <1>1. Stays /\ s0.sock = "file"
    BY DEF Scan!ws_close, Scan!ws_error, Stays
  <1>2. CASE Scan!ws_close(m)
    <2>. PICK s : s = [s0 EXCEPT !.sock = "connecting"]
      OBVIOUS
    <2>1. s \in ScanSet /\ s.sock = "connecting" /\ s.text = s0.text /\ s.reply = s0.reply
          /\ s.file = s0.file /\ s.late = s0.late
      BY DEF ScanSet
    <2>2. Turned(m, s, v5[m])
      BY <1>0, <1>2 DEF Scan!ws_close, Scan!Scan, Turned
    <2>3. Fine(m, s, v5[m], v3)
      BY <1>0, <1>1, <2>1
         DEF Fine, NothingGiven, IsCurrent, OwnText, Recognised, GoesOn, Justified, Removed
    <2>4. GivenUp(v4[m], v5[m]) => GivenUp(s, v5[m])
      BY <2>1 DEF GivenUp
    <2>. QED
      BY <1>0, <1>1, <2>1, <2>2, <2>3, <2>4, Turning
  <1>3. CASE Scan!ws_error(m)
    <2>1. PICK closes \in BOOLEAN : v4' = [v4 EXCEPT ![m] = [s0 EXCEPT !.sock = IF closes THEN "file" ELSE "closed"]]
      BY <1>3 DEF Scan!ws_error, Scan!Scan
    <2>. PICK s : s = [s0 EXCEPT !.sock = IF closes THEN "file" ELSE "closed"]
      OBVIOUS
    <2>2. s \in ScanSet /\ s.sock \in {"file", "closed"} /\ s.text = s0.text /\ s.reply = s0.reply
          /\ s.file = s0.file /\ s.late = s0.late
      BY DEF ScanSet
    <2>3. PICK a \in {"denysoft", "cont"} : a = Scan!OnFailure
      BY Failed
    <2>4. v5[m] = "none"
      BY <1>3 DEF Scan!ws_error, Scan!None
    <2>5. Turned(m, s, a)
      BY <1>3, <2>1, <2>3, <2>4 DEF Scan!ws_error, Scan!Answered, Turned, Scan!None
    <2>6. Justified(m, s, a) /\ Removed(s, a)
      BY <2>3, Failed
    <2>7. Fine(m, s, a, v3)
      BY <1>0, <1>1, <2>2, <2>4, <2>6
         DEF Fine, NothingGiven, IsCurrent, OwnText, Recognised, GoesOn
    <2>8. GivenUp(v4[m], v5[m]) => GivenUp(s, a)
      BY <2>2, <2>4 DEF GivenUp
    <2>. QED
      BY <1>1, <2>2, <2>5, <2>7, <2>8, Turning DEF Verdicts
  <1>. QED
    BY <1>2, <1>3

LEMMA Reached ==
    ASSUME ScanAssumed, ScanInv, NEW m \in scan.Messages, Scan!connect(m)
    PROVE  \E s, a : Turn(m, s, a)
  <1>. PICK s0 \in ScanSet : s0 = v4[m]
    BY Scanned
  <1>0. /\ Fine(m, s0, v5[m], v3) /\ v5 \in [scan.Messages -> Verdicts] /\ m # 0
        /\ v4 \in [scan.Messages -> ScanSet] /\ v3 \in scan.Messages \cup {0}
    BY Scanned
  <1>1. Stays /\ s0.sock = "connecting"
    BY DEF Scan!connect, Stays
  <1>2. CASE v1 = "spamassassin" /\ v3 = 0
    <2>. PICK s : s = [s0 EXCEPT !.sock = "closed"]
      OBVIOUS
    <2>1. s \in ScanSet /\ Closes(s0, s)
      BY DEF ScanSet, Closes
    <2>2. v4' = [v4 EXCEPT ![m] = s] /\ Scan!Answered(m, "cont")
      BY <1>2 DEF Scan!connect, Scan!Scan
    <2>3. Justified(m, s, "cont") /\ Removed(s, "cont")
      BY <1>2 DEF Justified, Removed
    <2>. QED
      BY <1>1, <2>1, <2>2, <2>3, TurnsClosed DEF Verdicts
  <1>3. CASE ~(v1 = "spamassassin" /\ v3 = 0)
    <2>. PICK x : x = IF v1 = "spamassassin" THEN v3 ELSE m
      OBVIOUS
    <2>. PICK s : s = [s0 EXCEPT !.sock = "up", !.text = x]
      OBVIOUS
    <2>1. s \in ScanSet /\ s.sock = "up" /\ s.text = x /\ s.reply = s0.reply
          /\ s.file = s0.file /\ s.late = s0.late
      BY <1>0 DEF ScanSet
    <2>2. Turned(m, s, v5[m])
      BY <1>0, <1>3 DEF Scan!connect, Scan!Scan, Turned
    <2>3. s0.text = 0 /\ s0.reply = "none" /\ (v5[m] = "none" => v3 = m)
      BY <1>0, <1>1 DEF Fine, NothingGiven, IsCurrent
    <2>4. Justified(m, s, v5[m])
      BY <1>0, <2>1, <2>3 DEF Fine, Justified
    <2>5. OwnText(m, s, v5[m])
      BY <2>1, <2>3 DEF OwnText
    <2>6. Fine(m, s, v5[m], v3)
      BY <1>0, <1>1, <2>1, <2>3, <2>4, <2>5
         DEF Fine, NothingGiven, IsCurrent, Recognised, GoesOn, Removed
    <2>7. GivenUp(v4[m], v5[m]) => GivenUp(s, v5[m])
      BY <2>1 DEF GivenUp
    <2>. QED
      BY <1>0, <1>1, <2>1, <2>2, <2>6, <2>7, Turning
  <1>. QED
    BY <1>2, <1>3

LEMMA RepliesRead ==
    ASSUME NEW s, NEW r \in Scan!Replies(s)
    PROVE  r \in Read /\ r # "none" /\ (r \in {"infected", "excluded"} => s.text \in v2)
  BY DEF Scan!Replies, Read

LEMMA Replied ==
    ASSUME ScanAssumed, ScanInv, NEW m \in scan.Messages, Scan!reply(m)
    PROVE  \E s, a : Turn(m, s, a)
  <1>. PICK s0 \in ScanSet : s0 = v4[m]
    BY Scanned
  <1>0. /\ Fine(m, s0, v5[m], v3) /\ v5 \in [scan.Messages -> Verdicts] /\ m # 0
        /\ v4 \in [scan.Messages -> ScanSet]
    BY Scanned
  <1>1. Stays /\ s0.sock \in {"up", "ended"} /\ s0.reply = "none"
    BY DEF Scan!reply, Stays, Scan!None
  <1>2. PICK r \in Scan!Replies(s0) :
            LET s == [s0 EXCEPT !.reply = r] IN
            IF v1 = "avg"
            THEN Scan!Answered(m, Scan!Verdict(r)) /\ Scan!Scan(m, Scan!Unlinked([s EXCEPT !.sock = "closed"]))
            ELSE Scan!Scan(m, s) /\ v5' = v5
    BY DEF Scan!reply
  <1>3. r \in Read /\ (r \in {"infected", "excluded"} => s0.text \in v2)
    BY RepliesRead
  <1>. PICK s1 : s1 = [s0 EXCEPT !.reply = r]
    OBVIOUS
  <1>4. s1 \in ScanSet /\ s1.sock = s0.sock /\ s1.text = s0.text /\ s1.reply = r
        /\ s1.file = s0.file /\ s1.late = s0.late
    BY <1>3 DEF ScanSet
  <1>5. Justified(m, s1, v5[m])
    BY <1>0, <1>1, <1>4 DEF Fine, Justified
  <1>6. Recognised(s1)
    BY <1>3, <1>4 DEF Recognised
  <1>7. Fine(m, s1, v5[m], v3)
    BY <1>0, <1>1, <1>4, <1>5, <1>6
       DEF Fine, NothingGiven, IsCurrent, OwnText, GoesOn, Removed
  <1>8. CASE v1 # "avg"
    <2>1. Turned(m, s1, v5[m])
      BY <1>0, <1>2, <1>8 DEF Scan!Scan, Turned
    <2>2. GivenUp(v4[m], v5[m]) => GivenUp(s1, v5[m])
      BY <1>4 DEF GivenUp
    <2>. QED
      BY <1>0, <1>1, <1>4, <1>7, <2>1, <2>2, Turning
  <1>9. CASE v1 = "avg"
    <2>. PICK s : s = [s1 EXCEPT !.sock = "closed", !.file = FALSE]
      OBVIOUS
    <2>1. /\ s \in ScanSet /\ s.sock = "closed" /\ s.text = s1.text /\ s.reply = r
          /\ s.file = FALSE /\ s.late = s1.late
      BY <1>4 DEF ScanSet
    <2>2. s1.text = m /\ s1.text = s.text
      BY <1>1, <1>4, <1>7, <1>9, <2>1 DEF Fine, OwnText
    <2>3. /\ Recognised(s) /\ s.reply \in Read
      BY <1>3, <1>6, <1>4, <2>1 DEF Recognised
    <2>4. PICK code \in {"cont", "deny", "denysoft"} : code = Scan!Verdict(r) /\ Justified(m, s, code)
      BY <2>1, <2>2, <2>3, Judging
    <2>5. Removed(s, code)
      BY <2>1 DEF Removed
    <2>. PICK a : a = IF v5[m] = "none" THEN code ELSE v5[m]
      OBVIOUS
    <2>6. a \in Verdicts
      BY <1>0 DEF Verdicts
    <2>7. Turned(m, s, a)
      <3>1. v4' = [v4 EXCEPT ![m] = Scan!Unlinked([s1 EXCEPT !.sock = "closed"])]
        BY <1>2, <1>9 DEF Scan!Scan
      <3>2. Scan!Unlinked([s1 EXCEPT !.sock = "closed"]) = s
        BY <1>4 DEF Scan!Unlinked, ScanSet
      <3>3. v5' = [v5 EXCEPT ![m] = a]
        BY <1>0, <1>2, <1>9, <2>4 DEF Scan!Answered, Scan!None
      <3>. QED
        BY <3>1, <3>2, <3>3 DEF Turned
    <2>8. Closes(s1, s) /\ Settles(v5[m], a, code)
      BY <2>1, <1>4 DEF Closes, Settles
    <2>9. Fine(m, s, a, v3) /\ (GivenUp(s1, v5[m]) => GivenUp(s, a))
      BY <1>7, <2>4, <2>5, <2>8, Closing
    <2>10. GivenUp(v4[m], v5[m]) => GivenUp(s, a)
      BY <1>4, <2>9 DEF GivenUp
    <2>. QED
      BY <1>1, <2>1, <2>6, <2>7, <2>9, <2>10, Turning
  <1>. QED
    BY <1>8, <1>9

LEMMA EndedOf ==
    ASSUME ScanAssumed, ScanInv, NEW m \in scan.Messages, Scan!end(m)
    PROVE  \E s, a : Turn(m, s, a)
  <1>. PICK s0 \in ScanSet : s0 = v4[m]
    BY Scanned
  <1>0. /\ Fine(m, s0, v5[m], v3) /\ v5 \in [scan.Messages -> Verdicts] /\ m # 0
        /\ v4 \in [scan.Messages -> ScanSet] /\ v3 \in scan.Messages \cup {0}
    BY Scanned
  <1>1. v1' = v1 /\ v2' = v2 /\ v3' = v3 /\ s0.sock \in {"up", "ended"}
    BY DEF Scan!end
  <1>. PICK f \in BOOLEAN : f = IF v1 = "avg" THEN s0.file ELSE FALSE
    BY DEF ScanSet
  <1>. PICK s : s = [s0 EXCEPT !.sock = "closed", !.file = f]
    OBVIOUS
  <1>2. /\ s \in ScanSet /\ s.text = s0.text /\ s.reply = s0.reply /\ Closes(s0, s)
    BY DEF ScanSet, Closes
  <1>3. v4' = [v4 EXCEPT ![m] = s]
    <2>1. v4' = [v4 EXCEPT ![m] = [(IF v1 = "avg" THEN s0 ELSE Scan!Unlinked(s0)) EXCEPT !.sock = "closed"]]
      BY DEF Scan!end, Scan!Scan
    <2>2. [(IF v1 = "avg" THEN s0 ELSE Scan!Unlinked(s0)) EXCEPT !.sock = "closed"] = s
      <3>1. CASE v1 = "avg"
        BY <3>1 DEF ScanSet
      <3>2. CASE v1 # "avg"
        BY <3>2 DEF Scan!Unlinked, ScanSet
      <3>. QED
        BY <3>1, <3>2
    <2>. QED
      BY <2>1, <2>2
  <1>4. PICK a \in Verdicts :
            /\ v5' = [v5 EXCEPT ![m] = a] /\ Fine(m, s, a, v3)
            /\ GivenUp(s0, v5[m]) => GivenUp(s, a)
    <2>1. CASE v1 = "avg"
      <3>1. v5' = v5
        BY <2>1 DEF Scan!end
      <3>2. v5' = [v5 EXCEPT ![m] = v5[m]]
        BY <1>0, <3>1
      <3>3. Fine(m, s, v5[m], v3)
        <4>1. s.sock = "closed" /\ s0.sock # "none" /\ s0.sock # "file" /\ (s.file => s0.file)
          BY <1>1, <1>2 DEF Closes
        <4>2. Removed(s, v5[m])
          BY <1>0, <4>1 DEF Fine, Removed
        <4>3. IsCurrent(m, s, v5[m], v3)
          BY <1>0, <4>1 DEF Fine, IsCurrent
        <4>4. NothingGiven(s) /\ OwnText(m, s, v5[m]) /\ GoesOn(s, v5[m])
          BY <4>1 DEF NothingGiven, OwnText, GoesOn
        <4>5. Recognised(s) /\ Justified(m, s, v5[m])
          BY <1>0, <1>2 DEF Fine, Recognised, Justified
        <4>. QED
          BY <4>2, <4>3, <4>4, <4>5 DEF Fine
      <3>4. GivenUp(s0, v5[m]) => GivenUp(s, v5[m])
        BY <1>2 DEF Closes, GivenUp
      <3>. QED
        BY <1>0, <3>2, <3>3, <3>4
    <2>2. CASE v1 # "avg"
      <3>. DEFINE code == IF v1 = "spamassassin" /\ v3 = 0 THEN "cont" ELSE Scan!Verdict(s0.reply)
                  a == IF v5[m] = "none" THEN code ELSE v5[m]
      <3>1. v5' = [v5 EXCEPT ![m] = a]
        BY <2>2 DEF Scan!end, Scan!Answered, Scan!None
      <3>2. code \in {"cont", "deny", "denysoft"}
        <4>1. PICK x : x = [s0 EXCEPT !.text = m, !.reply = s0.reply]
          OBVIOUS
        <4>2. Scan!Verdict(s0.reply) \in {"cont", "deny"} \/ Scan!Verdict(s0.reply) = Scan!OnFailure
          BY DEF Scan!Verdict
        <4>3. Scan!OnFailure \in {"denysoft", "cont"}
          BY Failed
        <4>. QED
          BY <4>2, <4>3
      <3>3. v5[m] = "none" => Justified(m, s, code)
        <4>. SUFFICES ASSUME v5[m] = "none" PROVE Justified(m, s, code)
          OBVIOUS
        <4>1. s.text = m /\ Recognised(s) /\ s.reply \in Read
          BY <1>0, <1>1, <1>2 DEF Fine, OwnText, Recognised, ScanSet
        <4>2. Justified(m, s, Scan!Verdict(s0.reply))
          BY <1>2, <4>1, Judging
        <4>3. v1 = "spamassassin" => Justified(m, s, "cont")
          BY DEF Justified
        <4>. QED
          BY <4>2, <4>3
      <3>4. Removed(s, code)
        BY <2>2 DEF Removed
      <3>5. a \in Verdicts
        BY <1>0, <3>2 DEF Verdicts
      <3>6. Settles(v5[m], a, code)
        BY DEF Settles
      <3>. HIDE DEF code, a
      <3>7. code # "none"
        BY <3>2
      <3>8. Fine(m, s, a, v3) /\ (GivenUp(s0, v5[m]) => GivenUp(s, a))
        BY <1>0, <1>2, <3>3, <3>4, <3>6, <3>7, Closing
      <3>. QED
        BY <3>1, <3>5, <3>8
    <2>. QED
      BY <2>1, <2>2
  <1>5. Marks(m, s, a)
    <2>. SUFFICES ASSUME v6' # v6 PROVE Marks(m, s, a)
      BY DEF Marks
    <2>1. v6' = [v6 EXCEPT ![Scan!Marked(m)] = @ \cup {m}] /\ Scan!Marked(m) # 0
      BY DEF Scan!end
    <2>2. CASE v1 = "spamassassin"
      <3>1. Scan!Marked(m) = v3
        BY <2>2 DEF Scan!Marked
      <3>2. v3 = m \/ GivenUp(s0, v5[m])
        BY <1>0, <1>1, <2>2 DEF Fine, GoesOn, IsCurrent, GivenUp
      <3>. QED
        BY <1>0, <1>4, <2>1, <2>2, <3>1, <3>2 DEF Marks
    <2>3. CASE v1 # "spamassassin"
      BY <2>1, <2>3 DEF Scan!Marked, Marks
    <2>. QED
      BY <2>2, <2>3
  <1>. QED
    BY <1>1, <1>2, <1>3, <1>4, <1>5 DEF Turn, Turned, Own

(* clamd's next host: none is left, or another is tried.                   *)
LEMMA NextHost ==
    ASSUME ScanAssumed, ScanInv, NEW m \in scan.Messages, Stays, v4[m].sock = "connecting",
           v1 = "clamd", Scan!try_next_host(m, v4[m])
    PROVE  \E s, a : Turn(m, s, a)
  <1>. PICK s0 \in ScanSet : s0 = v4[m]
    BY Scanned
  <1>0. /\ Fine(m, s0, v5[m], v3) /\ v5 \in [scan.Messages -> Verdicts]
    BY Scanned
  <1>1. CASE s0.hosts = 0
    <2>. PICK s : s = [s0 EXCEPT !.sock = "closed"]
      OBVIOUS
    <2>1. s \in ScanSet /\ Closes(s0, s)
      BY DEF ScanSet, Closes
    <2>2. v4' = [v4 EXCEPT ![m] = s] /\ Scan!Answered(m, "denysoft")
      BY <1>1 DEF Scan!try_next_host, Scan!Scan
    <2>3. Justified(m, s, "denysoft") /\ Removed(s, "denysoft")
      BY DEF Justified, Removed
    <2>. QED
      BY <2>1, <2>2, <2>3, TurnsClosed DEF Verdicts
  <1>2. CASE s0.hosts # 0
    <2>. PICK s : s = [s0 EXCEPT !.hosts = @ - 1, !.sock = "connecting"]
      OBVIOUS
    <2>1. /\ s \in ScanSet /\ s.sock = "connecting" /\ s.text = s0.text /\ s.reply = s0.reply
          /\ s.file = s0.file /\ s.late = s0.late
      <3>1. s0.hosts - 1 \in Nat
        <4>1. s0.hosts \in Nat
          BY DEF ScanSet
        <4>. QED
          BY <1>2, <4>1
      <3>. QED
        BY <3>1 DEF ScanSet
    <2>2. Turned(m, s, v5[m])
      BY <1>0, <1>2 DEF Scan!try_next_host, Scan!Scan, Turned
    <2>3. Fine(m, s, v5[m], v3)
      BY <1>0, <2>1 DEF Fine, NothingGiven, IsCurrent, OwnText, Recognised, GoesOn, Justified, Removed
    <2>4. GivenUp(v4[m], v5[m]) => GivenUp(s, v5[m])
      BY <2>1 DEF GivenUp
    <2>. QED
      BY <1>0, <2>1, <2>2, <2>3, <2>4, Turning
  <1>. QED
    BY <1>1, <1>2

LEMMA FailsOf ==
    ASSUME ScanAssumed, ScanInv, NEW m \in scan.Messages, Scan!error(m) \/ Scan!timeout(m)
    PROVE  \E s, a : Turn(m, s, a)
  <1>. PICK s0 \in ScanSet : s0 = v4[m]
    BY Scanned
  <1>0. /\ Fine(m, s0, v5[m], v3) /\ v5 \in [scan.Messages -> Verdicts]
        /\ v4 \in [scan.Messages -> ScanSet]
    BY Scanned
  <1>1. Stays
    BY DEF Scan!error, Scan!timeout, Stays
  <1>2. PICK code \in {"denysoft", "cont"} : code = Scan!OnFailure
    BY Failed
  <1>3. CASE v1 = "clamd" /\ s0.sock = "connecting"
    BY <1>1, <1>3, NextHost DEF Scan!error, Scan!timeout
  <1>4. CASE ~(v1 = "clamd" /\ s0.sock = "connecting") /\ Scan!error(m)
    <2>. PICK s : s = [s0 EXCEPT !.sock = "closed", !.file = FALSE]
      OBVIOUS
    <2>1. s \in ScanSet /\ Closes(s0, s)
      BY DEF ScanSet, Closes
    <2>2. Scan!Unlinked([s0 EXCEPT !.sock = "closed"]) = s
      BY DEF Scan!Unlinked, ScanSet
    <2>3. v4' = [v4 EXCEPT ![m] = s] /\ Scan!Answered(m, code)
      BY <1>2, <1>4, <2>2 DEF Scan!error, Scan!Scan
    <2>4. Justified(m, s, code) /\ Removed(s, code)
      BY <1>2, Failed
    <2>. QED
      BY <1>1, <2>1, <2>3, <2>4, TurnsClosed DEF Verdicts
  <1>5. CASE ~(v1 = "clamd" /\ s0.sock = "connecting") /\ Scan!timeout(m)
    <2>1. PICK k \in {"ended", "closed"} :
              k = IF v1 \in {"avg", "spamassassin"} /\ s0.sock = "up" THEN "ended" ELSE "closed"
      OBVIOUS
    <2>. PICK s : s = [s0 EXCEPT !.file = FALSE, !.late = TRUE, !.sock = k]
      OBVIOUS
    <2>2. /\ s \in ScanSet /\ s.sock = k /\ s.text = s0.text /\ s.reply = s0.reply
          /\ s.file = FALSE /\ s.late = TRUE
      BY DEF ScanSet
    <2>3. s0.sock \in {"connecting", "up"}
      BY <1>5 DEF Scan!timeout
    <2>. PICK a : a = IF v5[m] = "none" THEN code ELSE v5[m]
      OBVIOUS
    <2>4. a \in Verdicts /\ a # "none" /\ (v5[m] # "none" => a = v5[m]) /\ (v5[m] = "none" => a = code)
      BY <1>0 DEF Verdicts
    <2>5. Turned(m, s, a)
      <3>1. v4' = [v4 EXCEPT ![m] = [Scan!Unlinked(s0) EXCEPT !.late = TRUE,
                       !.sock = IF v1 \in {"avg", "spamassassin"} /\ @ = "up" THEN "ended" ELSE "closed"]]
        BY <1>5 DEF Scan!timeout, Scan!Scan
      <3>2. [Scan!Unlinked(s0) EXCEPT !.late = TRUE,
                 !.sock = IF v1 \in {"avg", "spamassassin"} /\ @ = "up" THEN "ended" ELSE "closed"] = s
        BY <2>1 DEF Scan!Unlinked, ScanSet
      <3>3. v5' = [v5 EXCEPT ![m] = a]
        BY <1>2, <1>5 DEF Scan!timeout, Scan!Answered, Scan!None
      <3>. QED
        BY <3>1, <3>2, <3>3 DEF Turned
    <2>6. Justified(m, s, code) /\ Removed(s, code)
      BY <1>2, Failed
    <2>7. Justified(m, s, a) /\ Removed(s, a)
      BY <1>0, <2>2, <2>4, <2>6 DEF Fine, Justified, Removed
    <2>8. OwnText(m, s, a)
      BY <1>0, <2>1, <2>2, <2>3, <2>4 DEF Fine, OwnText
    <2>9. Fine(m, s, a, v3)
      BY <1>0, <2>2, <2>4, <2>7, <2>8 DEF Fine, NothingGiven, IsCurrent, Recognised, GoesOn
    <2>10. GivenUp(v4[m], v5[m]) => GivenUp(s, a)
      BY <2>2 DEF GivenUp
    <2>. QED
      BY <1>1, <2>2, <2>4, <2>5, <2>9, <2>10, Turning
  <1>. QED
    BY <1>3, <1>4, <1>5

LEMMA HookGivenUp ==
    ASSUME ScanAssumed, ScanInv, NEW m \in scan.Messages, Scan!hook_timeout(m)
    PROVE  \E s, a : Turn(m, s, a)
  <1>. PICK s0 \in ScanSet : s0 = v4[m]
    BY Scanned
  <1>0. /\ Fine(m, s0, v5[m], v3) /\ v5 \in [scan.Messages -> Verdicts]
        /\ v4 \in [scan.Messages -> ScanSet]
    BY Scanned
  <1>1. Stays /\ v5[m] = "none"
    BY DEF Scan!hook_timeout, Stays, Scan!None
  <1>. PICK s : s = [s0 EXCEPT !.late = TRUE]
    OBVIOUS
  <1>2. /\ s \in ScanSet /\ s.sock = s0.sock /\ s.text = s0.text /\ s.reply = s0.reply
        /\ s.file = s0.file /\ s.late = TRUE
    BY DEF ScanSet
  <1>3. Turned(m, s, "denysoft")
    BY <1>0 DEF Scan!hook_timeout, Turned
  <1>4. Fine(m, s, "denysoft", v3)
    BY <1>0, <1>1, <1>2 DEF Fine, NothingGiven, IsCurrent, OwnText, Recognised, GoesOn, Justified, Removed
  <1>5. GivenUp(v4[m], v5[m]) => GivenUp(s, "denysoft")
    BY <1>2 DEF GivenUp
  <1>. QED
    BY <1>1, <1>2, <1>3, <1>4, <1>5, Turning DEF Verdicts

LEMMA Reset ==
    ASSUME ScanAssumed, ScanInv, Scan!reset_transaction
    PROVE  ScanInv'
  <1>1. /\ v3 # 0 /\ v3' = 0 /\ v1' = v1 /\ v2' = v2 /\ v4' = v4 /\ v6' = v6
        /\ \/ v5[v3] # "none" /\ v5' = v5
           \/ v5[v3] = "none" /\ v5' = [v5 EXCEPT ![v3] = "left"]
    BY DEF Scan!reset_transaction, Scan!None
  <1>2. v3 \in scan.Messages /\ v5 \in [scan.Messages -> Verdicts]
    BY <1>1 DEF ScanInv, ScanTypes
  <1>3. /\ v5' \in [scan.Messages -> Verdicts] /\ v5'[v3] # "none"
        /\ \A n \in scan.Messages : v5'[n] = v5[n] \/ v5'[n] = "left"
        /\ \A n \in scan.Messages : n # v3 => v5'[n] = v5[n]
    BY <1>1, <1>2 DEF Verdicts
  <1>4. ScanTypes'
    BY <1>1, <1>3 DEF ScanInv, ScanTypes
  <1>5. ASSUME NEW n \in scan.Messages PROVE Fine(n, v4[n], v5[n], v3)'
    <2>1. Fine(n, v4[n], v5[n], v3)
      BY DEF ScanInv
    <2>2. IsCurrent(n, v4[n], v5[n], v3)'
      BY <1>1, <1>3, <2>1 DEF Fine, IsCurrent
    <2>3. CASE v5'[n] = v5[n]
      BY <1>1, <2>1, <2>2, <2>3
         DEF Fine, NothingGiven, OwnText, Recognised, GoesOn, Justified, Removed
    <2>4. CASE v5'[n] = "left"
      BY <1>1, <2>1, <2>2, <2>4
         DEF Fine, NothingGiven, OwnText, Recognised, GoesOn, Justified, Removed
    <2>. QED
      BY <1>3, <2>3, <2>4
  <1>6. MarkedFine'
    <2>1. v6 \in [scan.Messages -> SUBSET scan.Messages]
      BY DEF ScanInv, ScanTypes
    <2>. QED
      BY <1>1, <1>3, <2>1 DEF ScanInv, MarkedFine, GivenUp
  <1>7. \A n \in scan.Messages : Fine(n, v4[n], v5[n], v3)'
    BY <1>5
  <1>. QED
    BY <1>4, <1>6, <1>7 DEF ScanInv

LEMMA ScanNext == ASSUME ScanAssumed, ScanInv, Scan!Next PROVE ScanInv'
  <1>1. CASE Scan!reset_transaction
    BY <1>1, Reset
  <1>2. ASSUME NEW m \in scan.Messages,
               \/ Scan!hook_data_post(m) \/ Scan!ws_close(m) \/ Scan!ws_error(m) \/ Scan!connect(m)
               \/ Scan!reply(m) \/ Scan!end(m) \/ Scan!error(m) \/ Scan!timeout(m) \/ Scan!hook_timeout(m)
        PROVE  ScanInv'
    <2>1. \E s, a : Turn(m, s, a)
      BY <1>2, Hooked, Writes, Reached, Replied, EndedOf, FailsOf, HookGivenUp
    <2>. QED
      BY <2>1, OneTurn
  <1>. QED
    BY <1>1, <1>2 DEF Scan!Next

LEMMA ScanPromise ==
    ASSUME ScanInv
    PROVE  Scan!VerdictIsJustified /\ Scan!OwnResults /\ Scan!FileIsRemoved
  <1>1. Scan!VerdictIsJustified
    BY DEF ScanInv, Fine, Justified, Scan!VerdictIsJustified
  <1>2. Scan!FileIsRemoved
    BY DEF ScanInv, Fine, Removed, Scan!FileIsRemoved
  <1>3. Scan!OwnResults
    BY DEF ScanInv, MarkedFine, GivenUp, Scan!OwnResults
  <1>. QED
    BY <1>1, <1>2, <1>3

----------------------------------------------------------------------------
(***************************************************************************)
(* Denials (v1 order, v2 hook, v3 i, v4 denial, v5 j, v6 score, v7 todo, v8 *)
(* pre, v9 txn, v10 relaying, v11 rcpt).                                   *)
(***************************************************************************)

Commands == {"connect", "ehlo", "mail", "rcpt", "rcpt_ok", "data", "data_post"}
DenialSet == [code : {"deny", "denysoft"}, by : PluginNames, hook : Commands, rcpt : Nat]
Transaction == [open : BOOLEAN, rcpt_to : SUBSET Nat, pre : Seq(DenialSet), denied : BOOLEAN]

(* A plugin of p's name has had its turn before the nth.                   *)
HadTurn(p, n) == \E m \in 1..(n - 1) : v1[m] = p

DenialTypes ==
    /\ v1 \in Seq(PluginNames) /\ v1 # <<>>
    /\ v2 \in Commands \cup {"greet", "wait", "closed", "queued"}
    /\ v2 \in Commands => v3 \in 1..Len(v1)
    /\ v4 \in DenialSet \cup {Denied!None}
    /\ v6 \in Int /\ v7 \in SUBSET {3, -3}
    /\ v8 \in Seq(DenialSet) /\ v9 \in Transaction
    /\ v10 \in BOOLEAN /\ v11 \in Nat

(* A denial is about the hook that runs, by the plugin whose turn it is.   *)
Current ==
    v4 # Denied!None =>
        /\ v2 \in Commands /\ v4.hook = v2 /\ v4.by = v1[v3] /\ v5 \in 1..Len(v1)

(* The denial of MAIL is kept.                                             *)
MailKept == v9.denied => \E n \in 1..Len(v9.pre) : v9.pre[n].hook = "mail"

(* delay_deny has let the recipient pass.                                  *)
Undenied ==
    v2 = "rcpt_ok" /\ ~v10 /\ ~Denied!Has("karma") /\ HadTurn("delay_deny", v3) =>
        v8 = <<>> /\ ~v9.denied

(* When karma is the last to speak, its score has let the message pass.    *)
GoodKarma ==
    v2 = "queued" /\ Denied!Has("karma") /\ v1[Len(v1)] = "karma" /\ "data_post" \in denied.deny_hooks =>
        v6 > -denied.Negative

DenialsInv ==
    /\ DenialTypes /\ Current /\ MailKept /\ Undenied
    /\ GoodKarma

----------------------------------------------------------------------------
DenialsStep == DenialsInv' /\ Denied!AcceptedUndenied

LEMMA OrderFacts ==
    ASSUME DenialsInv
    PROVE  /\ Len(v1) \in Nat /\ 1 <= Len(v1) /\ DOMAIN v1 = 1..Len(v1)
           /\ v2 \in Commands => v3 \in 1..Len(v1)
           /\ v9 \in Transaction /\ v9.pre \in Seq(DenialSet)
           /\ v8 \in Seq(DenialSet)
  <1>1. v1 \in Seq(PluginNames) /\ v1 # <<>>
    BY DEF DenialsInv, DenialTypes
  <1>2. Len(v1) \in Nat /\ Len(v1) # 0 /\ DOMAIN v1 = 1..Len(v1)
    BY <1>1, LenProperties, EmptySeq
  <1>. QED
    BY <1>2 DEF DenialsInv, DenialTypes, Transaction

(* The hook is over, with this answer.                                     *)
Over(code) ==
    /\ v4' = Denied!None
    /\ v2' \in Commands \cup {"greet", "wait", "closed", "queued"}
    /\ v2' \in Commands => v3' = 1
    /\ v9' \in Transaction
    /\ v9' = Denied!NoTxn \/ (v9'.pre = v9.pre /\ v9'.denied = v9.denied)
    /\ v2' = "queued" => v2 = "data_post" /\ code \in {"cont", "ok"}
    /\ v9'.rcpt_to \subseteq v9.rcpt_to \/ (v2 = "rcpt_ok" /\ code \in {"cont", "ok"})

LEMMA NoTxnIs == Denied!NoTxn \in Transaction /\ Denied!NoTxn.rcpt_to = {} /\ Denied!NoTxn.denied = FALSE
                 /\ Denied!NoTxn.pre = <<>>
  BY EmptySeq DEF Denied!NoTxn, Transaction

LEMMA respondIs ==
    ASSUME DenialsInv, v2 \in Commands, NEW code, Denied!respond(code)
    PROVE  Over(code)
  <1>1. v4' = Denied!None /\ v9 \in Transaction /\ v11 \in Nat
    BY DEF Denied!respond, DenialsInv, DenialTypes
  <1>2. CASE v2 = "rcpt"
    BY <1>1, <1>2 DEF Denied!respond, Over, Commands, Transaction
  <1>3. CASE v2 = "rcpt_ok"
    <2>1. v2' = "wait" /\ v9' = IF code \in {"cont", "ok"} THEN [v9 EXCEPT !.rcpt_to = v9.rcpt_to \cup {v11}] ELSE v9
      BY <1>3 DEF Denied!respond
    <2>2. v9' \in Transaction /\ v9'.pre = v9.pre /\ v9'.denied = v9.denied
      BY <1>1, <2>1 DEF Transaction
    <2>. QED
      BY <1>1, <1>3, <2>1, <2>2 DEF Over, Commands
  <1>4. CASE v2 \in {"connect", "ehlo"}
    BY <1>1, <1>4 DEF Denied!respond, Over, Commands, Transaction
  <1>5. CASE v2 = "mail"
    <2>1. v2' = "wait" /\ v9' = IF code \in {"cont", "ok"} THEN v9 ELSE Denied!NoTxn
      BY <1>5 DEF Denied!respond
    <2>. QED
      BY <1>1, <1>5, <2>1, NoTxnIs DEF Over, Commands
  <1>6. CASE v2 = "data" /\ code \in {"cont", "ok"}
    BY <1>1, <1>6 DEF Denied!respond, Over, Commands, Transaction
  <1>7. CASE v2 = "data_post" /\ code \in {"cont", "ok"}
    BY <1>1, <1>7 DEF Denied!respond, Over, Commands, Transaction
  <1>8. CASE v2 \in {"data", "data_post"} /\ code \notin {"cont", "ok"}
    <2>1. v2' = "wait" /\ v9' = Denied!NoTxn
      BY <1>8 DEF Denied!respond
    <2>. QED
      BY <1>1, <1>8, <2>1, NoTxnIs DEF Over, Commands
  <1>. QED
    BY <1>2, <1>3, <1>4, <1>5, <1>6, <1>7, <1>8 DEF Commands

(* Whoever is to be heard before the recipient is accepted has been.       *)
LEMMA AllHeard ==
    ASSUME DenialsInv, v2 = "rcpt_ok", ~(v3 < Len(v1)), ~v10, ~Denied!Has("karma"), Denied!Has("delay_deny"),
           v1[v3] # "delay_deny"
    PROVE  v8 = <<>> /\ ~v9.denied
  <1>1. v3 \in 1..Len(v1) /\ Len(v1) \in Nat /\ DOMAIN v1 = 1..Len(v1)
    BY OrderFacts DEF Commands
  <1>2. v3 = Len(v1)
    <2>1. PICK k : k = Len(v1)
      OBVIOUS
    <2>2. v3 \in 1..k /\ k \in Nat /\ ~(v3 < k)
      BY <1>1, <2>1
    <2>. QED
      BY ONLY <2>1, <2>2
  <1>3. PICK n \in 1..Len(v1) : v1[n] = "delay_deny"
    BY <1>1 DEF Denied!Has
  <1>4. n # v3
    BY <1>3
  <1>5. n \in 1..(v3 - 1)
    <2>1. PICK k : k = Len(v1)
      OBVIOUS
    <2>2. n \in 1..k /\ n # k /\ v3 = k /\ k \in Nat
      BY <1>1, <1>2, <1>4, <2>1
    <2>. QED
      BY ONLY <2>2
  <1>. QED
    BY <1>3, <1>5 DEF DenialsInv, Undenied, HadTurn

(* What a step leaves alone or keeps in its type.                          *)
RestOf(score, todo, pre) ==
    /\ v1' = v1 /\ v10' = v10 /\ v11' = v11
    /\ v6' = score /\ v7' = todo /\ v8' = pre
    /\ score \in Int /\ todo \in SUBSET {3, -3} /\ pre \in Seq(DenialSet)

LEMMA OverKeeps ==
    ASSUME DenialsInv, v2 \in Commands, NEW code, Over(code), NEW score, NEW todo, NEW pre, RestOf(score, todo, pre),
           v2 = "rcpt_ok" /\ code \in {"cont", "ok"} /\ ~v10 /\ ~Denied!Has("karma") /\ Denied!Has("delay_deny") =>
               v8 = <<>> /\ ~v9.denied,
           v2 = "data_post" /\ code \in {"cont", "ok"} /\ Denied!Has("karma") /\ v1[Len(v1)] = "karma"
               /\ "data_post" \in denied.deny_hooks => score > -denied.Negative
    PROVE  DenialsStep
  <1>1. DenialTypes'
    <2>1. v2' \in Commands => v3' \in 1..Len(v1)
      BY OrderFacts DEF Over
    <2>. QED
      BY <2>1 DEF DenialTypes, DenialsInv, Over, RestOf
  <1>2. Current'
    BY DEF Over, Current
  <1>3. MailKept'
    BY NoTxnIs DEF Over, MailKept, DenialsInv
  <1>4. Undenied'
    <2>1. v2' = "rcpt_ok" => v3' = 1
      BY DEF Over, Commands
    <2>2. ~(\E m \in 1..(1 - 1) : TRUE)
      OBVIOUS
    <2>. QED
      BY <2>1, <2>2 DEF Undenied, HadTurn
  <1>5. GoodKarma'
    BY DEF GoodKarma, Over, Denied!Has, RestOf
  <1>6. Denied!AcceptedUndenied
    BY DEF Denied!AcceptedUndenied, Over
  <1>. QED
    BY <1>1, <1>2, <1>3, <1>4, <1>5, <1>6 DEF DenialsStep, DenialsInv

(* The hook's next plugin has its turn.                                    *)
LEMMA OnKeeps ==
    ASSUME DenialsInv, v2 \in Commands, v3 < Len(v1), v3' = v3 + 1, v4' = Denied!None, v2' = v2,
           NEW score, NEW todo, NEW pre, RestOf(score, todo, pre),
           v9' \in Transaction, MailKept', v9'.rcpt_to = v9.rcpt_to,
           v2 = "rcpt_ok" => v9'.denied = v9.denied /\ pre = v8,
           v2 = "rcpt_ok" /\ ~v10 /\ ~Denied!Has("karma") /\ v1[v3] = "delay_deny" => v8 = <<>> /\ ~v9.denied
    PROVE  DenialsStep
  <1>0. v3 \in 1..Len(v1) /\ Len(v1) \in Nat
    BY OrderFacts
  <1>1. DenialTypes'
    <2>1. v3 + 1 \in 1..Len(v1)
      BY <1>0
    <2>. QED
      BY <2>1 DEF DenialTypes, DenialsInv, RestOf
  <1>2. Current'
    BY DEF Current
  <1>3. Undenied'
    <2>1. SUFFICES ASSUME v2 = "rcpt_ok", ~v10, ~Denied!Has("karma"), NEW m \in 1..((v3 + 1) - 1), v1[m] = "delay_deny"
                   PROVE  v8 = <<>> /\ ~v9.denied
      BY DEF Undenied, HadTurn, RestOf, Denied!Has
    <2>2. CASE m = v3
      BY <2>1, <2>2
    <2>3. CASE m # v3
      <3>1. m \in 1..(v3 - 1)
        BY <1>0, <2>3
      <3>. QED
        BY <2>1, <3>1 DEF DenialsInv, Undenied, HadTurn
    <2>. QED
      BY <2>2, <2>3
  <1>4. GoodKarma'
    BY DEF GoodKarma, Commands
  <1>5. Denied!AcceptedUndenied
    BY DEF Denied!AcceptedUndenied
  <1>. QED
    BY <1>1, <1>2, <1>3, <1>4, <1>5 DEF DenialsStep, DenialsInv

(* A plugin denies, or the denial goes to the next plugin.                 *)
LEMMA DenyKeeps ==
    ASSUME DenialsInv, v2 \in Commands, v3' = v3, v2' = v2, v4' \in DenialSet, v4'.hook = v2, v4'.by = v1[v3], v5' \in 1..Len(v1),
           NEW score, NEW todo, RestOf(score, todo, v8),
           v9' \in Transaction, MailKept', v9'.rcpt_to = v9.rcpt_to, v9'.denied = v9.denied
    PROVE  DenialsStep
  <1>1. DenialTypes'
    BY DEF DenialTypes, DenialsInv, RestOf
  <1>2. Current'
    BY DEF Current, RestOf
  <1>3. Undenied'
    BY DEF Undenied, HadTurn, RestOf, Denied!Has, DenialsInv
  <1>4. GoodKarma'
    BY DEF GoodKarma, Commands
  <1>5. Denied!AcceptedUndenied
    BY DEF Denied!AcceptedUndenied
  <1>. QED
    BY <1>1, <1>2, <1>3, <1>4, <1>5 DEF DenialsStep, DenialsInv

LEMMA MailKeptStays == ASSUME DenialsInv, v9' = v9 PROVE MailKept' /\ v9' \in Transaction
  BY DEF DenialsInv, MailKept, DenialTypes

(* A plugin lets the hook go on.                                           *)
LEMMA go_on_Keeps ==
    ASSUME DenialsInv, v2 \in Commands, Denied!go_on,
           NEW score, NEW todo, NEW pre, RestOf(score, todo, pre), v2 = "rcpt_ok" => pre = v8,
           v2 = "rcpt_ok" /\ ~v10 /\ ~Denied!Has("karma") /\ v1[v3] = "delay_deny" => v8 = <<>> /\ ~v9.denied,
           v2 = "data_post" /\ ~(v3 < Len(v1)) /\ Denied!Has("karma") /\ v1[Len(v1)] = "karma"
               /\ "data_post" \in denied.deny_hooks => score > -denied.Negative
    PROVE  DenialsStep
  <1>1. CASE v3 < Len(v1)
    <2>1. v3' = v3 + 1 /\ v4' = Denied!None /\ v2' = v2 /\ v9' = v9
      BY <1>1 DEF Denied!go_on
    <2>. QED
      BY <1>1, <2>1, MailKeptStays, OnKeeps
  <1>2. CASE ~(v3 < Len(v1))
    <2>1. Over("cont")
      BY <1>2, respondIs DEF Denied!go_on
    <2>. QED
      BY <1>2, <2>1, AllHeard, OverKeeps
  <1>. QED
    BY <1>1, <1>2

LEMMA ScoreIs == ASSUME NEW S \in SUBSET {3, -3} PROVE Denied!Sum(S) \in Int
  BY DEF Denied!Sum

LEMMA RestSame ==
    ASSUME DenialsInv, v1' = v1, v10' = v10, v11' = v11, v6' = v6, v7' = v7, v8' = v8
    PROVE  RestOf(v6, v7, v8)
  BY DEF DenialsInv, DenialTypes, RestOf

LEMMA TurnIs ==
    ASSUME DenialsInv, NEW p \in PluginNames, Denied!Turn(p)
    PROVE  v2 \in Commands /\ v4 = Denied!None /\ v1[v3] = p /\ v3 \in 1..Len(v1) /\ Len(v1) \in Nat
  <1>1. v2 \in Commands
    BY DEF Denied!Turn, DenialsInv, DenialTypes
  <1>. QED
    BY <1>1, OrderFacts DEF Denied!Turn

(* A new denial, by the plugin whose turn it is.                           *)
LEMMA deny_Keeps ==
    ASSUME DenialsInv, NEW code \in {"deny", "denysoft"}, NEW p \in PluginNames, Denied!Turn(p), Denied!deny(code, p),
           NEW score, NEW todo, RestOf(score, todo, v8)
    PROVE  DenialsStep
  <1>1. v2 \in Commands /\ v1[v3] = p
    BY TurnIs
  <1>2. PICK d : d = [code |-> code, by |-> p, hook |-> v2, rcpt |-> IF v2 \in {"rcpt", "rcpt_ok"} THEN v11 ELSE 0]
    OBVIOUS
  <1>3. v11 \in Nat
    BY DEF DenialsInv, DenialTypes
  <1>4. d \in DenialSet /\ d.hook = v2 /\ d.by = p
    BY <1>1, <1>2, <1>3 DEF DenialSet
  <1>5. v4' = d /\ v2' = v2 /\ v3' = v3 /\ v9' = v9 /\ v5' \in 1..Len(v1)
    BY <1>2, OrderFacts DEF Denied!deny
  <1>. QED
    BY <1>1, <1>4, <1>5, MailKeptStays, DenyKeeps

LEMMA x_Keeps == ASSUME DenialsInv, Denied!x PROVE DenialsStep
  <1>1. RestOf(v6, v7, v8)
    BY RestSame DEF Denied!x
  <1>2. v2 \in Commands /\ v1[v3] = "x" /\ v3 \in 1..Len(v1) /\ Len(v1) \in Nat /\ Denied!Turn("x") /\ "x" \in PluginNames
    BY TurnIs DEF Denied!x, PluginNames
  <1>3. v1[v3] # "delay_deny"
    BY <1>2
  <1>4. ~(v3 < Len(v1)) => v1[Len(v1)] # "karma"
    BY <1>2
  <1>5. CASE Denied!go_on
    BY <1>1, <1>2, <1>3, <1>4, <1>5, go_on_Keeps
  <1>6. CASE v2 = "rcpt" /\ Denied!respond("ok")
    BY <1>1, <1>2, <1>6, respondIs, OverKeeps
  <1>7. CASE \E code \in {"deny", "denysoft"} : Denied!deny(code, "x")
    BY <1>1, <1>2, <1>7, deny_Keeps
  <1>. QED
    BY <1>5, <1>6, <1>7 DEF Denied!x

LEMMA delay_deny_Keeps == ASSUME DenialsInv, Denied!delay_deny PROVE DenialsStep
  <1>1. RestOf(v6, v7, v8)
    BY RestSame DEF Denied!delay_deny
  <1>2. v2 \in Commands /\ v1[v3] = "delay_deny" /\ v3 \in 1..Len(v1) /\ Len(v1) \in Nat
    BY TurnIs DEF Denied!delay_deny, PluginNames
  <1>3. ~(v3 < Len(v1)) => v1[Len(v1)] # "karma"
    BY <1>2
  <1>4. CASE v2 # "rcpt_ok"
    BY <1>1, <1>2, <1>3, <1>4, go_on_Keeps DEF Denied!delay_deny
  <1>5. PICK q : q = v8 \o v9.pre
    OBVIOUS
  <1>6. /\ q \in Seq(DenialSet) /\ Len(v8) \in Nat /\ Len(v9.pre) \in Nat /\ Len(q) = Len(v8) + Len(v9.pre)
        /\ v8 \in Seq(DenialSet) /\ v9.pre \in Seq(DenialSet)
        /\ \A n \in 1..(Len(v8) + Len(v9.pre)) : q[n] = IF n <= Len(v8) THEN v8[n] ELSE v9.pre[n - Len(v8)]
    BY <1>5, OrderFacts, ConcatProperties, LenProperties
  <1>7. CASE v2 = "rcpt_ok" /\ (v10 \/ q = <<>>)
    <2>1. Denied!go_on
      BY <1>5, <1>7 DEF Denied!delay_deny, Denied!hook_rcpt_ok
    <2>2. q = <<>> => v8 = <<>> /\ v9.pre = <<>>
      BY <1>6, EmptySeq
    <2>3. v9.pre = <<>> => ~v9.denied
      BY EmptySeq DEF DenialsInv, MailKept
    <2>. QED
      BY <1>1, <1>2, <1>3, <1>7, <2>1, <2>2, <2>3, go_on_Keeps
  <1>8. CASE v2 = "rcpt_ok" /\ ~v10 /\ q # <<>>
    <2>1. Len(q) # 0 /\ Head(q) = q[1] /\ q[1] \in DenialSet
      BY <1>6, <1>8, EmptySeq, ElementOfSeq, LenProperties
    <2>2. PICK p \in DenialSet : p = Head(q) /\ p = q[1]
      BY <2>1
    <2>3. PICK d : d = [p EXCEPT !.by = "delay_deny", !.hook = v2, !.rcpt = v11]
      OBVIOUS
    <2>4. v11 \in Nat
      BY DEF DenialsInv, DenialTypes
    <2>5. d \in DenialSet /\ d.hook = v2 /\ d.by = "delay_deny"
      BY <1>2, <2>3, <2>4 DEF DenialSet, PluginNames
    <2>6. /\ v4' = d /\ v2' = v2 /\ v3' = v3 /\ v5' = 1
          /\ v9' = IF v8 = <<>> /\ p.hook \in {"rcpt", "rcpt_ok"} THEN [v9 EXCEPT !.pre = Tail(v9.pre)] ELSE v9
      BY <1>5, <1>8, <2>2, <2>3 DEF Denied!delay_deny, Denied!hook_rcpt_ok
    <2>a. v5' \in 1..Len(v1)
      BY <2>6, OrderFacts
    <2>7. CASE v9' = v9
      BY <2>a, <1>1, <1>2, <2>5, <2>6, <2>7, MailKeptStays, DenyKeeps
    <2>8. CASE v8 = <<>> /\ p.hook \in {"rcpt", "rcpt_ok"} /\ v9' = [v9 EXCEPT !.pre = Tail(v9.pre)]
      <3>1. Len(v8) = 0 /\ Len(v9.pre) # 0
        BY <1>6, <2>1, <2>8, EmptySeq
      <3>2. q[1] = v9.pre[1]
        <4>1. 1 \in 1..(Len(v8) + Len(v9.pre)) /\ ~(1 <= Len(v8)) /\ 1 - Len(v8) = 1
          BY <1>6, <3>1
        <4>. QED
          BY <1>6, <4>1
      <3>3. PICK r \in Seq(DenialSet) : r = v9.pre /\ r # <<>>
        BY <1>6, <3>1, EmptySeq
      <3>4. PICK t \in Seq(DenialSet) : t = Tail(r) /\ Len(t) = Len(r) - 1 /\ \A n \in 1..Len(t) : t[n] = r[n + 1]
        BY <3>3, HeadTailProperties
      <3>5. Len(r) \in Nat
        BY LenProperties
      <3>6. v9' \in Transaction /\ v9'.pre = t /\ v9'.rcpt_to = v9.rcpt_to /\ v9'.denied = v9.denied
        BY <2>8, <3>3, <3>4, OrderFacts DEF Transaction
      <3>7. MailKept'
        <4>1. SUFFICES ASSUME v9.denied PROVE \E n \in 1..Len(t) : t[n].hook = "mail"
          BY <3>6 DEF MailKept
        <4>2. PICK n \in 1..Len(r) : r[n].hook = "mail"
          BY <3>3, <4>1 DEF DenialsInv, MailKept
        <4>3. n # 1
          BY <2>2, <2>8, <3>2, <3>3, <4>2
        <4>4. n - 1 \in 1..Len(t) /\ (n - 1) + 1 = n
          BY <3>4, <3>5, <4>2, <4>3
        <4>5. t[n - 1] = r[n]
          BY <3>4, <4>4
        <4>. QED
          BY <4>2, <4>4, <4>5
      <3>. QED
        BY <1>1, <1>2, <2>5, <2>6, <2>a, <3>6, <3>7, DenyKeeps
    <2>. QED
      BY <2>6, <2>7, <2>8
  <1>. QED
    BY <1>4, <1>7, <1>8

LEMMA karma_Keeps == ASSUME DenialsAssumed, DenialsInv, Denied!karma PROVE DenialsStep
  <1>1. v1' = v1 /\ v8' = v8 /\ v10' = v10 /\ v11' = v11
    BY DEF Denied!karma
  <1>2. v2 \in Commands /\ v1[v3] = "karma" /\ v3 \in 1..Len(v1) /\ Len(v1) \in Nat /\ Denied!Turn("karma") /\ "karma" \in PluginNames
    BY TurnIs DEF Denied!karma, PluginNames
  <1>3. v6 \in Int /\ v7 \in SUBSET {3, -3} /\ v8 \in Seq(DenialSet)
    BY DEF DenialsInv, DenialTypes
  <1>4. CASE Denied!max_recipients
    <2>1. Denied!deny("denysoft", "karma") /\ RestOf(v6, v7, v8)
      BY <1>1, <1>3, <1>4 DEF Denied!karma, RestOf
    <2>. QED
      BY <1>2, <2>1, deny_Keeps
  <1>5. CASE ~Denied!max_recipients
    <2>1. PICK seen \in SUBSET v7 :
              /\ v7' = v7 \ seen /\ v6' = v6 + Denied!Sum(seen)
              /\ IF v6 + Denied!Sum(seen) <= -denied.Negative
                    /\ (IF v2 = "rcpt_ok" THEN "rcpt" ELSE v2) \in denied.deny_hooks
                 THEN Denied!deny("deny", "karma") ELSE Denied!go_on
      BY <1>5 DEF Denied!karma, Denied!should_we_deny
    <2>2. PICK sum \in Int : sum = Denied!Sum(seen)
      BY <1>3, ScoreIs
    <2>3. PICK score \in Int : score = v6 + sum
      BY <1>3
    <2>4. RestOf(score, v7 \ seen, v8)
      BY <1>1, <1>3, <2>1, <2>2, <2>3 DEF RestOf
    <2>5. CASE Denied!deny("deny", "karma")
      BY <1>2, <2>4, <2>5, deny_Keeps
    <2>6. CASE Denied!go_on /\ ~(score <= -denied.Negative /\ (IF v2 = "rcpt_ok" THEN "rcpt" ELSE v2) \in denied.deny_hooks)
      <3>1. v1[v3] # "delay_deny"
        BY <1>2
      <3>2. v2 = "data_post" /\ "data_post" \in denied.deny_hooks => ~(score <= -denied.Negative)
        BY <2>6
      <3>3. v2 = "data_post" /\ "data_post" \in denied.deny_hooks => score > -denied.Negative
        BY <2>3, <3>2 DEF DenialsAssumed
      <3>. QED
        BY <1>2, <2>4, <2>6, <3>1, <3>3, go_on_Keeps
    <2>. QED
      BY <2>1, <2>2, <2>3, <2>5, <2>6
  <1>. QED
    BY <1>4, <1>5

(* The denial stands, so far.                                              *)
LEMMA stands_Keeps ==
    ASSUME DenialsInv, v4 # Denied!None, Denied!stands, NEW score, NEW todo, RestOf(score, todo, v8)
    PROVE  DenialsStep
  <1>1. v2 \in Commands /\ v4.hook = v2 /\ v4.by = v1[v3] /\ v4 \in DenialSet
    BY DEF DenialsInv, Current, DenialTypes
  <1>2. CASE v5 < Len(v1)
    <2>1. v2' = v2 /\ v3' = v3 /\ v4' = v4 /\ v9' = v9 /\ v5' = v5 + 1
      BY <1>2 DEF Denied!stands
    <2>2. v5' \in 1..Len(v1)
      <3>1. v5 \in 1..Len(v1) /\ Len(v1) \in Nat
        BY OrderFacts DEF DenialsInv, Current
      <3>. QED
        BY <1>2, <2>1, <3>1
    <2>. QED
      BY <1>1, <2>1, <2>2, MailKeptStays, DenyKeeps
  <1>3. CASE ~(v5 < Len(v1))
    <2>1. Over(v4.code)
      BY <1>1, <1>3, respondIs DEF Denied!stands
    <2>2. v4.code \notin {"cont", "ok"}
      BY <1>1 DEF DenialSet
    <2>. QED
      BY <1>1, <2>1, <2>2, OverKeeps
  <1>. QED
    BY <1>2, <1>3

LEMMA deny_hook_Keeps == ASSUME DenialsInv, Denied!deny_hook PROVE DenialsStep
  <1>1. v1' = v1 /\ v7' = v7 /\ v10' = v10 /\ v11' = v11 /\ v4 # Denied!None
    BY DEF Denied!deny_hook
  <1>2. v2 \in Commands /\ v4.hook = v2 /\ v4.by = v1[v3] /\ v4 \in DenialSet
    BY <1>1 DEF DenialsInv, Current, DenialTypes
  <1>3. v6 \in Int /\ v7 \in SUBSET {3, -3} /\ v8 \in Seq(DenialSet) /\ v3 \in 1..Len(v1) /\ Len(v1) \in Nat
        /\ v9 \in Transaction /\ v9.pre \in Seq(DenialSet) /\ v11 \in Nat
    BY <1>2, OrderFacts DEF DenialsInv, DenialTypes
  <1>4. CASE Denied!deny_x
    <2>1. Denied!stands /\ RestOf(v6, v7, v8)
      BY <1>1, <1>3, <1>4 DEF Denied!deny_x, RestOf
    <2>. QED
      BY <1>1, <2>1, stands_Keeps
  <1>5. CASE Denied!delay_deny_hook_deny
    <2>1. v6' = v6
      BY <1>5 DEF Denied!delay_deny_hook_deny
    <2>2. CASE Denied!stands /\ v8' = v8
      BY <1>1, <1>3, <2>1, <2>2, stands_Keeps DEF RestOf
    <2>3. CASE /\ v4.hook \in {"connect", "ehlo"}
               /\ v8' = Append(v8, v4) /\ Denied!go_on
      <3>1. Append(v8, v4) \in Seq(DenialSet)
        BY <1>2, <1>3, AppendProperties
      <3>2. RestOf(v6, v7, Append(v8, v4))
        BY <1>1, <1>3, <2>1, <2>3, <3>1 DEF RestOf
      <3>3. v2 # "rcpt_ok" /\ v2 # "data_post"
        BY <1>2, <2>3
      <3>. QED
        BY <1>2, <2>3, <3>2, <3>3, go_on_Keeps
    <2>4. CASE /\ v4.by # "delay_deny" /\ v4.hook \notin {"data", "data_post", "connect", "ehlo"}
               /\ v8' = v8 /\ v4' = Denied!None
               /\ IF v3 < Len(v1)
                  THEN v3' = v3 + 1 /\ v2' = v2 /\ v9' = Denied!Noted
                  ELSE /\ v2' = IF v2 = "rcpt" /\ v10 THEN "rcpt_ok" ELSE "wait"
                       /\ v3' = IF v2 = "rcpt" /\ v10 THEN 1 ELSE 0
                       /\ v9' = [Denied!Noted EXCEPT !.rcpt_to = IF v2 = "rcpt_ok" THEN @ \cup {v11} ELSE @]
      <3>1. RestOf(v6, v7, v8)
        BY <1>1, <1>3, <2>1, <2>4 DEF RestOf
      <3>2. PICK s \in Seq(DenialSet) : /\ s = Append(v9.pre, v4) /\ Len(s) = Len(v9.pre) + 1 /\ Len(v9.pre) \in Nat
                                        /\ s[Len(v9.pre) + 1] = v4 /\ \A n \in 1..Len(v9.pre) : s[n] = v9.pre[n]
        <4>1. PICK r \in Seq(DenialSet) : r = v9.pre
          BY <1>3
        <4>2. /\ Append(r, v4) \in Seq(DenialSet) /\ Len(Append(r, v4)) = Len(r) + 1
              /\ Append(r, v4)[Len(r) + 1] = v4 /\ \A n \in 1..Len(r) : Append(r, v4)[n] = r[n]
          BY <1>2, AppendProperties
        <4>3. Len(r) \in Nat
          BY LenProperties
        <4>. QED
          BY <4>1, <4>2, <4>3
      <3>3. PICK N : N = Denied!Noted
        OBVIOUS
      <3>4. /\ N \in Transaction /\ N.pre = s /\ N.rcpt_to = v9.rcpt_to
            /\ N.denied = (v9.denied \/ v4.hook = "mail")
        BY <1>3, <3>2, <3>3 DEF Denied!Noted, Transaction
      <3>5. N.denied => \E n \in 1..Len(s) : s[n].hook = "mail"
        <4>1. CASE v4.hook = "mail"
          <5>1. Len(v9.pre) + 1 \in 1..Len(s)
            BY <3>2
          <5>. QED
            BY <3>2, <4>1, <5>1
        <4>2. CASE v9.denied
          <5>1. PICK n \in 1..Len(v9.pre) : v9.pre[n].hook = "mail"
            BY <4>2 DEF DenialsInv, MailKept
          <5>2. n \in 1..Len(s) /\ s[n] = v9.pre[n]
            BY <3>2
          <5>. QED
            BY <5>1, <5>2
        <4>. QED
          BY <3>4, <4>1, <4>2
      <3>6. v2 = "rcpt_ok" => N.denied = v9.denied
        <4>1. v9.denied \in BOOLEAN
          BY <1>3 DEF Transaction
        <4>. QED
          BY <1>2, <3>4, <4>1
      <3>7. v1[v3] # "delay_deny"
        BY <1>2, <2>4
      <3>8. CASE v3 < Len(v1)
        <4>1. v3' = v3 + 1 /\ v2' = v2 /\ v9' = N
          BY <2>4, <3>3, <3>8
        <4>2. MailKept'
          BY <3>4, <3>5, <4>1 DEF MailKept
        <4>. QED
          BY <1>2, <2>4, <3>1, <3>4, <3>6, <3>7, <3>8, <4>1, <4>2, OnKeeps
      <3>9. CASE ~(v3 < Len(v1))
        <4>1. PICK R : R = IF v2 = "rcpt_ok" THEN N.rcpt_to \cup {v11} ELSE N.rcpt_to
          OBVIOUS
        <4>2. v9' = [N EXCEPT !.rcpt_to = R]
          BY <2>4, <3>3, <3>9, <4>1
        <4>3. R \in SUBSET Nat
          BY <1>3, <3>4, <4>1 DEF Transaction
        <4>4. v9' \in Transaction /\ v9'.pre = s /\ v9'.denied = N.denied /\ v9'.rcpt_to = R
          BY <3>4, <4>2, <4>3 DEF Transaction
        <4>5. v2' \in {"rcpt_ok", "wait"} /\ (v2' = "rcpt_ok" => v3' = 1 /\ v10)
          BY <2>4, <3>9
        <4>6. DenialTypes'
          <5>1. v2' \in Commands => v3' \in 1..Len(v1)
            BY <4>5, OrderFacts DEF Commands
          <5>. QED
            BY <2>4, <3>1, <4>4, <4>5, <5>1 DEF DenialTypes, DenialsInv, RestOf, Commands
        <4>7. Current' /\ MailKept' /\ Undenied' /\ GoodKarma'
          BY <2>4, <3>1, <3>5, <4>4, <4>5 DEF Current, MailKept, Undenied, GoodKarma, RestOf
        <4>8. Denied!AcceptedUndenied
          <5>1. v2 # "rcpt_ok" => v9'.rcpt_to = v9.rcpt_to
            BY <3>4, <4>1, <4>4
          <5>. QED
            BY <3>7, <3>9, <5>1, AllHeard DEF Denied!AcceptedUndenied
        <4>. QED
          BY <4>6, <4>7, <4>8 DEF DenialsStep, DenialsInv
      <3>. QED
        BY <3>8, <3>9
    <2>. QED
      BY <1>5, <2>2, <2>3, <2>4 DEF Denied!delay_deny_hook_deny
  <1>6. CASE Denied!karma_hook_deny
    <2>1. v1[v5] = "karma" /\ v8' = v8
      BY <1>6 DEF Denied!karma_hook_deny
    <2>2. PICK score \in Int : score = v6 - (IF v4.code = "deny" THEN 2 ELSE 1)
      BY <1>3
    <2>3. RestOf(score, v7, v8)
      BY <1>1, <1>3, <1>6, <2>1, <2>2 DEF Denied!karma_hook_deny, RestOf
    <2>4. CASE Denied!stands
      BY <1>1, <2>3, <2>4, stands_Keeps
    <2>5. CASE Denied!go_on /\ v4.by # "karma"
      <3>1. ~(v3 < Len(v1)) => v3 = Len(v1)
        BY <1>3
      <3>2. ~(v3 < Len(v1)) => v1[Len(v1)] # "karma"
        BY <1>2, <2>5, <3>1
      <3>3. Denied!Has("karma")
        BY <1>1, <2>1, OrderFacts DEF Denied!Has, DenialsInv, Current
      <3>. QED
        BY <1>2, <2>3, <2>5, <3>2, <3>3, go_on_Keeps
    <2>. QED
      BY <1>6, <2>4, <2>5 DEF Denied!karma_hook_deny
  <1>. QED
    BY <1>4, <1>5, <1>6 DEF Denied!deny_hook

LEMMA CommandKeeps ==
    ASSUME DenialsInv, NEW h \in Commands \ {"rcpt_ok"}, v2 \in {"greet", "wait"}, Denied!Command(h), v10' = v10, v11' \in Nat,
           v9' \in Transaction, MailKept', v9'.rcpt_to \subseteq v9.rcpt_to
    PROVE  DenialsStep
  <1>1. v2' = h /\ v3' = 1 /\ v1' = v1 /\ v4' = v4 /\ v4 = Denied!None /\ v6' = v6 /\ v7' = v7 /\ v8' = v8
    BY DEF Denied!Command, DenialsInv, Current, Commands
  <1>2. DenialTypes'
    BY <1>1, OrderFacts DEF DenialTypes, DenialsInv
  <1>3. Current' /\ Undenied' /\ GoodKarma' /\ Denied!AcceptedUndenied
    BY <1>1 DEF Current, Undenied, GoodKarma, Denied!AcceptedUndenied, Commands
  <1>. QED
    BY <1>2, <1>3 DEF DenialsStep, DenialsInv

LEMMA client_Keeps ==
    ASSUME DenialsInv,
           \/ Denied!cmd_ehlo \/ Denied!cmd_auth \/ Denied!cmd_mail \/ Denied!cmd_rcpt
           \/ Denied!cmd_data \/ Denied!cmd_rset
    PROVE  DenialsStep
  <1>0. v11 \in Nat /\ v11 + 1 \in Nat /\ v9 \in Transaction
    BY DEF DenialsInv, DenialTypes
  <1>1. CASE Denied!cmd_data \/ Denied!cmd_rcpt
    <2>1. v9' = v9 /\ v10' = v10 /\ v11' \in Nat /\ v2 \in {"greet", "wait"}
      BY <1>0, <1>1 DEF Denied!cmd_data, Denied!cmd_rcpt
    <2>2. PICK h \in Commands \ {"rcpt_ok"} : Denied!Command(h)
      <3>1. \E h \in {"data", "rcpt"} : Denied!Command(h)
        BY <1>1 DEF Denied!cmd_data, Denied!cmd_rcpt
      <3>. QED
        BY <3>1 DEF Commands
    <2>. QED
      BY <2>1, <2>2, MailKeptStays, CommandKeeps
  <1>a. CASE Denied!cmd_ehlo
    <2>1. v9' = Denied!NoTxn /\ v10' = v10 /\ v11' = v11 /\ v2 \in {"greet", "wait"} /\ Denied!Command("ehlo")
      BY <1>a DEF Denied!cmd_ehlo
    <2>2. MailKept'
      BY <2>1, NoTxnIs DEF MailKept
    <2>. QED
      BY <1>0, <2>1, <2>2, NoTxnIs, CommandKeeps DEF Commands
  <1>2. CASE Denied!cmd_mail
    <2>1. v9' = [Denied!NoTxn EXCEPT !.open = TRUE] /\ v10' = v10 /\ v11' = v11 /\ v2 = "wait" /\ Denied!Command("mail")
      BY <1>2 DEF Denied!cmd_mail
    <2>2. v9' \in Transaction /\ v9'.rcpt_to = {} /\ v9'.denied = FALSE
      BY <2>1, NoTxnIs DEF Transaction
    <2>3. MailKept'
      BY <2>2 DEF MailKept
    <2>. QED
      BY <1>0, <2>1, <2>2, <2>3, CommandKeeps DEF Commands
  <1>3. CASE Denied!cmd_auth
    <2>1. /\ v1' = v1 /\ v2' = v2 /\ v3' = v3 /\ v4' = v4 /\ v5' = v5 /\ v6' = v6 /\ v7' = v7 /\ v8' = v8
          /\ v9' = v9 /\ v10' = TRUE /\ v11' = v11 /\ v2 = "wait"
      BY <1>3 DEF Denied!cmd_auth
    <2>2. DenialTypes' /\ Current' /\ MailKept' /\ Undenied'
      BY <2>1 DEF DenialsInv, DenialTypes, Current, MailKept, Undenied
    <2>3. GoodKarma' /\ Denied!AcceptedUndenied
      BY <2>1 DEF GoodKarma, Denied!AcceptedUndenied
    <2>. QED
      BY <2>2, <2>3 DEF DenialsStep, DenialsInv
  <1>4. CASE Denied!cmd_rset
    <2>1. /\ v1' = v1 /\ v2' = v2 /\ v3' = v3 /\ v4' = v4 /\ v5' = v5 /\ v6' = v6 /\ v7' = v7 /\ v8' = v8
          /\ v9' = Denied!NoTxn /\ v10' = v10 /\ v11' = v11 /\ v2 = "wait"
      BY <1>4 DEF Denied!cmd_rset
    <2>2. DenialTypes'
      BY <2>1, NoTxnIs DEF DenialsInv, DenialTypes
    <2>3. Current' /\ MailKept' /\ Undenied'
      BY <2>1, NoTxnIs DEF DenialsInv, Current, MailKept, Undenied
    <2>4. GoodKarma' /\ Denied!AcceptedUndenied
      BY <2>1, NoTxnIs DEF GoodKarma, Denied!AcceptedUndenied
    <2>. QED
      BY <2>2, <2>3, <2>4 DEF DenialsStep, DenialsInv
  <1>. QED
    BY <1>1, <1>a, <1>2, <1>3, <1>4

LEMMA DenialsInit == ASSUME DenialsAssumed, Denied!Init PROVE DenialsInv
  <1>1. v1 \in Seq(PluginNames) /\ v1 # <<>> /\ Len(v1) \in Nat /\ Len(v1) # 0
    BY LenProperties, EmptySeq DEF Denied!Init, DenialsAssumed
  <1>2. 1 \in 1..Len(v1)
    BY <1>1
  <1>3. DenialTypes
    <2>1. /\ v2 = "connect" /\ v3 = 1 /\ v4 = Denied!None /\ v6 = 0 /\ v8 = <<>>
          /\ v9 = Denied!NoTxn /\ v10 = FALSE /\ v11 = 0
      BY DEF Denied!Init
    <2>2. v8 \in Seq(DenialSet)
      BY <2>1, EmptySeq
    <2>3. v9 \in Transaction
      BY <2>1, NoTxnIs
    <2>4. v2 \in Commands /\ v3 \in 1..Len(v1)
      BY <1>2, <2>1 DEF Commands
    <2>5. v6 \in Int /\ v7 \in SUBSET {3, -3} /\ v10 \in BOOLEAN /\ v11 \in Nat
      <3>1. v7 \in SUBSET {3, -3}
        <4>1. \A S : S \in SUBSET S
          OBVIOUS
        <4>2. v7 = {3, -3}
          BY DEF Denied!Init
        <4>. QED
          BY <4>1, <4>2
      <3>2. v6 \in Int /\ v11 \in Nat
        <4>1. v6 = 0 /\ v11 = 0
          BY <2>1
        <4>. QED
          BY ONLY <4>1
      <3>3. v10 \in BOOLEAN
        <4>1. v10 = FALSE
          BY <2>1
        <4>. QED
          BY ONLY <4>1
      <3>. QED
        BY <3>1, <3>2, <3>3
    <2>. QED
      BY <1>1, <2>1, <2>2, <2>3, <2>4, <2>5 DEF DenialTypes
  <1>4. Current /\ MailKept /\ Undenied /\ GoodKarma
    BY NoTxnIs DEF Denied!Init, Current, MailKept, Undenied, GoodKarma
  <1>. QED
    BY <1>3, <1>4 DEF DenialsInv

LEMMA DenialsNext ==
    ASSUME DenialsAssumed, DenialsInv, Denied!Next
    PROVE  DenialsInv' /\ Denied!AcceptedUndenied
  <1>1. DenialsStep
    BY x_Keeps, delay_deny_Keeps, karma_Keeps, deny_hook_Keeps, client_Keeps DEF Denied!Next
  <1>. QED
    BY <1>1 DEF DenialsStep

----------------------------------------------------------------------------
(* When karma has the last word and nobody takes denials away from it,     *)
(* each denial of x lowers its score, now or when its turn in the deny hook *)
(* comes, and the awards raise it by 3 at most.                            *)
KarmaJudges == v1[Len(v1)] = "karma" /\ ~Denied!Has("delay_deny")
Granted(awards) == IF 3 \in awards THEN 0 ELSE 3
Unscored == IF v4 # Denied!None /\ v4.by = "x" /\ ~HadTurn("karma", v5) THEN 1 ELSE 0

ScoreKept == v12 \in Nat /\ (KarmaJudges => v6 + v12 <= Granted(v7) + Unscored)

LEMMA UnscoredIs == Unscored \in {0, 1} /\ (v4 = Denied!None => Unscored = 0)
  BY DEF Unscored

LEMMA GrantedIs == ASSUME NEW S \in SUBSET {3, -3} PROVE Granted(S) \in {0, 3}
  BY DEF Granted

LEMMA AwardsLimited ==
    ASSUME NEW S \in SUBSET {3, -3}, NEW T \in SUBSET S
    PROVE  Denied!Sum(T) \in Int /\ Granted(S) + Denied!Sum(T) <= Granted(S \ T)
  <1>1. CASE 3 \in T
    <2>1. 3 \in S /\ 3 \notin S \ T
      BY <1>1
    <2>2. Denied!Sum(T) \in {0, 3} /\ Granted(S) = 0 /\ Granted(S \ T) = 3
      BY <1>1, <2>1 DEF Denied!Sum, Granted
    <2>. QED
      BY <2>2
  <1>2. CASE 3 \notin T
    <2>1. Denied!Sum(T) \in {0, -3}
      BY <1>2 DEF Denied!Sum
    <2>2. Granted(S) = Granted(S \ T) /\ Granted(S) \in {0, 3}
      BY <1>2 DEF Granted
    <2>. QED
      BY <2>1, <2>2
  <1>. QED
    BY <1>1, <1>2

(* It is enough that the score and the denials do not gain on the rest.    *)
LEMMA ScoreBalance ==
    ASSUME DenialsInv, DenialsInv', ScoreKept, v1' = v1, v12' \in Nat,
           NEW g \in Int, g = Granted(v7), NEW h \in Int, h = Granted(v7'),
           NEW u \in Int, u = Unscored, NEW w \in Int, w = Unscored',
           KarmaJudges => v6' + v12' - h - w <= v6 + v12 - g - u
    PROVE  ScoreKept'
  <1>1. KarmaJudges' <=> KarmaJudges
    BY DEF KarmaJudges, Denied!Has
  <1>2. v6 \in Int /\ v6' \in Int /\ v12 \in Int
    BY DEF DenialsInv, DenialTypes, ScoreKept
  <1>3. Granted(v7)' = h
    BY DEF Granted
  <1>4. SUFFICES ASSUME KarmaJudges PROVE v6' + v12' <= h + w
    BY <1>1, <1>3 DEF ScoreKept
  <1>5. v6 + v12 <= g + u
    BY <1>4 DEF ScoreKept
  <1>. QED
    BY <1>2, <1>4, <1>5

LEMMA ScoreNext ==
    ASSUME DenialsAssumed, DenialsInv, DenialsInv', ScoreKept, Denied!Next
    PROVE  ScoreKept'
  <1>1. /\ v6 \in Int /\ v6' \in Int /\ v12 \in Nat /\ v7 \in SUBSET {3, -3} /\ v7' \in SUBSET {3, -3}
        /\ DOMAIN v1 = 1..Len(v1) /\ Len(v1) \in Nat
    BY OrderFacts DEF DenialsInv, DenialTypes, ScoreKept
  <1>2. PICK g \in Int : g = Granted(v7)
    BY <1>1, GrantedIs
  <1>3. PICK h \in Int : h = Granted(v7')
    BY <1>1, GrantedIs
  <1>4. PICK u \in Int : u = Unscored /\ (u = 0 \/ u = 1)
    BY UnscoredIs
  <1>5. PICK w \in Int : w = Unscored' /\ (w = 0 \/ w = 1)
    BY DEF Unscored
  <1>6. v1' = v1
    BY DEF Denied!Next, Denied!x, Denied!delay_deny, Denied!karma, Denied!deny_hook, Denied!cmd_ehlo, Denied!cmd_auth,
           Denied!cmd_mail, Denied!cmd_rcpt, Denied!cmd_data, Denied!cmd_rset, Denied!Command
  <1>b. ASSUME v12' \in Nat, KarmaJudges => v6' + v12' - h - w <= v6 + v12 - g - u
        PROVE  ScoreKept'
    <2>1. v12' \in Nat /\ (KarmaJudges => v6' + v12' - h - w <= v6 + v12 - g - u)
      BY <1>b
    <2>. QED
      BY ONLY <1>2, <1>3, <1>4, <1>5, <1>6, <2>1, DenialsInv, DenialsInv', ScoreKept, ScoreBalance
  <1>c. ASSUME NEW s \in Int, s = v6, NEW t \in Int, t = v6', NEW n \in Nat, n = v12, v12' = n,
               KarmaJudges => t - h - w <= s - g - u
        PROVE  ScoreKept'
    <2>1. KarmaJudges => v6' + v12' - h - w <= v6 + v12 - g - u
      <3>1. SUFFICES ASSUME KarmaJudges PROVE t + n - h - w <= s + n - g - u
        BY <1>c
      <3>2. t - h - w <= s - g - u
        BY <1>c, <3>1
      <3>. QED
        BY <3>2
    <2>. QED
      BY <1>b, <1>c, <2>1
  <1>h. 0 <= u /\ u <= 1 /\ 0 <= w /\ w <= 1
    <2>1. (u = 0 \/ u = 1) /\ (w = 0 \/ w = 1)
      BY <1>4, <1>5
    <2>. QED
      BY ONLY <2>1
  <1>d. PICK s \in Int : s = v6
    BY <1>1
  <1>e. PICK t \in Int : t = v6'
    BY <1>1
  <1>f. PICK n \in Nat : n = v12
    BY <1>1
  <1>7. CASE Denied!x
    <2>1. t = s /\ v7' = v7 /\ u = 0 /\ g = h
      BY <1>2, <1>3, <1>4, <1>7, <1>d, <1>e, UnscoredIs DEF Denied!x, Denied!Turn
    <2>2. CASE v12' = v12
      <3>1. t - h - w <= s - g - u
        <4>1. t = s /\ u = 0 /\ g = h
          BY <2>1
        <4>. QED
          BY ONLY <1>h, <4>1
      <3>. QED
        BY <1>c, <1>d, <1>e, <1>f, <2>2, <3>1
    <2>3. CASE v12' = v12 + 1 /\ \E code \in {"deny", "denysoft"} : Denied!deny(code, "x")
      <3>1. PICK code \in {"deny", "denysoft"} : Denied!deny(code, "x")
        BY <2>3
      <3>2. PICK d : d = [code |-> code, by |-> "x", hook |-> v2, rcpt |-> IF v2 \in {"rcpt", "rcpt_ok"} THEN v11 ELSE 0]
        OBVIOUS
      <3>3. v4' = d /\ d.by = "x" /\ v5' = 1
        BY <3>1, <3>2 DEF Denied!deny
      <3>4. d # Denied!None
        BY <3>3 DEF Denied!None
      <3>5. 1..(1 - 1) = {}
        OBVIOUS
      <3>6. w = 1
        BY <1>5, <3>3, <3>4, <3>5 DEF Unscored, HadTurn
      <3>7. t + (n + 1) - h - w <= s + n - g - u
        BY <2>1, <3>6
      <3>8. v12' \in Nat /\ v12' = n + 1
        BY <1>f, <2>3
      <3>9. v6' + v12' - h - w <= v6 + v12 - g - u
        BY <1>d, <1>e, <1>f, <3>7, <3>8
      <3>. QED
        BY <1>b, <3>8, <3>9
    <2>. QED
      BY <1>7, <2>2, <2>3 DEF Denied!x
  <1>8. CASE Denied!delay_deny
    <2>1. ~KarmaJudges /\ v12' = v12
      BY <1>1, <1>8, TurnIs DEF Denied!delay_deny, KarmaJudges, Denied!Has, PluginNames
    <2>. QED
      BY <1>c, <1>d, <1>e, <1>f, <2>1
  <1>9. CASE Denied!karma
    <2>1. v12' = v12 /\ u = 0
      BY <1>4, <1>9, UnscoredIs DEF Denied!karma, Denied!Turn
    <2>2. t - h <= s - g
      <3>1. CASE v6' = v6 /\ v7' = v7
        BY <1>2, <1>3, <1>d, <1>e, <3>1
      <3>2. CASE Denied!should_we_deny
        <4>1. PICK seen \in SUBSET v7 : v7' = v7 \ seen /\ v6' = v6 + Denied!Sum(seen)
          BY <3>2 DEF Denied!should_we_deny
        <4>2. PICK sum \in Int : sum = Denied!Sum(seen)
          BY <1>1, AwardsLimited
        <4>3. g + sum <= h
          BY <1>1, <1>2, <1>3, <4>1, <4>2, AwardsLimited
        <4>4. t = s + sum
          BY <1>d, <1>e, <4>1, <4>2
        <4>. QED
          BY <4>3, <4>4
      <3>. QED
        BY <1>9, <3>1, <3>2 DEF Denied!karma
    <2>3. t - h - w <= s - g - u
      <3>1. u = 0
        BY <2>1
      <3>. QED
        BY ONLY <1>h, <2>2, <3>1
    <2>. QED
      BY <1>c, <1>d, <1>e, <1>f, <2>1, <2>3
  <1>10. CASE Denied!deny_hook
    <2>1. v12' = v12 /\ v7' = v7 /\ g = h /\ v4 # Denied!None /\ v5 \in 1..Len(v1)
      BY <1>2, <1>3, <1>10 DEF Denied!deny_hook, DenialsInv, Current
    <2>2. CASE Denied!deny_x
      <3>1. t = s /\ v1[v5] = "x" /\ Denied!stands
        BY <1>d, <1>e, <2>2 DEF Denied!deny_x
      <3>2. CASE v5 < Len(v1)
        <4>1. v4' = v4 /\ v5' = v5 + 1
          BY <3>1, <3>2 DEF Denied!stands
        <4>2. \A m \in 1..((v5 + 1) - 1) : v1[m] = "karma" => m \in 1..(v5 - 1)
          <5>1. PICK k \in Nat : k = Len(v1)
            BY <1>1
          <5>2. v5 \in 1..k
            BY <2>1, <5>1
          <5>3. \A m \in 1..((v5 + 1) - 1) : m = v5 \/ m \in 1..(v5 - 1)
            BY <5>2
          <5>. QED
            BY <3>1, <5>3
        <4>3. Unscored = 1 => Unscored' = 1
          BY <1>6, <4>1, <4>2 DEF Unscored, HadTurn
        <4>4. u <= w
          BY <1>4, <1>5, <4>3
        <4>5. t - h - w <= s - g - u
          BY <2>1, <3>1, <4>4
        <4>. QED
          BY <1>c, <1>d, <1>e, <1>f, <2>1, <4>5
      <3>3. CASE ~(v5 < Len(v1))
        <4>1. v5 = Len(v1)
          <5>1. PICK k \in Nat : k = Len(v1)
            BY <1>1
          <5>2. v5 \in 1..k /\ ~(v5 < k)
            BY <2>1, <3>3, <5>1
          <5>. QED
            BY <5>1, <5>2
        <4>2. ~KarmaJudges
          BY <3>1, <4>1 DEF KarmaJudges
        <4>. QED
          BY <1>c, <1>d, <1>e, <1>f, <2>1, <4>2
      <3>. QED
        BY <3>2, <3>3
    <2>3. CASE Denied!delay_deny_hook_deny
      <3>1. ~KarmaJudges
        BY <1>1, <2>1, <2>3 DEF Denied!delay_deny_hook_deny, KarmaJudges, Denied!Has
      <3>. QED
        BY <1>c, <1>d, <1>e, <1>f, <2>1, <3>1
    <2>4. CASE Denied!karma_hook_deny
      <3>1. v6' = v6 - 2 \/ v6' = v6 - 1
        BY <2>4 DEF Denied!karma_hook_deny
      <3>2. t <= s - 1
        BY <1>d, <1>e, <3>1
      <3>3. t - h - w <= s - g - u
        <4>1. g = h
          BY <2>1
        <4>. QED
          BY ONLY <1>h, <3>2, <4>1
      <3>. QED
        BY <1>c, <1>d, <1>e, <1>f, <2>1, <3>3
    <2>. QED
      BY <1>10, <2>2, <2>3, <2>4 DEF Denied!deny_hook
  <1>11. CASE UNCHANGED <<v4, v5, v6, v7, v12>>
    <2>1. w = u /\ g = h
      BY <1>2, <1>3, <1>4, <1>5, <1>6, <1>11 DEF Unscored, HadTurn
    <2>2. t - h - w <= s - g - u
      BY <1>d, <1>e, <1>11, <2>1
    <2>. QED
      BY <1>c, <1>d, <1>e, <1>f, <1>11, <2>2
  <1>12. CASE \/ Denied!cmd_ehlo \/ Denied!cmd_auth \/ Denied!cmd_mail \/ Denied!cmd_rcpt
              \/ Denied!cmd_data \/ Denied!cmd_rset
    BY <1>11, <1>12 DEF Denied!cmd_ehlo, Denied!cmd_auth, Denied!cmd_mail, Denied!cmd_rcpt, Denied!cmd_data,
                        Denied!cmd_rset, Denied!Command
  <1>. QED
    BY <1>7, <1>8, <1>9, <1>10, <1>12 DEF Denied!Next

LEMMA ScoreInit == ASSUME Denied!Init PROVE ScoreKept
  <1>1. v6 = 0 /\ v12 = 0 /\ 3 \in v7 /\ v4 = Denied!None
    BY DEF Denied!Init
  <1>2. Granted(v7) = 0 /\ Unscored = 0
    BY <1>1 DEF Granted, Unscored
  <1>3. v12 \in Nat /\ v6 + v12 <= Granted(v7) + Unscored
    BY <1>1, <1>2
  <1>. QED
    BY <1>3 DEF ScoreKept

LEMMA DenialsPromise ==
    ASSUME DenialsAssumed, DenialsInv, ScoreKept
    PROVE  Denied!DeniedOftenNotQueued
  <1>. SUFFICES ASSUME v2 = "queued", KarmaJudges, "data_post" \in denied.deny_hooks
                PROVE  v12 < denied.Negative + 3
    BY DEF Denied!DeniedOftenNotQueued, KarmaJudges
  <1>1. v4 = Denied!None
    BY DEF DenialsInv, Current, Commands
  <1>2. Denied!Has("karma")
    <2>1. Len(v1) \in DOMAIN v1
      BY OrderFacts
    <2>. QED
      BY <2>1 DEF KarmaJudges, Denied!Has
  <1>3. PICK score \in Int : score = v6
    BY DEF DenialsInv, DenialTypes
  <1>4. PICK n \in Int : n = denied.Negative
    BY DEF DenialsAssumed
  <1>5. score > -n
    BY <1>2, <1>3, <1>4 DEF DenialsInv, GoodKarma, KarmaJudges
  <1>6. v12 \in Nat /\ score + v12 <= 3
    <2>1. PICK g \in {0, 3} : g = Granted(v7)
      BY GrantedIs DEF DenialsInv, DenialTypes
    <2>2. v12 \in Nat /\ score + v12 <= g + 0
      BY <1>1, <1>3, <2>1, UnscoredIs DEF ScoreKept
    <2>. QED
      BY <1>3, <2>2
  <1>7. v12 < n + 3
    BY <1>5, <1>6
  <1>. QED
    BY <1>4, <1>7

----------------------------------------------------------------------------
(***************************************************************************)
(* DNS lists (v1 search, v4 zones, v7 lookups, v8 probes).                 *)
(***************************************************************************)

LookupSet ==
    [pending : SUBSET lists.Zones, shared : BOOLEAN, size : Nat, completed : Nat,
     hits : SUBSET lists.Zones, ran_cb : BOOLEAN,
     answer : {"none", "ok", "deny", "cont", "denysoft"}, changed : BOOLEAN]

ListsTypes ==
    /\ v4 \in SUBSET lists.Zones
    /\ v7 \in [lists.Lookups -> LookupSet]
    /\ v8 \in [lists.Zones -> {"idle", "127.0.0.1", "127.0.0.2"}]

(* The lists asked are those that have answered and those still to answer. *)
AllAsked(l, now) ==
    ~l.changed /\ l.pending # {} => l.completed + Cardinality(l.pending) = Lists!Length(l, now)

(* A hit calls the hook back at once, unless all are wanted.               *)
CalledIn(l) ==
    /\ l.ran_cb => l.answer # "none"
    /\ v1 # "all" /\ l.hits # {} => l.ran_cb

(* A lookup is decided when the last has answered, and not in favour of    *)
(* one who is named.                                                       *)
Decided(l) ==
    ~l.changed =>
        /\ l # Lists!NoLookup /\ l.pending = {} => l.answer # "none"
        /\ l.answer = "cont" => l.pending = {} /\ l.hits = {}

LookupFine(l, now) == AllAsked(l, now) /\ CalledIn(l) /\ Decided(l)

ListsInv == ListsTypes /\ \A c \in lists.Lookups : LookupFine(v7[c], v4)

----------------------------------------------------------------------------
ListsStep == ListsInv' /\ Lists!RestoredByCheck

LEMMA ListsCardinalityIs == ASSUME NEW S PROVE Lists!Cardinality(S) = Cardinality(S)
  BY DEF Lists!Cardinality, Cardinality

LEMMA LengthIs ==
    ASSUME NEW l, NEW now
    PROVE  Lists!Length(l, now) = IF l.shared THEN Cardinality(now) ELSE l.size
  BY ListsCardinalityIs DEF Lists!Length

LEMMA CountIs ==
    ASSUME ListsAssumed, NEW S \in SUBSET lists.Zones
    PROVE  /\ Cardinality(S) \in Nat /\ (Cardinality(S) = 0 <=> S = {})
           /\ \A z \in S : Cardinality(S \ {z}) = Cardinality(S) - 1
  <1>1. IsFiniteSet(S)
    BY FS_Subset DEF ListsAssumed
  <1>. QED
    BY <1>1, FS_CardinalityType, FS_EmptySet, FS_RemoveElement

LEMMA NoLookupIs ==
    /\ Lists!NoLookup \in LookupSet
    /\ Lists!NoLookup.pending = {} /\ Lists!NoLookup.shared = FALSE /\ Lists!NoLookup.size = 0
    /\ Lists!NoLookup.completed = 0 /\ Lists!NoLookup.hits = {} /\ Lists!NoLookup.ran_cb = FALSE
    /\ Lists!NoLookup.answer = "none" /\ Lists!NoLookup.changed = FALSE
  BY DEF Lists!NoLookup, Lists!None, LookupSet

(* Two lookups that differ in what answers change.                         *)
SameAsked(l, n) == n.pending = l.pending /\ n.shared = l.shared /\ n.size = l.size
SameAnswer(l, n) == n.hits = l.hits /\ n.ran_cb = l.ran_cb /\ n.answer = l.answer

LEMMA NotedIs ==
    ASSUME NEW l \in LookupSet
    PROVE  /\ Lists!Noted(l) \in LookupSet
           /\ SameAsked(l, Lists!Noted(l)) /\ SameAnswer(l, Lists!Noted(l))
           /\ Lists!Noted(l).completed = l.completed
           /\ Lists!Noted(l).changed <=> (l.changed \/ (l.shared /\ l.pending # {} /\ v4' # v4))
           /\ l = Lists!NoLookup => Lists!Noted(l) = Lists!NoLookup
  <1>1. PICK b \in BOOLEAN : b = (l.changed \/ (l.shared /\ l.pending # {} /\ v4' # v4))
    BY DEF LookupSet
  <1>2. Lists!Noted(l) = [l EXCEPT !.changed = b]
    BY <1>1 DEF Lists!Noted
  <1>. PICK n : n = [l EXCEPT !.changed = b]
    OBVIOUS
  <1>3. /\ n \in LookupSet /\ n.pending = l.pending /\ n.shared = l.shared /\ n.size = l.size
        /\ n.completed = l.completed /\ n.hits = l.hits /\ n.ran_cb = l.ran_cb
        /\ n.answer = l.answer /\ n.changed = b
    BY DEF LookupSet
  <1>4. l = Lists!NoLookup => n = Lists!NoLookup
    <2>. SUFFICES ASSUME l = Lists!NoLookup PROVE n = l
      OBVIOUS
    <2>1. b = FALSE
      BY <1>1, NoLookupIs
    <2>2. l.changed = FALSE
      BY NoLookupIs
    <2>. QED
      BY <2>1, <2>2 DEF LookupSet
  <1>. QED
    BY <1>1, <1>2, <1>3, <1>4 DEF SameAsked, SameAnswer

LEMMA NotedFine ==
    ASSUME NEW l \in LookupSet, LookupFine(l, v4)
    PROVE  LookupFine(Lists!Noted(l), v4')
  <1>. PICK n \in LookupSet : n = Lists!Noted(l)
    BY NotedIs
  <1>1. /\ n.pending = l.pending /\ n.shared = l.shared /\ n.size = l.size
        /\ n.hits = l.hits /\ n.ran_cb = l.ran_cb /\ n.answer = l.answer
        /\ n.completed = l.completed
        /\ n.changed <=> (l.changed \/ (l.shared /\ l.pending # {} /\ v4' # v4))
        /\ l = Lists!NoLookup => n = Lists!NoLookup
    BY NotedIs DEF SameAsked, SameAnswer
  <1>2. AllAsked(n, v4')
    <2>. SUFFICES ASSUME ~n.changed, n.pending # {}
                  PROVE  n.completed + Cardinality(n.pending) = Lists!Length(n, v4')
      BY DEF AllAsked
    <2>1. l.completed + Cardinality(l.pending) = Lists!Length(l, v4)
      BY <1>1 DEF LookupFine, AllAsked
    <2>2. Lists!Length(n, v4') = Lists!Length(l, v4)
      <3>1. n.shared => v4' = v4
        BY <1>1
      <3>. QED
        BY <1>1, <3>1, LengthIs
    <2>. QED
      BY <1>1, <2>1, <2>2
  <1>3. CalledIn(n)
    BY <1>1 DEF LookupFine, CalledIn
  <1>4. Decided(n)
    BY <1>1 DEF LookupFine, Decided
  <1>. QED
    BY <1>2, <1>3, <1>4 DEF LookupFine

(* One list's answer.                                                      *)
LEMMA OneResultIs ==
    ASSUME NEW l \in LookupSet, NEW z \in lists.Zones, NEW o, CalledIn(l)
    PROVE  /\ Lists!OneResult(l, z, o) \in LookupSet /\ CalledIn(Lists!OneResult(l, z, o))
           /\ SameAsked(l, Lists!OneResult(l, z, o))
           /\ Lists!OneResult(l, z, o).completed = l.completed
           /\ Lists!OneResult(l, z, o).changed = l.changed
           /\ Lists!OneResult(l, z, o).answer = "cont" => l.answer = "cont"
  <1>1. CASE o # "a"
    <2>1. Lists!OneResult(l, z, o) = l
      BY <1>1 DEF Lists!OneResult
    <2>. QED
      BY <2>1 DEF SameAsked
  <1>2. CASE o = "a"
    <2>. PICK h : h = [l EXCEPT !.hits = @ \cup {z}]
      OBVIOUS
    <2>1. /\ h \in LookupSet /\ h.pending = l.pending /\ h.shared = l.shared /\ h.size = l.size
          /\ h.completed = l.completed /\ h.changed = l.changed /\ h.ran_cb = l.ran_cb
          /\ h.answer = l.answer /\ l.ran_cb \in BOOLEAN
      BY DEF LookupSet
    <2>2. CASE v1 = "all" \/ l.ran_cb
      <3>1. Lists!OneResult(l, z, o) = h
        BY <1>2, <2>2 DEF Lists!OneResult
      <3>2. CalledIn(h)
        BY <2>1, <2>2 DEF CalledIn
      <3>. QED
        BY <2>1, <3>1, <3>2 DEF SameAsked
    <2>3. CASE ~(v1 = "all" \/ l.ran_cb)
      <3>1. PICK a \in {"ok", "deny", "cont", "denysoft"} :
                a = IF h.answer = "none" THEN Lists!Deny ELSE h.answer
        BY <2>1 DEF Lists!Deny, LookupSet
      <3>. PICK g : g = [h EXCEPT !.answer = a, !.ran_cb = TRUE]
        OBVIOUS
      <3>2. /\ g \in LookupSet /\ g.pending = h.pending /\ g.shared = h.shared /\ g.size = h.size
            /\ g.completed = h.completed /\ g.changed = h.changed /\ g.ran_cb = TRUE
            /\ g.answer = a
        BY <2>1 DEF LookupSet
      <3>3. Lists!OneResult(l, z, o) = [Lists!Answered(h, Lists!Deny) EXCEPT !.ran_cb = TRUE]
        BY <1>2, <2>3 DEF Lists!OneResult
      <3>4. [Lists!Answered(h, Lists!Deny) EXCEPT !.ran_cb = TRUE] = g
        <4>1. CASE h.answer = "none"
          <5>1. Lists!Answered(h, Lists!Deny) = [h EXCEPT !.answer = a]
            BY <3>1, <4>1 DEF Lists!Answered, Lists!None
          <5>. QED
            BY <2>1, <5>1 DEF LookupSet
        <4>2. CASE h.answer # "none"
          <5>1. Lists!Answered(h, Lists!Deny) = h /\ a = h.answer
            BY <3>1, <4>2 DEF Lists!Answered, Lists!None
          <5>. QED
            BY <2>1, <5>1 DEF LookupSet
        <4>. QED
          BY <4>1, <4>2
      <3>5. CalledIn(g)
        BY <3>2 DEF CalledIn
      <3>6. a = "cont" => l.answer = "cont"
        BY <2>1, <3>1 DEF Lists!Deny
      <3>. QED
        BY <2>1, <3>2, <3>3, <3>4, <3>5, <3>6 DEF SameAsked
    <2>. QED
      BY <2>2, <2>3
  <1>. QED
    BY <1>1, <1>2

(* The last answer.                                                        *)
LEMMA ZonesDone ==
    ASSUME NEW l \in LookupSet, CalledIn(l)
    PROVE  /\ Lists!zonesDone(l) \in LookupSet /\ CalledIn(Lists!zonesDone(l))
           /\ SameAsked(l, Lists!zonesDone(l))
           /\ Lists!zonesDone(l).completed = l.completed
           /\ Lists!zonesDone(l).changed = l.changed
           /\ Lists!zonesDone(l).hits = l.hits
           /\ Lists!zonesDone(l).answer # "none"
           /\ Lists!zonesDone(l).answer = "cont" => l.answer = "cont" \/ l.hits = {}
  <1>1. PICK a \in {"ok", "deny", "cont", "denysoft"} :
            a = IF l.answer # "none" THEN l.answer
                ELSE IF v1 = "all" /\ l.hits # {} THEN Lists!Deny ELSE "cont"
    BY DEF Lists!Deny, LookupSet
  <1>2. PICK b \in BOOLEAN : b = IF v1 = "all" THEN l.ran_cb ELSE TRUE
    BY DEF LookupSet
  <1>. PICK g : g = [l EXCEPT !.answer = a, !.ran_cb = b]
    OBVIOUS
  <1>3. /\ g \in LookupSet /\ g.pending = l.pending /\ g.shared = l.shared /\ g.size = l.size
        /\ g.completed = l.completed /\ g.changed = l.changed /\ g.hits = l.hits
        /\ g.ran_cb = b /\ g.answer = a
    BY DEF LookupSet
  <1>4. Lists!zonesDone(l) = g
    <2>1. CASE v1 = "all"
      <3>1. Lists!zonesDone(l) = Lists!Answered(l, IF l.hits # {} THEN Lists!Deny ELSE "cont")
        BY <2>1 DEF Lists!zonesDone
      <3>2. CASE l.answer = "none"
        <4>1. Lists!zonesDone(l) = [l EXCEPT !.answer = a]
          BY <1>1, <2>1, <3>1, <3>2 DEF Lists!Answered, Lists!None
        <4>. QED
          BY <1>2, <2>1, <4>1 DEF LookupSet
      <3>3. CASE l.answer # "none"
        <4>1. Lists!zonesDone(l) = l /\ a = l.answer
          BY <1>1, <3>1, <3>3 DEF Lists!Answered, Lists!None
        <4>. QED
          BY <1>2, <2>1, <4>1 DEF LookupSet
      <3>. QED
        BY <3>2, <3>3
    <2>2. CASE v1 # "all" /\ l.ran_cb
      <3>1. Lists!zonesDone(l) = l /\ a = l.answer /\ b = TRUE /\ l.ran_cb = TRUE
        BY <1>1, <1>2, <2>2 DEF Lists!zonesDone, CalledIn, LookupSet
      <3>. QED
        BY <3>1 DEF LookupSet
    <2>3. CASE v1 # "all" /\ ~l.ran_cb
      <3>1. Lists!zonesDone(l) = [Lists!Answered(l, "cont") EXCEPT !.ran_cb = TRUE] /\ b = TRUE
        BY <1>2, <2>3 DEF Lists!zonesDone
      <3>2. CASE l.answer = "none"
        <4>1. Lists!Answered(l, "cont") = [l EXCEPT !.answer = a]
          BY <1>1, <2>3, <3>2 DEF Lists!Answered, Lists!None
        <4>. QED
          BY <3>1, <4>1 DEF LookupSet
      <3>3. CASE l.answer # "none"
        <4>1. Lists!Answered(l, "cont") = l /\ a = l.answer
          BY <1>1, <3>3 DEF Lists!Answered, Lists!None
        <4>. QED
          BY <3>1, <4>1 DEF LookupSet
      <3>. QED
        BY <3>2, <3>3
    <2>. QED
      BY <2>1, <2>2, <2>3
  <1>5. CalledIn(g)
    BY <1>1, <1>2, <1>3 DEF CalledIn
  <1>6. a = "cont" => l.answer = "cont" \/ l.hits = {}
    BY <1>1 DEF CalledIn, Lists!Deny
  <1>. QED
    BY <1>1, <1>3, <1>4, <1>5, <1>6 DEF SameAsked

(* A lookup after one of its lists has answered: it is done when none is   *)
(* left, if the array did not change.                                      *)
LEMMA AnswerFine ==
    ASSUME ListsAssumed, NEW l0 \in LookupSet, LookupFine(l0, v4), NEW z \in l0.pending, NEW o
    PROVE  LET l == [Lists!Noted(l0) EXCEPT !.pending = @ \ {z}]
               d == Lists!Completed(Lists!OneResult(l, z, o), v4')
           IN  d \in LookupSet /\ LookupFine(d, v4')
  <1>. PICK n \in LookupSet : n = Lists!Noted(l0)
    BY NotedIs
  <1>1. /\ n.pending = l0.pending /\ n.shared = l0.shared /\ n.size = l0.size
        /\ n.hits = l0.hits /\ n.ran_cb = l0.ran_cb /\ n.answer = l0.answer
        /\ n.completed = l0.completed
        /\ n.changed <=> (l0.changed \/ (l0.shared /\ l0.pending # {} /\ v4' # v4))
    BY NotedIs DEF SameAsked, SameAnswer
  <1>2. z \in lists.Zones /\ l0.pending \in SUBSET lists.Zones
    BY DEF LookupSet
  <1>. PICK l : l = [n EXCEPT !.pending = @ \ {z}]
    OBVIOUS
  <1>3. /\ l \in LookupSet /\ l.pending = l0.pending \ {z} /\ l.shared = n.shared /\ l.size = n.size
        /\ l.hits = n.hits /\ l.ran_cb = n.ran_cb /\ l.answer = n.answer
        /\ l.completed = n.completed /\ l.changed = n.changed
    BY <1>1, <1>2 DEF LookupSet
  <1>4. CalledIn(l)
    BY <1>1, <1>3 DEF LookupFine, CalledIn
  <1>. PICK h : h = Lists!OneResult(l, z, o)
    OBVIOUS
  <1>5. /\ h \in LookupSet /\ CalledIn(h)
        /\ h.pending = l.pending /\ h.shared = l.shared /\ h.size = l.size
        /\ h.completed = l.completed /\ h.changed = l.changed
        /\ h.answer = "cont" => l.answer = "cont"
    <2>1. /\ Lists!OneResult(l, z, o) \in LookupSet /\ CalledIn(Lists!OneResult(l, z, o))
          /\ SameAsked(l, Lists!OneResult(l, z, o))
          /\ Lists!OneResult(l, z, o).completed = l.completed
          /\ Lists!OneResult(l, z, o).changed = l.changed
          /\ Lists!OneResult(l, z, o).answer = "cont" => l.answer = "cont"
      <3>1. l \in LookupSet /\ z \in lists.Zones
        BY <1>2, <1>3
      <3>. QED
        BY ONLY <1>4, <3>1, OneResultIs
    <2>2. h \in LookupSet /\ CalledIn(h) /\ SameAsked(l, h)
      BY <2>1
    <2>3. h.completed = l.completed /\ h.changed = l.changed /\ (h.answer = "cont" => l.answer = "cont")
      BY <2>1
    <2>. QED
      BY <2>2, <2>3 DEF SameAsked
  <1>. PICK g : g = [h EXCEPT !.completed = @ + 1]
    OBVIOUS
  <1>6. /\ g \in LookupSet /\ g.completed = h.completed + 1
        /\ g.pending = h.pending /\ g.shared = h.shared /\ g.size = h.size
        /\ g.hits = h.hits /\ g.ran_cb = h.ran_cb /\ g.answer = h.answer /\ g.changed = h.changed
    <2>0. h \in LookupSet
      BY <1>5
    <2>1. h.completed + 1 \in Nat
      BY <2>0 DEF LookupSet
    <2>2. g \in LookupSet
      BY <2>0, <2>1 DEF LookupSet
    <2>. QED
      BY <2>0, <2>2 DEF LookupSet
  <1>7. CalledIn(g)
    BY <1>5, <1>6 DEF CalledIn
  <1>. PICK d : d = Lists!Completed(h, v4')
    OBVIOUS
  <1>8. d = IF g.completed >= Lists!Length(g, v4') THEN Lists!zonesDone(g) ELSE g
    BY DEF Lists!Completed
  <1>9. /\ d \in LookupSet /\ CalledIn(d)
        /\ d.pending = g.pending /\ d.shared = g.shared /\ d.size = g.size
        /\ d.completed = g.completed /\ d.changed = g.changed /\ d.hits = g.hits
        /\ g.completed >= Lists!Length(g, v4') =>
              d.answer # "none" /\ (d.answer = "cont" => g.answer = "cont" \/ g.hits = {})
        /\ ~(g.completed >= Lists!Length(g, v4')) => d.answer = g.answer
    <2>1. CASE g.completed >= Lists!Length(g, v4')
      <3>1. /\ Lists!zonesDone(g) \in LookupSet /\ CalledIn(Lists!zonesDone(g))
            /\ SameAsked(g, Lists!zonesDone(g))
            /\ Lists!zonesDone(g).completed = g.completed
            /\ Lists!zonesDone(g).changed = g.changed
            /\ Lists!zonesDone(g).hits = g.hits
            /\ Lists!zonesDone(g).answer # "none"
            /\ Lists!zonesDone(g).answer = "cont" => g.answer = "cont" \/ g.hits = {}
        BY <1>6, <1>7, ZonesDone
      <3>2. d = Lists!zonesDone(g)
        BY <1>8, <2>1
      <3>3. d \in LookupSet /\ CalledIn(d) /\ SameAsked(g, d)
        BY <3>1, <3>2
      <3>4. /\ d.completed = g.completed /\ d.changed = g.changed /\ d.hits = g.hits
            /\ d.answer # "none" /\ (d.answer = "cont" => g.answer = "cont" \/ g.hits = {})
        BY <3>1, <3>2
      <3>. QED
        BY <2>1, <3>3, <3>4 DEF SameAsked
    <2>2. CASE ~(g.completed >= Lists!Length(g, v4'))
      BY <1>6, <1>7, <1>8, <2>2
    <2>. QED
      BY <2>1, <2>2
  <1>10. ASSUME ~d.changed
         PROVE  /\ g.completed + Cardinality(g.pending) = Lists!Length(g, v4')
                /\ g.completed \in Nat /\ Cardinality(g.pending) \in Nat
                /\ g.pending = {} <=> Cardinality(g.pending) = 0
                /\ Lists!Length(d, v4') = Lists!Length(g, v4')
                /\ g.answer # "cont"
    <2>1. ~l0.changed /\ l0.pending # {} /\ (l0.shared => v4' = v4)
      BY <1>1, <1>3, <1>5, <1>6, <1>9, <1>10
    <2>2. l0.completed + Cardinality(l0.pending) = Lists!Length(l0, v4)
      BY <2>1 DEF LookupFine, AllAsked
    <2>3. g.shared = l0.shared /\ g.size = l0.size /\ d.shared = l0.shared /\ d.size = l0.size
      <3>1. l.shared = l0.shared /\ l.size = l0.size
        BY <1>1, <1>3
      <3>2. g.shared = l.shared /\ g.size = l.size
        BY <1>5, <1>6
      <3>3. d.shared = g.shared /\ d.size = g.size
        BY <1>9
      <3>. QED
        BY <3>1, <3>2, <3>3
    <2>4. Lists!Length(g, v4') = Lists!Length(l0, v4) /\ Lists!Length(d, v4') = Lists!Length(l0, v4)
      BY <2>1, <2>3, LengthIs
    <2>5. g.pending = l0.pending \ {z} /\ g.completed = l0.completed + 1
      BY <1>1, <1>3, <1>5, <1>6
    <2>6. /\ Cardinality(l0.pending) \in Nat /\ Cardinality(g.pending) = Cardinality(l0.pending) - 1
          /\ l0.completed \in Nat
      <3>1. /\ Cardinality(l0.pending) \in Nat
            /\ \A y \in l0.pending : Cardinality(l0.pending \ {y}) = Cardinality(l0.pending) - 1
        BY <1>2, CountIs
      <3>2. l0.completed \in Nat
        BY DEF LookupSet
      <3>. QED
        BY <2>5, <3>1, <3>2
    <2>7. g.completed \in Nat /\ Cardinality(g.pending) \in Nat /\ (g.pending = {} <=> Cardinality(g.pending) = 0)
      <3>1. g.pending \in SUBSET lists.Zones
        BY <1>2, <2>5
      <3>2. Cardinality(g.pending) \in Nat /\ (Cardinality(g.pending) = 0 <=> g.pending = {})
        BY <3>1, CountIs
      <3>3. g.completed \in Nat
        BY <2>5, <2>6
      <3>. QED
        BY <3>2, <3>3
    <2>8. l0.answer # "cont"
      BY <2>1 DEF LookupFine, Decided
    <2>9. g.answer # "cont"
      BY <1>1, <1>3, <1>5, <1>6, <2>8
    <2>10. g.completed + Cardinality(g.pending) = l0.completed + Cardinality(l0.pending)
      BY <2>5, <2>6
    <2>. QED
      BY <2>2, <2>4, <2>7, <2>9, <2>10
  <1>11. AllAsked(d, v4')
    <2>. SUFFICES ASSUME ~d.changed PROVE d.completed + Cardinality(d.pending) = Lists!Length(d, v4')
      BY DEF AllAsked
    <2>. QED
      BY <1>9, <1>10
  <1>12. Decided(d)
    <2>. SUFFICES ASSUME ~d.changed
                  PROVE  /\ d.pending = {} => d.answer # "none"
                         /\ d.answer = "cont" => d.pending = {} /\ d.hits = {}
      BY DEF Decided
    <2>1. PICK k \in Nat : k = Cardinality(g.pending)
      BY <1>10
    <2>2. PICK m \in Nat : m = g.completed
      BY <1>10
    <2>3. Lists!Length(g, v4') = m + k
      BY <1>10, <2>1, <2>2
    <2>4. g.completed >= Lists!Length(g, v4') <=> k = 0
      BY <2>2, <2>3
    <2>5. g.pending = {} <=> k = 0
      BY <1>10, <2>1
    <2>6. CASE k = 0
      BY <1>9, <1>10, <2>4, <2>5, <2>6
    <2>7. CASE k # 0
      BY <1>9, <1>10, <2>4, <2>5, <2>7
    <2>. QED
      BY <2>6, <2>7
  <1>13. LookupFine(d, v4')
    BY <1>9, <1>11, <1>12 DEF LookupFine
  <1>14. d \in LookupSet
    BY <1>9
  <1>. QED
    BY <1>13, <1>14

-----------------------------------------------------------------------------
LEMMA ListsTypeFacts ==
    ASSUME ListsInv
    PROVE  /\ v4 \in SUBSET lists.Zones /\ v7 \in [lists.Lookups -> LookupSet]
           /\ v8 \in [lists.Zones -> {"idle", "127.0.0.1", "127.0.0.2"}]
           /\ \A c \in lists.Lookups : v7[c] \in LookupSet /\ LookupFine(v7[c], v4)
  BY DEF ListsInv, ListsTypes

LEMMA ListsInit == ASSUME Lists!Init PROVE ListsInv
  <1>. USE DEF Lists!Init
  <1>1. ListsTypes
    BY NoLookupIs DEF ListsTypes
  <1>2. LookupFine(Lists!NoLookup, v4)
    BY NoLookupIs DEF LookupFine, AllAsked, CalledIn, Decided
  <1>. QED
    BY <1>1, <1>2 DEF ListsInv

(* LookupFine is said of the mode, which does not change.                  *)
LEMMA KeepsLists ==
    ASSUME v1' = v1, v4' \in SUBSET lists.Zones, v7' \in [lists.Lookups -> LookupSet],
           v8' \in [lists.Zones -> {"idle", "127.0.0.1", "127.0.0.2"}],
           \A c \in lists.Lookups : LookupFine(v7'[c], v4')
    PROVE  ListsInv'
  <1>1. ListsTypes'
    BY DEF ListsTypes
  <1>2. ASSUME NEW c \in lists.Lookups PROVE LookupFine(v7[c], v4)'
    <2>1. LookupFine(v7'[c], v4')
      OBVIOUS
    <2>2. CalledIn(v7[c])'
      BY <2>1 DEF LookupFine, CalledIn
    <2>3. AllAsked(v7[c], v4)' /\ Decided(v7[c])'
      BY <2>1 DEF LookupFine, AllAsked, Decided
    <2>. QED
      BY <2>2, <2>3 DEF LookupFine
  <1>3. \A c \in lists.Lookups : LookupFine(v7[c], v4)'
    BY <1>2
  <1>. QED
    BY <1>1, <1>3 DEF ListsInv

(* The steps that ask no list's test point break no promise about it.      *)
LEMMA NoTestPoint ==
    ASSUME ListsInv, \A z \in lists.Zones : v8[z] = "127.0.0.2" => v8'[z] = "127.0.0.2"
    PROVE  Lists!RestoredByCheck
  BY DEF Lists!RestoredByCheck

LEMMA Looks ==
    ASSUME ListsAssumed, ListsInv, NEW c \in lists.Lookups, Lists!hook_connect(c)
    PROVE  ListsStep
  <1>. PICK n : n = Lists!NoLookup
    OBVIOUS
  <1>1. /\ n \in LookupSet /\ n.pending = {} /\ n.shared = FALSE /\ n.size = 0
        /\ n.completed = 0 /\ n.hits = {} /\ n.ran_cb = FALSE
        /\ n.answer = "none" /\ n.changed = FALSE
    BY NoLookupIs
  <1>2. /\ v4 \in SUBSET lists.Zones /\ v7 \in [lists.Lookups -> LookupSet]
        /\ v8 \in [lists.Zones -> {"idle", "127.0.0.1", "127.0.0.2"}]
        /\ \A d \in lists.Lookups : LookupFine(v7[d], v4)
        /\ Cardinality(v4) \in Nat
    BY ListsTypeFacts, CountIs
  <1>3. /\ v1' = v1 /\ v4' = v4 /\ v8' = v8
        /\ v7' = [v7 EXCEPT ![c] = IF v4 = {} THEN [n EXCEPT !.answer = "cont"]
                     ELSE [n EXCEPT !.pending = v4, !.shared = TRUE, !.size = Cardinality(v4)]]
    BY ListsCardinalityIs DEF Lists!hook_connect
  <1>4. PICK l \in LookupSet : v7' = [v7 EXCEPT ![c] = l] /\ LookupFine(l, v4)
    <2>1. CASE v4 = {}
      <3>. PICK l : l = [n EXCEPT !.answer = "cont"]
        OBVIOUS
      <3>1. /\ l \in LookupSet /\ l.pending = {} /\ l.hits = {} /\ l.ran_cb = FALSE /\ l.answer = "cont"
        BY <1>1 DEF LookupSet
      <3>2. LookupFine(l, v4)
        BY <3>1 DEF LookupFine, AllAsked, CalledIn, Decided
      <3>. QED
        BY <1>3, <2>1, <3>1, <3>2
    <2>2. CASE v4 # {}
      <3>. PICK l : l = [n EXCEPT !.pending = v4, !.shared = TRUE, !.size = Cardinality(v4)]
        OBVIOUS
      <3>1. /\ l \in LookupSet /\ l.pending = v4 /\ l.hits = {} /\ l.ran_cb = FALSE
            /\ l.answer = "none" /\ l.shared = TRUE /\ l.completed = 0
        BY <1>1, <1>2 DEF LookupSet
      <3>2. Lists!Length(l, v4) = Cardinality(v4) /\ l.completed + Cardinality(l.pending) = Cardinality(v4)
        <4>1. Lists!Length(l, v4) = Cardinality(v4)
          BY <3>1, LengthIs
        <4>2. l.completed + Cardinality(l.pending) = 0 + Cardinality(v4)
          BY <3>1
        <4>. QED
          BY <1>2, <4>1, <4>2
      <3>3. LookupFine(l, v4)
        BY <2>2, <3>1, <3>2 DEF LookupFine, AllAsked, CalledIn, Decided
      <3>. QED
        BY <1>3, <2>2, <3>1, <3>3
    <2>. QED
      BY <2>1, <2>2
  <1>5. v7' \in [lists.Lookups -> LookupSet] /\ \A d \in lists.Lookups : LookupFine(v7'[d], v4)
    BY <1>2, <1>4
  <1>6. ListsInv'
    BY <1>2, <1>3, <1>5, KeepsLists
  <1>. QED
    BY <1>3, <1>6, NoTestPoint DEF ListsStep

LEMMA ZonesStay ==
    ASSUME ListsInv, NEW z, Lists!disable_zone(z) \/ UNCHANGED <<v4, v5>>
    PROVE  v4' \in SUBSET lists.Zones
  BY ListsTypeFacts DEF Lists!disable_zone

LEMMA AnsweredBy ==
    ASSUME ListsAssumed, ListsInv, NEW c \in lists.Lookups, NEW z \in lists.Zones, Lists!answer(c, z)
    PROVE  ListsStep
  <1>1. /\ z \in v7[c].pending /\ v1' = v1 /\ v8' = v8
        /\ \E o : /\ Lists!disable_zone(z) \/ UNCHANGED <<v4, v5>>
                  /\ v7' = [[d \in lists.Lookups |-> Lists!Noted(v7[d])] EXCEPT ![c] =
                               Lists!Completed(Lists!OneResult(
                                   [Lists!Noted(v7[c]) EXCEPT !.pending = @ \ {z}], z, o), v4')]
    <2>1. PICK o \in Lists!Outcomes(z, IF z \in v3[c] THEN "a" ELSE "unlisted") :
              /\ IF Lists!Disables(o) THEN Lists!disable_zone(z) ELSE UNCHANGED <<v4, v5>>
              /\ LET l == [Lists!Noted(v7[c]) EXCEPT !.pending = @ \ {z}] IN
                 v7' = [[d \in lists.Lookups |-> Lists!Noted(v7[d])]
                          EXCEPT ![c] = Lists!Completed(Lists!OneResult(l, z, o), v4')]
      BY DEF Lists!answer
    <2>2. Lists!disable_zone(z) \/ UNCHANGED <<v4, v5>>
      BY <2>1
    <2>3. z \in v7[c].pending /\ v1' = v1 /\ v8' = v8
      BY DEF Lists!answer
    <2>. QED
      BY <2>1, <2>2, <2>3
  <1>2. PICK o : /\ Lists!disable_zone(z) \/ UNCHANGED <<v4, v5>>
                 /\ v7' = [[d \in lists.Lookups |-> Lists!Noted(v7[d])] EXCEPT ![c] =
                              Lists!Completed(Lists!OneResult(
                                  [Lists!Noted(v7[c]) EXCEPT !.pending = @ \ {z}], z, o), v4')]
    BY <1>1
  <1>3. v4' \in SUBSET lists.Zones
    BY <1>2, ZonesStay
  <1>4. \A d \in lists.Lookups : v7[d] \in LookupSet /\ LookupFine(v7[d], v4)
    BY ListsTypeFacts
  <1>. PICK r : r = Lists!Completed(Lists!OneResult(
                        [Lists!Noted(v7[c]) EXCEPT !.pending = @ \ {z}], z, o), v4')
    OBVIOUS
  <1>5. r \in LookupSet /\ LookupFine(r, v4')
    BY <1>1, <1>4, AnswerFine
  <1>6. \A d \in lists.Lookups : Lists!Noted(v7[d]) \in LookupSet /\ LookupFine(Lists!Noted(v7[d]), v4')
    BY <1>4, NotedIs, NotedFine
  <1>7. v7' = [[d \in lists.Lookups |-> Lists!Noted(v7[d])] EXCEPT ![c] = r]
    BY <1>2
  <1>8. v7' = [d \in lists.Lookups |-> IF d = c THEN r ELSE Lists!Noted(v7[d])]
    BY <1>7
  <1>9. v7' \in [lists.Lookups -> LookupSet] /\ \A d \in lists.Lookups : LookupFine(v7'[d], v4')
    BY <1>5, <1>6, <1>8
  <1>10. ListsInv'
    BY <1>1, <1>3, <1>9, KeepsLists, ListsTypeFacts
  <1>. QED
    BY <1>1, <1>10, NoTestPoint DEF ListsStep

LEMMA LookupGivenUp ==
    ASSUME ListsAssumed, ListsInv, NEW c \in lists.Lookups, Lists!hook_timeout(c)
    PROVE  ListsStep
  <1>1. /\ v7[c].pending # {} /\ v7[c].answer = "none"
        /\ v7' = [v7 EXCEPT ![c].answer = "denysoft"]
        /\ v1' = v1 /\ v4' = v4 /\ v8' = v8
    BY DEF Lists!hook_timeout, Lists!None
  <1>2. /\ v7 \in [lists.Lookups -> LookupSet]
        /\ \A d \in lists.Lookups : LookupFine(v7[d], v4)
    BY ListsTypeFacts
  <1>. PICK l0 \in LookupSet : l0 = v7[c]
    BY <1>2
  <1>. PICK l : l = [l0 EXCEPT !.answer = "denysoft"]
    OBVIOUS
  <1>3. /\ l \in LookupSet /\ l.pending = l0.pending /\ l.shared = l0.shared /\ l.size = l0.size
        /\ l.completed = l0.completed /\ l.changed = l0.changed /\ l.hits = l0.hits
        /\ l.ran_cb = l0.ran_cb /\ l.answer = "denysoft"
    BY DEF LookupSet
  <1>4. LookupFine(l0, v4)
    BY <1>2
  <1>5. AllAsked(l, v4)
    <2>1. Lists!Length(l, v4) = Lists!Length(l0, v4)
      BY <1>3, LengthIs
    <2>. QED
      BY <1>3, <1>4, <2>1 DEF LookupFine, AllAsked
  <1>6. LookupFine(l, v4)
    BY <1>3, <1>4, <1>5 DEF LookupFine, CalledIn, Decided
  <1>7. v7' = [v7 EXCEPT ![c] = l]
    BY <1>1, <1>2
  <1>8. v7' \in [lists.Lookups -> LookupSet] /\ \A d \in lists.Lookups : LookupFine(v7'[d], v4)
    BY <1>2, <1>3, <1>6, <1>7
  <1>9. ListsInv'
    BY <1>1, <1>8, KeepsLists, ListsTypeFacts
  <1>. QED
    BY <1>1, <1>9, NoTestPoint DEF ListsStep

(* The check, an edit of the configuration, and a list that gets well.     *)
LEMMA ChecksStart ==
    ASSUME ListsAssumed, ListsInv, Lists!check_zones \/ Lists!recover
    PROVE  ListsStep
  <1>1. /\ v1' = v1 /\ v4' = v4 /\ v7' = v7
        /\ \/ v8' = v8
           \/ /\ v8' = [z \in lists.Zones |-> IF z \in v4 \cup v5 THEN "127.0.0.1" ELSE "idle"]
              /\ \A z \in lists.Zones : v8[z] = "idle"
    BY DEF Lists!check_zones, Lists!recover
  <1>2. v8' \in [lists.Zones -> {"idle", "127.0.0.1", "127.0.0.2"}]
    BY <1>1, ListsTypeFacts
  <1>3. ListsInv'
    BY <1>1, <1>2, KeepsLists, ListsTypeFacts
  <1>4. \A z \in lists.Zones : v8[z] = "127.0.0.2" => v8'[z] = "127.0.0.2"
    BY <1>1
  <1>. QED
    BY <1>3, <1>4, NoTestPoint DEF ListsStep

LEMMA AllNoted ==
    ASSUME ListsInv, v7' = [d \in lists.Lookups |-> Lists!Noted(v7[d])]
    PROVE  v7' \in [lists.Lookups -> LookupSet] /\ \A d \in lists.Lookups : LookupFine(v7'[d], v4')
  <1>1. \A d \in lists.Lookups : v7[d] \in LookupSet /\ LookupFine(v7[d], v4)
    BY ListsTypeFacts
  <1>2. \A d \in lists.Lookups : Lists!Noted(v7[d]) \in LookupSet /\ LookupFine(Lists!Noted(v7[d]), v4')
    BY <1>1, NotedIs, NotedFine
  <1>. QED
    BY <1>2

LEMMA Probed ==
    ASSUME ListsAssumed, ListsInv, NEW z \in lists.Zones,
           Lists!probed_loopback(z) \/ Lists!probed_test_point(z)
    PROVE  ListsStep
  <1>1. v1' = v1 /\ v7' = [d \in lists.Lookups |-> Lists!Noted(v7[d])]
    BY DEF Lists!probed_loopback, Lists!probed_test_point
  <1>2. v4' \in SUBSET lists.Zones
    <2>1. CASE Lists!probed_loopback(z)
      BY <2>1, ZonesStay DEF Lists!probed_loopback
    <2>2. CASE Lists!probed_test_point(z)
      <3>1. (\E o : Lists!disable_zone(z)) \/ v4' = v4 \cup {z}
        BY <2>2 DEF Lists!probed_test_point
      <3>. QED
        BY <3>1, ZonesStay, ListsTypeFacts
    <2>. QED
      BY <2>1, <2>2
  <1>3. \E p \in {"idle", "127.0.0.2"} : v8' = [v8 EXCEPT ![z] = p]
    BY DEF Lists!probed_loopback, Lists!probed_test_point
  <1>4. v8 \in [lists.Zones -> {"idle", "127.0.0.1", "127.0.0.2"}]
    BY ListsTypeFacts
  <1>5. v8' \in [lists.Zones -> {"idle", "127.0.0.1", "127.0.0.2"}]
    BY <1>3, <1>4
  <1>6. ListsInv'
    BY <1>1, <1>2, <1>5, AllNoted, KeepsLists
  <1>7. Lists!RestoredByCheck
    <2>. SUFFICES ASSUME NEW y \in lists.Zones, v8[y] = "127.0.0.2", v8'[y] = "idle", y \notin v2
                  PROVE  y \in v4'
      BY DEF Lists!RestoredByCheck
    <2>1. y = z
      BY <1>3, <1>4
    <2>2. Lists!probed_test_point(z)
      BY <2>1 DEF Lists!probed_loopback
    <2>3. Lists!Outcomes(z, "a") = {"a"}
      BY <2>1 DEF Lists!Outcomes
    <2>4. v4' = v4 \cup {z}
      BY <2>2, <2>3 DEF Lists!probed_test_point
    <2>. QED
      BY <2>1, <2>4
  <1>. QED
    BY <1>6, <1>7 DEF ListsStep

LEMMA Reloads ==
    ASSUME ListsAssumed, ListsInv, Lists!load_config
    PROVE  ListsStep
  <1>1. /\ v1' = v1 /\ v4' = lists.Zones /\ v8' = v8
        /\ v7' = [d \in lists.Lookups |->
                     [v7[d] EXCEPT !.size = Lists!Length(v7[d], v4), !.shared = FALSE]]
    BY DEF Lists!load_config
  <1>2. ASSUME NEW d \in lists.Lookups
        PROVE  v7'[d] \in LookupSet /\ LookupFine(v7'[d], v4')
    <2>. PICK l \in LookupSet : l = v7[d]
      BY ListsTypeFacts
    <2>0. LookupFine(l, v4)
      BY ListsTypeFacts
    <2>1. PICK k \in Nat : k = Lists!Length(l, v4)
      <3>1. Cardinality(v4) \in Nat
        BY ListsTypeFacts, CountIs
      <3>2. l.size \in Nat
        BY DEF LookupSet
      <3>. QED
        BY <3>1, <3>2, LengthIs
    <2>. PICK n : n = [l EXCEPT !.size = k, !.shared = FALSE]
      OBVIOUS
    <2>2. /\ n \in LookupSet /\ n.pending = l.pending /\ n.shared = FALSE /\ n.size = k
          /\ n.completed = l.completed /\ n.changed = l.changed /\ n.hits = l.hits
          /\ n.ran_cb = l.ran_cb /\ n.answer = l.answer
      BY DEF LookupSet
    <2>3. v7'[d] = n
      BY <1>1, <2>1
    <2>4. Lists!Length(n, v4') = Lists!Length(l, v4)
      BY <2>1, <2>2, LengthIs
    <2>5. AllAsked(n, v4')
      BY <2>0, <2>2, <2>4 DEF LookupFine, AllAsked
    <2>6. l = Lists!NoLookup => n = Lists!NoLookup
      <3>. SUFFICES ASSUME l = Lists!NoLookup PROVE n = l
        OBVIOUS
      <3>1. k = 0 /\ l.size = 0 /\ l.shared = FALSE
        BY <2>1, NoLookupIs, LengthIs
      <3>. QED
        BY <3>1 DEF LookupSet
    <2>7. CalledIn(n) /\ Decided(n)
      BY <2>0, <2>2, <2>6 DEF LookupFine, CalledIn, Decided
    <2>. QED
      BY <2>2, <2>3, <2>5, <2>7 DEF LookupFine
  <1>3. v7' \in [lists.Lookups -> LookupSet] /\ \A d \in lists.Lookups : LookupFine(v7'[d], v4')
    BY <1>1, <1>2
  <1>4. ListsInv'
    BY <1>1, <1>3, KeepsLists, ListsTypeFacts
  <1>. QED
    BY <1>1, <1>4, NoTestPoint DEF ListsStep

LEMMA ListsNext == ASSUME ListsAssumed, ListsInv, Lists!Next PROVE ListsStep
  BY Looks, AnsweredBy, LookupGivenUp, ChecksStart, Probed, Reloads DEF Lists!Next

LEMMA ListsPromise == ASSUME ListsInv PROVE Lists!UnchangedIsDecided
  <1>. SUFFICES ASSUME NEW c \in lists.Lookups, v7[c] # Lists!NoLookup, ~v7[c].changed
                PROVE  /\ v7[c].pending = {} => v7[c].answer # "none"
                       /\ v7[c].answer = "cont" => v3[c] \cap (v7[c].hits \cup v7[c].pending) = {}
    BY DEF Lists!UnchangedIsDecided, Lists!None
  <1>1. Decided(v7[c])
    BY ListsTypeFacts DEF LookupFine
  <1>. QED
    BY <1>1 DEF Decided

----------------------------------------------------------------------------
(***************************************************************************)
(* SPF (v1 zone, v2 scope, v3 been_there, v4 count, v5 chain, v6 call, v7  *)
(* asks, v8 said, v9 answer, v10 texts).                                   *)
(***************************************************************************)

----------------------------------------------------------------------------
(* Types.                                                                  *)
Results == {"none", "pass", "fail", "softfail", "neutral", "temperror", "permerror"}

(* The mechanisms of the zone.                                             *)
WrittenMechs == UNION {Sender!Mechs(d) : d \in sender.Domains}

Chained(W) ==
    [obj : Nat, mechs : Seq(W), redirect : sender.Domains \union {"none"}, up : Nat,
     via : {"hook", "include", "redirect"}]
SpfAsked(W) ==
    [c : Nat, n : Nat, mech : W \union {Sender!Txt(d) : d \in sender.Domains}, left : SUBSET Nat, found : BOOLEAN]
Callback == [to : Nat, res : Results, by : {"none", "mech", "mod", "result"}]

(* The first chain is the hook's; every other goes back to one of them.    *)
ChainFine(x, c, n, counts) ==
    /\ x.obj \in 1..Len(counts)
    /\ c = 1 => x.via = "hook" /\ x.obj = 1
    /\ c # 1 => x.via # "hook" /\ x.up \in 1..n

ChainsFine(W, ch, counts) ==
    /\ counts \in Seq(Int)
    /\ ch \in Seq(Chained(W)) /\ 1 <= Len(ch)
    /\ \A c \in 1..Len(ch) : ChainFine(ch[c], c, Len(ch), counts)

CallFine(x, n) ==
    /\ x \in Callback
    /\ x.by = "none" => x = Sender!Idle
    /\ x.by # "none" => x.to \in 1..n

AsksFine(W, as, n) ==
    \A a \in as : a \in SpfAsked(W) /\ a.c \in 1..n /\ a.left \subseteq DOMAIN a.mech.out

Fetched(t, been) ==
    /\ t \in [sender.Domains -> Int]
    /\ \A d \in sender.Domains : t[d] = (IF d = sender.Start THEN 1 ELSE 0) + (IF d \in been THEN 1 ELSE 0)

SpfTypes ==
    /\ v1 \in sender.Zones
    /\ ChainsFine(WrittenMechs, v5, v4)
    /\ AsksFine(WrittenMechs, v7, Len(v5))
    /\ CallFine(v6, Len(v5))
    /\ v8 \in Seq(Results)
    /\ Fetched(v10, v3)

(* Who was refused had a result that is refused.                           *)
Refused(s, r) ==
    r \in {"deny", "denysoft"} => \E i \in 1..Len(s) : \E o \in sender.Enabled : o[2] = s[i]

LEMMA RecordsAre ==
    ASSUME SenderAssumed, v1 \in sender.Zones, NEW d \in sender.Domains
    PROVE  /\ v1[d] \in Sender!Record
           /\ v1[d].text \in {"spf", "none", "error", "bad"}
           /\ v1[d].redirect \in sender.Domains \union {"none"}
           /\ v1[d].mechs \in Seq(Sender!Mechanism)
           /\ v1[d].mechs \in Seq(WrittenMechs)
  <1>1. v1[d] \in Sender!Record
    BY DEF SenderAssumed
  <1>. PICK r \in Sender!Record : r = v1[d]
    BY <1>1
  <1>2. /\ r.text \in {"spf", "none", "error", "bad"}
        /\ r.redirect \in sender.Domains \union {"none"}
        /\ r.mechs \in Seq(Sender!Mechanism)
    BY DEF Sender!Record
  <1>. PICK q \in Seq(Sender!Mechanism) : q = r.mechs
    BY <1>2
  <1>3. \A i \in 1..Len(q) : q[i] \in WrittenMechs
    <2>1. DOMAIN q = 1..Len(q)
      BY LenProperties
    <2>2. \A i \in 1..Len(q) : q[i] \in Sender!Mechs(d)
      BY <2>1 DEF Sender!Mechs
    <2>. QED
      BY <2>2 DEF WrittenMechs
  <1>4. q \in Seq(WrittenMechs)
    BY <1>3, SeqDef, LenProperties
  <1>. QED
    BY <1>1, <1>2, <1>4

LEMMA WrittenIs ==
    ASSUME SenderAssumed, v1 \in sender.Zones
    PROVE  WrittenMechs \subseteq Sender!Mechanism
  <1>1. ASSUME NEW d \in sender.Domains, NEW m \in Sender!Mechs(d)
        PROVE  m \in Sender!Mechanism
    <2>1. PICK i \in DOMAIN v1[d].mechs : m = v1[d].mechs[i]
      BY <1>1 DEF Sender!Mechs
    <2>2. v1[d].mechs \in Seq(Sender!Mechanism)
      BY RecordsAre
    <2>. PICK q \in Seq(Sender!Mechanism) : q = v1[d].mechs
      BY <2>2
    <2>3. i \in 1..Len(q)
      BY <2>1, LenProperties
    <2>. QED
      BY <2>1, <2>3, ElementOfSeq
  <1>. QED
    BY <1>1 DEF WrittenMechs

----------------------------------------------------------------------------
(* Changes of the chains.                                                  *)
Trim(ch, c) == [ch EXCEPT ![c].mechs = Tail(@)]
Spent(ch, c) == [ch EXCEPT ![c].redirect = "none"]
Loaded(ch, c, r) == [ch EXCEPT ![c].mechs = r.mechs, ![c].redirect = r.redirect]
More(counts, o) == [counts EXCEPT ![o] = @ + 1]

(* Who a chain belongs to does not change.                                 *)
LEMMA StaysFine ==
    ASSUME NEW W, NEW counts, NEW ch, ChainsFine(W, ch, counts),
           NEW e \in Seq(Chained(W)), Len(e) = Len(ch),
           \A y \in 1..Len(ch) : e[y].obj = ch[y].obj /\ e[y].up = ch[y].up /\ e[y].via = ch[y].via
    PROVE  ChainsFine(W, e, counts)
  <1>1. ASSUME NEW y \in 1..Len(ch)
        PROVE  ChainFine(e[y], y, Len(e), counts)
    <2>1. ChainFine(ch[y], y, Len(ch), counts)
      BY DEF ChainsFine
    <2>. QED
      BY <2>1 DEF ChainFine
  <1>. QED
    BY <1>1 DEF ChainsFine

LEMMA TrimIs ==
    ASSUME NEW W, NEW counts, NEW ch, ChainsFine(W, ch, counts), NEW c \in 1..Len(ch),
           ch[c].mechs # <<>>,
           NEW e, e = Trim(ch, c)
    PROVE  /\ ChainsFine(W, e, counts) /\ Len(e) = Len(ch)
           /\ e[c].mechs = Tail(ch[c].mechs) /\ e[c].redirect = ch[c].redirect
           /\ e[c].obj = ch[c].obj /\ e[c].up = ch[c].up /\ e[c].via = ch[c].via
           /\ \A y \in 1..Len(ch) : y # c => e[y] = ch[y]
  <1>0. ch \in Seq(Chained(W))
    BY DEF ChainsFine
  <1>. PICK k \in Chained(W) : k = ch[c]
    BY <1>0, ElementOfSeq
  <1>. PICK q : q = Tail(k.mechs)
    OBVIOUS
  <1>1. q \in Seq(W)
    BY HeadTailProperties DEF Chained
  <1>. PICK x : x = [k EXCEPT !.mechs = q]
    OBVIOUS
  <1>2. /\ x \in Chained(W) /\ x.mechs = q /\ x.redirect = k.redirect
        /\ x.obj = k.obj /\ x.up = k.up /\ x.via = k.via
    BY <1>1 DEF Chained
  <1>3. e = [ch EXCEPT ![c] = x]
    BY DEF Trim
  <1>4. /\ e \in Seq(Chained(W)) /\ Len(e) = Len(ch)
        /\ \A y \in 1..Len(ch) : e[y] = IF y = c THEN x ELSE ch[y]
    BY <1>0, <1>2, <1>3, ExceptSeq
  <1>5. \A y \in 1..Len(ch) : e[y].obj = ch[y].obj /\ e[y].up = ch[y].up /\ e[y].via = ch[y].via
    BY <1>2, <1>4
  <1>6. ChainsFine(W, e, counts)
    BY <1>4, <1>5, StaysFine
  <1>. QED
    BY <1>2, <1>4, <1>6

LEMMA SpentIs ==
    ASSUME NEW W, NEW counts, NEW ch, ChainsFine(W, ch, counts), NEW c \in 1..Len(ch),
           NEW e, e = Spent(ch, c)
    PROVE  /\ ChainsFine(W, e, counts) /\ Len(e) = Len(ch)
           /\ e[c].mechs = ch[c].mechs /\ e[c].redirect = "none"
           /\ e[c].obj = ch[c].obj /\ e[c].up = ch[c].up /\ e[c].via = ch[c].via
           /\ \A y \in 1..Len(ch) : y # c => e[y] = ch[y]
  <1>0. ch \in Seq(Chained(W))
    BY DEF ChainsFine
  <1>. PICK k \in Chained(W) : k = ch[c]
    BY <1>0, ElementOfSeq
  <1>. PICK x : x = [k EXCEPT !.redirect = "none"]
    OBVIOUS
  <1>2. /\ x \in Chained(W) /\ x.mechs = k.mechs /\ x.redirect = "none"
        /\ x.obj = k.obj /\ x.up = k.up /\ x.via = k.via
    BY DEF Chained
  <1>3. e = [ch EXCEPT ![c] = x]
    BY DEF Spent
  <1>4. /\ e \in Seq(Chained(W)) /\ Len(e) = Len(ch)
        /\ \A y \in 1..Len(ch) : e[y] = IF y = c THEN x ELSE ch[y]
    BY <1>0, <1>2, <1>3, ExceptSeq
  <1>5. \A y \in 1..Len(ch) : e[y].obj = ch[y].obj /\ e[y].up = ch[y].up /\ e[y].via = ch[y].via
    BY <1>2, <1>4
  <1>6. ChainsFine(W, e, counts)
    BY <1>4, <1>5, StaysFine
  <1>. QED
    BY <1>2, <1>4, <1>6

LEMMA LoadedIs ==
    ASSUME NEW W, NEW counts, NEW ch, ChainsFine(W, ch, counts), NEW c \in 1..Len(ch),
           NEW r, r.mechs \in Seq(W), r.redirect \in sender.Domains \union {"none"},
           NEW e, e = Loaded(ch, c, r)
    PROVE  /\ ChainsFine(W, e, counts) /\ Len(e) = Len(ch)
           /\ e[c].mechs = r.mechs /\ e[c].redirect = r.redirect
           /\ e[c].obj = ch[c].obj /\ e[c].up = ch[c].up /\ e[c].via = ch[c].via
           /\ \A y \in 1..Len(ch) : y # c => e[y] = ch[y]
  <1>0. ch \in Seq(Chained(W))
    BY DEF ChainsFine
  <1>. PICK k \in Chained(W) : k = ch[c]
    BY <1>0, ElementOfSeq
  <1>. PICK q \in Seq(W), d \in sender.Domains \union {"none"} : q = r.mechs /\ d = r.redirect
    OBVIOUS
  <1>. PICK x : x = [k EXCEPT !.mechs = q, !.redirect = d]
    OBVIOUS
  <1>2. /\ x \in Chained(W) /\ x.mechs = q /\ x.redirect = d
        /\ x.obj = k.obj /\ x.up = k.up /\ x.via = k.via
    BY DEF Chained
  <1>3. e = [ch EXCEPT ![c] = x]
    <2>1. c \in DOMAIN ch
      BY <1>0, LenProperties
    <2>. QED
      BY <1>0, <2>1 DEF Loaded
  <1>4. /\ e \in Seq(Chained(W)) /\ Len(e) = Len(ch)
        /\ \A y \in 1..Len(ch) : e[y] = IF y = c THEN x ELSE ch[y]
    BY <1>0, <1>2, <1>3, ExceptSeq
  <1>5. \A y \in 1..Len(ch) : e[y].obj = ch[y].obj /\ e[y].up = ch[y].up /\ e[y].via = ch[y].via
    BY <1>2, <1>4
  <1>6. ChainsFine(W, e, counts)
    BY <1>4, <1>5, StaysFine
  <1>. QED
    BY <1>2, <1>4, <1>6

(* One more chain.                                                         *)
LEMMA LongerIs ==
    ASSUME NEW W, NEW counts, NEW ch, ChainsFine(W, ch, counts), NEW x \in Chained(W),
           x.obj \in 1..Len(counts), x.up \in 1..Len(ch), x.via # "hook",
           NEW e, e = Append(ch, x)
    PROVE  /\ ChainsFine(W, e, counts) /\ Len(e) = Len(ch) + 1 /\ e[Len(ch) + 1] = x
           /\ \A y \in 1..Len(ch) : e[y] = ch[y]
  <1>0. ch \in Seq(Chained(W)) /\ 1 <= Len(ch) /\ Len(ch) \in Nat /\ Len(counts) \in Nat
    BY LenProperties DEF ChainsFine
  <1>2. /\ e \in Seq(Chained(W)) /\ Len(e) = Len(ch) + 1 /\ e[Len(ch) + 1] = x
        /\ \A y \in 1..Len(ch) : e[y] = ch[y]
    BY <1>0, AppendProperties
  <1>3. ASSUME NEW y \in 1..Len(e)
        PROVE  ChainFine(e[y], y, Len(e), counts)
    <2>1. CASE y \in 1..Len(ch)
      <3>1. ChainFine(ch[y], y, Len(ch), counts)
        BY <2>1 DEF ChainsFine
      <3>2. \A u \in 1..Len(ch) : u \in 1..Len(e)
        BY <1>0, <1>2
      <3>. QED
        BY <1>2, <2>1, <3>1, <3>2 DEF ChainFine
    <2>2. CASE y \notin 1..Len(ch)
      <3>1. y = Len(ch) + 1 /\ y # 1 /\ x.up \in 1..Len(e)
        BY <1>0, <1>2, <2>2
      <3>. QED
        BY <1>2, <3>1 DEF ChainFine
    <2>. QED
      BY <2>1, <2>2
  <1>4. ChainsFine(W, e, counts)
    <2>1. 1 <= Len(e)
      BY <1>0, <1>2
    <2>. QED
      BY <1>2, <1>3, <2>1 DEF ChainsFine
  <1>. QED
    BY <1>2, <1>4

LEMMA MoreIs ==
    ASSUME NEW counts \in Seq(Int), NEW o \in 1..Len(counts),
           NEW e, e = More(counts, o)
    PROVE  /\ e \in Seq(Int) /\ Len(e) = Len(counts)
           /\ \A y \in 1..Len(counts) : counts[y] <= e[y]
  <1>. PICK n \in Int : n = counts[o]
    BY ElementOfSeq
  <1>0. e = [counts EXCEPT ![o] = n + 1]
    BY DEF More
  <1>1. e \in Seq(Int) /\ Len(e) = Len(counts) /\ \A y \in 1..Len(counts) : e[y] = IF y = o THEN n + 1 ELSE counts[y]
    BY <1>0, ExceptSeq
  <1>2. ASSUME NEW y \in 1..Len(counts)
        PROVE  counts[y] <= e[y]
    <2>1. counts[y] \in Int
      BY ElementOfSeq
    <2>. QED
      BY <1>1, <2>1
  <1>. QED
    BY <1>1, <1>2

LEMMA CountsAreFine ==
    ASSUME NEW W, NEW counts, NEW ch, ChainsFine(W, ch, counts),
           NEW more \in Seq(Int), Len(counts) <= Len(more)
    PROVE  ChainsFine(W, ch, more)
  <1>0. Len(counts) \in Nat /\ Len(more) \in Nat
    BY LenProperties DEF ChainsFine
  <1>1. \A o \in 1..Len(counts) : o \in 1..Len(more)
    BY <1>0
  <1>2. \A c \in 1..Len(ch) : ChainFine(ch[c], c, Len(ch), more)
    BY <1>1 DEF ChainsFine, ChainFine
  <1>. QED
    BY <1>2 DEF ChainsFine

----------------------------------------------------------------------------
(* The steps.                                                              *)
Called(c, r, by) == v6' = [to |-> c, res |-> r, by |-> by]
StaysSame == v3' = v3 /\ v10' = v10

(* A callback of chain c, k, in the limit and with no result.              *)
ChainGoesOn(k) == v4[k.obj] <= sender.LIMIT /\ v6.res = "none"
Runs(k, m) == ChainGoesOn(k) /\ v6.by = "mech" /\ k.mechs # <<>> /\ m = Head(k.mechs)
ChainAtEnd(k) == v6.by = "mod" \/ k.mechs = <<>>

Stops(c, k) ==
    /\ StaysSame /\ v4' = v4 /\ v5' = v5 /\ v7' = v7
    /\ \E r \in Results \ {"none"} :
          /\ Called(c, r, "result")
          /\ v4[k.obj] <= sender.LIMIT => r = IF v6.res # "none" THEN v6.res ELSE "neutral"
          /\ ChainGoesOn(k) => ChainAtEnd(k) /\ k.redirect = "none"

CallsBack(c, k, m) ==
    /\ Runs(k, m) /\ m.kind \in {"all", "ip"}
    /\ v5' = Trim(v5, c) /\ Called(c, Sender!Found(m.out[1], m.q), "mech")
    /\ StaysSame /\ v4' = v4 /\ v7' = v7

AsksFor(c, k, m) ==
    /\ Runs(k, m) /\ m.kind \in {"a", "mx", "ptr"}
    /\ v5' = Trim(v5, c) /\ v6' = Sender!Idle
    /\ StaysSame /\ v4' = More(v4, k.obj)
    /\ v7' = v7 \union {Sender!Ask(c, Len(k.mechs), m, DOMAIN m.out, FALSE)}

SkipsInclude(c, k, m) ==
    /\ Runs(k, m) /\ m.kind = "include" /\ m.to \in v3
    /\ v5' = Trim(v5, c) /\ Called(c, "none", "mech")
    /\ StaysSame /\ v4' = v4 /\ v7' = v7

Fetches(d) ==
    /\ d \notin v3 /\ v6' = Sender!Idle
    /\ v7' = v7 \union {Sender!Ask(Len(v5) + 1, 0, Sender!Txt(d), {}, FALSE)}
    /\ v10' = [v10 EXCEPT ![d] = @ + 1]
    /\ v3' = v3 \union {d}

Includes(c, k, m) ==
    /\ Runs(k, m) /\ m.kind = "include" /\ Fetches(m.to)
    /\ v5' = Append(Trim(v5, c), Sender!Chain(Len(v4) + 1, c, "include"))
    /\ v4' = More(Append(v4, v4[k.obj] + 1), k.obj)

SkipsRedirect(c, k) ==
    /\ ChainGoesOn(k) /\ ChainAtEnd(k) /\ k.redirect # "none" /\ k.redirect \in v3
    /\ v5' = Spent(v5, c) /\ Called(c, "none", "mod")
    /\ StaysSame /\ v4' = v4 /\ v7' = v7

Redirects(c, k) ==
    /\ ChainGoesOn(k) /\ ChainAtEnd(k) /\ k.redirect # "none" /\ Fetches(k.redirect)
    /\ v5' = Append(Spent(v5, c), Sender!Chain(k.obj, c, "redirect"))
    /\ v4' = More(v4, k.obj)

LEMMA ChainIs ==
    ASSUME SpfTypes, NEW c \in 1..Len(v5)
    PROVE  /\ v5[c] \in Chained(WrittenMechs) /\ v5[c].mechs \in Seq(WrittenMechs)
           /\ v5[c].redirect \in sender.Domains \union {"none"}
           /\ v5[c].obj \in 1..Len(v4) /\ v4 \in Seq(Int)
           /\ c \in Nat /\ Len(v4) \in Nat /\ Len(v5) \in Nat
           /\ v5 \in Seq(Chained(WrittenMechs))
           /\ v4[v5[c].obj] \in Int
  <1>1. v5 \in Seq(Chained(WrittenMechs)) /\ v4 \in Seq(Int)
    BY DEF SpfTypes, ChainsFine
  <1>2. v5[c] \in Chained(WrittenMechs)
    BY <1>1, ElementOfSeq
  <1>3. v5[c].obj \in 1..Len(v4)
    BY DEF SpfTypes, ChainsFine, ChainFine
  <1>4. v4[v5[c].obj] \in Int
    BY <1>1, <1>3, ElementOfSeq
  <1>5. Len(v4) \in Nat /\ Len(v5) \in Nat
    BY <1>1, LenProperties
  <1>. QED
    BY <1>1, <1>2, <1>3, <1>4, <1>5 DEF Chained

LEMMA CallbackIs ==
    ASSUME SpfTypes, v6.by # "none"
    PROVE  /\ v6.to \in 1..Len(v5) /\ v6 \in Callback
           /\ v6.res \in Results /\ v6.by \in {"mech", "mod", "result"}
  BY DEF SpfTypes, CallFine, Callback

LEMMA chain_callerIs ==
    ASSUME SenderAssumed, SpfTypes, Sender!chain_caller
    PROVE  /\ v6.by \in {"mech", "mod"} /\ v6.to \in 1..Len(v5)
           /\ v1' = v1 /\ v8' = v8 /\ v9' = v9
           /\ \/ Stops(v6.to, v5[v6.to])
              \/ SkipsRedirect(v6.to, v5[v6.to])
              \/ Redirects(v6.to, v5[v6.to])
              \/ \E m \in WrittenMechs :
                    \/ CallsBack(v6.to, v5[v6.to], m)
                    \/ AsksFor(v6.to, v5[v6.to], m)
                    \/ SkipsInclude(v6.to, v5[v6.to], m)
                    \/ Includes(v6.to, v5[v6.to], m)
  <1>1. v6.by \in {"mech", "mod"}
    BY DEF Sender!chain_caller
  <1>2. v6.to \in 1..Len(v5) /\ v6.res \in Results
    BY <1>1, CallbackIs
  <1>. PICK c \in 1..Len(v5) : c = v6.to
    BY <1>2
  <1>. PICK k : k = v5[c]
    OBVIOUS
  <1>3. /\ k \in Chained(WrittenMechs) /\ k.mechs \in Seq(WrittenMechs) /\ v4[k.obj] \in Int
        /\ Len(v4) \in Nat /\ Len(v5) \in Nat /\ v5 \in Seq(Chained(WrittenMechs))
    BY ChainIs
  <1>4. v1' = v1 /\ v8' = v8 /\ v9' = v9
    BY DEF Sender!chain_caller
  <1>5. sender.LIMIT \in Int
    BY DEF SenderAssumed
  <1>6. CASE v4[k.obj] > sender.LIMIT
    <2>1. /\ v6' = [to |-> c, res |-> "permerror", by |-> "result"]
          /\ UNCHANGED <<v3, v4, v5, v7, v10>>
      BY <1>3, <1>5, <1>6 DEF Sender!chain_caller, Sender!Result
    <2>2. ~(v4[k.obj] <= sender.LIMIT) /\ "permerror" \in Results \ {"none"}
      BY <1>3, <1>5, <1>6 DEF Results
    <2>3. Stops(c, k)
      BY <2>1, <2>2 DEF Stops, Called, StaysSame, ChainGoesOn
    <2>. QED
      BY <1>1, <1>2, <1>4, <2>3
  <1>7. CASE v4[k.obj] <= sender.LIMIT /\ v6.res # "none"
    <2>1. /\ v6' = [to |-> c, res |-> v6.res, by |-> "result"]
          /\ UNCHANGED <<v3, v4, v5, v7, v10>>
      BY <1>3, <1>5, <1>7 DEF Sender!chain_caller, Sender!Result
    <2>. QED
      BY <1>1, <1>2, <1>4, <1>7, <2>1 DEF Stops, Called, StaysSame, ChainGoesOn
  <1>8. CASE v4[k.obj] <= sender.LIMIT /\ v6.res = "none"
    <2>0. /\ ~(v4[k.obj] > sender.LIMIT)
          /\ IF v6.by = "mech" /\ k.mechs # <<>>
             THEN IF Head(k.mechs).kind = "include"
                  THEN Sender!mech_include(c, Head(k.mechs)) ELSE Sender!mech(c, Head(k.mechs))
             ELSE IF k.redirect # "none" THEN Sender!mod_redirect(c)
                  ELSE Sender!Result(c, "neutral") /\ UNCHANGED <<v3, v4, v5, v7, v10>>
      BY <1>3, <1>5, <1>8 DEF Sender!chain_caller
    <2>1. CASE v6.by = "mech" /\ k.mechs # <<>>
      <3>. PICK m \in WrittenMechs : m = Head(k.mechs)
        BY <1>3, <2>1, HeadTailProperties
      <3>0. Runs(k, m)
        BY <1>8, <2>1 DEF Runs, ChainGoesOn
      <3>00. m.kind \in {"all", "ip", "a", "mx", "ptr", "include"}
        BY WrittenIs DEF SpfTypes, Sender!Mechanism
      <3>1. CASE m.kind = "include" /\ m.to \in v3
        <4>1. Sender!mech_include(c, m)
          BY <2>0, <2>1, <3>1
        <4>2. SkipsInclude(c, k, m)
          BY <3>0, <3>1, <4>1 DEF Sender!mech_include, SkipsInclude, Sender!Back, Called, StaysSame, Trim
        <4>. QED
          BY <1>1, <1>2, <1>4, <4>2
      <3>2. CASE m.kind = "include" /\ m.to \notin v3
        <4>1. Sender!mech_include(c, m)
          BY <2>0, <2>1, <3>2
        <4>. PICK e : e = Trim(v5, c)
          OBVIOUS
        <4>2. Len(e) = Len(v5)
          BY <1>3, <2>1, TrimIs DEF SpfTypes
        <4>3. Sender!check_host(e, Len(v4) + 1, m.to, c, "include")
          BY <3>2, <4>1 DEF Sender!mech_include, Trim
        <4>4. Fetches(m.to) /\ v5' = Append(e, Sender!Chain(Len(v4) + 1, c, "include"))
          BY <3>2, <4>2, <4>3 DEF Sender!check_host, Fetches
        <4>5. v4' = More(Append(v4, v4[k.obj] + 1), k.obj)
          BY <3>2, <4>1 DEF Sender!mech_include, More
        <4>6. Includes(c, k, m)
          BY <3>0, <3>2, <4>4, <4>5 DEF Includes
        <4>. QED
          BY <1>1, <1>2, <1>4, <4>6
      <3>3. CASE m.kind \in {"all", "ip"}
        <4>1. Sender!mech(c, m)
          BY <2>0, <2>1, <3>3
        <4>2. CallsBack(c, k, m)
          BY <3>0, <3>3, <4>1 DEF Sender!mech, CallsBack, Sender!Back, Called, StaysSame, Trim
        <4>. QED
          BY <1>1, <1>2, <1>4, <4>2
      <3>4. CASE m.kind \in {"a", "mx", "ptr"}
        <4>1. Sender!mech(c, m)
          BY <2>0, <2>1, <3>4
        <4>2. AsksFor(c, k, m)
          BY <3>0, <3>4, <4>1 DEF Sender!mech, AsksFor, StaysSame, Trim, More
        <4>. QED
          BY <1>1, <1>2, <1>4, <4>2
      <3>. QED
        BY <3>00, <3>1, <3>2, <3>3, <3>4
    <2>2. CASE ~(v6.by = "mech" /\ k.mechs # <<>>)
      <3>0. ChainGoesOn(k) /\ ChainAtEnd(k)
        BY <1>1, <1>8, <2>2 DEF ChainGoesOn, ChainAtEnd
      <3>1. CASE k.redirect = "none"
        <4>1. /\ v6' = [to |-> c, res |-> "neutral", by |-> "result"]
              /\ UNCHANGED <<v3, v4, v5, v7, v10>>
          BY <2>0, <2>2, <3>1 DEF Sender!Result
        <4>. QED
          BY <1>1, <1>2, <1>4, <1>8, <3>0, <3>1, <4>1 DEF Stops, Called, StaysSame, Results, ChainGoesOn
      <3>2. CASE k.redirect # "none" /\ k.redirect \in v3
        <4>1. Sender!mod_redirect(c)
          BY <2>0, <2>2, <3>2
        <4>2. SkipsRedirect(c, k)
          BY <3>0, <3>2, <4>1 DEF Sender!mod_redirect, SkipsRedirect, Called, StaysSame, Spent
        <4>. QED
          BY <1>1, <1>2, <1>4, <4>2
      <3>3. CASE k.redirect # "none" /\ k.redirect \notin v3
        <4>1. Sender!mod_redirect(c)
          BY <2>0, <2>2, <3>3
        <4>. PICK e : e = Spent(v5, c)
          OBVIOUS
        <4>2. Len(e) = Len(v5)
          BY SpentIs DEF SpfTypes
        <4>3. Sender!check_host(e, k.obj, k.redirect, c, "redirect") /\ v4' = More(v4, k.obj)
          BY <3>3, <4>1 DEF Sender!mod_redirect, Spent, More
        <4>4. Fetches(k.redirect) /\ v5' = Append(e, Sender!Chain(k.obj, c, "redirect"))
          BY <3>3, <4>2, <4>3 DEF Sender!check_host, Fetches
        <4>5. Redirects(c, k)
          BY <3>0, <3>3, <4>3, <4>4 DEF Redirects
        <4>. QED
          BY <1>1, <1>2, <1>4, <4>5
      <3>. QED
        BY <3>1, <3>2, <3>3
    <2>. QED
      BY <2>1, <2>2
  <1>. QED
    BY <1>2, <1>3, <1>5, <1>6, <1>7, <1>8

(* What the DNS answers.                                                   *)
NoRecord(text) ==
    CASE text = "none" -> "none" [] text = "error" -> "temperror" [] text = "bad" -> "permerror"

Fetched_(a, d) ==
    /\ a.mech = Sender!Txt(d) /\ v7' = v7 \ {a}
    /\ StaysSame /\ v4' = v4
    /\ \/ /\ v1[d].text = "spf"
          /\ v5' = Loaded(v5, a.c, v1[d]) /\ Called(a.c, "none", "mech")
       \/ /\ v1[d].text \in {"none", "error", "bad"}
          /\ v5' = v5 /\ Called(a.c, NoRecord(v1[d].text), "result")

HostLookedUp(a) ==
    /\ a.mech \in WrittenMechs /\ a.mech.kind = "a" /\ v7' = v7 \ {a}
    /\ Called(a.c, Sender!Found(a.mech.out[1], a.mech.q), "mech")
    /\ StaysSame /\ v4' = v4 /\ v5' = v5

HostCame(a, i, left, found) ==
    /\ a.mech \in WrittenMechs /\ a.mech.kind \in {"mx", "ptr"} /\ i \in a.left
    /\ left = a.left \ {i} /\ found = (a.found \/ a.mech.out[i] = "match")
    /\ \/ left = {} /\ v7' = v7 \ {a}
       \/ /\ left # {}
          /\ v7' = (v7 \ {a}) \union
                {[c |-> a.c, n |-> a.n, mech |-> a.mech, left |-> left, found |-> found]}
    /\ \/ a.mech.kind = "mx" /\ a.mech.out[i] = "error" /\ Called(a.c, "temperror", "mech")
       \/ /\ ~(a.mech.kind = "mx" /\ a.mech.out[i] = "error")
          /\ IF left = {} THEN Called(a.c, IF found THEN a.mech.q ELSE "none", "mech") ELSE v6' = Sender!Idle
    /\ StaysSame /\ v4' = v4 /\ v5' = v5

LEMMA TxtIs ==
    ASSUME NEW d
    PROVE  Sender!Txt(d).kind = "txt" /\ Sender!Txt(d).to = d /\ Sender!Txt(d).out = <<>>
  BY DEF Sender!Txt

LEMMA KindOf ==
    ASSUME SenderAssumed, SpfTypes, NEW a \in v7
    PROVE  \/ a.mech \in WrittenMechs /\ a.mech.kind \in {"all", "ip", "a", "mx", "ptr", "include"}
           \/ \E d \in sender.Domains : a.mech = Sender!Txt(d) /\ a.mech.kind = "txt"
  <1>1. a.mech \in WrittenMechs \union {Sender!Txt(d) : d \in sender.Domains}
    BY DEF SpfTypes, AsksFine, SpfAsked
  <1>2. a.mech \in WrittenMechs => a.mech.kind \in {"all", "ip", "a", "mx", "ptr", "include"}
    BY WrittenIs DEF SpfTypes, Sender!Mechanism
  <1>. QED
    BY <1>1, <1>2, TxtIs

LEMMA answeredIs ==
    ASSUME SenderAssumed, SpfTypes, Sender!answered
    PROVE  /\ v1' = v1 /\ v8' = v8 /\ v9' = v9 /\ v6 = Sender!Idle
           /\ \E a \in v7 :
                 \/ \E d \in sender.Domains : Fetched_(a, d)
                 \/ HostLookedUp(a)
                 \/ \E i, left, found : HostCame(a, i, left, found)
  <1>1. PICK a \in v7 :
           v6 = Sender!Idle /\ (Sender!txt(a) \/ Sender!lookup(a) \/ \E i \in a.left : Sender!host(a, i))
    BY DEF Sender!answered
  <1>2. CASE Sender!txt(a)
    <2>1. a.mech.kind = "txt"
      BY <1>2 DEF Sender!txt
    <2>2. PICK d \in sender.Domains : a.mech = Sender!Txt(d)
      BY <2>1, KindOf
    <2>. PICK r : r = v1[d]
      OBVIOUS
    <2>3. r.text \in {"spf", "none", "error", "bad"}
      BY RecordsAre DEF SpfTypes
    <2>4. a.mech.to = d
      BY <2>2, TxtIs
    <2>5. /\ v7' = v7 \ {a} /\ StaysSame /\ v4' = v4 /\ v1' = v1 /\ v8' = v8 /\ v9' = v9
      BY <1>2 DEF Sender!txt, StaysSame
    <2>6. CASE r.text = "spf"
      <3>1. v5' = Loaded(v5, a.c, r) /\ Called(a.c, "none", "mech")
        BY <1>2, <2>4, <2>6 DEF Sender!txt, Loaded, Called, Sender!Back
      <3>. QED
        BY <1>1, <2>2, <2>5, <2>6, <3>1 DEF Fetched_
    <2>7. CASE r.text # "spf"
      <3>1. v5' = v5 /\ Called(a.c, NoRecord(r.text), "result")
        BY <1>2, <2>4, <2>7 DEF Sender!txt, Called, Sender!Result, NoRecord
      <3>2. r.text \in {"none", "error", "bad"}
        BY <2>3, <2>7
      <3>. QED
        BY <1>1, <2>2, <2>5, <3>1, <3>2 DEF Fetched_
    <2>. QED
      BY <2>6, <2>7
  <1>3. CASE Sender!lookup(a)
    <2>1. a.mech.kind = "a"
      BY <1>3 DEF Sender!lookup
    <2>2. a.mech \in WrittenMechs
      BY <2>1, KindOf
    <2>3. HostLookedUp(a)
      BY <1>3, <2>1, <2>2 DEF Sender!lookup, HostLookedUp, Sender!Back, Called, StaysSame
    <2>. QED
      BY <1>1, <1>3, <2>3 DEF Sender!lookup
  <1>4. ASSUME NEW i \in a.left, Sender!host(a, i)
        PROVE  \E left, found : HostCame(a, i, left, found)
    <2>1. a.mech.kind \in {"mx", "ptr"}
      BY <1>4 DEF Sender!host
    <2>2. a.mech \in WrittenMechs
      BY <2>1, KindOf
    <2>. PICK found : found = (a.found \/ a.mech.out[i] = "match")
      OBVIOUS
    <2>. PICK left : left = a.left \ {i}
      OBVIOUS
    <2>. PICK b : b = [a EXCEPT !.left = left, !.found = found]
      OBVIOUS
    <2>3. a \in SpfAsked(WrittenMechs)
      BY DEF SpfTypes, AsksFine
    <2>4. b = [c |-> a.c, n |-> a.n, mech |-> a.mech, left |-> left, found |-> found]
      BY <2>3 DEF SpfAsked
    <2>5. v7' = (v7 \ {a}) \union (IF left = {} THEN {} ELSE {b})
      BY <1>4 DEF Sender!host
    <2>7. \/ left = {} /\ v7' = v7 \ {a}
          \/ left # {} /\ v7' = (v7 \ {a}) \union {b}
      BY <2>5
    <2>8. StaysSame /\ v4' = v4 /\ v5' = v5
      BY <1>4 DEF Sender!host, StaysSame
    <2>9. \/ a.mech.kind = "mx" /\ a.mech.out[i] = "error" /\ Called(a.c, "temperror", "mech")
          \/ /\ ~(a.mech.kind = "mx" /\ a.mech.out[i] = "error")
             /\ IF left = {} THEN Called(a.c, IF found THEN a.mech.q ELSE "none", "mech") ELSE v6' = Sender!Idle
      <3>. PICK bad \in BOOLEAN : bad <=> a.mech.kind = "mx" /\ a.mech.out[i] = "error"
        OBVIOUS
      <3>1. /\ bad => Sender!Back(a.c, "temperror")
            /\ ~bad /\ left = {} => Sender!Back(a.c, IF found THEN a.mech.q ELSE "none")
            /\ ~bad /\ left # {} => v6' = Sender!Idle
        BY <1>4 DEF Sender!host
      <3>2. CASE bad
        BY <3>1, <3>2 DEF Called, Sender!Back
      <3>3. CASE ~bad
        BY <3>1, <3>3 DEF Called, Sender!Back
      <3>. QED
        BY <3>2, <3>3
    <2>. QED
      BY <2>1, <2>2, <2>4, <2>7, <2>8, <2>9 DEF HostCame
  <1>5. (\E i \in a.left : Sender!host(a, i)) => v1' = v1 /\ v8' = v8 /\ v9' = v9
    BY DEF Sender!host
  <1>. QED
    BY <1>1, <1>2, <1>3, <1>4, <1>5

(* What a chain's result does.                                             *)
ToChain(k) ==
    /\ v8' = v8 /\ v9' = v9
    /\ \/ k.via = "include" /\ Called(k.up, Sender!Included(v6.res), "mech")
       \/ k.via = "redirect" /\ Called(k.up, v6.res, "mod")

ToHook(k) ==
    /\ k.via = "hook" /\ v6' = Sender!Idle
    /\ v8' = IF v9 = "timeout" THEN v8 ELSE Append(v8, v6.res)
    /\ v9' = IF v9 = "none" /\ v2 = "mail" THEN Sender!return_results(v6.res)
                 ELSE IF v9 = "none" THEN "cont" ELSE v9

LEMMA chain_resultIs ==
    ASSUME SpfTypes, Sender!chain_result
    PROVE  /\ v6.by = "result" /\ v6.to \in 1..Len(v5)
           /\ StaysSame /\ v1' = v1 /\ v4' = v4 /\ v5' = v5 /\ v7' = v7
           /\ ToChain(v5[v6.to]) \/ ToHook(v5[v6.to])
  <1>1. v6.by = "result"
    BY DEF Sender!chain_result
  <1>2. v6.to \in 1..Len(v5)
    BY <1>1, CallbackIs
  <1>. PICK k : k = v5[v6.to]
    OBVIOUS
  <1>3. k.via \in {"hook", "include", "redirect"}
    BY <1>2, ChainIs DEF Chained
  <1>4. CASE k.via = "include"
    BY <1>1, <1>2, <1>4 DEF Sender!chain_result, ToChain, Sender!Back, Called, StaysSame
  <1>5. CASE k.via = "redirect"
    BY <1>1, <1>2, <1>5 DEF Sender!chain_result, ToChain, Called, StaysSame
  <1>6. CASE k.via = "hook"
    BY <1>1, <1>2, <1>6 DEF Sender!chain_result, ToHook, StaysSame
  <1>. QED
    BY <1>3, <1>4, <1>5, <1>6

----------------------------------------------------------------------------
(* One thread of callbacks, but for mx: its error calls back at once.      *)
Thread(x, as, s) ==
    /\ Len(s) <= 1
    /\ s # <<>> => as = {} /\ x.by = "none"
    /\ x.by # "none" => as = {}
    /\ \A a, b \in as : a = b

Basics ==
    /\ SpfTypes
    /\ Refused(v8, v9)
    /\ ~Sender!MxError => Thread(v6, v7, v8)

LEMMA SameZone ==
    ASSUME v1' = v1
    PROVE  /\ WrittenMechs' = WrittenMechs /\ Sender!MxError' = Sender!MxError
           /\ \A d : Sender!Mechs(d)' = Sender!Mechs(d)
  <1>1. \A d : Sender!Mechs(d)' = Sender!Mechs(d)
    BY DEF Sender!Mechs
  <1>. QED
    BY <1>1 DEF WrittenMechs, Sender!MxError

LEMMA IdleIs ==
    /\ Sender!Idle.by = "none" /\ \A n : CallFine(Sender!Idle, n)
    /\ \A x : x.by # "none" => x # Sender!Idle
  <1>1. Sender!Idle.by = "none" /\ Sender!Idle \in Callback
    BY DEF Sender!Idle, Callback, Results
  <1>. QED
    BY <1>1 DEF CallFine

(* What the parts of the state are after a step.                           *)
LEMMA StillTyped ==
    ASSUME SpfTypes, v1' = v1, ChainsFine(WrittenMechs, v5', v4'),
           AsksFine(WrittenMechs, v7', Len(v5')), CallFine(v6', Len(v5')),
           v8' \in Seq(Results), Fetched(v10', v3')
    PROVE  SpfTypes'
  BY SameZone DEF SpfTypes

LEMMA CallIsFine ==
    ASSUME NEW n, n \in Nat, NEW c \in 1..n, NEW r \in Results, NEW by \in {"mech", "mod", "result"}, Called(c, r, by)
    PROVE  CallFine(v6', n) /\ v6'.by = by /\ v6'.to = c /\ v6'.res = r
  <1>. PICK x : x = [to |-> c, res |-> r, by |-> by]
    OBVIOUS
  <1>1. x \in Callback /\ x.by = by /\ x.to = c /\ x.res = r
    BY DEF Callback
  <1>2. v6' = x
    BY DEF Called
  <1>. QED
    BY <1>1, <1>2 DEF CallFine

LEMMA AskIsFine ==
    ASSUME NEW W, NEW as, NEW n, AsksFine(W, as, n),
           NEW b \in SpfAsked(W), b.c \in 1..n, b.left \subseteq DOMAIN b.mech.out,
           NEW more, more \subseteq as \union {b}
    PROVE  AsksFine(W, more, n)
  BY DEF AsksFine

LEMMA StillFetched ==
    ASSUME Fetched(v10, v3), NEW d, Fetches(d)
    PROVE  Fetched(v10', v3')
  <1>1. v10 \in [sender.Domains -> Int]
    BY DEF Fetched
  <1>2. ASSUME NEW e \in sender.Domains
        PROVE  /\ v10'[e] = (IF e = sender.Start THEN 1 ELSE 0) + (IF e \in v3' THEN 1 ELSE 0)
               /\ v10'[e] \in Int
    <2>1. v10[e] = (IF e = sender.Start THEN 1 ELSE 0) + (IF e \in v3 THEN 1 ELSE 0)
      BY DEF Fetched
    <2>2. v10'[e] = IF e = d THEN v10[e] + 1 ELSE v10[e]
      BY <1>1 DEF Fetches
    <2>3. CASE e = d
      BY <2>1, <2>2, <2>3 DEF Fetches
    <2>4. CASE e # d
      BY <2>1, <2>2, <2>4 DEF Fetches
    <2>. QED
      BY <2>3, <2>4
  <1>3. v10' \in [sender.Domains -> Int]
    BY <1>1, <1>2 DEF Fetches
  <1>. QED
    BY <1>2, <1>3 DEF Fetched

(* A step that leaves what the hook was told and answered.                 *)
LEMMA StillBasic ==
    ASSUME Basics, SpfTypes', v1' = v1, v8' = v8, v9' = v9,
           ~Sender!MxError => Thread(v6', v7', v8)
    PROVE  Basics'
  BY SameZone DEF Basics, Refused

----------------------------------------------------------------------------
(* Each step keeps them.                                                   *)
LEMMA MechanismIs ==
    ASSUME SenderAssumed, v1 \in sender.Zones, NEW m \in WrittenMechs
    PROVE  /\ m.kind \in {"all", "ip", "a", "mx", "ptr", "include"}
           /\ m.q \in Results \ {"none"} /\ m.to \in sender.Domains
           /\ m.out \in Seq({"match", "no", "error", "many"})
           /\ DOMAIN m.out = 1..Len(m.out) /\ DOMAIN m.out \in SUBSET Nat
           /\ m.kind \in {"all", "ip", "a"} => Len(m.out) = 1 /\ m.out[1] \in {"match", "no", "error", "many"}
           /\ m.kind \in {"all", "ip"} => m.out[1] \notin {"error", "many"}
           /\ m.kind \in {"mx", "ptr"} => DOMAIN m.out # {}
  <1>1. m \in Sender!Mechanism
    BY WrittenIs
  <1>2. /\ m.kind \in {"all", "ip", "a", "mx", "ptr", "include"}
        /\ m.q \in {"pass", "fail", "softfail", "neutral"} /\ m.to \in sender.Domains
        /\ m.out \in Seq({"match", "no", "error", "many"})
        /\ m.kind \in {"all", "ip", "a"} => Len(m.out) = 1
        /\ m.kind \in {"all", "ip"} => m.out[1] \notin {"error", "many"}
        /\ m.kind \in {"mx", "ptr"} => m.out # <<>>
    BY <1>1 DEF Sender!Mechanism
  <1>. PICK q \in Seq({"match", "no", "error", "many"}) : q = m.out
    BY <1>2
  <1>3. DOMAIN q = 1..Len(q) /\ Len(q) \in Nat
    BY LenProperties
  <1>4. Len(q) = 1 => q[1] \in {"match", "no", "error", "many"}
    BY <1>3, ElementOfSeq
  <1>5. q # <<>> => 1 \in DOMAIN q
    BY <1>3, EmptySeq
  <1>6. DOMAIN q \in SUBSET Nat
    BY <1>3
  <1>. QED
    BY <1>2, <1>3, <1>4, <1>5, <1>6 DEF Results

LEMMA FoundIs ==
    ASSUME NEW out \in {"match", "no", "error", "many"}, NEW q \in Results
    PROVE  Sender!Found(out, q) \in Results
  BY DEF Sender!Found, Results

LEMMA OneAsk ==
    ASSUME Basics, ~Sender!MxError, NEW a \in v7
    PROVE  v7 = {a} /\ v8 = <<>> /\ v6.by = "none"
  BY DEF Basics, Thread

LEMMA NoAsk ==
    ASSUME Basics, ~Sender!MxError, v6.by # "none"
    PROVE  v7 = {} /\ v8 = <<>>
  BY DEF Basics, Thread

LEMMA ThreadIs ==
    ASSUME NEW x, NEW as
    PROVE  /\ x.by # "none" /\ as = {} => Thread(x, as, <<>>)
           /\ \A a : as \subseteq {a} /\ x.by = "none" => Thread(x, as, <<>>)
  <1>1. Len(<<>>) <= 1
    BY EmptySeq
  <1>. QED
    BY <1>1 DEF Thread

LEMMA answeredKeeps ==
    ASSUME SenderAssumed, Basics, Sender!answered
    PROVE  Basics'
  <1>0. SpfTypes /\ v1 \in sender.Zones /\ v1' = v1 /\ v8' = v8 /\ v9' = v9 /\ v6 = Sender!Idle
    BY answeredIs DEF Basics, SpfTypes
  <1>. PICK a \in v7 : \/ \E d \in sender.Domains : Fetched_(a, d)
                       \/ HostLookedUp(a)
                       \/ \E i, left, found : HostCame(a, i, left, found)
    BY <1>0, answeredIs
  <1>1. /\ a \in SpfAsked(WrittenMechs) /\ a.c \in 1..Len(v5) /\ a.left \subseteq DOMAIN a.mech.out
        /\ a.n \in Nat /\ a.left \in SUBSET Nat /\ a.found \in BOOLEAN
    BY <1>0 DEF SpfTypes, AsksFine, SpfAsked
  <1>2. Len(v5) \in Nat /\ ChainsFine(WrittenMechs, v5, v4)
    BY <1>0, LenProperties DEF SpfTypes, ChainsFine
  <1>3. AsksFine(WrittenMechs, v7 \ {a}, Len(v5))
    BY <1>0 DEF SpfTypes, AsksFine
  <1>4. Fetched(v10, v3) /\ v8 \in Seq(Results)
    BY <1>0 DEF SpfTypes
  <1>5. ASSUME NEW r \in Results, NEW by \in {"mech", "mod", "result"}, Called(a.c, r, by),
               v7' = v7 \ {a}, StaysSame, v4' = v4,
               ChainsFine(WrittenMechs, v5', v4), Len(v5') = Len(v5)
        PROVE  Basics'
    <2>1. CallFine(v6', Len(v5')) /\ v6'.by = by
      BY <1>1, <1>2, <1>5, CallIsFine
    <2>2. SpfTypes'
      BY <1>0, <1>3, <1>4, <1>5, <2>1, StillTyped DEF StaysSame
    <2>3. ASSUME ~Sender!MxError
          PROVE  Thread(v6', v7', v8')
      <3>1. v7' = {} /\ v8' = <<>> /\ v6'.by # "none"
        BY <1>0, <1>5, <2>1, <2>3, OneAsk
      <3>. QED
        BY <3>1, ThreadIs
    <2>. QED
      BY <1>0, <2>2, <2>3, StillBasic
  <1>6. ASSUME NEW d \in sender.Domains, Fetched_(a, d)
        PROVE  Basics'
    <2>. PICK r : r = v1[d]
      OBVIOUS
    <2>1. /\ r.mechs \in Seq(WrittenMechs) /\ r.redirect \in sender.Domains \union {"none"}
      BY <1>0, RecordsAre
    <2>2. CASE v5' = Loaded(v5, a.c, r) /\ Called(a.c, "none", "mech")
      <3>1. ChainsFine(WrittenMechs, v5', v4) /\ Len(v5') = Len(v5)
        BY <1>1, <1>2, <2>1, <2>2, LoadedIs
      <3>. QED
        BY <1>5, <1>6, <2>2, <3>1 DEF Fetched_, Results
    <2>3. CASE r.text \in {"none", "error", "bad"} /\ v5' = v5 /\ Called(a.c, NoRecord(r.text), "result")
      <3>1. NoRecord(r.text) \in Results
        BY <2>3 DEF NoRecord, Results
      <3>. QED
        BY <1>2, <1>5, <1>6, <2>3, <3>1 DEF Fetched_
    <2>. QED
      BY <1>6, <2>2, <2>3 DEF Fetched_
  <1>7. ASSUME HostLookedUp(a)
        PROVE  Basics'
    <2>1. a.mech.out[1] \in {"match", "no", "error", "many"} /\ a.mech.q \in Results
      BY <1>0, <1>7, MechanismIs DEF HostLookedUp
    <2>. PICK r \in Results : r = Sender!Found(a.mech.out[1], a.mech.q)
      BY <2>1, FoundIs
    <2>. QED
      BY <1>2, <1>5, <1>7 DEF HostLookedUp
  <1>8. ASSUME NEW i, NEW left, NEW found, HostCame(a, i, left, found)
        PROVE  Basics'
    <2>1. /\ a.mech \in WrittenMechs /\ i \in a.left /\ left = a.left \ {i}
          /\ StaysSame /\ v4' = v4 /\ v5' = v5
      BY <1>8 DEF HostCame
    <2>2. a.mech.q \in Results
      BY <1>0, <2>1, MechanismIs
    <2>. PICK bad \in BOOLEAN : bad <=> a.mech.kind = "mx" /\ a.mech.out[i] = "error"
      OBVIOUS
    <2>3. bad => Sender!MxError
      <3>1. i \in DOMAIN a.mech.out
        BY <1>1, <2>1
      <3>2. PICK d \in sender.Domains : a.mech \in Sender!Mechs(d)
        BY <2>1 DEF WrittenMechs
      <3>. QED
        BY <3>1, <3>2 DEF Sender!MxError
    <2>4. \/ \E r \in Results : Called(a.c, r, "mech")
          \/ v6' = Sender!Idle /\ left # {} /\ ~bad
      <3>1. CASE bad
        BY <1>8, <3>1 DEF HostCame, Results
      <3>2. CASE ~bad /\ left # {}
        BY <1>8, <3>2 DEF HostCame
      <3>3. CASE ~bad /\ left = {}
        <4>1. (IF found THEN a.mech.q ELSE "none") \in Results
          BY <2>2 DEF Results
        <4>. QED
          BY <1>8, <3>3, <4>1 DEF HostCame
      <3>. QED
        BY <3>1, <3>2, <3>3
    <2>5. CASE left = {}
      <3>1. v7' = v7 \ {a}
        BY <1>8, <2>5 DEF HostCame
      <3>2. PICK r \in Results : Called(a.c, r, "mech")
        BY <2>4, <2>5
      <3>. QED
        BY <1>2, <1>5, <2>1, <3>1, <3>2
    <2>6. CASE left # {}
      <3>. PICK b : b = [c |-> a.c, n |-> a.n, mech |-> a.mech, left |-> left, found |-> found]
        OBVIOUS
      <3>1. v7' = (v7 \ {a}) \union {b}
        BY <1>8, <2>6 DEF HostCame
      <3>2. b = Sender!Ask(a.c, a.n, a.mech, left, found)
        BY DEF Sender!Ask
      <3>3. left \in SUBSET Nat /\ left \subseteq DOMAIN a.mech.out /\ found \in BOOLEAN
        BY <1>1, <1>8, <2>1 DEF HostCame
      <3>4. b \in SpfAsked(WrittenMechs) /\ b.c \in 1..Len(v5) /\ b.left \subseteq DOMAIN b.mech.out
        <4>. PICK m \in WrittenMechs \union {Sender!Txt(d) : d \in sender.Domains} : m = a.mech
          BY <2>1
        <4>. PICK x \in 1..Len(v5), n \in Nat : x = a.c /\ n = a.n
          BY <1>1
        <4>1. b = Sender!Ask(x, n, m, left, found) /\ left \subseteq DOMAIN m.out
          BY <3>2, <3>3
        <4>. QED
          BY <3>3, <4>1 DEF Sender!Ask, SpfAsked
      <3>5. AsksFine(WrittenMechs, v7', Len(v5))
        BY <1>3, <3>1, <3>4 DEF AsksFine
      <3>6. CallFine(v6', Len(v5)) /\ (~bad => v6'.by = "none")
        <4>1. CASE v6' = Sender!Idle
          BY <4>1, IdleIs
        <4>2. CASE v6' # Sender!Idle
          <5>1. PICK r \in Results : Called(a.c, r, "mech")
            BY <2>4, <4>2
          <5>2. bad
            BY <1>8, <2>6, <4>2 DEF HostCame
          <5>. QED
            BY <1>1, <1>2, <5>1, <5>2, CallIsFine
        <4>. QED
          BY <4>1, <4>2
      <3>7. SpfTypes'
        BY <1>0, <1>2, <1>4, <2>1, <3>5, <3>6, StillTyped DEF StaysSame
      <3>8. ASSUME ~Sender!MxError
            PROVE  Thread(v6', v7', v8')
        <4>1. v7' \subseteq {b} /\ v8' = <<>> /\ v6'.by = "none"
          BY <1>0, <2>3, <3>1, <3>6, <3>8, OneAsk
        <4>. QED
          BY <4>1, ThreadIs
      <3>. QED
        BY <1>0, <3>7, <3>8, StillBasic
    <2>. QED
      BY <2>5, <2>6
  <1>. QED
    BY <1>6, <1>7, <1>8

LEMMA chain_callerKeeps ==
    ASSUME SenderAssumed, Basics, Sender!chain_caller
    PROVE  Basics'
  <1>0. SpfTypes /\ v1 \in sender.Zones /\ v1' = v1 /\ v8' = v8 /\ v9' = v9 /\ v6.by \in {"mech", "mod"}
    BY chain_callerIs DEF Basics, SpfTypes
  <1>. PICK c \in 1..Len(v5) : c = v6.to
    BY <1>0, chain_callerIs
  <1>. PICK k : k = v5[c]
    OBVIOUS
  <1>1. /\ k \in Chained(WrittenMechs) /\ k.mechs \in Seq(WrittenMechs) /\ v4[k.obj] \in Int
        /\ k.redirect \in sender.Domains \union {"none"}
        /\ k.obj \in 1..Len(v4) /\ v4 \in Seq(Int) /\ c \in Nat
        /\ Len(v4) \in Nat /\ Len(v5) \in Nat /\ v5 \in Seq(Chained(WrittenMechs))
    BY <1>0, ChainIs
  <1>2. ChainsFine(WrittenMechs, v5, v4) /\ AsksFine(WrittenMechs, v7, Len(v5)) /\ Fetched(v10, v3)
        /\ v8 \in Seq(Results)
    BY <1>0 DEF SpfTypes
  <1>3. ASSUME NEW r \in Results, NEW by \in {"mech", "mod", "result"}, Called(c, r, by),
               v7' = v7, StaysSame, v4' = v4,
               ChainsFine(WrittenMechs, v5', v4), Len(v5') = Len(v5)
        PROVE  Basics'
    <2>1. CallFine(v6', Len(v5')) /\ v6'.by = by
      BY <1>1, <1>3, CallIsFine
    <2>2. SpfTypes'
      BY <1>0, <1>2, <1>3, <2>1, StillTyped DEF StaysSame
    <2>3. ASSUME ~Sender!MxError
          PROVE  Thread(v6', v7', v8')
      <3>1. v7' = {} /\ v8' = <<>> /\ v6'.by # "none"
        BY <1>0, <1>3, <2>1, <2>3, NoAsk
      <3>. QED
        BY <3>1, ThreadIs
    <2>. QED
      BY <1>0, <2>2, <2>3, StillBasic
  <1>4. ASSUME NEW d \in sender.Domains, Fetches(d), NEW more, v4' = more,
               NEW x, NEW via \in {"include", "redirect"}, ChainsFine(WrittenMechs, x, more), Len(x) = Len(v5),
               NEW obj \in 1..Len(more), v5' = Append(x, Sender!Chain(obj, c, via))
        PROVE  Basics'
    <2>. PICK k2 : k2 = Sender!Chain(obj, c, via)
      OBVIOUS
    <2>. PICK e : e = Append(x, k2)
      OBVIOUS
    <2>1. ChainsFine(WrittenMechs, e, more) /\ Len(e) = Len(v5) + 1
      <3>1. c \in 1..Len(x) /\ obj \in Nat /\ c \in Nat
        <4>1. Len(more) \in Nat
          BY <1>4, LenProperties DEF ChainsFine
        <4>. QED
          BY <1>1, <1>4, <4>1
      <3>2. k2 \in Chained(WrittenMechs) /\ k2.obj = obj /\ k2.up = c /\ k2.via = via
        <4>1. <<>> \in Seq(WrittenMechs)
          BY EmptySeq
        <4>. QED
          BY <3>1, <4>1 DEF Sender!Chain, Chained
      <3>3. k2.obj \in 1..Len(more) /\ k2.up \in 1..Len(x) /\ k2.via # "hook"
        BY <3>1, <3>2
      <3>4. ChainsFine(WrittenMechs, x, more) /\ Len(x) = Len(v5)
        BY <1>4
      <3>5. ChainsFine(WrittenMechs, e, more)
        BY ONLY <3>2, <3>3, <3>4, LongerIs, e = Append(x, k2)
      <3>6. Len(e) = Len(x) + 1
        BY ONLY <3>2, <3>3, <3>4, LongerIs, e = Append(x, k2)
      <3>. QED
        BY <3>4, <3>5, <3>6
    <2>. PICK n : n = Len(v5) + 1
      OBVIOUS
    <2>2. n \in Nat /\ n \in 1..n /\ \A y \in 1..Len(v5) : y \in 1..n
      BY <1>1
    <2>. PICK b : b = Sender!Ask(n, 0, Sender!Txt(d), {}, FALSE)
      OBVIOUS
    <2>3. b \in SpfAsked(WrittenMechs) /\ b.c \in 1..n /\ b.left \subseteq DOMAIN b.mech.out
      <3>. PICK m \in WrittenMechs \union {Sender!Txt(f) : f \in sender.Domains} : m = Sender!Txt(d)
        OBVIOUS
      <3>. PICK none \in SUBSET Nat : none = {}
        OBVIOUS
      <3>1. b = Sender!Ask(n, 0, m, none, FALSE) /\ none \subseteq DOMAIN m.out
        OBVIOUS
      <3>2. n \in 1..n /\ 0 \in Nat /\ FALSE \in BOOLEAN
        BY <2>2
      <3>. QED
        BY <3>1, <3>2 DEF Sender!Ask, SpfAsked
    <2>4. v7' = v7 \union {b} /\ v6' = Sender!Idle
      BY <1>4 DEF Fetches
    <2>5. AsksFine(WrittenMechs, v7', n)
      BY <1>2, <2>2, <2>3, <2>4 DEF AsksFine
    <2>6. CallFine(v6', n) /\ v6'.by = "none"
      BY <2>4, IdleIs
    <2>7. Fetched(v10', v3')
      BY <1>2, <1>4, StillFetched
    <2>8. SpfTypes'
      BY <1>0, <1>2, <1>4, <2>1, <2>5, <2>6, <2>7, StillTyped
    <2>9. ASSUME ~Sender!MxError
          PROVE  Thread(v6', v7', v8')
      <3>1. v7' \subseteq {b} /\ v8' = <<>>
        BY <1>0, <2>4, <2>9, NoAsk
      <3>. QED
        BY <2>6, <3>1, ThreadIs
    <2>. QED
      BY <1>0, <2>8, <2>9, StillBasic
  <1>5. CASE Stops(c, k)
    BY <1>1, <1>2, <1>3, <1>5 DEF Stops
  <1>6. CASE SkipsRedirect(c, k)
    <2>1. ChainsFine(WrittenMechs, v5', v4) /\ Len(v5') = Len(v5)
      BY <1>2, <1>6, SpentIs DEF SkipsRedirect
    <2>. QED
      BY <1>3, <1>6, <2>1 DEF SkipsRedirect, Results
  <1>7. CASE Redirects(c, k)
    <2>. PICK x : x = Spent(v5, c)
      OBVIOUS
    <2>. PICK more : more = More(v4, k.obj)
      OBVIOUS
    <2>1. ChainsFine(WrittenMechs, x, v4) /\ Len(x) = Len(v5)
      BY <1>2, SpentIs
    <2>2. more \in Seq(Int) /\ Len(more) = Len(v4)
      BY <1>1, MoreIs
    <2>3. ChainsFine(WrittenMechs, x, more)
      BY <1>1, <2>1, <2>2, CountsAreFine
    <2>4. k.redirect \in sender.Domains
      BY <1>1, <1>7 DEF Redirects
    <2>. QED
      BY <1>1, <1>4, <1>7, <2>1, <2>2, <2>3, <2>4 DEF Redirects
  <1>8. ASSUME NEW m \in WrittenMechs, Runs(k, m)
        PROVE  /\ ChainsFine(WrittenMechs, Trim(v5, c), v4) /\ Len(Trim(v5, c)) = Len(v5)
               /\ m.q \in Results /\ m.to \in sender.Domains
    <2>1. k.mechs # <<>>
      BY <1>8 DEF Runs
    <2>. PICK e : e = Trim(v5, c)
      OBVIOUS
    <2>2. ChainsFine(WrittenMechs, e, v4) /\ Len(e) = Len(v5)
      BY <1>2, <2>1, TrimIs
    <2>. QED
      BY <1>0, <2>2, MechanismIs
  <1>9. ASSUME NEW m \in WrittenMechs, CallsBack(c, k, m)
        PROVE  Basics'
    <2>1. Sender!Found(m.out[1], m.q) \in Results
      BY <1>0, <1>9, MechanismIs, FoundIs DEF CallsBack
    <2>. QED
      BY <1>3, <1>8, <1>9, <2>1 DEF CallsBack
  <1>10. ASSUME NEW m \in WrittenMechs, SkipsInclude(c, k, m)
         PROVE  Basics'
    BY <1>3, <1>8, <1>10 DEF SkipsInclude, Results
  <1>11. ASSUME NEW m \in WrittenMechs, Includes(c, k, m)
         PROVE  Basics'
    <2>. PICK x : x = Trim(v5, c)
      OBVIOUS
    <2>. PICK n \in Int : n = v4[k.obj] + 1
      BY <1>1
    <2>. PICK longer : longer = Append(v4, n)
      OBVIOUS
    <2>1. longer \in Seq(Int) /\ Len(longer) = Len(v4) + 1
      BY <1>1, AppendProperties
    <2>. PICK more : more = More(longer, k.obj)
      OBVIOUS
    <2>2. k.obj \in 1..Len(longer) /\ Len(v4) <= Len(longer) /\ Len(v4) + 1 \in 1..Len(longer)
      BY <1>1, <2>1
    <2>3. more \in Seq(Int) /\ Len(more) = Len(longer)
      <3>. PICK o \in 1..Len(longer) : o = k.obj
        BY <2>2
      <3>1. more = More(longer, o)
        OBVIOUS
      <3>. QED
        BY <2>1, <3>1, MoreIs
    <2>4. ChainsFine(WrittenMechs, x, v4) /\ Len(x) = Len(v5) /\ m.to \in sender.Domains
      BY <1>8, <1>11 DEF Includes
    <2>5. ChainsFine(WrittenMechs, x, more)
      BY <2>2, <2>3, <2>4, CountsAreFine
    <2>. QED
      BY <1>4, <1>11, <2>2, <2>3, <2>4, <2>5 DEF Includes
  <1>12. ASSUME NEW m \in WrittenMechs, AsksFor(c, k, m)
         PROVE  Basics'
    <2>. PICK x : x = Trim(v5, c)
      OBVIOUS
    <2>. PICK more : more = More(v4, k.obj)
      OBVIOUS
    <2>1. ChainsFine(WrittenMechs, x, v4) /\ Len(x) = Len(v5)
      BY <1>8, <1>12 DEF AsksFor
    <2>2. more \in Seq(Int) /\ Len(more) = Len(v4)
      BY <1>1, MoreIs
    <2>3. ChainsFine(WrittenMechs, x, more)
      BY <1>1, <2>1, <2>2, CountsAreFine
    <2>. PICK n : n = Len(k.mechs)
      OBVIOUS
    <2>4. n \in Nat
      BY <1>1, LenProperties
    <2>. PICK b : b = Sender!Ask(c, n, m, DOMAIN m.out, FALSE)
      OBVIOUS
    <2>5. b \in SpfAsked(WrittenMechs) /\ b.c \in 1..Len(v5) /\ b.left \subseteq DOMAIN b.mech.out
      <3>1. DOMAIN m.out \in SUBSET Nat /\ FALSE \in BOOLEAN
        BY <1>0, MechanismIs
      <3>. QED
        <4>. PICK left \in SUBSET Nat : left = DOMAIN m.out
          BY <3>1
        <4>1. b = Sender!Ask(c, n, m, left, FALSE) /\ left \subseteq DOMAIN m.out
          OBVIOUS
        <4>. QED
          BY <1>1, <2>4, <3>1, <4>1 DEF Sender!Ask, SpfAsked
    <2>6. v7' = v7 \union {b} /\ v6' = Sender!Idle /\ v5' = x /\ v4' = more /\ StaysSame
      BY <1>12 DEF AsksFor
    <2>7. AsksFine(WrittenMechs, v7', Len(v5'))
      BY <1>2, <2>1, <2>5, <2>6 DEF AsksFine
    <2>8. CallFine(v6', Len(v5')) /\ v6'.by = "none"
      BY <2>6, IdleIs
    <2>9. SpfTypes'
      BY <1>0, <1>2, <2>3, <2>6, <2>7, <2>8, StillTyped DEF StaysSame
    <2>10. ASSUME ~Sender!MxError
           PROVE  Thread(v6', v7', v8')
      <3>1. v7' \subseteq {b} /\ v8' = <<>>
        BY <1>0, <2>6, <2>10, NoAsk
      <3>. QED
        BY <2>8, <3>1, ThreadIs
    <2>. QED
      BY <1>0, <2>9, <2>10, StillBasic
  <1>. QED
    BY <1>0, <1>5, <1>6, <1>7, <1>9, <1>10, <1>11, <1>12, chain_callerIs

LEMMA RefusedIs ==
    ASSUME NEW s, NEW r \in Results, s \in Seq(Results), NEW e, e = Append(s, r), NEW w
    PROVE  /\ Refused(s, w) => Refused(e, w)
           /\ <<v2, r>> \in sender.Enabled => Refused(e, w)
           /\ e \in Seq(Results) /\ Len(e) = Len(s) + 1 /\ e[Len(s) + 1] = r
  <1>0. Len(s) \in Nat
    BY LenProperties
  <1>1. /\ e \in Seq(Results) /\ Len(e) = Len(s) + 1 /\ e[Len(s) + 1] = r
        /\ \A i \in 1..Len(s) : e[i] = s[i]
    BY AppendProperties
  <1>2. /\ \A i \in 1..Len(s) : i \in 1..Len(e)
        /\ Len(s) + 1 \in 1..Len(e)
    BY <1>0, <1>1
  <1>3. <<v2, r>> \in sender.Enabled => \E o \in sender.Enabled : o[2] = r
    OBVIOUS
  <1>. QED
    BY <1>1, <1>2, <1>3 DEF Refused

LEMMA ReturnIs ==
    ASSUME NEW r
    PROVE  Sender!return_results(r) \in {"deny", "denysoft"} => <<v2, r>> \in sender.Enabled
  BY DEF Sender!return_results

LEMMA chain_resultKeeps ==
    ASSUME SenderAssumed, Basics, Sender!chain_result
    PROVE  Basics'
  <1>0. /\ SpfTypes /\ v1' = v1 /\ v6.by = "result" /\ StaysSame /\ v4' = v4 /\ v5' = v5 /\ v7' = v7
        /\ ToChain(v5[v6.to]) \/ ToHook(v5[v6.to])
    BY chain_resultIs DEF Basics
  <1>1. v6.to \in 1..Len(v5) /\ v6.res \in Results /\ Len(v5) \in Nat
    BY <1>0, CallbackIs, ChainIs
  <1>. PICK c \in 1..Len(v5) : c = v6.to
    BY <1>1
  <1>. PICK k : k = v5[c]
    OBVIOUS
  <1>2. ChainsFine(WrittenMechs, v5, v4) /\ AsksFine(WrittenMechs, v7, Len(v5)) /\ Fetched(v10, v3)
        /\ v8 \in Seq(Results) /\ ChainFine(k, c, Len(v5), v4)
    BY <1>0 DEF SpfTypes, ChainsFine
  <1>3. CASE ToChain(k)
    <2>1. v8' = v8 /\ v9' = v9 /\ k.via # "hook"
      BY <1>3 DEF ToChain
    <2>2. k.up \in 1..Len(v5)
      BY <1>2, <2>1 DEF ChainFine
    <2>3. \E r \in Results, by \in {"mech", "mod", "result"} : Called(k.up, r, by)
      <3>1. Sender!Included(v6.res) \in Results
        BY DEF Sender!Included, Results
      <3>. QED
        BY <1>1, <1>3, <3>1 DEF ToChain
    <2>4. CallFine(v6', Len(v5)) /\ v6'.by # "none"
      BY <1>1, <2>2, <2>3, CallIsFine
    <2>5. SpfTypes'
      BY <1>0, <1>2, <2>1, <2>4, StillTyped DEF StaysSame
    <2>6. ASSUME ~Sender!MxError
          PROVE  Thread(v6', v7', v8')
      <3>1. v7' = {} /\ v8' = <<>>
        BY <1>0, <2>1, <2>6, NoAsk
      <3>. QED
        BY <2>4, <3>1, ThreadIs
    <2>. QED
      BY <1>0, <2>1, <2>5, <2>6, StillBasic
  <1>4. CASE ToHook(k)
    <2>. PICK e : e = Append(v8, v6.res)
      OBVIOUS
    <2>1. /\ Refused(v8, v9') => Refused(e, v9')
          /\ <<v2, v6.res>> \in sender.Enabled => Refused(e, v9')
          /\ e \in Seq(Results) /\ Len(e) = Len(v8) + 1
      BY <1>1, <1>2, RefusedIs
    <2>2. /\ v6' = Sender!Idle /\ v8' = IF v9 = "timeout" THEN v8 ELSE e
          /\ v9' = IF v9 = "none" /\ v2 = "mail" THEN Sender!return_results(v6.res)
                       ELSE IF v9 = "none" THEN "cont" ELSE v9
      BY <1>4 DEF ToHook
    <2>3. Refused(v8', v9')
      <3>1. Refused(v8, v9)
        BY DEF Basics
      <3>2. CASE v9 = "timeout"
        BY <2>2, <3>2 DEF Refused
      <3>3. CASE v9 = "none" /\ v2 = "mail"
        BY <2>1, <2>2, <3>3, ReturnIs DEF Refused
      <3>4. CASE v9 = "none" /\ v2 # "mail"
        BY <2>2, <3>4 DEF Refused
      <3>5. CASE v9 \notin {"none", "timeout"}
        BY <2>1, <2>2, <3>1, <3>5
      <3>. QED
        BY <3>2, <3>3, <3>4, <3>5
    <2>4. CallFine(v6', Len(v5)) /\ v6'.by = "none"
      BY <2>2, IdleIs
    <2>5. SpfTypes'
      BY <1>0, <1>2, <2>1, <2>2, <2>4, StillTyped DEF StaysSame
    <2>6. ASSUME ~Sender!MxError
          PROVE  Thread(v6', v7', v8')
      <3>1. v7' = {} /\ v8 = <<>>
        BY <1>0, <2>6, NoAsk
      <3>2. Len(v8') <= 1
        <4>1. Len(<<>>) = 0
          BY EmptySeq
        <4>2. Len(v8) = 0 /\ Len(e) = 1
          BY <2>1, <3>1, <4>1
        <4>. QED
          BY <2>2, <4>2
      <3>. QED
        BY <2>4, <3>1, <3>2 DEF Thread
    <2>. QED
      BY <1>0, <2>3, <2>5, <2>6, SameZone DEF Basics
  <1>. QED
    BY <1>0, <1>3, <1>4

LEMMA timerKeeps ==
    ASSUME Basics, Sender!timer
    PROVE  Basics'
  <1>1. UNCHANGED <<v1, v3, v4, v5, v6, v7, v8, v10>> /\ v9' = "timeout"
    BY DEF Sender!timer
  <1>2. SpfTypes'
    BY <1>1, SameZone DEF Basics, SpfTypes
  <1>. QED
    BY <1>1, <1>2, SameZone DEF Basics, Refused

LEMMA hook_mailKeeps ==
    ASSUME Basics, Sender!hook_mail
    PROVE  Basics'
  <1>1. /\ UNCHANGED <<v1, v3, v4, v5, v6, v7, v8, v10>>
        /\ v9' = IF v8 = <<>> THEN "cont" ELSE Sender!return_results(v8[Len(v8)])
    BY DEF Sender!hook_mail
  <1>2. SpfTypes' /\ v8 \in Seq(Results)
    BY <1>1, SameZone DEF Basics, SpfTypes
  <1>3. Refused(v8, v9')
    <2>1. CASE v8 = <<>>
      BY <1>1, <2>1 DEF Refused
    <2>2. CASE v8 # <<>>
      <3>1. Len(v8) \in 1..Len(v8)
        BY <1>2, <2>2, EmptySeq, LenProperties
      <3>2. v9' \in {"deny", "denysoft"} => \E o \in sender.Enabled : o[2] = v8[Len(v8)]
        <4>. PICK r : r = v8[Len(v8)]
          OBVIOUS
        <4>1. v9' \in {"deny", "denysoft"} => <<v2, r>> \in sender.Enabled
          BY <1>1, <2>2, ReturnIs
        <4>2. <<v2, r>>[2] = r
          OBVIOUS
        <4>. QED
          BY <4>1, <4>2
      <3>. QED
        BY <3>1, <3>2 DEF Refused
    <2>. QED
      BY <2>1, <2>2
  <1>. QED
    BY <1>1, <1>2, <1>3, SameZone DEF Basics

(* The first state.                                                        *)
LEMMA BasicsFirst ==
    ASSUME SenderAssumed, Sender!Init
    PROVE  Basics /\ v8 = <<>> /\ v3 = {} /\ v5[1] = Sender!Chain(1, 0, "hook")
           /\ Len(v5) = 1 /\ v7 = {Sender!Ask(1, 0, Sender!Txt(sender.Start), {}, FALSE)} /\ v6 = Sender!Idle
  <1>. PICK k : k = Sender!Chain(1, 0, "hook")
    OBVIOUS
  <1>1. k \in Chained(WrittenMechs) /\ k.via = "hook" /\ k.obj = 1
    <2>1. <<>> \in Seq(WrittenMechs)
      BY EmptySeq
    <2>. QED
      BY <2>1 DEF Sender!Chain, Chained
  <1>2. v5 = <<k>> /\ v4 = <<0>> /\ v8 = <<>> /\ v6 = Sender!Idle /\ v9 = "none" /\ v3 = {} /\ v1 \in sender.Zones
    BY DEF Sender!Init
  <1>3. /\ v5 \in Seq(Chained(WrittenMechs)) /\ Len(v5) = 1 /\ v5[1] = k
        /\ v4 \in Seq(Int) /\ Len(v4) = 1
    BY <1>1, <1>2
  <1>4. ChainsFine(WrittenMechs, v5, v4)
    <2>1. ASSUME NEW c \in 1..Len(v5)
          PROVE  ChainFine(v5[c], c, Len(v5), v4)
      <3>1. c = 1
        BY <1>3
      <3>. QED
        BY <1>1, <1>3, <3>1 DEF ChainFine
    <2>. QED
      BY <1>3, <2>1 DEF ChainsFine
  <1>. PICK b : b = Sender!Ask(1, 0, Sender!Txt(sender.Start), {}, FALSE)
    OBVIOUS
  <1>5. v7 = {b}
    BY DEF Sender!Init
  <1>6. b \in SpfAsked(WrittenMechs) /\ b.c = 1 /\ b.left = {}
    <2>1. sender.Start \in sender.Domains
      BY DEF SenderAssumed
    <2>. PICK m \in WrittenMechs \union {Sender!Txt(f) : f \in sender.Domains} : m = Sender!Txt(sender.Start)
      BY <2>1
    <2>. QED
      BY DEF Sender!Ask, SpfAsked
  <1>7. AsksFine(WrittenMechs, v7, Len(v5))
    <2>1. b.c \in 1..1
      BY ONLY <1>6
    <2>2. b.left \subseteq DOMAIN b.mech.out
      BY ONLY <1>6
    <2>. QED
      BY <1>3, <1>5, <1>6, <2>1, <2>2 DEF AsksFine
  <1>8. CallFine(v6, Len(v5)) /\ v6.by = "none"
    BY <1>2, IdleIs
  <1>9. Fetched(v10, v3)
    <2>1. v10 = [d \in sender.Domains |-> IF d = sender.Start THEN 1 ELSE 0]
      BY DEF Sender!Init
    <2>. QED
      BY <1>2, <2>1 DEF Fetched
  <1>10. SpfTypes
    BY <1>2, <1>4, <1>7, <1>8, <1>9, EmptySeq DEF SpfTypes
  <1>11. Thread(v6, v7, v8)
    BY <1>2, <1>5, <1>8, ThreadIs
  <1>12. Refused(v8, v9)
    BY <1>2 DEF Refused
  <1>. QED
    BY <1>2, <1>3, <1>5, <1>10, <1>11, <1>12 DEF Basics

LEMMA BasicsKept ==
    ASSUME SenderAssumed, Basics, [Sender!Next]_(Sender!vars)
    PROVE  Basics'
  <1>1. CASE UNCHANGED Sender!vars
    <2>1. UNCHANGED <<v1, v3, v4, v5, v6, v7, v8, v10, v9>>
      BY <1>1 DEF Sender!vars
    <2>2. SpfTypes'
      BY <2>1, SameZone DEF Basics, SpfTypes
    <2>. QED
      BY <2>1, <2>2, SameZone DEF Basics, Refused
  <1>. QED
    BY <1>1, answeredKeeps, chain_callerKeeps, chain_resultKeeps, timerKeeps, hook_mailKeeps DEF Sender!Next

LEMMA BasicsGive ==
    ASSUME SenderAssumed, Basics
    PROVE  Sender!FetchedOnce /\ Sender!RefusedForResult /\ Sender!ToldOnce
  <1>1. Sender!FetchedOnce
    <2>1. Fetched(v10, v3)
      BY DEF Basics, SpfTypes
    <2>2. ASSUME NEW d \in sender.Domains
          PROVE  v10[d] <= IF d = sender.Start THEN 2 ELSE 1
      <3>1. v10[d] = (IF d = sender.Start THEN 1 ELSE 0) + (IF d \in v3 THEN 1 ELSE 0)
        BY <2>1 DEF Fetched
      <3>. QED
        BY <3>1
    <2>. QED
      BY <2>2 DEF Sender!FetchedOnce
  <1>2. Sender!RefusedForResult
    <2>1. v8 \in Seq(Results) /\ Refused(v8, v9)
      BY DEF Basics, SpfTypes
    <2>2. DOMAIN v8 = 1..Len(v8)
      BY <2>1, LenProperties
    <2>. QED
      BY <2>1, <2>2 DEF Refused, Sender!RefusedForResult
  <1>3. Sender!ToldOnce
    <2>1. Len(v8) \in Nat
      BY LenProperties DEF Basics, SpfTypes
    <2>. QED
      BY <2>1 DEF Basics, Thread, Sender!ToldOnce
  <1>. QED
    BY <1>1, <1>2, <1>3

----------------------------------------------------------------------------
(* What a check comes to, where no record refers in a circle.              *)

\* The first n mechanisms of record r decide nothing.
NotYet(r, judged, n) == \A j \in 1..n : Sender!Says(r.mechs[j], judged) = "none"

\* Chain k has its record's mechanisms but the first n.
Consumed(k, r, n) ==
    /\ n \in 0..Len(r.mechs) /\ Len(k.mechs) = Len(r.mechs) - n
    /\ \A i \in 1..Len(k.mechs) : k.mechs[i] = r.mechs[n + i]

\* What the answers so far found.
Matched(m, left, found) == found <=> \E i \in DOMAIN m.out : i \notin left /\ m.out[i] = "match"

\* Mechanism n of r has called back, or waits for the DNS.
Answered(c, r, judged, k, x, n) ==
    /\ Consumed(k, r, n) /\ NotYet(r, judged, n - 1)
    /\ x.by = "mech" /\ x.to = c
    /\ x.res = IF n = 0 THEN "none" ELSE Sender!Says(r.mechs[n], judged)

Awaits(c, r, judged, k, as, n) ==
    /\ Consumed(k, r, n) /\ NotYet(r, judged, n - 1) /\ 1 <= n
    /\ \E a \in as : a.c = c /\ a.mech = r.mechs[n] /\ Matched(a.mech, a.left, a.found)

(* Chain c, k, has come so far with d's record, r.                         *)
Running(c, d, r, judged, k, as, x) ==
    \/ \E a \in as : a.c = c /\ a.mech = Sender!Txt(d)
    \/ x.by = "result" /\ x.to = c /\ x.res = Sender!Judged(r, judged)
    \/ /\ r.text = "spf" /\ k.redirect = r.redirect
       /\ \/ \E n \in Nat : Answered(c, r, judged, k, x, n)
          \/ \E n \in Nat : Awaits(c, r, judged, k, as, n)

LEMMA SaysIs ==
    ASSUME SenderAssumed, v1 \in sender.Zones, NEW m \in WrittenMechs, NEW judged
    PROVE  /\ m.kind \in {"all", "ip", "a"} => Sender!Says(m, judged) = Sender!Found(m.out[1], m.q)
           /\ m.kind \in {"mx", "ptr"} =>
                 Sender!Says(m, judged) = IF \E i \in DOMAIN m.out : m.out[i] = "match" THEN m.q ELSE "none"
           /\ m.kind = "include" /\ m.q = "pass" /\ judged[m.to] \in Results =>
                 Sender!Says(m, judged) = Sender!Included(judged[m.to])
  <1>1. /\ m.kind \in {"all", "ip", "a", "mx", "ptr", "include"}
        /\ DOMAIN m.out = 1..Len(m.out)
        /\ m.kind \in {"all", "ip", "a"} => Len(m.out) = 1 /\ m.out[1] \in {"match", "no", "error", "many"}
        /\ m.kind \in {"all", "ip"} => m.out[1] \notin {"error", "many"}
    BY MechanismIs
  <1>2. "match" \in {m.out[i] : i \in DOMAIN m.out} <=> \E i \in DOMAIN m.out : m.out[i] = "match"
    OBVIOUS
  <1>3. ASSUME m.kind \in {"all", "ip", "a"}
        PROVE  Sender!Says(m, judged) = Sender!Found(m.out[1], m.q)
    <2>1. (\E i \in DOMAIN m.out : m.out[i] = "match") <=> m.out[1] = "match"
      <3>1. DOMAIN m.out = {1}
        <4>1. DOMAIN m.out = 1..1
          BY <1>1, <1>3
        <4>. QED
          BY ONLY <4>1
      <3>. QED
        BY <3>1
    <2>. PICK o \in {"match", "no", "error", "many"} : o = m.out[1]
      BY <1>1, <1>3
    <2>2. Sender!Says(m, judged) = IF o = "match" THEN m.q ELSE IF m.kind = "a" /\ o = "error" THEN "temperror"
                                 ELSE IF m.kind = "a" /\ o = "many" THEN "permerror" ELSE "none"
      BY <1>2, <1>3, <2>1 DEF Sender!Says
    <2>3. m.kind # "a" => o \notin {"error", "many"}
      BY <1>1, <1>3
    <2>. QED
      BY <2>2, <2>3 DEF Sender!Found
  <1>4. ASSUME m.kind \in {"mx", "ptr"}
        PROVE  Sender!Says(m, judged) = IF \E i \in DOMAIN m.out : m.out[i] = "match" THEN m.q ELSE "none"
    BY <1>2, <1>4 DEF Sender!Says
  <1>5. ASSUME m.kind = "include", m.q = "pass", judged[m.to] \in Results
        PROVE  Sender!Says(m, judged) = Sender!Included(judged[m.to])
    <2>. PICK j \in Results : j = judged[m.to]
      BY <1>5
    <2>1. Sender!Says(m, judged) = CASE j = "pass" -> m.q
                              [] j \in {"none", "permerror"} -> "permerror"
                              [] j = "temperror" -> j
                              [] OTHER -> "none"
      BY <1>5 DEF Sender!Says
    <2>2. Sender!Included(j) = CASE j = "pass" -> "pass"
                          [] j \in {"fail", "softfail", "neutral"} -> "none"
                          [] j = "temperror" -> "temperror"
                          [] OTHER -> "permerror"
      BY DEF Sender!Included
    <2>3. CASE j = "pass"
      BY <1>5, <2>1, <2>2, <2>3
    <2>4. CASE j \in {"none", "permerror"}
      BY <2>1, <2>2, <2>4
    <2>5. CASE j = "temperror"
      BY <2>1, <2>2, <2>5
    <2>6. CASE j \in {"fail", "softfail", "neutral"}
      BY <2>1, <2>2, <2>6
    <2>. QED
      BY <2>3, <2>4, <2>5, <2>6 DEF Results
  <1>. QED
    BY <1>3, <1>4, <1>5

(* The first mechanism that says something decides; none, the redirect.    *)
LEMMA JudgedIs ==
    ASSUME NEW r, NEW judged, NEW W, r.mechs \in Seq(W)
    PROVE  /\ r.text \in {"none", "error", "bad"} => Sender!Judged(r, judged) = NoRecord(r.text)
           /\ \A n \in 1..Len(r.mechs) :
                 r.text = "spf" /\ NotYet(r, judged, n - 1) /\ Sender!Says(r.mechs[n], judged) # "none"
                    => Sender!Judged(r, judged) = Sender!Says(r.mechs[n], judged)
           /\ r.text = "spf" /\ NotYet(r, judged, Len(r.mechs)) =>
                 Sender!Judged(r, judged) = IF r.redirect = "none" \/ judged[r.redirect] = "none" THEN "neutral"
                                     ELSE judged[r.redirect]
  <1>0. DOMAIN r.mechs = 1..Len(r.mechs) /\ Len(r.mechs) \in Nat
    BY LenProperties
  <1>. PICK D : D = {i \in DOMAIN r.mechs : Sender!Says(r.mechs[i], judged) # "none"}
    OBVIOUS
  <1>1. Sender!Judged(r, judged) =
            CASE r.text = "none" -> "none"
              [] r.text = "error" -> "temperror"
              [] r.text = "bad" -> "permerror"
              [] r.text = "spf" /\ D # {} ->
                    Sender!Says(r.mechs[CHOOSE i \in D : \A j \in D : i <= j], judged)
              [] OTHER ->
                    IF r.redirect = "none" \/ judged[r.redirect] = "none" THEN "neutral"
                    ELSE judged[r.redirect]
    BY DEF Sender!Judged
  <1>2. r.text \in {"none", "error", "bad"} => Sender!Judged(r, judged) = NoRecord(r.text)
    BY <1>1 DEF NoRecord
  <1>3. ASSUME NEW n \in 1..Len(r.mechs), r.text = "spf", NotYet(r, judged, n - 1), Sender!Says(r.mechs[n], judged) # "none"
        PROVE  Sender!Judged(r, judged) = Sender!Says(r.mechs[n], judged)
    <2>1. n \in D /\ \A j \in D : j \in Int
      BY <1>0, <1>3
    <2>2. \A j \in D : n <= j
      <3>1. ASSUME NEW j \in D, ~(n <= j)
            PROVE  FALSE
        <4>1. j \in 1..(n - 1)
          BY <1>0, <3>1
        <4>. QED
          BY <1>3, <4>1 DEF NotYet
      <3>. QED
        BY <3>1
    <2>. PICK first : first = CHOOSE i \in D : \A j \in D : i <= j
      OBVIOUS
    <2>3. first \in D /\ \A j \in D : first <= j
      BY <2>1, <2>2
    <2>4. first = n
      BY <2>1, <2>2, <2>3
    <2>5. Sender!Judged(r, judged) = Sender!Says(r.mechs[first], judged)
      BY <1>1, <1>3, <2>1
    <2>. QED
      BY <2>4, <2>5
  <1>4. ASSUME r.text = "spf", NotYet(r, judged, Len(r.mechs))
        PROVE  Sender!Judged(r, judged) = IF r.redirect = "none" \/ judged[r.redirect] = "none" THEN "neutral"
                                   ELSE judged[r.redirect]
    <2>1. D = {}
      BY <1>0, <1>4 DEF NotYet
    <2>. QED
      BY <1>1, <1>4, <2>1
  <1>. QED
    BY <1>2, <1>3, <1>4

LEMMA ConsumedIs ==
    ASSUME NEW W, NEW r, r.mechs \in Seq(W), NEW k, k.mechs \in Seq(W), NEW n \in Nat, Consumed(k, r, n)
    PROVE  /\ Len(r.mechs) \in Nat /\ Len(k.mechs) \in Nat
           /\ k.mechs = <<>> <=> n = Len(r.mechs)
           /\ k.mechs # <<>> =>
                 /\ n + 1 \in 1..Len(r.mechs) /\ Head(k.mechs) = r.mechs[n + 1]
                 /\ \A e : e.mechs = Tail(k.mechs) => Consumed(e, r, n + 1)
  <1>0. /\ Len(r.mechs) \in Nat /\ Len(k.mechs) \in Nat /\ n \in 0..Len(r.mechs)
        /\ Len(k.mechs) = Len(r.mechs) - n /\ \A i \in 1..Len(k.mechs) : k.mechs[i] = r.mechs[n + i]
    BY LenProperties DEF Consumed
  <1>1. k.mechs = <<>> <=> Len(k.mechs) = 0
    BY EmptySeq
  <1>2. ASSUME k.mechs # <<>>
        PROVE  /\ n + 1 \in 1..Len(r.mechs) /\ Head(k.mechs) = r.mechs[n + 1]
               /\ \A e : e.mechs = Tail(k.mechs) => Consumed(e, r, n + 1)
    <2>1. n + 1 \in 1..Len(r.mechs) /\ 1 \in 1..Len(k.mechs)
      BY <1>0, <1>1, <1>2
    <2>2. Head(k.mechs) = k.mechs[1]
      OBVIOUS
    <2>. PICK t : t = Tail(k.mechs)
      OBVIOUS
    <2>3. Len(t) = Len(k.mechs) - 1 /\ \A i \in 1..Len(t) : t[i] = k.mechs[i + 1]
      BY <1>2, HeadTailProperties
    <2>4. ASSUME NEW i \in 1..Len(t)
          PROVE  t[i] = r.mechs[n + 1 + i]
      <3>1. i + 1 \in 1..Len(k.mechs) /\ n + (i + 1) = n + 1 + i
        BY <1>0, <2>3
      <3>. QED
        BY <1>0, <2>3, <3>1
    <2>5. Len(t) = Len(r.mechs) - (n + 1) /\ n + 1 \in 0..Len(r.mechs)
      BY <1>0, <2>1, <2>3
    <2>. QED
      BY <2>1, <2>2, <1>0, <2>4, <2>5 DEF Consumed
  <1>. QED
    BY <1>0, <1>1, <1>2

LEMMA OneLessLeft ==
    ASSUME NEW m, NEW left, NEW found \in BOOLEAN, NEW i \in DOMAIN m.out, i \in left, Matched(m, left, found),
           NEW less, less = left \ {i}, NEW more, more = (found \/ m.out[i] = "match")
    PROVE  Matched(m, less, more)
  <1>1. ASSUME more
        PROVE  \E j \in DOMAIN m.out : j \notin less /\ m.out[j] = "match"
    <2>1. CASE found
      BY <2>1 DEF Matched
    <2>2. CASE m.out[i] = "match"
      BY <2>2
    <2>. QED
      BY <1>1, <2>1, <2>2
  <1>2. ASSUME NEW j \in DOMAIN m.out, j \notin less, m.out[j] = "match"
        PROVE  more
    <2>1. CASE j = i
      BY <1>2, <2>1
    <2>2. CASE j # i
      BY <1>2, <2>2 DEF Matched
    <2>. QED
      BY <2>1, <2>2
  <1>. QED
    BY <1>1, <1>2 DEF Matched

(* The DNS answers a chain that waits for it.                              *)
LEMMA RunAnswered ==
    ASSUME SenderAssumed, Basics, ~Sender!MxError, Sender!answered, NEW c \in 1..Len(v5), NEW d \in sender.Domains, NEW judged,
           NEW r, r = v1[d], NEW k, k = v5[c],
           Running(c, d, r, judged, k, v7, v6)
    PROVE  /\ Running(c, d, r, judged, v5'[c], v7', v6')
           /\ Len(v5') = Len(v5) /\ \A y \in 1..Len(v5) : y # c => v5'[y] = v5[y]
           /\ v5'[c].via = k.via /\ v5'[c].up = k.up
           /\ v1' = v1 /\ v8' = v8 /\ StaysSame /\ v4' = v4
           /\ \A b \in v7' : b.mech.kind # "txt"
           /\ v5'[c] = k \/ \E b \in v7 : b.c = c /\ b.mech.kind = "txt"
  <1>0. SpfTypes /\ v1 \in sender.Zones /\ v1' = v1 /\ v8' = v8 /\ v6 = Sender!Idle
    BY answeredIs DEF Basics, SpfTypes
  <1>. PICK a \in v7 : \/ \E f \in sender.Domains : Fetched_(a, f)
                       \/ HostLookedUp(a)
                       \/ \E i, left, found : HostCame(a, i, left, found)
    BY <1>0, answeredIs
  <1>1. v7 = {a} /\ v7 \ {a} = {} /\ v6.by = "none"
    BY <1>0, OneAsk, IdleIs
  <1>2. /\ a \in SpfAsked(WrittenMechs) /\ a.left \subseteq DOMAIN a.mech.out /\ a.found \in BOOLEAN
    BY <1>0 DEF SpfTypes, AsksFine, SpfAsked
  <1>3. r.mechs \in Seq(WrittenMechs) /\ Len(r.mechs) \in Nat
    BY <1>0, RecordsAre, LenProperties
  <1>4. ChainsFine(WrittenMechs, v5, v4)
    BY <1>0 DEF SpfTypes
  <1>5. StaysSame /\ v4' = v4
    BY DEF Fetched_, HostLookedUp, HostCame
  <1>6. CASE a.c = c /\ a.mech = Sender!Txt(d)
    <2>1. a.mech.kind = "txt"
      BY <1>6, TxtIs
    <2>2. PICK f \in sender.Domains : Fetched_(a, f)
      <3>1. a.mech \in WrittenMechs => a.mech.kind # "txt"
        BY <1>0, MechanismIs
      <3>. QED
        BY <2>1, <3>1 DEF HostLookedUp, HostCame
    <2>3. f = d
      <3>1. Sender!Txt(f) = Sender!Txt(d) /\ Sender!Txt(f).to = f /\ Sender!Txt(d).to = d
        BY <1>6, <2>2, TxtIs DEF Fetched_
      <3>. QED
        BY <3>1
    <2>4. v7' = {} /\ (\A b \in v7' : b.mech.kind # "txt") /\ \E b \in v7 : b.c = c /\ b.mech.kind = "txt"
      BY <1>1, <1>6, <2>1, <2>2 DEF Fetched_
    <2>5. CASE r.text = "spf"
      <3>. PICK e : e = Loaded(v5, c, r)
        OBVIOUS
      <3>1. v5' = e /\ Called(c, "none", "mech")
        BY <1>6, <2>2, <2>3, <2>5 DEF Fetched_
      <3>2. r.redirect \in sender.Domains \union {"none"}
        BY <1>0, RecordsAre
      <3>3. /\ Len(e) = Len(v5) /\ e[c].mechs = r.mechs /\ e[c].redirect = r.redirect
            /\ e[c].up = k.up /\ e[c].via = k.via
            /\ \A y \in 1..Len(v5) : y # c => e[y] = v5[y]
        BY <1>3, <1>4, <3>2, LoadedIs
      <3>4. Consumed(e[c], r, 0)
        BY <1>3, <3>3 DEF Consumed
      <3>5. NotYet(r, judged, 0 - 1)
        BY DEF NotYet
      <3>6. v6'.by = "mech" /\ v6'.to = c /\ v6'.res = "none"
        BY <3>1 DEF Called
      <3>7. Answered(c, r, judged, e[c], v6', 0)
        BY <3>4, <3>5, <3>6 DEF Answered
      <3>8. Running(c, d, r, judged, e[c], v7', v6')
        BY <2>5, <3>3, <3>7 DEF Running
      <3>. QED
        BY <1>0, <1>5, <2>4, <3>1, <3>3, <3>8
    <2>6. CASE r.text # "spf"
      <3>1. v5' = v5 /\ r.text \in {"none", "error", "bad"} /\ Called(c, NoRecord(r.text), "result")
        BY <1>6, <2>2, <2>3, <2>6 DEF Fetched_
      <3>2. Sender!Judged(r, judged) = NoRecord(r.text)
        BY <1>3, <3>1, JudgedIs
      <3>3. v6'.by = "result" /\ v6'.to = c /\ v6'.res = Sender!Judged(r, judged)
        BY <3>1, <3>2 DEF Called
      <3>4. Running(c, d, r, judged, k, v7', v6')
        BY <3>3 DEF Running
      <3>. QED
        BY <1>0, <1>5, <2>4, <3>1, <3>4
    <2>. QED
      BY <2>5, <2>6
  <1>7. ASSUME NEW n \in Nat, r.text = "spf", k.redirect = r.redirect, Awaits(c, r, judged, k, v7, n)
        PROVE  /\ Running(c, d, r, judged, k, v7', v6') /\ v5' = v5
               /\ \A b \in v7' : b.mech.kind # "txt"
    <2>. PICK m : m = r.mechs[n]
      OBVIOUS
    <2>1. /\ a.c = c /\ a.mech = m /\ Matched(m, a.left, a.found)
          /\ Consumed(k, r, n) /\ NotYet(r, judged, n - 1) /\ 1 <= n
      BY <1>1, <1>7 DEF Awaits
    <2>2. n \in 1..Len(r.mechs)
      BY <1>3, <2>1 DEF Consumed
    <2>3. m \in WrittenMechs
      BY <1>3, <2>2, ElementOfSeq
    <2>4. m.kind # "txt" /\ a.mech # Sender!Txt(d) /\ \A f : a.mech # Sender!Txt(f)
      BY <1>0, <2>1, <2>3, MechanismIs, TxtIs
    <2>5. ASSUME Called(c, Sender!Says(m, judged), "mech"), v7' = v7 \ {a}, v5' = v5
          PROVE  /\ Running(c, d, r, judged, k, v7', v6') /\ v5' = v5
                 /\ \A b \in v7' : b.mech.kind # "txt"
      <3>1. v6'.by = "mech" /\ v6'.to = c /\ v6'.res = Sender!Says(r.mechs[n], judged)
        BY <2>5 DEF Called
      <3>2. Answered(c, r, judged, k, v6', n)
        BY <2>1, <3>1 DEF Answered
      <3>. QED
        BY <1>1, <1>7, <2>5, <3>2 DEF Running
    <2>6. CASE HostLookedUp(a)
      <3>1. Sender!Found(m.out[1], m.q) = Sender!Says(m, judged)
        BY <1>0, <2>1, <2>3, <2>6, SaysIs DEF HostLookedUp
      <3>. QED
        BY <2>1, <2>5, <2>6, <3>1 DEF HostLookedUp
    <2>7. ASSUME NEW i, NEW left, NEW found, HostCame(a, i, left, found)
          PROVE  /\ Running(c, d, r, judged, k, v7', v6') /\ v5' = v5
                 /\ \A b \in v7' : b.mech.kind # "txt"
      <3>1. /\ m.kind \in {"mx", "ptr"} /\ i \in a.left /\ left = a.left \ {i}
            /\ found = (a.found \/ m.out[i] = "match") /\ v5' = v5
        BY <2>1, <2>7 DEF HostCame
      <3>2. i \in DOMAIN m.out
        BY <1>2, <2>1, <3>1
      <3>3. Matched(m, left, found) /\ found \in BOOLEAN
        BY <1>2, <2>1, <3>1, <3>2, OneLessLeft
      <3>4. ~(m.kind = "mx" /\ m.out[i] = "error")
        <4>1. PICK f \in sender.Domains : m \in Sender!Mechs(f)
          BY <2>3 DEF WrittenMechs
        <4>. QED
          BY <3>2, <4>1 DEF Sender!MxError
      <3>5. CASE left = {}
        <4>1. v7' = v7 \ {a} /\ Called(c, IF found THEN m.q ELSE "none", "mech")
          BY <2>1, <2>7, <3>4, <3>5 DEF HostCame
        <4>2. Sender!Says(m, judged) = IF \E j \in DOMAIN m.out : m.out[j] = "match" THEN m.q ELSE "none"
          BY <1>0, <2>3, <3>1, SaysIs
        <4>3. found <=> \E j \in DOMAIN m.out : m.out[j] = "match"
          BY <3>3, <3>5 DEF Matched
        <4>4. Sender!Says(m, judged) = IF found THEN m.q ELSE "none"
          BY <4>2, <4>3
        <4>. QED
          BY <2>5, <3>1, <4>1, <4>4
      <3>6. CASE left # {}
        <4>. PICK b : b = [c |-> a.c, n |-> a.n, mech |-> a.mech, left |-> left, found |-> found]
          OBVIOUS
        <4>1. v7' = {b} /\ b.c = c /\ b.mech = m /\ b.left = left /\ b.found = found
          BY <1>1, <2>1, <2>7, <3>6 DEF HostCame
        <4>2. Awaits(c, r, judged, k, v7', n)
          BY <2>1, <3>3, <4>1 DEF Awaits
        <4>. QED
          BY <1>7, <2>4, <3>1, <4>1, <4>2 DEF Running
      <3>. QED
        BY <3>5, <3>6
    <2>8. ~(\E f \in sender.Domains : Fetched_(a, f))
      BY <2>4 DEF Fetched_
    <2>. QED
      BY <2>6, <2>7, <2>8
  <1>8. \A n \in Nat : ~Answered(c, r, judged, k, v6, n)
    BY <1>1 DEF Answered
  <1>9. CASE r.text = "spf" /\ k.redirect = r.redirect /\ \E n \in Nat : Awaits(c, r, judged, k, v7, n)
    <2>1. PICK n \in Nat : Awaits(c, r, judged, k, v7, n)
      BY <1>9
    <2>2. /\ Running(c, d, r, judged, k, v7', v6') /\ v5' = v5
          /\ \A b \in v7' : b.mech.kind # "txt"
      BY <1>7, <1>9, <2>1
    <2>. QED
      BY <1>0, <1>5, <2>2
  <1>10. v6.by # "result"
    BY <1>1
  <1>11. \/ a.c = c /\ a.mech = Sender!Txt(d)
         \/ r.text = "spf" /\ k.redirect = r.redirect /\ \E n \in Nat : Awaits(c, r, judged, k, v7, n)
    BY <1>1, <1>8, <1>10 DEF Running
  <1>. QED
    BY <1>6, <1>9, <1>11

(* What a chain's callback comes to, in the limit.                         *)
Referring(c, r, judged, k) ==
    \/ \E n \in Nat : \E m \in WrittenMechs :
          /\ Consumed(k, r, n) /\ NotYet(r, judged, n) /\ m.kind = "include"
          /\ n + 1 \in 1..Len(r.mechs) /\ m = r.mechs[n + 1]
          /\ SkipsInclude(c, k, m) \/ Includes(c, k, m)
    \/ /\ k.mechs = <<>> /\ NotYet(r, judged, Len(r.mechs)) /\ k.redirect # "none"
       /\ SkipsRedirect(c, k) \/ Redirects(c, k)

LEMMA RunsOn ==
    ASSUME SenderAssumed, Basics, ~Sender!MxError, Sender!chain_caller, NEW c \in 1..Len(v5), NEW d \in sender.Domains, NEW judged,
           NEW r, r = v1[d], NEW k, k = v5[c], v4[k.obj] <= sender.LIMIT,
           v6.by = "mech", Running(c, d, r, judged, k, v7, v6)
    PROVE  /\ v1' = v1 /\ v8' = v8 /\ r.text = "spf" /\ k.redirect = r.redirect
           /\ \/ /\ Running(c, d, r, judged, v5'[c], v7', v6') /\ StaysSame
                 /\ Len(v5') = Len(v5) /\ \A y \in 1..Len(v5) : y # c => v5'[y] = v5[y]
                 /\ v5'[c].via = k.via /\ v5'[c].up = k.up /\ v5'[c].redirect = k.redirect
                 /\ v5'[c].mechs = k.mechs \/ (k.mechs # <<>> /\ v5'[c].mechs = Tail(k.mechs))
                 /\ \A b \in v7' : b.mech.kind # "txt"
              \/ Referring(c, r, judged, k)
  <1>0. SpfTypes /\ v1 \in sender.Zones /\ v1' = v1 /\ v8' = v8 /\ v7 = {}
    BY chain_callerIs, NoAsk DEF Basics, SpfTypes
  <1>1. r.text = "spf" /\ k.redirect = r.redirect /\ \E n \in Nat : Answered(c, r, judged, k, v6, n)
    BY <1>0 DEF Running, Awaits
  <1>. PICK n \in Nat : Answered(c, r, judged, k, v6, n)
    BY <1>1
  <1>2. /\ Consumed(k, r, n) /\ NotYet(r, judged, n - 1) /\ v6.to = c
        /\ v6.res = IF n = 0 THEN "none" ELSE Sender!Says(r.mechs[n], judged)
    BY DEF Answered
  <1>3. /\ r.mechs \in Seq(WrittenMechs) /\ k.mechs \in Seq(WrittenMechs) /\ Len(r.mechs) \in Nat
        /\ r.redirect \in sender.Domains \union {"none"}
    BY <1>0, RecordsAre, ChainIs, LenProperties
  <1>4. n \in 0..Len(r.mechs)
    BY <1>2 DEF Consumed
  <1>15. /\ k.mechs = <<>> <=> n = Len(r.mechs)
         /\ k.mechs # <<>> =>
               /\ n + 1 \in 1..Len(r.mechs) /\ Head(k.mechs) = r.mechs[n + 1]
               /\ \A e : e.mechs = Tail(k.mechs) => Consumed(e, r, n + 1)
    <2>1. Consumed(k, r, n) /\ r.mechs \in Seq(WrittenMechs) /\ k.mechs \in Seq(WrittenMechs)
      BY <1>2, <1>3
    <2>. QED
      BY ONLY <2>1, n \in Nat, ConsumedIs
  <1>5. v6.res = "none" => NotYet(r, judged, n)
    <2>1. ASSUME v6.res = "none", NEW j \in 1..n
          PROVE  Sender!Says(r.mechs[j], judged) = "none"
      <3>1. CASE j = n
        <4>1. n # 0
          BY <2>1
        <4>. QED
          BY <1>2, <2>1, <3>1, <4>1
      <3>2. CASE j # n
        <4>1. j \in 1..(n - 1)
          BY <3>2
        <4>. QED
          BY <1>2, <4>1 DEF NotYet
      <3>. QED
        BY <3>1, <3>2
    <2>. QED
      BY <2>1 DEF NotYet
  <1>6. ChainsFine(WrittenMechs, v5, v4)
    BY <1>0 DEF SpfTypes
  <1>7. CASE Stops(c, k)
    <2>1. PICK v \in Results \ {"none"} :
             /\ Called(c, v, "result")
             /\ v = IF v6.res # "none" THEN v6.res ELSE "neutral"
             /\ ChainGoesOn(k) => ChainAtEnd(k) /\ k.redirect = "none"
      BY <1>7 DEF Stops
    <2>2. v = Sender!Judged(r, judged)
      <3>1. CASE v6.res # "none"
        <4>1. n \in 1..Len(r.mechs) /\ Sender!Says(r.mechs[n], judged) # "none" /\ v = Sender!Says(r.mechs[n], judged)
          BY <1>2, <1>4, <2>1, <3>1
        <4>. QED
          BY <1>1, <1>2, <1>3, <4>1, JudgedIs
      <3>2. CASE v6.res = "none"
        <4>1. k.mechs = <<>> /\ k.redirect = "none" /\ v = "neutral"
          BY <2>1, <3>2 DEF ChainGoesOn, ChainAtEnd
        <4>2. n = Len(r.mechs)
          BY <1>15, <4>1
        <4>3. NotYet(r, judged, Len(r.mechs)) /\ r.redirect = "none"
          BY <1>1, <1>5, <3>2, <4>1, <4>2
        <4>. QED
          BY <1>1, <1>3, <4>1, <4>3, JudgedIs
      <3>. QED
        BY <3>1, <3>2
    <2>3. v6'.by = "result" /\ v6'.to = c /\ v6'.res = Sender!Judged(r, judged)
      BY <2>1, <2>2 DEF Called
    <2>4. StaysSame /\ v5' = v5 /\ v7' = v7
      BY <1>7 DEF Stops
    <2>5. Running(c, d, r, judged, k, v7', v6')
      BY <2>3 DEF Running
    <2>. QED
      BY <1>0, <1>1, <2>4, <2>5
  <1>8. ASSUME NEW m \in WrittenMechs, Runs(k, m)
        PROVE  /\ n + 1 \in 1..Len(r.mechs) /\ m = r.mechs[n + 1] /\ NotYet(r, judged, n)
               /\ n + 1 \in Nat /\ (n + 1) - 1 = n /\ n + 1 # 0 /\ 1 <= n + 1
               /\ \A e : e = Trim(v5, c) =>
                     /\ Consumed(e[c], r, n + 1) /\ Len(e) = Len(v5)
                     /\ \A y \in 1..Len(v5) : y # c => e[y] = v5[y]
                     /\ e[c].via = k.via /\ e[c].up = k.up /\ e[c].redirect = k.redirect
                     /\ k.mechs # <<>> /\ e[c].mechs = Tail(k.mechs)
    <2>1. k.mechs # <<>> /\ m = Head(k.mechs) /\ v6.res = "none"
      BY <1>8 DEF Runs, ChainGoesOn
    <2>2. /\ n + 1 \in 1..Len(r.mechs) /\ m = r.mechs[n + 1]
          /\ \A e : e.mechs = Tail(k.mechs) => Consumed(e, r, n + 1)
      BY <1>15, <2>1
    <2>3. ASSUME NEW e, e = Trim(v5, c)
          PROVE  /\ Consumed(e[c], r, n + 1) /\ Len(e) = Len(v5)
                 /\ \A y \in 1..Len(v5) : y # c => e[y] = v5[y]
                 /\ e[c].via = k.via /\ e[c].up = k.up /\ e[c].redirect = k.redirect
                 /\ k.mechs # <<>> /\ e[c].mechs = Tail(k.mechs)
      <3>1. /\ Len(e) = Len(v5) /\ e[c].mechs = Tail(k.mechs)
            /\ \A y \in 1..Len(v5) : y # c => e[y] = v5[y]
            /\ e[c].via = k.via /\ e[c].up = k.up /\ e[c].redirect = k.redirect
        BY <1>6, <2>1, <2>3, TrimIs
      <3>. QED
        BY <2>1, <2>2, <3>1
    <2>. QED
      BY <1>5, <2>1, <2>2, <2>3
  <1>9. ASSUME NEW m \in WrittenMechs, CallsBack(c, k, m)
        PROVE  /\ Running(c, d, r, judged, v5'[c], v7', v6') /\ StaysSame
               /\ Len(v5') = Len(v5) /\ \A y \in 1..Len(v5) : y # c => v5'[y] = v5[y]
               /\ v5'[c].via = k.via /\ v5'[c].up = k.up /\ v5'[c].redirect = k.redirect
               /\ k.mechs # <<>> /\ v5'[c].mechs = Tail(k.mechs)
               /\ v7' = {}
    <2>. PICK e : e = Trim(v5, c)
      OBVIOUS
    <2>1. /\ Runs(k, m) /\ v5' = e /\ Called(c, Sender!Found(m.out[1], m.q), "mech") /\ StaysSame /\ v7' = v7
          /\ m.kind \in {"all", "ip"}
      BY <1>9 DEF CallsBack
    <2>2. /\ Consumed(e[c], r, n + 1) /\ Len(e) = Len(v5)
          /\ \A y \in 1..Len(v5) : y # c => e[y] = v5[y]
          /\ e[c].via = k.via /\ e[c].up = k.up /\ e[c].redirect = k.redirect
          /\ k.mechs # <<>> /\ e[c].mechs = Tail(k.mechs)
          /\ m = r.mechs[n + 1] /\ NotYet(r, judged, n) /\ n + 1 \in Nat /\ (n + 1) - 1 = n /\ n + 1 # 0
      BY <1>8, <2>1
    <2>3. Sender!Says(m, judged) = Sender!Found(m.out[1], m.q)
      BY <1>0, <2>1, SaysIs
    <2>4. v6'.by = "mech" /\ v6'.to = c /\ v6'.res = Sender!Says(r.mechs[n + 1], judged)
      BY <2>1, <2>2, <2>3 DEF Called
    <2>5. Answered(c, r, judged, e[c], v6', n + 1)
      BY <2>2, <2>4 DEF Answered
    <2>6. Running(c, d, r, judged, e[c], v7', v6')
      BY <1>1, <2>2, <2>5 DEF Running
    <2>. QED
      BY <1>0, <2>1, <2>2, <2>6
  <1>10. ASSUME NEW m \in WrittenMechs, AsksFor(c, k, m)
         PROVE  /\ Running(c, d, r, judged, v5'[c], v7', v6') /\ StaysSame
                /\ Len(v5') = Len(v5) /\ \A y \in 1..Len(v5) : y # c => v5'[y] = v5[y]
                /\ v5'[c].via = k.via /\ v5'[c].up = k.up /\ v5'[c].redirect = k.redirect
                /\ k.mechs # <<>> /\ v5'[c].mechs = Tail(k.mechs)
                /\ \A b \in v7' : b.mech.kind # "txt"
    <2>. PICK e : e = Trim(v5, c)
      OBVIOUS
    <2>. PICK b : b = Sender!Ask(c, Len(k.mechs), m, DOMAIN m.out, FALSE)
      OBVIOUS
    <2>1. /\ Runs(k, m) /\ v5' = e /\ StaysSame /\ v7' = v7 \union {b} /\ m.kind \in {"a", "mx", "ptr"}
      BY <1>10 DEF AsksFor
    <2>2. /\ Consumed(e[c], r, n + 1) /\ Len(e) = Len(v5)
          /\ \A y \in 1..Len(v5) : y # c => e[y] = v5[y]
          /\ e[c].via = k.via /\ e[c].up = k.up /\ e[c].redirect = k.redirect
          /\ k.mechs # <<>> /\ e[c].mechs = Tail(k.mechs)
          /\ m = r.mechs[n + 1] /\ NotYet(r, judged, n) /\ n + 1 \in Nat /\ (n + 1) - 1 = n /\ 1 <= n + 1
      BY <1>8, <2>1
    <2>3. b.c = c /\ b.mech = m /\ b.left = DOMAIN m.out /\ b.found = FALSE
      BY DEF Sender!Ask
    <2>4. Matched(m, b.left, b.found)
      BY <2>3 DEF Matched
    <2>5. v7' = {b}
      BY <1>0, <2>1
    <2>6. Awaits(c, r, judged, e[c], v7', n + 1)
      BY <2>2, <2>3, <2>4, <2>5 DEF Awaits
    <2>7. Running(c, d, r, judged, e[c], v7', v6')
      BY <1>1, <2>2, <2>6 DEF Running
    <2>8. \A f \in v7' : f.mech.kind # "txt"
      BY <2>1, <2>3, <2>5
    <2>. QED
      BY <2>1, <2>2, <2>7, <2>8
  <1>11. ASSUME NEW m \in WrittenMechs, SkipsInclude(c, k, m) \/ Includes(c, k, m)
         PROVE  Referring(c, r, judged, k)
    <2>1. Runs(k, m) /\ m.kind = "include"
      BY <1>11 DEF SkipsInclude, Includes
    <2>2. n + 1 \in 1..Len(r.mechs) /\ m = r.mechs[n + 1] /\ NotYet(r, judged, n)
      BY <1>8, <2>1
    <2>. QED
      BY <1>2, <1>11, <2>1, <2>2 DEF Referring
  <1>12. ASSUME SkipsRedirect(c, k) \/ Redirects(c, k)
         PROVE  Referring(c, r, judged, k)
    <2>1. ChainGoesOn(k) /\ ChainAtEnd(k) /\ k.redirect # "none"
      BY <1>12 DEF SkipsRedirect, Redirects
    <2>2. v6.res = "none" /\ k.mechs = <<>>
      BY <2>1 DEF ChainGoesOn, ChainAtEnd
    <2>3. n = Len(r.mechs)
      BY <1>15, <2>2
    <2>. QED
      BY <1>5, <1>12, <2>1, <2>2, <2>3 DEF Referring
  <1>13. \/ Stops(c, k) \/ SkipsRedirect(c, k) \/ Redirects(c, k)
         \/ \E m \in WrittenMechs : CallsBack(c, k, m) \/ AsksFor(c, k, m) \/ SkipsInclude(c, k, m) \/ Includes(c, k, m)
    BY <1>0, <1>2, chain_callerIs
  <1>14. ASSUME NEW m \in WrittenMechs, CallsBack(c, k, m) \/ AsksFor(c, k, m)
         PROVE  /\ Running(c, d, r, judged, v5'[c], v7', v6') /\ StaysSame
                /\ Len(v5') = Len(v5) /\ \A y \in 1..Len(v5) : y # c => v5'[y] = v5[y]
                /\ v5'[c].via = k.via /\ v5'[c].up = k.up /\ v5'[c].redirect = k.redirect
                /\ k.mechs # <<>> /\ v5'[c].mechs = Tail(k.mechs)
                /\ \A b \in v7' : b.mech.kind # "txt"
    BY <1>9, <1>10, <1>14
  <1>. QED
    BY <1>0, <1>1, <1>7, <1>11, <1>12, <1>13, <1>14

----------------------------------------------------------------------------
(* The sender's check, and those it refers to.                             *)
AllJudged(z) == [d \in sender.Domains |-> Sender!Judged(z[d], Sender!Unjudged)]
Verdict(z) == Sender!Judged(z[sender.Start], AllJudged(z))

\* What is left of chain k refers to no domain the check has been to.
Untried(k, been) ==
    /\ \A i \in 1..Len(k.mechs) : k.mechs[i].kind = "include" => k.mechs[i].to \notin been
    /\ k.redirect # "none" => k.redirect \notin been

OnlyItsOwn(as, been, k) ==
    /\ Untried(k, been)
    /\ \A a \in as : a.c = 1 /\ a.mech.kind = "txt" => been = {}

Finished(z, as, x, s) == as = {} /\ x.by = "none" /\ s \in {<<>>, <<Verdict(z)>>}

InInclude(z, ch, as, x, c, n) ==
    LET r == z[sender.Start]
        m == r.mechs[n] IN
    /\ r.text = "spf" /\ ch[1].redirect = r.redirect
    /\ Consumed(ch[1], r, n) /\ 1 <= n /\ NotYet(r, AllJudged(z), n - 1) /\ m.kind = "include"
    /\ c # 1 /\ ch[c].via = "include" /\ ch[c].up = 1
    /\ Running(c, m.to, z[m.to], Sender!Unjudged, ch[c], as, x)

AllTried(z, k) ==
    LET r == z[sender.Start] IN
    /\ r.text = "spf" /\ r.redirect # "none" /\ NotYet(r, AllJudged(z), Len(r.mechs))
    /\ k.mechs = <<>> /\ k.redirect = "none"

InRedirect(z, ch, as, x, c) ==
    LET d == z[sender.Start].redirect IN
    /\ AllTried(z, ch[1])
    /\ c # 1 /\ ch[c].via = "redirect" /\ ch[c].up = 1
    /\ Running(c, d, z[d], Sender!Unjudged, ch[c], as, x)

Redirected(z, ch, x) ==
    /\ AllTried(z, ch[1])
    /\ x.by = "mod" /\ x.to = 1 /\ x.res = AllJudged(z)[z[sender.Start].redirect]

Progress(z, been, ch, as, x, s) ==
    \/ Finished(z, as, x, s)
    \/ /\ s = <<>> /\ OnlyItsOwn(as, been, ch[1])
       /\ \/ Running(1, sender.Start, z[sender.Start], AllJudged(z), ch[1], as, x)
          \/ \E c \in 1..Len(ch), n \in Nat : InInclude(z, ch, as, x, c, n)
          \/ \E c \in 1..Len(ch) : InRedirect(z, ch, as, x, c)
          \/ Redirected(z, ch, x)

\* Nothing refers in a circle, no MX host fails, and the check is in the limit.
Plain == Sender!NoCircle /\ ~Sender!Repeats /\ ~Sender!MxError /\ Sender!WithinLimit

PlainProgress == Plain => Progress(v1, v3, v5, v7, v6, v8)

LEMMA PlainIs ==
    ASSUME SenderAssumed, SpfTypes, Plain
    PROVE  /\ sender.Start \in sender.Domains /\ "none" \notin sender.Domains /\ sender.Start \notin {"none"}
           /\ \A n \in 1..Len(v1[sender.Start].mechs) : v1[sender.Start].mechs[n].kind = "include" =>
                 /\ v1[sender.Start].mechs[n].to \in sender.Domains \ {sender.Start} /\ v1[sender.Start].mechs[n].q = "pass"
                 /\ v1[sender.Start].mechs[n].to # v1[sender.Start].redirect
                 /\ v1[sender.Start].mechs[n] \in WrittenMechs
                 /\ \A j \in 1..Len(v1[sender.Start].mechs) :
                       j # n /\ v1[sender.Start].mechs[j].kind = "include" =>
                          v1[sender.Start].mechs[j].to # v1[sender.Start].mechs[n].to
           /\ v1[sender.Start].redirect \in (sender.Domains \ {sender.Start}) \union {"none"}
           /\ \A d \in sender.Domains \ {sender.Start} :
                 /\ v1[d].redirect = "none"
                 /\ \A n \in 1..Len(v1[d].mechs) : v1[d].mechs[n].kind # "include"
  <1>0. v1 \in sender.Zones /\ sender.Start \in sender.Domains /\ "none" \notin sender.Domains
    BY DEF SpfTypes, SenderAssumed
  <1>1. ASSUME NEW d \in sender.Domains
        PROVE  /\ DOMAIN v1[d].mechs = 1..Len(v1[d].mechs)
               /\ v1[d].redirect \in sender.Domains \union {"none"}
               /\ \A n \in 1..Len(v1[d].mechs) :
                     /\ v1[d].mechs[n] \in Sender!Mechs(d) /\ v1[d].mechs[n] \in WrittenMechs
                     /\ v1[d].mechs[n].to \in sender.Domains
    <2>1. v1[d].mechs \in Seq(WrittenMechs) /\ v1[d].redirect \in sender.Domains \union {"none"}
      BY <1>0, RecordsAre
    <2>. PICK q \in Seq(WrittenMechs) : q = v1[d].mechs
      BY <2>1
    <2>2. DOMAIN q = 1..Len(q)
      BY LenProperties
    <2>3. ASSUME NEW n \in 1..Len(q)
          PROVE  q[n] \in Sender!Mechs(d) /\ q[n] \in WrittenMechs /\ q[n].to \in sender.Domains
      <3>1. q[n] \in WrittenMechs
        BY ElementOfSeq
      <3>2. q[n] \in Sender!Mechs(d)
        BY <2>2 DEF Sender!Mechs
      <3>. QED
        BY <1>0, <3>1, <3>2, MechanismIs
    <2>. QED
      BY <2>1, <2>2, <2>3
  <1>2. Sender!NoCircle /\ ~Sender!Repeats
    BY DEF Plain
  <1>3. /\ sender.Start \notin Sender!Refers(sender.Start)
        /\ \A d \in sender.Domains \ {sender.Start} : Sender!Refers(d) = {}
        /\ \A d \in sender.Domains : \A m \in Sender!Mechs(d) : m.kind = "include" => m.q = "pass"
    BY <1>2 DEF Sender!NoCircle
  <1>4. ASSUME NEW d \in sender.Domains
        PROVE  /\ \A m \in Sender!Mechs(d) : m.kind = "include" => m.to \in Sender!Refers(d)
               /\ v1[d].redirect # "none" => v1[d].redirect \in Sender!Refers(d)
    BY DEF Sender!Refers
  <1>5. ASSUME NEW d \in sender.Domains \ {sender.Start}
        PROVE  /\ v1[d].redirect = "none"
               /\ \A n \in 1..Len(v1[d].mechs) : v1[d].mechs[n].kind # "include"
    BY <1>1, <1>3, <1>4
  <1>6. v1[sender.Start].redirect \in (sender.Domains \ {sender.Start}) \union {"none"}
    BY <1>0, <1>1, <1>3, <1>4
  <1>. PICK q : q = v1[sender.Start].mechs
    OBVIOUS
  <1>7. ASSUME NEW n \in 1..Len(q), q[n].kind = "include"
        PROVE  /\ q[n].to \in sender.Domains \ {sender.Start} /\ q[n].q = "pass" /\ q[n] \in WrittenMechs
               /\ q[n].to # v1[sender.Start].redirect
               /\ \A j \in 1..Len(q) : j # n /\ q[j].kind = "include" => q[j].to # q[n].to
    <2>0. DOMAIN q = 1..Len(q)
      BY <1>0, <1>1
    <2>1. q[n].to \in sender.Domains \ {sender.Start} /\ q[n].q = "pass" /\ q[n] \in WrittenMechs
      BY <1>0, <1>1, <1>3, <1>4, <1>7
    <2>2. ASSUME NEW j \in 1..Len(q)
          PROVE  /\ q[n].to # v1[sender.Start].redirect
                 /\ j # n /\ q[j].kind = "include" => q[j].to # q[n].to
      BY <1>2, <1>7, <2>0, <2>2 DEF Sender!Repeats
    <2>3. q[n].to # v1[sender.Start].redirect
      BY <1>7, <2>2
    <2>. QED
      BY <2>1, <2>2, <2>3
  <1>. QED
    BY <1>0, <1>5, <1>6, <1>7

LEMMA AllJudgedIs ==
    ASSUME NEW z, NEW d \in sender.Domains
    PROVE  AllJudged(z)[d] = Sender!Judged(z[d], Sender!Unjudged)
  BY DEF AllJudged

(* The limit was kept before it is.                                        *)
LEMMA LimitWas ==
    ASSUME SenderAssumed, Basics, Sender!Next, Sender!WithinLimit'
    PROVE  Sender!WithinLimit
  <1>0. v4 \in Seq(Int) /\ sender.LIMIT \in Int
    BY DEF Basics, SpfTypes, ChainsFine, SenderAssumed
  <1>. PICK now : now = v4'
    OBVIOUS
  <1>1. \A o \in DOMAIN now : now[o] <= sender.LIMIT
    BY DEF Sender!WithinLimit
  <1>2. ASSUME now \in Seq(Int), Len(v4) <= Len(now), \A o \in 1..Len(v4) : v4[o] <= now[o]
        PROVE  Sender!WithinLimit
    <2>1. DOMAIN v4 = 1..Len(v4) /\ DOMAIN now = 1..Len(now) /\ Len(v4) \in Nat /\ Len(now) \in Nat
      BY <1>0, <1>2, LenProperties
    <2>2. ASSUME NEW o \in 1..Len(v4)
          PROVE  v4[o] <= sender.LIMIT
      <3>1. o \in 1..Len(now) /\ v4[o] \in Int /\ now[o] \in Int
        <4>1. o \in 1..Len(now)
          BY <1>2, <2>1
        <4>. QED
          BY <1>0, <1>2, <4>1, ElementOfSeq
      <3>2. now[o] <= sender.LIMIT /\ v4[o] <= now[o]
        BY <1>1, <1>2, <2>1, <3>1
      <3>. QED
        BY <1>0, <3>1, <3>2
    <2>. QED
      BY <2>1, <2>2 DEF Sender!WithinLimit
  <1>3. CASE now = v4
    <2>1. \A o \in 1..Len(v4) : v4[o] \in Int
      BY <1>0, ElementOfSeq
    <2>2. Len(v4) \in Nat
      BY <1>0, LenProperties
    <2>. QED
      BY <1>1, <1>3 DEF Sender!WithinLimit
  <1>4. CASE Sender!chain_caller
    <2>0. SpfTypes /\ v6.to \in 1..Len(v5)
      BY <1>4, chain_callerIs DEF Basics
    <2>. PICK o : o = v5[v6.to].obj
      OBVIOUS
    <2>1. o \in 1..Len(v4) /\ v4[o] \in Int /\ Len(v4) \in Nat
      BY <2>0, ChainIs
    <2>2. now = v4 \/ now = More(v4, o) \/ now = More(Append(v4, v4[o] + 1), o)
      BY <1>4, chain_callerIs DEF Basics, Stops, SkipsRedirect, Redirects, CallsBack, AsksFor, SkipsInclude, Includes
    <2>3. CASE now = More(v4, o)
      <3>1. now \in Seq(Int) /\ Len(now) = Len(v4) /\ \A y \in 1..Len(v4) : v4[y] <= now[y]
        BY <1>0, <2>1, <2>3, MoreIs
      <3>. QED
        BY <1>2, <2>1, <3>1
    <2>4. CASE now = More(Append(v4, v4[o] + 1), o)
      <3>. PICK i \in Int : i = v4[o] + 1
        BY <2>1
      <3>. PICK longer : longer = Append(v4, i)
        OBVIOUS
      <3>1. longer \in Seq(Int) /\ Len(longer) = Len(v4) + 1 /\ \A y \in 1..Len(v4) : longer[y] = v4[y]
        BY <1>0, AppendProperties
      <3>2. o \in 1..Len(longer) /\ \A y \in 1..Len(v4) : y \in 1..Len(longer)
        BY <2>1, <3>1
      <3>3. now \in Seq(Int) /\ Len(now) = Len(longer) /\ \A y \in 1..Len(longer) : longer[y] <= now[y]
        <4>. PICK u \in 1..Len(longer) : u = o
          BY <3>2
        <4>1. now = More(longer, u)
          BY <2>4
        <4>. QED
          BY <3>1, <4>1, MoreIs
      <3>4. \A y \in 1..Len(v4) : v4[y] <= now[y]
        BY <3>1, <3>2, <3>3
      <3>. QED
        BY <1>2, <2>1, <3>1, <3>3, <3>4
    <2>. QED
      BY <1>3, <2>2, <2>3, <2>4
  <1>5. CASE Sender!answered \/ Sender!chain_result \/ Sender!timer \/ Sender!hook_mail
    <2>1. now = v4
      BY <1>5, answeredIs, chain_resultIs DEF Basics, Sender!timer, Sender!hook_mail, Fetched_, HostLookedUp, HostCame
    <2>. QED
      BY <1>3, <2>1
  <1>. QED
    BY <1>4, <1>5 DEF Sender!Next

LEMMA RunningIs ==
    ASSUME NEW c, NEW d, NEW r, NEW judged, NEW k, NEW x, Running(c, d, r, judged, k, {}, x)
    PROVE  \/ x.by = "result" /\ x.to = c /\ x.res = Sender!Judged(r, judged)
           \/ x.by = "mech" /\ x.to = c
  BY DEF Running, Answered, Awaits

LEMMA OverStays ==
    ASSUME SenderAssumed, Basics, Sender!Next, Finished(v1, v7, v6, v8)
    PROVE  Progress(v1, v3', v5', v7', v6', v8')
  <1>1. v7 = {} /\ v6.by = "none"
    BY DEF Finished
  <1>2. ~Sender!answered /\ ~Sender!chain_caller /\ ~Sender!chain_result
    BY <1>1 DEF Sender!answered, Sender!chain_caller, Sender!chain_result
  <1>3. v7' = v7 /\ v6' = v6 /\ v8' = v8
    BY <1>2 DEF Sender!Next, Sender!timer, Sender!hook_mail
  <1>. QED
    BY <1>3 DEF Finished, Progress

LEMMA TailUntried ==
    ASSUME NEW W, NEW k, k.mechs \in Seq(W), NEW e, e.redirect = k.redirect, NEW been,
           e.mechs = k.mechs \/ (k.mechs # <<>> /\ e.mechs = Tail(k.mechs)),
           Untried(k, been)
    PROVE  Untried(e, been)
  <1>1. CASE e.mechs = k.mechs
    BY <1>1 DEF Untried
  <1>2. CASE k.mechs # <<>> /\ e.mechs = Tail(k.mechs)
    <2>. PICK q \in Seq(W) : q = k.mechs
      OBVIOUS
    <2>. PICK t : t = Tail(q)
      OBVIOUS
    <2>1. Len(t) = Len(q) - 1 /\ (\A i \in 1..Len(t) : t[i] = q[i + 1]) /\ Len(q) \in Nat
      BY <1>2, HeadTailProperties, LenProperties
    <2>2. ASSUME NEW i \in 1..Len(t), t[i].kind = "include"
          PROVE  t[i].to \notin been
      <3>1. i + 1 \in 1..Len(q) /\ t[i] = q[i + 1]
        BY <2>1
      <3>. QED
        BY <2>2, <3>1 DEF Untried
    <2>. QED
      BY <1>2, <2>2 DEF Untried
  <1>. QED
    BY <1>1, <1>2

(* The chain that a check waits for goes on, and no other does.            *)
Others(c) == \A y \in 1..Len(v5) : y # c => v5'[y] = v5[y]

LEMMA ReferredGoesOn ==
    ASSUME SenderAssumed, Basics, Plain, Sender!answered \/ Sender!chain_caller, NEW c \in 1..Len(v5),
           NEW d \in sender.Domains \ {sender.Start}, Running(c, d, v1[d], Sender!Unjudged, v5[c], v7, v6),
           v6.by # "mod"
    PROVE  /\ Running(c, d, v1[d], Sender!Unjudged, v5'[c], v7', v6')
           /\ Len(v5') = Len(v5) /\ Others(c)
           /\ v5'[c].via = v5[c].via /\ v5'[c].up = v5[c].up
           /\ v1' = v1 /\ v8' = v8 /\ StaysSame
           /\ \A b \in v7' : b.mech.kind # "txt"
  <1>0. ~Sender!MxError /\ SpfTypes
    BY DEF Plain, Basics
  <1>. PICK r : r = v1[d]
    OBVIOUS
  <1>. PICK k : k = v5[c]
    OBVIOUS
  <1>1. CASE Sender!answered
    <2>. PICK judged : judged = Sender!Unjudged
      OBVIOUS
    <2>. PICK f \in sender.Domains : f = d
      OBVIOUS
    <2>1. /\ SenderAssumed /\ Basics /\ ~Sender!MxError /\ Sender!answered
          /\ r = v1[f] /\ k = v5[c] /\ Running(c, f, r, judged, k, v7, v6)
      BY <1>0, <1>1
    <2>2. /\ Running(c, f, r, judged, v5'[c], v7', v6')
          /\ Len(v5') = Len(v5) /\ \A y \in 1..Len(v5) : y # c => v5'[y] = v5[y]
          /\ v5'[c].via = k.via /\ v5'[c].up = k.up
          /\ v1' = v1 /\ v8' = v8 /\ StaysSame
          /\ \A b \in v7' : b.mech.kind # "txt"
      BY ONLY <2>1, RunAnswered
    <2>. QED
      BY <2>2 DEF Others
  <1>2. CASE Sender!chain_caller
    <2>1. v7 = {} /\ v6.by = "mech" /\ v6.to = c
      <3>1. v6.by \in {"mech", "mod"}
        BY <1>2 DEF Sender!chain_caller
      <3>2. v7 = {}
        BY <1>0, <3>1, NoAsk
      <3>. QED
        BY <3>1, <3>2, RunningIs
    <2>2. v4[k.obj] <= sender.LIMIT
      <3>1. k.obj \in 1..Len(v4) /\ v4 \in Seq(Int)
        BY <1>0, ChainIs
      <3>2. k.obj \in DOMAIN v4
        BY <3>1, LenProperties
      <3>. QED
        BY <3>2 DEF Plain, Sender!WithinLimit
    <2>3. ~Referring(c, r, Sender!Unjudged, k)
      <3>1. r.redirect = "none" /\ \A n \in 1..Len(r.mechs) : r.mechs[n].kind # "include"
        BY <1>0, PlainIs
      <3>2. k.redirect = r.redirect
        BY <2>1 DEF Running, Awaits
      <3>. QED
        BY <3>1, <3>2 DEF Referring
    <2>4. /\ Running(c, d, r, Sender!Unjudged, v5'[c], v7', v6')
          /\ Len(v5') = Len(v5) /\ \A y \in 1..Len(v5) : y # c => v5'[y] = v5[y]
          /\ v5'[c].via = k.via /\ v5'[c].up = k.up
          /\ v1' = v1 /\ v8' = v8 /\ StaysSame
          /\ \A b \in v7' : b.mech.kind # "txt"
      <3>. PICK judged : judged = Sender!Unjudged
        OBVIOUS
      <3>. PICK f \in sender.Domains : f = d
        OBVIOUS
      <3>1. /\ SenderAssumed /\ Basics /\ ~Sender!MxError /\ Sender!chain_caller
            /\ r = v1[f] /\ k = v5[c] /\ v4[k.obj] <= sender.LIMIT /\ v6.by = "mech"
            /\ Running(c, f, r, judged, k, v7, v6) /\ ~Referring(c, r, judged, k)
        BY <1>0, <1>2, <2>1, <2>2, <2>3
      <3>2. /\ Running(c, f, r, judged, v5'[c], v7', v6')
            /\ Len(v5') = Len(v5) /\ \A y \in 1..Len(v5) : y # c => v5'[y] = v5[y]
            /\ v5'[c].via = k.via /\ v5'[c].up = k.up
            /\ v1' = v1 /\ v8' = v8 /\ StaysSame
            /\ \A b \in v7' : b.mech.kind # "txt"
        BY ONLY <3>1, RunsOn
      <3>. QED
        BY <3>2
    <2>. QED
      BY <2>4 DEF Others
  <1>. QED
    BY <1>1, <1>2

LEMMA IncludeGoesOn ==
    ASSUME SenderAssumed, Basics, Plain, Sender!answered \/ Sender!chain_caller, v8 = <<>>,
           OnlyItsOwn(v7, v3, v5[1]),
           NEW c \in 1..Len(v5), NEW n \in Nat, InInclude(v1, v5, v7, v6, c, n)
    PROVE  Progress(v1, v3', v5', v7', v6', v8')
  <1>0. SpfTypes
    BY DEF Basics
  <1>. PICK r : r = v1[sender.Start]
    OBVIOUS
  <1>. PICK m : m = r.mechs[n]
    OBVIOUS
  <1>1. /\ r.text = "spf" /\ v5[1].redirect = r.redirect
        /\ Consumed(v5[1], r, n) /\ 1 <= n /\ NotYet(r, AllJudged(v1), n - 1) /\ m.kind = "include"
        /\ c # 1 /\ v5[c].via = "include" /\ v5[c].up = 1
        /\ Running(c, m.to, v1[m.to], Sender!Unjudged, v5[c], v7, v6)
    BY DEF InInclude
  <1>2. n \in 1..Len(r.mechs)
    <2>1. n \in 0..Len(r.mechs)
      BY <1>1 DEF Consumed
    <2>. QED
      BY ONLY <1>1, <2>1
  <1>. PICK d \in sender.Domains \ {sender.Start} : d = m.to
    BY <1>0, <1>1, <1>2, PlainIs
  <1>3. v6.by # "mod"
    <2>1. CASE v6.by = "none"
      BY <2>1
    <2>2. CASE v6.by # "none"
      <3>1. v7 = {}
        BY <2>2, NoAsk DEF Plain
      <3>. QED
        BY <1>1, <3>1, RunningIs
    <2>. QED
      BY <2>1, <2>2
  <1>4. /\ Running(c, d, v1[d], Sender!Unjudged, v5'[c], v7', v6')
        /\ Len(v5') = Len(v5) /\ Others(c)
        /\ v5'[c].via = v5[c].via /\ v5'[c].up = v5[c].up
        /\ v1' = v1 /\ v8' = v8 /\ StaysSame
        /\ \A b \in v7' : b.mech.kind # "txt"
    BY <1>1, <1>3, ReferredGoesOn
  <1>5. v5'[1] = v5[1]
    <2>1. 1 \in 1..Len(v5)
      BY <1>0, LenProperties DEF SpfTypes, ChainsFine
    <2>. QED
      BY <1>1, <1>4, <2>1 DEF Others
  <1>6. InInclude(v1, v5', v7', v6', c, n)
    BY <1>1, <1>4, <1>5 DEF InInclude
  <1>7. OnlyItsOwn(v7', v3', v5'[1])
    BY <1>4, <1>5 DEF OnlyItsOwn, StaysSame
  <1>8. c \in 1..Len(v5')
    BY <1>4
  <1>. QED
    BY <1>4, <1>6, <1>7, <1>8 DEF Progress

LEMMA RedirectGoesOn ==
    ASSUME SenderAssumed, Basics, Plain, Sender!answered \/ Sender!chain_caller, v8 = <<>>,
           OnlyItsOwn(v7, v3, v5[1]),
           NEW c \in 1..Len(v5), InRedirect(v1, v5, v7, v6, c)
    PROVE  Progress(v1, v3', v5', v7', v6', v8')
  <1>0. SpfTypes
    BY DEF Basics
  <1>. PICK r : r = v1[sender.Start]
    OBVIOUS
  <1>1. /\ AllTried(v1, v5[1]) /\ r.redirect # "none"
        /\ c # 1 /\ v5[c].via = "redirect" /\ v5[c].up = 1
        /\ Running(c, r.redirect, v1[r.redirect], Sender!Unjudged, v5[c], v7, v6)
    BY DEF InRedirect, AllTried
  <1>. PICK d \in sender.Domains \ {sender.Start} : d = r.redirect
    BY <1>0, <1>1, PlainIs
  <1>3. v6.by # "mod"
    <2>1. CASE v6.by = "none"
      BY <2>1
    <2>2. CASE v6.by # "none"
      <3>1. v7 = {}
        BY <2>2, NoAsk DEF Plain
      <3>. QED
        BY <1>1, <3>1, RunningIs
    <2>. QED
      BY <2>1, <2>2
  <1>4. /\ Running(c, d, v1[d], Sender!Unjudged, v5'[c], v7', v6')
        /\ Len(v5') = Len(v5) /\ Others(c)
        /\ v5'[c].via = v5[c].via /\ v5'[c].up = v5[c].up
        /\ v1' = v1 /\ v8' = v8 /\ StaysSame
        /\ \A b \in v7' : b.mech.kind # "txt"
    BY <1>1, <1>3, ReferredGoesOn
  <1>5. v5'[1] = v5[1]
    <2>1. 1 \in 1..Len(v5)
      BY <1>0, LenProperties DEF SpfTypes, ChainsFine
    <2>. QED
      BY <1>1, <1>4, <2>1 DEF Others
  <1>6. InRedirect(v1, v5', v7', v6', c)
    BY <1>1, <1>4, <1>5 DEF InRedirect
  <1>7. OnlyItsOwn(v7', v3', v5'[1])
    BY <1>4, <1>5 DEF OnlyItsOwn, StaysSame
  <1>8. c \in 1..Len(v5')
    BY <1>4
  <1>. QED
    BY <1>4, <1>6, <1>7, <1>8 DEF Progress

(* The sender's own chain.                                                 *)
LEMMA OwnAnswered ==
    ASSUME SenderAssumed, Basics, Plain, Sender!answered, v8 = <<>>,
           OnlyItsOwn(v7, v3, v5[1]),
           Running(1, sender.Start, v1[sender.Start], AllJudged(v1), v5[1], v7, v6)
    PROVE  Progress(v1, v3', v5', v7', v6', v8')
  <1>0. SpfTypes /\ ~Sender!MxError /\ sender.Start \in sender.Domains
    BY DEF Basics, Plain, SenderAssumed
  <1>1. 1 \in 1..Len(v5)
    BY <1>0, LenProperties DEF SpfTypes, ChainsFine
  <1>. PICK k : k = v5[1]
    OBVIOUS
  <1>. PICK judged : judged = AllJudged(v1)
    OBVIOUS
  <1>. PICK r : r = v1[sender.Start]
    OBVIOUS
  <1>. PICK c \in 1..Len(v5) : c = 1
    BY <1>1
  <1>. PICK d \in sender.Domains : d = sender.Start
    BY <1>0
  <1>a. /\ SenderAssumed /\ Basics /\ ~Sender!MxError /\ Sender!answered
        /\ r = v1[d] /\ k = v5[c] /\ Running(c, d, r, judged, k, v7, v6)
    BY <1>0
  <1>b. /\ Running(c, d, r, judged, v5'[c], v7', v6')
        /\ v8' = v8 /\ StaysSame
        /\ \A b \in v7' : b.mech.kind # "txt"
        /\ v5'[c] = k \/ \E b \in v7 : b.c = c /\ b.mech.kind = "txt"
    BY ONLY <1>a, RunAnswered
  <1>2. /\ Running(1, sender.Start, v1[sender.Start], judged, v5'[1], v7', v6')
        /\ v8' = v8 /\ StaysSame
        /\ \A b \in v7' : b.mech.kind # "txt"
        /\ v5'[1] = k \/ \E b \in v7 : b.c = 1 /\ b.mech.kind = "txt"
    BY <1>b
  <1>3. Untried(v5'[1], v3)
    BY <1>2 DEF OnlyItsOwn, Untried
  <1>4. OnlyItsOwn(v7', v3', v5'[1])
    BY <1>2, <1>3 DEF OnlyItsOwn, StaysSame
  <1>. QED
    BY <1>2, <1>4 DEF Progress

\* The chain of another record is started, and waits for it.
LEMMA StartsAnother ==
    ASSUME SpfTypes, NEW e, e \in Seq(Chained(WrittenMechs)), Len(e) = Len(v5),
           NEW obj \in Nat, NEW via \in {"include", "redirect"}, NEW d \in sender.Domains, v7 = {},
           Fetches(d), v5' = Append(e, Sender!Chain(obj, 1, via)), NEW r
    PROVE  /\ Len(v5) + 1 \in 1..Len(v5') /\ Len(v5) + 1 # 1 /\ v5'[1] = e[1]
           /\ v5'[Len(v5) + 1].via = via /\ v5'[Len(v5) + 1].up = 1
           /\ Running(Len(v5) + 1, d, r, Sender!Unjudged, v5'[Len(v5) + 1], v7', v6')
           /\ \A a \in v7' : a.c # 1
           /\ v3' = v3 \union {d}
  <1>0. Len(v5) \in Nat /\ 1 <= Len(v5)
    BY LenProperties DEF SpfTypes, ChainsFine
  <1>. PICK k : k = Sender!Chain(obj, 1, via)
    OBVIOUS
  <1>1. k \in Chained(WrittenMechs) /\ k.via = via /\ k.up = 1
    <2>1. <<>> \in Seq(WrittenMechs)
      BY EmptySeq
    <2>. QED
      BY <2>1 DEF Sender!Chain, Chained
  <1>. PICK ch : ch = Append(e, k)
    OBVIOUS
  <1>2. /\ ch \in Seq(Chained(WrittenMechs)) /\ Len(ch) = Len(e) + 1 /\ ch[Len(e) + 1] = k
        /\ \A y \in 1..Len(e) : ch[y] = e[y]
    BY <1>1, AppendProperties
  <1>3. v5' = ch
    OBVIOUS
  <1>. PICK n : n = Len(v5) + 1
    OBVIOUS
  <1>4. n \in 1..Len(ch) /\ n # 1 /\ ch[1] = e[1] /\ ch[n] = k
    BY <1>0, <1>2
  <1>. PICK a : a = Sender!Ask(n, 0, Sender!Txt(d), {}, FALSE)
    OBVIOUS
  <1>5. a.c = n /\ a.mech = Sender!Txt(d)
    BY DEF Sender!Ask
  <1>6. v7' = {a} /\ v3' = v3 \union {d}
    BY DEF Fetches
  <1>7. Running(n, d, r, Sender!Unjudged, ch[n], v7', v6')
    BY <1>5, <1>6 DEF Running
  <1>. QED
    BY <1>1, <1>3, <1>4, <1>5, <1>6, <1>7

LEMMA OwnGoesOn ==
    ASSUME SenderAssumed, Basics, Plain, Sender!chain_caller, v8 = <<>>,
           OnlyItsOwn(v7, v3, v5[1]),
           Running(1, sender.Start, v1[sender.Start], AllJudged(v1), v5[1], v7, v6)
    PROVE  Progress(v1, v3', v5', v7', v6', v8')
  <1>0. SpfTypes /\ ~Sender!MxError /\ sender.Start \in sender.Domains /\ v1 \in sender.Zones
    BY DEF Basics, Plain, SenderAssumed, SpfTypes
  <1>1. 1 \in 1..Len(v5)
    BY <1>0, LenProperties DEF SpfTypes, ChainsFine
  <1>. PICK k : k = v5[1]
    OBVIOUS
  <1>. PICK r : r = v1[sender.Start]
    OBVIOUS
  <1>. PICK judged : judged = AllJudged(v1)
    OBVIOUS
  <1>2. v7 = {} /\ v6.by = "mech" /\ v6.to = 1
    <2>1. v6.by \in {"mech", "mod"}
      BY DEF Sender!chain_caller
    <2>2. v7 = {}
      BY <1>0, <2>1, NoAsk
    <2>. QED
      BY <2>1, <2>2, RunningIs
  <1>3. /\ k.obj \in 1..Len(v4) /\ v4 \in Seq(Int) /\ k.mechs \in Seq(WrittenMechs)
        /\ Len(v4) \in Nat /\ v5 \in Seq(Chained(WrittenMechs))
    BY <1>0, <1>1, ChainIs
  <1>4. v4[k.obj] <= sender.LIMIT
    <2>1. k.obj \in DOMAIN v4
      BY <1>3, LenProperties
    <2>. QED
      BY <2>1 DEF Plain, Sender!WithinLimit
  <1>5. /\ v8' = v8 /\ r.text = "spf" /\ k.redirect = r.redirect
        /\ \/ /\ Running(1, sender.Start, r, judged, v5'[1], v7', v6') /\ StaysSame
              /\ v5'[1].redirect = k.redirect
              /\ v5'[1].mechs = k.mechs \/ (k.mechs # <<>> /\ v5'[1].mechs = Tail(k.mechs))
              /\ \A b \in v7' : b.mech.kind # "txt"
           \/ Referring(1, r, judged, k)
    <2>. PICK c \in 1..Len(v5) : c = 1
      BY <1>1
    <2>. PICK d \in sender.Domains : d = sender.Start
      BY <1>0
    <2>1. Running(c, d, r, judged, k, v7, v6) /\ r = v1[d] /\ k = v5[c]
      OBVIOUS
    <2>a. /\ SenderAssumed /\ Basics /\ ~Sender!MxError /\ Sender!chain_caller
          /\ v4[k.obj] <= sender.LIMIT /\ v6.by = "mech"
      BY <1>0, <1>2, <1>4
    <2>2. /\ v8' = v8 /\ r.text = "spf" /\ k.redirect = r.redirect
          /\ \/ /\ Running(c, d, r, judged, v5'[c], v7', v6') /\ StaysSame
                /\ Len(v5') = Len(v5) /\ \A y \in 1..Len(v5) : y # c => v5'[y] = v5[y]
                /\ v5'[c].via = k.via /\ v5'[c].up = k.up /\ v5'[c].redirect = k.redirect
                /\ v5'[c].mechs = k.mechs \/ (k.mechs # <<>> /\ v5'[c].mechs = Tail(k.mechs))
                /\ \A b \in v7' : b.mech.kind # "txt"
             \/ Referring(c, r, judged, k)
      <3>0. v8' = v8
        BY ONLY <2>1, <2>a, RunsOn
      <3>5. r.text = "spf"
        BY ONLY <2>1, <2>a, RunsOn
      <3>1. k.redirect = r.redirect
        <4>. PICK to : to = k.redirect
          OBVIOUS
        <4>. PICK rto : rto = r.redirect
          OBVIOUS
        <4>1. to = k.redirect /\ rto = r.redirect
          OBVIOUS
        <4>2. to = rto
          BY ONLY <2>1, <2>a, <4>1, RunsOn
        <4>. QED
          BY <4>2
      <3>2. ASSUME ~Referring(c, r, judged, k)
            PROVE  /\ Running(c, d, r, judged, v5'[c], v7', v6') /\ StaysSame
                   /\ Len(v5') = Len(v5) /\ \A y \in 1..Len(v5) : y # c => v5'[y] = v5[y]
        BY ONLY <2>1, <2>a, <3>2, RunsOn
      <3>3. ASSUME ~Referring(c, r, judged, k)
            PROVE  /\ v5'[c].via = k.via /\ v5'[c].up = k.up /\ v5'[c].redirect = k.redirect
                   /\ v5'[c].mechs = k.mechs \/ (k.mechs # <<>> /\ v5'[c].mechs = Tail(k.mechs))
        BY ONLY <2>1, <2>a, <3>3, RunsOn
      <3>4. ASSUME ~Referring(c, r, judged, k)
            PROVE  \A b \in v7' : b.mech.kind # "txt"
        BY ONLY <2>1, <2>a, <3>4, RunsOn
      <3>. QED
        BY <3>0, <3>5, <3>1, <3>2, <3>3, <3>4
    <2>. QED
      BY <2>2
  <1>6. Untried(k, v3)
    BY DEF OnlyItsOwn
  <1>7. CASE /\ Running(1, sender.Start, r, judged, v5'[1], v7', v6') /\ StaysSame
             /\ v5'[1].redirect = k.redirect
             /\ v5'[1].mechs = k.mechs \/ (k.mechs # <<>> /\ v5'[1].mechs = Tail(k.mechs))
             /\ \A b \in v7' : b.mech.kind # "txt"
    <2>. PICK e : e = v5'[1]
      OBVIOUS
    <2>1. Untried(e, v3)
      BY <1>3, <1>6, <1>7, TailUntried
    <2>2. OnlyItsOwn(v7', v3', v5'[1])
      BY <1>7, <2>1 DEF OnlyItsOwn, StaysSame
    <2>. QED
      BY <1>5, <1>7, <2>2 DEF Progress
  <1>8. ASSUME NEW n \in Nat, NEW m \in WrittenMechs,
               Consumed(k, r, n), NotYet(r, judged, n), m.kind = "include",
               n + 1 \in 1..Len(r.mechs), m = r.mechs[n + 1],
               SkipsInclude(1, k, m) \/ Includes(1, k, m)
        PROVE  Progress(v1, v3', v5', v7', v6', v8')
    <2>0. k.mechs # <<>> /\ m = Head(k.mechs)
      BY <1>8 DEF SkipsInclude, Includes, Runs
    <2>1. r.mechs \in Seq(WrittenMechs)
      BY <1>0, RecordsAre
    <2>2. \A e : e.mechs = Tail(k.mechs) => Consumed(e, r, n + 1)
      <3>1. Consumed(k, r, n) /\ k.mechs \in Seq(WrittenMechs)
        BY <1>3, <1>8
      <3>. QED
        BY ONLY <2>0, <2>1, <3>1, n \in Nat, ConsumedIs
    <2>3. m.to \notin v3
      <3>1. 1 \in 1..Len(k.mechs)
        BY <1>3, <2>0, EmptySeq, LenProperties
      <3>2. Head(k.mechs) = k.mechs[1]
        OBVIOUS
      <3>. QED
        BY <1>6, <1>8, <2>0, <3>1, <3>2 DEF Untried
    <2>4. Includes(1, k, m)
      BY <1>8, <2>3 DEF SkipsInclude
    <2>. PICK e : e = Trim(v5, 1)
      OBVIOUS
    <2>5. /\ e \in Seq(Chained(WrittenMechs)) /\ Len(e) = Len(v5) /\ e[1].mechs = Tail(k.mechs)
          /\ e[1].redirect = k.redirect
      <3>1. ChainsFine(WrittenMechs, v5, v4)
        BY <1>0 DEF SpfTypes
      <3>. QED
        BY <1>1, <2>0, <3>1, TrimIs DEF ChainsFine
    <2>. PICK obj \in Nat : obj = Len(v4) + 1
      BY <1>3
    <2>. PICK d \in sender.Domains : d = m.to
      BY <1>0, MechanismIs
    <2>6. Fetches(d) /\ v5' = Append(e, Sender!Chain(obj, 1, "include"))
      BY <2>4 DEF Includes
    <2>. PICK c : c = Len(v5) + 1
      OBVIOUS
    <2>7. /\ c \in 1..Len(v5') /\ c # 1 /\ v5'[1] = e[1]
          /\ v5'[c].via = "include" /\ v5'[c].up = 1
          /\ Running(c, d, v1[d], Sender!Unjudged, v5'[c], v7', v6')
          /\ \A a \in v7' : a.c # 1
          /\ v3' = v3 \union {d}
      BY <1>0, <1>2, <2>5, <2>6, StartsAnother
    <2>8. Consumed(e[1], r, n + 1)
      BY <2>2, <2>5
    <2>9. InInclude(v1, v5', v7', v6', c, n + 1)
      <3>. PICK i \in Nat : i = n + 1
        OBVIOUS
      <3>1. NotYet(r, judged, i - 1) /\ 1 <= i /\ m = r.mechs[i] /\ Consumed(e[1], r, i)
        <4>1. i - 1 = n /\ 1 <= i
          OBVIOUS
        <4>. QED
          BY <1>8, <2>8, <4>1
      <3>2. InInclude(v1, v5', v7', v6', c, i)
        BY <1>5, <1>8, <2>5, <2>7, <3>1 DEF InInclude
      <3>. QED
        BY <3>2
    <2>10. Untried(e[1], v3')
      <3>1. Untried(e[1], v3)
        <4>. PICK f : f = e[1]
          OBVIOUS
        <4>. QED
          BY <1>3, <1>6, <2>0, <2>5, TailUntried
      <3>2. ASSUME NEW i \in 1..Len(e[1].mechs), e[1].mechs[i].kind = "include"
            PROVE  e[1].mechs[i].to # d
        <4>1. Len(r.mechs) \in Nat /\ Len(e[1].mechs) = Len(r.mechs) - (n + 1) /\ e[1].mechs[i] = r.mechs[(n + 1) + i]
          BY <2>1, <2>8, LenProperties DEF Consumed
        <4>. PICK j : j = (n + 1) + i
          OBVIOUS
        <4>. PICK u \in 1..Len(r.mechs) : u = n + 1
          BY <1>8
        <4>2. j \in 1..Len(r.mechs) /\ j # u
          BY <4>1
        <4>3. r.mechs[u].kind = "include" /\ r.mechs[j].kind = "include"
          BY <1>8, <3>2, <4>1
        <4>4. r.mechs[j].to # r.mechs[u].to
          BY <1>0, <4>2, <4>3, PlainIs
        <4>. QED
          BY <1>8, <4>1, <4>4
      <3>3. e[1].redirect # d
        <4>. PICK u \in 1..Len(r.mechs) : u = n + 1
          BY <1>8
        <4>1. r.mechs[u].to # r.redirect
          BY <1>0, <1>8, PlainIs
        <4>. QED
          BY <1>5, <1>8, <2>5, <4>1
      <3>. QED
        BY <2>7, <3>1, <3>2, <3>3 DEF Untried
    <2>11. OnlyItsOwn(v7', v3', v5'[1])
      BY <2>7, <2>10 DEF OnlyItsOwn
    <2>12. n + 1 \in Nat
      OBVIOUS
    <2>. QED
      BY <1>5, <2>7, <2>9, <2>11, <2>12 DEF Progress
  <1>9. ASSUME k.mechs = <<>>, NotYet(r, judged, Len(r.mechs)), k.redirect # "none",
               SkipsRedirect(1, k) \/ Redirects(1, k)
        PROVE  Progress(v1, v3', v5', v7', v6', v8')
    <2>1. k.redirect \notin v3
      BY <1>6, <1>9 DEF Untried
    <2>2. Redirects(1, k)
      BY <1>9, <2>1 DEF SkipsRedirect
    <2>. PICK e : e = Spent(v5, 1)
      OBVIOUS
    <2>3. e \in Seq(Chained(WrittenMechs)) /\ Len(e) = Len(v5) /\ e[1].mechs = k.mechs /\ e[1].redirect = "none"
      <3>1. ChainsFine(WrittenMechs, v5, v4)
        BY <1>0 DEF SpfTypes
      <3>. QED
        BY <1>1, <3>1, SpentIs DEF ChainsFine
    <2>. PICK obj \in Nat : obj = k.obj
      BY <1>3
    <2>. PICK d \in sender.Domains : d = r.redirect
      BY <1>0, <1>5, <1>9, PlainIs
    <2>4. Fetches(d) /\ v5' = Append(e, Sender!Chain(obj, 1, "redirect"))
      BY <1>5, <2>2 DEF Redirects
    <2>. PICK c : c = Len(v5) + 1
      OBVIOUS
    <2>5. /\ c \in 1..Len(v5') /\ c # 1 /\ v5'[1] = e[1]
          /\ v5'[c].via = "redirect" /\ v5'[c].up = 1
          /\ Running(c, d, v1[d], Sender!Unjudged, v5'[c], v7', v6')
          /\ \A a \in v7' : a.c # 1
      BY <1>0, <1>2, <2>3, <2>4, StartsAnother
    <2>6. AllTried(v1, e[1])
      BY <1>5, <1>9, <2>3 DEF AllTried
    <2>7. InRedirect(v1, v5', v7', v6', c)
      BY <2>5, <2>6 DEF InRedirect
    <2>8. Untried(e[1], v3')
      <3>1. Len(e[1].mechs) = 0
        BY <1>9, <2>3, EmptySeq
      <3>2. \A i \in 1..Len(e[1].mechs) : FALSE
        BY ONLY <3>1
      <3>. QED
        BY <2>3, <3>2 DEF Untried
    <2>9. OnlyItsOwn(v7', v3', v5'[1])
      BY <2>5, <2>8 DEF OnlyItsOwn
    <2>. QED
      BY <1>5, <2>5, <2>7, <2>9 DEF Progress
  <1>. QED
    BY <1>5, <1>7, <1>8, <1>9 DEF Referring

(* The redirect's result is the sender's.                                  *)
LEMMA RedirectedEnds ==
    ASSUME SenderAssumed, Basics, Plain, Sender!chain_caller, v8 = <<>>,
           OnlyItsOwn(v7, v3, v5[1]), Redirected(v1, v5, v6)
    PROVE  Progress(v1, v3', v5', v7', v6', v8')
  <1>0. SpfTypes /\ ~Sender!MxError /\ sender.Start \in sender.Domains /\ v1 \in sender.Zones
    BY DEF Basics, Plain, SenderAssumed, SpfTypes
  <1>. PICK k : k = v5[1]
    OBVIOUS
  <1>. PICK r : r = v1[sender.Start]
    OBVIOUS
  <1>. PICK judged : judged = AllJudged(v1)
    OBVIOUS
  <1>1. /\ v6.by = "mod" /\ v6.to = 1 /\ v6.res = judged[r.redirect]
        /\ r.text = "spf" /\ r.redirect # "none" /\ NotYet(r, judged, Len(r.mechs))
        /\ k.mechs = <<>> /\ k.redirect = "none"
    BY DEF Redirected, AllTried
  <1>2. 1 \in 1..Len(v5)
    BY <1>0, LenProperties DEF SpfTypes, ChainsFine
  <1>3. v4[k.obj] <= sender.LIMIT
    <2>1. k.obj \in 1..Len(v4) /\ v4 \in Seq(Int)
      BY <1>0, <1>2, ChainIs
    <2>2. k.obj \in DOMAIN v4
      BY <2>1, LenProperties
    <2>. QED
      BY <2>2 DEF Plain, Sender!WithinLimit
  <1>4. Stops(1, k) /\ v8' = v8
    BY <1>0, <1>1, chain_callerIs DEF SkipsRedirect, Redirects, CallsBack, AsksFor, SkipsInclude, Includes, Runs
  <1>5. PICK v : Called(1, v, "result") /\ v = IF v6.res # "none" THEN v6.res ELSE "neutral"
    BY <1>3, <1>4 DEF Stops
  <1>6. v = Sender!Judged(r, judged)
    <2>1. r.mechs \in Seq(WrittenMechs)
      BY <1>0, RecordsAre
    <2>2. Sender!Judged(r, judged) = IF r.redirect = "none" \/ judged[r.redirect] = "none" THEN "neutral"
                              ELSE judged[r.redirect]
      BY <1>1, <2>1, JudgedIs
    <2>. QED
      BY <1>1, <1>5, <2>2
  <1>7. Running(1, sender.Start, r, judged, v5'[1], v7', v6')
    BY <1>5, <1>6 DEF Running, Called
  <1>8. OnlyItsOwn(v7', v3', v5'[1])
    BY <1>4 DEF OnlyItsOwn, Stops, StaysSame
  <1>. QED
    BY <1>4, <1>7, <1>8 DEF Progress

(* A chain's result.                                                       *)
LEMMA ResultGoesOn ==
    ASSUME SenderAssumed, Basics, Plain, Sender!chain_result, v8 = <<>>,
           OnlyItsOwn(v7, v3, v5[1]),
           \/ Running(1, sender.Start, v1[sender.Start], AllJudged(v1), v5[1], v7, v6)
           \/ \E c \in 1..Len(v5), n \in Nat : InInclude(v1, v5, v7, v6, c, n)
           \/ \E c \in 1..Len(v5) : InRedirect(v1, v5, v7, v6, c)
           \/ Redirected(v1, v5, v6)
    PROVE  Progress(v1, v3', v5', v7', v6', v8')
  <1>0. SpfTypes /\ ~Sender!MxError /\ sender.Start \in sender.Domains /\ v1 \in sender.Zones
    BY DEF Basics, Plain, SenderAssumed, SpfTypes
  <1>1. /\ v6.by = "result" /\ v6.to \in 1..Len(v5)
        /\ StaysSame /\ v5' = v5 /\ v7' = v7 /\ v7 = {} /\ v6.res \in Results
        /\ ToChain(v5[v6.to]) \/ ToHook(v5[v6.to])
    BY <1>0, chain_resultIs, NoAsk, CallbackIs
  <1>. PICK r : r = v1[sender.Start]
    OBVIOUS
  <1>. PICK judged : judged = AllJudged(v1)
    OBVIOUS
  <1>2. CASE Running(1, sender.Start, r, judged, v5[1], v7, v6)
    <2>1. v6.to = 1 /\ v6.res = Sender!Judged(r, judged)
      BY <1>1, <1>2, RunningIs
    <2>2. v5[1].via = "hook"
      BY <1>0, <1>1, <2>1 DEF SpfTypes, ChainsFine, ChainFine
    <2>3. v6' = Sender!Idle /\ v8' = IF v9 = "timeout" THEN v8 ELSE Append(v8, v6.res)
      BY <1>1, <2>1, <2>2 DEF ToChain, ToHook
    <2>4. Append(<<>>, v6.res) = <<v6.res>>
      OBVIOUS
    <2>5. v8' \in {<<>>, <<Verdict(v1)>>}
      BY <2>1, <2>3, <2>4 DEF Verdict
    <2>. QED
      BY <1>1, <2>3, <2>5, IdleIs DEF Finished, Progress
  <1>3. ASSUME NEW c \in 1..Len(v5), NEW n \in Nat, InInclude(v1, v5, v7, v6, c, n)
        PROVE  Progress(v1, v3', v5', v7', v6', v8')
    <2>. PICK m : m = r.mechs[n]
      OBVIOUS
    <2>1. /\ r.text = "spf" /\ v5[1].redirect = r.redirect
          /\ Consumed(v5[1], r, n) /\ 1 <= n /\ NotYet(r, judged, n - 1) /\ m.kind = "include"
          /\ c # 1 /\ v5[c].via = "include" /\ v5[c].up = 1
          /\ Running(c, m.to, v1[m.to], Sender!Unjudged, v5[c], v7, v6)
      BY <1>3 DEF InInclude
    <2>2. v6.to = c /\ v6.res = Sender!Judged(v1[m.to], Sender!Unjudged)
      BY <1>1, <2>1, RunningIs
    <2>3. v8' = v8 /\ Called(1, Sender!Included(v6.res), "mech")
      BY <1>1, <2>1, <2>2 DEF ToChain, ToHook
    <2>4. n \in 1..Len(r.mechs)
      <3>1. n \in 0..Len(r.mechs)
        BY <2>1 DEF Consumed
      <3>. QED
        BY ONLY <2>1, <3>1
    <2>5. m.to \in sender.Domains /\ m.q = "pass" /\ m \in WrittenMechs
      BY <1>0, <2>1, <2>4, PlainIs
    <2>6. judged[m.to] = v6.res
      BY <2>2, <2>5, AllJudgedIs
    <2>7. Sender!Says(m, judged) = Sender!Included(v6.res)
      BY <1>0, <1>1, <2>1, <2>5, <2>6, SaysIs
    <2>8. Answered(1, r, judged, v5[1], v6', n)
      <3>1. n # 0
        BY <2>1
      <3>2. v6'.by = "mech" /\ v6'.to = 1 /\ v6'.res = Sender!Says(r.mechs[n], judged)
        BY <2>3, <2>7 DEF Called
      <3>. QED
        BY <2>1, <3>1, <3>2 DEF Answered
    <2>9. Running(1, sender.Start, r, judged, v5'[1], v7', v6')
      BY <1>1, <2>1, <2>8 DEF Running
    <2>10. OnlyItsOwn(v7', v3', v5'[1])
      BY <1>1 DEF OnlyItsOwn, StaysSame
    <2>. QED
      BY <2>3, <2>9, <2>10 DEF Progress
  <1>4. ASSUME NEW c \in 1..Len(v5), InRedirect(v1, v5, v7, v6, c)
        PROVE  Progress(v1, v3', v5', v7', v6', v8')
    <2>. PICK d : d = r.redirect
      OBVIOUS
    <2>1. /\ AllTried(v1, v5[1]) /\ d # "none"
          /\ c # 1 /\ v5[c].via = "redirect" /\ v5[c].up = 1
          /\ Running(c, d, v1[d], Sender!Unjudged, v5[c], v7, v6)
      BY <1>4 DEF InRedirect, AllTried
    <2>2. v6.to = c /\ v6.res = Sender!Judged(v1[d], Sender!Unjudged)
      BY <1>1, <2>1, RunningIs
    <2>3. v8' = v8 /\ Called(1, v6.res, "mod")
      BY <1>1, <2>1, <2>2 DEF ToChain, ToHook
    <2>4. d \in sender.Domains
      BY <1>0, <2>1, PlainIs
    <2>5. v6'.by = "mod" /\ v6'.to = 1 /\ v6'.res = judged[d]
      BY <2>2, <2>3, <2>4, AllJudgedIs DEF Called
    <2>6. Redirected(v1, v5', v6')
      BY <1>1, <2>1, <2>5 DEF Redirected
    <2>7. OnlyItsOwn(v7', v3', v5'[1])
      BY <1>1 DEF OnlyItsOwn, StaysSame
    <2>. QED
      BY <2>3, <2>6, <2>7 DEF Progress
  <1>5. ~Redirected(v1, v5, v6)
    BY <1>1 DEF Redirected
  <1>. QED
    BY <1>2, <1>3, <1>4, <1>5

(* All of it.                                                              *)
SpfInv == Basics /\ PlainProgress

LEMMA SpfFirst ==
    ASSUME SenderAssumed, Sender!Init
    PROVE  SpfInv
  <1>1. /\ Basics /\ v8 = <<>> /\ v3 = {} /\ v5[1] = Sender!Chain(1, 0, "hook")
        /\ v7 = {Sender!Ask(1, 0, Sender!Txt(sender.Start), {}, FALSE)}
    BY BasicsFirst
  <1>. PICK a : a = Sender!Ask(1, 0, Sender!Txt(sender.Start), {}, FALSE)
    OBVIOUS
  <1>2. a.c = 1 /\ a.mech = Sender!Txt(sender.Start)
    BY DEF Sender!Ask
  <1>3. Running(1, sender.Start, v1[sender.Start], AllJudged(v1), v5[1], v7, v6)
    BY <1>1, <1>2 DEF Running
  <1>4. OnlyItsOwn(v7, v3, v5[1])
    BY <1>1 DEF OnlyItsOwn, Untried
  <1>. QED
    BY <1>1, <1>3, <1>4 DEF SpfInv, PlainProgress, Progress

LEMMA SpfKept ==
    ASSUME SenderAssumed, SpfInv, [Sender!Next]_(Sender!vars)
    PROVE  SpfInv'
  <1>1. Basics /\ Basics' /\ PlainProgress
    BY BasicsKept DEF SpfInv
  <1>2. v1' = v1
    BY <1>1, answeredIs, chain_callerIs, chain_resultIs DEF Basics, Sender!Next, Sender!timer, Sender!hook_mail, Sender!vars
  <1>3. Sender!NoCircle' = Sender!NoCircle /\ Sender!Repeats' = Sender!Repeats /\ Sender!MxError' = Sender!MxError
    BY <1>2 DEF Sender!NoCircle, Sender!Repeats, Sender!MxError, Sender!Refers, Sender!Mechs
  <1>4. ASSUME Plain'
        PROVE  Progress(v1, v3', v5', v7', v6', v8')
    <2>1. CASE UNCHANGED Sender!vars
      <3>1. UNCHANGED <<v3, v5, v7, v6, v8, v4>>
        BY <2>1 DEF Sender!vars
      <3>2. Sender!WithinLimit' = Sender!WithinLimit
        BY <3>1 DEF Sender!WithinLimit
      <3>. QED
        BY <1>1, <1>3, <1>4, <3>1, <3>2 DEF Plain, PlainProgress
    <2>2. CASE Sender!Next
      <3>1. Plain
        BY <1>1, <1>3, <1>4, <2>2, LimitWas DEF Plain
      <3>2. Progress(v1, v3, v5, v7, v6, v8)
        BY <1>1, <3>1 DEF PlainProgress
      <3>3. CASE Finished(v1, v7, v6, v8)
        BY <1>1, <2>2, <3>3, OverStays
      <3>4. CASE ~Finished(v1, v7, v6, v8)
        <4>1. /\ v8 = <<>> /\ OnlyItsOwn(v7, v3, v5[1])
              /\ \/ Running(1, sender.Start, v1[sender.Start], AllJudged(v1), v5[1], v7, v6)
                 \/ \E c \in 1..Len(v5), n \in Nat : InInclude(v1, v5, v7, v6, c, n)
                 \/ \E c \in 1..Len(v5) : InRedirect(v1, v5, v7, v6, c)
                 \/ Redirected(v1, v5, v6)
          BY <3>2, <3>4 DEF Progress
        <4>2. CASE Sender!chain_result
          BY <1>1, <3>1, <4>1, <4>2, ResultGoesOn
        <4>3. CASE Sender!timer \/ Sender!hook_mail
          <5>1. UNCHANGED <<v3, v5, v7, v6, v8>>
            BY <4>3 DEF Sender!timer, Sender!hook_mail
          <5>. QED
            BY <3>2, <5>1
        <4>4. CASE Sender!answered \/ Sender!chain_caller
          <5>1. CASE Running(1, sender.Start, v1[sender.Start], AllJudged(v1), v5[1], v7, v6)
            BY <1>1, <3>1, <4>1, <4>4, <5>1, OwnAnswered, OwnGoesOn
          <5>2. CASE \E c \in 1..Len(v5), n \in Nat : InInclude(v1, v5, v7, v6, c, n)
            BY <1>1, <3>1, <4>1, <4>4, <5>2, IncludeGoesOn
          <5>3. CASE \E c \in 1..Len(v5) : InRedirect(v1, v5, v7, v6, c)
            BY <1>1, <3>1, <4>1, <4>4, <5>3, RedirectGoesOn
          <5>4. CASE Redirected(v1, v5, v6)
            <6>1. ~Sender!answered
              BY <5>4, IdleIs DEF Redirected, Sender!answered
            <6>. QED
              BY <1>1, <3>1, <4>1, <4>4, <5>4, <6>1, RedirectedEnds
          <5>. QED
            BY <4>1, <5>1, <5>2, <5>3, <5>4
        <4>. QED
          BY <2>2, <4>2, <4>3, <4>4 DEF Sender!Next
      <3>. QED
        BY <3>3, <3>4
    <2>. QED
      BY <2>1, <2>2
  <1>5. PlainProgress'
    BY <1>2, <1>4 DEF PlainProgress
  <1>. QED
    BY <1>1, <1>5 DEF SpfInv

LEMMA SpfGives ==
    ASSUME SenderAssumed, SpfInv
    PROVE  Sender!JudgedRight /\ Sender!ToldOnce /\ Sender!FetchedOnce /\ Sender!RefusedForResult
  <1>1. Sender!FetchedOnce /\ Sender!RefusedForResult /\ Sender!ToldOnce
    BY BasicsGive DEF SpfInv
  <1>2. ASSUME v8 # <<>>, Plain
        PROVE  v8[1] = Sender!Judge
    <2>1. Progress(v1, v3, v5, v7, v6, v8)
      BY <1>2 DEF SpfInv, PlainProgress
    <2>2. v8 = <<Verdict(v1)>>
      BY <1>2, <2>1 DEF Progress, Finished
    <2>3. v8[1] = Verdict(v1)
      BY <2>2
    <2>. QED
      BY <2>3 DEF Verdict, AllJudged, Sender!Judge
  <1>3. Sender!JudgedRight
    BY <1>2 DEF Sender!JudgedRight, Plain
  <1>. QED
    BY <1>1, <1>3

----------------------------------------------------------------------------
(***************************************************************************)
(* The p0f client (v1 client, v3 daemon, v4 hooks, v5 errors).             *)
(***************************************************************************)

Queued == Seq(p0f.Queries)

P0fTypes ==
    /\ v1 \in [send_queue : Queued, receive_queue : Queued, connected : BOOLEAN,
               ready : BOOLEAN, has_error : BOOLEAN, restart_interval : BOOLEAN,
               ticking : BOOLEAN]
    /\ v3 \in Queued /\ v4 \in [p0f.Queries -> {"idle", "waiting", "over", "own", "other's", "error"}]
    /\ v5 \in Nat

(* The daemon is asked nothing that the client does not wait for.          *)
Expected == Len(v3) <= Len(v1.receive_queue)

(* A query is in one of the queues.                                        *)
Elements(s) == {s[i] : i \in DOMAIN s}
InQueue(q) == q \in Elements(v1.receive_queue) \cup Elements(v1.send_queue)
WaitsInQueue == \A q \in p0f.Queries : v4[q] = "waiting" => InQueue(q)

P0fInv == P0fTypes /\ Expected /\ WaitsInQueue

----------------------------------------------------------------------------
P0fStep == P0fInv' /\ P0f!KeptInStep

ClientSet ==
    [send_queue : Queued, receive_queue : Queued, connected : BOOLEAN, ready : BOOLEAN,
     has_error : BOOLEAN, restart_interval : BOOLEAN, ticking : BOOLEAN]

LEMMA ElementsIs ==
    ASSUME NEW S, NEW s \in Seq(S), NEW x
    PROVE  x \in Elements(s) <=> \E i \in 1..Len(s) : s[i] = x
  <1>1. DOMAIN s = 1..Len(s)
    BY LenProperties
  <1>. QED
    BY <1>1 DEF Elements

LEMMA ElementsPush ==
    ASSUME NEW S, NEW s \in Seq(S), NEW x \in S
    PROVE  /\ Append(s, x) \in Seq(S) /\ Elements(s) \cup {x} \subseteq Elements(Append(s, x))
           /\ Len(Append(s, x)) = Len(s) + 1
  <1>1. /\ Append(s, x) \in Seq(S) /\ Len(Append(s, x)) = Len(s) + 1 /\ Len(s) \in Nat
        /\ \A i \in 1..Len(s) : Append(s, x)[i] = s[i]
        /\ Append(s, x)[Len(s) + 1] = x
    BY AppendProperties, LenProperties
  <1>2. /\ Len(s) + 1 \in 1..Len(Append(s, x))
        /\ \A i \in 1..Len(s) : i \in 1..Len(Append(s, x))
    BY <1>1
  <1>3. ASSUME NEW y \in Elements(s) PROVE y \in Elements(Append(s, x))
    <2>1. PICK i \in 1..Len(s) : s[i] = y
      BY ElementsIs
    <2>. QED
      BY <1>1, <1>2, <2>1, ElementsIs
  <1>4. x \in Elements(Append(s, x))
    BY <1>1, <1>2, ElementsIs
  <1>. QED
    BY <1>1, <1>3, <1>4

LEMMA ElementsPop ==
    ASSUME NEW S, NEW s \in Seq(S), s # <<>>
    PROVE  /\ Head(s) \in S /\ Tail(s) \in Seq(S) /\ Len(Tail(s)) = Len(s) - 1
           /\ Elements(s) \subseteq Elements(Tail(s)) \cup {Head(s)}
  <1>1. /\ Head(s) \in S /\ Tail(s) \in Seq(S) /\ Len(Tail(s)) = Len(s) - 1
        /\ Len(s) \in Nat /\ Head(s) = s[1]
        /\ \A i \in 1..Len(Tail(s)) : Tail(s)[i] = s[i + 1]
    BY HeadTailProperties, LenProperties
  <1>2. ASSUME NEW y \in Elements(s), y # Head(s) PROVE y \in Elements(Tail(s))
    <2>1. PICK i \in 1..Len(s) : s[i] = y
      BY ElementsIs
    <2>2. i # 1
      BY <1>1, <1>2, <2>1
    <2>3. i - 1 \in 1..Len(Tail(s)) /\ (i - 1) + 1 = i
      BY <1>1, <2>2
    <2>4. Tail(s)[i - 1] = y
      BY <1>1, <2>1, <2>3
    <2>. QED
      BY <1>1, <2>3, <2>4, ElementsIs
  <1>. QED
    BY <1>1, <1>2

LEMMA ElementsJoin ==
    ASSUME NEW S, NEW s \in Seq(S), NEW t \in Seq(S)
    PROVE  /\ s \o t \in Seq(S) /\ Len(s \o t) = Len(s) + Len(t)
           /\ Elements(s \o t) = Elements(s) \cup Elements(t)
  <1>1. /\ s \o t \in Seq(S) /\ Len(s \o t) = Len(s) + Len(t)
        /\ Len(s) \in Nat /\ Len(t) \in Nat
        /\ \A i \in 1..Len(s) + Len(t) : (s \o t)[i] = IF i <= Len(s) THEN s[i] ELSE t[i - Len(s)]
    BY ConcatProperties, LenProperties
  <1>2. ASSUME NEW y \in Elements(s) PROVE y \in Elements(s \o t)
    <2>1. PICK i \in 1..Len(s) : s[i] = y
      BY ElementsIs
    <2>2. i \in 1..Len(s) + Len(t) /\ i <= Len(s)
      BY <1>1
    <2>. QED
      BY <1>1, <2>1, <2>2, ElementsIs
  <1>3. ASSUME NEW y \in Elements(t) PROVE y \in Elements(s \o t)
    <2>1. PICK i \in 1..Len(t) : t[i] = y
      BY ElementsIs
    <2>2. i + Len(s) \in 1..Len(s) + Len(t) /\ ~(i + Len(s) <= Len(s)) /\ (i + Len(s)) - Len(s) = i
      BY <1>1
    <2>3. (s \o t)[i + Len(s)] = y
      BY <1>1, <2>1, <2>2
    <2>. QED
      BY <1>1, <2>2, <2>3, ElementsIs
  <1>4. ASSUME NEW y \in Elements(s \o t) PROVE y \in Elements(s) \cup Elements(t)
    <2>1. PICK i \in 1..Len(s) + Len(t) : (s \o t)[i] = y
      BY <1>1, ElementsIs
    <2>2. CASE i <= Len(s)
      <3>1. i \in 1..Len(s) /\ s[i] = y
        BY <1>1, <2>1, <2>2
      <3>. QED
        BY <3>1, ElementsIs
    <2>3. CASE ~(i <= Len(s))
      <3>1. i - Len(s) \in 1..Len(t)
        BY <1>1, <2>3
      <3>2. t[i - Len(s)] = y
        BY <1>1, <2>1, <2>3
      <3>. QED
        BY <3>1, <3>2, ElementsIs
    <2>. QED
      BY <2>2, <2>3
  <1>. QED
    BY <1>1, <1>2, <1>3, <1>4

(* A queue cut after its nth.                                              *)
LEMMA CutInTwo ==
    ASSUME NEW S, NEW s \in Seq(S), NEW n \in Nat, n <= Len(s)
    PROVE  /\ SubSeq(s, 1, n) \in Seq(S) /\ SubSeq(s, n + 1, Len(s)) \in Seq(S)
           /\ Len(SubSeq(s, 1, n)) = n
           /\ Elements(s) \subseteq Elements(SubSeq(s, 1, n)) \cup Elements(SubSeq(s, n + 1, Len(s)))
  <1>. DEFINE a == SubSeq(s, 1, n)
              b == SubSeq(s, n + 1, Len(s))
  <1>1. Len(s) \in Nat /\ \A i \in 1..Len(s) : s[i] \in S
    BY LenProperties, ElementOfSeq
  <1>2. 1 \in Int /\ n \in Int /\ Len(s) \in Int /\ n + 1 \in Int
    BY <1>1
  <1>3. (\A i \in 1..n : s[i] \in S) /\ (\A i \in (n + 1)..Len(s) : s[i] \in S)
    BY <1>1
  <1>4. /\ a \in Seq(S) /\ Len(a) = (IF 1 <= n THEN n - 1 + 1 ELSE 0)
        /\ \A i \in 1..n - 1 + 1 : a[i] = s[1 + i - 1]
    BY <1>2, <1>3, SubSeqProperties
  <1>5. /\ b \in Seq(S) /\ Len(b) = (IF n + 1 <= Len(s) THEN Len(s) - (n + 1) + 1 ELSE 0)
        /\ \A i \in 1..Len(s) - (n + 1) + 1 : b[i] = s[(n + 1) + i - 1]
    BY <1>2, <1>3, SubSeqProperties
  <1>. HIDE DEF a, b
  <1>6. Len(a) = n /\ Len(b) = Len(s) - n
    BY <1>1, <1>4, <1>5
  <1>7. ASSUME NEW y \in Elements(s) PROVE y \in Elements(a) \cup Elements(b)
    <2>1. PICK i \in 1..Len(s) : s[i] = y
      BY ElementsIs
    <2>2. CASE i <= n
      <3>1. i \in 1..Len(a) /\ i \in 1..n - 1 + 1 /\ 1 + i - 1 = i
        BY <1>1, <1>6, <2>2
      <3>2. a[i] = y
        BY <1>4, <2>1, <3>1
      <3>. QED
        BY <1>4, <3>1, <3>2, ElementsIs
    <2>3. CASE ~(i <= n)
      <3>1. i - n \in 1..Len(b) /\ i - n \in 1..Len(s) - (n + 1) + 1 /\ (n + 1) + (i - n) - 1 = i
        BY <1>1, <1>6, <2>3
      <3>2. b[i - n] = y
        BY <1>5, <2>1, <3>1
      <3>. QED
        BY <1>5, <3>1, <3>2, ElementsIs
    <2>. QED
      BY <2>2, <2>3
  <1>. QED
    BY <1>4, <1>5, <1>6, <1>7 DEF a, b

(* The half that a loop goes over, and the half it leaves.                 *)
LEMMA HalfLooped ==
    ASSUME NEW S, NEW s \in Seq(S)
    PROVE  /\ P0f!Looped(s) \in Seq(S) /\ P0f!Kept(s) \in Seq(S)
           /\ Len(P0f!Looped(s)) \in Nat /\ Len(P0f!Looped(s)) <= Len(s)
           /\ Elements(s) \subseteq Elements(P0f!Looped(s)) \cup Elements(P0f!Kept(s))
           /\ Len(s) <= 1 => P0f!Kept(s) = <<>>
  <1>1. PICK l \in Nat : l = Len(s)
    BY LenProperties
  <1>2. PICK n \in Nat : n = (Len(s) + 1) \div 2 /\ n <= Len(s) /\ (Len(s) <= 1 => Len(s) < n + 1)
    <2>1. (l + 1) \div 2 \in Nat /\ (l + 1) \div 2 <= l /\ (l <= 1 => l < (l + 1) \div 2 + 1)
      OBVIOUS
    <2>. QED
      BY <1>1, <2>1
  <1>3. P0f!Looped(s) = SubSeq(s, 1, n) /\ P0f!Kept(s) = SubSeq(s, n + 1, Len(s))
    BY <1>2 DEF P0f!Looped, P0f!Kept
  <1>4. Len(s) <= 1 => SubSeq(s, n + 1, Len(s)) = <<>>
    BY <1>1, <1>2, SubSeqEmpty
  <1>. QED
    BY <1>2, <1>3, <1>4, CutInTwo

LEMMA ClientTypes ==
    ASSUME P0fInv
    PROVE  /\ v1 \in ClientSet /\ v1.send_queue \in Queued /\ v1.receive_queue \in Queued
           /\ v3 \in Queued /\ v4 \in [p0f.Queries -> {"idle", "waiting", "over", "own", "other's", "error"}]
           /\ v5 \in Nat /\ Len(v3) \in Nat /\ Len(v1.receive_queue) \in Nat
           /\ Len(v1.send_queue) \in Nat
  <1>1. /\ v1 \in ClientSet /\ v1.send_queue \in Queued /\ v1.receive_queue \in Queued
        /\ v3 \in Queued /\ v4 \in [p0f.Queries -> {"idle", "waiting", "over", "own", "other's", "error"}]
        /\ v5 \in Nat
    BY DEF P0fInv, P0fTypes, ClientSet
  <1>. QED
    BY <1>1, LenProperties DEF Queued

LEMMA P0fInit == ASSUME P0f!Init PROVE P0fInv
  <1>. USE DEF P0f!Init
  <1>1. <<>> \in Queued
    BY EmptySeq DEF Queued
  <1>2. P0fTypes
    BY <1>1 DEF P0fTypes
  <1>3. Expected
    BY DEF Expected
  <1>4. WaitsInQueue
    BY DEF WaitsInQueue
  <1>. QED
    BY <1>2, <1>3, <1>4 DEF P0fInv

(* What process_send_queue writes goes to the receive queue and the daemon.*)
LEMMA Sends ==
    ASSUME P0fInv, NEW c \in ClientSet, P0f!process_send_queue(c),
           c.send_queue = v1.send_queue, c.receive_queue = v1.receive_queue,
           v4' = v4, v5' = v5
    PROVE  P0fStep
  <1>1. PICK w \in P0f!Written(c.send_queue) :
            /\ v1' = [c EXCEPT !.send_queue = SubSeq(@, w[1] + 1, Len(@)),
                               !.receive_queue = @ \o SubSeq(c.send_queue, 1, w[1]), !.ready = ~w[2]]
            /\ v3' = v3 \o SubSeq(c.send_queue, 1, w[1])
    BY DEF P0f!process_send_queue
  <1>2. v1.send_queue \in Seq(p0f.Queries) /\ v1.receive_queue \in Seq(p0f.Queries) /\ v3 \in Seq(p0f.Queries)
    BY ClientTypes DEF Queued
  <1>3. w[1] \in 0..Len(P0f!Looped(v1.send_queue)) /\ w[2] \in BOOLEAN
    BY DEF P0f!Written
  <1>4. PICK n \in Nat : n = w[1] /\ n <= Len(v1.send_queue)
    <2>1. w[1] \in Nat /\ w[1] <= Len(P0f!Looped(v1.send_queue))
      BY <1>2, <1>3, HalfLooped
    <2>2. w[1] <= Len(v1.send_queue)
      BY <1>2, <2>1, HalfLooped, LenProperties
    <2>. QED
      BY <2>1, <2>2
  <1>5. PICK a \in Seq(p0f.Queries) : a = SubSeq(v1.send_queue, 1, n)
    BY <1>2, <1>4, CutInTwo
  <1>6. PICK b \in Seq(p0f.Queries) : b = SubSeq(v1.send_queue, n + 1, Len(v1.send_queue))
    BY <1>2, <1>4, CutInTwo
  <1>7. Elements(v1.send_queue) \subseteq Elements(a) \cup Elements(b)
    BY <1>2, <1>4, <1>5, <1>6, CutInTwo
  <1>8. v1' = [c EXCEPT !.send_queue = b, !.receive_queue = v1.receive_queue \o a, !.ready = ~w[2]]
    BY <1>1, <1>4, <1>5, <1>6 DEF ClientSet
  <1>9. v3' = v3 \o a
    BY <1>1, <1>4, <1>5
  <1>10. /\ v1.receive_queue \o a \in Seq(p0f.Queries) /\ v3 \o a \in Seq(p0f.Queries)
         /\ Len(v1.receive_queue \o a) = Len(v1.receive_queue) + Len(a)
         /\ Len(v3 \o a) = Len(v3) + Len(a)
         /\ Elements(v1.receive_queue \o a) = Elements(v1.receive_queue) \cup Elements(a)
    <2>1. /\ v3 \o a \in Seq(p0f.Queries) /\ Len(v3 \o a) = Len(v3) + Len(a)
      BY <1>2, ElementsJoin
    <2>2. PICK r \in Seq(p0f.Queries) : r = v1.receive_queue
      BY <1>2
    <2>3. /\ r \o a \in Seq(p0f.Queries) /\ Len(r \o a) = Len(r) + Len(a)
          /\ Elements(r \o a) = Elements(r) \cup Elements(a)
      BY ElementsJoin
    <2>. QED
      BY <2>1, <2>2, <2>3
  <1>11. v1'.send_queue = b /\ v1'.receive_queue = v1.receive_queue \o a /\ v1' \in ClientSet
    BY <1>8, <1>10 DEF ClientSet, Queued
  <1>12. P0fTypes'
    BY <1>9, <1>10, <1>11, ClientTypes DEF P0fTypes, ClientSet, Queued
  <1>13. Expected'
    <2>1. Len(v3) <= Len(v1.receive_queue) /\ Len(v3) \in Nat /\ Len(v1.receive_queue) \in Nat /\ Len(a) \in Nat
      BY ClientTypes, LenProperties DEF P0fInv, Expected
    <2>2. Len(v3') <= Len(v1'.receive_queue)
      BY <1>9, <1>10, <1>11, <2>1
    <2>. QED
      BY <2>2 DEF Expected
  <1>14. \A q : InQueue(q) => InQueue(q)'
    BY <1>7, <1>10, <1>11 DEF InQueue
  <1>15. WaitsInQueue'
    BY <1>14 DEF P0fInv, WaitsInQueue
  <1>16. P0f!KeptInStep
    BY <1>9, <1>11 DEF P0f!KeptInStep, P0f!InStep
  <1>. QED
    BY <1>12, <1>13, <1>15, <1>16 DEF P0fStep, P0fInv

LEMMA Resumes ==
    ASSUME P0fInv, P0f!connect \/ P0f!drain
    PROVE  P0fStep
  <1>1. v1 \in ClientSet
    BY ClientTypes
  <1>2. CASE P0f!connect
    <2>. PICK c : c = [v1 EXCEPT !.connected = TRUE, !.has_error = FALSE, !.ready = TRUE, !.ticking = FALSE]
      OBVIOUS
    <2>1. c \in ClientSet /\ c.send_queue = v1.send_queue /\ c.receive_queue = v1.receive_queue
      BY <1>1 DEF ClientSet
    <2>2. P0f!process_send_queue(c) /\ v4' = v4 /\ v5' = v5
      BY <1>2 DEF P0f!connect
    <2>. QED
      BY <2>1, <2>2, Sends
  <1>3. CASE P0f!drain
    <2>. PICK c : c = [v1 EXCEPT !.ready = TRUE]
      OBVIOUS
    <2>1. c \in ClientSet /\ c.send_queue = v1.send_queue /\ c.receive_queue = v1.receive_queue
      BY <1>1 DEF ClientSet
    <2>2. P0f!process_send_queue(c) /\ v4' = v4 /\ v5' = v5
      BY <1>3 DEF P0f!drain
    <2>. QED
      BY <2>1, <2>2, Sends
  <1>. QED
    BY <1>2, <1>3

LEMMA Queries ==
    ASSUME P0fInv, NEW q \in p0f.Queries, P0f!query(q)
    PROVE  P0fStep
  <1>1. /\ v5' = v5 /\ v4[q] = "idle"
        /\ \/ v4' = [v4 EXCEPT ![q] = "error"] /\ v1' = v1 /\ v3' = v3
           \/ /\ v4' = [v4 EXCEPT ![q] = "waiting"] /\ v3' = v3
              /\ v1' = [v1 EXCEPT !.send_queue = Append(@, q)]
           \/ /\ v4' = [v4 EXCEPT ![q] = "waiting"] /\ v3' = Append(v3, q)
              /\ \E room \in BOOLEAN : v1' = [v1 EXCEPT !.receive_queue = Append(@, q), !.ready = room]
    BY DEF P0f!query
  <1>2. /\ v1 \in ClientSet /\ v3 \in Seq(p0f.Queries)
        /\ v1.send_queue \in Seq(p0f.Queries) /\ v1.receive_queue \in Seq(p0f.Queries)
        /\ Len(v3) \in Nat /\ Len(v1.receive_queue) \in Nat
    BY ClientTypes DEF Queued
  <1>3. /\ v4' \in [p0f.Queries -> {"idle", "waiting", "over", "own", "other's", "error"}]
        /\ \A p \in p0f.Queries : p # q => v4'[p] = v4[p]
        /\ v4'[q] = "error" \/ v4'[q] = "waiting"
    BY <1>1, ClientTypes
  <1>4. Expected /\ Len(v3) <= Len(v1.receive_queue)
    BY DEF P0fInv, Expected
  <1>5. PICK sq \in Seq(p0f.Queries) :
            /\ sq = Append(v1.send_queue, q) /\ Elements(v1.send_queue) \cup {q} \subseteq Elements(sq)
    BY <1>2, ElementsPush
  <1>6. PICK rq \in Seq(p0f.Queries) :
            /\ rq = Append(v1.receive_queue, q) /\ Elements(v1.receive_queue) \cup {q} \subseteq Elements(rq)
            /\ Len(rq) = Len(v1.receive_queue) + 1
    BY <1>2, ElementsPush
  <1>7. PICK dq \in Seq(p0f.Queries) : dq = Append(v3, q) /\ Len(dq) = Len(v3) + 1
    BY <1>2, ElementsPush
  <1>8. CASE v4' = [v4 EXCEPT ![q] = "error"] /\ v1' = v1 /\ v3' = v3
    <2>1. v4'[q] = "error"
      BY <1>8, ClientTypes
    <2>2. P0fTypes'
      BY <1>1, <1>2, <1>3, <1>8, ClientTypes DEF P0fTypes, ClientSet, Queued
    <2>3. Expected' /\ P0f!KeptInStep /\ \A p : InQueue(p)' = InQueue(p)
      BY <1>4, <1>8 DEF Expected, P0f!KeptInStep, P0f!InStep, InQueue
    <2>4. WaitsInQueue'
      BY <1>3, <2>1, <2>3 DEF P0fInv, WaitsInQueue
    <2>. QED
      BY <2>2, <2>3, <2>4 DEF P0fStep, P0fInv
  <1>9. CASE v3' = v3 /\ v1' = [v1 EXCEPT !.send_queue = Append(@, q)]
    <2>1. v1' = [v1 EXCEPT !.send_queue = sq]
      BY <1>5, <1>9
    <2>2. v1' \in ClientSet /\ v1'.send_queue = sq /\ v1'.receive_queue = v1.receive_queue
      BY <1>2, <2>1 DEF ClientSet, Queued
    <2>3. P0fTypes'
      BY <1>1, <1>2, <1>3, <1>9, <2>2, ClientTypes DEF P0fTypes, ClientSet, Queued
    <2>4. Expected' /\ P0f!KeptInStep
      BY <1>4, <1>9, <2>2 DEF Expected, P0f!KeptInStep, P0f!InStep
    <2>5. InQueue(q)' /\ \A p : InQueue(p) => InQueue(p)'
      BY <1>5, <2>2 DEF InQueue
    <2>6. WaitsInQueue'
      BY <1>3, <2>5 DEF P0fInv, WaitsInQueue
    <2>. QED
      BY <2>3, <2>4, <2>6 DEF P0fStep, P0fInv
  <1>10. ASSUME v3' = Append(v3, q), NEW room \in BOOLEAN,
                v1' = [v1 EXCEPT !.receive_queue = Append(@, q), !.ready = room]
         PROVE  P0fStep
    <2>1. v1' = [v1 EXCEPT !.receive_queue = rq, !.ready = room] /\ v3' = dq
      BY <1>6, <1>7, <1>10
    <2>2. v1' \in ClientSet /\ v1'.send_queue = v1.send_queue /\ v1'.receive_queue = rq
      BY <1>2, <2>1 DEF ClientSet, Queued
    <2>3. P0fTypes'
      BY <1>1, <1>2, <1>3, <2>1, <2>2, ClientTypes DEF P0fTypes, ClientSet, Queued
    <2>4. Expected'
      <3>1. Len(v3') <= Len(v1'.receive_queue)
        BY <1>2, <1>4, <1>6, <1>7, <2>1, <2>2
      <3>. QED
        BY <3>1 DEF Expected
    <2>5. P0f!KeptInStep
      BY <1>6, <1>7, <2>1, <2>2 DEF P0f!KeptInStep, P0f!InStep
    <2>6. InQueue(q)' /\ \A p : InQueue(p) => InQueue(p)'
      BY <1>6, <2>2 DEF InQueue
    <2>7. WaitsInQueue'
      BY <1>3, <2>6 DEF P0fInv, WaitsInQueue
    <2>. QED
      BY <2>3, <2>4, <2>5, <2>7 DEF P0fStep, P0fInv
  <1>. QED
    BY <1>1, <1>8, <1>9, <1>10

(* The answer is for the head of the receive queue, which nobody else asks.*)
LEMMA Decodes ==
    ASSUME P0fInv, P0f!decode_response
    PROVE  P0fStep
  <1>1. /\ v3 # <<>> /\ v3' = Tail(v3) /\ v5' = v5
        /\ v1' = [v1 EXCEPT !.receive_queue = Tail(@)]
        /\ v4' = P0f!Called(v4, Head(v1.receive_queue),
                            IF Head(v1.receive_queue) = Head(v3) THEN "own" ELSE "other's")
    BY DEF P0f!decode_response
  <1>2. /\ v1 \in ClientSet /\ v3 \in Seq(p0f.Queries)
        /\ v1.send_queue \in Seq(p0f.Queries) /\ v1.receive_queue \in Seq(p0f.Queries)
        /\ Len(v3) \in Nat /\ Len(v1.receive_queue) \in Nat /\ Len(v3) <= Len(v1.receive_queue)
    BY ClientTypes DEF Queued, P0fInv, Expected
  <1>3. v1.receive_queue # <<>>
    <2>1. Len(v3) # 0
      BY <1>1, <1>2, EmptySeq
    <2>2. Len(v1.receive_queue) # 0
      BY <1>2, <2>1
    <2>. QED
      BY <1>2, <2>2, EmptySeq
  <1>4. PICK h \in p0f.Queries : h = Head(v1.receive_queue)
    BY <1>2, <1>3, ElementsPop
  <1>5. PICK t \in Seq(p0f.Queries) :
            /\ t = Tail(v1.receive_queue) /\ Elements(v1.receive_queue) \subseteq Elements(t) \cup {h}
            /\ Len(t) = Len(v1.receive_queue) - 1
    BY <1>2, <1>3, <1>4, ElementsPop
  <1>6. PICK d \in Seq(p0f.Queries) : d = Tail(v3) /\ Len(d) = Len(v3) - 1
    BY <1>1, <1>2, ElementsPop
  <1>7. v1' \in ClientSet /\ v1'.send_queue = v1.send_queue /\ v1'.receive_queue = t /\ v3' = d
    BY <1>1, <1>2, <1>5, <1>6 DEF ClientSet, Queued
  <1>8. PICK result \in {"own", "other's"} : v4' = P0f!Called(v4, h, result)
    BY <1>1, <1>4
  <1>9. /\ v4' \in [p0f.Queries -> {"idle", "waiting", "over", "own", "other's", "error"}]
        /\ v4'[h] # "waiting"
        /\ \A p \in p0f.Queries : p # h => v4'[p] = v4[p]
    BY <1>8, ClientTypes DEF P0f!Called
  <1>10. P0fTypes'
    BY <1>1, <1>2, <1>7, <1>9, ClientTypes DEF P0fTypes, ClientSet, Queued
  <1>11. Expected'
    <2>1. Len(v3') <= Len(v1'.receive_queue)
      BY <1>2, <1>5, <1>6, <1>7
    <2>. QED
      BY <2>1 DEF Expected
  <1>12. P0f!KeptInStep
    BY <1>5, <1>6, <1>7 DEF P0f!KeptInStep, P0f!InStep
  <1>13. \A p : InQueue(p) /\ p # h => InQueue(p)'
    BY <1>5, <1>7 DEF InQueue
  <1>14. WaitsInQueue'
    BY <1>9, <1>13 DEF P0fInv, WaitsInQueue
  <1>. QED
    BY <1>10, <1>11, <1>12, <1>14 DEF P0fStep, P0fInv

(* The socket fails: who waits in the half that is gone over is called.    *)
LEMMA Fails ==
    ASSUME P0fInv, P0f!error
    PROVE  P0fStep
  <1>. DEFINE rl == P0f!Looped(v1.receive_queue)
              sl == P0f!Looped(v1.send_queue)
  <1>1. /\ v5' = v5 + 1 /\ v3' = <<>>
        /\ v1' = [v1 EXCEPT !.connected = FALSE, !.has_error = TRUE, !.restart_interval = TRUE,
                            !.ticking = @ \/ ~v1.restart_interval,
                            !.receive_queue = P0f!Kept(@), !.send_queue = P0f!Kept(@)]
        /\ v4' = P0f!CalledAll(P0f!CalledAll(v4, rl, "error"), sl, "error")
    BY DEF P0f!error
  <1>2. /\ v1 \in ClientSet /\ v1.send_queue \in Seq(p0f.Queries) /\ v1.receive_queue \in Seq(p0f.Queries)
        /\ v5 \in Nat
    BY ClientTypes DEF Queued
  <1>3. /\ P0f!Kept(v1.receive_queue) \in Seq(p0f.Queries) /\ P0f!Kept(v1.send_queue) \in Seq(p0f.Queries)
        /\ Elements(v1.receive_queue) \subseteq Elements(rl) \cup Elements(P0f!Kept(v1.receive_queue))
        /\ Elements(v1.send_queue) \subseteq Elements(sl) \cup Elements(P0f!Kept(v1.send_queue))
        /\ Len(v1.receive_queue) <= 1 => P0f!Kept(v1.receive_queue) = <<>>
    BY <1>2, HalfLooped
  <1>4. /\ v1' \in ClientSet
        /\ v1'.receive_queue = P0f!Kept(v1.receive_queue) /\ v1'.send_queue = P0f!Kept(v1.send_queue)
    BY <1>1, <1>2, <1>3 DEF ClientSet, Queued
  <1>5. /\ v4' \in [p0f.Queries -> {"idle", "waiting", "over", "own", "other's", "error"}]
        /\ \A p \in p0f.Queries :
              v4'[p] = "waiting" => v4[p] = "waiting" /\ p \notin Elements(rl) /\ p \notin Elements(sl)
    <2>1. \A h, s : P0f!CalledAll(h, s, "error") =
                       [q \in p0f.Queries |-> IF h[q] = "waiting" /\ q \in Elements(s) THEN "error" ELSE h[q]]
      BY DEF P0f!CalledAll, Elements
    <2>2. v4 \in [p0f.Queries -> {"idle", "waiting", "over", "own", "other's", "error"}]
      BY ClientTypes
    <2>3. PICK g : g = P0f!CalledAll(v4, rl, "error")
      OBVIOUS
    <2>4. /\ g \in [p0f.Queries -> {"idle", "waiting", "over", "own", "other's", "error"}]
          /\ \A p \in p0f.Queries : g[p] = "waiting" => v4[p] = "waiting" /\ p \notin Elements(rl)
      BY <2>1, <2>2, <2>3
    <2>5. v4' = P0f!CalledAll(g, sl, "error")
      BY <1>1, <2>3
    <2>6. /\ v4' \in [p0f.Queries -> {"idle", "waiting", "over", "own", "other's", "error"}]
          /\ \A p \in p0f.Queries : v4'[p] = "waiting" => g[p] = "waiting" /\ p \notin Elements(sl)
      BY <2>1, <2>4, <2>5
    <2>. QED
      BY <2>4, <2>6
  <1>6. <<>> \in Queued /\ Len(<<>>) = 0
    BY EmptySeq DEF Queued
  <1>7. P0fTypes'
    BY <1>1, <1>2, <1>4, <1>5, <1>6 DEF P0fTypes, ClientSet
  <1>8. Expected'
    <2>1. Len(P0f!Kept(v1.receive_queue)) \in Nat
      BY <1>3, LenProperties
    <2>2. Len(v3') <= Len(v1'.receive_queue)
      BY <1>1, <1>4, <1>6, <2>1
    <2>. QED
      BY <2>2 DEF Expected
  <1>9. WaitsInQueue'
    BY <1>3, <1>4, <1>5 DEF P0fInv, WaitsInQueue, InQueue
  <1>10. P0f!KeptInStep
    <2>1. v5' > v5
      BY <1>1, <1>2
    <2>2. Len(v1.receive_queue) \in Nat
      BY <1>2, LenProperties
    <2>3. ~(Len(v1.receive_queue) > 1) => v1'.receive_queue = v3'
      BY <1>1, <1>3, <1>4, <2>2
    <2>. QED
      BY <2>1, <2>3 DEF P0f!KeptInStep, P0f!InStep
  <1>. QED
    BY <1>7, <1>8, <1>9, <1>10 DEF P0fStep, P0fInv

LEMMA RestartsOrExpires ==
    ASSUME P0fInv, P0f!restart \/ \E q \in p0f.Queries : P0f!hook_timeout(q)
    PROVE  P0fStep
  <1>1. /\ v1' = v1 /\ v3' = v3 /\ v5' = v5
        /\ v4' = v4 \/ \E q \in p0f.Queries : v4' = [v4 EXCEPT ![q] = "over"]
    BY DEF P0f!restart, P0f!hook_timeout
  <1>2. /\ v4' \in [p0f.Queries -> {"idle", "waiting", "over", "own", "other's", "error"}]
        /\ \A p \in p0f.Queries : v4'[p] = "waiting" => v4[p] = "waiting"
    <2>1. CASE v4' = v4
      BY <2>1, ClientTypes
    <2>2. ASSUME NEW q \in p0f.Queries, v4' = [v4 EXCEPT ![q] = "over"]
          PROVE  /\ v4' \in [p0f.Queries -> {"idle", "waiting", "over", "own", "other's", "error"}]
                 /\ \A p \in p0f.Queries : v4'[p] = "waiting" => v4[p] = "waiting"
      BY <2>2, ClientTypes
    <2>. QED
      BY <1>1, <2>1, <2>2
  <1>3. P0fTypes'
    BY <1>1, <1>2 DEF P0fInv, P0fTypes, Queued
  <1>4. Expected' /\ P0f!KeptInStep /\ \A p : InQueue(p)' = InQueue(p)
    BY <1>1 DEF P0fInv, Expected, P0f!KeptInStep, P0f!InStep, InQueue
  <1>5. WaitsInQueue'
    BY <1>2, <1>4 DEF P0fInv, WaitsInQueue
  <1>. QED
    BY <1>3, <1>4, <1>5 DEF P0fStep, P0fInv

LEMMA P0fNext == ASSUME P0fInv, P0f!Next PROVE P0fStep
  BY Resumes, Queries, Decodes, Fails, RestartsOrExpires DEF P0f!Next

LEMMA P0fPromise == ASSUME P0fInv PROVE P0f!WaitingIsQueued
  <1>. DEFINE both == v1.receive_queue \o v1.send_queue
  <1>1. v1.send_queue \in Seq(p0f.Queries) /\ v1.receive_queue \in Seq(p0f.Queries)
    BY ClientTypes DEF Queued
  <1>2. Elements(both) = Elements(v1.receive_queue) \cup Elements(v1.send_queue)
    BY <1>1, ElementsJoin
  <1>. HIDE DEF both
  <1>3. \A q \in p0f.Queries : v4[q] = "waiting" => \E i \in DOMAIN both : both[i] = q
    BY <1>2 DEF P0fInv, WaitsInQueue, InQueue, Elements
  <1>. QED
    BY <1>3 DEF both, P0f!WaitingIsQueued

----------------------------------------------------------------------------
(***************************************************************************)
(* Reputation and rates (v1 at, v4 concurrent, v6 notes, v7 key, v11       *)
(* reloads).                                                               *)
(***************************************************************************)

States == {"new", "asked", "known", "open", "gone", "left", "late"}
Counted == {c \in rates.Conns : v1[c] \in {"known", "open"}}
Opened == {c \in rates.Conns : v1[c] = "open"}

RatesTypes ==
    /\ v1 \in [rates.Conns -> States]
    /\ v4 \in Int /\ v6 \in [rates.Keys -> Nat] /\ v7 \in rates.Keys
    /\ v11 \in Nat

(* karma counts a connection when its lookup is answered, at the earliest. *)
NoMoreThanAnswered == Rates!LeftEarly = {} => v4 <= Cardinality(Counted)

(* rate_limit counts under one entry, until its configuration changes.     *)
UnderOneKey ==
    v11 = 0 => /\ v6[v7] <= Cardinality(Opened)
               /\ \A k \in rates.Keys : k # v7 => v6[k] = 0

RatesInv == RatesTypes /\ NoMoreThanAnswered /\ UnderOneKey

----------------------------------------------------------------------------
LEMMA CardinalityIs == ASSUME NEW S PROVE Rates!Cardinality(S) = Cardinality(S)
  BY DEF Rates!Cardinality, Cardinality

LEMMA Finite ==
    ASSUME RatesAssumed
    PROVE  /\ IsFiniteSet(Counted) /\ Cardinality(Counted) \in Nat
           /\ IsFiniteSet(Opened) /\ Cardinality(Opened) \in Nat
           /\ IsFiniteSet(Rates!Open) /\ Cardinality(Rates!Open) \in Nat
  <1>1. Counted \subseteq rates.Conns /\ Opened \subseteq rates.Conns /\ Rates!Open \subseteq rates.Conns
    BY DEF Counted, Opened, Rates!Open
  <1>. QED
    BY <1>1, FS_Subset, FS_CardinalityType DEF RatesAssumed

LEMMA RatesInit == ASSUME RatesAssumed, Rates!Init PROVE RatesInv
  <1>. USE DEF Rates!Init
  <1>1. RatesTypes
    BY DEF RatesTypes, States
  <1>2. Cardinality(Counted) \in Nat /\ Cardinality(Opened) \in Nat
    BY Finite
  <1>3. NoMoreThanAnswered
    BY <1>2 DEF NoMoreThanAnswered
  <1>4. UnderOneKey
    BY <1>2 DEF UnderOneKey
  <1>. QED
    BY <1>1, <1>3, <1>4 DEF RatesInv

(* What a step of c does to the connections that count.                    *)
Moved(c, to) == v1' = [v1 EXCEPT ![c] = to]

LEMMA Movement ==
    ASSUME RatesInv, NEW c \in rates.Conns, NEW to \in States, Moved(c, to)
    PROVE  /\ v1' \in [rates.Conns -> States]
           /\ to \in {"known", "open"} => Counted' = Counted \cup {c}
           /\ to \notin {"known", "open"} => Counted' = Counted \ {c}
           /\ to = "open" => Opened' = Opened \cup {c}
           /\ to # "open" => Opened' = Opened \ {c}
           /\ c \in Counted <=> v1[c] \in {"known", "open"}
           /\ c \in Opened <=> v1[c] = "open"
           /\ Rates!LeftEarly' = {} => to \notin {"left", "late"}
           /\ Rates!LeftEarly' = {} /\ v1[c] \notin {"left", "late"} => Rates!LeftEarly = {}
  <1>1. v1 \in [rates.Conns -> States] /\ v1' = [v1 EXCEPT ![c] = to]
    BY DEF RatesInv, RatesTypes, Moved
  <1>2. v1' \in [rates.Conns -> States]
    BY <1>1
  <1>3. v1'[c] = to /\ \A d \in rates.Conns : d # c => v1'[d] = v1[d]
    BY <1>1
  <1>4. /\ to \in {"known", "open"} => Counted' = Counted \cup {c}
        /\ to \notin {"known", "open"} => Counted' = Counted \ {c}
    BY <1>3 DEF Counted
  <1>5. /\ to = "open" => Opened' = Opened \cup {c}
        /\ to # "open" => Opened' = Opened \ {c}
    BY <1>3 DEF Opened
  <1>6. /\ c \in Counted <=> v1[c] \in {"known", "open"}
        /\ c \in Opened <=> v1[c] = "open"
    BY DEF Counted, Opened
  <1>7. Rates!LeftEarly' = {} => to \notin {"left", "late"}
    BY <1>3 DEF Rates!LeftEarly
  <1>8. Rates!LeftEarly' = {} /\ v1[c] \notin {"left", "late"} => Rates!LeftEarly = {}
    BY <1>3 DEF Rates!LeftEarly
  <1>. QED
    BY <1>2, <1>4, <1>5, <1>6, <1>7, <1>8

(* A connection's lookup is sent.                                          *)
LEMMA Asks ==
    ASSUME RatesAssumed, RatesInv, NEW c \in rates.Conns, Rates!hook_lookup_rdns(c)
    PROVE  RatesInv'
  <1>1. /\ v1[c] = "new" /\ Moved(c, "asked")
        /\ v4' = v4 /\ v6' = v6 /\ v7' = v7 /\ v11' = v11
    BY DEF Rates!hook_lookup_rdns, Rates!rateVars, Moved
  <1>2. /\ v1' \in [rates.Conns -> States] /\ Counted' = Counted \ {c} /\ Opened' = Opened \ {c}
        /\ c \notin Counted /\ c \notin Opened
        /\ Rates!LeftEarly' = {} => Rates!LeftEarly = {}
    BY <1>1, Movement DEF States
  <1>3. Counted' = Counted /\ Opened' = Opened
    BY <1>2
  <1>. QED
    BY <1>1, <1>2, <1>3 DEF RatesInv, RatesTypes, NoMoreThanAnswered, UnderOneKey

(* It is answered, and counted, or the count fails.                        *)
LEMMA Answers ==
    ASSUME RatesAssumed, RatesInv, NEW c \in rates.Conns,
           Rates!redisResults(c) \/ Rates!redisError(c)
    PROVE  RatesInv'
  <1>1. /\ v1[c] \in {"asked", "left"}
        /\ Moved(c, IF v1[c] = "asked" THEN "known" ELSE "late")
        /\ v4' = v4 \/ v4' = v4 + 1 \/ v4' = 1
        /\ v6' = v6 /\ v7' = v7 /\ v11' = v11
    <2>1. CASE Rates!redisResults(c)
      BY <2>1 DEF Rates!redisResults, Rates!rateVars, Moved, RatesInv, RatesTypes
    <2>2. CASE Rates!redisError(c)
      BY <2>2 DEF Rates!redisError, Rates!rateVars, Moved, RatesInv, RatesTypes
    <2>. QED
      BY <2>1, <2>2
  <1>2. PICK to \in {"known", "late"} : to = IF v1[c] = "asked" THEN "known" ELSE "late"
    OBVIOUS
  <1>3. /\ v1' \in [rates.Conns -> States] /\ Opened' = Opened \ {c}
        /\ to = "known" => Counted' = Counted \cup {c}
        /\ c \notin Counted /\ c \notin Opened
        /\ Rates!LeftEarly' = {} => to = "known"
        /\ Rates!LeftEarly' = {} /\ to = "known" => Rates!LeftEarly = {}
    BY <1>1, <1>2, Movement DEF States
  <1>4. v4' \in Int
    BY <1>1 DEF RatesInv, RatesTypes
  <1>5. NoMoreThanAnswered'
    <2>. SUFFICES ASSUME Rates!LeftEarly' = {} PROVE v4' <= Cardinality(Counted')
      BY DEF NoMoreThanAnswered
    <2>1. v4 <= Cardinality(Counted) /\ v4 \in Int
      BY <1>3 DEF RatesInv, RatesTypes, NoMoreThanAnswered
    <2>2. IsFiniteSet(Counted) /\ Cardinality(Counted) \in Nat
      BY Finite
    <2>3. Counted' = Counted \cup {c} /\ c \notin Counted
      BY <1>3
    <2>4. Cardinality(Counted') = Cardinality(Counted) + 1
      BY <2>2, <2>3, FS_AddElement
    <2>. QED
      BY ONLY <1>1, <2>1, <2>2, <2>4
  <1>. QED
    BY <1>1, <1>3, <1>4, <1>5 DEF RatesInv, RatesTypes, UnderOneKey

(* rate_limit's hook of connect.                                           *)
LEMMA Connects ==
    ASSUME RatesAssumed, RatesInv, NEW c \in rates.Conns, Rates!hook_connect(c)
    PROVE  RatesInv'
  <1>1. /\ v1[c] = "known" /\ Moved(c, "open") /\ v4' = v4 /\ v7' = v7 /\ v11' = v11
        /\ v6' = [v6 EXCEPT ![v7] = @ + 1]
    BY DEF Rates!hook_connect, Rates!karmaVars, Rates!incr_concurrency, Moved
  <1>2. /\ v1' \in [rates.Conns -> States] /\ Counted' = Counted \cup {c} /\ Opened' = Opened \cup {c}
        /\ c \in Counted /\ c \notin Opened
        /\ Rates!LeftEarly' = {} => Rates!LeftEarly = {}
    BY <1>1, Movement DEF States
  <1>3. v6' \in [rates.Keys -> Nat]
    BY <1>1 DEF RatesInv, RatesTypes
  <1>4. Counted' = Counted
    BY <1>2
  <1>5. NoMoreThanAnswered'
    BY <1>1, <1>2, <1>4 DEF RatesInv, NoMoreThanAnswered
  <1>6. UnderOneKey'
    <2>. SUFFICES ASSUME v11 = 0
                  PROVE  /\ v6'[v7] <= Cardinality(Opened')
                         /\ \A k \in rates.Keys : k # v7 => v6'[k] = 0
      BY <1>1 DEF UnderOneKey
    <2>1. /\ v6[v7] <= Cardinality(Opened) /\ v7 \in rates.Keys /\ v6 \in [rates.Keys -> Nat]
          /\ \A k \in rates.Keys : k # v7 => v6[k] = 0
      BY DEF RatesInv, RatesTypes, UnderOneKey
    <2>2. IsFiniteSet(Opened) /\ Cardinality(Opened) \in Nat
      BY Finite
    <2>3. Cardinality(Opened') = Cardinality(Opened) + 1
      BY <1>2, <2>2, FS_AddElement
    <2>4. v6[v7] \in Nat /\ v6'[v7] = v6[v7] + 1
      BY <1>1, <2>1
    <2>5. v6'[v7] <= Cardinality(Opened')
      BY ONLY <2>1, <2>2, <2>3, <2>4
    <2>. QED
      BY <1>1, <2>1, <2>5
  <1>. QED
    BY <1>1, <1>2, <1>3, <1>5, <1>6 DEF RatesInv, RatesTypes

(* Its end is taken off both counts.                                       *)
LEMMA Disconnects ==
    ASSUME RatesAssumed, RatesInv, NEW c \in rates.Conns, Rates!hook_disconnect(c)
    PROVE  RatesInv'
  <1>1. /\ v1[c] \in {"asked", "known", "open"}
        /\ Moved(c, IF v1[c] = "asked" THEN "left" ELSE "gone")
        /\ v4' = v4 - 1 /\ v7' = v7 /\ v11' = v11
        /\ v6' = IF v6[v7] > 0 THEN [v6 EXCEPT ![v7] = @ - 1] ELSE v6
    BY DEF Rates!hook_disconnect, Rates!decr_concurrency, Moved
  <1>2. PICK to \in {"left", "gone"} : to = IF v1[c] = "asked" THEN "left" ELSE "gone"
    OBVIOUS
  <1>3. /\ v1' \in [rates.Conns -> States] /\ Opened' = Opened \ {c} /\ Counted' = Counted \ {c}
        /\ c \in Counted <=> v1[c] \in {"known", "open"}
        /\ Rates!LeftEarly' = {} => to = "gone" /\ Rates!LeftEarly = {}
    BY <1>1, <1>2, Movement DEF States
  <1>4. v7 \in rates.Keys /\ v6 \in [rates.Keys -> Nat] /\ v6[v7] \in Nat /\ v4 \in Int
    BY DEF RatesInv, RatesTypes
  <1>5. /\ v6' \in [rates.Keys -> Nat]
        /\ v6[v7] > 0 => v6'[v7] = v6[v7] - 1
        /\ v6[v7] = 0 => v6'[v7] = 0
        /\ \A k \in rates.Keys : k # v7 => v6'[k] = v6[k]
    <2>1. CASE v6[v7] > 0
      <3>1. v6[v7] - 1 \in Nat
        BY <1>4, <2>1
      <3>. QED
        BY <1>1, <1>4, <2>1, <3>1
    <2>2. CASE ~(v6[v7] > 0)
      <3>1. v6' = v6 /\ v6[v7] = 0
        BY <1>1, <1>4, <2>2
      <3>. QED
        BY <1>4, <2>2, <3>1
    <2>. QED
      BY <2>1, <2>2
  <1>6. NoMoreThanAnswered'
    <2>. SUFFICES ASSUME Rates!LeftEarly' = {} PROVE v4' <= Cardinality(Counted')
      BY DEF NoMoreThanAnswered
    <2>1. v4 <= Cardinality(Counted) /\ c \in Counted
      BY <1>1, <1>2, <1>3 DEF RatesInv, NoMoreThanAnswered
    <2>2. IsFiniteSet(Counted) /\ Cardinality(Counted) \in Nat
      BY Finite
    <2>3. Cardinality(Counted') = Cardinality(Counted) - 1
      BY <1>3, <2>1, <2>2, FS_RemoveElement
    <2>. QED
      BY ONLY <1>1, <1>4, <2>1, <2>2, <2>3
  <1>7. UnderOneKey'
    <2>. SUFFICES ASSUME v11 = 0
                  PROVE  /\ v6'[v7] <= Cardinality(Opened')
                         /\ \A k \in rates.Keys : k # v7 => v6'[k] = 0
      BY <1>1 DEF UnderOneKey
    <2>1. /\ v6[v7] <= Cardinality(Opened)
          /\ \A k \in rates.Keys : k # v7 => v6[k] = 0
      BY DEF RatesInv, UnderOneKey
    <2>2. IsFiniteSet(Opened) /\ Cardinality(Opened) \in Nat
      BY Finite
    <2>3. Cardinality(Opened') \in Nat /\ Cardinality(Opened') >= Cardinality(Opened) - 1
      <3>1. CASE c \in Opened
        <4>1. Cardinality(Opened') = Cardinality(Opened) - 1 /\ Cardinality(Opened') \in Nat
          BY <1>3, <2>2, <3>1, FS_RemoveElement, FS_CardinalityType
        <4>. QED
          BY ONLY <4>1, <2>2
      <3>2. CASE c \notin Opened
        <4>1. Opened' = Opened
          BY <1>3, <3>2
        <4>. QED
          BY <2>2, <4>1
      <3>. QED
        BY <3>1, <3>2
    <2>4. v6'[v7] <= Cardinality(Opened')
      BY ONLY <1>4, <1>5, <2>1, <2>2, <2>3
    <2>. QED
      BY <1>5, <2>1, <2>4
  <1>8. v4' \in Int
    BY <1>1, <1>4
  <1>. QED
    BY <1>1, <1>3, <1>4, <1>5, <1>6, <1>7, <1>8 DEF RatesInv, RatesTypes

(* The days of a penalty, the interval, redis, and an edit.                *)
LEMMA Otherwise ==
    ASSUME RatesAssumed, RatesInv,
           Rates!penalty_expires \/ Rates!clear_concurrency \/ Rates!expire \/ Rates!reload
    PROVE  RatesInv'
  <1>1. /\ v1' = v1 /\ v6' = v6 /\ (v4' = v4 \/ v4' = 0)
        /\ \/ v7' = v7 /\ v11' = v11
           \/ v7' \in rates.Keys /\ v11' = v11 + 1
    BY DEF Rates!penalty_expires, Rates!clear_concurrency, Rates!expire, Rates!reload,
           Rates!rateVars, Rates!karmaVars
  <1>2. Counted' = Counted /\ Opened' = Opened /\ Rates!LeftEarly' = Rates!LeftEarly
    BY <1>1 DEF Counted, Opened, Rates!LeftEarly
  <1>3. Cardinality(Counted) \in Nat
    BY Finite
  <1>4. RatesTypes'
    BY <1>1 DEF RatesInv, RatesTypes
  <1>5. NoMoreThanAnswered'
    BY <1>1, <1>2, <1>3 DEF RatesInv, NoMoreThanAnswered
  <1>6. UnderOneKey'
    <2>1. v11 \in Nat /\ (v11' = 0 => v11 = 0 /\ v7' = v7)
      BY <1>1 DEF RatesInv, RatesTypes
    <2>. QED
      BY <1>1, <1>2, <2>1 DEF RatesInv, UnderOneKey
  <1>. QED
    BY <1>4, <1>5, <1>6 DEF RatesInv

LEMMA RatesNext == ASSUME RatesAssumed, RatesInv, Rates!Next PROVE RatesInv'
  BY Asks, Answers, Connects, Disconnects, Otherwise DEF Rates!Next

LEMMA RatesPromise ==
    ASSUME RatesAssumed, RatesInv
    PROVE  Rates!CountsOpenOnly /\ Rates!LimitCountsOpen
  <1>1. Counted \subseteq Rates!Open /\ IsFiniteSet(Rates!Open) /\ IsFiniteSet(Counted)
    BY Finite DEF Counted, Rates!Open
  <1>2. /\ Cardinality(Counted) <= Cardinality(Rates!Open)
        /\ Cardinality(Counted) \in Nat /\ Cardinality(Rates!Open) \in Nat
        /\ Cardinality(Opened) \in Nat
    BY <1>1, FS_Subset, Finite
  <1>3. Rates!CountsOpenOnly
    <2>1. v4 \in Int /\ (Rates!LeftEarly = {} => v4 <= Cardinality(Counted))
      BY DEF RatesInv, RatesTypes, NoMoreThanAnswered
    <2>2. SUFFICES ASSUME v4 > Cardinality(Rates!Open), Rates!LeftEarly = {} PROVE FALSE
      BY CardinalityIs DEF Rates!CountsOpenOnly
    <2>. QED
      BY <1>2, <2>1, <2>2
  <1>4. Rates!LimitCountsOpen
    <2>0. Opened = {c \in rates.Conns : v1[c] = "open"}
      BY DEF Opened
    <2>. SUFFICES ASSUME v11 = 0, NEW k \in rates.Keys PROVE v6[k] <= Cardinality(Opened)
      BY <2>0, CardinalityIs DEF Rates!LimitCountsOpen
    <2>1. v6[v7] <= Cardinality(Opened) /\ (k # v7 => v6[k] = 0)
      BY DEF RatesInv, UnderOneKey
    <2>. QED
      BY <1>2, <2>1
  <1>. QED
    BY <1>3, <1>4
=============================================================================
