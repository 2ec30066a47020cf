------------------------ MODULE QueueLoader_proofs ------------------------
(***************************************************************************)
(* Theorems about QueueLoader for any mails, workers and deaths of them.   *)
(***************************************************************************)
EXTENDS QueueLoader, FiniteSetTheorems, SequenceTheorems, WellFoundedInduction, TLAPS

(* The hypothesis: no pid is used twice, and none is the All of            *)
(* load_queue().                                                           *)
Distinct ==
    /\ Workers \in Seq(Nat) /\ Len(Workers) > 0
    /\ Old \subseteq Nat /\ Spare \subseteq Nat /\ IsFiniteSet(Old)
    /\ Old \intersect Range_(Workers) = {}
    /\ Old \intersect Spare = {}
    /\ Spare \intersect Range_(Workers) = {}
    /\ All \notin Pids

File == [at : {"none", "dot", "final", "gone"}, pid : Pids \union {All}]
Op   == [mail : Mails, name : File, pid : Pids \union {All}]

TypeOK ==
    /\ file \in [Mails -> File]
    /\ told \in [Mails -> {"none", "waits", "ok", "deny", "served"}]
    /\ proc \in [Pids -> {"none", "up", "dead", "replaced"}]
    /\ messages \in [Pids -> SUBSET (Pids \union {All})]
    /\ ops \in [Pids -> SUBSET Op]
    /\ items \in [Pids -> [Mails -> {0, 1}]]

(* Only a process that is up has something to do; a mail that waits is     *)
(* being written by one; an item is one of a file in place, and a mail     *)
(* accepted is in place.                                                   *)
Alive ==
    /\ \A p \in Pids : ~Up(p) => messages[p] = {} /\ ops[p] = {}
    /\ \A m \in Mails :
          /\ told[m] = "waits" => file[m].at \in {"dot", "gone"} /\ Up(file[m].pid)
          /\ told[m] = "ok" => file[m].at = "final"
          /\ file[m].at # "none" => file[m].pid # All
    /\ \A p \in Pids, m \in Mails :
          items[p][m] > 0 => Up(p) /\ file[m].at = "final"
    /\ \A p \in Pids : \A op \in ops[p] :
          /\ op.name.at \in {"dot", "final"}
          /\ op.name.at = "final" => op.pid \in {All, op.name.pid}

(* In a cluster, the pids being loaded are those of processes that will    *)
(* not come back, and the files of mails in memory bear the pid of their   *)
(* process.                                                                *)
Past(p) == p \in Old \/ (p \in Pids /\ proc[p] = "replaced")

Clustered ==
    /\ \A p \in Pids, m \in Mails : items[p][m] > 0 => file[m].pid = p
    /\ \A p \in Pids : /\ \A q \in messages[p] : Past(q)
                       /\ \A op \in ops[p] : Past(op.pid)
    /\ \A p \in Old : ~Up(p)

(* Alone, a process reads the directory once, before it takes mail, and    *)
(* has one call for each file it found.                                    *)
Single ==
    /\ \A p \in Pids : (Up(p) => p = Workers[1]) /\ proc[p] # "dead"
    /\ \A p \in Pids : messages[p] \subseteq {All}
    /\ \A p \in Pids : messages[p] # {} =>
          /\ ops[p] = {}
          /\ \A m \in Mails : items[p][m] = 0 /\ told[m] # "waits"
    /\ \A p \in Pids : \A op \in ops[p] :
          /\ op.pid = All /\ told[op.mail] # "waits"
          /\ file[op.mail].at # "none"
          /\ file[op.mail] = op.name => items[p][op.mail] = 0
          /\ \A o \in ops[p] : o.mail = op.mail => o = op

Owned == TypeOK /\ Alive /\ (IF Cluster THEN Clustered ELSE Single) /\ NothingStranded
----------------------------------------------------------------------------
(* What the invariant says of one mail.                                    *)

LEMMA Solo ==
    ASSUME Owned, NEW m \in Mails, NEW p \in Pids, NEW q \in Pids,
           items[p][m] > 0, items[q][m] > 0
    PROVE  p = q /\ items[p][m] = 1
  <1>1. items[p][m] = 1
    BY DEF Owned, TypeOK
  <1>2. CASE Cluster
    BY <1>1, <1>2 DEF Owned, Clustered
  <1>3. CASE ~Cluster
    BY <1>1, <1>3 DEF Owned, Single, Alive
  <1>. QED
    BY <1>2, <1>3

LEMMA PidsAre ==
    ASSUME Distinct
    PROVE  Pids \subseteq Nat /\ All \notin Pids /\ Old \subseteq Pids
  <1>1. \A i \in DOMAIN Workers : Workers[i] \in Nat
    <2>1. Workers \in Seq(Nat) /\ DOMAIN Workers = 1..Len(Workers)
      BY DEF Distinct
    <2>. QED
      BY <2>1, ElementOfSeq
  <1>. QED
    BY <1>1 DEF Distinct, Pids, Range_

(* No process loads the files of one that is up.                           *)
LEMMA PastIsDown ==
    ASSUME Distinct, TypeOK, Clustered, NEW p, Past(p)
    PROVE  p \in Pids /\ ~Up(p) /\ p # All
  BY PidsAre DEF Past, Clustered, Up

----------------------------------------------------------------------------
(* The steps.                                                              *)

LEMMA process_delivery_Keeps ==
    ASSUME Distinct, ~EarlyMail \/ Cluster, Owned,
           NEW p \in Pids, NEW m \in Mails, process_delivery(p, m)
    PROVE  Owned'
  <1>. DEFINE new == [at |-> "dot", pid |-> p]
  <1>1. /\ Up(p) /\ file[m].at = "none"
        /\ Cluster \/ messages[p] = {}
        /\ file' = [file EXCEPT ![m] = new]
        /\ told' = [told EXCEPT ![m] = "waits"]
        /\ UNCHANGED <<proc, messages, ops, items, dropped>>
    BY DEF process_delivery
  <1>2. TypeOK /\ Alive /\ NothingStranded
    BY DEF Owned
  <1>3. /\ new \in File /\ new.at = "dot" /\ new.pid = p
    BY DEF File
  <1>. HIDE DEF new
  <1>4. /\ file'[m] = new /\ told'[m] = "waits"
        /\ \A n \in Mails : n # m => file'[n] = file[n] /\ told'[n] = told[n]
    BY <1>1, <1>2 DEF TypeOK
  <1>5. TypeOK'
    BY <1>1, <1>2, <1>3 DEF TypeOK
  <1>6. \A q \in Pids : ~(items[q][m] > 0)
    BY <1>1, <1>2 DEF Alive
  <1>7. Alive'
    BY <1>1, <1>2, <1>3, <1>4, <1>6, PidsAre DEF Alive, Up
  <1>8. ASSUME Cluster
        PROVE  Clustered'
    BY <1>1, <1>4, <1>6, <1>8 DEF Owned, Clustered, Past, Up
  <1>9. ASSUME ~Cluster
        PROVE  Single'
    <2>1. Single
      BY <1>9 DEF Owned
    <2>2. \A q \in Pids : messages[q] = {}
      BY <1>1, <1>2, <1>9, <2>1 DEF Single, Alive
    <2>3. \A q \in Pids : \A op \in ops[q] : op.mail # m /\ op.mail \in Mails
      BY <1>1, <1>2, <2>1 DEF Single, TypeOK, Op
    <2>. QED
      BY <1>1, <1>4, <2>1, <2>2, <2>3 DEF Single, Up
  <1>10. NothingStranded'
    <2>. SUFFICES ASSUME NEW n \in Mails, file'[n].at = "final"
                  PROVE  Loadable(n)'
      BY DEF NothingStranded
    <2>1. n # m /\ file'[n] = file[n]
      BY <1>3, <1>4
    <2>2. Loadable(n)
      BY <1>2, <2>1 DEF NothingStranded
    <2>. QED
      BY <1>1, <2>1, <2>2 DEF Loadable, Up
  <1>. QED
    BY <1>5, <1>7, <1>8, <1>9, <1>10 DEF Owned, Cluster

LEMMA ws_close_Keeps ==
    ASSUME Distinct, Owned, NEW m \in Mails, ws_close(m)
    PROVE  Owned'
  <1>1. told[m] = "waits" /\ UNCHANGED <<proc, messages, ops, dropped>>
    BY DEF ws_close
  <1>2. TypeOK /\ Alive /\ NothingStranded
    BY DEF Owned
  <1>3. CASE file[m].at # "dot"
    <2>1. told' = [told EXCEPT ![m] = "deny"] /\ UNCHANGED <<file, items>>
      BY <1>3 DEF ws_close
    <2>2. TypeOK'
      BY <1>1, <1>2, <2>1 DEF TypeOK
    <2>3. Alive'
      BY <1>1, <1>2, <2>1 DEF TypeOK, Alive, Up
    <2>4. Clustered => Clustered'
      BY <1>1, <2>1 DEF Clustered, Past, Up
    <2>5. Single => Single'
      BY <1>1, <1>2, <2>1 DEF Single, Up, TypeOK
    <2>6. NothingStranded'
      BY <1>1, <1>2, <2>1 DEF NothingStranded, Loadable, Up
    <2>. QED
      BY <2>2, <2>3, <2>4, <2>5, <2>6 DEF Owned, Cluster
  <1>4. CASE file[m].at = "dot"
    <2>. PICK p : p = file[m].pid
      OBVIOUS
    <2>1. /\ file' = [file EXCEPT ![m].at = "final"]
          /\ items' = [items EXCEPT ![p][m] = @ + 1]
          /\ told' = [told EXCEPT ![m] = "ok"]
      BY <1>4 DEF ws_close
    <2>2. Up(p) /\ p \in Pids
      <3>1. file[m] \in File
        BY <1>2 DEF TypeOK
      <3>. QED
        BY <1>1, <1>2, <1>4, <3>1 DEF Alive, File
    <2>3. /\ file'[m].at = "final" /\ file'[m].pid = p /\ file'[m] \in File
          /\ file'[m] # file[m]
      <3>1. file[m] \in File /\ file'[m] = [file[m] EXCEPT !.at = "final"]
        BY <1>2, <2>1 DEF TypeOK
      <3>. QED
        BY <1>4, <3>1 DEF File
    <2>4. /\ told'[m] = "ok" 
          /\ \A n \in Mails : n # m => file'[n] = file[n] /\ told'[n] = told[n]
      BY <1>2, <2>1 DEF TypeOK
    <2>5. \A q \in Pids : items[q][m] = 0
      <3>1. \A q \in Pids : items[q][m] \in {0, 1} /\ ~(items[q][m] > 0)
        BY <1>2, <1>4 DEF Alive, TypeOK
      <3>. QED
        BY <3>1
    <2>6. /\ items'[p][m] = 1
          /\ \A q \in Pids : q # p => items'[q] = items[q]
          /\ \A n \in Mails : n # m => items'[p][n] = items[p][n]
          /\ items' \in [Pids -> [Mails -> {0, 1}]]
      <3>1. items[p] \in [Mails -> {0, 1}]
        BY <1>2, <2>2 DEF TypeOK
      <3>2. items[p][m] + 1 = 1
        BY <2>2, <2>5
      <3>3. items'[p] = [items[p] EXCEPT ![m] = 1]
        BY <1>2, <2>1, <2>2, <3>2 DEF TypeOK
      <3>4. \A q \in Pids : q # p => items'[q] = items[q]
        BY <1>2, <2>1 DEF TypeOK
      <3>5. items'[p] \in [Mails -> {0, 1}]
        BY <3>1, <3>3
      <3>6. items' \in [Pids -> [Mails -> {0, 1}]]
        BY <1>2, <2>1, <3>4, <3>5 DEF TypeOK
      <3>. QED
        BY <3>1, <3>3, <3>4, <3>6
    <2>7. TypeOK'
      <3>1. file' \in [Mails -> File]
        BY <1>2, <2>1, <2>3, <2>4 DEF TypeOK
      <3>. QED
        BY <1>1, <1>2, <2>1, <2>6, <3>1 DEF TypeOK
    <2>8. \A q \in Pids, n \in Mails : n # m => items'[q][n] = items[q][n]
      BY <2>6
    <2>9. \A q \in Pids : items'[q][m] > 0 => q = p
      BY <2>5, <2>6
    <2>10. Alive'
      <3>1. p # All
        BY <2>2, PidsAre
      <3>2. \A q \in Pids, n \in Mails :
               items'[q][n] > 0 => Up(q)' /\ file'[n].at = "final"
        BY <1>1, <1>2, <2>2, <2>3, <2>4, <2>8, <2>9 DEF Alive, Up
      <3>3. \A n \in Mails :
               /\ told'[n] = "waits" => file'[n].at \in {"dot", "gone"} /\ Up(file[n].pid)'
               /\ told'[n] = "ok" => file'[n].at = "final"
               /\ file'[n].at # "none" => file'[n].pid # All
        BY <1>1, <1>2, <2>3, <2>4, <3>1 DEF Alive, Up
      <3>. QED
        BY <1>1, <1>2, <2>4, <3>2, <3>3 DEF Alive, Up
    <2>11. ASSUME Clustered
           PROVE  Clustered'
      BY <1>1, <2>3, <2>4, <2>8, <2>9, <2>11 DEF Clustered, Past, Up
    <2>12. ASSUME Single
           PROVE  Single'
      <3>1. \A q \in Pids : messages[q] = {}
        BY <1>1, <2>12 DEF Single
      <3>2. \A q \in Pids : \A op \in ops[q] : op.mail # m /\ op.mail \in Mails
        BY <1>1, <1>2, <2>12 DEF Single, TypeOK, Op
      <3>. QED
        BY <1>1, <2>4, <2>8, <2>12, <3>1, <3>2 DEF Single, Up
    <2>13. NothingStranded'
      <3>. SUFFICES ASSUME NEW n \in Mails, file'[n].at = "final"
                    PROVE  Loadable(n)'
        BY DEF NothingStranded
      <3>1. CASE n = m
        BY <1>1, <2>2, <2>6, <3>1 DEF Loadable, Up
      <3>2. CASE n # m
        <4>1. Loadable(n) /\ file'[n] = file[n]
          BY <1>2, <2>4, <3>2 DEF NothingStranded
        <4>. QED
          BY <1>1, <2>8, <3>2, <4>1 DEF Loadable, Up
      <3>. QED
        BY <3>1, <3>2
    <2>. QED
      BY <2>7, <2>10, <2>11, <2>12, <2>13 DEF Owned, Cluster
  <1>. QED
    BY <1>3, <1>4

(* The mail is served, and no process has it any more.                     *)
LEMMA delivered_Keeps ==
    ASSUME Distinct, Owned, NEW p \in Pids, NEW m \in Mails, delivered(p, m)
    PROVE  Owned'
  <1>1. /\ Up(p) /\ items[p][m] > 0
        /\ file' = [file EXCEPT ![m].at = "gone"]
        /\ items' = [items EXCEPT ![p][m] = @ - 1]
        /\ told' = [told EXCEPT ![m] = "served"]
        /\ UNCHANGED <<proc, messages, ops, dropped>>
    BY DEF delivered
  <1>2. TypeOK /\ Alive /\ NothingStranded
    BY DEF Owned
  <1>3. /\ file'[m].at = "gone" /\ file'[m].pid = file[m].pid /\ file'[m] \in File
        /\ file'[m] # file[m]
    <2>1. file[m] \in File /\ file'[m] = [file[m] EXCEPT !.at = "gone"]
      BY <1>1, <1>2 DEF TypeOK
    <2>2. file[m].at = "final"
      BY <1>1, <1>2 DEF Alive
    <2>. QED
      BY <2>1, <2>2 DEF File
  <1>4. /\ told'[m] = "served"
        /\ \A n \in Mails : n # m => file'[n] = file[n] /\ told'[n] = told[n]
    BY <1>1, <1>2 DEF TypeOK
  <1>5. \A q \in Pids : q # p => items[q][m] = 0
    <2>1. \A q \in Pids : items[q][m] \in {0, 1} /\ (items[q][m] > 0 => q = p)
      BY <1>1, <1>2, Solo DEF TypeOK
    <2>. QED
      BY <2>1
  <1>6. /\ items'[p][m] = 0
        /\ \A q \in Pids : q # p => items'[q] = items[q]
        /\ \A n \in Mails : n # m => items'[p][n] = items[p][n]
        /\ items' \in [Pids -> [Mails -> {0, 1}]]
    <2>1. items[p] \in [Mails -> {0, 1}]
      BY <1>2 DEF TypeOK
    <2>2. items[p][m] - 1 = 0
      BY <1>1, <2>1
    <2>3. items'[p] = [items[p] EXCEPT ![m] = 0]
      BY <1>1, <1>2, <2>2 DEF TypeOK
    <2>4. \A q \in Pids : q # p => items'[q] = items[q]
      BY <1>1, <1>2 DEF TypeOK
    <2>5. items'[p] \in [Mails -> {0, 1}]
      BY <2>1, <2>3
    <2>6. items' \in [Pids -> [Mails -> {0, 1}]]
      BY <1>1, <1>2, <2>4, <2>5 DEF TypeOK
    <2>. QED
      BY <2>1, <2>3, <2>4, <2>6
  <1>7. /\ \A q \in Pids : items'[q][m] = 0
        /\ \A q \in Pids, n \in Mails : n # m => items'[q][n] = items[q][n]
    BY <1>5, <1>6
  <1>8. TypeOK'
    <2>1. file' \in [Mails -> File]
      BY <1>1, <1>2, <1>3, <1>4 DEF TypeOK
    <2>. QED
      BY <1>1, <1>2, <1>6, <2>1 DEF TypeOK
  <1>9. Alive'
    <2>1. \A q \in Pids, n \in Mails :
             items'[q][n] > 0 => Up(q)' /\ file'[n].at = "final"
      BY <1>1, <1>2, <1>4, <1>7 DEF Alive, Up
    <2>2. \A n \in Mails :
             /\ told'[n] = "waits" => file'[n].at \in {"dot", "gone"} /\ Up(file[n].pid)'
             /\ told'[n] = "ok" => file'[n].at = "final"
             /\ file'[n].at # "none" => file'[n].pid # All
      <3>1. file[m].at = "final"
        BY <1>1, <1>2 DEF Alive
      <3>. QED
        BY <1>1, <1>2, <1>3, <1>4, <3>1 DEF Alive, Up
    <2>. QED
      BY <1>1, <1>2, <1>4, <2>1, <2>2 DEF Alive, Up
  <1>10. ASSUME Clustered
         PROVE  Clustered'
    BY <1>1, <1>4, <1>7, <1>10 DEF Clustered, Past, Up
  <1>11. ASSUME Single
         PROVE  Single'
    <2>1. \A q \in Pids : messages'[q] # {} =>
             /\ ops'[q] = {}
             /\ \A n \in Mails : items'[q][n] = 0 /\ told'[n] # "waits"
      BY <1>1, <1>4, <1>7, <1>11 DEF Single
    <2>2. \A q \in Pids : \A op \in ops[q] : op.mail \in Mails
      BY <1>2 DEF TypeOK, Op
    <2>3. \A q \in Pids : \A op \in ops'[q] :
             /\ op.pid = All /\ told'[op.mail] # "waits"
             /\ file'[op.mail].at # "none"
             /\ file'[op.mail] = op.name => items'[q][op.mail] = 0
             /\ \A o \in ops'[q] : o.mail = op.mail => o = op
      BY <1>1, <1>3, <1>4, <1>7, <1>11, <2>2 DEF Single
    <2>. QED
      BY <1>1, <1>11, <2>1, <2>3 DEF Single, Up
  <1>12. NothingStranded'
    <2>. SUFFICES ASSUME NEW n \in Mails, file'[n].at = "final"
                  PROVE  Loadable(n)'
      BY DEF NothingStranded
    <2>1. n # m
      BY <1>3
    <2>2. Loadable(n) /\ file'[n] = file[n]
      BY <1>2, <1>4, <2>1 DEF NothingStranded
    <2>. QED
      BY <1>1, <1>7, <2>1, <2>2 DEF Loadable, Up
  <1>. QED
    BY <1>8, <1>9, <1>10, <1>11, <1>12 DEF Owned, Cluster

(* The directory is read for one pid.                                      *)
LEMMA load_queue_Keeps ==
    ASSUME Distinct, Owned, NEW p \in Pids, load_queue(p)
    PROVE  Owned'
  <1>1. Up(p) /\ UNCHANGED <<file, told, proc, items, dropped>>
    BY DEF load_queue
  <1>2. TypeOK /\ Alive /\ NothingStranded
    BY DEF Owned
  <1>3. PICK pid \in messages[p] :
          /\ messages' = [messages EXCEPT ![p] = @ \ {pid}]
          /\ ops' = [ops EXCEPT ![p] = @ \union
                        {[mail |-> m, name |-> file[m], pid |-> pid] : m \in Concerned(pid)}]
    BY DEF load_queue
  <1>. PICK new : new = {[mail |-> m, name |-> file[m], pid |-> pid] : m \in Concerned(pid)}
    OBVIOUS
  <1>4. pid \in Pids \union {All} /\ messages[p] \subseteq Pids \union {All}
    BY <1>2 DEF TypeOK
  <1>5. \A op \in new : /\ op \in Op /\ op.name = file[op.mail] /\ op.pid = pid
                        /\ op.mail \in Concerned(pid)
    <2>1. \A m \in Concerned(pid) : m \in Mails /\ file[m] \in File
      BY <1>2 DEF Concerned, TypeOK
    <2>. QED
      BY <1>4, <2>1 DEF Op
  <1>6. \A m \in Concerned(pid) : \E op \in new : op.mail = m /\ op.name = file[m]
    <2>1. \A m \in Concerned(pid) : [mail |-> m, name |-> file[m], pid |-> pid] \in new
      OBVIOUS
    <2>. QED
      BY <2>1
  <1>7. /\ messages'[p] = messages[p] \ {pid} /\ ops'[p] = ops[p] \union new
        /\ \A q \in Pids : q # p => messages'[q] = messages[q] /\ ops'[q] = ops[q]
    BY <1>2, <1>3 DEF TypeOK
  <1>8. TypeOK'
    <2>1. messages' \in [Pids -> SUBSET (Pids \union {All})]
      BY <1>2, <1>3, <1>4 DEF TypeOK
    <2>2. ops[p] \subseteq Op /\ new \subseteq Op
      BY <1>2, <1>5 DEF TypeOK
    <2>3. ops' \in [Pids -> SUBSET Op]
      BY <1>2, <1>3, <2>2 DEF TypeOK
    <2>. QED
      BY <1>1, <1>2, <2>1, <2>3 DEF TypeOK
  <1>9. Alive'
    <2>1. \A q \in Pids : ~Up(q)' => messages'[q] = {} /\ ops'[q] = {}
      BY <1>1, <1>2, <1>7 DEF Alive, Up
    <2>2. \A op \in new : /\ op.name.at \in {"dot", "final"}
                          /\ op.name.at = "final" => op.pid \in {All, op.name.pid}
      BY <1>5 DEF Concerned, Exists
    <2>3. \A q \in Pids : \A op \in ops'[q] :
             /\ op.name.at \in {"dot", "final"}
             /\ op.name.at = "final" => op.pid \in {All, op.name.pid}
      BY <1>2, <1>7, <2>2 DEF Alive
    <2>. QED
      BY <1>1, <1>2, <2>1, <2>3 DEF Alive, Up
  <1>10. ASSUME Clustered
         PROVE  Clustered'
    <2>1. Past(pid)
      BY <1>10 DEF Clustered
    <2>2. \A q : Past(q)' <=> Past(q)
      BY <1>1 DEF Past
    <2>3. \A q \in Pids : /\ \A r \in messages'[q] : Past(r)
                          /\ \A op \in ops'[q] : Past(op.pid)
      BY <1>5, <1>7, <1>10, <2>1 DEF Clustered
    <2>. QED
      BY <1>1, <1>10, <2>2, <2>3 DEF Clustered, Up
  <1>11. ASSUME Single
         PROVE  Single'
    <2>1. pid = All /\ messages'[p] = {}
      BY <1>7, <1>11 DEF Single
    <2>2. ops[p] = {} /\ \A m \in Mails : items[p][m] = 0 /\ told[m] # "waits"
      BY <1>11 DEF Single
    <2>3. \A q \in Pids : q # p => messages[q] = {} /\ ops[q] = {}
      BY <1>1, <1>2, <1>11 DEF Single, Alive
    <2>4. ops'[p] = new /\ \A q \in Pids : q # p => ops'[q] = {} /\ messages'[q] = {}
      BY <1>7, <2>2, <2>3
    <2>5. \A op \in new : \A o \in new : o.mail = op.mail => o = op
      OBVIOUS
    <2>6. \A op \in new : op.mail \in Mails /\ file[op.mail].at # "none"
      BY <1>5 DEF Concerned, Exists
    <2>7. \A op \in new :
             /\ op.pid = All /\ told[op.mail] # "waits"
             /\ file[op.mail].at # "none"
             /\ items[p][op.mail] = 0
             /\ \A o \in new : o.mail = op.mail => o = op
      BY <1>5, <2>1, <2>2, <2>5, <2>6
    <2>8. \A q \in Pids : messages'[q] = {}
      BY <2>1, <2>4
    <2>9. \A q \in Pids : \A op \in ops'[q] : q = p /\ op \in new
      BY <2>4
    <2>. QED
      BY <1>1, <1>11, <2>4, <2>7, <2>8, <2>9 DEF Single, Up
  <1>12. NothingStranded'
    <2>. SUFFICES ASSUME NEW n \in Mails, file[n].at = "final"
                  PROVE  Loadable(n)'
      BY <1>1 DEF NothingStranded
    <2>1. Loadable(n)
      BY <1>2 DEF NothingStranded
    <2>2. CASE pid \in {All, file[n].pid}
      <3>1. n \in Concerned(pid)
        BY <2>2 DEF Concerned, Exists
      <3>2. \E op \in ops'[p] : op.mail = n /\ op.name = file[n]
        BY <1>6, <1>7, <3>1
      <3>. QED
        BY <1>1, <3>2 DEF Loadable, Up
    <2>3. CASE pid \notin {All, file[n].pid}
      <3>1. \A q \in Pids : {All, file[n].pid} \intersect messages[q] # {} =>
                            {All, file[n].pid} \intersect messages'[q] # {}
        BY <1>7, <2>3
      <3>2. \A q \in Pids : ops[q] \subseteq ops'[q]
        BY <1>7
      <3>. QED
        BY <1>1, <2>1, <3>1, <3>2 DEF Loadable, Up
    <2>. QED
      BY <2>2, <2>3
  <1>. QED
    BY <1>8, <1>9, <1>10, <1>11, <1>12 DEF Owned, Cluster

(* One file: skipped, removed, or renamed and taken over.                  *)
LEMMA load_queue_files_Keeps ==
    ASSUME Distinct, Owned, NEW p \in Pids, load_queue_files(p)
    PROVE  Owned'
  <1>1. Up(p) /\ UNCHANGED <<told, proc, messages, dropped>>
    BY DEF load_queue_files
  <1>2. TypeOK /\ Alive /\ NothingStranded
    BY DEF Owned
  <1>3. PICK op \in ops[p] :
          /\ ops' = [ops EXCEPT ![p] = @ \ {op}]
          /\ IF file[op.mail] # op.name THEN UNCHANGED <<file, items>>
             ELSE IF op.name.at = "dot"
             THEN file' = [file EXCEPT ![op.mail].at = "gone"] /\ UNCHANGED items
             ELSE /\ file' = [file EXCEPT ![op.mail].pid = IF op.pid = All THEN @ ELSE p]
                  /\ items' = [items EXCEPT ![p][op.mail] = @ + 1]
    BY DEF load_queue_files
  <1>. PICK m : m = op.mail
    OBVIOUS
  <1>4. /\ op \in Op /\ m \in Mails /\ op.name \in File
        /\ op.name.at \in {"dot", "final"}
        /\ op.name.at = "final" => op.pid \in {All, op.name.pid}
    BY <1>2, <1>3 DEF TypeOK, Alive, Op
  <1>5. /\ ops'[p] = ops[p] \ {op}
        /\ \A q \in Pids : q # p => ops'[q] = ops[q]
        /\ \A q \in Pids : ops'[q] \subseteq ops[q]
        /\ ops' \in [Pids -> SUBSET Op]
    BY <1>2, <1>3 DEF TypeOK
  <1>6. CASE file[m] # op.name
    <2>1. UNCHANGED <<file, items>>
      BY <1>3, <1>6
    <2>2. TypeOK'
      BY <1>1, <1>2, <1>5, <2>1 DEF TypeOK
    <2>3. Alive'
      BY <1>1, <1>2, <1>5, <2>1 DEF Alive, Up
    <2>4. Clustered => Clustered'
      BY <1>1, <1>5, <2>1 DEF Clustered, Past, Up
    <2>5. Single => Single'
      BY <1>1, <1>5, <2>1 DEF Single, Up
    <2>6. NothingStranded'
      <3>. SUFFICES ASSUME NEW n \in Mails, file[n].at = "final"
                    PROVE  Loadable(n)'
        BY <2>1 DEF NothingStranded
      <3>1. Loadable(n)
        BY <1>2 DEF NothingStranded
      <3>2. \A q \in Pids : \A o \in ops[q] :
               o.mail = n /\ o.name = file[n] => o \in ops'[q]
        BY <1>5, <1>6
      <3>. QED
        BY <1>1, <2>1, <3>1, <3>2 DEF Loadable, Up
    <2>. QED
      BY <2>2, <2>3, <2>4, <2>5, <2>6 DEF Owned, Cluster
  <1>7. CASE file[m] = op.name /\ op.name.at = "dot"
    <2>1. file' = [file EXCEPT ![m].at = "gone"] /\ UNCHANGED items
      BY <1>3, <1>7
    <2>2. /\ file'[m].at = "gone" /\ file'[m].pid = file[m].pid /\ file'[m] \in File
          /\ \A n \in Mails : n # m => file'[n] = file[n]
      <3>1. file'[m] = [file[m] EXCEPT !.at = "gone"]
        BY <1>2, <1>4, <2>1 DEF TypeOK
      <3>. QED
        BY <1>2, <1>4, <1>7, <2>1, <3>1 DEF File, TypeOK
    <2>3. TypeOK'
      <3>1. file' \in [Mails -> File]
        BY <1>2, <2>1, <2>2 DEF TypeOK
      <3>. QED
        BY <1>1, <1>2, <1>5, <2>1, <3>1 DEF TypeOK
    <2>4. Alive'
      <3>1. \A n \in Mails :
               /\ told[n] = "waits" => file'[n].at \in {"dot", "gone"} /\ Up(file'[n].pid)
               /\ told[n] = "ok" => file'[n].at = "final"
               /\ file'[n].at # "none" => file'[n].pid # All
        BY <1>2, <1>7, <2>2 DEF Alive
      <3>2. \A q \in Pids, n \in Mails :
               items[q][n] > 0 => Up(q) /\ file'[n].at = "final"
        BY <1>2, <1>7, <2>2 DEF Alive
      <3>. QED
        BY <1>1, <1>2, <1>5, <2>1, <3>1, <3>2 DEF Alive, Up
    <2>5. \A q \in Pids : ~(items[q][m] > 0) /\ items[q][m] = 0
      <3>1. \A q \in Pids : items[q][m] \in {0, 1} /\ ~(items[q][m] > 0)
        BY <1>2, <1>4, <1>7 DEF Alive, TypeOK
      <3>. QED
        BY <3>1
    <2>6. Clustered => Clustered'
      BY <1>1, <1>5, <2>1, <2>2, <2>5 DEF Clustered, Past, Up
    <2>7. ASSUME Single
          PROVE  Single'
      <3>1. \A q \in Pids : \A o \in ops'[q] :
               /\ file'[o.mail].at # "none"
               /\ file'[o.mail] = o.name => items[q][o.mail] = 0
        <4>1. \A q \in Pids : \A o \in ops'[q] : o \in ops[q] /\ o.mail \in Mails
          BY <1>2, <1>5 DEF TypeOK, Op
        <4>. QED
          BY <2>2, <2>5, <2>7, <4>1 DEF Single
      <3>. QED
        BY <1>1, <1>5, <2>1, <2>7, <3>1 DEF Single, Up
    <2>8. NothingStranded'
      <3>. SUFFICES ASSUME NEW n \in Mails, file'[n].at = "final"
                    PROVE  Loadable(n)'
        BY DEF NothingStranded
      <3>1. n # m /\ file'[n] = file[n] /\ Loadable(n)
        BY <1>2, <2>2 DEF NothingStranded
      <3>2. \A q \in Pids : \A o \in ops[q] :
               o.mail = n /\ o.name = file[n] => o \in ops'[q]
        BY <1>5, <3>1
      <3>. QED
        BY <1>1, <2>1, <3>1, <3>2 DEF Loadable, Up
    <2>. QED
      BY <2>3, <2>4, <2>6, <2>7, <2>8 DEF Owned, Cluster
  <1>8. CASE file[m] = op.name /\ op.name.at = "final"
    <2>1. /\ file' = [file EXCEPT ![m].pid = IF op.pid = All THEN @ ELSE p]
          /\ items' = [items EXCEPT ![p][m] = @ + 1]
      BY <1>3, <1>8
    <2>2. /\ file'[m].at = "final" /\ file'[m] \in File /\ file'[m].pid # All
          /\ op.pid # All => file'[m].pid = p
          /\ op.pid = All => file'[m] = file[m]
          /\ \A n \in Mails : n # m => file'[n] = file[n]
      <3>1. file'[m] = [file[m] EXCEPT !.pid = IF op.pid = All THEN @ ELSE p]
        BY <1>2, <1>4, <2>1 DEF TypeOK
      <3>2. file[m].pid # All /\ p # All
        BY <1>2, <1>4, <1>8, PidsAre DEF Alive
      <3>. QED
        BY <1>2, <1>4, <1>8, <2>1, <3>1, <3>2 DEF File, TypeOK
    <2>3. Cluster => op.pid # All /\ ~Up(file[m].pid) /\ op.pid = file[m].pid
      <3>. SUFFICES ASSUME Cluster
                    PROVE  op.pid # All /\ ~Up(file[m].pid) /\ op.pid = file[m].pid
        OBVIOUS
      <3>1. Clustered /\ Past(op.pid)
        BY <1>3 DEF Owned, Clustered
      <3>. QED
        BY <1>2, <1>4, <1>8, <3>1, PastIsDown
    <2>4. ASSUME NEW q \in Pids
          PROVE  items[q][m] = 0
      <3>1. items[q][m] \in {0, 1} /\ (items[q][m] > 0 => Up(q))
        BY <1>2, <1>4 DEF TypeOK, Alive
      <3>2. ~(items[q][m] > 0)
        <4>1. CASE Cluster
          BY <2>3, <3>1, <4>1, <1>4 DEF Owned, Clustered
        <4>2. CASE ~Cluster
          <5>1. Single
            BY <4>2 DEF Owned
          <5>2. items[p][m] = 0
            BY <1>3, <1>8, <5>1 DEF Single
          <5>3. Up(q) => q = p
            BY <1>1, <5>1 DEF Single
          <5>. QED
            BY <3>1, <5>2, <5>3
        <4>. QED
          BY <4>1, <4>2
      <3>. QED
        BY <3>1, <3>2
    <2>5. /\ items'[p][m] = 1
          /\ \A q \in Pids : q # p => items'[q] = items[q]
          /\ \A n \in Mails : n # m => items'[p][n] = items[p][n]
          /\ items' \in [Pids -> [Mails -> {0, 1}]]
      <3>1. items[p] \in [Mails -> {0, 1}]
        BY <1>2 DEF TypeOK
      <3>2. items[p][m] + 1 = 1
        BY <2>4
      <3>3. items'[p] = [items[p] EXCEPT ![m] = 1]
        BY <1>2, <2>1, <3>2 DEF TypeOK
      <3>4. \A q \in Pids : q # p => items'[q] = items[q]
        BY <1>2, <2>1 DEF TypeOK
      <3>5. items'[p] \in [Mails -> {0, 1}]
        BY <3>1, <3>3
      <3>6. items' \in [Pids -> [Mails -> {0, 1}]]
        BY <1>2, <2>1, <3>4, <3>5 DEF TypeOK
      <3>. QED
        BY <1>4, <3>1, <3>3, <3>4, <3>6
    <2>6. /\ \A q \in Pids, n \in Mails : n # m => items'[q][n] = items[q][n]
          /\ \A q \in Pids : items'[q][m] > 0 => q = p
      BY <2>4, <2>5
    <2>7. TypeOK'
      <3>1. file' \in [Mails -> File]
        BY <1>2, <2>1, <2>2 DEF TypeOK
      <3>. QED
        BY <1>1, <1>2, <1>5, <2>5, <3>1 DEF TypeOK
    <2>8. Alive'
      <3>1. \A n \in Mails :
               /\ told[n] = "waits" => file'[n].at \in {"dot", "gone"} /\ Up(file'[n].pid)
               /\ told[n] = "ok" => file'[n].at = "final"
               /\ file'[n].at # "none" => file'[n].pid # All
        BY <1>2, <1>8, <2>2 DEF Alive
      <3>2. \A q \in Pids, n \in Mails :
               items'[q][n] > 0 => Up(q) /\ file'[n].at = "final"
        BY <1>1, <1>2, <2>2, <2>6 DEF Alive
      <3>. QED
        BY <1>1, <1>2, <1>5, <3>1, <3>2 DEF Alive, Up
    <2>9. ASSUME Cluster
          PROVE  Clustered'
      <3>1. Clustered /\ file'[m].pid = p
        BY <2>2, <2>3, <2>9 DEF Owned
      <3>. QED
        BY <1>1, <1>5, <2>2, <2>6, <3>1 DEF Clustered, Past, Up
    <2>10. ASSUME ~Cluster
           PROVE  Single'
      <3>1. Single
        BY <2>10 DEF Owned
      <3>2. \A q \in Pids : messages[q] = {}
        <4>1. messages[p] = {}
          BY <1>3, <3>1 DEF Single
        <4>. QED
          BY <1>1, <1>2, <3>1, <4>1 DEF Single, Alive
      <3>3. \A q \in Pids : \A o \in ops'[q] : o \in ops[q] /\ q = p /\ o # op /\ o.mail # m
        <4>1. \A q \in Pids : q # p => ops[q] = {}
          BY <1>1, <1>2, <3>1 DEF Single, Alive
        <4>. QED
          BY <1>3, <1>5, <3>1, <4>1 DEF Single
      <3>4. \A q \in Pids : \A o \in ops'[q] :
               /\ file'[o.mail].at # "none"
               /\ file'[o.mail] = o.name => items'[q][o.mail] = 0
        <4>1. \A q \in Pids : \A o \in ops'[q] : o.mail \in Mails
          BY <1>2, <1>5 DEF TypeOK, Op
        <4>. QED
          BY <2>2, <2>6, <3>1, <3>3, <4>1 DEF Single
      <3>. QED
        BY <1>1, <1>5, <3>1, <3>2, <3>4 DEF Single, Up
    <2>11. NothingStranded'
      <3>. SUFFICES ASSUME NEW n \in Mails, file'[n].at = "final"
                    PROVE  Loadable(n)'
        BY DEF NothingStranded
      <3>1. CASE n = m
        BY <1>1, <2>5, <3>1 DEF Loadable, Up
      <3>2. CASE n # m
        <4>1. file'[n] = file[n] /\ Loadable(n)
          BY <1>2, <2>2, <3>2 DEF NothingStranded
        <4>2. \A q \in Pids : \A o \in ops[q] : o.mail = n => o \in ops'[q]
          BY <1>5, <3>2
        <4>. QED
          BY <1>1, <2>6, <3>2, <4>1, <4>2 DEF Loadable, Up
      <3>. QED
        BY <3>1, <3>2
    <2>. QED
      BY <2>7, <2>8, <2>9, <2>10, <2>11 DEF Owned, Cluster
  <1>. QED
    BY <1>4, <1>6, <1>7, <1>8

(* A worker dies: its files bear its pid, which its successor is sent.     *)
LEMMA crash_Keeps ==
    ASSUME Distinct, Owned, NEW p \in Pids, crash(p)
    PROVE  Owned'
  <1>1. /\ Cluster /\ Up(p)
        /\ proc' = [proc EXCEPT ![p] = "dead"]
        /\ dropped' = dropped \union messages[p] \union {op.pid : op \in ops[p]}
        /\ messages' = [messages EXCEPT ![p] = {}]
        /\ ops' = [ops EXCEPT ![p] = {}]
        /\ items' = [items EXCEPT ![p] = [m \in Mails |-> 0]]
        /\ told' = [m \in Mails |-> IF told[m] = "waits" /\ file[m].pid = p THEN "none" ELSE told[m]]
        /\ UNCHANGED file
    BY DEF crash
  <1>2. TypeOK /\ Alive /\ Clustered /\ NothingStranded
    BY <1>1 DEF Owned
  <1>3. /\ proc'[p] = "dead" /\ messages'[p] = {} /\ ops'[p] = {}
        /\ \A m \in Mails : items'[p][m] = 0
        /\ \A q \in Pids : q # p => /\ proc'[q] = proc[q] /\ messages'[q] = messages[q]
                                    /\ ops'[q] = ops[q] /\ items'[q] = items[q]
        /\ \A m \in Mails : \/ told'[m] = told[m]
                            \/ told'[m] = "none"
        /\ \A m \in Mails : told'[m] = "waits" => told[m] = "waits" /\ file[m].pid # p
    BY <1>1, <1>2 DEF TypeOK
  <1>4. TypeOK'
    <2>1. [m \in Mails |-> 0] \in [Mails -> {0, 1}]
      OBVIOUS
    <2>2. items' \in [Pids -> [Mails -> {0, 1}]]
      BY <1>1, <1>2, <2>1 DEF TypeOK
    <2>3. told' \in [Mails -> {"none", "waits", "ok", "deny", "served"}]
      BY <1>1, <1>2 DEF TypeOK
    <2>. QED
      BY <1>1, <1>2, <2>2, <2>3 DEF TypeOK
  <1>5. Alive'
    <2>1. \A q \in Pids : ~(proc'[q] = "up") => messages'[q] = {} /\ ops'[q] = {}
      BY <1>2, <1>3 DEF Alive, Up
    <2>2. \A m \in Mails :
             /\ told'[m] = "waits" => file[m].at \in {"dot", "gone"} /\ proc'[file[m].pid] = "up"
             /\ told'[m] = "ok" => file[m].at = "final"
             /\ file[m].at # "none" => file[m].pid # All
      <3>1. \A m \in Mails : file[m].pid \in Pids \/ file[m].pid = All
        BY <1>2 DEF TypeOK, File
      <3>2. \A m \in Mails : told[m] = "waits" => file[m].pid \in Pids
        BY <1>2, <3>1 DEF Alive
      <3>. QED
        BY <1>2, <1>3, <3>2 DEF Alive, Up
    <2>3. \A q \in Pids, m \in Mails :
             items'[q][m] > 0 => proc'[q] = "up" /\ file[m].at = "final"
      BY <1>2, <1>3 DEF Alive, Up
    <2>4. \A q \in Pids : ops'[q] \subseteq ops[q]
      BY <1>3
    <2>. QED
      BY <1>1, <1>2, <2>1, <2>2, <2>3, <2>4 DEF Alive, Up
  <1>6. Clustered'
    <2>1. \A q : Past(q) => Past(q)'
      BY <1>1, <1>3 DEF Past, Up
    <2>2. \A q \in Pids : /\ messages'[q] \subseteq messages[q] /\ ops'[q] \subseteq ops[q]
                          /\ \A m \in Mails : items'[q][m] > 0 => items[q][m] > 0
                          /\ Up(q)' => Up(q)
      BY <1>1, <1>3 DEF Up
    <2>3. Old \subseteq Pids
      BY PidsAre
    <2>. QED
      BY <1>1, <1>2, <2>1, <2>2, <2>3 DEF Clustered
  <1>7. NothingStranded'
    <2>. SUFFICES ASSUME NEW m \in Mails, file[m].at = "final"
                  PROVE  Loadable(m)'
      BY <1>1 DEF NothingStranded
    <2>. DEFINE pid == file[m].pid
    <2>1. Loadable(m)
      BY <1>2 DEF NothingStranded
    <2>2. CASE \E q \in Pids \ {p} : /\ Up(q)
                                     /\ \/ items[q][m] > 0
                                        \/ {All, pid} \intersect messages[q] # {}
                                        \/ \E op \in ops[q] : op.mail = m /\ op.name = file[m]
      BY <1>1, <1>3, <2>2 DEF Loadable, Up
    <2>3. CASE items[p][m] > 0
      <3>1. pid = p
        BY <1>2, <2>3 DEF Clustered
      <3>. QED
        BY <1>1, <1>3, <3>1 DEF Loadable
    <2>4. CASE {All, pid} \intersect messages[p] # {}
      <3>1. All \notin messages[p]
        BY <1>2, PastIsDown DEF Clustered
      <3>2. pid \in messages[p]
        BY <2>4, <3>1
      <3>3. pid \in dropped'
        BY <1>1, <3>2
      <3>. QED
        BY <1>1, <3>3 DEF Loadable
    <2>5. CASE \E op \in ops[p] : op.mail = m /\ op.name = file[m]
      <3>1. PICK op \in ops[p] : op.mail = m /\ op.name = file[m]
        BY <2>5
      <3>2. op.pid \in {All, pid}
        BY <1>2, <3>1 DEF Alive
      <3>3. op.pid # All
        BY <1>2, PastIsDown DEF Clustered
      <3>4. pid \in dropped'
        BY <1>1, <3>2, <3>3
      <3>. QED
        BY <1>1, <3>4 DEF Loadable
    <2>6. CASE proc[pid] = "dead"
      <3>0. pid \in Pids
        BY <1>2 DEF TypeOK, File, Alive
      <3>1. proc'[pid] = "dead"
        BY <1>3, <2>6, <3>0
      <3>. QED
        BY <1>1, <3>1 DEF Loadable
    <2>7. CASE pid \in dropped
      BY <1>1, <2>7 DEF Loadable
    <2>. QED
      BY <2>1, <2>2, <2>3, <2>4, <2>5, <2>6, <2>7 DEF Loadable
  <1>. QED
    BY <1>1, <1>4, <1>5, <1>6, <1>7 DEF Owned, Cluster

(* The next pid is one that was not used.                                  *)
LEMMA NewIs ==
    ASSUME NEW S \in SUBSET Nat, S # {}
    PROVE  (CHOOSE q \in S : \A r \in S : q <= r) \in S
  <1>1. PICK x \in S : \A y \in S : ~ (<<y, x>> \in OpToRel(<, Nat))
    BY NatLessThanWellFounded, WFMin
  <1>2. \A y \in S : x <= y
    <2>1. SUFFICES ASSUME NEW y \in S, ~(x <= y)
                   PROVE  FALSE
      OBVIOUS
    <2>2. y < x /\ x \in Nat /\ y \in Nat
      BY <2>1
    <2>3. <<y, x>> \in OpToRel(<, Nat)
      BY <2>2 DEF OpToRel
    <2>. QED
      BY <1>1, <2>3
  <1>. QED
    BY <1>2

(* The master starts another, with the pid of the dead one to load.        *)
LEMMA exit_Keeps ==
    ASSUME Distinct, Owned, NEW p \in Pids, exit(p)
    PROVE  Owned'
  <1>. PICK new : new = CHOOSE q \in Unused : \A r \in Unused : q <= r
    OBVIOUS
  <1>1. /\ proc[p] = "dead" /\ Unused # {}
        /\ proc' = [proc EXCEPT ![p] = "replaced", ![new] = "up"]
        /\ messages' = [messages EXCEPT ![new] = {p}]
        /\ UNCHANGED <<file, told, ops, items, dropped>>
    BY DEF exit
  <1>2. TypeOK /\ Alive /\ NothingStranded
    BY DEF Owned
  <1>3. Cluster /\ Clustered
    BY <1>1 DEF Owned, Single
  <1>4. new \in Spare /\ new \in Pids /\ proc[new] = "none" /\ new # p
    <2>1. Unused \in SUBSET Nat
      BY DEF Distinct, Unused
    <2>2. new \in Unused
      BY <1>1, <2>1, NewIs
    <2>. QED
      BY <1>1, <2>2 DEF Unused, Pids
  <1>5. /\ proc'[p] = "replaced" /\ proc'[new] = "up" /\ messages'[new] = {p}
        /\ \A q \in Pids : q # new => messages'[q] = messages[q]
        /\ \A q \in Pids : q # new /\ q # p => proc'[q] = proc[q]
    BY <1>1, <1>2, <1>4 DEF TypeOK
  <1>6. TypeOK'
    BY <1>1, <1>2, <1>4 DEF TypeOK
  <1>7. \A q \in Pids : Up(q) => Up(q)'
    BY <1>1, <1>4, <1>5 DEF Up
  <1>8. Alive'
    <2>1. \A q \in Pids : ~Up(q)' => ~Up(q) /\ messages'[q] = messages[q]
      BY <1>5, <1>7 DEF Up
    <2>2. \A m \in Mails : told[m] = "waits" => Up(file[m].pid)'
      <3>1. \A m \in Mails : told[m] = "waits" => file[m].pid \in Pids /\ Up(file[m].pid)
        BY <1>2 DEF Alive, TypeOK, File
      <3>2. \A m \in Mails : Up(file[m].pid)' <=> proc'[file[m].pid] = "up"
        BY <1>1 DEF Up
      <3>3. \A q \in Pids : Up(q)' <=> proc'[q] = "up"
        BY DEF Up
      <3>. QED
        BY <1>7, <3>1, <3>2, <3>3
    <2>. QED
      BY <1>1, <1>2, <1>7, <2>1, <2>2 DEF Alive
  <1>9. Clustered'
    <2>1. \A q : Past(q) => Past(q)'
      BY <1>4, <1>5 DEF Past
    <2>2. Past(p)'
      BY <1>5 DEF Past
    <2>3. \A q \in Pids : \A r \in messages'[q] : Past(r)'
      BY <1>3, <1>5, <2>1, <2>2 DEF Clustered
    <2>4. \A q \in Old : ~Up(q)'
      <3>1. \A q \in Old : q \in Pids /\ q # new /\ ~Up(q)
        BY <1>3, <1>4, PidsAre DEF Clustered, Distinct
      <3>. QED
        BY <1>5, <3>1 DEF Up
    <2>. QED
      BY <1>1, <1>3, <2>1, <2>3, <2>4 DEF Clustered
  <1>10. NothingStranded'
    <2>. SUFFICES ASSUME NEW m \in Mails, file[m].at = "final"
                  PROVE  Loadable(m)'
      BY <1>1 DEF NothingStranded
    <2>. DEFINE pid == file[m].pid
    <2>1. Loadable(m)
      BY <1>2 DEF NothingStranded
    <2>2. CASE \E q \in Pids : /\ Up(q)
                               /\ \/ items[q][m] > 0
                                  \/ {All, pid} \intersect messages[q] # {}
                                  \/ \E op \in ops[q] : op.mail = m /\ op.name = file[m]
      <3>1. \A q \in Pids : Up(q) => Up(q)' /\ messages'[q] = messages[q]
        BY <1>4, <1>5, <1>7 DEF Up
      <3>. QED
        BY <1>1, <2>2, <3>1 DEF Loadable
    <2>3. CASE proc[pid] = "dead" /\ pid = p
      BY <1>1, <1>4, <1>5, <2>3 DEF Loadable, Up
    <2>4. CASE proc[pid] = "dead" /\ pid # p
      <3>0. pid \in Pids
        BY <1>2 DEF TypeOK, File, Alive
      <3>1. proc'[pid] = "dead"
        BY <1>4, <1>5, <2>4, <3>0
      <3>. QED
        BY <1>1, <3>1 DEF Loadable
    <2>5. CASE pid \in dropped
      BY <1>1, <2>5 DEF Loadable
    <2>. QED
      BY <2>1, <2>2, <2>3, <2>4, <2>5 DEF Loadable
  <1>. QED
    BY <1>3, <1>6, <1>8, <1>9, <1>10 DEF Owned, Cluster

----------------------------------------------------------------------------
(* The start: every pid found is dealt to somebody.                        *)

LEMMA DealtToAll ==
    ASSUME Distinct, NEW S \in SUBSET Old, NEW order \in Orders(S), NEW q \in S
    PROVE  \E p \in Range_(Workers) : q \in Dealt(order, p)
  <1>. DEFINE n == Cardinality(S)
              D == 1..n
  <1>1. IsFiniteSet(S) /\ n \in Nat
    BY FS_Subset, FS_CardinalityType DEF Distinct
  <1>2. order \in [D -> S] /\ DOMAIN order = D
    BY DEF Orders
  <1>3. order \in Injection(D, S)
    BY <1>2 DEF Orders, Injection, IsInjective
  <1>4. Cardinality(D) = n
    <2>1. Cardinality(1..n) = IF 1 > n THEN 0 ELSE n - 1 + 1
      BY <1>1, FS_Interval
    <2>. HIDE DEF n
    <2>. QED
      BY <1>1, <2>1
  <1>5. order \in Surjection(D, S)
    BY <1>1, <1>3, <1>4, FS_Injection
  <1>6. PICK j \in D : order[j] = q
    BY <1>5 DEF Surjection
  <1>. DEFINE L == Len(Workers)
              i == ((j - 1) % L) + 1
  <1>7. L \in Nat /\ L > 0
    BY LenProperties DEF Distinct
  <1>8. i \in 1..L
    <2>1. j - 1 \in Int
      BY <1>1, <1>6
    <2>2. PICK k \in Int : k = j - 1
      BY <2>1
    <2>. HIDE DEF L
    <2>3. k % L \in 0..L - 1
      BY <1>7
    <2>. QED
      BY <1>7, <2>2, <2>3
  <1>9. Workers[i] \in Range_(Workers)
    <2>1. DOMAIN Workers = 1..L
      BY DEF Distinct
    <2>. QED
      BY <1>8, <2>1 DEF Range_
  <1>10. order[j] \in Dealt(order, Workers[i])
    BY <1>2, <1>6 DEF Dealt
  <1>. QED
    BY <1>6, <1>9, <1>10

LEMMA InitOwned == ASSUME Distinct, Init PROVE Owned
  <1>1. /\ file \in [Mails -> {[at |-> "none", pid |-> All]} \union
                             {[at |-> a, pid |-> p] : a \in {"dot", "final"}, p \in Old}]
        /\ told = [m \in Mails |-> IF file[m].at = "final" THEN "ok" ELSE "none"]
        /\ proc = [p \in Pids |-> IF p \in Range_(Workers) THEN "up" ELSE "none"]
        /\ ops = [p \in Pids |-> {}]
        /\ items = [p \in Pids |-> [m \in Mails |-> 0]]
        /\ dropped = {}
    BY DEF Init
  <1>. DEFINE found == scan_queue_pids(file)
  <1>2. PICK order \in Orders(found) :
          messages = [p \in Pids |-> IF p \notin Range_(Workers) THEN {}
                                     ELSE IF Cluster THEN Dealt(order, p) ELSE {All}]
    BY DEF Init
  <1>3. \A m \in Mails :
           /\ file[m] \in File
           /\ file[m].at \in {"none", "dot", "final"}
           /\ file[m].at # "none" => file[m].pid \in Old /\ file[m].pid \in Pids
           /\ told[m] \in {"ok", "none"}
           /\ told[m] = "ok" => file[m].at = "final"
    <2>1. ASSUME NEW m \in Mails
          PROVE  \/ file[m] = [at |-> "none", pid |-> All]
                 \/ \E a \in {"dot", "final"}, p \in Old : file[m] = [at |-> a, pid |-> p]
      BY <1>1
    <2>. QED
      BY <1>1, <2>1, PidsAre DEF File
  <1>4. found \subseteq Old
    BY <1>3 DEF scan_queue_pids
  <1>5. \A p : Dealt(order, p) \subseteq found
    <2>1. order \in [1..Cardinality(found) -> found]
      BY DEF Orders
    <2>. QED
      BY <2>1 DEF Dealt
  <1>6. Range_(Workers) \subseteq Pids /\ Old \subseteq Pids /\ All \notin Pids
    BY PidsAre DEF Pids
  <1>7. TypeOK
    <2>1. file \in [Mails -> File]
      BY <1>1, <1>3
    <2>2. told \in [Mails -> {"none", "waits", "ok", "deny", "served"}]
      BY <1>1
    <2>3. messages \in [Pids -> SUBSET (Pids \union {All})]
      BY <1>2, <1>4, <1>5, <1>6
    <2>4. items \in [Pids -> [Mails -> {0, 1}]]
      BY <1>1
    <2>. QED
      BY <1>1, <2>1, <2>2, <2>3, <2>4 DEF TypeOK
  <1>8. Alive
    <2>1. \A p \in Pids : ~Up(p) => messages[p] = {} /\ ops[p] = {}
      BY <1>1, <1>2 DEF Up
    <2>2. \A p \in Pids, m \in Mails : items[p][m] = 0 /\ ops[p] = {}
      BY <1>1
    <2>3. \A p \in Pids, m \in Mails : ~(items[p][m] > 0) /\ ops[p] = {}
      BY <2>2
    <2>. QED
      BY <1>1, <1>3, <1>6, <2>1, <2>3 DEF Alive
  <1>9. ASSUME Cluster
        PROVE  Clustered
    <2>1. \A p \in Pids : messages[p] \subseteq Old /\ ops[p] = {}
      BY <1>1, <1>2, <1>4, <1>5, <1>9
    <2>2. \A p \in Pids, m \in Mails : ~(items[p][m] > 0)
      <3>1. \A p \in Pids, m \in Mails : items[p][m] = 0
        BY <1>1
      <3>. QED
        BY <3>1
    <2>3. \A p \in Old : ~Up(p)
      BY <1>1, <1>6 DEF Up, Distinct
    <2>. QED
      BY <2>1, <2>2, <2>3 DEF Clustered, Past
  <1>10. ASSUME ~Cluster
         PROVE  Single
    <2>1. \A p \in Range_(Workers) : p = Workers[1]
      <3>1. Len(Workers) = 1
        <4>1. PICK n \in Nat : n = Len(Workers)
          BY LenProperties DEF Distinct
        <4>2. n > 0 /\ ~(n > 1)
          BY <1>10, <4>1 DEF Cluster, Distinct
        <4>. QED
          BY <4>1, <4>2
      <3>2. DOMAIN Workers = {1}
        BY <3>1 DEF Distinct
      <3>. QED
        BY <3>2 DEF Range_
    <2>2. \A p \in Pids : messages[p] \subseteq {All} /\ ops[p] = {}
      BY <1>1, <1>2, <1>10
    <2>3. \A p \in Pids, m \in Mails : items[p][m] = 0 /\ told[m] # "waits"
      BY <1>1
    <2>. QED
      BY <1>1, <2>1, <2>2, <2>3 DEF Single, Up
  <1>11. NothingStranded
    <2>. SUFFICES ASSUME NEW m \in Mails, file[m].at = "final"
                  PROVE  Loadable(m)
      BY DEF NothingStranded
    <2>. DEFINE pid == file[m].pid
    <2>1. pid \in found
      BY DEF scan_queue_pids
    <2>2. CASE Cluster
      <3>1. PICK p \in Range_(Workers) : pid \in Dealt(order, p)
        BY <1>4, <2>1, DealtToAll
      <3>2. p \in Pids /\ Up(p) /\ pid \in messages[p]
        BY <1>1, <1>2, <1>6, <2>2, <3>1 DEF Up
      <3>. QED
        BY <3>2 DEF Loadable
    <2>3. CASE ~Cluster
      <3>1. Workers[1] \in Range_(Workers)
        BY DEF Distinct, Range_
      <3>2. Workers[1] \in Pids /\ Up(Workers[1]) /\ All \in messages[Workers[1]]
        BY <1>1, <1>2, <1>6, <2>3, <3>1 DEF Up
      <3>. QED
        BY <3>2 DEF Loadable
    <2>. QED
      BY <2>2, <2>3
  <1>. QED
    BY <1>7, <1>8, <1>9, <1>10, <1>11 DEF Owned

----------------------------------------------------------------------------
(* The theorems.                                                           *)

(* A process alone reads the queue before it takes mail.                   *)
InSequence == Distinct /\ (Cluster \/ ~EarlyMail)

LEMMA NextOwned ==
    ASSUME InSequence, Owned, [Next]_vars
    PROVE  Owned'
  <1>1. ASSUME NEW p \in Pids, load_queue(p) PROVE Owned'
    BY <1>1, load_queue_Keeps DEF InSequence
  <1>2. ASSUME NEW p \in Pids, load_queue_files(p) PROVE Owned'
    BY <1>2, load_queue_files_Keeps DEF InSequence
  <1>3. ASSUME NEW p \in Pids, crash(p) PROVE Owned'
    BY <1>3, crash_Keeps DEF InSequence
  <1>4. ASSUME NEW p \in Pids, exit(p) PROVE Owned'
    BY <1>4, exit_Keeps DEF InSequence
  <1>5. ASSUME NEW p \in Pids, NEW m \in Mails, process_delivery(p, m) PROVE Owned'
    BY <1>5, process_delivery_Keeps DEF InSequence
  <1>6. ASSUME NEW p \in Pids, NEW m \in Mails, delivered(p, m) PROVE Owned'
    BY <1>6, delivered_Keeps DEF InSequence
  <1>7. ASSUME NEW m \in Mails, ws_close(m) PROVE Owned'
    BY <1>7, ws_close_Keeps DEF InSequence
  <1>8. CASE UNCHANGED vars
    <2>1. /\ TypeOK' <=> TypeOK
          /\ Alive' <=> Alive
          /\ Clustered' <=> Clustered
          /\ Single' <=> Single
          /\ NothingStranded' <=> NothingStranded
      BY <1>8 DEF vars, TypeOK, Alive, Clustered, Single, NothingStranded, Loadable, Up, Past
    <2>. QED
      BY <2>1 DEF Owned, Cluster
  <1>. QED
    BY <1>1, <1>2, <1>3, <1>4, <1>5, <1>6, <1>7, <1>8 DEF Next

LEMMA OwnedIsKept ==
    ASSUME Owned
    PROVE  OneOwner /\ Kept /\ NothingStranded
  BY Solo DEF Owned, Alive, Kept, OneOwner

(* Every mail is somebody's, and nobody's twice, in a cluster and alone.   *)
THEOREM Invariance == InSequence => (Spec => []Owned)
  <1>. SUFFICES ASSUME InSequence
                PROVE  Spec => []Owned
    OBVIOUS
  <1>1. Init => Owned
    BY InitOwned DEF InSequence
  <1>2. Owned /\ [Next]_vars => Owned'
    BY NextOwned
  <1>. QED
    BY <1>1, <1>2, PTL DEF Spec

(* outbound.js, load_queue, and server.js: no mail is worked on by two     *)
(* processes, nor twice by one, though workers die, their successors load  *)
(* what they left, and mails come in meanwhile.                            *)
THEOREM AlwaysOneOwner == InSequence => (Spec => []OneOwner)
  <1>1. Owned => OneOwner
    BY OwnedIsKept
  <1>. QED
    BY <1>1, Invariance, PTL

(* outbound.js, load_queue: a mail that was accepted stays in place until  *)
(* it is served, and is in memory, or about to be loaded, or left to the   *)
(* next start because its loader died.                                     *)
THEOREM AlwaysKept == InSequence => (Spec => [](Kept /\ NothingStranded))
  <1>1. Owned => Kept /\ NothingStranded
    BY OwnedIsKept
  <1>. QED
    BY <1>1, Invariance, PTL
=============================================================================
