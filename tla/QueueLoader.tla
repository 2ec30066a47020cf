----------------------------- MODULE QueueLoader -----------------------------
(***************************************************************************)
(* Who works on which queue file: load_queue (outbound.js) and the workers *)
(* of server.js.  A file's name bears the pid of the process that made it. *)
(* At the start the master deals the pids it finds to its workers; when a  *)
(* worker dies, its successor is sent its pid.  To load a pid is to read   *)
(* the directory, rename the files of that pid to one's own, and remove    *)
(* dot-files.  A process alone loads all files and renames none.  Mails    *)
(* are accepted meanwhile: written to a dot-file, then renamed.            *)
(*                                                                         *)
(* The times in the names only say when a file is loaded, which may be at  *)
(* any moment here; what happens to a loaded mail is in OutboundQueue.     *)
(***************************************************************************)
EXTENDS Naturals, Sequences, FiniteSets

CONSTANTS
    Mails,
    Old,        \* pids of earlier processes
    Workers,    \* sequence of the pids started now; one: no cluster
    Spare,      \* bound: pids of the workers started in place of dead ones
    EarlyMail   \* a process alone may accept mail before it reads the queue

VARIABLES
    file,       \* each mail's file: at, "none", "dot", "final" or "gone", and pid
    told,       \* what its sender was told
    proc,       \* [Pids -> "none", "up", "dead" or "replaced"]
    messages,   \* pids a process was told to load; All for load_queue()
    ops,        \* calls for one file each that the loading still has to make
    items,      \* HMailItems in memory
    dropped     \* pids whose loader died before it had loaded them

vars == <<file, told, proc, messages, ops, items, dropped>>

All == 0
Range_(s) == {s[i] : i \in DOMAIN s}
Pids == Old \union Range_(Workers) \union Spare
Cluster == Len(Workers) > 1

Up(p) == proc[p] = "up"
Exists(m) == file[m].at \in {"dot", "final"}

\* scan_queue_pids, and what createServer sends to its new workers: the pids
\* found, in the order of the directory, are dealt in turn.
scan_queue_pids(files) == {files[m].pid : m \in {n \in Mails : files[n].at = "final"}}
Orders(S) == {o \in [1..Cardinality(S) -> S] : \A i, j \in DOMAIN o : o[i] = o[j] => i = j}
Dealt(order, p) ==
    {order[j] : j \in {n \in DOMAIN order : Workers[((n - 1) % Len(Workers)) + 1] = p}}

Init ==
    /\ file \in [Mails -> {[at |-> "none", pid |-> All]} \union
                          {[at |-> a, pid |-> p] : a \in {"dot", "final"}, p \in Old}]
    /\ told = [m \in Mails |-> IF file[m].at = "final" THEN "ok" ELSE "none"]
    /\ proc = [p \in Pids |-> IF p \in Range_(Workers) THEN "up" ELSE "none"]
    /\ \E order \in Orders(scan_queue_pids(file)) :
          messages = [p \in Pids |-> IF p \notin Range_(Workers) THEN {}
                                     ELSE IF Cluster THEN Dealt(order, p) ELSE {All}]
    /\ ops = [p \in Pids |-> {}]
    /\ items = [p \in Pids |-> [m \in Mails |-> 0]]
    /\ dropped = {}

-----------------------------------------------------------------------------
(* process_delivery: the mail is written, then put in place.               *)

process_delivery(p, m) ==
    /\ Up(p) /\ file[m].at = "none"
    /\ Cluster \/ EarlyMail \/ messages[p] = {}
    /\ file' = [file EXCEPT ![m] = [at |-> "dot", pid |-> p]]
    /\ told' = [told EXCEPT ![m] = "waits"]
    /\ UNCHANGED <<proc, messages, ops, items, dropped>>

\* ws's close: the rename fails when somebody has removed the dot-file.
ws_close(m) ==
    /\ told[m] = "waits"
    /\ IF file[m].at = "dot"
       THEN /\ file' = [file EXCEPT ![m].at = "final"]
            /\ items' = [items EXCEPT ![file[m].pid][m] = @ + 1]
            /\ told' = [told EXCEPT ![m] = "ok"]
       ELSE /\ told' = [told EXCEPT ![m] = "deny"]
            /\ UNCHANGED <<file, items>>
    /\ UNCHANGED <<proc, messages, ops, dropped>>

\* The mail is delivered or bounced, and its file unlinked.
delivered(p, m) ==
    /\ Up(p) /\ items[p][m] > 0
    /\ file' = [file EXCEPT ![m].at = "gone"]
    /\ items' = [items EXCEPT ![p][m] = @ - 1]
    /\ told' = [told EXCEPT ![m] = "served"]
    /\ UNCHANGED <<proc, messages, ops, dropped>>

-----------------------------------------------------------------------------
(* load_queue, load_pid_queue.                                             *)

\* fs.readdir: the names that concern pid, as they are at this moment.
\* (..._Name: the form of a mutant that PROJECT.json names.)
Concerned_EveryPid(pid) == {m \in Mails : Exists(m)}

Concerned(pid) ==
    {m \in Mails : Exists(m) /\ (file[m].at = "dot" \/ pid \in {All, file[m].pid})}

load_queue(p) ==
    /\ Up(p)
    /\ \E pid \in messages[p] :
          /\ messages' = [messages EXCEPT ![p] = @ \ {pid}]
          /\ ops' = [ops EXCEPT ![p] = @ \union
                        {[mail |-> m, name |-> file[m], pid |-> pid] : m \in Concerned(pid)}]
    /\ UNCHANGED <<file, told, proc, items, dropped>>

\* One file: a dot-file is unlinked; one of pid is renamed, if it is still
\* there, and its mail taken over; without a pid the mail is taken as it is.
load_queue_files(p) ==
    /\ Up(p)
    /\ \E op \in ops[p] :
          /\ ops' = [ops EXCEPT ![p] = @ \ {op}]
          /\ IF file[op.mail] # op.name THEN UNCHANGED <<file, items>>
             ELSE IF op.name.at = "dot"
             THEN file' = [file EXCEPT ![op.mail].at = "gone"] /\ UNCHANGED items
             ELSE /\ file' = [file EXCEPT ![op.mail].pid = IF op.pid = All THEN @ ELSE p]
                  /\ items' = [items EXCEPT ![p][op.mail] = @ + 1]
    /\ UNCHANGED <<told, proc, messages, dropped>>

-----------------------------------------------------------------------------
(* A worker dies; the master is told and starts another.                   *)

crash(p) ==
    /\ Cluster /\ Up(p)
    /\ proc' = [proc EXCEPT ![p] = "dead"]
    /\ dropped' = dropped \union messages[p] \union {op.pid : op \in ops[p]}
    /\ messages' = [messages EXCEPT ![p] = {}]
    /\ ops' = [ops EXCEPT ![p] = {}]
    /\ items' = [items EXCEPT ![p] = [m \in Mails |-> 0]]
    /\ told' = [m \in Mails |-> IF told[m] = "waits" /\ file[m].pid = p THEN "none" ELSE told[m]]
    /\ UNCHANGED file

Unused == {p \in Spare : proc[p] = "none"}

exit(p) ==
    /\ proc[p] = "dead" /\ Unused # {}
    /\ LET new == CHOOSE q \in Unused : \A r \in Unused : q <= r IN
       /\ proc' = [proc EXCEPT ![p] = "replaced", ![new] = "up"]
       /\ messages' = [messages EXCEPT ![new] = {p}]
    /\ UNCHANGED <<file, told, ops, items, dropped>>

Next ==
    \/ \E p \in Pids :
          \/ load_queue(p) \/ load_queue_files(p) \/ crash(p) \/ exit(p)
          \/ \E m \in Mails : process_delivery(p, m) \/ delivered(p, m)
    \/ \E m \in Mails : ws_close(m)

Spec == Init /\ [][Next]_vars

-----------------------------------------------------------------------------
(* Properties.                                                             *)

\* Two processes never work on one mail, nor one process twice: it would be
\* delivered twice.
OneOwner ==
    \A m \in Mails : \A p, q \in Pids :
        items[p][m] > 0 /\ items[q][m] > 0 => p = q /\ items[p][m] = 1

\* A mail that was accepted is in place until it is served, and somebody has
\* it, will load it, or will be told to.  Only what a worker had still to
\* load when it died is left to the next start of the server.
Kept == \A m \in Mails : told[m] = "ok" => file[m].at = "final"

Loadable(m) ==
    \/ \E p \in Pids : /\ Up(p)
                       /\ \/ items[p][m] > 0
                          \/ {All, file[m].pid} \intersect messages[p] # {}
                          \/ \E op \in ops[p] : op.mail = m /\ op.name = file[m]
    \/ proc[file[m].pid] = "dead"
    \/ file[m].pid \in dropped

NothingStranded == \A m \in Mails : file[m].at = "final" => Loadable(m)

\* outbound.js:214: "Removing left over dot-file".
LeftOverOnly ==
    [][\A m \in Mails : file[m].at = "dot" /\ file'[m].at = "gone" => told[m] # "waits"]_vars
=============================================================================
