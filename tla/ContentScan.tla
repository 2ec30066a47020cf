----------------------------- MODULE ContentScan -----------------------------
(***************************************************************************)
(* The scanner plugins clamd, avg, spamassassin and messagesniffer: on     *)
(* data_post each gives the message to a daemon over a socket of its own   *)
(* and answers the hook from the reply.                                    *)
(*                                                                         *)
(* A scan outlives its hook: plugins.js may time the hook out, or the      *)
(* plugin itself may have answered for a timeout, and the connection goes  *)
(* on to its next message while the socket still has events.               *)
(***************************************************************************)
EXTENDS Naturals, FiniteSets

CONSTANTS
    Plugins,     \* subset of {"clamd", "avg", "spamassassin", "messagesniffer"}
    Messages,    \* 1..n: messages of the connection, one after the other
    NHosts       \* daemons of clamd

VARIABLES
    plugin,
    bad,         \* messages the daemons recognise
    txn,         \* connection.transaction: a message, 0 for null
    scan,        \* per message: the closure of its data_post hook
    answer,      \* per message: the hook's answer
    marks        \* per message: whose results its transaction was given

vars == <<plugin, bad, txn, scan, answer, marks>>

None == "none"
NewScan == [sock |-> "none",      \* none, file, connecting, up, ended, closed
            hosts |-> 0,          \* clamd: hosts left to try
            text |-> 0,           \* the message the daemon was given
            reply |-> None,       \* what its lines said
            file |-> FALSE,       \* the temporary file exists
            late |-> FALSE]       \* the hook was answered for a timeout

WithFile == {"avg", "messagesniffer"}

Init ==
    /\ plugin \in Plugins
    /\ bad \in SUBSET Messages
    /\ txn = 0
    /\ scan = [m \in Messages |-> NewScan]
    /\ answer = [m \in Messages |-> None]
    /\ marks = [m \in Messages |-> {}]

-----------------------------------------------------------------------------
(* next(code): the first call counts.                                      *)
Answered(m, code) == answer' = [answer EXCEPT ![m] = IF @ = None THEN code ELSE @]

Scan(m, s) == scan' = [scan EXCEPT ![m] = s]

\* What a failure of the daemon is answered with: the virus scanners fail
\* closed, the others open.
OnFailure == IF plugin \in {"clamd", "avg"} THEN "denysoft" ELSE "cont"

\* do_next of avg, and SNFClient's callback, remove the file.
Unlinked(s) == [s EXCEPT !.file = FALSE]

\* try_next_host of clamd, after the socket of the host before is destroyed.
try_next_host(m, s) ==
    IF s.hosts = 0
    THEN Answered(m, "denysoft") /\ Scan(m, [s EXCEPT !.sock = "closed"])
    ELSE Scan(m, [s EXCEPT !.hosts = @ - 1, !.sock = "connecting"]) /\ UNCHANGED answer

\* The verdict on a reply.  "limit": clamd's StreamMaxLength is exceeded;
\* "excluded": a virus of the skip list; anything else is an error.
Verdict(reply) ==
    CASE reply \in {"clean", "limit", "excluded"} -> "cont"
      [] reply = "infected" -> "deny"
      [] OTHER -> OnFailure

Replies(s) ==
    IF s.text \in bad THEN {"infected", "garbled"} \union (IF plugin = "clamd" THEN {"limit", "excluded"} ELSE {})
    ELSE {"clean", "garbled"} \union (IF plugin = "clamd" THEN {"limit"} ELSE {})

-----------------------------------------------------------------------------
(* The hook of a message: it may be skipped, for its size or for want of   *)
(* attachments; messagesniffer may decide from the connect hook's result.  *)
hook_data_post(m) ==
    /\ txn = 0 /\ answer[m] = None /\ scan[m] = NewScan
    /\ \A n \in Messages : n < m => answer[n] # None
    /\ \/ /\ txn' = m
          /\ plugin # "avg"
          /\ answer' = [answer EXCEPT ![m] = "skipped"]
          /\ UNCHANGED scan
       \/ /\ txn' = m
          /\ CASE plugin = "clamd" -> try_next_host(m, [NewScan EXCEPT !.hosts = NHosts])
               [] plugin = "spamassassin" -> Scan(m, [NewScan EXCEPT !.sock = "connecting"]) /\ UNCHANGED answer
               [] plugin \in WithFile ->
                    Scan(m, [NewScan EXCEPT !.sock = "file", !.file = TRUE]) /\ UNCHANGED answer
    /\ UNCHANGED <<plugin, bad, marks>>

\* The temporary file is closed: the daemon is called.  A write that failed
\* answers the hook, and the file may be closed and scanned all the same.
ws_close(m) ==
    /\ scan[m].sock = "file"
    /\ Scan(m, [scan[m] EXCEPT !.sock = "connecting"])
    /\ UNCHANGED <<plugin, bad, txn, answer, marks>>

ws_error(m) ==
    /\ scan[m].sock = "file" /\ answer[m] = None
    /\ Answered(m, OnFailure)
    /\ \E closes \in BOOLEAN :
          Scan(m, [scan[m] EXCEPT !.sock = IF closes THEN "file" ELSE "closed"])
    /\ UNCHANGED <<plugin, bad, txn, marks>>

\* 'connect': the daemon is given the message.  spamassassin gives it the
\* stream of the transaction the connection has by now.
connect(m) ==
    /\ scan[m].sock = "connecting"
    /\ IF plugin = "spamassassin" /\ txn = 0
       THEN Answered(m, "cont") /\ Scan(m, [scan[m] EXCEPT !.sock = "closed"])
       ELSE /\ Scan(m, [scan[m] EXCEPT !.sock = "up",
                                        !.text = IF plugin = "spamassassin" THEN txn ELSE m])
            /\ UNCHANGED answer
    /\ UNCHANGED <<plugin, bad, txn, marks>>

\* The daemon's reply.  avg answers at the line, and hangs up.
reply(m) ==
    /\ scan[m].sock \in {"up", "ended"} /\ scan[m].reply = None
    /\ \E r \in Replies(scan[m]) :
          LET s == [scan[m] EXCEPT !.reply = r] IN
          IF plugin = "avg"
          THEN Answered(m, Verdict(r)) /\ Scan(m, Unlinked([s EXCEPT !.sock = "closed"]))
          ELSE Scan(m, s) /\ UNCHANGED answer
    /\ UNCHANGED <<plugin, bad, txn, marks>>

\* 'end'.  clamd and messagesniffer have kept their transaction, but
\* spamassassin adds its results to the one of the connection, if any.
\* avg does not listen: only the hook's timeout is left.
Marked(m) == IF plugin = "spamassassin" THEN txn ELSE m

end(m) ==
    /\ scan[m].sock \in {"up", "ended"}
    /\ IF plugin = "avg" THEN UNCHANGED answer ELSE
       Answered(m, IF plugin = "spamassassin" /\ txn = 0 THEN "cont" ELSE Verdict(scan[m].reply))
    /\ IF plugin = "avg" \/ Marked(m) = 0 THEN UNCHANGED marks ELSE
       marks' = [marks EXCEPT ![Marked(m)] = @ \union {m}]
    /\ Scan(m, [(IF plugin = "avg" THEN scan[m] ELSE Unlinked(scan[m])) EXCEPT !.sock = "closed"])
    /\ UNCHANGED <<plugin, bad, txn>>

\* 'error' and 'timeout' of the socket.  clamd tries its next host while it
\* was not connected.  avg leaves the socket as it is after a timeout, and
\* spamassassin only ends its side: replies still come.  (That they may
\* still connect after a timeout is left out.)
error(m) ==
    /\ scan[m].sock \in {"connecting", "up", "ended"}
    /\ IF plugin = "clamd" /\ scan[m].sock = "connecting" THEN try_next_host(m, scan[m])
       ELSE Answered(m, OnFailure) /\ Scan(m, Unlinked([scan[m] EXCEPT !.sock = "closed"]))
    /\ UNCHANGED <<plugin, bad, txn, marks>>

timeout(m) ==
    /\ scan[m].sock \in {"connecting", "up"}
    /\ IF plugin = "clamd" /\ scan[m].sock = "connecting" THEN try_next_host(m, scan[m])
       ELSE /\ Answered(m, OnFailure)
            /\ Scan(m, [Unlinked(scan[m]) EXCEPT
                          !.late = TRUE,
                          !.sock = IF plugin \in {"avg", "spamassassin"} /\ @ = "up" THEN "ended" ELSE "closed"])
    /\ UNCHANGED <<plugin, bad, txn, marks>>

hook_timeout(m) ==
    /\ txn = m /\ answer[m] = None
    /\ answer' = [answer EXCEPT ![m] = "denysoft"]
    /\ scan' = [scan EXCEPT ![m].late = TRUE]
    /\ UNCHANGED <<plugin, bad, txn, marks>>

\* The transaction is over; or the client leaves, and nobody waits.
reset_transaction ==
    /\ txn # 0
    /\ txn' = 0
    /\ \/ answer[txn] # None /\ UNCHANGED answer
       \/ answer[txn] = None /\ answer' = [answer EXCEPT ![txn] = "left"]
    /\ UNCHANGED <<plugin, bad, scan, marks>>

Next ==
    \/ reset_transaction
    \/ \E m \in Messages :
          \/ hook_data_post(m) \/ ws_close(m) \/ ws_error(m) \/ connect(m) \/ reply(m)
          \/ end(m) \/ error(m) \/ timeout(m) \/ hook_timeout(m)

Spec == Init /\ [][Next]_vars

-----------------------------------------------------------------------------
(* Properties.                                                             *)

\* A message is rejected for good only when the daemon recognised it, and
\* a virus scanner lets it through only when its own text was looked at.
VerdictIsJustified ==
    \A m \in Messages :
        /\ answer[m] = "deny" => m \in bad
        /\ answer[m] = "cont" /\ plugin \in {"clamd", "avg"} =>
              /\ scan[m].text = m
              /\ scan[m].reply \in {"clean", "limit", "excluded"}

\* The results a transaction is given are those of its own message, unless
\* they come from a spamassassin scan whose hook had been given up.
OwnResults ==
    \A m \in Messages : \A n \in marks[m] :
        n # m => plugin = "spamassassin" /\ (scan[n].late \/ answer[n] = "left")

\* spamassassin.js:89, "Abort if the transaction is gone".
AbortsIfGone == \A m \in Messages : marks[m] \subseteq {m}

\* A virus scanner's file is left behind only when writing it failed, or its
\* daemon hung up or is still at work.
FileIsRemoved ==
    \A m \in Messages :
        answer[m] \in {"cont", "deny"} /\ plugin = "avg" => ~scan[m].file
=============================================================================
