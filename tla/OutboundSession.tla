-------------------------- MODULE OutboundSession --------------------------
(***************************************************************************)
(* One delivery attempt of an HMailItem in haraka/outbound.js, from        *)
(* try_deliver to the call of temp_fail, bounce, delivered or discard that *)
(* ends it: the list of MXs and of their addresses, a socket per address,  *)
(* and the SMTP or LMTP dialogue that try_deliver_host holds on it.        *)
(*                                                                         *)
(* The server answers as it likes, one reply per command (LMTP: one per    *)
(* accepted recipient after the data), and may close at any time.  Only    *)
(* the last line of a multi-line reply acts, so a reply is one code.       *)
(***************************************************************************)
EXTENDS Integers, Sequences, FiniteSets

CONSTANTS
    Rcpts,             \* todo.rcpt_to, in order: a sequence without repeats
    Mxs,               \* the sorted MX list: [lmtp : BOOLEAN, hosts : Nat],
                       \* hosts being the number of addresses, 0 for none
    RcptReplies,       \* replies to RCPT: subset of {"250", "251", "4xx", "5xx"}
    OtherReplies,      \* replies to the rest: {"2xx", "4xx", "5xx", "bad"}
    EnableTls,         \* cfg.enable_tls
    OpenEnded          \* TRUE when a server may end its last reply with FIN
                       \* and no newline: the line then comes on a socket
                       \* that is no longer writable

ASSUME MxsAssumption ==
    Mxs \in Seq([lmtp : BOOLEAN, hosts : Nat]) /\ Len(Mxs) > 0

VARIABLE at   \* the attempt: what the HMailItem and its closures know

Elems(s) == {s[i] : i \in DOMAIN s}
All == Elems(Rcpts)

(* A mail has a recipient, and rcpt_to holds an Address object for each.   *)
ASSUME RcptsAssumption ==
    /\ Rcpts \in Seq(All) /\ Rcpts # <<>>
    /\ \A i, j \in DOMAIN Rcpts : Rcpts[i] = Rcpts[j] => i = j

----------------------------------------------------------------------------
(* A socket, with the variables of try_deliver_host's closure, and the two *)
(* facts about its server that a client cannot see.                        *)

Commands == {"connect", "connect_lmtp", "ehlo", "lhlo", "helo", "starttls",
             "upgrade", "mail", "rcpt", "data", "stream", "dot", "dot_lmtp", "quit"}

Conn == [mx      : 1..Len(Mxs),
         net     : {"open", "ending", "closed"},
         proc    : BOOLEAN,           \* processing_mail
         cmd     : Commands,
         secured : BOOLEAN,
         idx     : 0..Len(Rcpts),     \* recip_index: last_recip is Rcpts[idx]
         ok      : Seq(All),          \* ok_recips, fail_recips, bounce_recips
         fail    : Seq(All),
         bnc     : Seq(All),
         lidx    : Nat,               \* lmtp_rcpt_idx
         owed    : Seq(All),          \* server: accepted, in order, not answered since
         taken   : SUBSET All]        \* server: took the mail for these

NewConn(m) ==
    [mx |-> m, net |-> "open", proc |-> TRUE,
     cmd |-> IF Mxs[m].lmtp THEN "connect_lmtp" ELSE "connect",
     secured |-> FALSE, idx |-> 0, ok |-> <<>>, fail |-> <<>>, bnc |-> <<>>,
     lidx |-> 0, owed |-> <<>>, taken |-> {}]

Ends == [kind : {"temp_fail", "bounce"}] \cup
        [kind : {"finished"}, lmtp : BOOLEAN, ok : Seq(All), fail : Seq(All),
         bnc : Seq(All), taken : SUBSET All]

Attempt == [nextMx   : 1..(Len(Mxs) + 1),   \* mxlist: entries not yet shifted
            hostlist : Nat,                 \* addresses of the current MX left
            lookups  : SUBSET (1..Len(Mxs)),\* dns.resolve calls under way
            conn     : Seq(Conn),           \* sockets, in the order made
            out      : Seq(Ends)]           \* every end the attempt reached

TypeOK == at \in Attempt

----------------------------------------------------------------------------
(* The functions the handlers call, from one state of the attempt to the   *)
(* next.                                                                   *)

Ended(a, end) == [a EXCEPT !.out = Append(@, end)]
TempFail      == [kind |-> "temp_fail"]
Bounce        == [kind |-> "bounce"]

try_deliver(a) ==
    IF a.nextMx > Len(Mxs)
    THEN Ended(a, TempFail)
    ELSE [a EXCEPT !.lookups = @ \cup {a.nextMx}, !.nextMx = @ + 1]

try_deliver_host(a, m) ==
    IF a.hostlist = 0
    THEN try_deliver(a)
    ELSE [a EXCEPT !.hostlist = @ - 1, !.conn = Append(@, NewConn(m))]

(* The mail is no longer processed on socket k: on to the next address.    *)
next_host_Silent(a, k) ==   \* mutant: the other addresses are not tried
    [a EXCEPT !.conn[k].proc = FALSE]

next_host(a, k) ==
    try_deliver_host([a EXCEPT !.conn[k].proc = FALSE], a.conn[k].mx)

send_command(a, k, cmd, writable) ==
    IF writable THEN [a EXCEPT !.conn[k].cmd = cmd]
    ELSE IF a.conn[k].proc THEN next_host(a, k)
    ELSE a

(* A 4xx or 5xx for the whole mail: QUIT is sent before processing_mail is *)
(* cleared.                                                                *)
quit_and_Proceeds(a, k, writable, end) ==   \* mutant: processing_mail stays set
    Ended(send_command(a, k, "quit", writable), end)

quit_and(a, k, writable, end) ==
    Ended([send_command(a, k, "quit", writable) EXCEPT !.conn[k].proc = FALSE], end)

(* Here it is cleared before.                                              *)
finish_processing_mail(a, k, writable) ==
    LET c == a.conn[k]
        end == [kind |-> "finished", lmtp |-> Mxs[c.mx].lmtp, ok |-> c.ok,
                fail |-> c.fail, bnc |-> c.bnc, taken |-> c.taken]
    IN send_command(Ended([a EXCEPT !.conn[k].proc = FALSE], end), k, "quit", writable)

next_rcpt(a, k, writable) ==
    send_command([a EXCEPT !.conn[k].idx = @ + 1], k, "rcpt", writable)

hello(c) == IF Mxs[c.mx].lmtp THEN "lhlo" ELSE "ehlo"

----------------------------------------------------------------------------
Init == at = [nextMx |-> 2, hostlist |-> 0, lookups |-> {1}, conn |-> <<>>, out |-> <<>>]

(* dns.resolve calls back; an MX without an address is skipped.            *)
resolved(m) ==
    LET a == [at EXCEPT !.lookups = @ \ {m}, !.hostlist = Mxs[m].hosts] IN
    /\ m \in at.lookups
    /\ at' = IF Mxs[m].hosts = 0
             THEN try_deliver([a EXCEPT !.hostlist = at.hostlist])
             ELSE try_deliver_host(a, m)

(* A complete reply arrives on socket k while the mail is processed there; *)
(* Arrived is the attempt as the 'line' handler finds it.                  *)
Line(k, writable) ==
    /\ k \in DOMAIN at.conn
    /\ at.conn[k].proc /\ at.conn[k].net = "open"
    /\ writable \/ OpenEnded

Arrived(k, writable) ==
    IF writable THEN at ELSE [at EXCEPT !.conn[k].net = "closed"]

(* 2xx or 3xx to any command but RCPT and the end of the data.             *)
accepted(k, writable) ==
    LET c == at.conn[k]
        a == Arrived(k, writable)
    IN
    /\ Line(k, writable)
    /\ "2xx" \in OtherReplies
    /\ \/ /\ c.cmd \in {"connect", "connect_lmtp"}
          /\ at' = send_command(a, k, hello(c), writable)
       \/ /\ c.cmd \in {"ehlo", "lhlo"}       \* process_ehlo_data, TLS offered
          /\ EnableTls /\ ~c.secured
          /\ at' = send_command(a, k, "starttls", writable)
       \/ /\ c.cmd \in {"ehlo", "lhlo", "helo"}
          /\ at' = send_command(a, k, "mail", writable)
       \/ /\ c.cmd = "starttls"
          /\ at' = [a EXCEPT !.conn[k].cmd = "upgrade"]
       \/ /\ c.cmd = "mail"
          /\ at' = next_rcpt(a, k, writable)
       \/ /\ c.cmd = "data"
          /\ at' = [a EXCEPT !.conn[k].cmd = "stream"]

(* The TLS handshake is done: the session starts again.                    *)
secure(k) ==
    /\ k \in DOMAIN at.conn
    /\ at.conn[k].proc /\ at.conn[k].net = "open" /\ at.conn[k].cmd = "upgrade"
    /\ at' = send_command([at EXCEPT !.conn[k].secured = TRUE], k, hello(at.conn[k]), TRUE)

(* The last byte of the message was piped to the socket.                   *)
data_sent(k) ==
    /\ k \in DOMAIN at.conn
    /\ at.conn[k].proc /\ at.conn[k].cmd = "stream"
    /\ at' = send_command(at, k, IF Mxs[at.conn[k].mx].lmtp THEN "dot_lmtp" ELSE "dot",
                          at.conn[k].net = "open")

(* How a reply to RCPT is recorded.  One that begins with 2 or 3 and is    *)
(* not 250 leaves the recipient in none of the three lists.                *)
Recorded_AnyReply(c, code, r) ==   \* mutant: the code is not looked at
    [c EXCEPT !.ok = Append(@, r), !.owed = IF code = "250" THEN Append(@, r) ELSE @]

Recorded(c, code, r) ==
    CASE code = "4xx" -> [c EXCEPT !.fail = Append(@, r)]
      [] code = "5xx" -> [c EXCEPT !.bnc = Append(@, r)]
      [] code = "250" -> [c EXCEPT !.ok = Append(@, r), !.owed = Append(@, r)]
      [] code = "251" -> [c EXCEPT !.owed = Append(@, r)]

LastRcpt_TooSoon(c) == c.idx >= Len(Rcpts) - 1   \* mutant
LastRcpt(c) == c.idx = Len(Rcpts)

rcpt_reply(k, code, writable) ==
    LET a == [Arrived(k, writable) EXCEPT
                !.conn[k] = Recorded(@, code, Rcpts[at.conn[k].idx])]
        c == a.conn[k]
    IN
    /\ Line(k, writable) /\ at.conn[k].cmd = "rcpt"
    /\ at' = IF ~LastRcpt(c) THEN next_rcpt(a, k, writable)
             ELSE IF c.ok # <<>> THEN send_command(a, k, "data", writable)
             ELSE finish_processing_mail(a, k, writable)

(* The reply to the end of the data: SMTP, 2xx.                            *)
dot_reply(k, writable) ==
    /\ Line(k, writable) /\ at.conn[k].cmd = "dot"
    /\ "2xx" \in OtherReplies
    /\ at' = finish_processing_mail(
                [Arrived(k, writable) EXCEPT !.conn[k].taken = Elems(at.conn[k].owed)],
                k, writable)

(* LMTP: one reply for each recipient the server accepted, in their order. *)
LmtpDone(c) == c.ok = <<>> \/ c.lidx = Len(c.ok)

(* A 4xx or 5xx takes the first of ok_recips, a 2xx is only counted.       *)
Counted(c, code) ==
    LET r == Head(c.owed)
        d == [c EXCEPT !.owed = Tail(@)]
    IN CASE code = "2xx" -> [d EXCEPT !.taken = @ \cup {r}, !.lidx = @ + 1]
         [] code = "4xx" -> [d EXCEPT !.ok = Tail(@), !.fail = Append(@, Head(c.ok))]
         [] code = "5xx" -> [d EXCEPT !.ok = Tail(@), !.bnc = Append(@, Head(c.ok))]

dot_lmtp_reply(k, code, writable) ==
    LET a == [Arrived(k, writable) EXCEPT !.conn[k] = Counted(@, code)] IN
    /\ Line(k, writable)
    /\ at.conn[k].cmd = "dot_lmtp" /\ at.conn[k].owed # <<>>
    /\ code \in OtherReplies \ {"bad"}
    /\ at' = IF LmtpDone(a.conn[k])
             THEN finish_processing_mail(a, k, writable)
             ELSE a

(* A 4xx to anything else, also while the data is sent.                    *)
refused_temp(k, writable) ==
    /\ Line(k, writable) /\ at.conn[k].cmd \notin {"rcpt", "dot_lmtp", "upgrade"}
    /\ "4xx" \in OtherReplies
    /\ at' = quit_and(Arrived(k, writable), k, writable, TempFail)

(* A 5xx: EHLO falls back to HELO.                                         *)
refused(k, writable) ==
    /\ Line(k, writable) /\ at.conn[k].cmd \notin {"rcpt", "dot_lmtp", "upgrade"}
    /\ "5xx" \in OtherReplies
    /\ at' = IF at.conn[k].cmd = "ehlo"
             THEN send_command(Arrived(k, writable), k, "helo", writable)
             ELSE quit_and(Arrived(k, writable), k, writable, Bounce)

(* A line that is not an SMTP reply.                                       *)
unrecognised(k) ==
    /\ Line(k, TRUE) /\ at.conn[k].cmd # "upgrade"
    /\ "bad" \in OtherReplies
    /\ at' = Ended([at EXCEPT !.conn[k].proc = FALSE, !.conn[k].net = "ending"], Bounce)

(* The socket's timeout, only acted on while the mail is processed.        *)
timeout(k) ==
    /\ k \in DOMAIN at.conn
    /\ at.conn[k].proc /\ at.conn[k].net = "open"
    /\ at' = next_host([at EXCEPT !.conn[k].net = "ending"], k)

(* The socket fails or is closed by the server; its closure is done with.  *)
closed(k) ==
    /\ k \in DOMAIN at.conn
    /\ at.conn[k].net # "closed" \/ at.conn[k].proc
    /\ LET m == at.conn[k].mx
           a == [at EXCEPT !.conn[k] = [NewConn(m) EXCEPT !.net = "closed", !.proc = FALSE]]
       IN at' = IF at.conn[k].proc THEN next_host(a, k) ELSE a

----------------------------------------------------------------------------
Reply(k, writable) ==
    \/ accepted(k, writable)
    \/ \E code \in RcptReplies : rcpt_reply(k, code, writable)
    \/ dot_reply(k, writable)
    \/ \E code \in {"2xx", "4xx", "5xx"} : dot_lmtp_reply(k, code, writable)
    \/ refused_temp(k, writable)
    \/ refused(k, writable)

Next ==
    \/ \E m \in 1..Len(Mxs) : resolved(m)
    \/ \E k \in DOMAIN at.conn :
         \/ \E writable \in BOOLEAN : Reply(k, writable)
         \/ unrecognised(k)
         \/ secure(k)
         \/ data_sent(k)
         \/ timeout(k)
         \/ closed(k)

Spec == Init /\ [][Next]_at

(* dns.resolve calls back, and a socket is answered, closed or times out.  *)
FairSpec == Spec /\ WF_at(Next)

----------------------------------------------------------------------------
Processing == {k \in DOMAIN at.conn : at.conn[k].proc}
Over == at.out # <<>>

(* At any moment exactly one of these owns the mail: a name lookup, one    *)
(* socket, or the end of the attempt.  Two owners deliver it twice, or     *)
(* give its delivery slot back twice.                                      *)
OneOwner == Cardinality(at.lookups) + Cardinality(Processing) + Len(at.out) = 1

Disjoint(s, t) == Elems(s) \cap Elems(t) = {}

(* When the dialogue ends the attempt every recipient is in exactly one of *)
(* the lists of delivered, deferred and rejected ones, and once.           *)
EveryRecipientReported ==
    \A e \in Elems(at.out) : e.kind = "finished" =>
        /\ Elems(e.ok) \cup Elems(e.fail) \cup Elems(e.bnc) = All
        /\ Disjoint(e.ok, e.fail) /\ Disjoint(e.ok, e.bnc) /\ Disjoint(e.fail, e.bnc)
        /\ Len(e.ok) + Len(e.fail) + Len(e.bnc) = Len(Rcpts)

(* The recipients that the delivered hook is told were delivered to are    *)
(* those the server took the mail for: over SMTP, and over LMTP, where a   *)
(* reply is matched to a recipient by counting.                            *)
Truthful(e) == Elems(e.ok) = e.taken
Reports(lmtp) == {e \in Elems(at.out) : e.kind = "finished" /\ e.lmtp = lmtp}

SmtpReportIsTrue == \A e \in Reports(FALSE) : Truthful(e)
LmtpReportIsTrue == \A e \in Reports(TRUE) : Truthful(e)

(* The attempt implements the abstract one: it ends once, in one of three  *)
(* ways, with a verdict for each recipient.                                *)
Verdicts(e) ==
    [r \in All |-> IF r \in Elems(e.ok) THEN "delivered"
                   ELSE IF r \in Elems(e.fail) THEN "deferred"
                   ELSE IF r \in Elems(e.bnc) THEN "rejected" ELSE "lost"]

outcome ==
    IF at.out = <<>> THEN [kind |-> "pending"]
    ELSE IF Len(at.out) > 1 THEN [kind |-> "twice"]
    ELSE IF at.out[1].kind = "finished"
         THEN [kind |-> "finished", verdict |-> Verdicts(at.out[1])]
         ELSE at.out[1]

Abstract == INSTANCE DeliveryAttempt WITH Rcpts <- All, outcome <- outcome
ImplementsAttempt == Abstract!Spec

(* Whatever the servers do, the attempt ends.                              *)
EventuallyOver == <>Over

============================================================================
