----------------------- MODULE OutboundSession_proofs -----------------------
(***************************************************************************)
(* Theorems about OutboundSession for every list of recipients and of MXs, *)
(* and every sequence of replies and failures.                             *)
(***************************************************************************)
EXTENDS OutboundSession, SequenceTheorems, FiniteSetTheorems, TLAPS

----------------------------------------------------------------------------
(* Sequences as lists of recipients.                                       *)

Once(s) == \A i, j \in DOMAIN s : s[i] = s[j] => i = j

LEMMA ElemsEmpty == Elems(<<>>) = {}
  BY DEF Elems

LEMMA ElemsOfSeq ==
    ASSUME NEW S, NEW s \in Seq(S)
    PROVE  Elems(s) = {s[i] : i \in 1..Len(s)}
  BY DEF Elems

LEMMA ElemsAppend ==
    ASSUME NEW S, NEW s \in Seq(S), NEW e \in S
    PROVE  Elems(Append(s, e)) = Elems(s) \cup {e}
  <1>. DEFINE t == Append(s, e)
              n == Len(s)
  <1>1. /\ t \in Seq(S) /\ Len(t) = n + 1 /\ t[n + 1] = e
        /\ \A i \in 1..n : t[i] = s[i]
    BY AppendProperties
  <1>2. n \in Nat
    BY LenProperties
  <1>3. Elems(t) = {t[i] : i \in 1..(n + 1)}
    BY <1>1 DEF Elems
  <1>4. Elems(s) = {s[i] : i \in 1..n}
    BY DEF Elems
  <1>. HIDE DEF t, n
  <1>5. 1..(n + 1) = (1..n) \cup {n + 1}
    BY <1>2
  <1>. QED
    BY <1>1, <1>3, <1>4, <1>5 DEF t

LEMMA OnceAppend ==
    ASSUME NEW S, NEW s \in Seq(S), NEW e \in S \ Elems(s), Once(s)
    PROVE  Once(Append(s, e))
  <1>. SUFFICES ASSUME NEW i \in 1..(Len(s) + 1), NEW j \in 1..(Len(s) + 1),
                       Append(s, e)[i] = Append(s, e)[j]
                PROVE  i = j
    BY AppendProperties, LenProperties DEF Once
  <1>1. \A n \in 1..Len(s) : Append(s, e)[n] = s[n] /\ s[n] # e
    BY AppendProperties, ElemsOfSeq
  <1>2. \A m, n \in 1..Len(s) : s[m] = s[n] => m = n
    BY DEF Once
  <1>3. Append(s, e)[Len(s) + 1] = e
    BY AppendProperties
  <1>. QED
    BY <1>1, <1>2, <1>3, LenProperties

LEMMA FirstAndRest ==
    ASSUME NEW S, NEW s \in Seq(S), s # <<>>, Once(s)
    PROVE  /\ Head(s) \in S /\ Tail(s) \in Seq(S)
           /\ Len(Tail(s)) = Len(s) - 1
           /\ Elems(s) = Elems(Tail(s)) \cup {Head(s)}
           /\ Head(s) \notin Elems(Tail(s))
           /\ Once(Tail(s))
  <1>1. /\ Head(s) \in S /\ Tail(s) \in Seq(S)
        /\ Len(Tail(s)) = Len(s) - 1 /\ Len(s) \in Nat \ {0}
        /\ \A i \in 1..(Len(s) - 1) : Tail(s)[i] = s[i + 1]
    BY HeadTailProperties, EmptySeq, LenProperties
  <1>2. Head(s) = s[1]
    OBVIOUS
  <1>3. \A m, n \in 1..Len(s) : s[m] = s[n] => m = n
    BY DEF Once
  <1>4. Elems(Tail(s)) = {s[i + 1] : i \in 1..(Len(s) - 1)}
    <2>1. DOMAIN Tail(s) = 1..(Len(s) - 1)
      BY <1>1, LenProperties
    <2>2. Elems(Tail(s)) = {Tail(s)[i] : i \in 1..(Len(s) - 1)}
      BY <2>1, Zenon DEF Elems
    <2>. QED
      BY <1>1, <2>2
  <1>5. Elems(s) \subseteq Elems(Tail(s)) \cup {Head(s)}
    <2>. SUFFICES ASSUME NEW i \in 1..Len(s)
                  PROVE  s[i] \in Elems(Tail(s)) \cup {Head(s)}
      BY ElemsOfSeq
    <2>1. CASE i = 1
      BY <2>1, <1>2
    <2>2. CASE i # 1
      <3>1. i - 1 \in 1..(Len(s) - 1) /\ i = (i - 1) + 1
        BY <2>2, <1>1
      <3>. QED
        BY <3>1, <1>4
    <2>. QED
      BY <2>1, <2>2
  <1>6. Elems(Tail(s)) \cup {Head(s)} \subseteq Elems(s)
    <2>1. \A i \in 1..(Len(s) - 1) : i + 1 \in 1..Len(s)
      BY <1>1
    <2>2. 1 \in 1..Len(s)
      BY <1>1
    <2>. QED
      BY <2>1, <2>2, <1>2, <1>4, ElemsOfSeq
  <1>7. Head(s) \notin Elems(Tail(s))
    <2>. SUFFICES ASSUME NEW i \in 1..(Len(s) - 1), s[i + 1] = s[1]
                  PROVE  FALSE
      BY <1>2, <1>4
    <2>. QED
      BY <1>1, <1>3
  <1>8. Once(Tail(s))
    <2>. SUFFICES ASSUME NEW i \in 1..(Len(s) - 1), NEW j \in 1..(Len(s) - 1),
                         s[i + 1] = s[j + 1]
                  PROVE  i = j
      BY <1>1 DEF Once
    <2>. QED
      BY <1>1, <1>3
  <1>. QED
    BY <1>1, <1>5, <1>6, <1>7, <1>8

----------------------------------------------------------------------------
(* The inductive invariant: who owns the mail, and how far the dialogue of *)
(* the owning socket has come.                                             *)

Heard(n) == {Rcpts[i] : i \in 1..n}

(* The first n recipients, and no other, are each in one of the lists.     *)
SortedOut(c, n) ==
    /\ Elems(c.ok) \cup Elems(c.fail) \cup Elems(c.bnc) = Heard(n)
    /\ Disjoint(c.ok, c.fail)
    /\ Disjoint(c.ok, c.bnc)
    /\ Disjoint(c.fail, c.bnc)
    /\ Len(c.ok) + Len(c.fail) + Len(c.bnc) = n
    /\ Once(c.ok)

Greeting == {"connect", "connect_lmtp", "ehlo", "lhlo", "helo", "starttls",
             "upgrade", "mail"}
Sending  == {"data", "stream", "dot"}

Untouched(c) == c.owed = c.ok /\ c.lidx = 0 /\ c.taken = {}

Greets(c) ==
    /\ c.cmd \in Greeting
    /\ c.idx = 0 /\ c.ok = <<>> /\ c.fail = <<>> /\ c.bnc = <<>>
    /\ Untouched(c)

Asks(c) ==
    /\ c.cmd = "rcpt"
    /\ c.idx > 0 /\ SortedOut(c, c.idx - 1)
    /\ Untouched(c)

Sends(c) ==
    /\ c.cmd \in Sending
    /\ SortedOut(c, Len(Rcpts)) /\ c.ok # <<>>
    /\ Untouched(c)

(* One reply is owed for each recipient of ok_recips not yet counted.      *)
Counts(c) ==
    /\ c.cmd = "dot_lmtp" /\ Mxs[c.mx].lmtp
    /\ SortedOut(c, Len(Rcpts))
    /\ c.lidx < Len(c.ok) /\ c.lidx + Len(c.owed) = Len(c.ok)

Dialogue(c) ==
    /\ c.proc /\ c.net = "open"
    /\ Greets(c) \/ Asks(c) \/ Sends(c) \/ Counts(c)

GoodEnd(e) ==
    \/ e = TempFail
    \/ e = Bounce
    \/ /\ e.kind = "finished" /\ e.lmtp \in BOOLEAN
       /\ SortedOut(e, Len(Rcpts))
       /\ ~e.lmtp => Truthful(e)

(* No socket but perhaps k, no lookup and no end owns the mail.            *)
Hold(a, k) ==
    /\ a \in Attempt /\ a.lookups = {} /\ a.out = <<>>
    /\ k \in DOMAIN a.conn
    /\ \A j \in DOMAIN a.conn : j # k => ~a.conn[j].proc

Idle(a) == \A j \in DOMAIN a.conn : ~a.conn[j].proc

NobodyOwns(a)    == a \in Attempt /\ Idle(a) /\ a.lookups = {} /\ a.out = <<>>
LookupOwns(a)    == a \in Attempt /\ Idle(a) /\ a.out = <<>>
                    /\ \E m \in 1..Len(Mxs) : a.lookups = {m}
SocketOwns(a, k) == Hold(a, k) /\ Dialogue(a.conn[k])
EndOwns(a)       == a \in Attempt /\ Idle(a) /\ a.lookups = {}
                    /\ Len(a.out) = 1 /\ GoodEnd(a.out[1])

Owned(a) == \/ LookupOwns(a)
            \/ \E k \in DOMAIN a.conn : SocketOwns(a, k)
            \/ EndOwns(a)

----------------------------------------------------------------------------
(* The functions of the handlers hand the mail from owner to owner.        *)

LEMMA MxsLength ==
    /\ Len(Mxs) \in Nat \ {0}
    /\ \A m \in 1..Len(Mxs) : Mxs[m].lmtp \in BOOLEAN /\ Mxs[m].hosts \in Nat
  <1>1. Len(Mxs) \in Nat \ {0}
    BY MxsAssumption, LenProperties
  <1>2. \A m \in 1..Len(Mxs) : Mxs[m] \in [lmtp : BOOLEAN, hosts : Nat]
    BY MxsAssumption, ElementOfSeq
  <1>. QED
    BY <1>1, <1>2

LEMMA RcptsLength == Len(Rcpts) \in Nat \ {0} /\ \A i \in 1..Len(Rcpts) : Rcpts[i] \in All
  BY RcptsAssumption, LenProperties, ElementOfSeq, EmptySeq

LEMMA NewConnType ==
    ASSUME NEW m \in 1..Len(Mxs)
    PROVE  NewConn(m) \in Conn
  <1>1. <<>> \in Seq(All)
    BY EmptySeq
  <1>. QED
    BY <1>1, RcptsLength DEF NewConn, Conn, Commands

LEMMA SetConn ==
    ASSUME NEW a \in Attempt, NEW k \in DOMAIN a.conn, NEW c \in Conn,
           NEW b, b = [a EXCEPT !.conn[k] = c]
    PROVE  /\ b \in Attempt
           /\ b.lookups = a.lookups /\ b.out = a.out /\ b.hostlist = a.hostlist
           /\ DOMAIN b.conn = DOMAIN a.conn
           /\ b.conn[k] = c
           /\ \A j \in DOMAIN a.conn : j # k => b.conn[j] = a.conn[j]
  <1>1. a.conn \in Seq(Conn)
    BY DEF Attempt
  <1>2. k \in 1..Len(a.conn)
    BY <1>1, LenProperties
  <1>3. [a.conn EXCEPT ![k] = c] \in Seq(Conn)
    BY <1>1, <1>2, ExceptSeq
  <1>4. b = [a EXCEPT !.conn = [a.conn EXCEPT ![k] = c]]
    OBVIOUS
  <1>5. b.conn = [a.conn EXCEPT ![k] = c]
    BY <1>4 DEF Attempt
  <1>. QED
    BY <1>3, <1>4, <1>5 DEF Attempt

LEMMA LetGo ==
    ASSUME NEW a, NEW k, Hold(a, k), NEW c \in Conn, ~c.proc
    PROVE  NobodyOwns([a EXCEPT !.conn[k] = c])
  BY SetConn DEF Hold, NobodyOwns, Idle

LEMMA Carry ==
    ASSUME NEW a, NEW k, Hold(a, k), NEW c \in Conn, Dialogue(c)
    PROVE  Owned([a EXCEPT !.conn[k] = c])
  <1>. DEFINE b == [a EXCEPT !.conn[k] = c]
  <1>1. Hold(b, k) /\ b.conn[k] = c
    BY SetConn DEF Hold
  <1>. QED
    BY <1>1 DEF Owned, SocketOwns, Hold

LEMMA EndIt ==
    ASSUME NEW a, NobodyOwns(a), NEW e \in Ends, GoodEnd(e)
    PROVE  EndOwns(Ended(a, e))
  <1>. DEFINE b == Ended(a, e)
  <1>1. Append(<<>>, e) \in Seq(Ends) /\ Len(Append(<<>>, e)) = 1 /\ Append(<<>>, e)[1] = e
    BY AppendProperties, EmptySeq
  <1>2. b = [a EXCEPT !.out = Append(<<>>, e)]
    BY DEF Ended, NobodyOwns
  <1>3. b \in Attempt /\ b.out = Append(<<>>, e) /\ b.conn = a.conn /\ b.lookups = {}
    BY <1>1, <1>2 DEF NobodyOwns, Attempt
  <1>. QED
    BY <1>1, <1>3 DEF EndOwns, NobodyOwns, Idle

LEMMA WholeMail == TempFail \in Ends /\ GoodEnd(TempFail) /\ Bounce \in Ends /\ GoodEnd(Bounce)
  BY DEF TempFail, Bounce, Ends, GoodEnd

LEMMA NextMx ==
    ASSUME NEW a, NobodyOwns(a)
    PROVE  LookupOwns(try_deliver(a)) \/ EndOwns(try_deliver(a))
  <1>1. CASE a.nextMx > Len(Mxs)
    BY <1>1, EndIt, WholeMail DEF try_deliver
  <1>2. CASE ~(a.nextMx > Len(Mxs))
    <2>. DEFINE b == [a EXCEPT !.lookups = @ \cup {a.nextMx}, !.nextMx = @ + 1]
    <2>1. try_deliver(a) = b
      BY <1>2 DEF try_deliver
    <2>2. a.nextMx \in 1..Len(Mxs) /\ a.nextMx + 1 \in 1..(Len(Mxs) + 1)
      BY <1>2, MxsLength DEF NobodyOwns, Attempt
    <2>3. b \in Attempt
      BY <2>2 DEF NobodyOwns, Attempt
    <2>4. b.lookups = {a.nextMx} /\ b.conn = a.conn /\ b.out = <<>>
      BY DEF NobodyOwns, Attempt
    <2>. QED
      BY <2>1, <2>2, <2>3, <2>4 DEF LookupOwns, NobodyOwns, Idle
  <1>. QED
    BY <1>1, <1>2

LEMMA NextAddress ==
    ASSUME NEW a, NobodyOwns(a), NEW m \in 1..Len(Mxs)
    PROVE  Owned(try_deliver_host(a, m))
  <1>1. CASE a.hostlist = 0
    BY <1>1, NextMx DEF try_deliver_host, Owned
  <1>2. CASE a.hostlist # 0
    <2>. DEFINE n == NewConn(m)
                b == [a EXCEPT !.hostlist = @ - 1, !.conn = Append(@, n)]
                k == Len(a.conn) + 1
    <2>1. try_deliver_host(a, m) = b
      BY <1>2 DEF try_deliver_host
    <2>2. n \in Conn
      BY NewConnType
    <2>3. a.conn \in Seq(Conn) /\ a.hostlist - 1 \in Nat /\ Len(a.conn) \in Nat
      BY <1>2, LenProperties DEF NobodyOwns, Attempt
    <2>4. /\ Append(a.conn, n) \in Seq(Conn)
          /\ Len(Append(a.conn, n)) = k
          /\ Append(a.conn, n)[k] = n
          /\ \A i \in 1..Len(a.conn) : Append(a.conn, n)[i] = a.conn[i]
      BY <2>2, <2>3, AppendProperties
    <2>5. /\ b \in Attempt /\ b.lookups = {} /\ b.out = <<>>
          /\ b.conn = Append(a.conn, n)
      BY <2>3, <2>4 DEF NobodyOwns, Attempt
    <2>6. DOMAIN b.conn = 1..k /\ DOMAIN a.conn = 1..Len(a.conn)
      BY <2>3, <2>4, <2>5, LenProperties
    <2>7. Dialogue(n)
      BY DEF Dialogue, Greets, Untouched, Greeting, NewConn
    <2>. HIDE DEF n, b, k
    <2>8. k \in DOMAIN b.conn /\ \A j \in DOMAIN b.conn : j # k => ~b.conn[j].proc
      BY <2>3, <2>4, <2>5, <2>6 DEF NobodyOwns, Idle, k
    <2>. QED
      BY <2>1, <2>4, <2>5, <2>7, <2>8 DEF Owned, SocketOwns, Hold
  <1>. QED
    BY <1>1, <1>2

LEMMA NextHost ==
    ASSUME NEW a, NEW k, Hold(a, k)
    PROVE  Owned(next_host(a, k))
  <1>. DEFINE c == [a.conn[k] EXCEPT !.proc = FALSE]
              b == [a EXCEPT !.conn[k] = c]
  <1>1. a.conn[k] \in Conn
    BY LenProperties, ElementOfSeq DEF Hold, Attempt
  <1>2. c \in Conn /\ ~c.proc /\ a.conn[k].mx \in 1..Len(Mxs)
    BY <1>1 DEF Conn
  <1>3. NobodyOwns(b)
    BY <1>2, LetGo
  <1>4. [a EXCEPT !.conn[k].proc = FALSE] = b
    OBVIOUS
  <1>. QED
    BY <1>2, <1>3, <1>4, NextAddress DEF next_host

----------------------------------------------------------------------------
(* A reply that leaves the mail on its socket, or ends the attempt there.  *)

LEMMA OwnersConn ==
    ASSUME NEW a, NEW k, Hold(a, k)
    PROVE  a.conn[k] \in Conn
  BY LenProperties, ElementOfSeq DEF Hold, Attempt

LEMMA SendCommand ==
    ASSUME NEW a, NEW k, Hold(a, k), NEW cmd \in Commands,
           Dialogue([a.conn[k] EXCEPT !.cmd = cmd])
    PROVE  Owned(send_command(a, k, cmd, TRUE))
  <1>. DEFINE c == [a.conn[k] EXCEPT !.cmd = cmd]
  <1>1. c \in Conn
    BY OwnersConn DEF Conn
  <1>2. send_command(a, k, cmd, TRUE) = [a EXCEPT !.conn[k] = c]
    BY DEF send_command
  <1>3. Dialogue(c)
    OBVIOUS
  <1>. HIDE DEF c
  <1>4. Owned([a EXCEPT !.conn[k] = c])
    BY <1>1, <1>3, Carry
  <1>. QED
    BY <1>2, <1>4

LEMMA QuitAnd ==
    ASSUME NEW a, NEW k, Hold(a, k), NEW e \in {TempFail, Bounce}
    PROVE  Owned(quit_and(a, k, TRUE, e))
  <1>. DEFINE c == [a.conn[k] EXCEPT !.cmd = "quit", !.proc = FALSE]
              b == [a EXCEPT !.conn[k] = c]
  <1>1. c \in Conn /\ ~c.proc
    BY OwnersConn DEF Conn, Commands
  <1>2. NobodyOwns(b)
    BY <1>1, LetGo
  <1>3. [send_command(a, k, "quit", TRUE) EXCEPT !.conn[k].proc = FALSE] = b
    <2>. DEFINE d == [a EXCEPT !.conn[k].cmd = "quit"]
    <2>1. send_command(a, k, "quit", TRUE) = d
      BY DEF send_command
    <2>2. d = [a EXCEPT !.conn[k] = [a.conn[k] EXCEPT !.cmd = "quit"]]
      OBVIOUS
    <2>3. k \in DOMAIN a.conn /\ a \in Attempt /\ a.conn[k] \in Conn
      BY OwnersConn DEF Hold
    <2>4. [a.conn[k] EXCEPT !.cmd = "quit"] \in Conn
      BY <2>3 DEF Conn, Commands
    <2>5. d.conn[k] = [a.conn[k] EXCEPT !.cmd = "quit"]
      BY <2>2, <2>3, <2>4, SetConn
    <2>6. [d EXCEPT !.conn[k].proc = FALSE] = [d EXCEPT !.conn[k] = [d.conn[k] EXCEPT !.proc = FALSE]]
      OBVIOUS
    <2>7. [d.conn[k] EXCEPT !.proc = FALSE] = c
      BY <2>5, <2>3 DEF Conn
    <2>8. [d EXCEPT !.conn[k] = c] = b
      BY <2>2, <2>3 DEF Attempt
    <2>. QED
      BY <2>1, <2>6, <2>7, <2>8
  <1>4. EndOwns(Ended(b, e))
    BY <1>2, EndIt, WholeMail
  <1>. QED
    BY <1>3, <1>4 DEF quit_and, Owned

(* finish_processing_mail on a socket that has an answer for everyone.     *)
LEMMA Finish ==
    ASSUME NEW a, NEW k, Hold(a, k), SortedOut(a.conn[k], Len(Rcpts)),
           ~Mxs[a.conn[k].mx].lmtp => Elems(a.conn[k].ok) = a.conn[k].taken
    PROVE  Owned(finish_processing_mail(a, k, TRUE))
  <1>. DEFINE c == a.conn[k]
              e == [kind |-> "finished", lmtp |-> Mxs[c.mx].lmtp, ok |-> c.ok,
                    fail |-> c.fail, bnc |-> c.bnc, taken |-> c.taken]
              done == [c EXCEPT !.proc = FALSE]
              b == [a EXCEPT !.conn[k] = done]
              g == Ended(b, e)
  <1>1. c \in Conn /\ k \in DOMAIN a.conn /\ a \in Attempt
    BY OwnersConn DEF Hold
  <1>2. done \in Conn /\ ~done.proc
    BY <1>1 DEF Conn
  <1>3. NobodyOwns(b)
    BY <1>2, LetGo
  <1>4. e \in Ends
    BY <1>1, MxsLength DEF Ends, Conn
  <1>5. GoodEnd(e)
    <2>1. SortedOut(e, Len(Rcpts))
      BY DEF SortedOut, Disjoint
    <2>2. e.lmtp \in BOOLEAN
      BY <1>1, MxsLength DEF Conn
    <2>3. ~e.lmtp => Truthful(e)
      BY DEF Truthful
    <2>. QED
      BY <2>1, <2>2, <2>3 DEF GoodEnd
  <1>6. EndOwns(g)
    BY <1>3, <1>4, <1>5, EndIt
  <1>7. finish_processing_mail(a, k, TRUE) = [g EXCEPT !.conn[k].cmd = "quit"]
    <2>1. b = [a EXCEPT !.conn[k].proc = FALSE]
      OBVIOUS
    <2>. QED
      BY <2>1 DEF finish_processing_mail, send_command
  <1>. DEFINE d == [g.conn[k] EXCEPT !.cmd = "quit"]
  <1>8. [g EXCEPT !.conn[k].cmd = "quit"] = [g EXCEPT !.conn[k] = d]
    OBVIOUS
  <1>9. k \in DOMAIN g.conn
    <2>1. g.conn = b.conn
      BY <1>3 DEF Ended, NobodyOwns, Attempt
    <2>. QED
      BY <2>1, <1>1, <1>2, SetConn
  <1>10. g \in Attempt /\ g.conn[k] \in Conn /\ ~g.conn[k].proc
    <2>1. g \in Attempt /\ ~g.conn[k].proc
      BY <1>6, <1>9 DEF EndOwns, Idle
    <2>2. g.conn \in Seq(Conn)
      BY <2>1 DEF Attempt
    <2>. QED
      BY <1>9, <2>1, <2>2, LenProperties, ElementOfSeq
  <1>11. d \in Conn /\ ~d.proc
    BY <1>10 DEF Conn, Commands
  <1>. HIDE DEF d, g
  <1>12. EndOwns([g EXCEPT !.conn[k] = d])
    BY <1>6, <1>9, <1>10, <1>11, SetConn DEF EndOwns, Idle
  <1>. QED
    BY <1>7, <1>8, <1>12 DEF Owned

----------------------------------------------------------------------------
(* The handlers, one at a time.  Two assumptions are about the servers:    *)
(* every reply ends with a newline, and RCPT is answered 250, 4xx or 5xx.  *)

Orderly == ~OpenEnded /\ RcptReplies \subseteq {"250", "4xx", "5xx"}

LEMMA Speaker ==
    ASSUME Owned(at), NEW k \in DOMAIN at.conn, at.conn[k].proc
    PROVE  SocketOwns(at, k)
  BY DEF Owned, LookupOwns, EndOwns, Idle, SocketOwns, Hold

LEMMA OnLine ==
    ASSUME Owned(at), Orderly, NEW k, NEW writable \in BOOLEAN, Line(k, writable)
    PROVE  /\ writable = TRUE /\ Arrived(k, writable) = at
           /\ Hold(at, k) /\ Dialogue(at.conn[k]) /\ at.conn[k] \in Conn
  BY Speaker, OwnersConn DEF Line, Orderly, Arrived, SocketOwns

LEMMA Greet ==
    ASSUME NEW c \in Conn, Dialogue(c), c.cmd \in Greeting, NEW cmd \in Greeting
    PROVE  Dialogue([c EXCEPT !.cmd = cmd])
  <1>1. Greets(c)
    BY DEF Dialogue, Greets, Asks, Sends, Counts, Greeting, Sending
  <1>2. Greets([c EXCEPT !.cmd = cmd])
    BY <1>1 DEF Greets, Untouched, Conn
  <1>. QED
    BY <1>2 DEF Dialogue, Conn

LEMMA Greetings == Greeting \subseteq Commands
  BY DEF Greeting, Commands

LEMMA HelloGreets ==
    ASSUME NEW c
    PROVE  hello(c) \in Greeting
  BY DEF hello, Greeting

LEMMA NextRcpt ==
    ASSUME NEW a, NEW k, Hold(a, k), a.conn[k].idx < Len(Rcpts),
           Dialogue([a.conn[k] EXCEPT !.idx = @ + 1, !.cmd = "rcpt"])
    PROVE  Owned(next_rcpt(a, k, TRUE))
  <1>. DEFINE c == a.conn[k]
              d == [c EXCEPT !.idx = @ + 1]
              b == [a EXCEPT !.conn[k] = d]
  <1>1. c \in Conn
    BY OwnersConn
  <1>2. d \in Conn
    <2>1. c.idx \in 0..Len(Rcpts) /\ Len(Rcpts) \in Nat /\ c.idx < Len(Rcpts)
      BY <1>1, RcptsLength DEF Conn
    <2>2. c.idx + 1 \in 0..Len(Rcpts)
      BY <2>1
    <2>. QED
      BY <1>1, <2>2 DEF Conn
  <1>3. Hold(b, k) /\ b.conn[k] = d
    BY <1>2, SetConn DEF Hold
  <1>4. [d EXCEPT !.cmd = "rcpt"] = [c EXCEPT !.idx = @ + 1, !.cmd = "rcpt"]
    BY <1>1 DEF Conn
  <1>5. next_rcpt(a, k, TRUE) = send_command(b, k, "rcpt", TRUE)
    BY DEF next_rcpt
  <1>6. Dialogue([b.conn[k] EXCEPT !.cmd = "rcpt"])
    BY <1>3, <1>4
  <1>. HIDE DEF b, d
  <1>. QED
    BY <1>3, <1>5, <1>6, SendCommand DEF Commands

LEMMA NoneHeard ==
    ASSUME NEW c, c.ok = <<>>, c.fail = <<>>, c.bnc = <<>>
    PROVE  SortedOut(c, 0)
  <1>1. Heard(0) = {}
    BY DEF Heard
  <1>. QED
    BY <1>1, ElemsEmpty DEF SortedOut, Disjoint, Once

LEMMA ResolvedStep ==
    ASSUME Owned(at), NEW m \in 1..Len(Mxs), resolved(m)
    PROVE  Owned(at')
  <1>. DEFINE a == [at EXCEPT !.lookups = @ \ {m}, !.hostlist = Mxs[m].hosts]
              b == [a EXCEPT !.hostlist = at.hostlist]
  <1>1. LookupOwns(at) /\ at.lookups = {m}
    BY DEF Owned, resolved, LookupOwns, SocketOwns, Hold, EndOwns
  <1>2. a \in Attempt /\ a.lookups = {} /\ a.conn = at.conn /\ a.out = <<>>
    BY <1>1, MxsLength DEF Attempt, LookupOwns
  <1>3. b \in Attempt /\ b.lookups = {} /\ b.conn = at.conn /\ b.out = <<>>
    BY <1>1, <1>2 DEF Attempt, LookupOwns
  <1>4. NobodyOwns(a) /\ NobodyOwns(b)
    BY <1>1, <1>2, <1>3 DEF LookupOwns, NobodyOwns, Idle
  <1>. HIDE DEF a, b
  <1>5. at' = try_deliver(b) \/ at' = try_deliver_host(a, m)
    BY DEF resolved, a, b
  <1>. QED
    BY <1>4, <1>5, NextMx, NextAddress DEF Owned

LEMMA AcceptedStep ==
    ASSUME Owned(at), Orderly, NEW k, NEW writable \in BOOLEAN, accepted(k, writable)
    PROVE  Owned(at')
  <1>. DEFINE c == at.conn[k]
  <1>1. /\ writable = TRUE /\ Arrived(k, writable) = at
        /\ Hold(at, k) /\ Dialogue(c) /\ c \in Conn
    BY OnLine DEF accepted
  <1>2. CASE c.cmd \in Greeting /\ \E cmd \in Greeting : at' = send_command(at, k, cmd, TRUE)
    BY <1>1, <1>2, Greet, SendCommand, Greetings
  <1>3. CASE c.cmd = "starttls" /\ at' = [at EXCEPT !.conn[k].cmd = "upgrade"]
    <2>1. [at EXCEPT !.conn[k].cmd = "upgrade"] = send_command(at, k, "upgrade", TRUE)
      BY DEF send_command
    <2>2. "upgrade" \in Greeting /\ c.cmd \in Greeting
      BY <1>3 DEF Greeting
    <2>3. Dialogue([c EXCEPT !.cmd = "upgrade"])
      BY <1>1, <2>2, Greet
    <2>4. Owned(send_command(at, k, "upgrade", TRUE))
      BY <1>1, <2>2, <2>3, SendCommand, Greetings
    <2>. QED
      BY <1>3, <2>1, <2>4
  <1>4. CASE c.cmd = "mail" /\ at' = next_rcpt(at, k, TRUE)
    <2>. DEFINE d == [c EXCEPT !.idx = @ + 1, !.cmd = "rcpt"]
    <2>1. Greets(c)
      BY <1>1, <1>4 DEF Dialogue, Greets, Asks, Sends, Counts, Sending
    <2>2. c.idx < Len(Rcpts) /\ c.idx = 0
      BY <2>1, RcptsLength DEF Greets
    <2>3. /\ d.idx = 1 /\ d.cmd = "rcpt" /\ d.proc /\ d.net = "open"
          /\ d.ok = <<>> /\ d.fail = <<>> /\ d.bnc = <<>> /\ Untouched(d)
      BY <1>1, <2>1, <2>2 DEF Greets, Untouched, Conn, Dialogue
    <2>4. SortedOut(d, d.idx - 1)
      <3>1. SortedOut(d, 0)
        BY <2>3, NoneHeard
      <3>. QED
        BY <2>3, <3>1
    <2>5. Dialogue(d)
      BY <2>3, <2>4 DEF Dialogue, Asks
    <2>. HIDE DEF d
    <2>. QED
      BY <1>1, <1>4, <2>2, <2>5, NextRcpt DEF d
  <1>5. CASE c.cmd = "data" /\ at' = [at EXCEPT !.conn[k].cmd = "stream"]
    <2>. DEFINE d == [c EXCEPT !.cmd = "stream"]
    <2>1. Sends(c)
      BY <1>1, <1>5 DEF Dialogue, Greets, Asks, Sends, Counts, Greeting
    <2>2. d.cmd = "stream" /\ d.proc /\ d.net = "open" /\ d.ok = c.ok /\ d.fail = c.fail
          /\ d.bnc = c.bnc /\ d.owed = c.owed /\ d.lidx = c.lidx /\ d.taken = c.taken
      BY <1>1 DEF Conn, Dialogue
    <2>3. Sends(d)
      BY <2>1, <2>2 DEF Sends, SortedOut, Untouched, Sending
    <2>4. Dialogue(d)
      BY <2>2, <2>3 DEF Dialogue
    <2>5. [at EXCEPT !.conn[k].cmd = "stream"] = send_command(at, k, "stream", TRUE)
      BY DEF send_command
    <2>6. Owned(send_command(at, k, "stream", TRUE))
      BY <1>1, <2>4, SendCommand DEF Commands
    <2>. QED
      BY <1>5, <2>5, <2>6
  <1>. QED
    BY <1>1, <1>2, <1>3, <1>4, <1>5, HelloGreets DEF accepted, Greeting

LEMMA SecureStep ==
    ASSUME Owned(at), NEW k \in DOMAIN at.conn, secure(k)
    PROVE  Owned(at')
  <1>. DEFINE c == at.conn[k]
              d == [c EXCEPT !.secured = TRUE]
              b == [at EXCEPT !.conn[k] = d]
  <1>1. Hold(at, k) /\ Dialogue(c) /\ c \in Conn /\ c.cmd = "upgrade"
    BY Speaker, OwnersConn DEF secure, SocketOwns
  <1>2. Greets(c)
    BY <1>1 DEF Dialogue, Asks, Sends, Counts, Sending
  <1>3. d \in Conn /\ d.cmd \in Greeting
    BY <1>1 DEF Conn, Greeting
  <1>4. Dialogue(d)
    <2>1. Greets(d)
      BY <1>1, <1>2, <1>3 DEF Greets, Untouched, Conn
    <2>. QED
      BY <1>1, <2>1 DEF Dialogue, Conn
  <1>5. Hold(b, k) /\ b.conn[k] = d
    <2>1. at \in Attempt /\ k \in DOMAIN at.conn
      BY <1>1 DEF Hold
    <2>. HIDE DEF d
    <2>. QED
      BY <1>1, <1>3, <2>1, SetConn DEF Hold
  <1>6. at' = send_command(b, k, hello(c), TRUE)
    BY DEF secure
  <1>7. Dialogue([d EXCEPT !.cmd = hello(c)])
    BY <1>3, <1>4, Greet, HelloGreets
  <1>. HIDE DEF b, d
  <1>. QED
    BY <1>5, <1>6, <1>7, SendCommand, HelloGreets, Greetings

(* A reply to RCPT puts the recipient it is for into one more list.        *)
LEMMA RcptIsNew ==
    ASSUME NEW n \in 1..Len(Rcpts)
    PROVE  /\ Heard(n) = Heard(n - 1) \cup {Rcpts[n]}
           /\ Rcpts[n] \notin Heard(n - 1) /\ Rcpts[n] \in All
  <1>1. Len(Rcpts) \in Nat /\ DOMAIN Rcpts = 1..Len(Rcpts) /\ Rcpts[n] \in All
    BY RcptsAssumption, LenProperties, RcptsLength
  <1>2. 1..n = (1..(n - 1)) \cup {n}
    BY <1>1
  <1>3. \A i \in 1..(n - 1) : Rcpts[i] # Rcpts[n]
    <2>1. \A i \in 1..(n - 1) : i \in DOMAIN Rcpts /\ n \in DOMAIN Rcpts /\ i # n
      BY <1>1
    <2>. QED
      BY <2>1, RcptsAssumption
  <1>. QED
    BY <1>1, <1>2, <1>3 DEF Heard

LEMMA RecordedFacts ==
    ASSUME NEW c \in Conn, Asks(c), NEW code \in {"250", "4xx", "5xx"},
           NEW d, d = Recorded(c, code, Rcpts[c.idx])
    PROVE  /\ d \in Conn /\ d.idx = c.idx /\ d.mx = c.mx /\ d.cmd = c.cmd
           /\ d.net = c.net /\ d.proc = c.proc
           /\ SortedOut(d, c.idx) /\ Untouched(d)
  <1>. DEFINE r == Rcpts[c.idx]
  <1>1. c.idx \in 1..Len(Rcpts)
    BY RcptsLength DEF Conn, Asks
  <1>2. /\ Heard(c.idx) = Heard(c.idx - 1) \cup {r}
        /\ r \notin Heard(c.idx - 1) /\ r \in All
    BY <1>1, RcptIsNew
  <1>3. /\ c.ok \in Seq(All) /\ c.fail \in Seq(All) /\ c.bnc \in Seq(All)
        /\ c.owed = c.ok /\ c.lidx = 0 /\ c.taken = {}
        /\ Once(c.ok) /\ SortedOut(c, c.idx - 1)
    BY DEF Conn, Asks, SortedOut, Untouched
  <1>4. r \notin Elems(c.ok) /\ r \notin Elems(c.fail) /\ r \notin Elems(c.bnc)
    BY <1>2, <1>3 DEF SortedOut
  <1>5. Once(Append(c.ok, r))
    BY <1>2, <1>3, <1>4, OnceAppend
  <1>6. \A s \in Seq(All) : /\ Append(s, r) \in Seq(All)
                            /\ Len(Append(s, r)) = Len(s) + 1
                            /\ Len(s) \in Nat
                            /\ Elems(Append(s, r)) = Elems(s) \cup {r}
    BY <1>2, AppendProperties, ElemsAppend, LenProperties
  <1>. HIDE DEF r
  <1>. DEFINE x == Len(c.ok)
              y == Len(c.fail)
              z == Len(c.bnc)
              n == c.idx
  <1>10. /\ Len(Append(c.ok, r)) = x + 1
         /\ Len(Append(c.fail, r)) = y + 1
         /\ Len(Append(c.bnc, r)) = z + 1
    BY <1>3, <1>6
  <1>11. x \in Nat /\ y \in Nat /\ z \in Nat
    BY <1>3, <1>6
  <1>12. x + y + z = n - 1
    BY <1>3 DEF SortedOut
  <1>13. n \in Nat
    BY <1>1, RcptsLength
  <1>7. CASE code = "4xx"
    <2>1. d = [c EXCEPT !.fail = Append(@, r)]
      BY <1>7 DEF Recorded, r
    <2>2. /\ d \in Conn /\ d.fail = Append(c.fail, r) /\ d.ok = c.ok /\ d.bnc = c.bnc
          /\ d.idx = c.idx /\ d.mx = c.mx /\ d.cmd = c.cmd /\ d.net = c.net
          /\ d.proc = c.proc /\ d.owed = c.owed /\ d.lidx = c.lidx /\ d.taken = c.taken
      BY <2>1, <1>3, <1>6 DEF Conn
    <2>3. Len(d.ok) + Len(d.fail) + Len(d.bnc) = c.idx
      <3>1. Len(d.ok) = x /\ Len(d.fail) = y + 1 /\ Len(d.bnc) = z
        BY <2>2, <1>10
      <3>. HIDE DEF x, y, z, n
      <3>2. x + (y + 1) + z = n
        BY <1>11, <1>12, <1>13
      <3>. QED
        BY <3>1, <3>2, Zenon DEF n
    <2>4. Elems(d.ok) \cup Elems(d.fail) \cup Elems(d.bnc) = Heard(c.idx)
      BY <2>2, <1>2, <1>3, <1>6 DEF SortedOut
    <2>5. Disjoint(d.ok, d.fail) /\ Disjoint(d.ok, d.bnc) /\ Disjoint(d.fail, d.bnc)
      BY <2>2, <1>3, <1>4, <1>6 DEF SortedOut, Disjoint
    <2>. QED
      BY <2>2, <2>3, <2>4, <2>5, <1>3 DEF SortedOut, Untouched
  <1>8. CASE code = "5xx"
    <2>1. d = [c EXCEPT !.bnc = Append(@, r)]
      BY <1>8 DEF Recorded, r
    <2>2. /\ d \in Conn /\ d.fail = c.fail /\ d.ok = c.ok /\ d.bnc = Append(c.bnc, r)
          /\ d.idx = c.idx /\ d.mx = c.mx /\ d.cmd = c.cmd /\ d.net = c.net
          /\ d.proc = c.proc /\ d.owed = c.owed /\ d.lidx = c.lidx /\ d.taken = c.taken
      BY <2>1, <1>3, <1>6 DEF Conn
    <2>3. Len(d.ok) + Len(d.fail) + Len(d.bnc) = c.idx
      <3>1. Len(d.ok) = x /\ Len(d.fail) = y /\ Len(d.bnc) = z + 1
        BY <2>2, <1>10
      <3>. HIDE DEF x, y, z, n
      <3>2. x + y + (z + 1) = n
        BY <1>11, <1>12, <1>13
      <3>. QED
        BY <3>1, <3>2, Zenon DEF n
    <2>4. Elems(d.ok) \cup Elems(d.fail) \cup Elems(d.bnc) = Heard(c.idx)
      BY <2>2, <1>2, <1>3, <1>6 DEF SortedOut
    <2>5. Disjoint(d.ok, d.fail) /\ Disjoint(d.ok, d.bnc) /\ Disjoint(d.fail, d.bnc)
      BY <2>2, <1>3, <1>4, <1>6 DEF SortedOut, Disjoint
    <2>. QED
      BY <2>2, <2>3, <2>4, <2>5, <1>3 DEF SortedOut, Untouched
  <1>9. CASE code = "250"
    <2>1. d = [c EXCEPT !.ok = Append(c.ok, r), !.owed = Append(c.ok, r)]
      BY <1>3, <1>9 DEF Recorded, r
    <2>2. /\ d \in Conn /\ d.fail = c.fail /\ d.ok = Append(c.ok, r) /\ d.bnc = c.bnc
          /\ d.idx = c.idx /\ d.mx = c.mx /\ d.cmd = c.cmd /\ d.net = c.net
          /\ d.proc = c.proc /\ d.owed = d.ok /\ d.lidx = c.lidx /\ d.taken = c.taken
      BY <2>1, <1>3, <1>6 DEF Conn
    <2>3. Len(d.ok) + Len(d.fail) + Len(d.bnc) = c.idx
      <3>1. Len(d.ok) = x + 1 /\ Len(d.fail) = y /\ Len(d.bnc) = z
        BY <2>2, <1>10
      <3>. HIDE DEF x, y, z, n
      <3>2. (x + 1) + y + z = n
        BY <1>11, <1>12, <1>13
      <3>. QED
        BY <3>1, <3>2, Zenon DEF n
    <2>4. Elems(d.ok) \cup Elems(d.fail) \cup Elems(d.bnc) = Heard(c.idx)
      BY <2>2, <1>2, <1>3, <1>6 DEF SortedOut
    <2>5. Disjoint(d.ok, d.fail) /\ Disjoint(d.ok, d.bnc) /\ Disjoint(d.fail, d.bnc)
      BY <2>2, <1>3, <1>4, <1>6 DEF SortedOut, Disjoint
    <2>. QED
      BY <2>2, <2>3, <2>4, <2>5, <1>3, <1>5 DEF SortedOut, Untouched
  <1>. QED
    BY <1>7, <1>8, <1>9

LEMMA RcptReplyStep ==
    ASSUME Owned(at), Orderly, NEW k, NEW writable \in BOOLEAN, NEW code \in RcptReplies,
           rcpt_reply(k, code, writable)
    PROVE  Owned(at')
  <1>. DEFINE c == at.conn[k]
              d == Recorded(c, code, Rcpts[c.idx])
              a == [at EXCEPT !.conn[k] = d]
  <1>1. /\ writable = TRUE /\ Arrived(k, writable) = at
        /\ Hold(at, k) /\ Dialogue(c) /\ c \in Conn /\ c.cmd = "rcpt"
    BY OnLine DEF rcpt_reply
  <1>2. Asks(c)
    BY <1>1 DEF Dialogue, Greets, Sends, Counts, Greeting, Sending
  <1>3. code \in {"250", "4xx", "5xx"}
    BY DEF Orderly
  <1>4. /\ d \in Conn /\ d.idx = c.idx /\ d.mx = c.mx /\ d.cmd = "rcpt"
        /\ d.net = "open" /\ d.proc /\ SortedOut(d, c.idx) /\ Untouched(d)
    BY <1>1, <1>2, <1>3, RecordedFacts DEF Dialogue
  <1>6. Hold(a, k) /\ a.conn[k] = d
    <2>1. at \in Attempt /\ k \in DOMAIN at.conn
      BY <1>1 DEF Hold
    <2>. HIDE DEF d
    <2>. QED
      BY <1>1, <1>4, <2>1, SetConn DEF Hold
  <1>7. at' = IF ~LastRcpt(d) THEN next_rcpt(a, k, TRUE)
              ELSE IF d.ok # <<>> THEN send_command(a, k, "data", TRUE)
              ELSE finish_processing_mail(a, k, TRUE)
    BY <1>1, <1>6 DEF rcpt_reply
  <1>. HIDE DEF a, c, d
  <1>8. CASE ~LastRcpt(d)
    <2>. DEFINE e == [d EXCEPT !.idx = @ + 1, !.cmd = "rcpt"]
    <2>1. d.idx < Len(Rcpts) /\ d.idx \in Nat
      BY <1>4, <1>8, RcptsLength DEF LastRcpt, Conn
    <2>2. /\ e.proc /\ e.net = "open" /\ e.cmd = "rcpt" /\ e.idx = d.idx + 1
          /\ e.ok = d.ok /\ e.fail = d.fail /\ e.bnc = d.bnc
          /\ e.owed = d.owed /\ e.lidx = d.lidx /\ e.taken = d.taken
      BY <1>4 DEF Conn
    <2>3. e.idx > 0 /\ e.idx - 1 = c.idx
      BY <2>1, <2>2, <1>4
    <2>4. Asks(e)
      BY <2>2, <2>3, <1>4 DEF Asks, SortedOut, Untouched
    <2>5. Dialogue(e)
      BY <2>2, <2>4 DEF Dialogue
    <2>. QED
      BY <1>6, <1>7, <1>8, <2>1, <2>5, NextRcpt
  <1>9. CASE LastRcpt(d) /\ d.ok # <<>>
    <2>. DEFINE e == [d EXCEPT !.cmd = "data"]
    <2>1. /\ e.proc /\ e.net = "open" /\ e.cmd = "data" /\ e.ok = d.ok /\ e.fail = d.fail
          /\ e.bnc = d.bnc /\ e.owed = d.owed /\ e.lidx = d.lidx /\ e.taken = d.taken
      BY <1>4 DEF Conn
    <2>2. Sends(e)
      BY <2>1, <1>4, <1>9 DEF LastRcpt, Sends, SortedOut, Untouched, Sending
    <2>3. Dialogue(e)
      BY <2>1, <2>2 DEF Dialogue
    <2>4. Owned(send_command(a, k, "data", TRUE))
      BY <1>6, <2>3, SendCommand DEF Commands
    <2>. QED
      BY <1>7, <1>9, <2>4
  <1>10. CASE LastRcpt(d) /\ d.ok = <<>>
    <2>1. SortedOut(d, Len(Rcpts)) /\ Elems(d.ok) = d.taken
      BY <1>4, <1>10, ElemsEmpty DEF LastRcpt, Untouched
    <2>2. Owned(finish_processing_mail(a, k, TRUE))
      BY <1>6, <2>1, Finish
    <2>. QED
      BY <1>7, <1>10, <2>2
  <1>. QED
    BY <1>8, <1>9, <1>10

LEMMA DataSentStep ==
    ASSUME Owned(at), NEW k \in DOMAIN at.conn, data_sent(k)
    PROVE  Owned(at')
  <1>. DEFINE c == at.conn[k]
              cmd == IF Mxs[c.mx].lmtp THEN "dot_lmtp" ELSE "dot"
              d == [c EXCEPT !.cmd = cmd]
  <1>1. Hold(at, k) /\ Dialogue(c) /\ c \in Conn /\ c.cmd = "stream"
    BY Speaker, OwnersConn DEF data_sent, SocketOwns
  <1>2. Sends(c)
    BY <1>1 DEF Dialogue, Greets, Asks, Counts, Greeting
  <1>3. /\ d.proc /\ d.net = "open" /\ d.cmd = cmd /\ d.mx = c.mx
        /\ d.ok = c.ok /\ d.fail = c.fail /\ d.bnc = c.bnc
        /\ d.owed = c.owed /\ d.lidx = c.lidx /\ d.taken = c.taken
    BY <1>1 DEF Conn, Dialogue
  <1>4. SortedOut(d, Len(Rcpts)) /\ d.ok # <<>> /\ d.owed = d.ok /\ d.lidx = 0 /\ Untouched(d)
    BY <1>2, <1>3 DEF Sends, SortedOut, Untouched
  <1>5. d.ok \in Seq(All) /\ Len(d.ok) \in Nat \ {0}
    <2>1. d.ok \in Seq(All)
      BY <1>1, <1>3 DEF Conn
    <2>. QED
      BY <2>1, <1>4, EmptySeq
  <1>6. Sends(d) \/ Counts(d)
    <2>1. CASE Mxs[c.mx].lmtp
      <3>1. d.cmd = "dot_lmtp" /\ Mxs[d.mx].lmtp
        BY <1>3, <2>1
      <3>2. d.lidx < Len(d.ok) /\ d.lidx + Len(d.owed) = Len(d.ok)
        <4>. DEFINE n == Len(d.ok)
        <4>1. d.lidx = 0 /\ Len(d.owed) = n /\ n \in Nat \ {0}
          BY <1>4, <1>5
        <4>. HIDE DEF n
        <4>2. 0 < n /\ 0 + n = n
          BY <4>1
        <4>. QED
          BY <4>1, <4>2, Zenon DEF n
      <3>. QED
        BY <3>1, <3>2, <1>4 DEF Counts
    <2>2. CASE ~Mxs[c.mx].lmtp
      BY <2>2, <1>3, <1>4 DEF Sends, Sending
    <2>. QED
      BY <2>1, <2>2
  <1>7. Dialogue(d) /\ cmd \in Commands
    BY <1>3, <1>6 DEF Dialogue, Commands
  <1>8. at' = send_command(at, k, cmd, TRUE)
    BY <1>1 DEF data_sent, Dialogue
  <1>. HIDE DEF cmd
  <1>. QED
    BY <1>1, <1>7, <1>8, SendCommand

LEMMA DotReplyStep ==
    ASSUME Owned(at), Orderly, NEW k, NEW writable \in BOOLEAN, dot_reply(k, writable)
    PROVE  Owned(at')
  <1>. DEFINE c == at.conn[k]
              d == [c EXCEPT !.taken = Elems(c.owed)]
              a == [at EXCEPT !.conn[k] = d]
  <1>1. /\ writable = TRUE /\ Arrived(k, writable) = at
        /\ Hold(at, k) /\ Dialogue(c) /\ c \in Conn /\ c.cmd = "dot"
    BY OnLine DEF dot_reply
  <1>2. Sends(c)
    BY <1>1 DEF Dialogue, Greets, Asks, Counts, Greeting
  <1>3. c.ok \in Seq(All) /\ Elems(c.owed) \subseteq All /\ c.owed = c.ok
    <2>1. c.ok \in Seq(All) /\ c.owed = c.ok
      BY <1>1, <1>2 DEF Conn, Sends, Untouched
    <2>2. \A i \in 1..Len(c.ok) : c.ok[i] \in All
      BY <2>1, ElementOfSeq
    <2>. QED
      BY <2>1, <2>2, ElemsOfSeq
  <1>4. /\ d \in Conn /\ d.ok = c.ok /\ d.fail = c.fail /\ d.bnc = c.bnc
        /\ d.taken = Elems(d.ok)
    BY <1>1, <1>3 DEF Conn
  <1>5. SortedOut(d, Len(Rcpts))
    BY <1>2, <1>4 DEF Sends, SortedOut
  <1>6. [at EXCEPT !.conn[k].taken = Elems(at.conn[k].owed)] = a
    OBVIOUS
  <1>7. at' = finish_processing_mail(a, k, TRUE)
    BY <1>1, <1>6 DEF dot_reply
  <1>8. Hold(a, k) /\ a.conn[k] = d
    <2>1. at \in Attempt /\ k \in DOMAIN at.conn
      BY <1>1 DEF Hold
    <2>. HIDE DEF d
    <2>. QED
      BY <1>1, <1>4, <2>1, SetConn DEF Hold
  <1>. HIDE DEF a, d
  <1>. QED
    BY <1>4, <1>5, <1>7, <1>8, Finish

(* A reply after the data, over LMTP, moves at most one recipient.         *)
LEMMA CountedFacts ==
    ASSUME NEW c \in Conn, Counts(c), NEW code \in {"2xx", "4xx", "5xx"},
           NEW d, d = Counted(c, code)
    PROVE  /\ d \in Conn /\ d.mx = c.mx /\ d.cmd = c.cmd /\ d.net = c.net
           /\ d.proc = c.proc /\ SortedOut(d, Len(Rcpts))
           /\ d.lidx + Len(d.owed) = Len(d.ok)
  <1>. DEFINE r == Head(c.ok)
              x == Len(c.ok)
              y == Len(c.fail)
              z == Len(c.bnc)
              l == c.lidx
              w == Len(c.owed)
              n == Len(Rcpts)
  <1>1. /\ c.ok \in Seq(All) /\ c.fail \in Seq(All) /\ c.bnc \in Seq(All)
        /\ c.owed \in Seq(All) /\ c.lidx \in Nat /\ c.taken \in SUBSET All
        /\ SortedOut(c, n) /\ Once(c.ok)
    BY DEF Conn, Counts, SortedOut
  <1>2. /\ x \in Nat /\ y \in Nat /\ z \in Nat /\ l \in Nat /\ w \in Nat /\ n \in Nat
    BY <1>1, LenProperties, RcptsLength
  <1>3. x + y + z = n /\ l < x /\ l + w = x
    BY DEF Counts, SortedOut
  <1>4. x # 0 /\ w # 0
    <2>. HIDE DEF x, w, l
    <2>. QED
      BY <1>2, <1>3
  <1>5. c.ok # <<>> /\ c.owed # <<>>
    BY <1>4, EmptySeq
  <1>6. /\ r \in All /\ Tail(c.ok) \in Seq(All) /\ Len(Tail(c.ok)) = x - 1
        /\ Elems(c.ok) = Elems(Tail(c.ok)) \cup {r}
        /\ r \notin Elems(Tail(c.ok)) /\ Once(Tail(c.ok))
    BY <1>1, <1>5, FirstAndRest
  <1>7. Head(c.owed) \in All /\ Tail(c.owed) \in Seq(All) /\ Len(Tail(c.owed)) = w - 1
    BY <1>1, <1>5, HeadTailProperties
  <1>8. \A s \in Seq(All) : /\ Append(s, r) \in Seq(All)
                            /\ Elems(Append(s, r)) = Elems(s) \cup {r}
    BY <1>6, AppendProperties, ElemsAppend
  <1>9. Len(Append(c.fail, r)) = y + 1 /\ Len(Append(c.bnc, r)) = z + 1
    BY <1>1, <1>6, AppendProperties
  <1>10. r \notin Elems(c.fail) /\ r \notin Elems(c.bnc)
    BY <1>1, <1>6 DEF SortedOut, Disjoint
  <1>. HIDE DEF r
  <1>11. CASE code = "2xx"
    <2>1. d = [c EXCEPT !.owed = Tail(c.owed), !.taken = c.taken \cup {Head(c.owed)},
                        !.lidx = c.lidx + 1]
      BY <1>11 DEF Counted, Conn
    <2>2. c.taken \cup {Head(c.owed)} \in SUBSET All /\ c.lidx + 1 \in Nat
      BY <1>1, <1>7
    <2>3. /\ d \in Conn /\ d.mx = c.mx /\ d.cmd = c.cmd /\ d.net = c.net /\ d.proc = c.proc
          /\ d.ok = c.ok /\ d.fail = c.fail /\ d.bnc = c.bnc
          /\ d.lidx = l + 1 /\ d.owed = Tail(c.owed)
      BY <2>1, <2>2, <1>7 DEF Conn
    <2>4. SortedOut(d, n)
      BY <2>3, <1>1 DEF SortedOut
    <2>5. d.lidx + Len(d.owed) = Len(d.ok)
      <3>1. d.lidx = l + 1 /\ Len(d.owed) = w - 1 /\ Len(d.ok) = x
        BY <2>3, <1>7
      <3>. HIDE DEF l, w, x
      <3>2. (l + 1) + (w - 1) = x
        BY <1>2, <1>3
      <3>. QED
        BY <3>1, <3>2, Zenon
    <2>. QED
      BY <2>3, <2>4, <2>5
  <1>12. CASE code = "4xx"
    <2>1. d = [c EXCEPT !.owed = Tail(c.owed), !.ok = Tail(c.ok), !.fail = Append(c.fail, r)]
      BY <1>12 DEF Counted, Conn, r
    <2>2. /\ d \in Conn /\ d.mx = c.mx /\ d.cmd = c.cmd /\ d.net = c.net /\ d.proc = c.proc
          /\ d.ok = Tail(c.ok) /\ d.fail = Append(c.fail, r) /\ d.bnc = c.bnc
          /\ d.lidx = l /\ d.owed = Tail(c.owed)
      BY <2>1, <1>1, <1>6, <1>7, <1>8 DEF Conn
    <2>3. Elems(d.ok) \cup Elems(d.fail) \cup Elems(d.bnc) = Heard(n)
      BY <2>2, <1>1, <1>6, <1>8 DEF SortedOut
    <2>4. Disjoint(d.ok, d.fail) /\ Disjoint(d.ok, d.bnc) /\ Disjoint(d.fail, d.bnc)
      BY <2>2, <1>1, <1>6, <1>8, <1>10 DEF SortedOut, Disjoint
    <2>5. Len(d.ok) = x - 1 /\ Len(d.fail) = y + 1 /\ Len(d.bnc) = z
      BY <2>2, <1>6, <1>9
    <2>6. Len(d.ok) + Len(d.fail) + Len(d.bnc) = n
      <3>. HIDE DEF x, y, z, n
      <3>1. (x - 1) + (y + 1) + z = n
        BY <1>2, <1>3
      <3>. QED
        BY <2>5, <3>1, Zenon
    <2>7. d.lidx + Len(d.owed) = Len(d.ok)
      <3>1. d.lidx = l /\ Len(d.owed) = w - 1
        BY <2>2, <1>7
      <3>. HIDE DEF l, w, x
      <3>2. l + (w - 1) = x - 1
        BY <1>2, <1>3
      <3>. QED
        BY <3>1, <3>2, <2>5, Zenon
    <2>. QED
      BY <2>2, <2>3, <2>4, <2>6, <2>7, <1>6 DEF SortedOut
  <1>13. CASE code = "5xx"
    <2>1. d = [c EXCEPT !.owed = Tail(c.owed), !.ok = Tail(c.ok), !.bnc = Append(c.bnc, r)]
      BY <1>13 DEF Counted, Conn, r
    <2>2. /\ d \in Conn /\ d.mx = c.mx /\ d.cmd = c.cmd /\ d.net = c.net /\ d.proc = c.proc
          /\ d.ok = Tail(c.ok) /\ d.fail = c.fail /\ d.bnc = Append(c.bnc, r)
          /\ d.lidx = l /\ d.owed = Tail(c.owed)
      BY <2>1, <1>1, <1>6, <1>7, <1>8 DEF Conn
    <2>3. Elems(d.ok) \cup Elems(d.fail) \cup Elems(d.bnc) = Heard(n)
      BY <2>2, <1>1, <1>6, <1>8 DEF SortedOut
    <2>4. Disjoint(d.ok, d.fail) /\ Disjoint(d.ok, d.bnc) /\ Disjoint(d.fail, d.bnc)
      BY <2>2, <1>1, <1>6, <1>8, <1>10 DEF SortedOut, Disjoint
    <2>5. Len(d.ok) = x - 1 /\ Len(d.fail) = y /\ Len(d.bnc) = z + 1
      BY <2>2, <1>6, <1>9
    <2>6. Len(d.ok) + Len(d.fail) + Len(d.bnc) = n
      <3>. HIDE DEF x, y, z, n
      <3>1. (x - 1) + y + (z + 1) = n
        BY <1>2, <1>3
      <3>. QED
        BY <2>5, <3>1, Zenon
    <2>7. d.lidx + Len(d.owed) = Len(d.ok)
      <3>1. d.lidx = l /\ Len(d.owed) = w - 1
        BY <2>2, <1>7
      <3>. HIDE DEF l, w, x
      <3>2. l + (w - 1) = x - 1
        BY <1>2, <1>3
      <3>. QED
        BY <3>1, <3>2, <2>5, Zenon
    <2>. QED
      BY <2>2, <2>3, <2>4, <2>6, <2>7, <1>6 DEF SortedOut
  <1>. QED
    BY <1>11, <1>12, <1>13

LEMMA DotLmtpReplyStep ==
    ASSUME Owned(at), Orderly, NEW k, NEW writable \in BOOLEAN,
           NEW code \in {"2xx", "4xx", "5xx"}, dot_lmtp_reply(k, code, writable)
    PROVE  Owned(at')
  <1>. DEFINE c == at.conn[k]
              d == Counted(c, code)
              a == [at EXCEPT !.conn[k] = d]
  <1>1. /\ writable = TRUE /\ Arrived(k, writable) = at
        /\ Hold(at, k) /\ Dialogue(c) /\ c \in Conn /\ c.cmd = "dot_lmtp"
    BY OnLine DEF dot_lmtp_reply
  <1>2. Counts(c)
    BY <1>1 DEF Dialogue, Greets, Asks, Sends, Greeting, Sending
  <1>3. /\ d \in Conn /\ d.mx = c.mx /\ d.cmd = "dot_lmtp" /\ d.net = "open"
        /\ d.proc /\ SortedOut(d, Len(Rcpts)) /\ d.lidx + Len(d.owed) = Len(d.ok)
    BY <1>1, <1>2, CountedFacts DEF Dialogue
  <1>4. Mxs[d.mx].lmtp
    BY <1>2, <1>3 DEF Counts
  <1>5. Hold(a, k) /\ a.conn[k] = d
    <2>1. at \in Attempt /\ k \in DOMAIN at.conn
      BY <1>1 DEF Hold
    <2>. HIDE DEF d
    <2>. QED
      BY <1>1, <1>3, <2>1, SetConn DEF Hold
  <1>6. at' = IF LmtpDone(d) THEN finish_processing_mail(a, k, TRUE) ELSE a
    BY <1>1, <1>5 DEF dot_lmtp_reply
  <1>. HIDE DEF a, d
  <1>7. CASE LmtpDone(d)
    <2>1. Owned(finish_processing_mail(a, k, TRUE))
      BY <1>3, <1>4, <1>5, Finish
    <2>. QED
      BY <1>6, <1>7, <2>1
  <1>8. CASE ~LmtpDone(d)
    <2>. DEFINE l == d.lidx
                w == Len(d.owed)
                n == Len(d.ok)
    <2>1. l \in Nat /\ w \in Nat /\ n \in Nat
      <3>1. d.ok \in Seq(All) /\ d.owed \in Seq(All) /\ d.lidx \in Nat
        BY <1>3 DEF Conn
      <3>. QED
        BY <3>1, LenProperties
    <2>2. l # n /\ l + w = n
      BY <1>3, <1>8 DEF LmtpDone
    <2>3. l < n
      <3>. HIDE DEF l, w, n
      <3>. QED
        BY <2>1, <2>2
    <2>4. Dialogue(d)
      BY <1>3, <1>4, <2>3 DEF Dialogue, Counts
    <2>. QED
      BY <1>5, <1>6, <1>8, <2>4 DEF Owned, SocketOwns, Hold
  <1>. QED
    BY <1>7, <1>8

LEMMA RefusedTempStep ==
    ASSUME Owned(at), Orderly, NEW k, NEW writable \in BOOLEAN, refused_temp(k, writable)
    PROVE  Owned(at')
  <1>1. writable = TRUE /\ Arrived(k, writable) = at /\ Hold(at, k)
    BY OnLine DEF refused_temp
  <1>2. at' = quit_and(at, k, TRUE, TempFail)
    BY <1>1 DEF refused_temp
  <1>. QED
    BY <1>1, <1>2, QuitAnd

LEMMA RefusedStep ==
    ASSUME Owned(at), Orderly, NEW k, NEW writable \in BOOLEAN, refused(k, writable)
    PROVE  Owned(at')
  <1>1. /\ writable = TRUE /\ Arrived(k, writable) = at
        /\ Hold(at, k) /\ Dialogue(at.conn[k]) /\ at.conn[k] \in Conn
    BY OnLine DEF refused
  <1>2. CASE at.conn[k].cmd = "ehlo"
    <2>1. at' = send_command(at, k, "helo", TRUE)
      BY <1>1, <1>2 DEF refused
    <2>2. "ehlo" \in Greeting /\ "helo" \in Greeting
      BY DEF Greeting
    <2>3. Dialogue([at.conn[k] EXCEPT !.cmd = "helo"])
      BY <1>1, <1>2, <2>2, Greet
    <2>. QED
      BY <1>1, <2>1, <2>2, <2>3, SendCommand, Greetings
  <1>3. CASE at.conn[k].cmd # "ehlo"
    <2>1. at' = quit_and(at, k, TRUE, Bounce)
      BY <1>1, <1>3 DEF refused
    <2>. QED
      BY <1>1, <2>1, QuitAnd
  <1>. QED
    BY <1>2, <1>3

LEMMA UnrecognisedStep ==
    ASSUME Owned(at), Orderly, NEW k, unrecognised(k)
    PROVE  Owned(at')
  <1>. DEFINE c == at.conn[k]
              d == [c EXCEPT !.proc = FALSE, !.net = "ending"]
              a == [at EXCEPT !.conn[k] = d]
  <1>1. Hold(at, k) /\ c \in Conn
    BY OnLine DEF unrecognised
  <1>2. d \in Conn /\ ~d.proc
    BY <1>1 DEF Conn
  <1>3. NobodyOwns(a)
    BY <1>1, <1>2, LetGo
  <1>4. [at EXCEPT !.conn[k].proc = FALSE, !.conn[k].net = "ending"] = a
    <2>. DEFINE e == [c EXCEPT !.proc = FALSE]
                b == [at EXCEPT !.conn[k] = e]
    <2>1. at \in Attempt /\ k \in DOMAIN at.conn /\ e \in Conn
      BY <1>1 DEF Hold, Conn
    <2>2. b.conn[k] = e
      <3>. HIDE DEF e
      <3>. QED
        BY <2>1, SetConn
    <2>3. [at EXCEPT !.conn[k].proc = FALSE, !.conn[k].net = "ending"]
          = [b EXCEPT !.conn[k] = [b.conn[k] EXCEPT !.net = "ending"]]
      OBVIOUS
    <2>4. [b.conn[k] EXCEPT !.net = "ending"] = d
      BY <2>2, <1>1 DEF Conn
    <2>5. [b EXCEPT !.conn[k] = d] = a
      BY <2>1 DEF Attempt
    <2>. QED
      BY <2>3, <2>4, <2>5
  <1>5. at' = Ended(a, Bounce)
    BY <1>4 DEF unrecognised
  <1>. HIDE DEF a
  <1>. QED
    BY <1>3, <1>5, EndIt, WholeMail DEF Owned

LEMMA TimeoutStep ==
    ASSUME Owned(at), NEW k \in DOMAIN at.conn, timeout(k)
    PROVE  Owned(at')
  <1>. DEFINE c == at.conn[k]
              d == [c EXCEPT !.net = "ending"]
              a == [at EXCEPT !.conn[k] = d]
  <1>1. Hold(at, k) /\ c \in Conn
    BY Speaker, OwnersConn DEF timeout, SocketOwns
  <1>2. d \in Conn
    BY <1>1 DEF Conn
  <1>3. Hold(a, k)
    <2>1. at \in Attempt /\ k \in DOMAIN at.conn
      BY <1>1 DEF Hold
    <2>. HIDE DEF d
    <2>. QED
      BY <1>1, <1>2, <2>1, SetConn DEF Hold
  <1>4. at' = next_host(a, k)
    BY DEF timeout
  <1>. HIDE DEF a
  <1>. QED
    BY <1>3, <1>4, NextHost

(* A socket that does not own the mail may close whoever owns it.          *)
LEMMA OthersClose ==
    ASSUME Owned(at), NEW k \in DOMAIN at.conn, ~at.conn[k].proc,
           NEW d \in Conn, ~d.proc, NEW a, a = [at EXCEPT !.conn[k] = d]
    PROVE  Owned(a) /\ a.out = at.out
  <1>1. at \in Attempt
    BY DEF Owned, LookupOwns, SocketOwns, Hold, EndOwns
  <1>2. /\ a \in Attempt /\ a.lookups = at.lookups /\ a.out = at.out
        /\ DOMAIN a.conn = DOMAIN at.conn /\ a.conn[k] = d
        /\ \A j \in DOMAIN at.conn : j # k => a.conn[j] = at.conn[j]
    BY <1>1, SetConn
  <1>3. CASE LookupOwns(at)
    BY <1>2, <1>3 DEF LookupOwns, Idle, Owned
  <1>4. CASE EndOwns(at)
    BY <1>2, <1>4 DEF EndOwns, Idle, Owned
  <1>5. ASSUME NEW j \in DOMAIN at.conn, SocketOwns(at, j)
        PROVE  SocketOwns(a, j)
    <2>1. j # k
      BY <1>5 DEF SocketOwns, Dialogue
    <2>. QED
      BY <1>2, <1>5, <2>1 DEF SocketOwns, Hold
  <1>. QED
    BY <1>2, <1>3, <1>4, <1>5 DEF Owned

LEMMA ClosedStep ==
    ASSUME Owned(at), NEW k \in DOMAIN at.conn, closed(k)
    PROVE  Owned(at')
  <1>. DEFINE c == at.conn[k]
              d == [NewConn(c.mx) EXCEPT !.net = "closed", !.proc = FALSE]
              a == [at EXCEPT !.conn[k] = d]
  <1>1. at \in Attempt /\ c \in Conn
    <2>1. at \in Attempt
      BY DEF Owned, LookupOwns, SocketOwns, Hold, EndOwns
    <2>. QED
      BY <2>1, LenProperties, ElementOfSeq DEF Attempt
  <1>2. d \in Conn /\ ~d.proc
    <2>1. c.mx \in 1..Len(Mxs)
      BY <1>1 DEF Conn
    <2>2. NewConn(c.mx) \in Conn
      BY <2>1, NewConnType
    <2>. QED
      BY <2>2 DEF Conn
  <1>3. at' = IF c.proc THEN next_host(a, k) ELSE a
    BY DEF closed
  <1>. HIDE DEF a, d
  <1>4. CASE c.proc
    <2>1. Hold(at, k)
      BY <1>4, Speaker DEF SocketOwns
    <2>2. Hold(a, k)
      BY <1>1, <1>2, <2>1, SetConn DEF Hold, a
    <2>. QED
      BY <1>3, <1>4, <2>2, NextHost
  <1>5. CASE ~c.proc
    BY <1>2, <1>3, <1>5, OthersClose DEF a
  <1>. QED
    BY <1>4, <1>5

----------------------------------------------------------------------------
LEMMA InitOwned == Init => Owned(at)
  <1>. SUFFICES ASSUME Init
                PROVE  LookupOwns(at)
    BY DEF Owned
  <1>1. 2 \in 1..(Len(Mxs) + 1) /\ 1 \in 1..Len(Mxs)
    BY MxsLength
  <1>2. <<>> \in Seq(Conn) /\ <<>> \in Seq(Ends)
    BY EmptySeq
  <1>3. at \in Attempt /\ at.out = <<>> /\ at.lookups = {1} /\ at.conn = <<>>
    BY <1>1, <1>2 DEF Init, Attempt
  <1>4. Idle(at)
    BY <1>3 DEF Idle
  <1>. QED
    BY <1>1, <1>3, <1>4 DEF LookupOwns

LEMMA NextOwned ==
    ASSUME Orderly, Owned(at), [Next]_at
    PROVE  Owned(at')
  <1>1. ASSUME NEW m \in 1..Len(Mxs), resolved(m)
        PROVE  Owned(at')
    BY <1>1, ResolvedStep
  <1>2. ASSUME NEW k \in DOMAIN at.conn, NEW writable \in BOOLEAN, Reply(k, writable)
        PROVE  Owned(at')
    BY <1>2, AcceptedStep, RcptReplyStep, DotReplyStep, DotLmtpReplyStep,
       RefusedTempStep, RefusedStep DEF Reply
  <1>3. ASSUME NEW k \in DOMAIN at.conn,
               unrecognised(k) \/ secure(k) \/ data_sent(k) \/ timeout(k) \/ closed(k)
        PROVE  Owned(at')
    BY <1>3, UnrecognisedStep, SecureStep, DataSentStep, TimeoutStep, ClosedStep
  <1>4. CASE UNCHANGED at
    BY <1>4
  <1>. QED
    BY <1>1, <1>2, <1>3, <1>4 DEF Next

(* Once the attempt is over nothing ends it again.                         *)
LEMMA OverForGood ==
    ASSUME Owned(at), at.out # <<>>, [Next]_at
    PROVE  at'.out = at.out
  <1>1. EndOwns(at)
    BY DEF Owned, LookupOwns, SocketOwns, Hold
  <1>2. at.lookups = {} /\ \A k \in DOMAIN at.conn : ~at.conn[k].proc
    BY <1>1 DEF EndOwns, Idle
  <1>3. (\E k \in DOMAIN at.conn : closed(k)) \/ UNCHANGED at
    <2>1. \A m \in 1..Len(Mxs) : ~resolved(m)
      BY <1>2 DEF resolved
    <2>2. \A k \in DOMAIN at.conn, writable \in BOOLEAN : ~Line(k, writable)
      BY <1>2 DEF Line
    <2>3. ASSUME NEW k \in DOMAIN at.conn, NEW writable \in BOOLEAN, Reply(k, writable)
          PROVE  Line(k, writable)
      BY <2>3 DEF Reply, accepted, rcpt_reply, dot_reply, dot_lmtp_reply,
                  refused_temp, refused
    <2>4. \A k \in DOMAIN at.conn :
            ~unrecognised(k) /\ ~secure(k) /\ ~data_sent(k) /\ ~timeout(k)
      BY <1>2, <2>2 DEF unrecognised, secure, data_sent, timeout
    <2>. QED
      BY <2>1, <2>2, <2>3, <2>4 DEF Next
  <1>4. ASSUME NEW k \in DOMAIN at.conn, closed(k)
        PROVE  at'.out = at.out
    <2>. DEFINE d == [NewConn(at.conn[k].mx) EXCEPT !.net = "closed", !.proc = FALSE]
    <2>1. at' = [at EXCEPT !.conn[k] = d]
      BY <1>2, <1>4 DEF closed
    <2>. QED
      BY <2>1, <1>1 DEF EndOwns, Attempt
  <1>. QED
    BY <1>3, <1>4

----------------------------------------------------------------------------
(* The theorems.                                                           *)

LEMMA OwnedAlways == Orderly => (Spec => []Owned(at))
  <1>. SUFFICES ASSUME Orderly
                PROVE  Spec => []Owned(at)
    OBVIOUS
  <1>1. Init => Owned(at)
    BY InitOwned
  <1>2. Owned(at) /\ [Next]_at => Owned(at)'
    BY NextOwned
  <1>. QED
    BY <1>1, <1>2, PTL DEF Spec

(* Every state of an attempt is of its type: recip_index stays within the  *)
(* list of recipients, and no list is taken the head of when it is empty.  *)
THEOREM TypeCorrect == Orderly => (Spec => []TypeOK)
  <1>1. Owned(at) => TypeOK
    BY DEF Owned, LookupOwns, SocketOwns, Hold, EndOwns, TypeOK
  <1>. QED
    BY <1>1, OwnedAlways, PTL

LEMMA NoneProcessing ==
    ASSUME Idle(at)
    PROVE  Processing = {}
  BY DEF Processing, Idle

(* For every list of MXs and whatever the servers do, the mail is at any   *)
(* moment with exactly one name lookup, one socket or one end.             *)
THEOREM AlwaysOneOwner == Orderly => (Spec => []OneOwner)
  <1>1. ASSUME LookupOwns(at)
        PROVE  OneOwner
    <2>1. PICK m \in 1..Len(Mxs) : at.lookups = {m}
      BY <1>1 DEF LookupOwns
    <2>2. Cardinality(at.lookups) = 1
      BY <2>1, FS_Singleton
    <2>3. Cardinality(Processing) = 0 /\ Len(at.out) = 0
      BY <1>1, NoneProcessing, FS_EmptySet DEF LookupOwns
    <2>. QED
      BY <2>2, <2>3 DEF OneOwner
  <1>2. ASSUME NEW k \in DOMAIN at.conn, SocketOwns(at, k)
        PROVE  OneOwner
    <2>1. Processing = {k}
      BY <1>2 DEF SocketOwns, Hold, Dialogue, Processing
    <2>2. Cardinality(Processing) = 1
      BY <2>1, FS_Singleton
    <2>3. Cardinality(at.lookups) = 0 /\ Len(at.out) = 0
      BY <1>2, FS_EmptySet DEF SocketOwns, Hold
    <2>. QED
      BY <2>2, <2>3 DEF OneOwner
  <1>3. ASSUME EndOwns(at)
        PROVE  OneOwner
    <2>1. Cardinality(at.lookups) = 0 /\ Cardinality(Processing) = 0
      BY <1>3, NoneProcessing, FS_EmptySet DEF EndOwns
    <2>. QED
      BY <1>3, <2>1 DEF EndOwns, OneOwner
  <1>4. Owned(at) => OneOwner
    BY <1>1, <1>2, <1>3 DEF Owned
  <1>. QED
    BY <1>4, OwnedAlways, PTL

LEMMA EndIsGood ==
    ASSUME Owned(at), NEW e \in Elems(at.out)
    PROVE  EndOwns(at) /\ e = at.out[1] /\ GoodEnd(e)
  <1>1. at.out # <<>>
    BY ElemsEmpty
  <1>2. EndOwns(at)
    BY <1>1 DEF Owned, LookupOwns, SocketOwns, Hold
  <1>3. at.out \in Seq(Ends) /\ Len(at.out) = 1
    BY <1>2 DEF EndOwns, Attempt
  <1>4. Elems(at.out) = {at.out[1]}
    <2>1. Elems(at.out) = {at.out[i] : i \in 1..1}
      BY <1>3, ElemsOfSeq
    <2>. QED
      BY <2>1
  <1>. QED
    BY <1>2, <1>4 DEF EndOwns

(* When the dialogue ends the attempt, every recipient of the mail is in   *)
(* exactly one of the lists of delivered, deferred and rejected ones.      *)
THEOREM AlwaysReported == Orderly => (Spec => []EveryRecipientReported)
  <1>1. Owned(at) => EveryRecipientReported
    <2>. SUFFICES ASSUME Owned(at), NEW e \in Elems(at.out), e.kind = "finished"
                  PROVE  /\ Elems(e.ok) \cup Elems(e.fail) \cup Elems(e.bnc) = All
                         /\ Disjoint(e.ok, e.fail) /\ Disjoint(e.ok, e.bnc)
                         /\ Disjoint(e.fail, e.bnc)
                         /\ Len(e.ok) + Len(e.fail) + Len(e.bnc) = Len(Rcpts)
      BY DEF EveryRecipientReported
    <2>1. SortedOut(e, Len(Rcpts))
      BY EndIsGood DEF GoodEnd, TempFail, Bounce
    <2>2. Heard(Len(Rcpts)) = All
      BY RcptsAssumption, ElemsOfSeq DEF Heard, All
    <2>. QED
      BY <2>1, <2>2 DEF SortedOut
  <1>. QED
    BY <1>1, OwnedAlways, PTL

(* Over SMTP the recipients the delivered hook is told of are those the    *)
(* server took the mail for.                                               *)
THEOREM SmtpReport == Orderly => (Spec => []SmtpReportIsTrue)
  <1>1. Owned(at) => SmtpReportIsTrue
    <2>. SUFFICES ASSUME Owned(at), NEW e \in Reports(FALSE)
                  PROVE  Truthful(e)
      BY DEF SmtpReportIsTrue
    <2>1. e \in Elems(at.out) /\ e.kind = "finished" /\ e.lmtp = FALSE
      BY DEF Reports
    <2>. QED
      BY <2>1, EndIsGood DEF GoodEnd, TempFail, Bounce
  <1>. QED
    BY <1>1, OwnedAlways, PTL

----------------------------------------------------------------------------
(* The attempt implements DeliveryAttempt.                                 *)

LEMMA VerdictForAll ==
    ASSUME NEW e, SortedOut(e, Len(Rcpts))
    PROVE  Verdicts(e) \in [All -> Abstract!Verdict]
  <1>1. All = Elems(e.ok) \cup Elems(e.fail) \cup Elems(e.bnc)
    BY RcptsAssumption, ElemsOfSeq DEF Heard, All, SortedOut
  <1>. QED
    BY <1>1 DEF Verdicts, Abstract!Verdict

LEMMA EndStep ==
    ASSUME Owned(at), Owned(at'), at.out = <<>>, at'.out # <<>>
    PROVE  Abstract!Next
  <1>. DEFINE e == at'.out[1]
  <1>1. EndOwns(at')
    BY DEF Owned, LookupOwns, SocketOwns, Hold
  <1>2. GoodEnd(e) /\ ~(Len(at'.out) > 1)
    BY <1>1 DEF EndOwns
  <1>3. outcome = Abstract!Pending
    BY DEF outcome, Abstract!Pending
  <1>4. outcome' = IF e.kind = "finished"
                   THEN [kind |-> "finished", verdict |-> Verdicts(e)] ELSE e
    BY <1>2 DEF outcome
  <1>5. CASE e = TempFail
    <2>1. outcome' = Abstract!TempFail
      BY <1>4, <1>5 DEF TempFail, Abstract!TempFail
    <2>. QED
      BY <1>3, <2>1 DEF Abstract!Next, Abstract!End
  <1>6. CASE e = Bounce
    <2>1. outcome' = Abstract!Bounce
      BY <1>4, <1>6 DEF Bounce, Abstract!Bounce
    <2>. QED
      BY <1>3, <2>1 DEF Abstract!Next, Abstract!End
  <1>7. CASE e.kind = "finished" /\ SortedOut(e, Len(Rcpts))
    <2>1. outcome' = Abstract!Finished(Verdicts(e))
      BY <1>4, <1>7 DEF Abstract!Finished
    <2>2. Verdicts(e) \in [All -> Abstract!Verdict]
      BY <1>7, VerdictForAll
    <2>. QED
      BY <1>3, <2>1, <2>2 DEF Abstract!Next, Abstract!End
  <1>. QED
    BY <1>2, <1>5, <1>6, <1>7 DEF GoodEnd

(* The attempt ends once, in one of the ways DeliveryAttempt lists, with a *)
(* verdict for every recipient; every other step of it is a stutter.       *)
THEOREM Implementation == Orderly => (Spec => ImplementsAttempt)
  <1>1. Init => Abstract!Init
    BY DEF Init, outcome, Abstract!Init, Abstract!Pending
  <1>2. Owned(at) /\ Owned(at)' /\ [Next]_at => [Abstract!Next]_outcome
    <2>. SUFFICES ASSUME Owned(at), Owned(at'), [Next]_at
                  PROVE  [Abstract!Next]_outcome
      OBVIOUS
    <2>1. CASE at'.out = at.out
      BY <2>1 DEF outcome
    <2>2. CASE at'.out # at.out
      <3>1. at.out = <<>> /\ at'.out # <<>>
        BY <2>2, OverForGood
      <3>. QED
        BY <3>1, EndStep
    <2>. QED
      BY <2>1, <2>2
  <1>. QED
    BY <1>1, <1>2, OwnedAlways, PTL DEF Spec, ImplementsAttempt, Abstract!Spec

=============================================================================
