----------------------- MODULE SmtpClientPool_proofs -----------------------
(***************************************************************************)
(* Theorems about SmtpClientPool for any senders, messages and clients.    *)
(***************************************************************************)
EXTENDS SmtpClientPool, SequenceTheorems, FiniteSetTheorems, WellFoundedInduction, TLAPS

----------------------------------------------------------------------------
(* The state.                                                              *)
TxId == {NoTx} \union (Conns \X Nat)

Commands == {"greeting", "ehlo", "helo", "xclient", "starttls", "auth", "mail", "rcpt", "data",
             "dot", "rset"}

Hooks == {"", "mail", "rcpt_ok", "data", "queue"}

Client ==
    [state : {"none", "ACTIVE", "RELEASED", "IDLE", "DESTROYED"}, command : Commands,
     connected : BOOLEAN, authenticated : BOOLEAN, xclient : BOOLEAN, tls : BOOLEAN,
     ears : Seq(Conns), pool : BOOLEAN, next : TxId, txn : TxId, rcpt : Nat,
     slipped : BOOLEAN]

Line == [cmd : Commands, tx : TxId, whole : BOOLEAN, clean : BOOLEAN]

Envelope == [from : TxId, rcpts : SUBSET TxId, body : BOOLEAN]

Conn == [up : BOOLEAN, tx : Nat, count : Nat, asked : Nat, rcpts : Nat, data : BOOLEAN,
         hook : Hooks, calls : Nat, note : {0} \union Ids,
         told : SUBSET [tx : Nat, slipped : BOOLEAN]]

Caller == [conn : Conns, id : Nat, tx : TxId]

Message == [from : TxId, rcpts : SUBSET TxId, body : TxId, clean : BOOLEAN, slipped : BOOLEAN]

World == [cl : [Ids -> Client], wire : [Ids -> Seq(Line)], srv : [Ids -> Envelope],
          cn : [Conns -> Conn], avail : Seq(Ids), waiting : Seq(Caller),
          accepted : SUBSET Message, ahead : Seq(Commanded)]

----------------------------------------------------------------------------
(* The invariant.                                                          *)

Gone(x) == x.state \in {"none", "DESTROYED"}

(* A hook of c waits for an answer, and k has its next.                    *)
Holds(w, k, c) == w.cn[c].hook # "" /\ w.cl[k].next = <<c, w.cn[c].calls>>

(* What upstream has of the transaction t.                                 *)
Mailed(e, t) ==
    /\ e.from \in {NoTx, t} /\ e.rcpts \subseteq {t}
    /\ e.rcpts # {} => e.from = t
    /\ e.body => e.rcpts # {}

(* At most one command is unanswered, the client's.                        *)
OneLine(x, s) ==
    s # <<>> => \E h \in Line : s = <<h>> /\ h.cmd = x.command /\ h.clean

(* The sender a client works for, and perhaps one who has left.            *)
EarsAre(w, ears, c) ==
    \/ ears = <<c>>
    \/ plugin = "proxy" /\ \E e \in Conns : ~w.cn[e].up /\ ears = <<e, c>>

LeftOver(w, ears) == ears = <<>> \/ \E e \in Conns : ~w.cn[e].up /\ ears = <<e>>

(* c's hook waits for k, for the transaction k was given.                  *)
WaitsFor(w, k, c) ==
    w.cn[c].up => Holds(w, k, c) /\ w.cn[c].tx # 0 /\ w.cl[k].txn = <<c, w.cn[c].tx>>

Serves(w, k, c) ==
    LET x == w.cl[k]
        s == w.wire[k] IN
    /\ ~x.pool /\ EarsAre(w, x.ears, c)
    /\ OneLine(x, s)
    /\ s # <<>> => /\ s[1].cmd \in {"mail", "rcpt", "dot"} => s[1].tx = x.txn
                   /\ WaitsFor(w, k, c)
    /\ Mailed(w.srv[k], x.txn)

Released(w, k) ==
    LET x == w.cl[k] IN
    x.pool /\ LeftOver(w, x.ears) /\ OneLine(x, w.wire[k]) /\ x.command = "rset"

Resting(w, k) ==
    LET x == w.cl[k] IN
    /\ ~x.pool /\ w.wire[k] = <<>> /\ w.srv[k] = Idle
    /\ LeftOver(w, x.ears) /\ (plugin # "proxy" => x.ears = <<>>)

(* The client in a sender's notes is his; before MAIL has got one, it may  *)
(* be the one of the message before.                                       *)
Settled(w, k, c) == w.cn[c].hook # "mail" \/ Holds(w, k, c)

InNotes(w, k, c) ==
    w.cn[c].up /\ w.cn[c].note = k /\ w.cl[k].state # "DESTROYED" =>
        /\ w.cl[k].state = "ACTIVE" /\ Last(w.cl[k].ears) = c
        /\ Settled(w, k, c) /\ w.cn[c].tx # 0 => w.cl[k].txn = <<c, w.cn[c].tx>>

(* A client that was never reused too early.                               *)
Own(w, k) ==
    ~w.cl[k].slipped =>
        /\ w.cl[k].state = "ACTIVE" => \E c \in Conns : Serves(w, k, c)
        /\ w.cl[k].state = "RELEASED" => Released(w, k)
        /\ w.cl[k].state = "IDLE" => Resting(w, k)
        /\ \A c \in Conns : InNotes(w, k, c)

GoneIs(w, k) ==
    /\ Gone(w.cl[k]) => w.wire[k] = <<>> /\ w.srv[k] = Idle
    /\ w.cl[k].slipped => w.cl[k].state # "none"

(* A call the pool has not served.                                         *)
Called(w, call) ==
    LET c == call.conn IN
    w.cn[c].up => /\ w.cn[c].hook # "" /\ call.id = w.cn[c].calls
                  /\ w.cn[c].tx # 0 /\ call.tx = <<c, w.cn[c].tx>>
                  /\ \A k \in Ids : w.cl[k].next # <<c, call.id>>

(* Hooks, the calls that wait for the pool, and who answers.               *)
Links(w) ==
    /\ \A c \in Conns : ~w.cn[c].up => w.cn[c].tx = 0 /\ w.cn[c].hook = ""
    /\ \A c \in Conns : plugin # "proxy" => w.cn[c].note = 0
    /\ \A k \in Ids, c \in Conns, n \in Nat :
          w.cn[c].up /\ w.cl[k].next = <<c, n>> => n <= w.cn[c].calls
    /\ \A c \in Conns, j, k \in Ids : Holds(w, j, c) /\ Holds(w, k, c) => j = k
    /\ \A c \in Conns, k \in Ids : Holds(w, k, c) => w.cn[c].note \in {0, k} \/ plugin # "proxy"
    /\ \A i \in 1..Len(w.waiting) : Called(w, w.waiting[i])
    /\ \A i, j \in 1..Len(w.waiting) :
          w.waiting[i].conn = w.waiting[j].conn /\ w.cn[w.waiting[i].conn].up => i = j

Pooled(x) == ~Gone(x) /\ (x.slipped \/ x.state = "IDLE")

InPool(s, k) == \E i \in 1..Len(s) : s[i] = k

Pool(w) ==
    /\ \A i, j \in 1..Len(w.avail) : w.avail[i] = w.avail[j] => i = j
    /\ \A k \in Ids : InPool(w.avail, k) => Pooled(w.cl[k])

OfOne(m) == ~m.slipped => m.clean /\ m.from = m.body /\ m.rcpts = {m.body}

Truth(w) ==
    /\ \A m \in w.accepted : OfOne(m)
    /\ \A c \in Conns : \A t \in w.cn[c].told :
          t.slipped \/ \E m \in w.accepted : m.body = <<c, t.tx>>

(* All of it, but for what concerns k.                                     *)
Rest(w, k) ==
    /\ w \in World
    /\ \A j \in Ids : GoneIs(w, j)
    /\ \A j \in Ids : j # k => Own(w, j)
    /\ Links(w) /\ Pool(w) /\ Truth(w)

Good(w) ==
    /\ w \in World
    /\ \A j \in Ids : GoneIs(w, j)
    /\ \A j \in Ids : Own(w, j)
    /\ Links(w) /\ Pool(w) /\ Truth(w)

(* Of a client that was reused too early only this is known.               *)
Slip(w, k) == Rest(w, k) /\ w.cl[k].slipped

----------------------------------------------------------------------------
(* Changing one client.                                                    *)
Put(w, k, x, s, e) == [w EXCEPT !.cl[k] = x, !.wire[k] = s, !.srv[k] = e]

LEMMA WorldIs ==
    ASSUME NEW w \in World
    PROVE  /\ w.cl \in [Ids -> Client] /\ w.wire \in [Ids -> Seq(Line)]
           /\ w.srv \in [Ids -> Envelope] /\ w.cn \in [Conns -> Conn]
           /\ w.avail \in Seq(Ids) /\ w.waiting \in Seq(Caller) /\ w.accepted \in SUBSET Message
           /\ \A k \in Ids : w.cl[k] \in Client /\ w.wire[k] \in Seq(Line) /\ w.srv[k] \in Envelope
           /\ \A c \in Conns : w.cn[c] \in Conn
  BY DEF World

LEMMA Put_Is ==
    ASSUME NEW w \in World, NEW k \in Ids, NEW x \in Client, NEW s \in Seq(Line), NEW e \in Envelope
    PROVE  /\ Put(w, k, x, s, e) \in World
           /\ Put(w, k, x, s, e).cl[k] = x
           /\ Put(w, k, x, s, e).wire[k] = s
           /\ Put(w, k, x, s, e).srv[k] = e
           /\ \A j \in Ids : j # k => /\ Put(w, k, x, s, e).cl[j] = w.cl[j]
                                      /\ Put(w, k, x, s, e).wire[j] = w.wire[j]
                                      /\ Put(w, k, x, s, e).srv[j] = w.srv[j]
           /\ Put(w, k, x, s, e).cn = w.cn /\ Put(w, k, x, s, e).avail = w.avail
           /\ Put(w, k, x, s, e).waiting = w.waiting /\ Put(w, k, x, s, e).accepted = w.accepted
  <1>. PICK v : v = Put(w, k, x, s, e)
    OBVIOUS
  <1>1. v = [w EXCEPT !.cl = [w.cl EXCEPT ![k] = x], !.wire = [w.wire EXCEPT ![k] = s],
                      !.srv = [w.srv EXCEPT ![k] = e]]
    BY DEF Put
  <1>0. w.cl \in [Ids -> Client] /\ w.wire \in [Ids -> Seq(Line)] /\ w.srv \in [Ids -> Envelope]
    BY WorldIs
  <1>2. PICK cls \in [Ids -> Client] :
           cls = [w.cl EXCEPT ![k] = x] /\ cls[k] = x
           /\ \A j \in Ids : j # k => cls[j] = w.cl[j]
    <2>. DEFINE g == [w.cl EXCEPT ![k] = x]
    <2>1. g \in [Ids -> Client] /\ g[k] = x /\ \A j \in Ids : j # k => g[j] = w.cl[j]
      BY <1>0
    <2>. QED
      BY <2>1
  <1>3. PICK wires \in [Ids -> Seq(Line)] :
           wires = [w.wire EXCEPT ![k] = s] /\ wires[k] = s
           /\ \A j \in Ids : j # k => wires[j] = w.wire[j]
    <2>. DEFINE g == [w.wire EXCEPT ![k] = s]
    <2>1. g \in [Ids -> Seq(Line)] /\ g[k] = s /\ \A j \in Ids : j # k => g[j] = w.wire[j]
      BY <1>0
    <2>. QED
      BY <2>1
  <1>4. PICK srvs \in [Ids -> Envelope] :
           srvs = [w.srv EXCEPT ![k] = e] /\ srvs[k] = e
           /\ \A j \in Ids : j # k => srvs[j] = w.srv[j]
    <2>. DEFINE g == [w.srv EXCEPT ![k] = e]
    <2>1. g \in [Ids -> Envelope] /\ g[k] = e /\ \A j \in Ids : j # k => g[j] = w.srv[j]
      BY <1>0
    <2>. QED
      BY <2>1
  <1>5. v = [w EXCEPT !.cl = cls, !.wire = wires, !.srv = srvs]
    BY <1>1, <1>2, <1>3, <1>4
  <1>6. v \in World
    BY ONLY <1>2, <1>3, <1>4, <1>5, w \in World DEF World
  <1>7. /\ v.cl = cls /\ v.wire = wires /\ v.srv = srvs /\ v.cn = w.cn /\ v.avail = w.avail
        /\ v.waiting = w.waiting /\ v.accepted = w.accepted
    BY <1>5 DEF World
  <1>. QED
    BY <1>2, <1>3, <1>4, <1>6, <1>7

(* What is known of a client depends on it and on the connections.         *)
SameClient(w, v, j) == v.cl[j] = w.cl[j] /\ v.wire[j] = w.wire[j] /\ v.srv[j] = w.srv[j]

LEMMA SameOwn ==
    ASSUME NEW w, NEW v, NEW j \in Ids, SameClient(w, v, j), v.cn = w.cn, Own(w, j)
    PROVE  Own(v, j)
  <1>1. ASSUME NEW c \in Conns
        PROVE  InNotes(w, j, c) <=> InNotes(v, j, c)
    BY DEF InNotes, Settled, Holds, SameClient
  <1>2. \A ears : LeftOver(w, ears) <=> LeftOver(v, ears)
    BY DEF LeftOver
  <1>3. Released(w, j) <=> Released(v, j)
    BY <1>2 DEF Released, SameClient
  <1>4. Resting(w, j) <=> Resting(v, j)
    BY <1>2 DEF Resting, SameClient
  <1>5. ASSUME NEW c \in Conns
        PROVE  Serves(w, j, c) <=> Serves(v, j, c)
    <2>1. \A ears : EarsAre(w, ears, c) <=> EarsAre(v, ears, c)
      BY DEF EarsAre
    <2>2. WaitsFor(w, j, c) <=> WaitsFor(v, j, c)
      BY DEF WaitsFor, Holds, SameClient
    <2>. QED
      BY <2>1, <2>2 DEF Serves, SameClient
  <1>. QED
    BY <1>1, <1>3, <1>4, <1>5 DEF Own, SameClient

LEMMA SameLinks ==
    ASSUME NEW w, NEW v, Links(w), v.cn = w.cn, v.waiting = w.waiting,
           \A j \in Ids : v.cl[j].next \in {NoTx, w.cl[j].next}
    PROVE  Links(v)
  <1>0. \A j \in Ids : \A c, n : v.cl[j].next = <<c, n>> => w.cl[j].next = <<c, n>>
    BY DEF NoTx
  <1>1. \A k \in Ids, c \in Conns : Holds(v, k, c) => Holds(w, k, c)
    BY <1>0 DEF Holds
  <1>2. \A i \in 1..Len(w.waiting) : Called(v, w.waiting[i])
    <2>1. \A call : Called(w, call) => Called(v, call)
      BY <1>0 DEF Called
    <2>. QED
      BY <2>1 DEF Links
  <1>3. /\ \A c \in Conns : ~w.cn[c].up => w.cn[c].tx = 0 /\ w.cn[c].hook = ""
        /\ \A c \in Conns : plugin # "proxy" => w.cn[c].note = 0
        /\ \A k \in Ids, c \in Conns, n \in Nat :
              w.cn[c].up /\ w.cl[k].next = <<c, n>> => n <= w.cn[c].calls
        /\ \A c \in Conns, j, k \in Ids : Holds(w, j, c) /\ Holds(w, k, c) => j = k
        /\ \A c \in Conns, k \in Ids : Holds(w, k, c) => w.cn[c].note \in {0, k} \/ plugin # "proxy"
        /\ \A i, j \in 1..Len(w.waiting) :
              w.waiting[i].conn = w.waiting[j].conn /\ w.cn[w.waiting[i].conn].up => i = j
    BY DEF Links
  <1>4. ASSUME NEW k \in Ids, NEW c \in Conns, NEW n \in Nat, v.cn[c].up, v.cl[k].next = <<c, n>>
        PROVE  n <= v.cn[c].calls
    <2>1. w.cl[k].next = <<c, n>> /\ w.cn[c].up /\ v.cn[c].calls = w.cn[c].calls
      BY <1>0, <1>4
    <2>2. n <= w.cn[c].calls
      BY <1>3, <2>1
    <2>. QED
      BY <2>1, <2>2
  <1>5. \A c \in Conns, j, k \in Ids : Holds(v, j, c) /\ Holds(v, k, c) => j = k
    BY <1>1, <1>3
  <1>6. \A c \in Conns, k \in Ids : Holds(v, k, c) => v.cn[c].note \in {0, k} \/ plugin # "proxy"
    BY <1>1, <1>3
  <1>. QED
    BY <1>2, <1>3, <1>4, <1>5, <1>6 DEF Links

LEMMA RestIfLinks ==
    ASSUME NEW w, NEW k \in Ids, Rest(w, k),
           NEW x \in Client, NEW s \in Seq(Line), NEW e \in Envelope,
           Links(Put(w, k, x, s, e)), Gone(x) => s = <<>> /\ e = Idle,
           x.slipped => x.state # "none",
           InPool(w.avail, k) => Pooled(x)
    PROVE  Rest(Put(w, k, x, s, e), k)
  <1>. PICK v : v = Put(w, k, x, s, e)
    OBVIOUS
  <1>0. w \in World /\ Pool(w) /\ Truth(w)
        /\ (\A j \in Ids : GoneIs(w, j)) /\ (\A j \in Ids : j # k => Own(w, j))
    BY DEF Rest
  <1>1. /\ v \in World
        /\ v.cl[k] = x /\ v.wire[k] = s /\ v.srv[k] = e
        /\ \A j \in Ids : j # k => /\ v.cl[j] = w.cl[j] /\ v.wire[j] = w.wire[j]
                                   /\ v.srv[j] = w.srv[j]
        /\ v.cn = w.cn /\ v.avail = w.avail /\ v.waiting = w.waiting /\ v.accepted = w.accepted
    BY <1>0, Put_Is
  <1>2. ASSUME NEW j \in Ids
        PROVE  GoneIs(v, j)
    BY <1>0, <1>1 DEF GoneIs
  <1>3. ASSUME NEW j \in Ids, j # k
        PROVE  Own(v, j)
    <2>1. Own(w, j)
      BY <1>0, <1>3
    <2>2. SameClient(w, v, j) /\ v.cn = w.cn
      BY <1>1, <1>3 DEF SameClient
    <2>. QED
      BY <2>1, <2>2, SameOwn
  <1>4. Pool(v)
    BY <1>0, <1>1 DEF Pool
  <1>5. Truth(v)
    BY <1>0, <1>1 DEF Truth
  <1>. QED
    BY <1>1, <1>2, <1>3, <1>4, <1>5 DEF Rest

LEMMA RestPut ==
    ASSUME NEW w, NEW k \in Ids, Rest(w, k),
           NEW x \in Client, NEW s \in Seq(Line), NEW e \in Envelope,
           x.next \in {NoTx, w.cl[k].next}, Gone(x) => s = <<>> /\ e = Idle,
           x.slipped => x.state # "none",
           InPool(w.avail, k) => Pooled(x)
    PROVE  Rest(Put(w, k, x, s, e), k)
  <1>. PICK v : v = Put(w, k, x, s, e)
    OBVIOUS
  <1>0. w \in World /\ Links(w)
    BY DEF Rest
  <1>1. /\ v.cl[k] = x /\ \A j \in Ids : j # k => v.cl[j] = w.cl[j]
        /\ v.cn = w.cn /\ v.waiting = w.waiting
    BY <1>0, Put_Is
  <1>2. \A j \in Ids : v.cl[j].next \in {NoTx, w.cl[j].next}
    BY <1>1
  <1>3. Links(v)
    BY <1>0, <1>1, <1>2, SameLinks
  <1>. QED
    BY <1>3, RestIfLinks

(* The next of c's hook is given to k.                                     *)
MayServe(w, k, c, id) ==
    w.cn[c].up =>
        /\ id = w.cn[c].calls /\ (w.cn[c].note \in {0, k} \/ plugin # "proxy")
        /\ \A j \in Ids : j # k => w.cl[j].next # <<c, id>>
        /\ \A i \in 1..Len(w.waiting) : w.waiting[i].conn # c

LEMMA RestNext ==
    ASSUME NEW w, NEW k \in Ids, Rest(w, k), NEW c \in Conns, NEW id \in Nat,
           NEW x \in Client, NEW s \in Seq(Line), NEW e \in Envelope,
           x.next = <<c, id>>, MayServe(w, k, c, id), Gone(x) => s = <<>> /\ e = Idle,
           x.slipped => x.state # "none",
           InPool(w.avail, k) => Pooled(x)
    PROVE  Rest(Put(w, k, x, s, e), k)
  <1>. PICK v : v = Put(w, k, x, s, e)
    OBVIOUS
  <1>0. w \in World
    BY DEF Rest
  <1>1. /\ v.cl[k] = x /\ \A j \in Ids : j # k => v.cl[j] = w.cl[j]
        /\ v.cn = w.cn /\ v.waiting = w.waiting
    BY <1>0, Put_Is
  <1>2. /\ \A d \in Conns : ~w.cn[d].up => w.cn[d].tx = 0 /\ w.cn[d].hook = ""
        /\ \A d \in Conns : plugin # "proxy" => w.cn[d].note = 0
        /\ \A j \in Ids, d \in Conns, n \in Nat :
              w.cn[d].up /\ w.cl[j].next = <<d, n>> => n <= w.cn[d].calls
        /\ \A d \in Conns, i, j \in Ids : Holds(w, i, d) /\ Holds(w, j, d) => i = j
        /\ \A d \in Conns, j \in Ids : Holds(w, j, d) => w.cn[d].note \in {0, j} \/ plugin # "proxy"
        /\ \A i \in 1..Len(w.waiting) : Called(w, w.waiting[i])
        /\ \A i, j \in 1..Len(w.waiting) :
              w.waiting[i].conn = w.waiting[j].conn /\ w.cn[w.waiting[i].conn].up => i = j
    BY DEF Rest, Links
  <1>3. ASSUME NEW j \in Ids, NEW d \in Conns, Holds(v, j, d)
        PROVE  Holds(w, j, d) \/ (j = k /\ d = c)
    <2>1. w.cn[d].hook # "" /\ v.cl[j].next = <<d, w.cn[d].calls>>
      BY <1>1, <1>3 DEF Holds
    <2>2. CASE j # k
      <3>1. w.cl[j].next = <<d, w.cn[d].calls>>
        BY <1>1, <2>1, <2>2
      <3>. QED
        BY <2>1, <3>1 DEF Holds
    <2>3. CASE j = k
      <3>1. x.next = <<d, w.cn[d].calls>>
        BY <1>1, <2>1, <2>3
      <3>2. <<d, w.cn[d].calls>> = <<c, id>>
        BY <3>1
      <3>3. d = c
        BY ONLY <3>2
      <3>. QED
        BY <2>3, <3>3
    <2>. QED
      BY <2>2, <2>3
  <1>4. ASSUME NEW j \in Ids, Holds(v, j, c)
        PROVE  j = k
    <2>1. w.cn[c].up /\ v.cl[j].next = <<c, w.cn[c].calls>>
      BY <1>1, <1>2, <1>4 DEF Holds
    <2>. QED
      BY <1>1, <2>1 DEF MayServe
  <1>5. ASSUME NEW j \in Ids, NEW d \in Conns, NEW n \in Nat, v.cn[d].up, v.cl[j].next = <<d, n>>
        PROVE  n <= v.cn[d].calls
    <2>1. CASE j # k
      <3>1. w.cl[j].next = <<d, n>> /\ w.cn[d].up /\ v.cn[d].calls = w.cn[d].calls
        BY <1>1, <1>5, <2>1
      <3>2. n <= w.cn[d].calls
        BY <1>2, <3>1
      <3>. QED
        BY <3>1, <3>2
    <2>2. CASE j = k
      <3>1. d = c /\ n = id /\ id = w.cn[c].calls
        BY <1>1, <1>5, <2>2 DEF MayServe
      <3>2. n \in Nat /\ n = v.cn[d].calls
        BY <1>1, <3>1
      <3>. QED
        BY ONLY <3>2
    <2>. QED
      BY <2>1, <2>2
  <1>6. ASSUME NEW d \in Conns, NEW i \in Ids, NEW j \in Ids, Holds(v, i, d), Holds(v, j, d)
        PROVE  i = j
    <2>1. CASE d = c
      BY <1>4, <1>6, <2>1
    <2>2. CASE d # c
      BY <1>2, <1>3, <1>6, <2>2
    <2>. QED
      BY <2>1, <2>2
  <1>7. ASSUME NEW d \in Conns, NEW j \in Ids, Holds(v, j, d)
        PROVE  v.cn[d].note \in {0, j} \/ plugin # "proxy"
    <2>1. CASE d = c
      <3>1. j = k /\ w.cn[c].up
        BY <1>1, <1>2, <1>4, <1>7, <2>1 DEF Holds
      <3>. QED
        BY <1>1, <2>1, <3>1 DEF MayServe
    <2>2. CASE d # c
      BY <1>1, <1>2, <1>3, <1>7, <2>2
    <2>. QED
      BY <2>1, <2>2
  <1>8. ASSUME NEW i \in 1..Len(v.waiting)
        PROVE  Called(v, v.waiting[i])
    <2>1. Called(w, w.waiting[i]) /\ v.waiting[i] = w.waiting[i]
      BY <1>1, <1>2, <1>8
    <2>2. CASE w.waiting[i].conn = c
      <3>1. ~w.cn[c].up
        BY <1>1, <1>8, <2>2 DEF MayServe
      <3>. QED
        BY <1>1, <2>1, <2>2, <3>1 DEF Called
    <2>3. CASE w.waiting[i].conn # c
      <3>1. x.next # <<w.waiting[i].conn, w.waiting[i].id>>
        BY <2>3
      <3>2. \A j \in Ids : w.cl[j].next # <<w.waiting[i].conn, w.waiting[i].id>>
                           => v.cl[j].next # <<w.waiting[i].conn, w.waiting[i].id>>
        BY <1>1, <3>1
      <3>. QED
        BY <1>1, <2>1, <3>2 DEF Called
    <2>. QED
      BY <2>2, <2>3
  <1>9. Links(v)
    <2>1. \A d \in Conns : ~v.cn[d].up => v.cn[d].tx = 0 /\ v.cn[d].hook = ""
      BY <1>1, <1>2
    <2>2. \A d \in Conns : plugin # "proxy" => v.cn[d].note = 0
      BY <1>1, <1>2
    <2>3. \A j \in Ids, d \in Conns, n \in Nat :
             v.cn[d].up /\ v.cl[j].next = <<d, n>> => n <= v.cn[d].calls
      BY <1>5
    <2>4. \A d \in Conns, j \in Ids : Holds(v, j, d) => v.cn[d].note \in {0, j} \/ plugin # "proxy"
      BY <1>7
    <2>5. \A i \in 1..Len(v.waiting) : Called(v, v.waiting[i])
      BY <1>8
    <2>6. \A i, j \in 1..Len(v.waiting) :
              v.waiting[i].conn = v.waiting[j].conn /\ v.cn[v.waiting[i].conn].up => i = j
      <3>1. v.waiting = w.waiting /\ v.cn = w.cn
        BY <1>1
      <3>2. \A i, j \in 1..Len(w.waiting) :
              w.waiting[i].conn = w.waiting[j].conn /\ w.cn[w.waiting[i].conn].up => i = j
        BY <1>2
      <3>. QED
        BY ONLY <3>1, <3>2
    <2>7. \A d \in Conns, i, j \in Ids : Holds(v, i, d) /\ Holds(v, j, d) => i = j
      BY <1>6
    <2>. QED
      BY <2>7, <2>1, <2>2, <2>3, <2>4, <2>5, <2>6 DEF Links
  <1>. QED
    BY <1>9, RestIfLinks

LEMMA RestIs ==
    ASSUME NEW w, NEW k \in Ids, Rest(w, k)
    PROVE  /\ w \in World /\ w.cl[k] \in Client /\ w.wire[k] \in Seq(Line) /\ w.srv[k] \in Envelope
           /\ GoneIs(w, k)
  BY WorldIs DEF Rest

LEMMA GoodIs ==
    ASSUME NEW w, NEW k \in Ids
    PROVE  Good(w) <=> Rest(w, k) /\ Own(w, k)
  BY DEF Good, Rest

LEMMA SlipIsGood ==
    ASSUME NEW w, NEW k \in Ids, Slip(w, k)
    PROVE  Good(w)
  BY GoodIs DEF Slip, Own

----------------------------------------------------------------------------
(* Writing to one client.                                                  *)
LEMMA PutOne ==
    ASSUME NEW w \in World, NEW k \in Ids, NEW x \in Client
    PROVE  [w EXCEPT !.cl[k] = x] = Put(w, k, x, w.wire[k], w.srv[k])
  <1>1. w.wire \in [Ids -> Seq(Line)] /\ w.srv \in [Ids -> Envelope]
    BY WorldIs
  <1>2. [w.wire EXCEPT ![k] = w.wire[k]] = w.wire /\ [w.srv EXCEPT ![k] = w.srv[k]] = w.srv
    BY <1>1
  <1>3. Put(w, k, x, w.wire[k], w.srv[k])
          = [w EXCEPT !.cl = [w.cl EXCEPT ![k] = x], !.wire = w.wire, !.srv = w.srv]
    BY <1>2 DEF Put
  <1>4. [w EXCEPT !.cl = [w.cl EXCEPT ![k] = x], !.wire = w.wire, !.srv = w.srv]
          = [w EXCEPT !.cl = [w.cl EXCEPT ![k] = x]]
    BY DEF World
  <1>. QED
    BY <1>3, <1>4

LEMMA PutTwo ==
    ASSUME NEW w \in World, NEW k \in Ids, NEW x \in Client, NEW s \in Seq(Line)
    PROVE  [w EXCEPT !.cl[k] = x, !.wire[k] = s] = Put(w, k, x, s, w.srv[k])
  <1>1. w.srv \in [Ids -> Envelope]
    BY WorldIs
  <1>2. [w.srv EXCEPT ![k] = w.srv[k]] = w.srv
    BY <1>1
  <1>3. Put(w, k, x, s, w.srv[k])
          = [w EXCEPT !.cl = [w.cl EXCEPT ![k] = x], !.wire = [w.wire EXCEPT ![k] = s], !.srv = w.srv]
    BY <1>2 DEF Put
  <1>4. [w EXCEPT !.cl = [w.cl EXCEPT ![k] = x], !.wire = [w.wire EXCEPT ![k] = s], !.srv = w.srv]
          = [w EXCEPT !.cl = [w.cl EXCEPT ![k] = x], !.wire = [w.wire EXCEPT ![k] = s]]
    BY DEF World
  <1>. QED
    BY <1>3, <1>4

PutLines(w, k, x, s) == [w EXCEPT !.cl[k] = x, !.wire[k] = s]

LEMMA PutLinesIs ==
    ASSUME NEW w \in World, NEW k \in Ids, NEW x \in Client, NEW s \in Seq(Line)
    PROVE  PutLines(w, k, x, s) = Put(w, k, x, s, w.srv[k])
  BY PutTwo DEF PutLines

LEMMA PutPut ==
    ASSUME NEW w \in World, NEW k \in Ids, NEW x, NEW s, NEW e, NEW y, NEW t, NEW f
    PROVE  Put(Put(w, k, x, s, e), k, y, t, f) = Put(w, k, y, t, f)
  <1>1. w.cl \in [Ids -> Client] /\ w.wire \in [Ids -> Seq(Line)] /\ w.srv \in [Ids -> Envelope]
    BY WorldIs
  <1>2. /\ [[w.cl EXCEPT ![k] = x] EXCEPT ![k] = y] = [w.cl EXCEPT ![k] = y]
        /\ [[w.wire EXCEPT ![k] = s] EXCEPT ![k] = t] = [w.wire EXCEPT ![k] = t]
        /\ [[w.srv EXCEPT ![k] = e] EXCEPT ![k] = f] = [w.srv EXCEPT ![k] = f]
    BY <1>1
  <1>3. PICK v : v = Put(w, k, x, s, e)
    OBVIOUS
  <1>4. v = [w EXCEPT !.cl = [w.cl EXCEPT ![k] = x], !.wire = [w.wire EXCEPT ![k] = s],
                      !.srv = [w.srv EXCEPT ![k] = e]]
    BY <1>3 DEF Put
  <1>5. /\ v.cl = [w.cl EXCEPT ![k] = x] /\ v.wire = [w.wire EXCEPT ![k] = s]
        /\ v.srv = [w.srv EXCEPT ![k] = e]
    BY <1>4 DEF World
  <1>6. Put(v, k, y, t, f)
          = [v EXCEPT !.cl = [v.cl EXCEPT ![k] = y], !.wire = [v.wire EXCEPT ![k] = t],
                      !.srv = [v.srv EXCEPT ![k] = f]]
    BY DEF Put
  <1>7. Put(v, k, y, t, f)
          = [v EXCEPT !.cl = [w.cl EXCEPT ![k] = y], !.wire = [w.wire EXCEPT ![k] = t],
                      !.srv = [w.srv EXCEPT ![k] = f]]
    BY <1>2, <1>5, <1>6
  <1>8. PICK cls, wires, srvs : /\ cls = [w.cl EXCEPT ![k] = y] /\ wires = [w.wire EXCEPT ![k] = t]
                                /\ srvs = [w.srv EXCEPT ![k] = f]
    OBVIOUS
  <1>9. [v EXCEPT !.cl = cls, !.wire = wires, !.srv = srvs]
          = [w EXCEPT !.cl = cls, !.wire = wires, !.srv = srvs]
    BY <1>4 DEF World
  <1>10. Put(w, k, y, t, f) = [w EXCEPT !.cl = cls, !.wire = wires, !.srv = srvs]
    BY <1>8 DEF Put
  <1>. QED
    BY <1>3, <1>7, <1>8, <1>9, <1>10

Cmd(cmd, tx) == [cmd |-> cmd, tx |-> tx, whole |-> TRUE, clean |-> TRUE]

LEMMA SendIs ==
    ASSUME NEW w \in World, NEW k \in Ids, NEW cmd \in Commands, NEW tx \in TxId,
           w.cl[k].state # "DESTROYED"
    PROVE  \E s \in Seq(Line) :
              /\ send_command(w, k, cmd, tx)
                    = Put(w, k, [w.cl[k] EXCEPT !.command = cmd], s, w.srv[k])
              /\ w.wire[k] = <<>> => s = <<Cmd(cmd, tx)>> \/ (s = <<>> /\ w.srv[k].body)
  <1>0. w.cl[k] \in Client /\ w.wire[k] \in Seq(Line) /\ w.srv[k] \in Envelope
    BY WorldIs
  <1>. PICK x \in Client : x = [w.cl[k] EXCEPT !.command = cmd]
    BY <1>0 DEF Client
  <1>1. CASE BodyOpen(w, k)
    <2>1. w.wire[k] # <<>>
      BY <1>1 DEF BodyOpen
    <2>2. PICK s \in Seq(Line) : s = [w.wire[k] EXCEPT ![Len(w.wire[k])].clean = FALSE]
      <3>. PICK t \in Seq(Line) : t = w.wire[k]
        BY <1>0
      <3>1. PICK n : n = Len(t)
        OBVIOUS
      <3>2. n \in 1..Len(t)
        BY <2>1, <3>1
      <3>3. t[n] \in Line
        BY <3>2
      <3>4. PICK h \in Line : h = [t[n] EXCEPT !.clean = FALSE]
        BY <3>3 DEF Line
      <3>5. [t EXCEPT ![n] = h] \in Seq(Line)
        BY <3>2
      <3>. QED
        BY <3>1, <3>4, <3>5
    <2>3. send_command(w, k, cmd, tx) = PutLines(w, k, x, s)
      <3>1. PICK u : u = [w EXCEPT !.cl[k].command = cmd]
        OBVIOUS
      <3>2. u.wire = w.wire
        BY <3>1 DEF World
      <3>3. send_command(w, k, cmd, tx) = [u EXCEPT !.wire[k][Len(w.wire[k])].clean = FALSE]
        BY <1>1, <3>1 DEF send_command, BodyOpen, AwaitsBody
      <3>4. PICK cls, wires : cls = [w.cl EXCEPT ![k] = x] /\ wires = [w.wire EXCEPT ![k] = s]
        OBVIOUS
      <3>5. u = [w EXCEPT !.cl = cls]
        BY <3>1, <3>4
      <3>6. send_command(w, k, cmd, tx) = [u EXCEPT !.wire = wires]
        BY <2>2, <3>2, <3>3, <3>4
      <3>7. PutLines(w, k, x, s) = [w EXCEPT !.cl = cls, !.wire = wires]
        BY <3>4 DEF PutLines
      <3>. QED
        BY <3>5, <3>6, <3>7 DEF World
    <2>4. PutLines(w, k, x, s) = Put(w, k, x, s, w.srv[k])
      BY PutLinesIs
    <2>. QED
      BY <2>1, <2>3, <2>4
  <1>2. CASE ~BodyOpen(w, k) /\ AwaitsBody(w, k)
    <2>1. send_command(w, k, cmd, tx) = [w EXCEPT !.cl[k] = x]
      BY <1>2 DEF send_command
    <2>2. [w EXCEPT !.cl[k] = x] = Put(w, k, x, w.wire[k], w.srv[k])
      BY PutOne
    <2>3. w.wire[k] = <<>> /\ w.srv[k].body
      BY <1>2 DEF AwaitsBody
    <2>. QED
      BY <1>0, <2>1, <2>2, <2>3
  <1>3. CASE ~BodyOpen(w, k) /\ ~AwaitsBody(w, k)
    <2>1. PICK h \in Line : h = Cmd(cmd, tx)
      BY DEF Cmd, Line
    <2>2. Append(w.wire[k], h) \in Seq(Line)
      BY <1>0
    <2>3. PICK s \in Seq(Line) : s = Append(w.wire[k], h)
      BY <2>2
    <2>4. send_command(w, k, cmd, tx) = PutLines(w, k, x, s)
      BY <1>3, <2>1, <2>3 DEF send_command, Cmd, PutLines
    <2>5. PutLines(w, k, x, s) = Put(w, k, x, s, w.srv[k])
      BY PutLinesIs
    <2>6. w.wire[k] = <<>> => s = <<Cmd(cmd, tx)>>
      BY <2>1, <2>3
    <2>. QED
      BY <2>4, <2>5, <2>6
  <1>. QED
    BY <1>1, <1>2, <1>3

LEMMA StartIs ==
    ASSUME NEW w \in World, NEW k \in Ids, NEW tx \in TxId, w.cl[k].state # "DESTROYED"
    PROVE  \E s \in Seq(Line), h \in Line :
              /\ start_data(w, k, tx) = Put(w, k, [w.cl[k] EXCEPT !.command = "dot"], s, w.srv[k])
              /\ w.wire[k] = <<>> => s = <<h>>
              /\ h.cmd = "dot" /\ h.tx = tx /\ h.clean
  <1>0. w.cl[k] \in Client /\ w.wire[k] \in Seq(Line) /\ w.srv[k] \in Envelope
    BY WorldIs
  <1>. PICK dot \in Commands : dot = "dot"
    BY DEF Commands
  <1>. PICK x \in Client : x = [w.cl[k] EXCEPT !.command = dot]
    BY <1>0 DEF Client
  <1>1. PICK h \in Line : h = [cmd |-> dot, tx |-> tx, whole |-> FALSE, clean |-> TRUE]
    BY DEF Line
  <1>2. h.cmd = "dot" /\ h.tx = tx /\ h.clean
    BY <1>1
  <1>3. Append(w.wire[k], h) \in Seq(Line)
    BY <1>0
  <1>4. PICK s \in Seq(Line) : s = Append(w.wire[k], h)
    BY <1>3
  <1>5. w.wire[k] = <<>> => s = <<h>>
    BY <1>4
  <1>6. start_data(w, k, tx) = PutLines(w, k, x, s)
    BY <1>1, <1>4 DEF start_data, PutLines
  <1>7. PutLines(w, k, x, s) = Put(w, k, x, s, w.srv[k])
    BY PutLinesIs
  <1>. QED
    BY <1>2, <1>5, <1>6, <1>7

----------------------------------------------------------------------------
(* The pool's idle clients.                                                *)
Apart(s) == \A i, j \in 1..Len(s) : s[i] = s[j] => i = j

Fits(w, a) == a \in Seq(Ids) /\ Apart(a) /\ \A j \in Ids : InPool(a, j) => Pooled(w.cl[j])

WithAvail(w, a) == [w EXCEPT !.avail = a]

LEMMA AvailIs ==
    ASSUME NEW w \in World, NEW a \in Seq(Ids)
    PROVE  /\ WithAvail(w, a) \in World
           /\ WithAvail(w, a).cl = w.cl /\ WithAvail(w, a).wire = w.wire
           /\ WithAvail(w, a).srv = w.srv /\ WithAvail(w, a).cn = w.cn
           /\ WithAvail(w, a).avail = a
           /\ WithAvail(w, a).waiting = w.waiting /\ WithAvail(w, a).accepted = w.accepted
  BY DEF World, WithAvail

LEMMA RestAvail ==
    ASSUME NEW w, NEW k, Rest(w, k), NEW a, Fits(w, a)
    PROVE  Rest(WithAvail(w, a), k)
  <1>. PICK v : v = WithAvail(w, a)
    OBVIOUS
  <1>0. w \in World /\ Links(w) /\ Pool(w) /\ Truth(w)
        /\ (\A j \in Ids : GoneIs(w, j)) /\ (\A j \in Ids : j # k => Own(w, j))
    BY DEF Rest
  <1>1. /\ v \in World
        /\ v.cl = w.cl /\ v.wire = w.wire /\ v.srv = w.srv /\ v.cn = w.cn
        /\ v.avail = a /\ v.waiting = w.waiting /\ v.accepted = w.accepted
    BY <1>0, AvailIs DEF Fits
  <1>2. ASSUME NEW j \in Ids
        PROVE  GoneIs(v, j)
    BY <1>0, <1>1 DEF GoneIs
  <1>3. ASSUME NEW j \in Ids, j # k
        PROVE  Own(v, j)
    <2>1. Own(w, j)
      BY <1>0, <1>3
    <2>2. SameClient(w, v, j) /\ v.cn = w.cn
      BY <1>1 DEF SameClient
    <2>. QED
      BY <2>1, <2>2, SameOwn
  <1>4. Links(v)
    BY <1>0, <1>1, SameLinks
  <1>5. Pool(v)
    BY <1>1 DEF Pool, Fits, Apart
  <1>6. Truth(v)
    BY <1>0, <1>1 DEF Truth
  <1>. QED
    BY <1>1, <1>2, <1>3, <1>4, <1>5, <1>6 DEF Rest

LEMMA WithoutIs ==
    ASSUME NEW s \in Seq(Ids), Apart(s), NEW k \in Ids
    PROVE  /\ Without(s, k) \in Seq(Ids) /\ Apart(Without(s, k))
           /\ \A j : InPool(Without(s, k), j) => InPool(s, j) /\ j # k
  <1>1. CASE ~Contains(s, k)
    <2>1. Without(s, k) = s
      BY <1>1 DEF Without
    <2>2. \A i \in 1..Len(s) : s[i] # k
      BY <1>1 DEF Contains
    <2>. QED
      BY <2>1, <2>2 DEF InPool
  <1>2. CASE Contains(s, k)
    <2>. DEFINE n == CHOOSE i \in 1..Len(s) : s[i] = k
    <2>1. n \in 1..Len(s) /\ s[n] = k
      BY <1>2 DEF Contains
    <2>2. Without(s, k) = RemoveAt(s, n)
      BY <1>2 DEF Without
    <2>. HIDE DEF n
    <2>. SubSeq(s, 1, n - 1) \in Seq(Ids) /\ SubSeq(s, n + 1, Len(s)) \in Seq(Ids)
      BY <2>1, SubSeqProperties
    <2>3. PICK a \in Seq(Ids) : a = SubSeq(s, 1, n - 1)
      OBVIOUS
    <2>4. PICK b \in Seq(Ids) : b = SubSeq(s, n + 1, Len(s))
      OBVIOUS
    <2>5. Len(a) = n - 1 /\ \A i \in 1..Len(a) : a[i] = s[i]
      BY <2>1, <2>3
    <2>6. Len(b) = Len(s) - n /\ \A i \in 1..Len(b) : b[i] = s[n + i]
      BY <2>1, <2>4
    <2>7. Without(s, k) = a \o b
      BY <2>2, <2>3, <2>4 DEF RemoveAt
    <2>8. PICK t : t = a \o b
      OBVIOUS
    <2>9. /\ t \in Seq(Ids) /\ Len(t) = Len(a) + Len(b)
          /\ \A i \in 1..Len(t) : t[i] = IF i <= Len(a) THEN a[i] ELSE b[i - Len(a)]
      BY <2>8
    <2>. DEFINE at(i) == IF i < n THEN i ELSE i + 1
    <2>10. \A i \in 1..Len(t) : at(i) \in 1..Len(s) /\ at(i) # n /\ t[i] = s[at(i)]
      BY <2>1, <2>5, <2>6, <2>9
    <2>11. \A i, j \in 1..Len(t) : at(i) = at(j) => i = j
      BY <2>1, <2>9
    <2>. HIDE DEF at
    <2>12. Apart(t)
      BY <2>10, <2>11 DEF Apart
    <2>13. \A j : InPool(t, j) => InPool(s, j) /\ j # k
      BY <2>1, <2>10 DEF InPool, Apart
    <2>. QED
      BY <2>7, <2>8, <2>9, <2>12, <2>13
  <1>. QED
    BY <1>1, <1>2

(* What an operation on a client alone leaves as it is.                    *)
Kept(w, v, k) ==
    /\ v.cn = w.cn /\ v.waiting = w.waiting /\ v.accepted = w.accepted
    /\ \A j \in Ids : v.cl[j].next = w.cl[j].next
    /\ \A j \in Ids : j # k => v.cl[j] = w.cl[j]
    /\ w.cl[k].slipped => v.cl[k].slipped

LEMMA NewClientIs == NewClient \in Client
  BY EmptySeq DEF NewClient, Client, Commands, NoTx, TxId

LEMMA DestroyIs ==
    ASSUME NEW w, NEW k \in Ids, Rest(w, k), w.cl[k].state # "none"
    PROVE  /\ Good(destroy(w, k)) /\ Rest(destroy(w, k), k) /\ Kept(w, destroy(w, k), k)
           /\ destroy(w, k).cl[k].state = "DESTROYED"
           /\ destroy(w, k).cl[k].connected = FALSE
           /\ destroy(w, k).cl[k].slipped = w.cl[k].slipped
  <1>0. w \in World /\ w.cl[k] \in Client /\ Pool(w)
    BY RestIs DEF Rest
  <1>1. PICK a : a = Without(w.avail, k)
    OBVIOUS
  <1>2. a \in Seq(Ids) /\ Apart(a) /\ \A j : InPool(a, j) => InPool(w.avail, j) /\ j # k
    <2>1. w.avail \in Seq(Ids) /\ Apart(w.avail)
      BY <1>0, WorldIs DEF Pool, Apart
    <2>. QED
      BY <1>1, <2>1, WithoutIs
  <1>3. Fits(w, a)
    BY <1>0, <1>2 DEF Fits, Pool
  <1>4. PICK u : u = WithAvail(w, a)
    OBVIOUS
  <1>5. Rest(u, k)
    BY <1>3, <1>4, RestAvail
  <1>6. /\ u.cl = w.cl /\ u.cn = w.cn /\ u.avail = a /\ u.waiting = w.waiting
        /\ u.accepted = w.accepted /\ u.wire = w.wire /\ u.srv = w.srv /\ u \in World
    BY <1>0, <1>2, <1>4, AvailIs
  <1>7. PICK x : x = [NewClient EXCEPT !.state = "DESTROYED", !.next = w.cl[k].next,
                                       !.slipped = w.cl[k].slipped]
    OBVIOUS
  <1>8. x \in Client /\ x.state = "DESTROYED" /\ x.connected = FALSE /\ x.next = w.cl[k].next
        /\ x.slipped = w.cl[k].slipped
    BY <1>0, <1>7, NewClientIs DEF Client, NewClient
  <1>9. PICK empty \in Seq(Line) : empty = <<>>
    BY EmptySeq
  <1>10. PICK idle \in Envelope : idle = Idle
    BY DEF Idle, Envelope, TxId
  <1>11. ~InPool(u.avail, k)
    BY <1>2, <1>6
  <1>12. PICK v : v = Put(u, k, x, empty, idle)
    OBVIOUS
  <1>13. Rest(v, k)
    BY <1>5, <1>6, <1>8, <1>9, <1>10, <1>11, <1>12, RestPut
  <1>14. /\ v.cl[k] = x /\ v.cn = u.cn /\ v.waiting = u.waiting /\ v.accepted = u.accepted
         /\ \A j \in Ids : j # k => v.cl[j] = u.cl[j]
    BY <1>6, <1>8, <1>12, Put_Is
  <1>15. v = destroy(w, k)
    <2>1. PICK cls, wires, srvs : /\ cls = [w.cl EXCEPT ![k] = x] /\ wires = [w.wire EXCEPT ![k] = <<>>]
                                  /\ srvs = [w.srv EXCEPT ![k] = Idle]
      OBVIOUS
    <2>2. v = [u EXCEPT !.cl = cls, !.wire = wires, !.srv = srvs]
      BY <2>1, <1>6, <1>9, <1>10, <1>12 DEF Put
    <2>3. destroy(w, k) = [w EXCEPT !.cl = cls, !.wire = wires, !.srv = srvs, !.avail = a]
      BY <2>1, <1>1, <1>7 DEF destroy
    <2>4. u = [w EXCEPT !.avail = a]
      BY <1>4 DEF WithAvail
    <2>. QED
      BY ONLY <2>2, <2>3, <2>4, <1>0 DEF World
  <1>16. Own(v, k)
    BY <1>8, <1>14 DEF Own, InNotes, Settled, Holds
  <1>17. Good(v)
    BY <1>13, <1>16, GoodIs
  <1>18. Kept(w, v, k)
    BY <1>6, <1>8, <1>14 DEF Kept
  <1>. QED
    BY <1>8, <1>13, <1>14, <1>15, <1>17, <1>18

LEMMA SendRest ==
    ASSUME NEW w, NEW k \in Ids, Rest(w, k), NEW cmd \in Commands, NEW tx \in TxId,
           w.cl[k].state # "none"
    PROVE  /\ Rest(send_command(w, k, cmd, tx), k) /\ Kept(w, send_command(w, k, cmd, tx), k)
           /\ send_command(w, k, cmd, tx).srv[k] = w.srv[k]
           /\ w.cl[k].state = "DESTROYED" => send_command(w, k, cmd, tx) = w
           /\ w.cl[k].state # "DESTROYED" =>
                 /\ send_command(w, k, cmd, tx).cl[k] = [w.cl[k] EXCEPT !.command = cmd]
                 /\ w.wire[k] = <<>> =>
                       \/ send_command(w, k, cmd, tx).wire[k] = <<Cmd(cmd, tx)>>
                       \/ /\ send_command(w, k, cmd, tx).wire[k] = <<>>
                          /\ w.srv[k].body
  <1>0. w \in World /\ w.cl[k] \in Client /\ w.srv[k] \in Envelope /\ Pool(w) /\ GoneIs(w, k)
    BY RestIs DEF Rest
  <1>1. CASE w.cl[k].state = "DESTROYED"
    BY <1>1 DEF send_command, Kept
  <1>2. CASE w.cl[k].state # "DESTROYED"
    <2>1. PICK s \in Seq(Line) :
             /\ send_command(w, k, cmd, tx) = Put(w, k, [w.cl[k] EXCEPT !.command = cmd], s, w.srv[k])
             /\ w.wire[k] = <<>> => s = <<Cmd(cmd, tx)>> \/ (s = <<>> /\ w.srv[k].body)
      BY <1>0, <1>2, SendIs
    <2>2. PICK x \in Client : x = [w.cl[k] EXCEPT !.command = cmd]
      BY <1>0 DEF Client
    <2>3. x.next = w.cl[k].next /\ x.state = w.cl[k].state /\ x.slipped = w.cl[k].slipped
      BY <1>0, <2>2 DEF Client
    <2>4. PICK v : v = Put(w, k, x, s, w.srv[k])
      OBVIOUS
    <2>5. ~Gone(x) /\ (x.slipped => x.state # "none")
      BY <1>2, <2>3 DEF Gone
    <2>6. InPool(w.avail, k) => Pooled(x)
      BY <1>0, <2>3 DEF Pool, Pooled, Gone
    <2>7. Rest(v, k)
      BY <1>0, <2>3, <2>4, <2>5, <2>6, RestPut
    <2>8. /\ v.cl[k] = x /\ v.wire[k] = s /\ v.srv[k] = w.srv[k]
          /\ v.cn = w.cn /\ v.waiting = w.waiting /\ v.accepted = w.accepted
          /\ \A j \in Ids : j # k => v.cl[j] = w.cl[j]
      BY <1>0, <2>4, Put_Is
    <2>9. v = send_command(w, k, cmd, tx)
      BY <2>1, <2>2, <2>4
    <2>10. Kept(w, v, k)
      BY <2>3, <2>8 DEF Kept
    <2>. QED
      BY <1>2, <2>1, <2>2, <2>7, <2>8, <2>9, <2>10
  <1>. QED
    BY <1>1, <1>2, RestIs

LEMMA StartRest ==
    ASSUME NEW w, NEW k \in Ids, Rest(w, k), NEW tx \in TxId, w.cl[k].state # "none"
    PROVE  /\ Rest(start_data(w, k, tx), k) /\ Kept(w, start_data(w, k, tx), k)
           /\ start_data(w, k, tx).srv[k] = w.srv[k]
           /\ w.cl[k].state = "DESTROYED" => start_data(w, k, tx) = w
           /\ w.cl[k].state # "DESTROYED" =>
                 /\ start_data(w, k, tx).cl[k] = [w.cl[k] EXCEPT !.command = "dot"]
                 /\ w.wire[k] = <<>> =>
                       \E h \in Line : /\ start_data(w, k, tx).wire[k] = <<h>>
                                       /\ h.cmd = "dot" /\ h.tx = tx /\ h.clean
  <1>0. w \in World /\ w.cl[k] \in Client /\ w.srv[k] \in Envelope /\ Pool(w) /\ GoneIs(w, k)
    BY RestIs DEF Rest
  <1>1. CASE w.cl[k].state = "DESTROYED"
    BY <1>1 DEF start_data, Kept
  <1>2. CASE w.cl[k].state # "DESTROYED"
    <2>1. PICK s \in Seq(Line), h \in Line :
             /\ start_data(w, k, tx) = Put(w, k, [w.cl[k] EXCEPT !.command = "dot"], s, w.srv[k])
             /\ w.wire[k] = <<>> => s = <<h>>
             /\ h.cmd = "dot" /\ h.tx = tx /\ h.clean
      BY <1>0, <1>2, StartIs
    <2>. PICK dot \in Commands : dot = "dot"
      BY DEF Commands
    <2>2. PICK x \in Client : x = [w.cl[k] EXCEPT !.command = dot]
      BY <1>0 DEF Client
    <2>3. x.next = w.cl[k].next /\ x.state = w.cl[k].state /\ x.slipped = w.cl[k].slipped
      BY <1>0, <2>2 DEF Client
    <2>4. PICK v : v = Put(w, k, x, s, w.srv[k])
      OBVIOUS
    <2>5. ~Gone(x) /\ (x.slipped => x.state # "none")
      BY <1>2, <2>3 DEF Gone
    <2>6. InPool(w.avail, k) => Pooled(x)
      BY <1>0, <2>3 DEF Pool, Pooled, Gone
    <2>7. Rest(v, k)
      BY <1>0, <2>3, <2>4, <2>5, <2>6, RestPut
    <2>8. /\ v.cl[k] = x /\ v.wire[k] = s /\ v.srv[k] = w.srv[k]
          /\ v.cn = w.cn /\ v.waiting = w.waiting /\ v.accepted = w.accepted
          /\ \A j \in Ids : j # k => v.cl[j] = w.cl[j]
      BY <1>0, <2>4, Put_Is
    <2>9. v = start_data(w, k, tx)
      BY <2>1, <2>2, <2>4
    <2>10. Kept(w, v, k)
      BY <2>3, <2>8 DEF Kept
    <2>. QED
      BY <1>2, <2>1, <2>2, <2>7, <2>8, <2>9, <2>10
  <1>. QED
    BY <1>1, <1>2, RestIs

(* A client in use is released between two replies, or it slips.           *)
LEMMA ReleaseRest ==
    ASSUME NEW w, NEW k \in Ids, Rest(w, k), w.cl[k].state # "none"
    PROVE  /\ Rest(release(w, k), k) /\ Kept(w, release(w, k), k)
           /\ release(w, k).cl[k].state \in {"DESTROYED", "RELEASED"}
           /\ \/ release(w, k).cl[k].state = "DESTROYED"
              \/ release(w, k).cl[k].slipped
              \/ /\ w.cl[k].state = "ACTIVE" /\ w.wire[k] = <<>>
                 /\ release(w, k).cl[k].state = "RELEASED" /\ Released(release(w, k), k)
                 /\ release(w, k).cl[k].ears = <<>>
                 /\ release(w, k).wire[k] # <<>> \/ w.srv[k].body
  <1>0. w \in World /\ w.cl[k] \in Client /\ w.srv[k] \in Envelope /\ w.wire[k] \in Seq(Line)
        /\ Pool(w) /\ GoneIs(w, k)
    BY RestIs DEF Rest
  <1>1. CASE ~w.cl[k].connected \/ w.cl[k].command = "data"
    BY <1>1, DestroyIs DEF release
  <1>2. CASE ~(~w.cl[k].connected \/ w.cl[k].command = "data") /\ w.cl[k].state = "DESTROYED"
    BY <1>2 DEF release, Kept
  <1>3. CASE ~(~w.cl[k].connected \/ w.cl[k].command = "data") /\ w.cl[k].state # "DESTROYED"
    <2>. PICK on \in BOOLEAN, off \in BOOLEAN : on = TRUE /\ off = FALSE
      OBVIOUS
    <2>. PICK none \in Seq(Conns) : none = <<>>
      BY EmptySeq
    <2>1. PICK sl \in BOOLEAN : sl = (w.cl[k].slipped \/ w.wire[k] # <<>> \/ w.cl[k].state # "ACTIVE")
      OBVIOUS
    <2>2. PICK x : x = [w.cl[k] EXCEPT !.state = "RELEASED", !.ears = none, !.pool = on, !.slipped = sl]
      OBVIOUS
    <2>3. x \in Client
      BY <1>0, <2>2 DEF Client
    <2>4. /\ x.next = w.cl[k].next /\ x.state = "RELEASED" /\ x.slipped = sl /\ x.pool = on
          /\ x.ears = none
      BY <1>0, <2>2 DEF Client
    <2>5. PICK u : u = Put(w, k, x, w.wire[k], w.srv[k])
      OBVIOUS
    <2>6. ~Gone(x) /\ (x.slipped => x.state # "none")
      BY <2>4 DEF Gone
    <2>7. InPool(w.avail, k) => Pooled(x)
      BY <1>0, <2>1, <2>4 DEF Pool, Pooled, Gone
    <2>8. Rest(u, k)
      BY <1>0, <2>3, <2>4, <2>5, <2>6, <2>7, RestPut
    <2>9. /\ u.cl[k] = x /\ u.wire[k] = w.wire[k] /\ u.srv[k] = w.srv[k]
          /\ u.cn = w.cn /\ u.waiting = w.waiting /\ u.accepted = w.accepted
          /\ \A j \in Ids : j # k => u.cl[j] = w.cl[j]
      BY <1>0, <2>3, <2>5, Put_Is
    <2>10. u = [w EXCEPT !.cl[k] = x]
      BY <1>0, <2>3, <2>5, PutOne
    <2>. PICK rset \in Commands : rset = "rset"
      BY DEF Commands
    <2>11. release(w, k) = send_command(u, k, rset, NoTx)
      <3>1. x = [w.cl[k] EXCEPT !.state = "RELEASED", !.ears = <<>>, !.pool = TRUE,
                               !.slipped = w.cl[k].slipped \/ w.wire[k] # <<>> \/ w.cl[k].state # "ACTIVE"]
        BY <2>1, <2>2
      <3>2. release(w, k)
              = send_command([w EXCEPT !.cl[k] =
                    [w.cl[k] EXCEPT !.state = "RELEASED", !.ears = <<>>, !.pool = TRUE,
                          !.slipped = w.cl[k].slipped \/ w.wire[k] # <<>> \/ w.cl[k].state # "ACTIVE"]],
                  k, "rset", NoTx)
        BY <1>3 DEF release
      <3>3. release(w, k) = send_command([w EXCEPT !.cl[k] = x], k, "rset", NoTx)
        BY <3>1, <3>2
      <3>. QED
        BY <2>10, <3>3
    <2>. PICK v : v = send_command(u, k, rset, NoTx)
      OBVIOUS
    <2>12. NoTx \in TxId
      BY DEF TxId
    <2>13. /\ Rest(v, k) /\ Kept(u, v, k) /\ v.cl[k] = [u.cl[k] EXCEPT !.command = rset]
           /\ u.wire[k] = <<>> =>
                 v.wire[k] = <<Cmd(rset, NoTx)>> \/ (v.wire[k] = <<>> /\ w.srv[k].body)
      BY <2>4, <2>8, <2>9, <2>12, SendRest
    <2>14. Kept(w, v, k)
      <3>1. \A j \in Ids : u.cl[j].next = w.cl[j].next
        BY <2>4, <2>9
      <3>2. w.cl[k].slipped => u.cl[k].slipped
        BY <2>1, <2>4, <2>9
      <3>. QED
        BY <2>9, <2>13, <3>1, <3>2 DEF Kept
    <2>15. /\ v.cl[k].state = "RELEASED" /\ v.cl[k].slipped = sl /\ v.cl[k].pool
           /\ v.cl[k].ears = <<>> /\ v.cl[k].command = "rset"
      BY <2>3, <2>4, <2>9, <2>13 DEF Client
    <2>16. ASSUME ~sl
           PROVE  /\ w.cl[k].state = "ACTIVE" /\ w.wire[k] = <<>> /\ Released(v, k)
                  /\ v.wire[k] # <<>> \/ w.srv[k].body
      <3>1. w.cl[k].state = "ACTIVE" /\ w.wire[k] = <<>>
        BY <2>1, <2>16
      <3>4. v.wire[k] # <<>> \/ w.srv[k].body
        <4>1. \A h : <<h>> # <<>>
          OBVIOUS
        <4>. QED
          BY <2>9, <2>13, <3>1, <4>1
      <3>2. LeftOver(v, v.cl[k].ears)
        BY <2>15 DEF LeftOver
      <3>3. OneLine(v.cl[k], v.wire[k])
        <4>1. PICK h \in Line : h = Cmd(rset, NoTx)
          BY <2>12 DEF Line, Cmd
        <4>2. h.cmd = "rset" /\ h.clean
          BY <4>1 DEF Cmd
        <4>. QED
          BY <2>9, <2>13, <2>15, <3>1, <4>1, <4>2 DEF OneLine
      <3>. QED
        BY <2>15, <3>1, <3>2, <3>3, <3>4 DEF Released
    <2>. QED
      BY <2>11, <2>13, <2>14, <2>15, <2>16
  <1>. QED
    BY <1>1, <1>2, <1>3

----------------------------------------------------------------------------
(* Changing one connection.                                                *)
WithConn(w, c, y) == [w EXCEPT !.cn[c] = y]

LEMMA CallersIs ==
    ASSUME NEW w \in World
    PROVE  \A i \in 1..Len(w.waiting) : w.waiting[i] \in Caller
  <1>. PICK q \in Seq(Caller) : q = w.waiting
    BY WorldIs
  <1>. QED
    OBVIOUS

LEMMA ConnIs ==
    ASSUME NEW w \in World, NEW c \in Conns, NEW y \in Conn
    PROVE  /\ WithConn(w, c, y) \in World
           /\ WithConn(w, c, y).cn[c] = y
           /\ \A d \in Conns : d # c => WithConn(w, c, y).cn[d] = w.cn[d]
           /\ WithConn(w, c, y).cl = w.cl /\ WithConn(w, c, y).wire = w.wire
           /\ WithConn(w, c, y).srv = w.srv /\ WithConn(w, c, y).avail = w.avail
           /\ WithConn(w, c, y).waiting = w.waiting /\ WithConn(w, c, y).accepted = w.accepted
  <1>0. w.cn \in [Conns -> Conn]
    BY WorldIs
  <1>1. PICK cns \in [Conns -> Conn] :
           cns = [w.cn EXCEPT ![c] = y] /\ cns[c] = y
           /\ \A d \in Conns : d # c => cns[d] = w.cn[d]
    <2>. DEFINE g == [w.cn EXCEPT ![c] = y]
    <2>1. g \in [Conns -> Conn] /\ g[c] = y /\ \A d \in Conns : d # c => g[d] = w.cn[d]
      BY <1>0
    <2>. QED
      BY <2>1
  <1>2. PICK v : v = WithConn(w, c, y)
    OBVIOUS
  <1>3. v = [w EXCEPT !.cn = cns]
    BY <1>1, <1>2 DEF WithConn
  <1>4. /\ v \in World /\ v.cn = cns /\ v.cl = w.cl /\ v.wire = w.wire /\ v.srv = w.srv
        /\ v.avail = w.avail /\ v.waiting = w.waiting /\ v.accepted = w.accepted
    BY <1>3 DEF World
  <1>. QED
    BY <1>1, <1>2, <1>4

(* What c becomes does not concern the client j.                           *)
Passes(w, j, c, y) ==
    /\ y.up => w.cn[c].up
    /\ y.up /\ y.note = j =>
          /\ w.cn[c].note = j
          /\ y.hook # "mail" \/ w.cl[j].next = <<c, y.calls>> =>
                (y.tx # 0 => Settled(w, j, c) /\ w.cn[c].tx = y.tx)
    /\ y.up /\ w.cl[j].state = "ACTIVE" /\ w.wire[j] # <<>> =>
          \/ ~Holds(w, j, c)
          \/ y.hook = w.cn[c].hook /\ y.calls = w.cn[c].calls /\ y.tx = w.cn[c].tx

LEMMA OwnConn ==
    ASSUME NEW w \in World, NEW c \in Conns, NEW y \in Conn, NEW j \in Ids,
           Own(w, j), Passes(w, j, c, y)
    PROVE  Own(WithConn(w, c, y), j)
  <1>. PICK v : v = WithConn(w, c, y)
    OBVIOUS
  <1>1. /\ v.cn[c] = y /\ \A d \in Conns : d # c => v.cn[d] = w.cn[d]
        /\ v.cl = w.cl /\ v.wire = w.wire /\ v.srv = w.srv
    BY ConnIs
  <1>2. \A d \in Conns : v.cn[d].up => w.cn[d].up
    BY <1>1 DEF Passes
  <1>3. \A ears : LeftOver(w, ears) => LeftOver(v, ears)
    BY <1>2 DEF LeftOver
  <1>4. ASSUME NEW d \in Conns, InNotes(w, j, d)
        PROVE  InNotes(v, j, d)
    <2>1. CASE d = c
      BY <1>1, <1>4, <2>1 DEF InNotes, Settled, Holds, Passes
    <2>2. CASE d # c
      BY <1>1, <1>4, <2>2 DEF InNotes, Settled, Holds
    <2>. QED
      BY <2>1, <2>2
  <1>5. ASSUME NEW d \in Conns, Serves(w, j, d), w.cl[j].state = "ACTIVE"
        PROVE  Serves(v, j, d)
    <2>1. \A ears : EarsAre(w, ears, d) => EarsAre(v, ears, d)
      BY <1>2 DEF EarsAre
    <2>2. ASSUME w.wire[j] # <<>>
          PROVE  WaitsFor(v, j, d)
      <3>1. WaitsFor(w, j, d)
        BY <1>5, <2>2 DEF Serves
      <3>2. CASE d = c
        <4>1. CASE ~y.up
          BY <1>1, <3>2, <4>1 DEF WaitsFor
        <4>2. CASE y.up
          <5>1. w.cn[c].up
            BY <4>2 DEF Passes
          <5>2. Holds(w, j, c) /\ w.cn[c].tx # 0 /\ w.cl[j].txn = <<c, w.cn[c].tx>>
            BY <3>1, <3>2, <5>1 DEF WaitsFor
          <5>3. y.hook = w.cn[c].hook /\ y.calls = w.cn[c].calls /\ y.tx = w.cn[c].tx
            BY <1>5, <2>2, <4>2, <5>2 DEF Passes
          <5>4. v.cn[c] = y /\ v.cl = w.cl
            BY <1>1
          <5>. QED
            BY ONLY <3>2, <5>2, <5>3, <5>4 DEF WaitsFor, Holds
        <4>. QED
          BY <4>1, <4>2
      <3>3. CASE d # c
        BY <1>1, <3>1, <3>3 DEF WaitsFor, Holds
      <3>. QED
        BY <3>2, <3>3
    <2>. QED
      BY <1>1, <1>5, <2>1, <2>2 DEF Serves
  <1>6. Released(w, j) => Released(v, j)
    BY <1>1, <1>3 DEF Released
  <1>7. Resting(w, j) => Resting(v, j)
    BY <1>1, <1>3 DEF Resting
  <1>. QED
    BY <1>1, <1>4, <1>5, <1>6, <1>7 DEF Own

(* ... nor the hooks, the calls that wait, or what senders were told.      *)
LinkConn(w, c, y) ==
    /\ y.up => w.cn[c].up
    /\ ~y.up => y.tx = 0 /\ y.hook = ""
    /\ plugin # "proxy" => y.note = 0
    /\ y.note \in {0, w.cn[c].note} \/ \A j \in Ids : ~Holds(w, j, c)
    /\ y.calls = w.cn[c].calls \/ y.calls = w.cn[c].calls + 1
    /\ y.calls = w.cn[c].calls /\ y.hook # "" => w.cn[c].hook # ""
    /\ y.up => \/ \A i \in 1..Len(w.waiting) : w.waiting[i].conn # c
               \/ y.hook = w.cn[c].hook /\ y.calls = w.cn[c].calls /\ y.tx = w.cn[c].tx

Told(w, c, y) ==
    \A t \in y.told : t.slipped \/ \E m \in w.accepted : m.body = <<c, t.tx>>

LEMMA LinksConn ==
    ASSUME NEW w \in World, NEW c \in Conns, NEW y \in Conn, Links(w), LinkConn(w, c, y)
    PROVE  Links(WithConn(w, c, y))
  <1>. PICK v : v = WithConn(w, c, y)
    OBVIOUS
  <1>1. /\ v.cn[c] = y /\ \A d \in Conns : d # c => v.cn[d] = w.cn[d]
        /\ v.cl = w.cl /\ v.waiting = w.waiting
    BY ConnIs
  <1>2. /\ \A d \in Conns : ~w.cn[d].up => w.cn[d].tx = 0 /\ w.cn[d].hook = ""
        /\ \A d \in Conns : plugin # "proxy" => w.cn[d].note = 0
        /\ \A k \in Ids, d \in Conns, n \in Nat :
              w.cn[d].up /\ w.cl[k].next = <<d, n>> => n <= w.cn[d].calls
        /\ \A d \in Conns, j, k \in Ids : Holds(w, j, d) /\ Holds(w, k, d) => j = k
        /\ \A d \in Conns, k \in Ids : Holds(w, k, d) => w.cn[d].note \in {0, k} \/ plugin # "proxy"
        /\ \A i \in 1..Len(w.waiting) : Called(w, w.waiting[i])
        /\ \A i, j \in 1..Len(w.waiting) :
              w.waiting[i].conn = w.waiting[j].conn /\ w.cn[w.waiting[i].conn].up => i = j
    BY DEF Links
  <1>3. \A i \in 1..Len(w.waiting) : w.waiting[i].conn \in Conns
    BY CallersIs DEF Caller
  <1>0. PICK old \in Nat, new \in Nat : old = w.cn[c].calls /\ new = y.calls
    BY WorldIs DEF Conn
  <1>4. new = old \/ new = old + 1
    BY <1>0 DEF LinkConn
  <1>5. new = old /\ y.hook # "" => w.cn[c].hook # ""
    BY <1>0 DEF LinkConn
  <1>6. ASSUME NEW k \in Ids, NEW d \in Conns, Holds(v, k, d)
        PROVE  Holds(w, k, d)
    <2>1. CASE d # c
      BY <1>1, <1>6, <2>1 DEF Holds
    <2>2. CASE d = c
      <3>1. y.hook # "" /\ w.cl[k].next = <<c, y.calls>>
        BY <1>1, <1>6, <2>2 DEF Holds
      <3>2. w.cn[c].up
        BY <3>1 DEF LinkConn
      <3>3. new <= old
        BY <1>0, <1>2, <3>1, <3>2
      <3>4. new = old
        BY ONLY <1>4, <3>3, old \in Nat, new \in Nat
      <3>5. new = old /\ w.cn[c].hook # ""
        BY <1>5, <3>1, <3>4
      <3>. QED
        BY <1>0, <2>2, <3>1, <3>5 DEF Holds
    <2>. QED
      BY <2>1, <2>2
  <1>7. ASSUME NEW k \in Ids, NEW d \in Conns, NEW n \in Nat, v.cn[d].up, v.cl[k].next = <<d, n>>
        PROVE  n <= v.cn[d].calls
    <2>1. w.cn[d].up
      BY <1>1, <1>7 DEF LinkConn
    <2>2. n <= w.cn[d].calls
      BY <1>1, <1>2, <1>7, <2>1
    <2>3. CASE d # c
      BY <1>1, <2>2, <2>3
    <2>4. CASE d = c
      <3>1. n <= old /\ v.cn[d].calls = new
        BY <1>0, <1>1, <2>2, <2>4
      <3>2. n <= new
        <4>1. n <= old
          BY <3>1
        <4>. QED
          BY ONLY <1>4, <4>1, old \in Nat, new \in Nat, n \in Nat
      <3>. QED
        BY <3>1, <3>2
    <2>. QED
      BY <2>3, <2>4
  <1>8. ASSUME NEW i \in 1..Len(w.waiting)
        PROVE  Called(v, w.waiting[i])
    <2>1. Called(w, w.waiting[i]) /\ w.waiting[i].conn \in Conns
      BY <1>2, <1>3, <1>8
    <2>2. CASE w.waiting[i].conn # c
      BY <1>1, <2>1, <2>2 DEF Called
    <2>3. CASE w.waiting[i].conn = c
      <3>1. y.up => w.cn[c].up /\ y.hook = w.cn[c].hook /\ y.calls = w.cn[c].calls
                    /\ y.tx = w.cn[c].tx
        BY <2>3 DEF LinkConn
      <3>. QED
        BY <1>1, <2>1, <2>3, <3>1 DEF Called
    <2>. QED
      BY <2>2, <2>3
  <1>9. /\ \A d \in Conns : ~v.cn[d].up => v.cn[d].tx = 0 /\ v.cn[d].hook = ""
        /\ \A d \in Conns : plugin # "proxy" => v.cn[d].note = 0
    <2>1. /\ ~y.up => y.tx = 0 /\ y.hook = ""
          /\ plugin # "proxy" => y.note = 0
      BY DEF LinkConn
    <2>. QED
      BY <1>1, <1>2, <2>1
  <1>10. ASSUME NEW d \in Conns, NEW k \in Ids, Holds(v, k, d)
         PROVE  v.cn[d].note \in {0, k} \/ plugin # "proxy"
    <2>1. Holds(w, k, d)
      BY <1>6, <1>10
    <2>2. w.cn[d].note \in {0, k} \/ plugin # "proxy"
      BY <1>2, <2>1
    <2>3. CASE d = c
      <3>1. y.note \in {0, w.cn[c].note}
        BY <2>1, <2>3 DEF LinkConn
      <3>. QED
        BY <1>1, <2>2, <2>3, <3>1
    <2>4. CASE d # c
      BY <1>1, <2>2, <2>4
    <2>. QED
      BY <2>3, <2>4
  <1>11. \A d \in Conns, j, k \in Ids : Holds(v, j, d) /\ Holds(v, k, d) => j = k
    BY <1>2, <1>6
  <1>12. ASSUME NEW i \in 1..Len(w.waiting), NEW j \in 1..Len(w.waiting),
                w.waiting[i].conn = w.waiting[j].conn, v.cn[w.waiting[i].conn].up
         PROVE  i = j
    <2>1. w.waiting[i].conn \in Conns
      BY <1>3, <1>12
    <2>2. w.cn[w.waiting[i].conn].up
      BY <1>1, <1>12, <2>1 DEF LinkConn
    <2>. QED
      BY <1>2, <1>12, <2>2
  <1>13. \A i \in 1..Len(v.waiting) : Called(v, v.waiting[i])
    BY <1>1, <1>8
  <1>14. \A i, j \in 1..Len(v.waiting) :
            v.waiting[i].conn = v.waiting[j].conn /\ v.cn[v.waiting[i].conn].up => i = j
    BY <1>1, <1>12
  <1>15. \A k \in Ids, d \in Conns, n \in Nat :
            v.cn[d].up /\ v.cl[k].next = <<d, n>> => n <= v.cn[d].calls
    BY <1>7
  <1>16. \A d \in Conns, k \in Ids : Holds(v, k, d) => v.cn[d].note \in {0, k} \/ plugin # "proxy"
    BY <1>10
  <1>. QED
    BY <1>9, <1>16, <1>11, <1>13, <1>14, <1>15 DEF Links

LEMMA RestConn ==
    ASSUME NEW w, NEW k, Rest(w, k), NEW c \in Conns, NEW y \in Conn,
           LinkConn(w, c, y), Told(w, c, y), \A j \in Ids : j # k => Passes(w, j, c, y)
    PROVE  Rest(WithConn(w, c, y), k)
  <1>. PICK v : v = WithConn(w, c, y)
    OBVIOUS
  <1>0. w \in World /\ Links(w) /\ Pool(w) /\ Truth(w)
        /\ (\A j \in Ids : GoneIs(w, j)) /\ (\A j \in Ids : j # k => Own(w, j))
    BY DEF Rest
  <1>1. /\ v \in World /\ v.cn[c] = y /\ (\A d \in Conns : d # c => v.cn[d] = w.cn[d])
        /\ v.cl = w.cl /\ v.wire = w.wire /\ v.srv = w.srv
        /\ v.avail = w.avail /\ v.waiting = w.waiting /\ v.accepted = w.accepted
    BY <1>0, ConnIs
  <1>2. \A j \in Ids : GoneIs(v, j)
    BY <1>0, <1>1 DEF GoneIs
  <1>3. \A j \in Ids : j # k => Own(v, j)
    BY <1>0, OwnConn
  <1>4. Links(v)
    BY <1>0, LinksConn
  <1>5. Pool(v)
    BY <1>0, <1>1 DEF Pool
  <1>6. Truth(v)
    <2>1. \A m \in v.accepted : OfOne(m)
      BY <1>0, <1>1 DEF Truth
    <2>2. ASSUME NEW d \in Conns, NEW t \in v.cn[d].told
          PROVE  t.slipped \/ \E m \in v.accepted : m.body = <<d, t.tx>>
      BY <1>0, <1>1, <2>2 DEF Truth, Told
    <2>. QED
      BY <2>1, <2>2 DEF Truth
  <1>. QED
    BY <1>1, <1>2, <1>3, <1>4, <1>5, <1>6 DEF Rest

----------------------------------------------------------------------------
(* What a hook's answer does.                                              *)
LEMMA ConnConn ==
    ASSUME NEW w \in World, NEW c \in Conns, NEW y, NEW z
    PROVE  WithConn(WithConn(w, c, y), c, z) = WithConn(w, c, z)
  <1>1. w.cn \in [Conns -> Conn]
    BY WorldIs
  <1>2. [[w.cn EXCEPT ![c] = y] EXCEPT ![c] = z] = [w.cn EXCEPT ![c] = z]
    BY <1>1
  <1>3. PICK v : v = WithConn(w, c, y)
    OBVIOUS
  <1>4. v = [w EXCEPT !.cn = [w.cn EXCEPT ![c] = y]]
    BY <1>3 DEF WithConn
  <1>5. v.cn = [w.cn EXCEPT ![c] = y]
    BY <1>4 DEF World
  <1>6. WithConn(v, c, z) = [v EXCEPT !.cn = [w.cn EXCEPT ![c] = z]]
    BY <1>2, <1>5 DEF WithConn
  <1>7. PICK cns : cns = [w.cn EXCEPT ![c] = z]
    OBVIOUS
  <1>8. [v EXCEPT !.cn = cns] = [w EXCEPT !.cn = cns]
    BY <1>4 DEF World
  <1>9. WithConn(w, c, z) = [w EXCEPT !.cn = cns]
    BY <1>7 DEF WithConn
  <1>. QED
    BY <1>3, <1>6, <1>7, <1>8, <1>9

LEMMA ResetIs ==
    ASSUME NEW w \in World, NEW c \in Conns
    PROVE  \E y \in Conn :
              /\ Reset(w, c) = WithConn(w, c, y)
              /\ y.tx = 0 /\ y.up = w.cn[c].up /\ y.hook = w.cn[c].hook /\ y.note = w.cn[c].note
              /\ y.calls = w.cn[c].calls /\ y.told = w.cn[c].told
  <1>0. w.cn[c] \in Conn
    BY WorldIs
  <1>. PICK off \in BOOLEAN : off = FALSE
    OBVIOUS
  <1>1. PICK y : y = [w.cn[c] EXCEPT !.tx = 0, !.asked = 0, !.rcpts = 0, !.data = off]
    OBVIOUS
  <1>2. y \in Conn
    BY <1>0, <1>1 DEF Conn
  <1>3. /\ y.tx = 0 /\ y.up = w.cn[c].up /\ y.hook = w.cn[c].hook /\ y.note = w.cn[c].note
        /\ y.calls = w.cn[c].calls /\ y.told = w.cn[c].told
    BY <1>0, <1>1 DEF Conn
  <1>4. Reset(w, c) = WithConn(w, c, y)
    BY <1>1 DEF Reset, WithConn
  <1>. QED
    BY <1>2, <1>3, <1>4

(* The hook of c, that is over when c becomes y.                           *)
Answered(w, c, id, ret, k, y) ==
    /\ w.cn[c].hook # "" /\ w.cn[c].calls = id
    /\ y.up = w.cn[c].up /\ y.note = w.cn[c].note /\ y.calls = w.cn[c].calls /\ y.hook = ""
    /\ y.tx \in {w.cn[c].tx, 0}
    /\ w.cn[c].hook = "mail" /\ y.tx # 0 => ret = "cont"
    /\ \/ y.told = w.cn[c].told
       \/ /\ ret = "ok"
          /\ y.told = w.cn[c].told \union {[tx |-> w.cn[c].tx, slipped |-> w.cl[k].slipped]}

LEMMA AnswerIs ==
    ASSUME NEW w \in World, NEW c \in Conns, NEW id, NEW ret, NEW k, ret = "ok" => k \in Ids
    PROVE  \/ Answer(w, c, id, ret, k) = w
           \/ \E y \in Conn : /\ Answer(w, c, id, ret, k) = WithConn(w, c, y)
                              /\ Answered(w, c, id, ret, k, y)
  <1>0. w.cn[c] \in Conn
    BY WorldIs
  <1>1. CASE w.cn[c].hook = "" \/ w.cn[c].calls # id
    BY <1>1 DEF Answer, Awaits
  <1>2. CASE ~(w.cn[c].hook = "" \/ w.cn[c].calls # id)
    <2>. PICK h \in Hooks : h = w.cn[c].hook
      BY <1>0 DEF Conn
    <2>. PICK over \in Hooks : over = ""
      BY DEF Hooks
    <2>1. PICK y \in Conn : y = [w.cn[c] EXCEPT !.hook = over]
      BY <1>0 DEF Conn
    <2>2. /\ y.up = w.cn[c].up /\ y.note = w.cn[c].note /\ y.calls = w.cn[c].calls /\ y.hook = ""
          /\ y.tx = w.cn[c].tx /\ y.told = w.cn[c].told /\ y.rcpts \in Nat
      BY <1>0, <2>1 DEF Conn
    <2>3. PICK u : u = WithConn(w, c, y)
      OBVIOUS
    <2>4. u = [w EXCEPT !.cn[c].hook = ""]
      BY <2>1, <2>3 DEF WithConn
    <2>5. u \in World /\ u.cn[c] = y
      BY <2>3, ConnIs
    <2>. PICK v : v = Answer(w, c, id, ret, k)
      OBVIOUS
    <2>6. CASE h = "rcpt_ok" /\ ret = "cont"
      <3>1. v = [u EXCEPT !.cn[c].rcpts = u.cn[c].rcpts + 1]
        BY <1>2, <2>4, <2>6 DEF Answer, Awaits
      <3>2. PICK n \in Nat : n = y.rcpts + 1
        <4>1. PICK r \in Nat : r = y.rcpts
          BY <2>2
        <4>2. r + 1 \in Nat
          BY ONLY r \in Nat
        <4>. QED
          BY <4>1, <4>2
      <3>3. PICK z : z = [y EXCEPT !.rcpts = n]
        OBVIOUS
      <3>4. /\ z \in Conn /\ z.up = y.up /\ z.note = y.note /\ z.calls = y.calls /\ z.hook = y.hook
            /\ z.tx = y.tx /\ z.told = y.told
        BY <3>3 DEF Conn
      <3>5. v = WithConn(u, c, z)
        BY <2>5, <3>1, <3>2, <3>3 DEF WithConn
      <3>6. v = WithConn(w, c, z)
        <4>1. WithConn(WithConn(w, c, y), c, z) = WithConn(w, c, z)
          BY ONLY w \in World, c \in Conns, ConnConn
        <4>. QED
          BY <2>3, <3>5, <4>1
      <3>7. Answered(w, c, id, ret, k, z)
        BY <1>2, <2>2, <2>6, <3>4 DEF Answered
      <3>. QED
        BY <3>4, <3>6, <3>7
    <2>7. CASE (h = "rcpt_ok" /\ ret # "cont") \/ (h = "mail" /\ ret = "cont")
      <3>1. v = u
        BY <1>2, <2>4, <2>7 DEF Answer, Awaits
      <3>2. Answered(w, c, id, ret, k, y)
        BY <1>2, <2>2, <2>7 DEF Answered
      <3>. QED
        BY <2>3, <3>1, <3>2
    <2>8. CASE h = "data" /\ ret = "cont"
      <3>. PICK on \in BOOLEAN : on = TRUE
        OBVIOUS
      <3>1. v = [u EXCEPT !.cn[c].data = on]
        BY <1>2, <2>4, <2>8 DEF Answer, Awaits
      <3>2. PICK z : z = [y EXCEPT !.data = on]
        OBVIOUS
      <3>3. /\ z \in Conn /\ z.up = y.up /\ z.note = y.note /\ z.calls = y.calls /\ z.hook = y.hook
            /\ z.tx = y.tx /\ z.told = y.told
        BY <3>2 DEF Conn
      <3>4. v = WithConn(u, c, z)
        BY <2>5, <3>1, <3>2 DEF WithConn
      <3>5. v = WithConn(w, c, z)
        <4>1. WithConn(WithConn(w, c, y), c, z) = WithConn(w, c, z)
          BY ONLY w \in World, c \in Conns, ConnConn
        <4>. QED
          BY <2>3, <3>4, <4>1
      <3>6. Answered(w, c, id, ret, k, z)
        BY <1>2, <2>2, <2>8, <3>3 DEF Answered
      <3>. QED
        BY <3>3, <3>5, <3>6
    <2>9. CASE h = "queue" /\ ret = "ok"
      <3>. PICK note \in [tx : Nat, slipped : BOOLEAN] :
              note = [tx |-> w.cn[c].tx, slipped |-> w.cl[k].slipped]
        <4>1. w.cn[c].tx \in Nat /\ w.cl[k].slipped \in BOOLEAN
          BY <1>0, <2>9, WorldIs DEF Conn, Client
        <4>. QED
          BY <4>1
      <3>1. v = Reset([u EXCEPT !.cn[c].told = u.cn[c].told \union {note}], c)
        BY <1>2, <2>4, <2>9 DEF Answer, Awaits
      <3>2. PICK ts : ts = y.told \union {note}
        OBVIOUS
      <3>3. ts \in SUBSET [tx : Nat, slipped : BOOLEAN]
        BY <3>2 DEF Conn
      <3>4. PICK z : z = [y EXCEPT !.told = ts]
        OBVIOUS
      <3>5. /\ z \in Conn /\ z.up = y.up /\ z.note = y.note /\ z.calls = y.calls /\ z.hook = y.hook
            /\ z.tx = y.tx /\ z.told = ts
        BY <3>4, <3>3 DEF Conn
      <3>6. PICK x : x = WithConn(u, c, z)
        OBVIOUS
      <3>7. v = Reset(x, c)
        BY <2>5, <3>1, <3>2, <3>4, <3>6 DEF WithConn
      <3>8. x \in World /\ x.cn[c] = z
        BY <2>5, <3>5, <3>6, ConnIs
      <3>9. PICK q \in Conn :
               /\ Reset(x, c) = WithConn(x, c, q)
               /\ q.tx = 0 /\ q.up = x.cn[c].up /\ q.hook = x.cn[c].hook /\ q.note = x.cn[c].note
               /\ q.calls = x.cn[c].calls /\ q.told = x.cn[c].told
        BY <3>8, ResetIs
      <3>10. v = WithConn(w, c, q)
        <4>1. WithConn(WithConn(w, c, y), c, z) = WithConn(w, c, z)
          BY ONLY w \in World, c \in Conns, ConnConn
        <4>2. x = WithConn(w, c, z)
          BY <2>3, <3>6, <4>1
        <4>3. WithConn(WithConn(w, c, z), c, q) = WithConn(w, c, q)
          BY ONLY w \in World, c \in Conns, ConnConn
        <4>. QED
          BY <3>7, <3>9, <4>2, <4>3
      <3>11. Answered(w, c, id, ret, k, q)
        BY <1>2, <2>2, <2>9, <3>2, <3>5, <3>8, <3>9 DEF Answered
      <3>. QED
        BY <3>10, <3>11
    <2>10. CASE /\ ~(h = "rcpt_ok" /\ ret = "cont")
                /\ ~((h = "rcpt_ok" /\ ret # "cont") \/ (h = "mail" /\ ret = "cont"))
                /\ ~(h = "data" /\ ret = "cont")
                /\ ~(h = "queue" /\ ret = "ok")
      <3>0. Answer(w, c, id, ret, k) = Reset(u, c)
        <4>1. /\ ~(w.cn[c].hook = "rcpt_ok" /\ ret = "cont")
              /\ ~(w.cn[c].hook = "rcpt_ok" /\ ret # "cont")
              /\ ~(w.cn[c].hook = "mail" /\ ret = "cont")
              /\ ~(w.cn[c].hook = "data" /\ ret = "cont")
              /\ ~(w.cn[c].hook = "queue" /\ ret = "ok")
          BY <2>10
        <4>. QED
          BY ONLY <1>2, <2>4, <4>1 DEF Answer, Awaits
      <3>1. v = Reset(u, c)
        BY <3>0
      <3>2. PICK q \in Conn :
               /\ Reset(u, c) = WithConn(u, c, q)
               /\ q.tx = 0 /\ q.up = u.cn[c].up /\ q.hook = u.cn[c].hook /\ q.note = u.cn[c].note
               /\ q.calls = u.cn[c].calls /\ q.told = u.cn[c].told
        BY <2>5, ResetIs
      <3>3. v = WithConn(w, c, q)
        <4>1. WithConn(WithConn(w, c, y), c, q) = WithConn(w, c, q)
          BY ONLY w \in World, c \in Conns, ConnConn
        <4>. QED
          BY <2>3, <3>1, <3>2, <4>1
      <3>4. Answered(w, c, id, ret, k, q)
        BY <1>2, <2>2, <2>5, <3>2 DEF Answered
      <3>. QED
        BY <3>3, <3>4
    <2>. QED
      BY <2>6, <2>7, <2>8, <2>9, <2>10
  <1>. QED
    BY <1>1, <1>2

LEMMA IdsAre == 0 \notin Ids
  BY PoolAssumption DEF Ids

(* A client's answer to the hook it works for disturbs no other client.    *)
CanSay(w, k, ret) ==
    ret = "ok" => \/ w.cl[k].slipped
                  \/ \A c \in Conns : Holds(w, k, c) =>
                        \E m \in w.accepted : m.body = <<c, w.cn[c].tx>>

(* call_next without the commands its answer lets a sender run.           *)
Say(w, k, ret) ==
    LET n == w.cl[k].next IN
    IF n = <<>> THEN w
    ELSE Answer([w EXCEPT !.cl[k].next = <<>>], n[1], n[2], ret, k)

LEMMA SayRest ==
    ASSUME NEW w, NEW k \in Ids, Rest(w, k), NEW ret, CanSay(w, k, ret)
    PROVE  /\ Rest(Say(w, k, ret), k)
           /\ Say(w, k, ret).cl[k] = [w.cl[k] EXCEPT !.next = NoTx]
           /\ Say(w, k, ret).wire[k] = w.wire[k] /\ Say(w, k, ret).srv[k] = w.srv[k]
           /\ Say(w, k, ret).avail = w.avail /\ Say(w, k, ret).waiting = w.waiting
           /\ Say(w, k, ret).accepted = w.accepted
           /\ \A j \in Ids : j # k => Say(w, k, ret).cl[j] = w.cl[j]
           /\ \A d \in Conns :
                 \/ Say(w, k, ret).cn[d] = w.cn[d]
                 \/ /\ Holds(w, k, d)
                    /\ Say(w, k, ret).cn[d].up = w.cn[d].up
                    /\ Say(w, k, ret).cn[d].note = w.cn[d].note
                    /\ Say(w, k, ret).cn[d].tx \in {w.cn[d].tx, 0}
  <1>. PICK v : v = Say(w, k, ret)
    OBVIOUS
  <1>0. w \in World /\ w.cl[k] \in Client /\ w.wire[k] \in Seq(Line) /\ w.srv[k] \in Envelope
        /\ Links(w) /\ Pool(w) /\ Truth(w) /\ GoneIs(w, k)
    BY RestIs DEF Rest
  <1>1. PICK x : x = [w.cl[k] EXCEPT !.next = NoTx]
    OBVIOUS
  <1>2. /\ x \in Client /\ x.next = NoTx /\ x.state = w.cl[k].state /\ x.slipped = w.cl[k].slipped
    BY <1>0, <1>1 DEF Client, TxId
  <1>3. CASE w.cl[k].next = <<>>
    <2>1. v = w
      BY <1>3 DEF Say
    <2>2. x = w.cl[k]
      BY <1>0, <1>1, <1>3 DEF Client, NoTx
    <2>. QED
      BY <1>1, <2>1, <2>2
  <1>4. CASE w.cl[k].next # <<>>
    <2>1. PICK c \in Conns, id \in Nat : w.cl[k].next = <<c, id>>
      BY <1>0, <1>4 DEF Client, TxId, NoTx
    <2>2. PICK u : u = Put(w, k, x, w.wire[k], w.srv[k])
      OBVIOUS
    <2>3. u = [w EXCEPT !.cl[k] = x]
      BY <1>0, <1>2, <2>2, PutOne
    <2>4. v = Answer(u, c, id, ret, k)
      <3>1. u = [w EXCEPT !.cl[k].next = <<>>]
        BY <1>1, <2>3 DEF NoTx
      <3>. QED
        BY <1>4, <2>1, <3>1 DEF Say
    <2>5. (Gone(x) => w.wire[k] = <<>> /\ w.srv[k] = Idle) /\ (x.slipped => x.state # "none")
      BY <1>0, <1>2 DEF GoneIs, Gone
    <2>6. InPool(w.avail, k) => Pooled(x)
      BY <1>0, <1>2 DEF Pool, Pooled, Gone
    <2>7. Rest(u, k)
      BY <1>0, <1>2, <2>2, <2>5, <2>6, RestPut
    <2>8. /\ u \in World /\ u.cl[k] = x /\ u.wire[k] = w.wire[k] /\ u.srv[k] = w.srv[k]
          /\ u.cn = w.cn /\ u.avail = w.avail /\ u.waiting = w.waiting /\ u.accepted = w.accepted
          /\ \A j \in Ids : j # k => u.cl[j] = w.cl[j]
      BY <1>0, <1>2, <2>2, Put_Is
    <2>9. CASE v = u
      BY <1>1, <2>7, <2>8, <2>9
    <2>10. ASSUME NEW y \in Conn, v = WithConn(u, c, y), Answered(u, c, id, ret, k, y)
           PROVE  /\ Rest(v, k)
                  /\ v.cl[k] = x /\ v.wire[k] = w.wire[k] /\ v.srv[k] = w.srv[k]
                  /\ v.avail = w.avail /\ v.waiting = w.waiting /\ v.accepted = w.accepted
                  /\ \A j \in Ids : j # k => v.cl[j] = w.cl[j]
                  /\ \A d \in Conns : \/ v.cn[d] = w.cn[d]
                                      \/ /\ Holds(w, k, d)
                                         /\ v.cn[d].up = w.cn[d].up /\ v.cn[d].note = w.cn[d].note
                                         /\ v.cn[d].tx \in {w.cn[d].tx, 0}
      <3>1. /\ w.cn[c].hook # "" /\ w.cn[c].calls = id
            /\ y.up = w.cn[c].up /\ y.note = w.cn[c].note /\ y.calls = w.cn[c].calls /\ y.hook = ""
            /\ y.tx \in {w.cn[c].tx, 0}
            /\ \/ y.told = w.cn[c].told
               \/ /\ ret = "ok"
                  /\ y.told = w.cn[c].told \union {[tx |-> w.cn[c].tx, slipped |-> w.cl[k].slipped]}
        BY <1>2, <2>8, <2>10 DEF Answered
      <3>2. Holds(w, k, c)
        BY <2>1, <3>1 DEF Holds
      <3>3. \A j \in Ids : j # k => ~Holds(u, j, c)
        <4>1. \A j \in Ids : Holds(w, j, c) => j = k
          BY <1>0, <3>2 DEF Links
        <4>. QED
          BY <2>8, <4>1 DEF Holds
      <3>4. w.cn[c].note \in {0, k} \/ plugin # "proxy"
        BY <1>0, <3>2 DEF Links
      <3>5. plugin # "proxy" => w.cn[c].note = 0
        BY <1>0 DEF Links
      <3>6. \A j \in Ids : j # k => Passes(u, j, c, y)
        BY <2>8, <3>1, <3>3, <3>4, <3>5, IdsAre DEF Passes
      <3>7. ASSUME NEW i \in 1..Len(w.waiting), w.cn[c].up, w.waiting[i].conn = c
            PROVE  FALSE
        <4>1. Called(w, w.waiting[i])
          BY <1>0, <3>7 DEF Links
        <4>2. w.waiting[i].id = id /\ w.cl[k].next # <<c, w.waiting[i].id>>
          BY <3>1, <3>7, <4>1 DEF Called
        <4>. QED
          BY <2>1, <4>2
      <3>8. ~w.cn[c].up => w.cn[c].tx = 0
        BY <1>0 DEF Links
      <3>9. LinkConn(u, c, y)
        BY <2>8, <3>1, <3>5, <3>7, <3>8 DEF LinkConn
      <3>10. Told(u, c, y)
        <4>1. \A t \in w.cn[c].told : t.slipped \/ \E m \in w.accepted : m.body = <<c, t.tx>>
          BY <1>0 DEF Truth
        <4>2. ASSUME ret = "ok", NEW t, t = [tx |-> w.cn[c].tx, slipped |-> w.cl[k].slipped]
              PROVE  t.slipped \/ \E m \in w.accepted : m.body = <<c, t.tx>>
          BY <3>2, <4>2 DEF CanSay
        <4>3. \A t \in y.told : t.slipped \/ \E m \in w.accepted : m.body = <<c, t.tx>>
          BY <3>1, <4>1, <4>2
        <4>. QED
          BY <2>8, <4>3 DEF Told
      <3>11. Rest(v, k)
        BY <2>7, <2>10, <3>6, <3>9, <3>10, RestConn
      <3>12. /\ v.cn[c] = y /\ \A d \in Conns : d # c => v.cn[d] = u.cn[d]
             /\ v.cl = u.cl /\ v.wire = u.wire /\ v.srv = u.srv /\ v.avail = u.avail
             /\ v.waiting = u.waiting /\ v.accepted = u.accepted
        BY <2>8, <2>10, ConnIs
      <3>. QED
        BY <2>8, <3>1, <3>2, <3>11, <3>12
    <2>11. \/ v = u
           \/ \E y \in Conn : v = WithConn(u, c, y) /\ Answered(u, c, id, ret, k, y)
      BY <2>4, <2>8, AnswerIs
    <2>. QED
      BY <1>1, <2>9, <2>10, <2>11
  <1>. QED
    BY <1>3, <1>4

LEMMA ForgetRest ==
    ASSUME NEW w, NEW k, Rest(w, k), NEW c \in Conns
    PROVE  /\ Rest(Forget(w, c), k)
           /\ Forget(w, c).cl = w.cl /\ Forget(w, c).wire = w.wire /\ Forget(w, c).srv = w.srv
           /\ Forget(w, c).avail = w.avail /\ Forget(w, c).waiting = w.waiting
           /\ Forget(w, c).accepted = w.accepted
           /\ Forget(w, c).cn[c] = [w.cn[c] EXCEPT !.note = 0]
           /\ \A d \in Conns : d # c => Forget(w, c).cn[d] = w.cn[d]
  <1>. PICK v : v = Forget(w, c)
    OBVIOUS
  <1>0. w \in World /\ w.cn[c] \in Conn /\ Links(w) /\ Truth(w)
    BY WorldIs DEF Rest
  <1>1. PICK y : y = [w.cn[c] EXCEPT !.note = 0]
    OBVIOUS
  <1>2. /\ y \in Conn /\ y.note = 0 /\ y.up = w.cn[c].up /\ y.hook = w.cn[c].hook
        /\ y.calls = w.cn[c].calls /\ y.tx = w.cn[c].tx /\ y.told = w.cn[c].told
    BY <1>0, <1>1 DEF Conn
  <1>3. v = WithConn(w, c, y)
    BY <1>1 DEF Forget, WithConn
  <1>4. \A j \in Ids : Passes(w, j, c, y)
    BY <1>2, IdsAre DEF Passes
  <1>5. LinkConn(w, c, y)
    <2>1. ~w.cn[c].up => w.cn[c].tx = 0 /\ w.cn[c].hook = ""
      BY <1>0 DEF Links
    <2>. QED
      BY <1>2, <2>1 DEF LinkConn
  <1>6. Told(w, c, y)
    BY <1>0, <1>2 DEF Told, Truth
  <1>7. Rest(v, k)
    BY <1>2, <1>3, <1>4, <1>5, <1>6, RestConn
  <1>8. /\ v.cn[c] = y /\ \A d \in Conns : d # c => v.cn[d] = w.cn[d]
        /\ v.cl = w.cl /\ v.wire = w.wire /\ v.srv = w.srv /\ v.avail = w.avail
        /\ v.waiting = w.waiting /\ v.accepted = w.accepted
    BY <1>0, <1>2, <1>3, ConnIs
  <1>. QED
    BY <1>1, <1>7, <1>8

----------------------------------------------------------------------------
(* Giving a client to a caller.                                            *)
NoneWaits(w, c) == w.cn[c].up => \A i \in 1..Len(w.waiting) : w.waiting[i].conn # c

(* The plugin's listeners, next and note.                                  *)
Give(s, k, call) ==
    [s EXCEPT !.cl[k] = [@ EXCEPT !.ears = Append(s.cl[k].ears, call.conn),
                                  !.next = <<call.conn, call.id>>,
                                  !.txn = call.tx, !.rcpt = 0],
              !.cn[call.conn].note = IF plugin = "proxy" THEN k ELSE @]

Given(s, v, k, call) ==
    /\ v.cl[k] = [s.cl[k] EXCEPT !.ears = Append(s.cl[k].ears, call.conn),
                                 !.next = <<call.conn, call.id>>, !.txn = call.tx, !.rcpt = 0]
    /\ v.wire[k] = s.wire[k] /\ v.srv[k] = s.srv[k]
    /\ v.avail = s.avail /\ v.waiting = s.waiting /\ v.accepted = s.accepted
    /\ \A j \in Ids : j # k => v.cl[j] = s.cl[j]
    /\ \A d \in Conns : d # call.conn => v.cn[d] = s.cn[d]
    /\ v.cn[call.conn] = [s.cn[call.conn] EXCEPT !.note = IF plugin = "proxy" THEN k ELSE @]

LEMMA GiveRest ==
    ASSUME NEW s, NEW k \in Ids, Rest(s, k), s.cl[k].state # "none",
           NEW call \in Caller, Called(s, call), NoneWaits(s, call.conn)
    PROVE  Rest(Give(s, k, call), k) /\ Given(s, Give(s, k, call), k, call)
  <1>. PICK v : v = Give(s, k, call)
    OBVIOUS
  <1>. PICK c \in Conns, id \in Nat, t \in TxId : c = call.conn /\ id = call.id /\ t = call.tx
    BY DEF Caller
  <1>0. s \in World /\ s.cl[k] \in Client /\ s.wire[k] \in Seq(Line) /\ s.srv[k] \in Envelope
        /\ s.cn[c] \in Conn /\ GoneIs(s, k) /\ Links(s) /\ Truth(s) /\ Pool(s)
    BY RestIs, WorldIs DEF Rest
  <1>1. PICK note \in {0} \union Ids : note = IF plugin = "proxy" THEN k ELSE s.cn[c].note
    BY <1>0 DEF Conn
  <1>2. PICK y : y = [s.cn[c] EXCEPT !.note = note]
    OBVIOUS
  <1>3. /\ y \in Conn /\ y.note = note /\ y.up = s.cn[c].up /\ y.hook = s.cn[c].hook
        /\ y.calls = s.cn[c].calls /\ y.tx = s.cn[c].tx /\ y.told = s.cn[c].told
    BY <1>0, <1>2 DEF Conn
  <1>4. PICK u : u = WithConn(s, c, y)
    OBVIOUS
  <1>5. ~s.cn[c].up => s.cn[c].tx = 0 /\ s.cn[c].hook = ""
    BY <1>0 DEF Links
  <1>6. plugin # "proxy" => s.cn[c].note = 0
    BY <1>0 DEF Links
  <1>7. s.cn[c].up => id = s.cn[c].calls /\ \A j \in Ids : s.cl[j].next # <<c, id>>
    BY DEF Called
  <1>8. \A j \in Ids : ~Holds(s, j, c)
    BY <1>5, <1>7 DEF Holds
  <1>9. LinkConn(s, c, y)
    BY <1>1, <1>3, <1>5, <1>6, <1>8 DEF LinkConn
  <1>10. \A j \in Ids : j # k => Passes(s, j, c, y)
    BY <1>1, <1>3, <1>6, IdsAre DEF Passes
  <1>11. Told(s, c, y)
    BY <1>0, <1>3 DEF Told, Truth
  <1>12. Rest(u, k)
    BY <1>3, <1>4, <1>9, <1>10, <1>11, RestConn
  <1>13. /\ u \in World /\ u.cn[c] = y /\ (\A d \in Conns : d # c => u.cn[d] = s.cn[d])
         /\ u.cl = s.cl /\ u.wire = s.wire /\ u.srv = s.srv /\ u.avail = s.avail
         /\ u.waiting = s.waiting /\ u.accepted = s.accepted
    BY <1>0, <1>3, <1>4, ConnIs
  <1>14. PICK ears \in Seq(Conns) : ears = Append(s.cl[k].ears, c)
    <2>1. s.cl[k].ears \in Seq(Conns)
      BY <1>0 DEF Client
    <2>2. Append(s.cl[k].ears, c) \in Seq(Conns)
      BY <2>1
    <2>. QED
      BY <2>2
  <1>15. PICK next \in TxId : next = <<c, id>>
    BY DEF TxId
  <1>16. PICK x : x = [s.cl[k] EXCEPT !.ears = ears, !.next = next, !.txn = t, !.rcpt = 0]
    OBVIOUS
  <1>17. /\ x \in Client /\ x.next = <<c, id>> /\ x.state = s.cl[k].state
         /\ x.slipped = s.cl[k].slipped
    BY <1>0, <1>15, <1>16 DEF Client
  <1>18. MayServe(u, k, c, id)
    BY <1>1, <1>3, <1>6, <1>7, <1>13 DEF MayServe, NoneWaits
  <1>19. Gone(x) => u.wire[k] = <<>> /\ u.srv[k] = Idle
    BY <1>0, <1>13, <1>17 DEF GoneIs, Gone
  <1>20. InPool(u.avail, k) => Pooled(x)
    BY <1>0, <1>13, <1>17 DEF Pool, Pooled, Gone
  <1>21. PICK q : q = Put(u, k, x, u.wire[k], u.srv[k])
    OBVIOUS
  <1>22. u.wire[k] \in Seq(Line) /\ u.srv[k] \in Envelope
    BY <1>0, <1>13
  <1>23. Rest(q, k)
    BY <1>12, <1>17, <1>18, <1>19, <1>20, <1>21, <1>22, RestNext
  <1>24. /\ q.cl[k] = x /\ q.wire[k] = u.wire[k] /\ q.srv[k] = u.srv[k]
         /\ \A j \in Ids : j # k => q.cl[j] = u.cl[j]
         /\ q.cn = u.cn /\ q.avail = u.avail /\ q.waiting = u.waiting /\ q.accepted = u.accepted
    BY <1>13, <1>17, <1>21, <1>22, Put_Is
  <1>25. q = v
    <2>1. PICK cls, cns : cls = [s.cl EXCEPT ![k] = x] /\ cns = [s.cn EXCEPT ![c] = y]
      OBVIOUS
    <2>2. q = [u EXCEPT !.cl[k] = x]
      BY <1>13, <1>17, <1>21, PutOne
    <2>3. q = [u EXCEPT !.cl = cls]
      BY <1>13, <2>1, <2>2
    <2>4. u = [s EXCEPT !.cn = cns]
      BY <1>4, <2>1 DEF WithConn
    <2>5. v = [s EXCEPT !.cl[k] = x, !.cn[c] = y]
      BY <1>1, <1>2, <1>14, <1>15, <1>16 DEF Give
    <2>6. v = [s EXCEPT !.cl = cls, !.cn = cns]
      BY <2>1, <2>5
    <2>. QED
      BY ONLY <2>3, <2>4, <2>6, <1>0 DEF World
  <1>26. Given(s, q, k, call)
    BY <1>1, <1>2, <1>13, <1>14, <1>15, <1>16, <1>24 DEF Given
  <1>. QED
    BY <1>23, <1>25, <1>26

(* The rest of get_client_plugin, when the client is in use.               *)
TakeFrom(u, k, call) ==
    LET s == IF ~u.cl[k].connected THEN u
             ELSE IF u.cl[k].xclient THEN send_command(u, k, "xclient", NoTx)
             ELSE helo(u, k, call.conn)
    IN  Give(s, k, call)

LEMMA TakeIs ==
    ASSUME NEW w, NEW k, NEW call
    PROVE  get_client_plugin(w, k, call) = TakeFrom([w EXCEPT !.cl[k].state = "ACTIVE"], k, call)
  BY DEF get_client_plugin, TakeFrom, Give

LEMMA HeloIs ==
    ASSUME NEW w \in World, NEW k \in Ids, NEW c \in Conns
    PROVE  \/ Dead(w, c) /\ helo(w, k, c) = release(w, k)
           \/ \E cmd \in Commands, tx \in TxId :
                 /\ helo(w, k, c) = send_command(w, k, cmd, tx)
                 /\ \/ cmd = "auth"
                    \/ cmd = "mail" /\ ~Dead(w, c) /\ tx = <<c, w.cn[c].tx>>
  <1>0. NoTx \in TxId
    BY DEF TxId
  <1>. PICK auth \in Commands, mail \in Commands : auth = "auth" /\ mail = "mail"
    BY DEF Commands
  <1>1. CASE Auth /\ ~w.cl[k].authenticated
    <2>1. helo(w, k, c) = send_command(w, k, auth, NoTx)
      BY <1>1 DEF helo
    <2>. QED
      BY <1>0, <2>1
  <1>2. CASE ~(Auth /\ ~w.cl[k].authenticated) /\ Dead(w, c)
    BY <1>2 DEF helo
  <1>3. CASE ~(Auth /\ ~w.cl[k].authenticated) /\ ~Dead(w, c)
    <2>1. PICK t \in TxId : t = <<c, w.cn[c].tx>>
      BY WorldIs DEF Conn, TxId
    <2>2. helo(w, k, c) = send_command(w, k, mail, t)
      BY <1>3, <2>1 DEF helo, Tx, Dead
    <2>. QED
      BY <1>3, <2>1, <2>2
  <1>. QED
    BY <1>1, <1>2, <1>3

LEMMA HeloRest ==
    ASSUME NEW w, NEW k \in Ids, Rest(w, k), w.cl[k].state # "none", NEW c \in Conns
    PROVE  /\ Rest(helo(w, k, c), k) /\ Kept(w, helo(w, k, c), k)
           /\ helo(w, k, c).cl[k].state # "none"
  <1>0. w \in World /\ w.cl[k] \in Client
    BY RestIs
  <1>1. CASE helo(w, k, c) = release(w, k)
    BY <1>1, ReleaseRest
  <1>2. ASSUME NEW cmd \in Commands, NEW tx \in TxId, helo(w, k, c) = send_command(w, k, cmd, tx)
        PROVE  /\ Rest(helo(w, k, c), k) /\ Kept(w, helo(w, k, c), k)
               /\ helo(w, k, c).cl[k].state # "none"
    <2>1. PICK v : v = send_command(w, k, cmd, tx)
      OBVIOUS
    <2>2. /\ Rest(v, k) /\ Kept(w, v, k)
          /\ \/ v = w
             \/ v.cl[k] = [w.cl[k] EXCEPT !.command = cmd]
      BY <2>1, SendRest
    <2>3. v.cl[k].state = w.cl[k].state
      BY <1>0, <2>2 DEF Client
    <2>. QED
      BY <1>2, <2>1, <2>2, <2>3
  <1>. QED
    BY <1>0, <1>1, <1>2, HeloIs

LEMMA TakeFromIs ==
    ASSUME NEW u, NEW k \in Ids, Rest(u, k), u.cl[k].state = "ACTIVE",
           NEW call \in Caller, Called(u, call), NoneWaits(u, call.conn)
    PROVE  \E s :
              /\ Rest(s, k) /\ Kept(u, s, k) /\ s.cl[k].state # "none"
              /\ Rest(TakeFrom(u, k, call), k) /\ Given(s, TakeFrom(u, k, call), k, call)
              /\ \/ ~u.cl[k].connected /\ s = u
                 \/ u.cl[k].connected /\ Dead(u, call.conn) /\ s = release(u, k)
                 \/ \E cmd \in Commands, tx \in TxId :
                       /\ u.cl[k].connected /\ s = send_command(u, k, cmd, tx)
                       /\ \/ cmd \in {"xclient", "auth"}
                          \/ /\ cmd = "mail" /\ ~Dead(u, call.conn)
                             /\ tx = <<call.conn, u.cn[call.conn].tx>>
  <1>. PICK c \in Conns : c = call.conn
    BY DEF Caller
  <1>0. u \in World /\ u.cl[k] \in Client /\ NoTx \in TxId
    BY RestIs DEF TxId
  <1>. PICK xc \in Commands : xc = "xclient"
    BY DEF Commands
  <1>1. PICK s : s = IF ~u.cl[k].connected THEN u
                     ELSE IF u.cl[k].xclient THEN send_command(u, k, xc, NoTx)
                     ELSE helo(u, k, c)
    OBVIOUS
  <1>2. \/ ~u.cl[k].connected /\ s = u
        \/ u.cl[k].connected /\ s = send_command(u, k, xc, NoTx)
        \/ u.cl[k].connected /\ s = helo(u, k, c)
    BY <1>1
  <1>3. /\ Rest(s, k) /\ Kept(u, s, k) /\ s.cl[k].state # "none"
    <2>1. CASE s = u
      BY <2>1 DEF Kept
    <2>2. CASE s = send_command(u, k, xc, NoTx)
      <3>1. Rest(s, k) /\ Kept(u, s, k) /\ s.cl[k] = [u.cl[k] EXCEPT !.command = xc]
        BY <1>0, <2>2, SendRest
      <3>. QED
        BY <1>0, <3>1 DEF Client
    <2>3. CASE s = helo(u, k, c)
      BY <2>3, HeloRest
    <2>. QED
      BY <1>2, <2>1, <2>2, <2>3
  <1>4. Called(s, call) /\ NoneWaits(s, call.conn)
    BY <1>3 DEF Called, NoneWaits, Kept
  <1>5. TakeFrom(u, k, call) = Give(s, k, call)
    BY <1>1 DEF TakeFrom
  <1>6. Rest(TakeFrom(u, k, call), k) /\ Given(s, TakeFrom(u, k, call), k, call)
    BY <1>3, <1>4, <1>5, GiveRest
  <1>7. \/ ~u.cl[k].connected /\ s = u
        \/ u.cl[k].connected /\ Dead(u, c) /\ s = release(u, k)
        \/ \E cmd \in Commands, tx \in TxId :
              /\ u.cl[k].connected /\ s = send_command(u, k, cmd, tx)
              /\ \/ cmd \in {"xclient", "auth"}
                 \/ cmd = "mail" /\ ~Dead(u, c) /\ tx = <<c, u.cn[c].tx>>
    <2>1. CASE u.cl[k].connected /\ s = helo(u, k, c)
      BY <1>0, <2>1, HeloIs
    <2>2. CASE u.cl[k].connected /\ s = send_command(u, k, xc, NoTx)
      BY <1>0, <2>2
    <2>. QED
      BY <1>2, <2>1, <2>2
  <1>. QED
    BY <1>3, <1>6, <1>7

LEMMA TakeSlip ==
    ASSUME NEW u, NEW k \in Ids, Slip(u, k), u.cl[k].state = "ACTIVE",
           NEW call \in Caller, Called(u, call), NoneWaits(u, call.conn)
    PROVE  Slip(TakeFrom(u, k, call), k)
  <1>. PICK v : v = TakeFrom(u, k, call)
    OBVIOUS
  <1>1. PICK s : Rest(s, k) /\ Kept(u, s, k) /\ Rest(v, k) /\ Given(s, v, k, call)
    BY TakeFromIs DEF Slip
  <1>2. s.cl[k].slipped /\ s.cl[k] \in Client
    BY <1>1, RestIs DEF Kept, Slip
  <1>3. v.cl[k].slipped
    BY <1>1, <1>2 DEF Given, Client
  <1>. QED
    BY <1>1, <1>3 DEF Slip

(* A client that no sender uses, and that is in step with upstream.        *)
Spare(u, k) ==
    LET x == u.cl[k] IN
    /\ ~x.pool /\ u.srv[k] = Idle
    /\ LeftOver(u, x.ears) /\ (plugin # "proxy" => x.ears = <<>>)
    /\ \A d \in Conns : u.cn[d].up => u.cn[d].note # k

LEMMA LastEar ==
    ASSUME NEW w, NEW ears, NEW c, EarsAre(w, ears, c)
    PROVE  Last(ears) = c /\ ears # <<>>
  <1>1. CASE ears = <<c>>
    BY <1>1 DEF Last
  <1>2. ASSUME NEW e, ears = <<e, c>>
        PROVE  Last(ears) = c /\ ears # <<>>
    <2>1. Len(<<e, c>>) = 2 /\ <<e, c>>[2] = c
      OBVIOUS
    <2>. QED
      BY <1>2, <2>1 DEF Last
  <1>. QED
    BY <1>1, <1>2 DEF EarsAre

LEMMA GivenOwn ==
    ASSUME NEW s, NEW v, NEW k \in Ids, NEW call \in Caller, Rest(s, k), v \in World,
           Given(s, v, k, call), Called(s, call), Spare(s, k), s.cl[k].state = "ACTIVE",
           OneLine(s.cl[k], s.wire[k]),
           s.wire[k] # <<>> /\ s.wire[k][1].cmd \in {"mail", "rcpt", "dot"} => s.wire[k][1].tx = call.tx
    PROVE  Own(v, k)
  <1>. PICK c \in Conns, id \in Nat, t \in TxId : c = call.conn /\ id = call.id /\ t = call.tx
    BY DEF Caller
  <1>0. s \in World /\ s.cl[k] \in Client /\ s.cn[c] \in Conn
    BY RestIs, WorldIs
  <1>1. PICK x : x = v.cl[k]
    OBVIOUS
  <1>2. /\ x.ears = Append(s.cl[k].ears, c) /\ x.next = <<c, id>> /\ x.txn = t
        /\ x.state = "ACTIVE" /\ x.pool = s.cl[k].pool /\ x.command = s.cl[k].command
    BY <1>0, <1>1 DEF Given, Client
  <1>3. /\ v.wire[k] = s.wire[k] /\ v.srv[k] = s.srv[k]
        /\ \A d \in Conns : d # c => v.cn[d] = s.cn[d]
    BY DEF Given
  <1>4. /\ v.cn[c].up = s.cn[c].up /\ v.cn[c].hook = s.cn[c].hook /\ v.cn[c].tx = s.cn[c].tx
        /\ v.cn[c].calls = s.cn[c].calls
    BY <1>0 DEF Given, Conn
  <1>5. PICK a : a = s.cl[k].ears
    OBVIOUS
  <1>6. EarsAre(v, x.ears, c)
    <2>1. CASE a = <<>>
      <3>1. x.ears = <<c>>
        BY <1>2, <1>5, <2>1
      <3>. QED
        BY <3>1 DEF EarsAre
    <2>2. CASE a # <<>>
      <3>1. PICK e \in Conns : ~s.cn[e].up /\ a = <<e>>
        BY <1>5, <2>2 DEF Spare, LeftOver
      <3>2. Append(<<e>>, c) = <<e, c>>
        <4>1. PICK b \in Seq(Conns) : b = <<e>>
          <5>1. <<e>> \in Seq(Conns)
            OBVIOUS
          <5>. QED
            BY <5>1
        <4>2. Len(b) = 1 /\ b[1] = e
          BY <4>1
        <4>3. PICK q : q = Append(b, c)
          OBVIOUS
        <4>4. /\ q \in Seq(Conns) /\ Len(q) = Len(b) + 1
              /\ \A i \in 1..Len(b) : q[i] = b[i]
              /\ q[Len(b) + 1] = c
          BY ONLY <4>3, b \in Seq(Conns), c \in Conns, AppendProperties
        <4>5. q \in Seq(Conns) /\ Len(q) = 2 /\ q[1] = e /\ q[2] = c
          BY ONLY <4>2, <4>4
        <4>6. q = <<e, c>>
          BY <4>5
        <4>. QED
          BY <4>1, <4>3, <4>6
      <3>3. x.ears = <<e, c>>
        BY <1>2, <1>5, <3>1, <3>2
      <3>4. ~v.cn[e].up
        BY <1>3, <1>4, <3>1
      <3>5. plugin = "proxy"
        BY <1>5, <2>2 DEF Spare
      <3>. QED
        BY <3>3, <3>4, <3>5 DEF EarsAre
    <2>. QED
      BY <2>1, <2>2
  <1>7. Last(x.ears) = c
    BY <1>6, LastEar
  <1>8. s.cn[c].up => /\ s.cn[c].hook # "" /\ id = s.cn[c].calls
                      /\ s.cn[c].tx # 0 /\ t = <<c, s.cn[c].tx>>
    BY DEF Called
  <1>9. WaitsFor(v, k, c)
    BY <1>1, <1>2, <1>4, <1>8 DEF WaitsFor, Holds
  <1>10. Mailed(v.srv[k], x.txn)
    BY <1>3 DEF Spare, Mailed, Idle
  <1>11. Serves(v, k, c)
    <2>1. ~x.pool
      BY <1>2 DEF Spare
    <2>2. OneLine(x, v.wire[k])
      BY <1>2, <1>3 DEF OneLine
    <2>3. v.wire[k] # <<>> /\ v.wire[k][1].cmd \in {"mail", "rcpt", "dot"} =>
             v.wire[k][1].tx = x.txn
      BY <1>2, <1>3
    <2>. QED
      BY <1>1, <1>6, <1>9, <1>10, <2>1, <2>2, <2>3 DEF Serves
  <1>12. ASSUME NEW d \in Conns
         PROVE  InNotes(v, k, d)
    <2>1. CASE d = c
      BY <1>1, <1>2, <1>4, <1>7, <1>8, <2>1 DEF InNotes, Settled, Holds
    <2>2. CASE d # c
      BY <1>3, <2>2 DEF InNotes, Settled, Holds, Spare
    <2>. QED
      BY <2>1, <2>2
  <1>. QED
    BY <1>1, <1>2, <1>11, <1>12 DEF Own

(* A new client, or an idle one, serves its caller.                        *)
LEMMA TakeGood ==
    ASSUME NEW u, NEW k \in Ids, Rest(u, k), u.cl[k].state = "ACTIVE", Spare(u, k),
           NEW call \in Caller, Called(u, call), NoneWaits(u, call.conn),
           \/ u.wire[k] = <<>>
           \/ /\ ~u.cl[k].connected
              /\ \E h \in Line : /\ u.wire[k] = <<h>> /\ h.cmd = u.cl[k].command /\ h.clean
                                 /\ h.cmd \notin {"mail", "rcpt", "dot"}
    PROVE  Good(TakeFrom(u, k, call))
  <1>. PICK v : v = TakeFrom(u, k, call)
    OBVIOUS
  <1>. PICK c \in Conns : c = call.conn
    BY DEF Caller
  <1>1. PICK s :
           /\ Rest(s, k) /\ Kept(u, s, k) /\ s.cl[k].state # "none"
           /\ Rest(v, k) /\ Given(s, v, k, call)
           /\ \/ ~u.cl[k].connected /\ s = u
              \/ u.cl[k].connected /\ Dead(u, c) /\ s = release(u, k)
              \/ \E cmd \in Commands, tx \in TxId :
                    /\ u.cl[k].connected /\ s = send_command(u, k, cmd, tx)
                    /\ \/ cmd \in {"xclient", "auth"}
                       \/ cmd = "mail" /\ ~Dead(u, c) /\ tx = <<c, u.cn[c].tx>>
    BY TakeFromIs
  <1>0. /\ u \in World /\ u.cl[k] \in Client /\ s.cl[k] \in Client /\ v \in World /\ Links(u)
        /\ u.cn[c] \in Conn
    BY <1>1, RestIs, WorldIs DEF Rest
  <1>2. Called(s, call)
    BY <1>1 DEF Called, Kept
  <1>3. CASE ~u.cl[k].connected /\ s = u
    <2>1. /\ OneLine(u.cl[k], u.wire[k])
          /\ u.wire[k] # <<>> => u.wire[k][1].cmd \notin {"mail", "rcpt", "dot"}
      BY DEF OneLine
    <2>. QED
      BY <1>0, <1>1, <1>2, <1>3, <2>1, GivenOwn, GoodIs
  <1>4. ASSUME NEW cmd \in Commands, NEW tx \in TxId,
               u.cl[k].connected, s = send_command(u, k, cmd, tx),
               \/ cmd \in {"xclient", "auth"}
               \/ cmd = "mail" /\ ~Dead(u, c) /\ tx = <<c, u.cn[c].tx>>
        PROVE  Good(v)
    <2>1. u.wire[k] = <<>> /\ u.srv[k] = Idle
      BY <1>4 DEF Spare
    <2>2. /\ s.cl[k] = [u.cl[k] EXCEPT !.command = cmd]
          /\ s.wire[k] = <<Cmd(cmd, tx)>> \/ (s.wire[k] = <<>> /\ u.srv[k].body)
          /\ s.srv[k] = u.srv[k]
      BY <1>0, <1>4, <2>1, SendRest
    <2>3. PICK h \in Line : h = Cmd(cmd, tx)
      BY DEF Cmd, Line
    <2>4. h.cmd = cmd /\ h.tx = tx /\ h.clean
      BY <2>3 DEF Cmd
    <2>5. s.wire[k] = <<h>>
      BY <2>1, <2>2, <2>3 DEF Idle
    <2>6. /\ s.cl[k].state = "ACTIVE" /\ s.cl[k].command = cmd /\ s.cl[k].pool = u.cl[k].pool
          /\ s.cl[k].ears = u.cl[k].ears
      BY <1>0, <2>2 DEF Client
    <2>7. Spare(s, k)
      BY <1>1, <2>2, <2>6 DEF Spare, LeftOver, Kept
    <2>8. OneLine(s.cl[k], s.wire[k])
      BY <2>4, <2>5, <2>6 DEF OneLine
    <2>9. s.wire[k][1] = h
      BY <2>5
    <2>10. cmd \in {"mail", "rcpt", "dot"} => tx = call.tx
      <3>1. ASSUME cmd = "mail"
            PROVE  tx = call.tx
        <4>1. ~Dead(u, c) /\ tx = <<c, u.cn[c].tx>>
          BY <1>4, <3>1
        <4>2. u.cn[c].up
          BY <1>0, <4>1 DEF Links, Dead
        <4>. QED
          BY <4>1, <4>2 DEF Called
      <3>. QED
        BY <1>4, <3>1
    <2>11. Own(v, k)
      BY <1>0, <1>1, <1>2, <2>4, <2>6, <2>7, <2>8, <2>9, <2>10, GivenOwn
    <2>. QED
      BY <1>1, <2>11, GoodIs
  <1>5. CASE u.cl[k].connected /\ Dead(u, c) /\ s = release(u, k)
    <2>1. /\ s.cl[k].state \in {"DESTROYED", "RELEASED"}
          /\ \/ s.cl[k].state = "DESTROYED"
             \/ s.cl[k].slipped
             \/ s.cl[k].state = "RELEASED" /\ Released(s, k) /\ s.cl[k].ears = <<>>
      BY <1>5, ReleaseRest
    <2>2. /\ v.cl[k].state = s.cl[k].state /\ v.cl[k].slipped = s.cl[k].slipped
          /\ v.cl[k].pool = s.cl[k].pool /\ v.cl[k].command = s.cl[k].command
          /\ v.cl[k].ears = Append(s.cl[k].ears, c)
          /\ v.wire[k] = s.wire[k]
      BY <1>0, <1>1 DEF Given, Client
    <2>3. ~u.cn[c].up
      BY <1>5 DEF Called, Dead
    <2>4. v.cn[c].up = s.cn[c].up /\ \A d \in Conns : d # c => v.cn[d] = s.cn[d]
      <3>1. s.cn[c] \in Conn
        BY <1>1, RestIs, WorldIs
      <3>. QED
        BY <1>1, <3>1 DEF Given, Conn
    <2>5. ~v.cn[c].up
      BY <1>1, <2>3, <2>4 DEF Kept
    <2>6. \A d \in Conns : InNotes(v, k, d)
      <3>1. s.cn = u.cn
        BY <1>1 DEF Kept
      <3>2. \A d \in Conns : v.cn[d].up => v.cn[d].note # k
        BY <2>4, <2>5, <3>1 DEF Spare
      <3>. QED
        BY <3>2 DEF InNotes
    <2>7. CASE s.cl[k].state = "RELEASED" /\ Released(s, k) /\ s.cl[k].ears = <<>>
      <3>1. v.cl[k].ears = <<c>>
        BY <2>2, <2>7
      <3>2. LeftOver(v, v.cl[k].ears)
        BY <2>5, <3>1 DEF LeftOver
      <3>3. Released(v, k)
        BY <2>2, <2>7, <3>2 DEF Released, OneLine
      <3>4. Own(v, k)
        BY <2>2, <2>6, <2>7, <3>3 DEF Own
      <3>. QED
        BY <1>1, <3>4, GoodIs
    <2>8. CASE s.cl[k].state = "DESTROYED" \/ s.cl[k].slipped
      <3>1. Own(v, k)
        BY <2>2, <2>6, <2>8 DEF Own
      <3>. QED
        BY <1>1, <3>1, GoodIs
    <2>. QED
      BY <2>1, <2>7, <2>8
  <1>. QED
    BY <1>1, <1>3, <1>4, <1>5

(* A connected client that was given work owes a reply.                    *)
LEMMA TakeBusy ==
    ASSUME NEW u, NEW k \in Ids, Rest(u, k), u.cl[k].state = "ACTIVE",
           u.wire[k] = <<>>, u.srv[k] = Idle,
           NEW call \in Caller, Called(u, call), NoneWaits(u, call.conn)
    PROVE  /\ Rest(TakeFrom(u, k, call), k) /\ TakeFrom(u, k, call).cl[k].state # "none"
           /\ \/ ~TakeFrom(u, k, call).cl[k].connected
              \/ TakeFrom(u, k, call).cl[k].state # "ACTIVE"
              \/ TakeFrom(u, k, call).wire[k] # <<>>
           /\ \A d \in Conns : TakeFrom(u, k, call).cn[d].tx = u.cn[d].tx
  <1>. PICK v : v = TakeFrom(u, k, call)
    OBVIOUS
  <1>1. PICK s :
           /\ Rest(s, k) /\ Kept(u, s, k) /\ s.cl[k].state # "none"
           /\ Rest(v, k) /\ Given(s, v, k, call)
           /\ \/ ~u.cl[k].connected /\ s = u
              \/ u.cl[k].connected /\ s = release(u, k)
              \/ \E cmd \in Commands, tx \in TxId : s = send_command(u, k, cmd, tx)
    BY TakeFromIs
  <1>0. s.cl[k] \in Client /\ u.cl[k] \in Client
    BY <1>1, RestIs
  <1>2. /\ v.cl[k].state = s.cl[k].state /\ v.cl[k].connected = s.cl[k].connected
        /\ v.wire[k] = s.wire[k]
    BY <1>0, <1>1 DEF Given, Client
  <1>3. \A d \in Conns : v.cn[d].tx = u.cn[d].tx
    <2>1. s.cn = u.cn /\ \A d \in Conns : s.cn[d] \in Conn
      BY <1>1, WorldIs DEF Kept, Rest
    <2>2. PICK c \in Conns : c = call.conn
      BY DEF Caller
    <2>3. /\ \A d \in Conns : d # c => v.cn[d] = s.cn[d]
          /\ v.cn[c] = [s.cn[c] EXCEPT !.note = IF plugin = "proxy" THEN k ELSE @]
      BY <1>1, <2>2 DEF Given
    <2>4. v.cn[c].tx = s.cn[c].tx
      BY <2>1, <2>3 DEF Conn
    <2>. QED
      BY <2>1, <2>3, <2>4
  <1>4. CASE s = release(u, k)
    <2>1. s.cl[k].state \in {"DESTROYED", "RELEASED"}
      BY <1>4, ReleaseRest
    <2>. QED
      BY <1>1, <1>2, <1>3, <2>1
  <1>5. ASSUME NEW cmd \in Commands, NEW tx \in TxId, s = send_command(u, k, cmd, tx)
        PROVE  s.wire[k] # <<>>
    <2>0. u.cl[k].state # "none" /\ u.cl[k].state # "DESTROYED"
      OBVIOUS
    <2>1. PICK q : q = send_command(u, k, cmd, tx)
      OBVIOUS
    <2>2. /\ q.cl[k] = [u.cl[k] EXCEPT !.command = cmd]
          /\ q.wire[k] = <<Cmd(cmd, tx)>> \/ (q.wire[k] = <<>> /\ u.srv[k].body)
      BY <2>0, <2>1, SendRest
    <2>3. ~u.srv[k].body
      BY DEF Idle
    <2>4. <<Cmd(cmd, tx)>> # <<>>
      OBVIOUS
    <2>. QED
      BY <1>5, <2>2, <2>1, <2>3, <2>4
  <1>. QED
    BY <1>1, <1>2, <1>4, <1>5, <1>3

----------------------------------------------------------------------------
(* The pool.                                                               *)
WithWaiting(w, q) == [w EXCEPT !.waiting = q]

Queue(w, q) ==
    /\ q \in Seq(Caller) /\ \A i \in 1..Len(q) : Called(w, q[i])
    /\ \A i, j \in 1..Len(q) : q[i].conn = q[j].conn /\ w.cn[q[i].conn].up => i = j

LEMMA WaitingIs ==
    ASSUME NEW w \in World, NEW q \in Seq(Caller)
    PROVE  /\ WithWaiting(w, q) \in World
           /\ WithWaiting(w, q).cl = w.cl /\ WithWaiting(w, q).wire = w.wire
           /\ WithWaiting(w, q).srv = w.srv /\ WithWaiting(w, q).cn = w.cn
           /\ WithWaiting(w, q).avail = w.avail
           /\ WithWaiting(w, q).waiting = q /\ WithWaiting(w, q).accepted = w.accepted
  BY DEF World, WithWaiting

LEMMA RestWaiting ==
    ASSUME NEW w, NEW k, Rest(w, k), NEW q, Queue(w, q)
    PROVE  Rest(WithWaiting(w, q), k)
  <1>. PICK v : v = WithWaiting(w, q)
    OBVIOUS
  <1>0. w \in World /\ Links(w) /\ Pool(w) /\ Truth(w) /\ q \in Seq(Caller)
        /\ (\A j \in Ids : GoneIs(w, j)) /\ (\A j \in Ids : j # k => Own(w, j))
    BY DEF Rest, Queue
  <1>1. /\ v \in World
        /\ v.cl = w.cl /\ v.wire = w.wire /\ v.srv = w.srv /\ v.cn = w.cn
        /\ v.avail = w.avail /\ v.waiting = q /\ v.accepted = w.accepted
    BY <1>0, WaitingIs
  <1>2. ASSUME NEW j \in Ids
        PROVE  GoneIs(v, j)
    BY <1>0, <1>1 DEF GoneIs
  <1>3. ASSUME NEW j \in Ids, j # k
        PROVE  Own(v, j)
    <2>1. Own(w, j)
      BY <1>0, <1>3
    <2>2. SameClient(w, v, j) /\ v.cn = w.cn
      BY <1>1 DEF SameClient
    <2>. QED
      BY <2>1, <2>2, SameOwn
  <1>4. Links(v)
    <2>1. /\ \A c \in Conns : ~w.cn[c].up => w.cn[c].tx = 0 /\ w.cn[c].hook = ""
          /\ \A c \in Conns : plugin # "proxy" => w.cn[c].note = 0
          /\ \A j \in Ids, c \in Conns, n \in Nat :
                w.cn[c].up /\ w.cl[j].next = <<c, n>> => n <= w.cn[c].calls
          /\ \A c \in Conns, i, j \in Ids : Holds(w, i, c) /\ Holds(w, j, c) => i = j
          /\ \A c \in Conns, j \in Ids : Holds(w, j, c) => w.cn[c].note \in {0, j} \/ plugin # "proxy"
      BY <1>0 DEF Links
    <2>2. \A j \in Ids, c \in Conns : Holds(v, j, c) <=> Holds(w, j, c)
      BY <1>1 DEF Holds
    <2>3. \A call : Called(v, call) <=> Called(w, call)
      BY <1>1 DEF Called
    <2>4. \A i \in 1..Len(v.waiting) : Called(v, v.waiting[i])
      BY <1>1, <2>3 DEF Queue
    <2>5. \A i, j \in 1..Len(v.waiting) :
              v.waiting[i].conn = v.waiting[j].conn /\ v.cn[v.waiting[i].conn].up => i = j
      <3>1. v.waiting = q /\ v.cn = w.cn
        BY <1>1
      <3>2. \A i, j \in 1..Len(q) : q[i].conn = q[j].conn /\ w.cn[q[i].conn].up => i = j
        BY DEF Queue
      <3>. QED
        BY ONLY <3>1, <3>2
    <2>6. \A j \in Ids, c \in Conns, n \in Nat :
                v.cn[c].up /\ v.cl[j].next = <<c, n>> => n <= v.cn[c].calls
      <3>1. v.cl = w.cl /\ v.cn = w.cn
        BY <1>1
      <3>. QED
        BY <2>1, <3>1
    <2>7. v.cn = w.cn
      BY <1>1
    <2>. QED
      BY <2>1, <2>2, <2>4, <2>5, <2>6, <2>7 DEF Links
  <1>5. Pool(v)
    BY <1>0, <1>1 DEF Pool
  <1>6. Truth(v)
    BY <1>0, <1>1 DEF Truth
  <1>. QED
    BY <1>1, <1>2, <1>3, <1>4, <1>5, <1>6 DEF Rest

(* The first call of the queue is served.                                  *)
LEMMA FirstServed ==
    ASSUME NEW w, NEW k, Rest(w, k), w.waiting # <<>>
    PROVE  /\ Head(w.waiting) \in Caller /\ Tail(w.waiting) \in Seq(Caller)
           /\ Rest(WithWaiting(w, Tail(w.waiting)), k)
           /\ Called(WithWaiting(w, Tail(w.waiting)), Head(w.waiting))
           /\ NoneWaits(WithWaiting(w, Tail(w.waiting)), Head(w.waiting).conn)
  <1>. PICK p : p = w.waiting
    OBVIOUS
  <1>0. w \in World /\ p \in Seq(Caller) /\ Links(w)
    BY WorldIs DEF Rest
  <1>1. PICK q : q = Tail(p)
    OBVIOUS
  <1>2. /\ q \in Seq(Caller) /\ Head(p) = p[1] /\ p[1] \in Caller
        /\ \A i \in 1..Len(q) : i + 1 \in 1..Len(p) /\ q[i] = p[i + 1] /\ i + 1 # 1
        /\ 1 \in 1..Len(p)
    BY <1>0, <1>1
  <1>3. /\ \A i \in 1..Len(p) : Called(w, p[i])
        /\ \A i, j \in 1..Len(p) : p[i].conn = p[j].conn /\ w.cn[p[i].conn].up => i = j
    BY <1>0 DEF Links
  <1>4. \A i, j \in 1..Len(q) : q[i].conn = q[j].conn /\ w.cn[q[i].conn].up => i = j
    <2>1. ASSUME NEW i \in 1..Len(q), NEW j \in 1..Len(q), q[i].conn = q[j].conn, w.cn[q[i].conn].up
          PROVE  i = j
      <3>1. i + 1 = j + 1
        BY <1>2, <1>3, <2>1
      <3>2. i \in Nat /\ j \in Nat
        OBVIOUS
      <3>. QED
        BY ONLY <3>1, <3>2
    <2>. QED
      BY <2>1
  <1>5. Queue(w, q)
    BY <1>2, <1>3, <1>4 DEF Queue
  <1>6. PICK u : u = WithWaiting(w, q)
    OBVIOUS
  <1>7. Rest(u, k)
    BY <1>5, <1>6, RestWaiting
  <1>8. u.cl = w.cl /\ u.cn = w.cn /\ u.waiting = q
    BY <1>0, <1>2, <1>6, WaitingIs
  <1>9. Called(u, p[1])
    <2>1. Called(w, p[1])
      BY <1>2, <1>3
    <2>. QED
      BY <1>8, <2>1 DEF Called
  <1>10. NoneWaits(u, p[1].conn)
    <2>1. ASSUME NEW i \in 1..Len(q), w.cn[p[1].conn].up, q[i].conn = p[1].conn
          PROVE  FALSE
      BY <1>2, <1>3, <2>1
    <2>. QED
      BY <1>8, <2>1 DEF NoneWaits
  <1>. QED
    BY <1>1, <1>2, <1>6, <1>7, <1>9, <1>10

(* get_client_plugin on a client the pool has.                             *)
InUse(w, u, k, call) ==
    /\ Rest(u, k)
    /\ u.wire[k] = w.wire[k] /\ u.srv[k] = w.srv[k] /\ u.cn = w.cn
    /\ Called(u, call) /\ NoneWaits(u, call.conn)
    /\ u.cl[k].state = "ACTIVE" /\ u.cl[k].slipped = w.cl[k].slipped
    /\ u.cl[k].pool = w.cl[k].pool /\ u.cl[k].ears = w.cl[k].ears
    /\ \A j \in Ids : j # k => u.cl[j] = w.cl[j]

LEMMA PluginIs ==
    ASSUME NEW w, NEW k \in Ids, Rest(w, k), ~Gone(w.cl[k]),
           InPool(w.avail, k) => w.cl[k].slipped,
           NEW call \in Caller, Called(w, call), NoneWaits(w, call.conn)
    PROVE  \E u : get_client_plugin(w, k, call) = TakeFrom(u, k, call) /\ InUse(w, u, k, call)
  <1>0. w \in World /\ w.cl[k] \in Client /\ w.wire[k] \in Seq(Line) /\ w.srv[k] \in Envelope
    BY RestIs
  <1>1. PICK x : x = [w.cl[k] EXCEPT !.state = "ACTIVE"]
    OBVIOUS
  <1>2. /\ x \in Client /\ x.next = w.cl[k].next /\ x.state = "ACTIVE"
        /\ x.slipped = w.cl[k].slipped /\ x.pool = w.cl[k].pool /\ x.ears = w.cl[k].ears
    BY <1>0, <1>1 DEF Client
  <1>3. PICK u : u = Put(w, k, x, w.wire[k], w.srv[k])
    OBVIOUS
  <1>4. ~Gone(x) /\ (x.slipped => x.state # "none") /\ (InPool(w.avail, k) => Pooled(x))
    BY <1>2 DEF Gone, Pooled
  <1>5. Rest(u, k)
    BY <1>0, <1>2, <1>3, <1>4, RestPut
  <1>6. /\ u.cl[k] = x /\ u.wire[k] = w.wire[k] /\ u.srv[k] = w.srv[k] /\ u.cn = w.cn
        /\ u.waiting = w.waiting /\ \A j \in Ids : j # k => u.cl[j] = w.cl[j]
    BY <1>0, <1>2, <1>3, Put_Is
  <1>7. u = [w EXCEPT !.cl[k] = x]
    BY <1>0, <1>2, <1>3, PutOne
  <1>8. \A j \in Ids : u.cl[j].next = w.cl[j].next
    BY <1>2, <1>6
  <1>9. Called(u, call) /\ NoneWaits(u, call.conn)
    BY <1>6, <1>8 DEF Called, NoneWaits
  <1>10. get_client_plugin(w, k, call) = TakeFrom(u, k, call)
    BY <1>1, <1>7, TakeIs
  <1>11. InUse(w, u, k, call)
    BY <1>2, <1>5, <1>6, <1>9 DEF InUse
  <1>. QED
    BY <1>10, <1>11

LEMMA PluginOthers ==
    ASSUME NEW w, NEW k \in Ids, Rest(w, k), ~Gone(w.cl[k]),
           InPool(w.avail, k) => w.cl[k].slipped,
           NEW call \in Caller, Called(w, call), NoneWaits(w, call.conn)
    PROVE  \A j \in Ids : j # k => get_client_plugin(w, k, call).cl[j] = w.cl[j]
  <1>1. PICK u : get_client_plugin(w, k, call) = TakeFrom(u, k, call) /\ InUse(w, u, k, call)
    BY PluginIs
  <1>. PICK v : v = TakeFrom(u, k, call)
    OBVIOUS
  <1>2. PICK s : Kept(u, s, k) /\ Given(s, v, k, call)
    BY <1>1, TakeFromIs DEF InUse
  <1>3. /\ \A j \in Ids : j # k => s.cl[j] = u.cl[j]
        /\ \A j \in Ids : j # k => v.cl[j] = s.cl[j]
        /\ \A j \in Ids : j # k => u.cl[j] = w.cl[j]
    BY <1>1, <1>2 DEF Kept, Given, InUse
  <1>. QED
    BY <1>1, <1>3

LEMMA PluginGood ==
    ASSUME NEW w, NEW k \in Ids, Rest(w, k), ~Gone(w.cl[k]), ~InPool(w.avail, k),
           Spare(w, k), w.wire[k] = <<>>,
           NEW call \in Caller, Called(w, call), NoneWaits(w, call.conn)
    PROVE  Good(get_client_plugin(w, k, call))
  <1>1. PICK u : get_client_plugin(w, k, call) = TakeFrom(u, k, call) /\ InUse(w, u, k, call)
    BY PluginIs
  <1>2. Spare(u, k) /\ u.wire[k] = <<>>
    BY <1>1 DEF Spare, LeftOver, InUse
  <1>. QED
    BY <1>1, <1>2, TakeGood DEF InUse

LEMMA PluginSlip ==
    ASSUME NEW w, NEW k \in Ids, Slip(w, k), ~Gone(w.cl[k]),
           NEW call \in Caller, Called(w, call), NoneWaits(w, call.conn)
    PROVE  Slip(get_client_plugin(w, k, call), k)
  <1>1. PICK u : get_client_plugin(w, k, call) = TakeFrom(u, k, call) /\ InUse(w, u, k, call)
    BY PluginIs DEF Slip
  <1>2. Slip(u, k)
    BY <1>1 DEF Slip, InUse
  <1>. QED
    BY <1>1, <1>2, TakeSlip DEF InUse

LEMMA PluginBusy ==
    ASSUME NEW w, NEW k \in Ids, Rest(w, k), ~Gone(w.cl[k]), ~InPool(w.avail, k),
           w.wire[k] = <<>>, w.srv[k] = Idle,
           NEW call \in Caller, Called(w, call), NoneWaits(w, call.conn)
    PROVE  /\ Rest(get_client_plugin(w, k, call), k)
           /\ get_client_plugin(w, k, call).cl[k].state # "none"
           /\ \/ ~get_client_plugin(w, k, call).cl[k].connected
              \/ get_client_plugin(w, k, call).cl[k].state # "ACTIVE"
              \/ get_client_plugin(w, k, call).wire[k] # <<>>
           /\ \A d \in Conns : get_client_plugin(w, k, call).cn[d].tx = w.cn[d].tx
  <1>1. PICK u : get_client_plugin(w, k, call) = TakeFrom(u, k, call) /\ InUse(w, u, k, call)
    BY PluginIs
  <1>2. u.wire[k] = <<>> /\ u.srv[k] = Idle
    BY <1>1 DEF InUse
  <1>. QED
    BY <1>1, <1>2, TakeBusy DEF InUse

(* pool.release: the next caller's, or idle.                               *)
LEMMA AppendFits ==
    ASSUME NEW w \in World, NEW k \in Ids, Pool(w), Pooled(w.cl[k])
    PROVE  Fits(w, IF Contains(w.avail, k) THEN w.avail ELSE Append(w.avail, k))
  <1>0. PICK a \in Seq(Ids) : a = w.avail
    BY WorldIs
  <1>1. Apart(a) /\ \A j \in Ids : InPool(a, j) => Pooled(w.cl[j])
    BY <1>0 DEF Pool, Apart
  <1>2. CASE Contains(a, k)
    BY <1>0, <1>1, <1>2 DEF Fits
  <1>3. CASE ~Contains(a, k)
    <2>1. PICK b : b = Append(a, k)
      OBVIOUS
    <2>2. /\ b \in Seq(Ids) /\ Len(b) = Len(a) + 1
          /\ \A i \in 1..Len(a) : b[i] = a[i]
          /\ b[Len(a) + 1] = k
      BY ONLY <2>1, a \in Seq(Ids), k \in Ids, AppendProperties
    <2>3. \A i \in 1..Len(a) : a[i] # k
      BY <1>3 DEF Contains
    <2>4. PICK n \in Nat : n = Len(a)
      OBVIOUS
    <2>5. \A i \in 1..Len(b) : i \in 1..Len(a) \/ i = n + 1
      BY ONLY <2>2, <2>4, n \in Nat
    <2>6. \A i \in 1..Len(b) : \/ i \in 1..Len(a) /\ b[i] = a[i] /\ b[i] # k
                               \/ i = n + 1 /\ b[i] = k
      BY <2>2, <2>3, <2>4, <2>5
    <2>7. Apart(b)
      BY <1>1, <2>6 DEF Apart
    <2>8. \A j \in Ids : InPool(b, j) => InPool(a, j) \/ j = k
      BY <2>6 DEF InPool
    <2>. QED
      BY <1>0, <1>1, <1>3, <2>1, <2>2, <2>7, <2>8 DEF Fits
  <1>. QED
    BY <1>0, <1>2, <1>3

LEMMA PoolReleaseIs ==
    ASSUME NEW w, NEW k
    PROVE  pool_release(w, k) =
              IF w.waiting # <<>>
              THEN get_client_plugin(WithWaiting(w, Tail(w.waiting)), k, Head(w.waiting))
              ELSE WithAvail(w, IF Contains(w.avail, k) THEN w.avail ELSE Append(w.avail, k))
  BY DEF pool_release, WithWaiting, WithAvail

(* The first call gets the client.                                         *)
Served(w, u, k, call) ==
    /\ Rest(u, k) /\ Called(u, call) /\ NoneWaits(u, call.conn)
    /\ u.cl = w.cl /\ u.wire = w.wire /\ u.srv = w.srv /\ u.cn = w.cn /\ u.avail = w.avail

LEMMA PoolServes ==
    ASSUME NEW w, NEW k, Rest(w, k), w.waiting # <<>>
    PROVE  \E call \in Caller : \E u :
              pool_release(w, k) = get_client_plugin(u, k, call) /\ Served(w, u, k, call)
  <1>1. PICK u : u = WithWaiting(w, Tail(w.waiting))
    OBVIOUS
  <1>2. PICK call \in Caller : call = Head(w.waiting)
    BY FirstServed
  <1>3. Rest(u, k) /\ Called(u, call) /\ NoneWaits(u, call.conn) /\ Tail(w.waiting) \in Seq(Caller)
    BY <1>1, <1>2, FirstServed
  <1>4. /\ u.cl = w.cl /\ u.wire = w.wire /\ u.srv = w.srv /\ u.cn = w.cn /\ u.avail = w.avail
    BY <1>1, <1>3, WaitingIs DEF Rest
  <1>5. pool_release(w, k) = get_client_plugin(u, k, call)
    BY <1>1, <1>2, PoolReleaseIs
  <1>6. Served(w, u, k, call)
    BY <1>3, <1>4 DEF Served
  <1>. QED
    BY <1>5, <1>6

LEMMA PoolKeeps ==
    ASSUME NEW w, NEW k \in Ids, Rest(w, k), w.waiting = <<>>, Pooled(w.cl[k])
    PROVE  /\ Rest(pool_release(w, k), k)
           /\ pool_release(w, k).cl = w.cl /\ pool_release(w, k).wire = w.wire
           /\ pool_release(w, k).srv = w.srv /\ pool_release(w, k).cn = w.cn
  <1>0. w \in World /\ Pool(w)
    BY DEF Rest
  <1>1. PICK a : a = IF Contains(w.avail, k) THEN w.avail ELSE Append(w.avail, k)
    OBVIOUS
  <1>2. Fits(w, a)
    BY <1>0, <1>1, AppendFits
  <1>3. pool_release(w, k) = WithAvail(w, a)
    BY <1>1, PoolReleaseIs
  <1>4. PICK v : v = WithAvail(w, a)
    OBVIOUS
  <1>5. Rest(v, k)
    BY <1>2, <1>4, RestAvail
  <1>6. v.cl = w.cl /\ v.wire = w.wire /\ v.srv = w.srv /\ v.cn = w.cn
    BY <1>0, <1>2, <1>4, AvailIs DEF Fits
  <1>. QED
    BY <1>3, <1>4, <1>5, <1>6

LEMMA PoolReleaseSlip ==
    ASSUME NEW w, NEW k \in Ids, Slip(w, k), ~Gone(w.cl[k])
    PROVE  Slip(pool_release(w, k), k)
  <1>1. CASE w.waiting = <<>>
    <2>1. Pooled(w.cl[k]) /\ Rest(w, k)
      BY DEF Pooled, Slip
    <2>. QED
      BY <1>1, <2>1, PoolKeeps DEF Slip
  <1>2. CASE w.waiting # <<>>
    <2>. PICK call \in Caller : \E v :
             pool_release(w, k) = get_client_plugin(v, k, call) /\ Served(w, v, k, call)
      BY <1>2, PoolServes DEF Slip
    <2>1. PICK u : pool_release(w, k) = get_client_plugin(u, k, call) /\ Served(w, u, k, call)
      OBVIOUS
    <2>2. Slip(u, k) /\ ~Gone(u.cl[k]) /\ Called(u, call) /\ NoneWaits(u, call.conn)
      BY <2>1 DEF Served, Slip
    <2>. QED
      BY <2>1, <2>2, PluginSlip
  <1>. QED
    BY <1>1, <1>2

LEMMA PoolReleaseGood ==
    ASSUME NEW w, NEW k \in Ids, Rest(w, k), w.cl[k].state = "IDLE", ~InPool(w.avail, k),
           Spare(w, k), w.wire[k] = <<>>
    PROVE  Good(pool_release(w, k))
  <1>1. CASE w.waiting = <<>>
    <2>1. Pooled(w.cl[k])
      BY DEF Pooled, Gone
    <2>2. PICK v : v = pool_release(w, k)
      OBVIOUS
    <2>3. /\ Rest(v, k) /\ v.cl = w.cl /\ v.wire = w.wire /\ v.srv = w.srv /\ v.cn = w.cn
      BY <1>1, <2>1, <2>2, PoolKeeps
    <2>4. Resting(v, k) /\ \A d \in Conns : InNotes(v, k, d)
      BY <2>3 DEF Spare, Resting, LeftOver, InNotes, Settled, Holds
    <2>5. Own(v, k)
      BY <2>3, <2>4 DEF Own
    <2>. QED
      BY <2>2, <2>3, <2>5, GoodIs
  <1>2. CASE w.waiting # <<>>
    <2>. PICK call \in Caller : \E v :
             pool_release(w, k) = get_client_plugin(v, k, call) /\ Served(w, v, k, call)
      BY <1>2, PoolServes
    <2>1. PICK u : pool_release(w, k) = get_client_plugin(u, k, call) /\ Served(w, u, k, call)
      OBVIOUS
    <2>2. /\ Rest(u, k) /\ ~Gone(u.cl[k]) /\ Called(u, call) /\ NoneWaits(u, call.conn)
          /\ ~InPool(u.avail, k) /\ Spare(u, k) /\ u.wire[k] = <<>>
      BY <2>1 DEF Served, Gone, Spare, LeftOver
    <2>. QED
      BY <2>1, <2>2, PluginGood
  <1>. QED
    BY <1>1, <1>2

LEMMA PoolReleaseBusy ==
    ASSUME NEW w, NEW k \in Ids, Rest(w, k), w.cl[k].state = "IDLE", ~InPool(w.avail, k),
           w.wire[k] = <<>>, w.srv[k] = Idle
    PROVE  /\ Rest(pool_release(w, k), k)
           /\ pool_release(w, k).cl[k].state # "none"
           /\ \/ ~pool_release(w, k).cl[k].connected
              \/ pool_release(w, k).cl[k].state # "ACTIVE"
              \/ pool_release(w, k).wire[k] # <<>>
           /\ \A d \in Conns : pool_release(w, k).cn[d].tx = w.cn[d].tx
  <1>1. CASE w.waiting = <<>>
    <2>1. Pooled(w.cl[k])
      BY DEF Pooled, Gone
    <2>2. PICK v : v = pool_release(w, k)
      OBVIOUS
    <2>3. Rest(v, k) /\ v.cl = w.cl /\ v.cn = w.cn
      BY <1>1, <2>1, <2>2, PoolKeeps
    <2>. QED
      BY <2>2, <2>3
  <1>2. CASE w.waiting # <<>>
    <2>. PICK call \in Caller : \E v :
             pool_release(w, k) = get_client_plugin(v, k, call) /\ Served(w, v, k, call)
      BY <1>2, PoolServes
    <2>1. PICK u : pool_release(w, k) = get_client_plugin(u, k, call) /\ Served(w, u, k, call)
      OBVIOUS
    <2>2. /\ Rest(u, k) /\ ~Gone(u.cl[k]) /\ Called(u, call) /\ NoneWaits(u, call.conn)
          /\ ~InPool(u.avail, k) /\ u.wire[k] = <<>> /\ u.srv[k] = Idle /\ u.cn = w.cn
      BY <2>1 DEF Served, Gone
    <2>. QED
      BY <2>1, <2>2, PluginBusy
  <1>. QED
    BY <1>1, <1>2

----------------------------------------------------------------------------
(* A new client.                                                           *)
First(S) == CHOOSE i \in S : \A j \in S : i <= j

LEMMA FirstIs ==
    ASSUME NEW S \in SUBSET Nat, S # {}
    PROVE  First(S) \in S
  <1>1. PICK x \in S : \A y \in S : ~ (<<y, x>> \in OpToRel(<, Nat))
    BY NatLessThanWellFounded, WFMin
  <1>2. \A y \in S : x <= y
    <2>1. SUFFICES ASSUME NEW y \in S, ~(x <= y)
                   PROVE  FALSE
      OBVIOUS
    <2>2. y < x /\ x \in Nat /\ y \in Nat
      BY <2>1
    <2>3. <<y, x>> \in OpToRel(<, Nat)
      BY <2>2 DEF OpToRel
    <2>. QED
      BY <1>1, <2>3
  <1>. QED
    BY <1>2 DEF First

Greeting == [cmd |-> "greeting", tx |-> NoTx, whole |-> TRUE, clean |-> TRUE]

CreateAt(w, k, call) == get_client_plugin(PutLines(w, k, NewClient, <<Greeting>>), k, call)

LEMMA CreateIs ==
    ASSUME NEW w, NEW call
    PROVE  Create(w, call) = CreateAt(w, First(Fresh(w)), call)
  BY DEF Create, CreateAt, First, PutLines, Greeting

LEMMA CreateGood ==
    ASSUME NEW w, Good(w), CanCreate(w),
           NEW call \in Caller, Called(w, call), NoneWaits(w, call.conn)
    PROVE  /\ Good(Create(w, call))
           /\ \E k \in Ids : /\ w.cl[k].state = "none" /\ ~w.cl[k].slipped
                            /\ \A j \in Ids : j # k => Create(w, call).cl[j] = w.cl[j]
  <1>0. w \in World
    BY DEF Good
  <1>1. First(Fresh(w)) \in Fresh(w)
    <2>1. PICK S : S = Fresh(w)
      OBVIOUS
    <2>2. Ids \in SUBSET Nat
      BY DEF Ids
    <2>3. S \in SUBSET Ids
      BY <2>1 DEF Fresh
    <2>4. S # {}
      BY <2>1 DEF CanCreate
    <2>. QED
      BY <2>1, <2>2, <2>3, <2>4, FirstIs
  <1>2. PICK k \in Ids : k = First(Fresh(w)) /\ k \in Fresh(w)
    BY <1>1 DEF Fresh
  <1>4. Rest(w, k) /\ Own(w, k) /\ GoneIs(w, k) /\ Pool(w)
    BY GoodIs DEF Good
  <1>3. /\ w.cl[k].state = "none" /\ Gone(w.cl[k]) /\ ~w.cl[k].slipped
        /\ \A c \in Conns : w.cn[c].up => w.cn[c].note # k
    <2>1. w.cl[k].state = "none" /\ ~w.cl[k].slipped
      BY <1>2, <1>4 DEF Fresh, GoneIs
    <2>2. \A c \in Conns : InNotes(w, k, c)
      BY <1>4, <2>1 DEF Own
    <2>3. \A c \in Conns : w.cn[c].up => w.cn[c].note # k
      BY <2>1, <2>2 DEF InNotes
    <2>. QED
      BY <2>1, <2>3 DEF Gone
  <1>5. ~InPool(w.avail, k) /\ w.srv[k] = Idle
    BY <1>3, <1>4 DEF Pool, Pooled, GoneIs
  <1>6. PICK g \in Line : g = Greeting
    BY DEF Greeting, Line, Commands, TxId
  <1>7. <<g>> \in Seq(Line)
    OBVIOUS
  <1>8. PICK s \in Seq(Line) : s = <<g>>
    BY <1>7
  <1>9. PICK z \in Client : z = NewClient
    BY NewClientIs
  <1>10. PICK x \in Client : x = [z EXCEPT !.state = "ACTIVE"]
    BY DEF Client
  <1>11. PICK v : v = PutLines(w, k, z, s)
    OBVIOUS
  <1>12. v = Put(w, k, z, s, w.srv[k])
    BY <1>0, <1>11, PutLinesIs
  <1>13. PICK e \in Envelope : e = w.srv[k]
    BY <1>0, WorldIs
  <1>14. v \in World /\ v.cl[k] = z /\ v.wire[k] = s /\ v.srv[k] = e
    BY <1>0, <1>12, <1>13, Put_Is
  <1>15. PICK u : u = Put(w, k, x, s, e)
    OBVIOUS
  <1>16. [v EXCEPT !.cl[k].state = "ACTIVE"] = u
    <2>1. [v EXCEPT !.cl[k].state = "ACTIVE"] = [v EXCEPT !.cl[k] = x]
      BY <1>10, <1>14
    <2>2. [v EXCEPT !.cl[k] = x] = Put(v, k, x, s, e)
      BY <1>14, PutOne
    <2>3. Put(v, k, x, s, e) = u
      BY <1>0, <1>12, <1>13, <1>15, PutPut
    <2>. QED
      BY <2>1, <2>2, <2>3
  <1>17. Create(w, call) = TakeFrom(u, k, call)
    BY <1>2, <1>6, <1>8, <1>9, <1>11, <1>16, CreateIs, TakeIs DEF CreateAt
  <1>18. /\ x.state = "ACTIVE" /\ x.next = NoTx /\ ~x.pool /\ x.ears = <<>> /\ ~x.connected
         /\ ~x.slipped /\ x.command = "greeting"
    <2>1. x = [NewClient EXCEPT !.state = "ACTIVE"]
      BY <1>9, <1>10
    <2>2. x.state = "ACTIVE" /\ x.next = NoTx /\ x.command = "greeting"
      BY <2>1 DEF NewClient, NoTx
    <2>3. x.pool = FALSE /\ x.connected = FALSE /\ x.slipped = FALSE
      BY <2>1 DEF NewClient
    <2>4. x.ears = <<>>
      BY <2>1 DEF NewClient
    <2>. QED
      BY <2>2, <2>3, <2>4
  <1>19. Rest(u, k)
    <2>1. ~Gone(x)
      BY <1>18 DEF Gone
    <2>. QED
      BY <1>4, <1>5, <1>15, <1>18, <2>1, RestPut
  <1>20. /\ u.cl[k] = x /\ u.wire[k] = s /\ u.srv[k] = e /\ u.cn = w.cn /\ u.waiting = w.waiting
         /\ \A j \in Ids : j # k => u.cl[j] = w.cl[j]
    BY <1>0, <1>15, Put_Is
  <1>21. Spare(u, k)
    BY <1>3, <1>5, <1>13, <1>18, <1>20 DEF Spare, LeftOver
  <1>22. Called(u, call) /\ NoneWaits(u, call.conn)
    <2>1. \A c, n : <<>> # <<c, n>>
      OBVIOUS
    <2>2. \A c, n : u.cl[k].next # <<c, n>>
      BY <1>18, <1>20, <2>1 DEF NoTx
    <2>3. \A j \in Ids : \A c, n : u.cl[j].next = <<c, n>> => w.cl[j].next = <<c, n>>
      BY <1>20, <2>2
    <2>. QED
      BY <1>20, <2>3 DEF Called, NoneWaits
  <1>23. /\ u.wire[k] = <<g>> /\ g.cmd = u.cl[k].command /\ g.clean
         /\ g.cmd \notin {"mail", "rcpt", "dot"} /\ ~u.cl[k].connected
    BY <1>6, <1>8, <1>18, <1>20 DEF Greeting
  <1>24. u.cl[k].state = "ACTIVE"
    BY <1>18, <1>20
  <1>25. Good(TakeFrom(u, k, call))
    BY <1>19, <1>21, <1>22, <1>23, <1>24, TakeGood
  <1>26. \A j \in Ids : j # k => TakeFrom(u, k, call).cl[j] = w.cl[j]
    <2>. PICK q : q = TakeFrom(u, k, call)
      OBVIOUS
    <2>1. PICK r : Kept(u, r, k) /\ Given(r, q, k, call)
      BY <1>19, <1>22, <1>24, TakeFromIs
    <2>2. \A j \in Ids : j # k => r.cl[j] = u.cl[j] /\ q.cl[j] = r.cl[j]
      BY <2>1 DEF Kept, Given
    <2>. QED
      BY <1>20, <2>2
  <1>. QED
    BY <1>3, <1>17, <1>25, <1>26

LEMMA AcquireIs ==
    ASSUME NEW w, NEW call
    PROVE  acquire(w, call) =
              IF w.avail # <<>>
              THEN get_client_plugin(WithAvail(w, Tail(w.avail)), Head(w.avail), call)
              ELSE IF CanCreate(w) THEN Create(w, call)
              ELSE WithWaiting(w, Append(w.waiting, call))
  BY DEF acquire, WithAvail, WithWaiting

LEMMA HeadTail ==
    ASSUME NEW a \in Seq(Ids), a # <<>>, Apart(a)
    PROVE  /\ Head(a) \in Ids /\ InPool(a, Head(a)) /\ Tail(a) \in Seq(Ids) /\ Apart(Tail(a))
           /\ \A j \in Ids : InPool(Tail(a), j) => InPool(a, j) /\ j # Head(a)
  <1>1. /\ Head(a) = a[1] /\ a[1] \in Ids /\ Tail(a) \in Seq(Ids) /\ Len(Tail(a)) = Len(a) - 1
        /\ \A i \in 1..Len(Tail(a)) : Tail(a)[i] = a[i + 1]
        /\ 1 \in 1..Len(a)
    BY ONLY a \in Seq(Ids), a # <<>>, HeadTailProperties, EmptySeq
  <1>2. PICK b : b = Tail(a)
    OBVIOUS
  <1>3. PICK n \in Nat : n = Len(a)
    OBVIOUS
  <1>4. \A i \in 1..(n - 1) : i + 1 \in 1..n /\ i + 1 # 1
    BY ONLY n \in Nat
  <1>5. \A i \in 1..Len(b) : i + 1 \in 1..Len(a) /\ i + 1 # 1 /\ b[i] = a[i + 1]
    BY <1>1, <1>2, <1>3, <1>4
  <1>6. \A i, j \in 1..Len(b) : i + 1 = j + 1 => i = j
    BY ONLY <1>1, <1>2, <1>3, n \in Nat
  <1>7. Apart(b)
    BY ONLY <1>5, <1>6, Apart(a) DEF Apart
  <1>8. \A j \in Ids : InPool(b, j) => InPool(a, j) /\ j # a[1]
    BY ONLY <1>1, <1>5, Apart(a) DEF Apart, InPool
  <1>. QED
    BY <1>1, <1>2, <1>7, <1>8 DEF InPool

LEMMA AcquireGood ==
    ASSUME NEW w, Good(w), NEW call \in Caller, Called(w, call), NoneWaits(w, call.conn)
    PROVE  Good(acquire(w, call))
  <1>0. w \in World /\ Pool(w) /\ Links(w)
    BY DEF Good
  <1>1. CASE w.avail # <<>>
    <2>1. PICK a \in Seq(Ids) : a = w.avail
      BY <1>0, WorldIs
    <2>2. Apart(a)
      BY <1>0, <2>1 DEF Pool, Apart
    <2>3. PICK k \in Ids : k = Head(a)
      BY <1>1, <2>1, <2>2, HeadTail
    <2>4. PICK b : b = Tail(a)
      OBVIOUS
    <2>5. InPool(a, k) /\ b \in Seq(Ids) /\ Apart(b) /\ ~InPool(b, k)
          /\ \A j \in Ids : InPool(b, j) => InPool(a, j)
      BY <1>1, <2>1, <2>2, <2>3, <2>4, HeadTail
    <2>6. Fits(w, b) /\ Pooled(w.cl[k])
      BY <1>0, <2>1, <2>5 DEF Fits, Pool
    <2>7. PICK v : v = WithAvail(w, b)
      OBVIOUS
    <2>8. Rest(w, k) /\ Own(w, k)
      BY GoodIs
    <2>9. Rest(v, k)
      BY <2>6, <2>7, <2>8, RestAvail
    <2>10. /\ v.cl = w.cl /\ v.wire = w.wire /\ v.srv = w.srv /\ v.cn = w.cn
           /\ v.waiting = w.waiting /\ v.avail = b
      BY <1>0, <2>5, <2>7, AvailIs
    <2>11. Called(v, call) /\ NoneWaits(v, call.conn)
      BY <2>10 DEF Called, NoneWaits
    <2>12. acquire(w, call) = get_client_plugin(v, k, call)
      BY <1>1, <2>1, <2>3, <2>4, <2>7, AcquireIs
    <2>13. ~Gone(v.cl[k])
      BY <2>6, <2>10 DEF Pooled
    <2>14. CASE w.cl[k].slipped
      <3>1. Slip(v, k)
        BY <2>9, <2>10, <2>14 DEF Slip
      <3>2. Slip(get_client_plugin(v, k, call), k)
        BY <2>11, <2>13, <3>1, PluginSlip
      <3>. QED
        BY <2>12, <3>2, SlipIsGood
    <2>15. CASE ~w.cl[k].slipped
      <3>1. w.cl[k].state = "IDLE"
        BY <2>6, <2>15 DEF Pooled
      <3>2. Resting(w, k) /\ \A c \in Conns : InNotes(w, k, c)
        BY <2>8, <2>15, <3>1 DEF Own
      <3>3. Spare(v, k) /\ v.wire[k] = <<>>
        BY <2>10, <3>1, <3>2 DEF Spare, Resting, LeftOver, InNotes, Settled, Holds
      <3>4. Good(get_client_plugin(v, k, call))
        BY <2>5, <2>9, <2>10, <2>11, <2>13, <3>3, PluginGood
      <3>. QED
        BY <2>12, <3>4
    <2>. QED
      BY <2>14, <2>15
  <1>2. CASE w.avail = <<>> /\ CanCreate(w)
    BY <1>2, AcquireIs, CreateGood
  <1>3. CASE w.avail = <<>> /\ ~CanCreate(w)
    <2>1. PICK p \in Seq(Caller) : p = w.waiting
      BY <1>0, WorldIs
    <2>2. PICK q : q = Append(p, call)
      OBVIOUS
    <2>3. /\ q \in Seq(Caller) /\ Len(q) = Len(p) + 1
          /\ \A i \in 1..Len(p) : q[i] = p[i]
          /\ q[Len(p) + 1] = call
      BY ONLY <2>2, p \in Seq(Caller), call \in Caller, AppendProperties
    <2>4. PICK n \in Nat : n = Len(p)
      OBVIOUS
    <2>5. \A i \in 1..Len(q) : i \in 1..Len(p) \/ i = n + 1
      BY ONLY <2>3, <2>4, n \in Nat
    <2>6. \A i \in 1..Len(q) : (i \in 1..Len(p) /\ q[i] = p[i]) \/ (i = n + 1 /\ q[i] = call)
      BY <2>3, <2>4, <2>5
    <2>7. /\ \A i \in 1..Len(p) : Called(w, p[i])
          /\ \A i, j \in 1..Len(p) : p[i].conn = p[j].conn /\ w.cn[p[i].conn].up => i = j
          /\ w.cn[call.conn].up => \A i \in 1..Len(p) : p[i].conn # call.conn
      BY <1>0, <2>1 DEF Links, NoneWaits
    <2>8. \A i \in 1..Len(q) : Called(w, q[i])
      BY <2>6, <2>7
    <2>9. ASSUME NEW i \in 1..Len(q), NEW j \in 1..Len(q), q[i].conn = q[j].conn,
                 w.cn[q[i].conn].up
          PROVE  i = j
      BY <2>6, <2>7, <2>9
    <2>10. Queue(w, q)
      BY <2>3, <2>8, <2>9 DEF Queue
    <2>11. Rest(w, 0)
      BY DEF Rest, Good
    <2>12. Rest(WithWaiting(w, q), 0)
      BY <2>10, <2>11, RestWaiting
    <2>13. Good(WithWaiting(w, q))
      BY <2>12, IdsAre DEF Rest, Good
    <2>14. acquire(w, call) = WithWaiting(w, q)
      BY <1>3, <2>1, <2>2, AcquireIs
    <2>. QED
      BY <2>13, <2>14
  <1>. QED
    BY <1>1, <1>2, <1>3

----------------------------------------------------------------------------
(* A client that is destroyed, or was reused too early, stays so whatever  *)
(* is done to it.                                                          *)
Off(w, k) ==
    Rest(w, k) /\ w.cl[k].state # "none" /\ (w.cl[k].slipped \/ w.cl[k].state = "DESTROYED")

Stays(w, v, k) ==
    /\ Off(v, k)
    /\ w.cl[k].slipped => v.cl[k].slipped
    /\ w.cl[k].state = "DESTROYED" => v.cl[k].state = "DESTROYED"

LEMMA OffIsGood ==
    ASSUME NEW w, NEW k \in Ids, Off(w, k)
    PROVE  Good(w)
  <1>1. w.cl[k].state = "DESTROYED" => Own(w, k)
    BY DEF Own, InNotes, Settled, Holds
  <1>2. w.cl[k].slipped => Own(w, k)
    BY DEF Own
  <1>. QED
    BY <1>1, <1>2, GoodIs DEF Off

LEMMA StaysSame ==
    ASSUME NEW w, NEW k, Off(w, k)
    PROVE  Stays(w, w, k)
  BY DEF Stays

LEMMA StaysThrough ==
    ASSUME NEW w, NEW u, NEW v, NEW k, Stays(w, u, k), Stays(u, v, k)
    PROVE  Stays(w, v, k)
  BY DEF Stays

LEMMA OffSend ==
    ASSUME NEW w, NEW k \in Ids, Off(w, k), NEW cmd \in Commands, NEW tx \in TxId
    PROVE  Stays(w, send_command(w, k, cmd, tx), k)
  <1>. PICK v : v = send_command(w, k, cmd, tx)
    OBVIOUS
  <1>0. Rest(w, k) /\ w.cl[k].state # "none" /\ w.cl[k] \in Client
    BY RestIs DEF Off
  <1>1. /\ Rest(v, k) /\ Kept(w, v, k)
        /\ w.cl[k].state = "DESTROYED" => v = w
        /\ w.cl[k].state # "DESTROYED" => v.cl[k] = [w.cl[k] EXCEPT !.command = cmd]
    BY <1>0, SendRest
  <1>2. v.cl[k].state = w.cl[k].state
    BY <1>0, <1>1 DEF Client
  <1>. QED
    BY <1>0, <1>1, <1>2 DEF Off, Stays, Kept

LEMMA OffStart ==
    ASSUME NEW w, NEW k \in Ids, Off(w, k), NEW tx \in TxId
    PROVE  Stays(w, start_data(w, k, tx), k)
  <1>. PICK v : v = start_data(w, k, tx)
    OBVIOUS
  <1>0. Rest(w, k) /\ w.cl[k].state # "none" /\ w.cl[k] \in Client
    BY RestIs DEF Off
  <1>1. /\ Rest(v, k) /\ Kept(w, v, k)
        /\ w.cl[k].state = "DESTROYED" => v = w
        /\ w.cl[k].state # "DESTROYED" => v.cl[k] = [w.cl[k] EXCEPT !.command = "dot"]
    BY <1>0, StartRest
  <1>2. v.cl[k].state = w.cl[k].state
    BY <1>0, <1>1 DEF Client
  <1>. QED
    BY <1>0, <1>1, <1>2 DEF Off, Stays, Kept

LEMMA ReleaseOff ==
    ASSUME NEW w, NEW k \in Ids, Rest(w, k), w.cl[k].state # "none",
           \/ w.cl[k].state # "ACTIVE" \/ w.wire[k] # <<>> \/ ~w.cl[k].connected
           \/ w.cl[k].slipped
    PROVE  /\ Stays(w, release(w, k), k)
           /\ release(w, k).cn = w.cn /\ release(w, k).accepted = w.accepted
           /\ release(w, k).cl[k].state # "ACTIVE"
  <1>. PICK v : v = release(w, k)
    OBVIOUS
  <1>1. /\ Rest(v, k) /\ Kept(w, v, k) /\ v.cl[k].state \in {"DESTROYED", "RELEASED"}
        /\ \/ v.cl[k].state = "DESTROYED" \/ v.cl[k].slipped
           \/ w.cl[k].state = "ACTIVE" /\ w.wire[k] = <<>>
    BY ReleaseRest
  <1>2. ~w.cl[k].connected => v.cl[k].state = "DESTROYED"
    BY DestroyIs DEF release
  <1>3. w.cl[k].state = "DESTROYED" => v.cl[k].state = "DESTROYED"
    <2>1. CASE ~w.cl[k].connected \/ w.cl[k].command = "data"
      BY <2>1, DestroyIs DEF release
    <2>2. CASE ~(~w.cl[k].connected \/ w.cl[k].command = "data") /\ w.cl[k].state = "DESTROYED"
      BY <2>2 DEF release
    <2>. QED
      BY <2>1, <2>2
  <1>. QED
    BY <1>1, <1>2, <1>3 DEF Off, Stays, Kept

LEMMA OffRelease ==
    ASSUME NEW w, NEW k \in Ids, Off(w, k)
    PROVE  Stays(w, release(w, k), k)
  <1>1. /\ Rest(w, k) /\ w.cl[k].state # "none"
        /\ w.cl[k].state # "ACTIVE" \/ w.cl[k].slipped
    BY DEF Off
  <1>. QED
    BY <1>1, ReleaseOff

LEMMA OffForget ==
    ASSUME NEW w, NEW k \in Ids, Off(w, k), NEW c \in Conns
    PROVE  Stays(w, Forget(w, c), k)
  <1>. PICK v : v = Forget(w, c)
    OBVIOUS
  <1>1. Rest(v, k) /\ v.cl = w.cl
    BY ForgetRest DEF Off
  <1>. QED
    BY <1>1 DEF Off, Stays

(* A field of the client is set.                                           *)
Tweak(w, k, x) == [w EXCEPT !.cl[k] = x]

LEMMA TweakRest ==
    ASSUME NEW w, NEW k \in Ids, Rest(w, k), NEW x \in Client, x.next = w.cl[k].next,
           x.state = w.cl[k].state, x.slipped = w.cl[k].slipped
    PROVE  /\ Rest(Tweak(w, k, x), k) /\ Tweak(w, k, x).cl[k] = x
           /\ Tweak(w, k, x).wire[k] = w.wire[k] /\ Tweak(w, k, x).srv[k] = w.srv[k]
           /\ Tweak(w, k, x).cn = w.cn /\ Tweak(w, k, x).accepted = w.accepted
           /\ Tweak(w, k, x).avail = w.avail /\ Tweak(w, k, x).waiting = w.waiting
           /\ \A j \in Ids : j # k => Tweak(w, k, x).cl[j] = w.cl[j]
  <1>0. w \in World /\ w.cl[k] \in Client /\ w.wire[k] \in Seq(Line) /\ w.srv[k] \in Envelope
        /\ Pool(w) /\ GoneIs(w, k)
    BY RestIs DEF Rest
  <1>1. PICK v : v = Put(w, k, x, w.wire[k], w.srv[k])
    OBVIOUS
  <1>2. (Gone(x) => w.wire[k] = <<>> /\ w.srv[k] = Idle) /\ (x.slipped => x.state # "none")
    BY <1>0 DEF GoneIs, Gone
  <1>3. InPool(w.avail, k) => Pooled(x)
    BY <1>0 DEF Pool, Pooled, Gone
  <1>4. Rest(v, k)
    BY <1>0, <1>1, <1>2, <1>3, RestPut
  <1>5. /\ v.cl[k] = x /\ v.wire[k] = w.wire[k] /\ v.srv[k] = w.srv[k]
        /\ v.cn = w.cn /\ v.avail = w.avail /\ v.waiting = w.waiting /\ v.accepted = w.accepted
        /\ \A j \in Ids : j # k => v.cl[j] = w.cl[j]
    BY <1>0, <1>1, Put_Is
  <1>6. v = Tweak(w, k, x)
    BY <1>0, <1>1, PutOne DEF Tweak
  <1>. QED
    BY <1>4, <1>5, <1>6

LEMMA OffTweak ==
    ASSUME NEW w, NEW k \in Ids, Off(w, k), NEW x \in Client, x.next = w.cl[k].next,
           x.state = w.cl[k].state, x.slipped = w.cl[k].slipped
    PROVE  Stays(w, Tweak(w, k, x), k)
  <1>. PICK v : v = Tweak(w, k, x)
    OBVIOUS
  <1>1. Rest(v, k) /\ v.cl[k] = x
    BY TweakRest DEF Off
  <1>. QED
    BY <1>1 DEF Off, Stays

----------------------------------------------------------------------------
(* What becomes of the clients while hooks and commands run: one in use    *)
(* stays its caller's until it is released, destroyed or slips.            *)
Since(x, y) ==
    /\ x.slipped => y.slipped
    /\ x.state # "none" => y.state # "none"
    /\ x.state = "DESTROYED" => y.state = "DESTROYED"
    /\ x.state = "RELEASED" => y.slipped \/ y.state \in {"RELEASED", "DESTROYED"}
    /\ x.state = "ACTIVE" => \/ y.slipped \/ y.state \in {"RELEASED", "DESTROYED"}
                             \/ y.state = "ACTIVE" /\ y.ears = x.ears

Onward(w, v) == \A k \in Ids : Since(w.cl[k], v.cl[k])

LEMMA SinceAlike ==
    ASSUME NEW x, NEW y, y.state = x.state, y.slipped = x.slipped, y.ears = x.ears
    PROVE  Since(x, y)
  BY DEF Since

LEMMA SinceThrough ==
    ASSUME NEW x, NEW y, NEW z, Since(x, y), Since(y, z)
    PROVE  Since(x, z)
  <1>1. /\ x.slipped => z.slipped
        /\ x.state # "none" => z.state # "none"
        /\ x.state = "DESTROYED" => z.state = "DESTROYED"
    BY DEF Since
  <1>2. x.state = "RELEASED" => z.slipped \/ z.state \in {"RELEASED", "DESTROYED"}
    BY DEF Since
  <1>3. x.state = "ACTIVE" => \/ z.slipped \/ z.state \in {"RELEASED", "DESTROYED"}
                              \/ z.state = "ACTIVE" /\ z.ears = x.ears
    BY DEF Since
  <1>. QED
    BY <1>1, <1>2, <1>3 DEF Since

LEMMA OnwardThrough ==
    ASSUME NEW w, NEW u, NEW v, Onward(w, u), Onward(u, v)
    PROVE  Onward(w, v)
  BY SinceThrough DEF Onward

LEMMA OnwardSame ==
    ASSUME NEW w, NEW v, v.cl = w.cl
    PROVE  Onward(w, v)
  BY SinceAlike DEF Onward

LEMMA OnwardOne ==
    ASSUME NEW w, NEW v, NEW k \in Ids, Since(w.cl[k], v.cl[k]),
           \A j \in Ids : j # k => v.cl[j] = w.cl[j]
    PROVE  Onward(w, v)
  <1>1. ASSUME NEW j \in Ids
        PROVE  Since(w.cl[j], v.cl[j])
    <2>1. CASE j = k
      BY <2>1
    <2>2. CASE j # k
      BY <2>2, SinceAlike
    <2>. QED
      BY <2>1, <2>2
  <1>. QED
    BY <1>1 DEF Onward

LEMMA OnwardSend ==
    ASSUME NEW w, NEW k \in Ids, Rest(w, k), NEW cmd \in Commands, NEW tx \in TxId,
           w.cl[k].state # "none"
    PROVE  Onward(w, send_command(w, k, cmd, tx))
  <1>. PICK v : v = send_command(w, k, cmd, tx)
    OBVIOUS
  <1>0. w.cl[k] \in Client
    BY RestIs
  <1>1. /\ Kept(w, v, k)
        /\ w.cl[k].state = "DESTROYED" => v = w
        /\ w.cl[k].state # "DESTROYED" => v.cl[k] = [w.cl[k] EXCEPT !.command = cmd]
    BY SendRest
  <1>2. v.cl[k].state = w.cl[k].state /\ v.cl[k].slipped = w.cl[k].slipped
        /\ v.cl[k].ears = w.cl[k].ears
    BY <1>0, <1>1 DEF Client
  <1>3. Since(w.cl[k], v.cl[k])
    BY <1>2, SinceAlike
  <1>4. \A j \in Ids : j # k => v.cl[j] = w.cl[j]
    BY <1>1 DEF Kept
  <1>9. Onward(w, v)
    BY ONLY <1>3, <1>4, k \in Ids, OnwardOne
  <1>. QED
    BY <1>9

LEMMA OnwardStart ==
    ASSUME NEW w, NEW k \in Ids, Rest(w, k), NEW tx \in TxId, w.cl[k].state # "none"
    PROVE  Onward(w, start_data(w, k, tx))
  <1>. PICK v : v = start_data(w, k, tx)
    OBVIOUS
  <1>0. w.cl[k] \in Client
    BY RestIs
  <1>1. /\ Kept(w, v, k)
        /\ w.cl[k].state = "DESTROYED" => v = w
        /\ w.cl[k].state # "DESTROYED" => v.cl[k] = [w.cl[k] EXCEPT !.command = "dot"]
    BY StartRest
  <1>2. v.cl[k].state = w.cl[k].state /\ v.cl[k].slipped = w.cl[k].slipped
        /\ v.cl[k].ears = w.cl[k].ears
    BY <1>0, <1>1 DEF Client
  <1>3. Since(w.cl[k], v.cl[k])
    BY <1>2, SinceAlike
  <1>4. \A j \in Ids : j # k => v.cl[j] = w.cl[j]
    BY <1>1 DEF Kept
  <1>9. Onward(w, v)
    BY ONLY <1>3, <1>4, k \in Ids, OnwardOne
  <1>. QED
    BY <1>9

LEMMA OnwardRelease ==
    ASSUME NEW w, NEW k \in Ids, Rest(w, k), w.cl[k].state # "none"
    PROVE  Onward(w, release(w, k))
  <1>. PICK v : v = release(w, k)
    OBVIOUS
  <1>1. Kept(w, v, k) /\ v.cl[k].state \in {"DESTROYED", "RELEASED"}
    BY ReleaseRest
  <1>2. w.cl[k].state = "DESTROYED" => v.cl[k].state = "DESTROYED"
    BY ReleaseOff DEF Stays
  <1>3. Since(w.cl[k], v.cl[k])
    BY <1>1, <1>2 DEF Kept, Since
  <1>4. \A j \in Ids : j # k => v.cl[j] = w.cl[j]
    BY <1>1 DEF Kept
  <1>9. Onward(w, v)
    BY ONLY <1>3, <1>4, k \in Ids, OnwardOne
  <1>. QED
    BY <1>9

LEMMA OnwardPlugin ==
    ASSUME NEW w, NEW k \in Ids, Rest(w, k), Pooled(w.cl[k]), InPool(w.avail, k) => w.cl[k].slipped,
           NEW call \in Caller, Called(w, call), NoneWaits(w, call.conn)
    PROVE  Onward(w, get_client_plugin(w, k, call))
  <1>. PICK v : v = get_client_plugin(w, k, call)
    OBVIOUS
  <1>0. ~Gone(w.cl[k])
    BY DEF Pooled
  <1>1. \A j \in Ids : j # k => v.cl[j] = w.cl[j]
    BY <1>0, PluginOthers
  <1>2. PICK u : v = TakeFrom(u, k, call) /\ InUse(w, u, k, call)
    BY <1>0, PluginIs
  <1>3. PICK s : Rest(s, k) /\ Kept(u, s, k) /\ s.cl[k].state # "none" /\ Given(s, v, k, call)
    BY <1>2, TakeFromIs DEF InUse
  <1>4. s.cl[k] \in Client
    BY <1>3, RestIs
  <1>5. v.cl[k].state = s.cl[k].state /\ v.cl[k].slipped = s.cl[k].slipped
    BY <1>3, <1>4 DEF Given, Client
  <1>6. w.cl[k].slipped => v.cl[k].slipped
    BY <1>2, <1>3, <1>5 DEF InUse, Kept
  <1>7. w.cl[k].slipped \/ w.cl[k].state = "IDLE"
    BY DEF Pooled
  <1>8. Since(w.cl[k], v.cl[k])
    BY <1>0, <1>3, <1>5, <1>6, <1>7 DEF Since, Gone
  <1>9. Onward(w, v)
    BY ONLY <1>1, <1>8, k \in Ids, OnwardOne
  <1>. QED
    BY <1>9

LEMMA OnwardAcquire ==
    ASSUME NEW w, Good(w), NEW call \in Caller, Called(w, call), NoneWaits(w, call.conn)
    PROVE  Onward(w, acquire(w, call))
  <1>0. w \in World /\ Pool(w) /\ Links(w)
    BY DEF Good
  <1>1. CASE w.avail # <<>>
    <2>1. PICK a \in Seq(Ids) : a = w.avail
      BY <1>0, WorldIs
    <2>2. Apart(a)
      BY <1>0, <2>1 DEF Pool, Apart
    <2>3. PICK k \in Ids : k = Head(a)
      BY <1>1, <2>1, <2>2, HeadTail
    <2>4. PICK b : b = Tail(a)
      OBVIOUS
    <2>5. InPool(a, k) /\ b \in Seq(Ids) /\ Apart(b) /\ ~InPool(b, k)
          /\ \A j \in Ids : InPool(b, j) => InPool(a, j)
      BY <1>1, <2>1, <2>2, <2>3, <2>4, HeadTail
    <2>6. Fits(w, b) /\ Pooled(w.cl[k])
      BY <1>0, <2>1, <2>5 DEF Fits, Pool
    <2>7. PICK v : v = WithAvail(w, b)
      OBVIOUS
    <2>8. Rest(v, k)
      BY <2>6, <2>7, GoodIs, RestAvail
    <2>9. v.cl = w.cl /\ v.cn = w.cn /\ v.waiting = w.waiting /\ v.avail = b
      BY <1>0, <2>5, <2>7, AvailIs
    <2>10. Called(v, call) /\ NoneWaits(v, call.conn) /\ Pooled(v.cl[k]) /\ ~InPool(v.avail, k)
      BY <2>5, <2>6, <2>9 DEF Called, NoneWaits
    <2>11. Onward(v, get_client_plugin(v, k, call))
      BY <2>8, <2>10, OnwardPlugin
    <2>12. acquire(w, call) = get_client_plugin(v, k, call)
      BY <1>1, <2>1, <2>3, <2>4, <2>7, AcquireIs
    <2>. QED
      BY <2>9, <2>11, <2>12 DEF Onward
  <1>2. CASE w.avail = <<>> /\ CanCreate(w)
    <2>. PICK v : v = Create(w, call)
      OBVIOUS
    <2>1. PICK k \in Ids : /\ w.cl[k].state = "none" /\ ~w.cl[k].slipped
                           /\ \A j \in Ids : j # k => v.cl[j] = w.cl[j]
      BY <1>2, CreateGood
    <2>2. Since(w.cl[k], v.cl[k])
      BY <2>1 DEF Since
    <2>3. Onward(w, v)
      BY <2>1, <2>2, OnwardOne
    <2>. QED
      BY <1>2, <2>3, AcquireIs
  <1>3. CASE w.avail = <<>> /\ ~CanCreate(w)
    <2>1. acquire(w, call) = WithWaiting(w, Append(w.waiting, call))
      BY <1>3, AcquireIs
    <2>2. acquire(w, call).cl = w.cl
      BY <1>0, <2>1 DEF WithWaiting, World
    <2>. QED
      BY <2>2, OnwardSame
  <1>. QED
    BY <1>1, <1>2, <1>3

----------------------------------------------------------------------------
LEMMA CommandsAre ==
    /\ "mail" \in Commands /\ "rcpt" \in Commands /\ "data" \in Commands /\ "rset" \in Commands
    /\ "ehlo" \in Commands /\ "helo" \in Commands /\ "xclient" \in Commands
    /\ "starttls" \in Commands /\ "auth" \in Commands /\ "dot" \in Commands /\ NoTx \in TxId
  BY DEF Commands, TxId

LEMMA OffThenForget ==
    ASSUME NEW w, NEW v, NEW k \in Ids, Stays(w, v, k), NEW c \in Conns
    PROVE  Stays(w, Forget(v, c), k)
  <1>1. Stays(v, Forget(v, c), k)
    BY OffForget DEF Stays
  <1>. QED
    BY <1>1, StaysThrough

LEMMA LastIs ==
    ASSUME NEW ears \in Seq(Conns), ears # <<>>
    PROVE  Last(ears) \in Conns
  BY DEF Last

(* Clients that differ in what no sender depends on.                      *)
Alike(x, y) ==
    /\ x.state = y.state /\ x.slipped = y.slipped /\ x.next = y.next /\ x.txn = y.txn
    /\ x.pool = y.pool /\ x.ears = y.ears

----------------------------------------------------------------------------
(* The client whose reply has come, of a sender who may wait for it.       *)
InHand(w, k, c) ==
    LET x == w.cl[k] IN
    /\ Rest(w, k) /\ x.state = "ACTIVE" /\ ~x.slipped /\ ~x.pool
    /\ EarsAre(w, x.ears, c) /\ w.wire[k] = <<>> /\ Mailed(w.srv[k], x.txn)
    /\ \A d \in Conns : InNotes(w, k, d)

LEMMA InHandGood ==
    ASSUME NEW w, NEW k \in Ids, NEW c \in Conns, InHand(w, k, c)
    PROVE  Good(w)
  <1>1. Serves(w, k, c)
    BY DEF InHand, Serves, OneLine
  <1>2. Own(w, k)
    BY <1>1 DEF InHand, Own
  <1>. QED
    BY <1>2, GoodIs DEF InHand

(* What was written to it is what its sender waits for.                    *)
LEMMA HandWritten ==
    ASSUME NEW w, NEW v, NEW k \in Ids, NEW c \in Conns, InHand(w, k, c), WaitsFor(w, k, c),
           Rest(v, k), Kept(w, v, k), NEW cmd \in Commands,
           v.cl[k] = [w.cl[k] EXCEPT !.command = cmd], v.srv[k] = w.srv[k],
           \/ v.wire[k] = <<>>
           \/ \E h \in Line : /\ v.wire[k] = <<h>> /\ h.cmd = cmd /\ h.clean
                              /\ cmd \in {"mail", "rcpt", "dot"} => h.tx = w.cl[k].txn
    PROVE  Good(v)
  <1>0. w.cl[k] \in Client
    BY RestIs DEF InHand
  <1>1. /\ v.cl[k].state = "ACTIVE" /\ v.cl[k].command = cmd /\ v.cl[k].ears = w.cl[k].ears
        /\ v.cl[k].slipped = w.cl[k].slipped /\ v.cl[k].pool = w.cl[k].pool
        /\ v.cl[k].txn = w.cl[k].txn /\ v.cl[k].next = w.cl[k].next
    BY <1>0 DEF Client, InHand
  <1>2. v.cn = w.cn
    BY DEF Kept
  <1>3. EarsAre(v, v.cl[k].ears, c)
    BY <1>1, <1>2 DEF InHand, EarsAre
  <1>4. WaitsFor(v, k, c)
    BY <1>1, <1>2 DEF WaitsFor, Holds
  <1>5. OneLine(v.cl[k], v.wire[k])
    BY <1>1 DEF OneLine
  <1>6. v.wire[k] # <<>> =>
           /\ v.wire[k][1].cmd \in {"mail", "rcpt", "dot"} => v.wire[k][1].tx = v.cl[k].txn
           /\ WaitsFor(v, k, c)
    BY <1>1, <1>4
  <1>7. Mailed(v.srv[k], v.cl[k].txn) /\ ~v.cl[k].pool
    BY <1>1 DEF InHand
  <1>8. Serves(v, k, c)
    BY <1>3, <1>5, <1>6, <1>7 DEF Serves
  <1>9. \A d \in Conns : InNotes(v, k, d)
    BY <1>1, <1>2 DEF InHand, InNotes, Settled, Holds
  <1>10. Own(v, k)
    BY <1>1, <1>8, <1>9 DEF Own
  <1>. QED
    BY <1>10, GoodIs

LEMMA HandSend ==
    ASSUME NEW w, NEW k \in Ids, NEW c \in Conns, InHand(w, k, c), WaitsFor(w, k, c),
           NEW cmd \in Commands, NEW tx \in TxId,
           cmd \in {"mail", "rcpt", "dot"} => tx = w.cl[k].txn
    PROVE  Good(send_command(w, k, cmd, tx))
  <1>. PICK v : v = send_command(w, k, cmd, tx)
    OBVIOUS
  <1>0. Rest(w, k) /\ w.wire[k] = <<>> /\ w.cl[k].state # "none" /\ w.cl[k].state # "DESTROYED"
    BY DEF InHand
  <1>1. /\ Rest(v, k) /\ Kept(w, v, k) /\ v.srv[k] = w.srv[k]
        /\ v.cl[k] = [w.cl[k] EXCEPT !.command = cmd]
        /\ v.wire[k] = <<Cmd(cmd, tx)>> \/ v.wire[k] = <<>>
    BY <1>0, SendRest
  <1>2. PICK h \in Line : h = Cmd(cmd, tx)
    BY DEF Line, Cmd
  <1>3. h.cmd = cmd /\ h.clean /\ h.tx = tx
    BY <1>2 DEF Cmd
  <1>. QED
    BY <1>1, <1>2, <1>3, HandWritten

LEMMA HandStart ==
    ASSUME NEW w, NEW k \in Ids, NEW c \in Conns, InHand(w, k, c), WaitsFor(w, k, c)
    PROVE  Good(start_data(w, k, w.cl[k].txn))
  <1>. PICK tx \in TxId : tx = w.cl[k].txn
    BY RestIs DEF InHand, Client
  <1>. PICK v : v = start_data(w, k, tx)
    OBVIOUS
  <1>0. Rest(w, k) /\ w.wire[k] = <<>> /\ w.cl[k].state # "none" /\ w.cl[k].state # "DESTROYED"
    BY DEF InHand
  <1>1. /\ Rest(v, k) /\ Kept(w, v, k) /\ v.srv[k] = w.srv[k]
        /\ v.cl[k] = [w.cl[k] EXCEPT !.command = "dot"]
        /\ \E h \in Line : v.wire[k] = <<h>> /\ h.cmd = "dot" /\ h.tx = tx /\ h.clean
    BY <1>0, StartRest
  <1>. QED
    BY <1>1, HandWritten, CommandsAre

LEMMA HandTweak ==
    ASSUME NEW w, NEW k \in Ids, NEW c \in Conns, InHand(w, k, c),
           NEW x \in Client, Alike(x, w.cl[k])
    PROVE  /\ InHand(Tweak(w, k, x), k, c)
           /\ WaitsFor(w, k, c) => WaitsFor(Tweak(w, k, x), k, c)
  <1>. PICK v : v = Tweak(w, k, x)
    OBVIOUS
  <1>1. /\ Rest(v, k) /\ v.cl[k] = x /\ v.wire[k] = w.wire[k] /\ v.srv[k] = w.srv[k]
        /\ v.cn = w.cn
    BY TweakRest DEF InHand, Alike
  <1>2. InHand(v, k, c)
    BY <1>1 DEF InHand, Alike, EarsAre, InNotes, Settled, Holds
  <1>3. WaitsFor(w, k, c) => WaitsFor(v, k, c)
    BY <1>1 DEF WaitsFor, Holds, Alike
  <1>. QED
    BY <1>2, <1>3

(* Only its sender has it in his notes.                                    *)
LEMMA HandNotes ==
    ASSUME NEW w, NEW k \in Ids, NEW c \in Conns, InHand(w, k, c),
           NEW d \in Conns, w.cn[d].up, w.cn[d].note = k
    PROVE  d = c
  <1>1. EarsAre(w, w.cl[k].ears, c) /\ InNotes(w, k, d) /\ w.cl[k].state # "DESTROYED"
    BY DEF InHand
  <1>. QED
    BY <1>1, LastEar DEF InNotes, Settled, Holds

LEMMA HandRelease ==
    ASSUME NEW w, NEW k \in Ids, NEW c \in Conns, InHand(w, k, c)
    PROVE  /\ Rest(release(w, k), k) /\ Kept(w, release(w, k), k)
           /\ release(w, k).cl[k].state \in {"DESTROYED", "RELEASED"}
           /\ Good(Forget(release(w, k), c))
           /\ ~w.cn[c].up \/ w.cn[c].note # k => Good(release(w, k))
  <1>. PICK v : v = release(w, k)
    OBVIOUS
  <1>0. Rest(w, k) /\ w.cl[k].state # "none"
    BY DEF InHand
  <1>1. /\ Rest(v, k) /\ Kept(w, v, k) /\ v.cl[k].state \in {"DESTROYED", "RELEASED"}
        /\ \/ v.cl[k].state = "DESTROYED" \/ v.cl[k].slipped
           \/ Released(v, k) /\ v.cl[k].ears = <<>> /\ v.cl[k].state = "RELEASED"
    BY <1>0, ReleaseRest
  <1>2. CASE v.cl[k].state = "DESTROYED" \/ v.cl[k].slipped
    <2>1. Off(v, k)
      BY <1>1, <1>2 DEF Off
    <2>2. Stays(v, Forget(v, c), k)
      BY <2>1, OffForget
    <2>. QED
      BY <1>1, <2>1, <2>2, OffIsGood DEF Stays
  <1>3. CASE Released(v, k) /\ v.cl[k].ears = <<>> /\ v.cl[k].state = "RELEASED"
    <2>1. v.cn = w.cn
      BY <1>1 DEF Kept
    <2>2. PICK u : u = Forget(v, c)
      OBVIOUS
    <2>3. /\ Rest(u, k) /\ u.cl = v.cl /\ u.wire = v.wire /\ u.srv = v.srv
          /\ u.cn[c] = [v.cn[c] EXCEPT !.note = 0]
          /\ \A d \in Conns : d # c => u.cn[d] = v.cn[d]
      BY <1>1, <2>2, ForgetRest
    <2>4. Released(u, k)
      BY <1>3, <2>3 DEF Released, LeftOver
    <2>5. u.cn[c].note = 0
      <3>1. v.cn[c] \in Conn
        BY <1>1, WorldIs DEF Rest
      <3>. QED
        BY <2>3, <3>1 DEF Conn
    <2>6. ASSUME NEW d \in Conns
          PROVE  InNotes(u, k, d)
      <3>1. CASE d = c
        BY <2>5, <3>1, IdsAre DEF InNotes, Settled, Holds
      <3>2. CASE d # c
        <4>1. u.cn[d] = w.cn[d]
          BY <2>1, <2>3, <3>2
        <4>2. ~(w.cn[d].up /\ w.cn[d].note = k)
          BY <3>2, HandNotes
        <4>. QED
          BY <4>1, <4>2 DEF InNotes, Settled, Holds
      <3>. QED
        BY <3>1, <3>2
    <2>7. Good(u)
      BY <1>3, <2>3, <2>4, <2>6, GoodIs DEF Own
    <2>8. ASSUME ~w.cn[c].up \/ w.cn[c].note # k
          PROVE  Good(v)
      <3>1. ASSUME NEW d \in Conns
            PROVE  InNotes(v, k, d)
        <4>1. ~(v.cn[d].up /\ v.cn[d].note = k)
          BY <2>1, <2>8, HandNotes
        <4>. QED
          BY <4>1 DEF InNotes
      <3>. QED
        BY <1>1, <1>3, <3>1, GoodIs DEF Own
    <2>. QED
      BY <1>1, <2>2, <2>7, <2>8
  <1>. QED
    BY <1>1, <1>2, <1>3

----------------------------------------------------------------------------
(* What happens to a connection.                                           *)
LEMMA GoodConn ==
    ASSUME NEW w, Good(w), NEW c \in Conns, NEW y \in Conn,
           LinkConn(w, c, y), Told(w, c, y), \A j \in Ids : Passes(w, j, c, y)
    PROVE  Good(WithConn(w, c, y))
  <1>1. Rest(w, 0)
    BY DEF Rest, Good
  <1>2. Rest(WithConn(w, c, y), 0)
    BY <1>1, RestConn
  <1>. QED
    BY <1>2, IdsAre DEF Rest, Good

LEMMA ToldSame ==
    ASSUME NEW w, Good(w), NEW c \in Conns, NEW y, y.told = w.cn[c].told
    PROVE  Told(w, c, y)
  BY DEF Told, Good, Truth

LEMMA NoCall ==
    ASSUME NEW w, Good(w), NEW c \in Conns, w.cn[c].hook = ""
    PROVE  /\ w.cn[c].up => \A i \in 1..Len(w.waiting) : w.waiting[i].conn # c
           /\ \A j \in Ids : ~Holds(w, j, c)
  <1>1. ASSUME w.cn[c].up, NEW i \in 1..Len(w.waiting), w.waiting[i].conn = c
        PROVE  FALSE
    <2>1. Called(w, w.waiting[i])
      BY DEF Good, Links
    <2>. QED
      BY <1>1, <2>1 DEF Called
  <1>. QED
    BY <1>1 DEF Holds

LEMMA ResetGood ==
    ASSUME NEW w, Good(w), NEW c \in Conns, w.cn[c].hook = ""
    PROVE  Good(Reset(w, c))
  <1>0. w \in World /\ Links(w)
    BY DEF Good
  <1>1. PICK y \in Conn :
           /\ Reset(w, c) = WithConn(w, c, y)
           /\ y.tx = 0 /\ y.up = w.cn[c].up /\ y.hook = w.cn[c].hook /\ y.note = w.cn[c].note
           /\ y.calls = w.cn[c].calls /\ y.told = w.cn[c].told
    BY <1>0, ResetIs
  <1>2. plugin # "proxy" => w.cn[c].note = 0
    BY <1>0 DEF Links
  <1>3. LinkConn(w, c, y)
    BY <1>1, <1>2, NoCall DEF LinkConn
  <1>4. \A j \in Ids : Passes(w, j, c, y)
    BY <1>1, NoCall DEF Passes
  <1>. QED
    BY <1>1, <1>3, <1>4, ToldSame, GoodConn

LEMMA AnswerGood ==
    ASSUME NEW w, Good(w), NEW c \in Conns, NEW id, NEW ret, ret # "ok", NEW k,
           w.cn[c].hook = "mail" => ret # "cont",
           w.cn[c].up => \A i \in 1..Len(w.waiting) : w.waiting[i].conn # c,
           \A j \in Ids : w.cl[j].state = "ACTIVE" /\ w.wire[j] # <<>> => ~Holds(w, j, c)
    PROVE  Good(Answer(w, c, id, ret, k))
  <1>0. w \in World /\ Links(w)
    BY DEF Good
  <1>1. ASSUME NEW y \in Conn, Answer(w, c, id, ret, k) = WithConn(w, c, y),
               Answered(w, c, id, ret, k, y)
        PROVE  Good(WithConn(w, c, y))
    <2>1. /\ y.up = w.cn[c].up /\ y.note = w.cn[c].note /\ y.calls = w.cn[c].calls /\ y.hook = ""
          /\ y.tx \in {w.cn[c].tx, 0} /\ y.told = w.cn[c].told
          /\ w.cn[c].hook = "mail" => y.tx = 0
      BY <1>1 DEF Answered
    <2>2. plugin # "proxy" => w.cn[c].note = 0
      BY <1>0 DEF Links
    <2>3. ~w.cn[c].up => w.cn[c].tx = 0
      BY <1>0 DEF Links
    <2>4. LinkConn(w, c, y)
      BY <2>1, <2>2, <2>3 DEF LinkConn
    <2>5. \A j \in Ids : Passes(w, j, c, y)
      <3>1. y.tx # 0 => w.cn[c].hook # "mail" /\ w.cn[c].tx = y.tx
        BY <2>1
      <3>. QED
        BY <2>1, <3>1 DEF Passes, Settled
    <2>. QED
      BY <2>1, <2>4, <2>5, ToldSame, GoodConn
  <1>2. ret = "ok" => k \in Ids
    OBVIOUS
  <1>. QED
    BY <1>0, <1>1, <1>2, AnswerIs

(* hook_rset, hook_quit and hook_disconnect.                               *)
HisOwn(w, c) ==
    LET k == w.cn[c].note IN
    k # 0 => \/ w.cl[k].slipped \/ w.cl[k].state = "DESTROYED"
             \/ w.cl[k].state = "ACTIVE" /\ Last(w.cl[k].ears) = c

LEMMA NoteIsHis ==
    ASSUME NEW w, Good(w), NEW c \in Conns, w.cn[c].up
    PROVE  HisOwn(w, c)
  <1>1. CASE w.cn[c].note # 0
    <2>1. PICK k \in Ids : k = w.cn[c].note
      <3>1. w.cn[c] \in Conn
        BY WorldIs DEF Good
      <3>. QED
        BY <1>1, <3>1 DEF Conn
    <2>2. Own(w, k)
      BY DEF Good
    <2>. QED
      BY <2>1, <2>2 DEF HisOwn, Own, InNotes, Settled, Holds
  <1>. QED
    BY <1>1 DEF HisOwn

LEMMA LetGoGood ==
    ASSUME NEW w, Good(w), NEW c \in Conns, HisOwn(w, c)
    PROVE  /\ Good(Let_go(w, c)) /\ Onward(w, Let_go(w, c))
           /\ Let_go(w, c).cn[c].hook = w.cn[c].hook
  <1>0. w \in World /\ w.cn[c] \in Conn
    BY WorldIs DEF Good
  <1>1. CASE w.cn[c].note = 0
    BY <1>1, OnwardSame DEF Let_go
  <1>2. CASE w.cn[c].note # 0
    <2>1. PICK k \in Ids : k = w.cn[c].note
      BY <1>0, <1>2 DEF Conn
    <2>2. Rest(w, k) /\ Own(w, k) /\ GoneIs(w, k)
      BY GoodIs DEF Good
    <2>3. w.cl[k].slipped \/ w.cl[k].state = "DESTROYED"
          \/ (w.cl[k].state = "ACTIVE" /\ Last(w.cl[k].ears) = c)
      BY <1>2, <2>1 DEF HisOwn
    <2>4. w.cl[k].state # "none"
      BY <2>2, <2>3 DEF GoneIs
    <2>5. PICK v : v = release(w, k)
      OBVIOUS
    <2>6. Let_go(w, c) = Forget(v, c)
      BY <1>2, <2>1, <2>5 DEF Let_go
    <2>7. Rest(v, k) /\ Kept(w, v, k)
      BY <2>2, <2>4, <2>5, ReleaseRest
    <2>o. Onward(w, Forget(v, c))
      <3>1. Onward(w, v)
        BY <2>2, <2>4, <2>5, OnwardRelease
      <3>2. Forget(v, c).cl = v.cl
        BY <2>7, ForgetRest
      <3>. QED
        BY <3>1, <3>2 DEF Onward
    <2>8. Forget(v, c).cn[c].hook = w.cn[c].hook
      <3>1. v.cn = w.cn
        BY <2>7 DEF Kept
      <3>2. Forget(v, c).cn[c] = [w.cn[c] EXCEPT !.note = 0]
        BY <2>7, <3>1, ForgetRest
      <3>. QED
        BY <1>0, <3>2 DEF Conn
    <2>9. CASE w.cl[k].slipped \/ w.cl[k].state = "DESTROYED" \/ w.wire[k] # <<>>
      <3>1. Stays(w, v, k)
        BY <2>2, <2>4, <2>5, <2>9, ReleaseOff
      <3>2. Good(Forget(v, c))
        BY <3>1, OffThenForget, OffIsGood DEF Stays
      <3>. QED
        BY <2>o, <2>6, <2>8, <3>2
    <2>10. CASE /\ ~w.cl[k].slipped /\ w.cl[k].state = "ACTIVE" /\ w.wire[k] = <<>>
                /\ Last(w.cl[k].ears) = c
      <3>1. PICK d \in Conns : Serves(w, k, d)
        BY <2>2, <2>10 DEF Own
      <3>2. d = c
        BY <2>10, <3>1, LastEar DEF Serves
      <3>3. InHand(w, k, c)
        BY <2>2, <2>10, <3>1, <3>2 DEF InHand, Serves, Own
      <3>4. Good(Forget(v, c))
        BY <2>5, <3>3, HandRelease
      <3>. QED
        BY <2>o, <2>6, <2>8, <3>4
    <2>. QED
      BY <2>3, <2>9, <2>10
  <1>. QED
    BY <1>1, <1>2

(* A hook starts.                                                          *)
Starts(w, u, c, h, n) ==
    /\ Good(u) /\ u.cl = w.cl /\ u.wire = w.wire /\ u.srv = w.srv /\ u.waiting = w.waiting
    /\ u.avail = w.avail
    /\ u.cn[c].up /\ u.cn[c].hook = h /\ u.cn[c].tx = n /\ u.cn[c].note = w.cn[c].note
    /\ NoneWaits(u, c) /\ u.cn[c].calls \in Nat
    /\ \A j \in Ids : u.cl[j].next # <<c, u.cn[c].calls>>

LEMMA StartsIf ==
    ASSUME NEW w, Good(w), NEW c \in Conns, w.cn[c].up, w.cn[c].hook = "",
           NEW y \in Conn, y.up, y.hook # "", y.note = w.cn[c].note,
           y.calls = w.cn[c].calls + 1, y.told = w.cn[c].told,
           y.hook = "mail" \/ y.note = 0 \/ y.tx = w.cn[c].tx
    PROVE  Starts(w, WithConn(w, c, y), c, y.hook, y.tx)
  <1>u. PICK u : u = WithConn(w, c, y)
    OBVIOUS
  <1>0. w \in World /\ Links(w)
    BY DEF Good
  <1>1. plugin # "proxy" => w.cn[c].note = 0
    BY <1>0 DEF Links
  <1>2. PICK old \in Nat, new \in Nat : old = w.cn[c].calls /\ new = y.calls
    BY <1>0, WorldIs DEF Conn
  <1>3. new = old + 1
    BY <1>2
  <1>4. old # new /\ ~(new <= old)
    BY ONLY <1>3, old \in Nat, new \in Nat
  <1>5. LinkConn(w, c, y)
    BY <1>1, <1>2, <1>4, NoCall DEF LinkConn
  <1>10. ASSUME NEW j \in Ids, w.cl[j].next = <<c, y.calls>>
         PROVE  FALSE
    <2>1. w.cl[j].next = <<c, new>>
      BY <1>2, <1>10
    <2>2. new <= w.cn[c].calls
      BY <1>0, <2>1 DEF Links
    <2>. QED
      BY <1>2, <1>4, <2>2
  <1>11. Settled(w, 0, c) /\ \A j \in Ids : Settled(w, j, c)
    BY DEF Settled
  <1>6. \A j \in Ids : Passes(w, j, c, y)
    BY <1>10, <1>11, NoCall, IdsAre DEF Passes
  <1>7. Good(u)
    BY <1>u, <1>5, <1>6, ToldSame, GoodConn
  <1>8. /\ u.cn[c] = y /\ u.cl = w.cl /\ u.wire = w.wire /\ u.srv = w.srv
        /\ u.waiting = w.waiting /\ u.avail = w.avail
    <2>1. w \in World /\ c \in Conns /\ y \in Conn
      BY <1>0
    <2>. QED
      BY ONLY <1>u, <2>1, ConnIs
  <1>9. NoneWaits(u, c)
    <2>1. \A i \in 1..Len(w.waiting) : w.waiting[i].conn # c
      BY NoCall
    <2>. QED
      BY <1>8, <2>1 DEF NoneWaits
  <1>12. \A j \in Ids : u.cl[j].next # <<c, u.cn[c].calls>>
    BY <1>8, <1>10
  <1>. QED
    BY <1>u, <1>2, <1>7, <1>8, <1>9, <1>12 DEF Starts

LEMMA CallStarts ==
    ASSUME NEW w, Good(w), NEW c \in Conns, w.cn[c].up, w.cn[c].hook = "",
           NEW h \in Hooks, h # ""
    PROVE  Starts(w, Call(w, c, h), c, h, w.cn[c].tx)
  <1>0. w \in World /\ w.cn[c] \in Conn
    BY WorldIs DEF Good
  <1>1. PICK n \in Nat : n = w.cn[c].calls + 1
    <2>1. PICK old \in Nat : old = w.cn[c].calls
      BY <1>0 DEF Conn
    <2>2. PICK n \in Nat : n = old + 1
      BY ONLY old \in Nat
    <2>. QED
      BY <2>1, <2>2
  <1>2. PICK y : y = [w.cn[c] EXCEPT !.hook = h, !.calls = n]
    OBVIOUS
  <1>3. y \in Conn
    BY <1>0, <1>2 DEF Conn
  <1>4. /\ y.up /\ y.hook = h /\ y.note = w.cn[c].note /\ y.calls = n
        /\ y.told = w.cn[c].told /\ y.tx = w.cn[c].tx
    BY <1>0, <1>2 DEF Conn
  <1>5. Call(w, c, h) = WithConn(w, c, y)
    BY <1>1, <1>2 DEF Call, WithConn
  <1>6. Starts(w, WithConn(w, c, y), c, y.hook, y.tx)
    BY <1>1, <1>3, <1>4, StartsIf
  <1>. QED
    BY <1>4, <1>5, <1>6

LEMMA StartsCalled ==
    ASSUME NEW w, NEW u, NEW c \in Conns, NEW h, h # "", NEW n, n # 0, Starts(w, u, c, h, n)
    PROVE  /\ Pending(u, c) \in Caller /\ Called(u, Pending(u, c))
           /\ NoneWaits(u, Pending(u, c).conn)
  <1>0. u \in World /\ u.cn[c] \in Conn
    BY WorldIs DEF Good, Starts
  <1>1. PICK id \in Nat, t \in TxId : id = u.cn[c].calls /\ t = <<c, n>>
    BY <1>0 DEF Starts, Conn, TxId
  <1>2. Tx(u, c) = t
    BY <1>1 DEF Tx, Starts
  <1>3. PICK call : call = [conn |-> c, id |-> id, tx |-> t]
    OBVIOUS
  <1>4. Pending(u, c) = call
    BY <1>1, <1>2, <1>3 DEF Pending
  <1>5. call \in Caller /\ call.conn = c /\ call.id = id /\ call.tx = t
    BY <1>1, <1>3 DEF Caller
  <1>6. Called(u, call)
    BY <1>1, <1>5 DEF Called, Starts
  <1>. QED
    BY <1>4, <1>5, <1>6 DEF Starts

(* MAIL.                                                                   *)
Opened(w, c) ==
    [w EXCEPT !.cn[c] = [@ EXCEPT !.tx = w.cn[c].count + 1, !.count = w.cn[c].count + 1,
                                  !.asked = 0, !.rcpts = 0]]

LEMMA MailIs ==
    ASSUME NEW w, NEW c
    PROVE  hook_mail(w, c) =
              IF plugin = "proxy"
              THEN acquire(Call(Opened(w, c), c, "mail"), Pending(Call(Opened(w, c), c, "mail"), c))
              ELSE Opened(w, c)
  BY DEF hook_mail, Opened

LEMMA MailGood ==
    ASSUME NEW w, Good(w), NEW c \in Conns, w.cn[c].up, w.cn[c].hook = ""
    PROVE  Good(hook_mail(w, c)) /\ Onward(w, hook_mail(w, c))
  <1>0. w \in World /\ w.cn[c] \in Conn /\ Links(w)
    BY WorldIs DEF Good
  <1>1. PICK n \in Nat, id \in Nat :
           n = w.cn[c].count + 1 /\ id = w.cn[c].calls + 1 /\ n # 0
    <2>1. PICK i \in Nat, j \in Nat : i = w.cn[c].count /\ j = w.cn[c].calls
      BY <1>0 DEF Conn
    <2>2. PICK n \in Nat, id \in Nat : n = i + 1 /\ id = j + 1
      BY ONLY i \in Nat, j \in Nat
    <2>3. n # 0
      BY ONLY <2>2, i \in Nat
    <2>. QED
      BY <2>1, <2>2, <2>3
  <1>2. PICK y : y = [w.cn[c] EXCEPT !.tx = n, !.count = n, !.asked = 0, !.rcpts = 0]
    OBVIOUS
  <1>3. y \in Conn
    BY <1>0, <1>2 DEF Conn
  <1>4. /\ y.up /\ y.hook = "" /\ y.note = w.cn[c].note /\ y.calls = w.cn[c].calls
        /\ y.told = w.cn[c].told /\ y.tx = n
    BY <1>0, <1>2 DEF Conn
  <1>5. Opened(w, c) = WithConn(w, c, y)
    BY <1>1, <1>2 DEF Opened, WithConn
  <1>6. ASSUME plugin # "proxy"
        PROVE  Good(WithConn(w, c, y)) /\ WithConn(w, c, y).cl = w.cl
    <2>1. y.note = 0
      BY <1>0, <1>4, <1>6 DEF Links
    <2>2. LinkConn(w, c, y)
      BY <1>4, <2>1, NoCall DEF LinkConn
    <2>3. \A j \in Ids : Passes(w, j, c, y)
      BY <1>4, <2>1, NoCall, IdsAre DEF Passes
    <2>4. Good(WithConn(w, c, y))
      BY <1>3, <1>4, <2>2, <2>3, ToldSame, GoodConn
    <2>5. WithConn(w, c, y).cl = w.cl
      BY ONLY <1>0, <1>3, c \in Conns, ConnIs
    <2>. QED
      BY <2>4, <2>5
  <1>7. PICK z : z = [y EXCEPT !.hook = "mail", !.calls = id]
    OBVIOUS
  <1>8. /\ z \in Conn /\ z.up /\ z.hook = "mail" /\ z.note = w.cn[c].note /\ z.calls = id
        /\ z.told = w.cn[c].told /\ z.tx = n
    BY <1>3, <1>4, <1>7 DEF Conn, Hooks
  <1>9. PICK u : u = WithConn(w, c, z)
    OBVIOUS
  <1>10. Call(Opened(w, c), c, "mail") = u
    <2>1. PICK v : v = WithConn(w, c, y)
      OBVIOUS
    <2>2. v.cn[c] = y
      BY ONLY <1>0, <1>3, <2>1, ConnIs, c \in Conns
    <2>3. Call(v, c, "mail") = WithConn(v, c, z)
      BY <1>1, <1>4, <1>7, <2>2 DEF Call, WithConn
    <2>4. w \in World /\ c \in Conns
      BY ONLY <1>0, c \in Conns
    <2>5. WithConn(WithConn(w, c, y), c, z) = WithConn(w, c, z)
      BY ONLY <2>4, ConnConn
    <2>6. Opened(w, c) = v
      BY ONLY <1>5, <2>1
    <2>7. WithConn(v, c, z) = u
      BY ONLY <1>9, <2>1, <2>5
    <2>. QED
      BY ONLY <2>3, <2>6, <2>7
  <1>11. Starts(w, u, c, z.hook, z.tx)
    BY <1>1, <1>8, <1>9, StartsIf
  <1>12. Good(u) /\ Starts(w, u, c, "mail", n)
    BY <1>8, <1>11 DEF Starts
  <1>13. PICK call : call = Pending(u, c)
    OBVIOUS
  <1>14. call \in Caller /\ Called(u, call) /\ NoneWaits(u, call.conn)
    BY <1>1, <1>12, <1>13, StartsCalled
  <1>15. Good(acquire(u, call)) /\ Onward(u, acquire(u, call))
    BY <1>12, <1>14, AcquireGood, OnwardAcquire
  <1>16. Onward(w, acquire(u, call))
    BY <1>12, <1>15 DEF Starts, Onward
  <1>17. CASE plugin = "proxy"
    <2>1. hook_mail(w, c) = acquire(u, call)
      BY <1>10, <1>13, <1>17, MailIs
    <2>. QED
      BY <1>15, <1>16, <2>1
  <1>18. CASE plugin # "proxy"
    <2>1. hook_mail(w, c) = WithConn(w, c, y)
      BY <1>5, <1>18, MailIs
    <2>. QED
      BY <1>6, <1>18, <2>1, OnwardSame
  <1>. QED
    BY <1>17, <1>18

(* hook_queue of smtp_forward.                                             *)
LEMMA QueueGood ==
    ASSUME NEW w, Good(w), NEW c \in Conns, w.cn[c].up, w.cn[c].hook = "", w.cn[c].tx # 0
    PROVE  /\ Good(acquire(Call(w, c, "queue"), Pending(Call(w, c, "queue"), c)))
           /\ Onward(w, acquire(Call(w, c, "queue"), Pending(Call(w, c, "queue"), c)))
  <1>1. PICK u : u = Call(w, c, "queue")
    OBVIOUS
  <1>2. PICK h \in Hooks : h = "queue" /\ h # ""
    BY DEF Hooks
  <1>3. Starts(w, u, c, h, w.cn[c].tx)
    BY <1>1, <1>2, CallStarts
  <1>4. PICK call : call = Pending(u, c)
    OBVIOUS
  <1>5. call \in Caller /\ Called(u, call) /\ NoneWaits(u, call.conn)
    BY <1>2, <1>3, <1>4, StartsCalled
  <1>6. Good(acquire(u, call)) /\ Onward(u, acquire(u, call))
    BY <1>3, <1>5, AcquireGood, OnwardAcquire DEF Starts
  <1>7. Onward(w, acquire(u, call))
    BY <1>3, <1>6 DEF Starts, Onward
  <1>. QED
    BY <1>1, <1>4, <1>6, <1>7

----------------------------------------------------------------------------
(* The hooks of smtp_proxy that send a command to the client in the notes. *)
(* k works for c's hook.                                                   *)
Works(u, k, c) == [u EXCEPT !.cl[k].next = <<c, u.cn[c].calls>>]

WorkingFor(u, s, k, c, x) ==
    /\ s = Put(u, k, x, u.wire[k], u.srv[k]) /\ Rest(s, k)
    /\ x.state = u.cl[k].state /\ x.slipped = u.cl[k].slipped /\ x.pool = u.cl[k].pool
    /\ x.ears = u.cl[k].ears /\ x.txn = u.cl[k].txn /\ x.next = <<c, u.cn[c].calls>>

LEMMA WorksIs ==
    ASSUME NEW w, NEW u, NEW c \in Conns, NEW h, NEW n, Starts(w, u, c, h, n),
           NEW k \in Ids, u.cn[c].note = k
    PROVE  \E x \in Client : WorkingFor(u, Works(u, k, c), k, c, x)
  <1>0. Rest(u, k) /\ u \in World /\ GoneIs(u, k) /\ Pool(u)
    BY GoodIs DEF Starts, Good
  <1>1. u.cl[k] \in Client /\ u.wire[k] \in Seq(Line) /\ u.srv[k] \in Envelope
    BY <1>0, RestIs
  <1>2. PICK id \in Nat : id = u.cn[c].calls
    BY DEF Starts
  <1>3. PICK t \in TxId : t = <<c, id>>
    BY DEF TxId
  <1>4. PICK x : x = [u.cl[k] EXCEPT !.next = t]
    OBVIOUS
  <1>5. x \in Client
    BY <1>1, <1>4 DEF Client
  <1>6. /\ x.state = u.cl[k].state /\ x.slipped = u.cl[k].slipped /\ x.pool = u.cl[k].pool
        /\ x.ears = u.cl[k].ears /\ x.txn = u.cl[k].txn /\ x.next = t
    BY <1>1, <1>4 DEF Client
  <1>7. Works(u, k, c) = [u EXCEPT !.cl[k] = x]
    BY <1>2, <1>3, <1>4 DEF Works
  <1>8. [u EXCEPT !.cl[k] = x] = Put(u, k, x, u.wire[k], u.srv[k])
    BY <1>0, <1>5, PutOne
  <1>9. MayServe(u, k, c, id)
    BY <1>2 DEF MayServe, Starts, NoneWaits
  <1>10. /\ Gone(x) => u.wire[k] = <<>> /\ u.srv[k] = Idle
         /\ x.slipped => x.state # "none"
         /\ InPool(u.avail, k) => Pooled(x)
    BY <1>0, <1>6 DEF GoneIs, Gone, Pool, Pooled
  <1>11. x.next = <<c, id>>
    BY <1>3, <1>6
  <1>12. Rest(Put(u, k, x, u.wire[k], u.srv[k]), k)
    BY <1>0, <1>1, <1>5, <1>9, <1>10, <1>11, RestNext
  <1>. QED
    <2>1. x.next = <<c, u.cn[c].calls>>
      BY <1>2, <1>3, <1>6
    <2>2. Works(u, k, c) = Put(u, k, x, u.wire[k], u.srv[k])
      BY <1>7, <1>8
    <2>3. WorkingFor(u, Works(u, k, c), k, c, x)
      BY <1>6, <1>12, <2>1, <2>2 DEF WorkingFor
    <2>. QED
      BY <1>5, <2>3

OffOrHis(s, k, c, n) ==
    Off(s, k) \/ (InHand(s, k, c) /\ WaitsFor(s, k, c) /\ s.cl[k].txn = <<c, n>>)

LEMMA WorksHand ==
    ASSUME NEW w, NEW u, NEW c \in Conns, NEW h, h \notin {"", "mail"}, NEW n, n # 0,
           Starts(w, u, c, h, n), NEW k \in Ids, u.cn[c].note = k
    PROVE  OffOrHis(Works(u, k, c), k, c, n)
  <1>s. PICK s : s = Works(u, k, c)
    OBVIOUS
  <1>0. Rest(u, k) /\ u \in World /\ GoneIs(u, k) /\ Own(u, k) /\ Good(u)
    BY GoodIs DEF Starts, Good
  <1>1. u.wire[k] \in Seq(Line) /\ u.srv[k] \in Envelope
    BY <1>0, RestIs
  <1>x. PICK x \in Client : WorkingFor(u, s, k, c, x)
    BY <1>s, WorksIs
  <1>2. /\ s = Put(u, k, x, u.wire[k], u.srv[k]) /\ Rest(s, k)
        /\ x.state = u.cl[k].state /\ x.slipped = u.cl[k].slipped /\ x.pool = u.cl[k].pool
        /\ x.ears = u.cl[k].ears /\ x.txn = u.cl[k].txn /\ x.next = <<c, u.cn[c].calls>>
    BY <1>x DEF WorkingFor
  <1>3. s.cl[k] = x /\ s.wire[k] = u.wire[k] /\ s.srv[k] = u.srv[k] /\ s.cn = u.cn
    BY ONLY <1>0, <1>1, <1>2, Put_Is, k \in Ids, x \in Client
  <1>4. /\ u.cn[c].up /\ u.cn[c].hook = h /\ u.cn[c].tx = n
        /\ u.cl[k].next # <<c, u.cn[c].calls>>
    BY DEF Starts
  <1>5. HisOwn(u, c)
    BY <1>0, <1>4, NoteIsHis
  <1>6. \/ u.cl[k].slipped \/ u.cl[k].state = "DESTROYED"
        \/ u.cl[k].state = "ACTIVE" /\ Last(u.cl[k].ears) = c
    BY <1>5, IdsAre DEF HisOwn
  <1>7. CASE u.cl[k].slipped \/ u.cl[k].state = "DESTROYED"
    <2>1. u.cl[k].state # "none"
      BY <1>0, <1>7 DEF GoneIs
    <2>. QED
      BY <1>s, <1>2, <1>3, <1>7, <2>1 DEF Off, OffOrHis
  <1>8. CASE ~u.cl[k].slipped /\ u.cl[k].state = "ACTIVE" /\ Last(u.cl[k].ears) = c
    <2>1. PICK d \in Conns : Serves(u, k, d)
      BY <1>0, <1>8 DEF Own
    <2>2. d = c
      BY <1>8, <2>1, LastEar DEF Serves
    <2>3. u.wire[k] = <<>>
      BY <1>4, <2>1, <2>2 DEF Serves, WaitsFor, Holds
    <2>4. EarsAre(s, x.ears, c)
      BY <1>2, <1>3, <2>1, <2>2 DEF Serves, EarsAre
    <2>5. ~x.pool /\ Mailed(s.srv[k], x.txn)
      BY <1>2, <1>3, <2>1 DEF Serves
    <2>6. ASSUME NEW e \in Conns
          PROVE  InNotes(s, k, e)
      <3>1. InNotes(u, k, e)
        BY <1>0, <1>8 DEF Own
      <3>2. /\ s.cl[k].state = u.cl[k].state /\ s.cl[k].ears = u.cl[k].ears
            /\ s.cl[k].txn = u.cl[k].txn /\ s.cn = u.cn
        BY ONLY <1>2, <1>3
      <3>3. Settled(s, k, e) => Settled(u, k, e)
        <4>1. CASE e = c
          BY <1>4, <4>1 DEF Settled
        <4>2. CASE e # c
          <5>1. s.cl[k].next = <<c, u.cn[c].calls>>
            BY <1>2, <1>3
          <5>2. s.cl[k].next # <<e, s.cn[e].calls>>
            BY ONLY <4>2, <5>1
          <5>. QED
            BY <3>2, <5>2 DEF Settled, Holds
        <4>. QED
          BY <4>1, <4>2
      <3>. QED
        BY ONLY <3>1, <3>2, <3>3 DEF InNotes
    <2>7. InHand(s, k, c)
      BY <1>2, <1>3, <1>8, <2>3, <2>4, <2>5, <2>6 DEF InHand
    <2>8. x.txn = <<c, n>>
      <3>1. InNotes(u, k, c)
        BY <1>0, <1>8 DEF Own
      <3>. QED
        BY <1>2, <1>4, <1>8, <3>1 DEF InNotes, Settled, Holds
    <2>9. WaitsFor(s, k, c)
      BY <1>2, <1>3, <1>4, <2>8 DEF WaitsFor, Holds
    <2>. QED
      BY <1>s, <1>3, <2>7, <2>8, <2>9 DEF OffOrHis
  <1>. QED
    BY <1>6, <1>7, <1>8

LEMMA AnswerKeeps ==
    ASSUME NEW w \in World, NEW c \in Conns, NEW id, NEW ret, NEW k, ret = "ok" => k \in Ids
    PROVE  Answer(w, c, id, ret, k).cl = w.cl /\ Answer(w, c, id, ret, k).waiting = w.waiting
  BY AnswerIs, ConnIs

LEMMA ForwardedGood ==
    ASSUME NEW w, Good(w), NEW c \in Conns, w.cn[c].up, w.cn[c].hook = "", w.cn[c].tx # 0,
           NEW h \in Hooks, h \notin {"", "mail"}, NEW cmd \in Commands
    PROVE  Good(Forwarded(w, c, h, cmd)) /\ Onward(w, Forwarded(w, c, h, cmd))
  <1>0. w \in World /\ w.cn[c] \in Conn
    BY WorldIs DEF Good
  <1>1. PICK u : u = Call(w, c, h)
    OBVIOUS
  <1>2. PICK n : n = w.cn[c].tx
    OBVIOUS
  <1>3. Starts(w, u, c, h, n)
    BY <1>1, <1>2, CallStarts
  <1>4. /\ Good(u) /\ u.cn[c].hook = h /\ u.cn[c].tx = n /\ u.cn[c].note = w.cn[c].note
        /\ NoneWaits(u, c) /\ \A j \in Ids : ~Holds(u, j, c)
    BY <1>3 DEF Starts, Holds
  <1>5. CASE w.cn[c].note = 0
    <2>1. Forwarded(w, c, h, cmd) = Answer(u, c, u.cn[c].calls, "cont", 0)
      BY <1>1, <1>5 DEF Forwarded
    <2>2. Good(Answer(u, c, u.cn[c].calls, "cont", 0))
      BY <1>4, AnswerGood DEF NoneWaits
    <2>3. Answer(u, c, u.cn[c].calls, "cont", 0).cl = w.cl
      BY <1>3, AnswerKeeps DEF Starts, Good
    <2>. QED
      BY <2>1, <2>2, <2>3, OnwardSame
  <1>6. CASE w.cn[c].note # 0
    <2>1. PICK k \in Ids : k = w.cn[c].note
      BY <1>0, <1>6 DEF Conn
    <2>2. PICK s : s = Works(u, k, c)
      OBVIOUS
    <2>3. PICK t : t = Tx(u, c)
      OBVIOUS
    <2>4. t = <<c, n>>
      BY <1>2, <1>4, <2>3 DEF Tx
    <2>5. t \in TxId
      <3>1. n \in Nat
        BY <1>0, <1>2 DEF Conn
      <3>. QED
        BY <2>4, <3>1 DEF TxId
    <2>6. /\ cmd = "dot" => Forwarded(w, c, h, cmd) = start_data(s, k, t)
          /\ cmd # "dot" => Forwarded(w, c, h, cmd) = send_command(s, k, cmd, t)
      BY <1>1, <1>6, <2>1, <2>2, <2>3 DEF Forwarded, Works
    <2>7. Off(s, k) \/ (InHand(s, k, c) /\ WaitsFor(s, k, c) /\ s.cl[k].txn = t)
      <3>1. n # 0 /\ u.cn[c].note = k
        BY <1>2, <1>4, <2>1
      <3>2. OffOrHis(s, k, c, n)
        BY <1>3, <2>2, <3>1, WorksHand
      <3>. QED
        BY <2>4, <3>2 DEF OffOrHis
    <2>o. Onward(w, Forwarded(w, c, h, cmd))
      <3>1. PICK x \in Client : WorkingFor(u, s, k, c, x)
        <4>1. u.cn[c].note = k
          BY <1>4, <2>1
        <4>. QED
          BY <1>3, <2>2, <4>1, WorksIs
      <3>2. u \in World /\ u.wire[k] \in Seq(Line) /\ u.srv[k] \in Envelope
        BY <1>4, WorldIs DEF Good
      <3>3. s = Put(u, k, x, u.wire[k], u.srv[k])
        BY <3>1 DEF WorkingFor
      <3>4. s.cl[k] = x /\ \A i \in Ids : i # k => s.cl[i] = u.cl[i]
        BY ONLY <3>2, <3>3, k \in Ids, x \in Client, Put_Is
      <3>5. Since(u.cl[k], s.cl[k])
        BY <3>1, <3>4, SinceAlike DEF WorkingFor
      <3>6. Onward(u, s)
        BY ONLY <3>4, <3>5, k \in Ids, OnwardOne
      <3>7. Rest(s, k) /\ s.cl[k].state # "none"
        BY <2>7 DEF Off, InHand
      <3>8. Onward(s, start_data(s, k, t)) /\ Onward(s, send_command(s, k, cmd, t))
        BY <2>5, <3>7, OnwardStart, OnwardSend
      <3>9. Onward(s, Forwarded(w, c, h, cmd))
        BY <2>6, <3>8
      <3>10. Onward(u, Forwarded(w, c, h, cmd))
        BY <3>6, <3>9, OnwardThrough
      <3>. QED
        BY <1>3, <3>10 DEF Starts, Onward
    <2>8. CASE Off(s, k)
      <3>1. Stays(s, start_data(s, k, t), k) /\ Stays(s, send_command(s, k, cmd, t), k)
        BY <2>5, <2>8, OffStart, OffSend
      <3>. QED
        BY <2>o, <2>6, <3>1, OffIsGood DEF Stays
    <2>9. CASE InHand(s, k, c) /\ WaitsFor(s, k, c) /\ s.cl[k].txn = t
      <3>1. Good(start_data(s, k, t))
        BY <2>9, HandStart
      <3>2. Good(send_command(s, k, cmd, t))
        BY <2>5, <2>9, HandSend
      <3>. QED
        BY <2>o, <2>6, <3>1, <3>2
    <2>. QED
      BY <2>7, <2>8, <2>9
  <1>. QED
    BY <1>5, <1>6

OneAsked(w, c) == [w EXCEPT !.cn[c].asked = @ + 1]

LEMMA AskedGood ==
    ASSUME NEW w, Good(w), NEW c \in Conns
    PROVE  Good(OneAsked(w, c)) /\ Onward(w, OneAsked(w, c))
  <1>0. w \in World /\ w.cn[c] \in Conn /\ Links(w)
    BY WorldIs DEF Good
  <1>1. PICK n \in Nat : n = w.cn[c].asked + 1
    <2>1. PICK old \in Nat : old = w.cn[c].asked
      BY <1>0 DEF Conn
    <2>2. PICK n \in Nat : n = old + 1
      BY ONLY old \in Nat
    <2>. QED
      BY <2>1, <2>2
  <1>2. PICK y : y = [w.cn[c] EXCEPT !.asked = n]
    OBVIOUS
  <1>3. /\ y \in Conn /\ y.up = w.cn[c].up /\ y.hook = w.cn[c].hook /\ y.note = w.cn[c].note
        /\ y.calls = w.cn[c].calls /\ y.told = w.cn[c].told /\ y.tx = w.cn[c].tx
    BY <1>0, <1>2 DEF Conn
  <1>4. OneAsked(w, c) = WithConn(w, c, y)
    BY <1>1, <1>2 DEF OneAsked, WithConn
  <1>5. LinkConn(w, c, y)
    BY <1>0, <1>3 DEF LinkConn, Links
  <1>6. \A j \in Ids : Passes(w, j, c, y)
    BY <1>3 DEF Passes, Settled, Holds
  <1>7. Good(OneAsked(w, c))
    BY <1>3, <1>4, <1>5, <1>6, ToldSame, GoodConn
  <1>8. WithConn(w, c, y).cl = w.cl
    BY ONLY <1>0, <1>3, c \in Conns, ConnIs
  <1>. QED
    BY <1>4, <1>7, <1>8, OnwardSame

----------------------------------------------------------------------------
(* The sender gives up, or leaves.                                         *)
LEMMA RsetGood ==
    ASSUME NEW w, Good(w), NEW c \in Conns, w.cn[c].up, w.cn[c].hook = ""
    PROVE  Good(Reset(Let_go(w, c), c)) /\ Onward(w, Reset(Let_go(w, c), c))
  <1>1. HisOwn(w, c)
    BY NoteIsHis
  <1>2. PICK v : v = Let_go(w, c)
    OBVIOUS
  <1>3. Good(v) /\ v.cn[c].hook = "" /\ Onward(w, v)
    BY <1>1, <1>2, LetGoGood
  <1>g. v \in World
    BY <1>3 DEF Good
  <1>4. Reset(v, c).cl = v.cl
    <2>1. PICK y \in Conn : Reset(v, c) = WithConn(v, c, y)
      BY <1>g, ResetIs
    <2>2. WithConn(v, c, y).cl = v.cl
      BY ONLY <1>g, y \in Conn, c \in Conns, ConnIs
    <2>. QED
      BY <2>1, <2>2
  <1>5. Good(Reset(v, c))
    BY <1>3, ResetGood
  <1>6. Onward(w, Reset(v, c))
    BY <1>3, <1>4 DEF Onward
  <1>. QED
    BY <1>2, <1>5, <1>6

----------------------------------------------------------------------------
(* The commands a sender has pipelined.                                    *)
WithAhead(w, s) == [w EXCEPT !.ahead = s]

LEMMA AheadGood ==
    ASSUME NEW w, Good(w), NEW s \in Seq(Commanded)
    PROVE  Good(WithAhead(w, s)) /\ WithAhead(w, s).cl = w.cl /\ WithAhead(w, s).cn = w.cn
  <1>. PICK v : v = WithAhead(w, s)
    OBVIOUS
  <1>0. /\ w \in World /\ Links(w) /\ Pool(w) /\ Truth(w)
        /\ \A j \in Ids : GoneIs(w, j) /\ Own(w, j)
    BY DEF Good
  <1>1. v \in World
    BY <1>0 DEF World, WithAhead
  <1>2. /\ v.cl = w.cl /\ v.wire = w.wire /\ v.srv = w.srv /\ v.cn = w.cn /\ v.avail = w.avail
        /\ v.waiting = w.waiting /\ v.accepted = w.accepted
    BY <1>0 DEF World, WithAhead
  <1>3. ASSUME NEW j \in Ids
        PROVE  GoneIs(v, j) /\ Own(v, j)
    <2>1. SameClient(w, v, j)
      BY <1>2 DEF SameClient
    <2>2. Own(v, j)
      BY <1>0, <1>2, <2>1, SameOwn
    <2>. QED
      BY <1>0, <1>2, <2>2 DEF GoneIs
  <1>4. Links(v)
    BY <1>0, <1>2, SameLinks
  <1>5. Pool(v) /\ Truth(v)
    BY <1>0, <1>2 DEF Pool, Truth
  <1>. QED
    BY <1>1, <1>2, <1>3, <1>4, <1>5 DEF Good

(* What the connection's checks leave of a command.                        *)
MayRun(w, c, cmd) ==
    /\ cmd \in Commanded /\ w.cn[c].up /\ w.cn[c].hook = ""
    /\ cmd \in {"rcpt", "data", "text"} => w.cn[c].tx # 0

LEMMA ValidIs ==
    ASSUME NEW w, NEW c, NEW cmd \in Commanded, Valid(w, c, cmd)
    PROVE  MayRun(w, c, cmd)
  <1>1. w.cn[c].up /\ w.cn[c].hook = ""
    BY DEF Valid
  <1>2. cmd = "rcpt" => w.cn[c].tx # 0
    BY DEF Valid
  <1>3. cmd = "data" => w.cn[c].tx # 0
    BY DEF Valid
  <1>4. cmd = "text" => w.cn[c].tx # 0
    BY DEF Valid
  <1>. QED
    BY <1>1, <1>2, <1>3, <1>4 DEF MayRun

LEMMA RunGood ==
    ASSUME NEW w, Good(w), NEW c \in Conns, NEW cmd, MayRun(w, c, cmd)
    PROVE  Good(Run(w, c, cmd)) /\ Onward(w, Run(w, c, cmd))
  <1>0. /\ w.cn[c].up /\ w.cn[c].hook = ""
        /\ cmd \in {"rcpt", "data", "text"} => w.cn[c].tx # 0
    BY DEF MayRun
  <1>h. /\ "rcpt_ok" \in Hooks /\ "data" \in Hooks /\ "queue" \in Hooks
        /\ "rcpt_ok" \notin {"", "mail"} /\ "data" \notin {"", "mail"} /\ "queue" \notin {"", "mail"}
    BY DEF Hooks
  <1>1. CASE cmd = "mail"
    <2>1. Run(w, c, cmd) = hook_mail(w, c)
      BY <1>1 DEF Run
    <2>. QED
      BY <1>0, <2>1, MailGood
  <1>2. CASE cmd = "rcpt"
    <2>. PICK v : v = Forwarded(w, c, "rcpt_ok", "rcpt")
      OBVIOUS
    <2>1. Run(w, c, cmd) = OneAsked(v, c)
      BY <1>2 DEF Run, hook_rcpt_ok, OneAsked
    <2>2. Good(v) /\ Onward(w, v)
      BY <1>0, <1>2, <1>h, ForwardedGood, CommandsAre
    <2>3. Good(OneAsked(v, c)) /\ Onward(v, OneAsked(v, c))
      BY <2>2, AskedGood
    <2>. QED
      BY <2>1, <2>2, <2>3, OnwardThrough
  <1>3. CASE cmd = "data"
    <2>1. Run(w, c, cmd) = Forwarded(w, c, "data", "data")
      BY <1>3 DEF Run, hook_data
    <2>. QED
      BY <1>0, <1>3, <1>h, <2>1, ForwardedGood, CommandsAre
  <1>4. CASE cmd = "text" /\ plugin = "proxy"
    <2>1. Run(w, c, cmd) = Forwarded(w, c, "queue", "dot")
      BY <1>4 DEF Run, hook_queue
    <2>. QED
      BY <1>0, <1>4, <1>h, <2>1, ForwardedGood, CommandsAre
  <1>5. CASE cmd = "text" /\ plugin # "proxy"
    <2>1. Run(w, c, cmd) = acquire(Call(w, c, "queue"), Pending(Call(w, c, "queue"), c))
      BY <1>5 DEF Run, hook_queue
    <2>. QED
      BY <1>0, <1>5, <2>1, QueueGood
  <1>6. CASE cmd = "rset"
    <2>1. Run(w, c, cmd) = Reset(Let_go(w, c), c)
      BY <1>6 DEF Run, hook_rset
    <2>. QED
      BY <1>0, <2>1, RsetGood
  <1>7. cmd \in {"mail", "rcpt", "data", "text", "rset"}
    BY DEF MayRun, Commanded
  <1>. QED
    BY <1>1, <1>2, <1>3, <1>4, <1>5, <1>6, <1>7

LEMMA PipelinedGood ==
    ASSUME NEW w, Good(w), NEW c \in Conns
    PROVE  Good(Pipelined(w, c)) /\ Onward(w, Pipelined(w, c))
  <1>1. CASE w.ahead = <<>> \/ w.cn[c].hook # ""
    <2>1. Pipelined(w, c) = w
      BY <1>1 DEF Pipelined
    <2>. QED
      BY <2>1, OnwardSame
  <1>2. CASE ~(w.ahead = <<>> \/ w.cn[c].hook # "")
    <2>1. PICK s \in Seq(Commanded) : s = w.ahead
      BY DEF Good, World
    <2>2. s # <<>>
      BY <1>2, <2>1
    <2>3. Tail(s) \in Seq(Commanded) /\ Head(s) \in Commanded
      BY ONLY <2>2, s \in Seq(Commanded), HeadTailProperties
    <2>4. PICK t \in Seq(Commanded), cmd \in Commanded : t = Tail(s) /\ cmd = Head(s)
      BY <2>3
    <2>5. PICK v : v = WithAhead(w, t)
      OBVIOUS
    <2>6. Good(v) /\ v.cl = w.cl /\ v.cn = w.cn
      BY <2>5, AheadGood
    <2>7. Pipelined(w, c) = IF Valid(w, c, cmd) THEN Run(v, c, cmd) ELSE v
      BY <1>2, <2>1, <2>4, <2>5 DEF Pipelined, WithAhead
    <2>8. CASE Valid(w, c, cmd)
      <3>1. MayRun(v, c, cmd)
        BY <2>6, <2>8, ValidIs DEF MayRun
      <3>2. Good(Run(v, c, cmd)) /\ Onward(v, Run(v, c, cmd))
        BY <2>6, <3>1, RunGood
      <3>. QED
        BY <2>6, <2>7, <2>8, <3>2 DEF Onward
    <2>9. CASE ~Valid(w, c, cmd)
      BY <2>6, <2>7, <2>9, OnwardSame
    <2>. QED
      BY <2>8, <2>9
  <1>. QED
    BY <1>1, <1>2

LEMMA ProcessGood ==
    ASSUME NEW w, Good(w), NEW c \in Conns
    PROVE  Good(process_data(w, c)) /\ Onward(w, process_data(w, c))
  <1>1. PICK u : u = Pipelined(w, c)
    OBVIOUS
  <1>2. Good(u) /\ Onward(w, u)
    BY <1>1, PipelinedGood
  <1>3. PICK v : v = Pipelined(u, c)
    OBVIOUS
  <1>4. Good(v) /\ Onward(u, v)
    BY <1>2, <1>3, PipelinedGood
  <1>5. process_data(w, c) = v
    BY <1>1, <1>3 DEF process_data
  <1>. QED
    BY <1>2, <1>4, <1>5, OnwardThrough

----------------------------------------------------------------------------
(* Answering a hook, and what its sender has pipelined behind it.          *)
LEMMA TweakTweak ==
    ASSUME NEW w \in World, NEW k \in Ids, NEW x \in Client, NEW y \in Client
    PROVE  Tweak(Tweak(w, k, x), k, y) = Tweak(w, k, y)
  <1>. PICK s \in Seq(Line), e \in Envelope : s = w.wire[k] /\ e = w.srv[k]
    BY WorldIs
  <1>. PICK u : u = Put(w, k, x, s, e)
    OBVIOUS
  <1>1. Tweak(w, k, x) = u
    BY PutOne DEF Tweak
  <1>2. u \in World /\ u.wire[k] = s /\ u.srv[k] = e
    BY Put_Is
  <1>3. Tweak(u, k, y) = Put(u, k, y, s, e)
    BY <1>2, PutOne DEF Tweak
  <1>4. Put(u, k, y, s, e) = Put(w, k, y, s, e)
    BY PutPut
  <1>5. Tweak(w, k, y) = Put(w, k, y, s, e)
    BY PutOne DEF Tweak
  <1>. QED
    BY <1>1, <1>3, <1>4, <1>5

LEMMA TweakIs ==
    ASSUME NEW w \in World, NEW k \in Ids, NEW x \in Client
    PROVE  /\ Tweak(w, k, x) \in World /\ Tweak(w, k, x).cl[k] = x
           /\ Tweak(w, k, x).wire = w.wire /\ Tweak(w, k, x).srv = w.srv
           /\ Tweak(w, k, x).cn = w.cn /\ Tweak(w, k, x).accepted = w.accepted
           /\ \A j \in Ids : j # k => Tweak(w, k, x).cl[j] = w.cl[j]
  <1>1. PICK cls \in [Ids -> Client] :
           cls = [w.cl EXCEPT ![k] = x] /\ cls[k] = x
           /\ \A j \in Ids : j # k => cls[j] = w.cl[j]
    <2>. DEFINE g == [w.cl EXCEPT ![k] = x]
    <2>1. g \in [Ids -> Client] /\ g[k] = x /\ \A j \in Ids : j # k => g[j] = w.cl[j]
      BY WorldIs
    <2>. QED
      BY <2>1
  <1>2. PICK v : v = Tweak(w, k, x)
    OBVIOUS
  <1>3. v = [w EXCEPT !.cl = cls]
    BY <1>1, <1>2 DEF Tweak
  <1>4. v \in World /\ v.cl = cls /\ v.wire = w.wire /\ v.srv = w.srv /\ v.cn = w.cn
        /\ v.accepted = w.accepted
    BY ONLY <1>1, <1>3, w \in World DEF World
  <1>. QED
    BY <1>1, <1>2, <1>4

(* A client whose caller is answered before upstream has replied slips.    *)
Early(w, k) == w.cl[k].slipped \/ w.wire[k] # <<>>
Mark(w, k) == [w EXCEPT !.cl[k].slipped = Early(w, k)]

LEMMA MarkIs ==
    ASSUME NEW w \in World, NEW k \in Ids
    PROVE  \E x \in Client :
              /\ Mark(w, k) = Tweak(w, k, x)
              /\ x = [w.cl[k] EXCEPT !.slipped = Early(w, k)]
              /\ x.next = w.cl[k].next /\ x.state = w.cl[k].state /\ x.ears = w.cl[k].ears
              /\ x.slipped = Early(w, k)
  <1>0. w.cl[k] \in Client
    BY WorldIs
  <1>. PICK e \in BOOLEAN : e = Early(w, k)
    BY <1>0 DEF Early, Client
  <1>1. PICK x : x = [w.cl[k] EXCEPT !.slipped = e]
    OBVIOUS
  <1>2. /\ x \in Client /\ x.next = w.cl[k].next /\ x.state = w.cl[k].state
        /\ x.ears = w.cl[k].ears /\ x.slipped = e
    BY <1>0, <1>1 DEF Client
  <1>3. Mark(w, k) = Tweak(w, k, x)
    BY <1>1 DEF Mark, Tweak
  <1>. QED
    BY <1>1, <1>2, <1>3

LEMMA CallNextIs ==
    ASSUME NEW w \in World, NEW k \in Ids, NEW ret
    PROVE  \/ (\A d \in Conns : ~Holds(w, k, d)) /\ call_next(w, k, ret) = Say(w, k, ret)
           \/ \E d \in Conns : /\ Holds(w, k, d)
                               /\ call_next(w, k, ret) = process_data(Say(Mark(w, k), k, ret), d)
  <1>0. w.cl[k] \in Client
    BY WorldIs
  <1>1. CASE w.cl[k].next = <<>>
    BY <1>1 DEF call_next, Say, Holds
  <1>2. CASE w.cl[k].next # <<>>
    <2>1. PICK c \in Conns, id \in Nat : w.cl[k].next = <<c, id>>
      BY <1>0, <1>2 DEF Client, TxId, NoTx
    <2>2. CASE ~Awaits(w, c, id)
      <3>1. ASSUME NEW d \in Conns
            PROVE  ~Holds(w, k, d)
        <4>1. w.cl[k].next = <<d, w.cn[d].calls>> => d = c /\ w.cn[c].calls = id
          BY <2>1
        <4>. QED
          BY ONLY <4>1, <2>2, Zenon DEF Holds, Awaits
      <3>2. PICK u : u = [w EXCEPT !.cl[k].next = <<>>]
        OBVIOUS
      <3>3. call_next(w, k, ret) = u
        BY <1>2, <2>1, <2>2, <3>2 DEF call_next
      <3>4. Say(w, k, ret) = Answer(u, c, id, ret, k)
        BY <1>2, <2>1, <3>2 DEF Say
      <3>5. u.cn = w.cn
        BY <3>2 DEF World
      <3>6. ~Awaits(u, c, id)
        BY <2>2, <3>5 DEF Awaits
      <3>7. Answer(u, c, id, ret, k) = u
        BY <3>6 DEF Answer
      <3>. QED
        BY <3>1, <3>3, <3>4, <3>7
    <2>3. CASE Awaits(w, c, id)
      <3>1. Holds(w, k, c)
        BY <2>1, <2>3 DEF Holds, Awaits
      <3>2. PICK e \in BOOLEAN : e = Early(w, k)
        BY <1>0 DEF Early, Client
      <3>3. PICK x : x = [w.cl[k] EXCEPT !.next = NoTx]
        OBVIOUS
      <3>4. PICK y : y = [x EXCEPT !.slipped = e]
        OBVIOUS
      <3>5. PICK z \in Client :
               /\ Mark(w, k) = Tweak(w, k, z) /\ z = [w.cl[k] EXCEPT !.slipped = e]
               /\ z.next = w.cl[k].next
        BY <3>2, MarkIs
      <3>6. x \in Client /\ y \in Client /\ y = [z EXCEPT !.next = NoTx]
        BY <1>0, <3>3, <3>4, <3>5 DEF Client, TxId
      <3>7. PICK u : u = Tweak(w, k, x)
        OBVIOUS
      <3>8. PICK m : m = Mark(w, k)
        OBVIOUS
      <3>9. u = [w EXCEPT !.cl[k].next = <<>>]
        BY <3>3, <3>7 DEF Tweak, NoTx
      <3>10. u.cl[k] = x /\ m.cl[k] = z
        BY <3>5, <3>6, <3>7, <3>8, TweakIs
      <3>11. [u EXCEPT !.cl[k].slipped = e] = Tweak(u, k, y)
        BY <3>4, <3>10 DEF Tweak
      <3>12. [m EXCEPT !.cl[k].next = <<>>] = Tweak(m, k, y)
        BY <3>6, <3>10 DEF Tweak, NoTx
      <3>13. Tweak(u, k, y) = Tweak(m, k, y)
        BY <3>5, <3>6, <3>7, <3>8, TweakTweak
      <3>14. PICK v : v = Tweak(m, k, y)
        OBVIOUS
      <3>15. call_next(w, k, ret) = process_data(Answer(v, c, id, ret, k), c)
        BY <1>2, <2>1, <2>3, <3>2, <3>9, <3>11, <3>13, <3>14 DEF call_next, Early
      <3>16. m.cl[k].next = <<c, id>>
        BY <2>1, <3>5, <3>10
      <3>17. Say(m, k, ret) = Answer(v, c, id, ret, k)
        BY <3>12, <3>14, <3>16 DEF Say
      <3>. QED
        BY <3>1, <3>8, <3>15, <3>17
    <2>. QED
      BY <2>2, <2>3
  <1>. QED
    BY <1>1, <1>2

LEMMA SayGood ==
    ASSUME NEW w, Good(w), NEW k \in Ids, NEW ret, CanSay(w, k, ret),
           w.cl[k].slipped \/ w.wire[k] = <<>> \/ \A d \in Conns : ~Holds(w, k, d)
    PROVE  Good(Say(w, k, ret)) /\ Onward(w, Say(w, k, ret))
  <1>. PICK v : v = Say(w, k, ret)
    OBVIOUS
  <1>0. Rest(w, k) /\ Own(w, k) /\ w.cl[k] \in Client
    BY GoodIs, RestIs
  <1>1. /\ Rest(v, k)
        /\ v.cl[k] = [w.cl[k] EXCEPT !.next = NoTx]
        /\ v.wire[k] = w.wire[k] /\ v.srv[k] = w.srv[k]
        /\ \A j \in Ids : j # k => v.cl[j] = w.cl[j]
        /\ \A d \in Conns : \/ v.cn[d] = w.cn[d]
                            \/ /\ Holds(w, k, d) /\ v.cn[d].up = w.cn[d].up
                               /\ v.cn[d].note = w.cn[d].note
                               /\ v.cn[d].tx \in {w.cn[d].tx, 0}
    BY <1>0, SayRest
  <1>2. PICK x : x = v.cl[k]
    OBVIOUS
  <1>3. /\ x.state = w.cl[k].state /\ x.slipped = w.cl[k].slipped /\ x.pool = w.cl[k].pool
        /\ x.ears = w.cl[k].ears /\ x.txn = w.cl[k].txn /\ x.command = w.cl[k].command
    BY <1>0, <1>1, <1>2 DEF Client
  <1>4. \A d \in Conns : v.cn[d].up = w.cn[d].up /\ v.cn[d].note = w.cn[d].note
    BY <1>1
  <1>5. Onward(w, v)
    <2>1. Since(w.cl[k], v.cl[k])
      BY <1>2, <1>3, SinceAlike
    <2>2. \A j \in Ids : j # k => v.cl[j] = w.cl[j]
      BY <1>1
    <2>. QED
      BY ONLY <2>1, <2>2, k \in Ids, OnwardOne
  <1>6. CASE w.cl[k].slipped
    <2>1. Own(v, k)
      BY <1>2, <1>3, <1>6 DEF Own
    <2>. QED
      BY <1>1, <1>5, <2>1, GoodIs
  <1>7. CASE ~w.cl[k].slipped
    <2>1. \A ears : LeftOver(w, ears) <=> LeftOver(v, ears)
      BY <1>4 DEF LeftOver
    <2>2. x.state = "RELEASED" => Released(v, k)
      <3>1. Released(w, k) => Released(v, k)
        BY <1>1, <1>2, <1>3, <2>1 DEF Released, OneLine
      <3>. QED
        BY <1>0, <1>3, <1>7, <3>1 DEF Own
    <2>3. x.state = "IDLE" => Resting(v, k)
      BY <1>0, <1>1, <1>2, <1>3, <1>7, <2>1 DEF Own, Resting
    <2>4. ASSUME NEW c \in Conns, Serves(w, k, c)
          PROVE  Serves(v, k, c)
      <3>1. EarsAre(v, x.ears, c)
        BY <1>3, <1>4, <2>4 DEF Serves, EarsAre
      <3>2. v.wire[k] # <<>> => WaitsFor(v, k, c)
        <4>1. SUFFICES ASSUME v.wire[k] # <<>>
                       PROVE  WaitsFor(v, k, c)
          OBVIOUS
        <4>2. ~Holds(w, k, c) /\ WaitsFor(w, k, c)
          BY <1>1, <1>7, <2>4, <4>1 DEF Serves
        <4>3. ~v.cn[c].up
          BY <1>4, <4>2 DEF WaitsFor
        <4>. QED
          BY <4>3 DEF WaitsFor
      <3>. QED
        BY <1>1, <1>2, <1>3, <2>4, <3>1, <3>2 DEF Serves, OneLine
    <2>5. x.state = "ACTIVE" => \E c \in Conns : Serves(v, k, c)
      BY <1>0, <1>3, <1>7, <2>4 DEF Own
    <2>6. ASSUME NEW d \in Conns
          PROVE  InNotes(v, k, d)
      <3>1. InNotes(w, k, d)
        BY <1>0, <1>7 DEF Own
      <3>2. CASE v.cn[d] = w.cn[d]
        <4>1. Settled(v, k, d) => Settled(w, k, d)
          <5>1. \/ x.next = w.cl[k].next
                \/ x.next # <<d, w.cn[d].calls>>
            BY <1>0, <1>1, <1>2 DEF Client, NoTx
          <5>2. Holds(v, k, d) => Holds(w, k, d)
            BY <1>2, <3>2, <5>1 DEF Holds
          <5>. QED
            BY <3>2, <5>2 DEF Settled
        <4>. QED
          BY <1>2, <1>3, <3>1, <3>2, <4>1 DEF InNotes
      <3>3. CASE Holds(w, k, d) /\ v.cn[d].tx \in {w.cn[d].tx, 0}
        <4>1. Settled(w, k, d)
          BY <3>3 DEF Settled
        <4>. QED
          BY <1>2, <1>3, <1>4, <3>1, <3>3, <4>1 DEF InNotes
      <3>. QED
        BY <1>1, <3>2, <3>3
    <2>7. Own(v, k)
      BY <1>2, <2>2, <2>3, <2>5, <2>6 DEF Own
    <2>. QED
      BY <1>1, <1>5, <2>7, GoodIs
  <1>. QED
    BY <1>6, <1>7

LEMMA MarkSlip ==
    ASSUME NEW w, NEW k \in Ids, Rest(w, k), Early(w, k)
    PROVE  /\ Slip(Mark(w, k), k)
           /\ Mark(w, k).cl[k].next = w.cl[k].next /\ Mark(w, k).cl[k].state = w.cl[k].state
           /\ Mark(w, k).cn = w.cn /\ Mark(w, k).accepted = w.accepted
  <1>0. w \in World /\ w.cl[k] \in Client /\ w.wire[k] \in Seq(Line)
        /\ w.srv[k] \in Envelope /\ GoneIs(w, k) /\ Pool(w)
    BY RestIs DEF Rest
  <1>1. PICK x \in Client :
           /\ Mark(w, k) = Tweak(w, k, x) /\ x = [w.cl[k] EXCEPT !.slipped = Early(w, k)]
           /\ x.next = w.cl[k].next /\ x.state = w.cl[k].state /\ x.ears = w.cl[k].ears
           /\ x.slipped = Early(w, k)
    BY <1>0, MarkIs
  <1>. PICK v : v = Mark(w, k)
    OBVIOUS
  <1>2. /\ v.cl[k] = x /\ v.wire = w.wire /\ v.cn = w.cn /\ v.accepted = w.accepted
        /\ \A j \in Ids : j # k => v.cl[j] = w.cl[j]
    <2>1. v = Tweak(w, k, x) /\ x \in Client
      BY <1>1
    <2>2. w \in World
      BY <1>0
    <2>. QED
      BY ONLY <2>1, <2>2, k \in Ids, TweakIs
  <1>3. (Gone(x) => w.wire[k] = <<>> /\ w.srv[k] = Idle) /\ (x.slipped => x.state # "none")
    <2>1. x.state = w.cl[k].state
      BY <1>1
    <2>2. w.cl[k].state # "none"
      BY <1>0 DEF GoneIs, Gone, Early
    <2>. QED
      BY <1>0, <2>1, <2>2 DEF GoneIs, Gone
  <1>4. InPool(w.avail, k) => Pooled(x)
    BY <1>0, <1>1 DEF Pool, Pooled, Gone
  <1>5. v = Put(w, k, x, w.wire[k], w.srv[k])
    BY <1>0, <1>1, PutOne DEF Tweak
  <1>6. Rest(v, k)
    <2>1. x.next \in {NoTx, w.cl[k].next}
      BY <1>1
    <2>2. (Gone(x) => w.wire[k] = <<>> /\ w.srv[k] = Idle) /\ Rest(w, k)
          /\ w.wire[k] \in Seq(Line) /\ w.srv[k] \in Envelope /\ x \in Client
      BY <1>0, <1>3
    <2>3. x.slipped => x.state # "none"
      BY <1>3
    <2>. QED
      BY ONLY <1>4, <1>5, <2>1, <2>2, <2>3, k \in Ids, RestPut
  <1>7. v.cl[k].slipped
    BY <1>1, <1>2
  <1>. QED
    BY <1>1, <1>2, <1>6, <1>7 DEF Slip

LEMMA MarkGood ==
    ASSUME NEW w, Good(w), NEW k \in Ids
    PROVE  /\ Good(Mark(w, k)) /\ Onward(w, Mark(w, k))
           /\ Mark(w, k).cl[k].slipped = Early(w, k)
           /\ Mark(w, k).cl[k].next = w.cl[k].next
           /\ Mark(w, k).wire = w.wire /\ Mark(w, k).cn = w.cn /\ Mark(w, k).accepted = w.accepted
  <1>0. w \in World /\ Rest(w, k) /\ w.cl[k] \in Client /\ w.wire[k] \in Seq(Line)
        /\ w.srv[k] \in Envelope /\ GoneIs(w, k) /\ Pool(w)
    BY GoodIs, RestIs DEF Good
  <1>1. PICK x \in Client :
           /\ Mark(w, k) = Tweak(w, k, x) /\ x = [w.cl[k] EXCEPT !.slipped = Early(w, k)]
           /\ x.next = w.cl[k].next /\ x.state = w.cl[k].state /\ x.ears = w.cl[k].ears
           /\ x.slipped = Early(w, k)
    BY <1>0, MarkIs
  <1>. PICK v : v = Mark(w, k)
    OBVIOUS
  <1>2. /\ v.cl[k] = x /\ v.wire = w.wire /\ v.cn = w.cn /\ v.accepted = w.accepted
        /\ \A j \in Ids : j # k => v.cl[j] = w.cl[j]
    BY <1>0, <1>1, TweakIs
  <1>3. Onward(w, v)
    <2>1. Since(w.cl[k], v.cl[k])
      BY <1>1, <1>2 DEF Since, Early
    <2>. QED
      BY <1>2, <2>1, OnwardOne
  <1>4. Good(v)
    <2>1. CASE Early(w, k)
      BY <1>0, <2>1, MarkSlip, SlipIsGood
    <2>2. CASE ~Early(w, k)
      <3>0. w.cl[k].slipped = FALSE /\ Early(w, k) = FALSE
        BY <1>0, <2>2 DEF Client, Early
      <3>1. x = w.cl[k]
        BY <1>0, <1>1, <3>0 DEF Client
      <3>2. v = [w EXCEPT !.cl = [w.cl EXCEPT ![k] = w.cl[k]]]
        BY <1>1, <3>1 DEF Tweak
      <3>3. [w.cl EXCEPT ![k] = w.cl[k]] = w.cl
        BY <1>0, WorldIs
      <3>4. v = w
        BY <1>0, <3>2, <3>3 DEF World
      <3>. QED
        BY <3>4
    <2>. QED
      BY <2>1, <2>2
  <1>. QED
    BY <1>1, <1>2, <1>3, <1>4

LEMMA CallNextGood ==
    ASSUME NEW w, Good(w), NEW k \in Ids, NEW ret, CanSay(w, k, ret)
    PROVE  Good(call_next(w, k, ret)) /\ Onward(w, call_next(w, k, ret))
  <1>0. w \in World
    BY DEF Good
  <1>1. CASE (\A d \in Conns : ~Holds(w, k, d)) /\ call_next(w, k, ret) = Say(w, k, ret)
    BY <1>1, SayGood
  <1>2. ASSUME NEW d \in Conns, Holds(w, k, d),
               call_next(w, k, ret) = process_data(Say(Mark(w, k), k, ret), d)
        PROVE  Good(call_next(w, k, ret)) /\ Onward(w, call_next(w, k, ret))
    <2>1. PICK m : m = Mark(w, k)
      OBVIOUS
    <2>2. /\ Good(m) /\ Onward(w, m) /\ m.cl[k].slipped = Early(w, k)
          /\ m.cl[k].next = w.cl[k].next
          /\ m.wire = w.wire /\ m.cn = w.cn /\ m.accepted = w.accepted
      BY <2>1, MarkGood
    <2>3. \A c \in Conns : Holds(m, k, c) <=> Holds(w, k, c)
      BY <2>2 DEF Holds
    <2>4. CanSay(m, k, ret)
      <3>1. w.cl[k].slipped => m.cl[k].slipped
        BY <2>2 DEF Early
      <3>. QED
        BY <2>2, <2>3, <3>1 DEF CanSay
    <2>5. m.cl[k].slipped \/ m.wire[k] = <<>>
      BY <2>2 DEF Early
    <2>6. PICK v : v = Say(m, k, ret)
      OBVIOUS
    <2>7. Good(v) /\ Onward(m, v)
      BY <2>2, <2>4, <2>5, <2>6, SayGood
    <2>8. Good(process_data(v, d)) /\ Onward(v, process_data(v, d))
      BY <2>7, ProcessGood
    <2>9. Onward(w, process_data(v, d))
      BY <2>2, <2>7, <2>8, OnwardThrough
    <2>. QED
      BY <1>2, <2>1, <2>6, <2>8, <2>9
  <1>. QED
    BY <1>0, <1>1, <1>2, CallNextIs

LEMMA OffCallNext ==
    ASSUME NEW w, NEW k \in Ids, Off(w, k), NEW ret, CanSay(w, k, ret)
    PROVE  Stays(w, call_next(w, k, ret), k)
  <1>1. PICK v : v = call_next(w, k, ret)
    OBVIOUS
  <1>2. Good(v) /\ Onward(w, v)
    BY <1>1, OffIsGood, CallNextGood
  <1>3. Since(w.cl[k], v.cl[k]) /\ Rest(v, k)
    BY <1>2, GoodIs DEF Onward
  <1>. QED
    BY <1>1, <1>3 DEF Stays, Off, Since

----------------------------------------------------------------------------
(* Releasing a client after its hook was answered.                         *)
Tied(u, k, c) ==
    \/ u.cl[k].slipped \/ u.cl[k].state \in {"RELEASED", "DESTROYED"}
    \/ u.cl[k].state = "ACTIVE" /\ Last(u.cl[k].ears) = c

LEMMA TiedOnward ==
    ASSUME NEW w, NEW v, NEW k \in Ids, NEW c, Tied(w, k, c), Onward(w, v)
    PROVE  Tied(v, k, c)
  BY DEF Tied, Onward, Since

LEMMA TiedIs ==
    ASSUME NEW u, NEW k \in Ids, NEW c, Good(u), Tied(u, k, c)
    PROVE  u.cl[k].state # "none"
  BY DEF Tied, Good, GoneIs

LEMMA ReleasedGood ==
    ASSUME NEW u, Good(u), NEW k \in Ids, NEW c \in Conns, Tied(u, k, c)
    PROVE  /\ Good(Forget(release(u, k), c)) /\ Onward(u, Forget(release(u, k), c))
           /\ Forget(release(u, k), c).cl[k].state # "ACTIVE"
           /\ Forget(release(u, k), c).cl[k].state # "none"
  <1>0. Rest(u, k) /\ Own(u, k) /\ u.cl[k].state # "none"
    BY GoodIs, TiedIs
  <1>. PICK v : v = release(u, k)
    OBVIOUS
  <1>1. Rest(v, k) /\ v.cl[k].state \in {"DESTROYED", "RELEASED"} /\ Onward(u, v)
    BY <1>0, ReleaseRest, OnwardRelease
  <1>2. Forget(v, c).cl = v.cl
    BY <1>1, ForgetRest
  <1>3. Onward(u, Forget(v, c))
    BY <1>1, <1>2 DEF Onward
  <1>4. Good(Forget(v, c))
    <2>1. CASE u.cl[k].slipped \/ u.cl[k].state # "ACTIVE" \/ u.wire[k] # <<>>
      <3>1. Stays(u, v, k)
        BY <1>0, <2>1, ReleaseOff
      <3>. QED
        BY <3>1, OffThenForget, OffIsGood DEF Stays
    <2>2. CASE ~u.cl[k].slipped /\ u.cl[k].state = "ACTIVE" /\ u.wire[k] = <<>>
      <3>1. PICK d \in Conns : Serves(u, k, d)
        BY <1>0, <2>2 DEF Own
      <3>2. d = c
        BY <2>2, <3>1, LastEar DEF Serves, Tied
      <3>3. InHand(u, k, c)
        BY <1>0, <2>2, <3>1, <3>2 DEF InHand, Serves, Own
      <3>. QED
        BY <3>3, HandRelease
    <2>. QED
      BY <2>1, <2>2
  <1>. QED
    BY <1>1, <1>2, <1>3, <1>4

LEMMA ReleasedForward ==
    ASSUME NEW u, Good(u), NEW k \in Ids, u.cl[k].state # "none", plugin # "proxy"
    PROVE  Good(release(u, k))
  <1>0. Rest(u, k) /\ Own(u, k)
    BY GoodIs
  <1>. PICK v : v = release(u, k)
    OBVIOUS
  <1>1. CASE u.cl[k].slipped \/ u.cl[k].state # "ACTIVE" \/ u.wire[k] # <<>>
    <2>1. Stays(u, v, k)
      BY <1>0, <1>1, ReleaseOff
    <2>. QED
      BY <2>1, OffIsGood DEF Stays
  <1>2. CASE ~u.cl[k].slipped /\ u.cl[k].state = "ACTIVE" /\ u.wire[k] = <<>>
    <2>1. PICK d \in Conns : Serves(u, k, d)
      BY <1>0, <1>2 DEF Own
    <2>2. InHand(u, k, d)
      BY <1>0, <1>2, <2>1 DEF InHand, Serves, Own
    <2>3. u.cn[d].note = 0
      BY <1>0 DEF Rest, Links
    <2>. QED
      BY <2>2, <2>3, IdsAre, HandRelease
  <1>. QED
    BY <1>1, <1>2

LEMMA AnsweredReleased ==
    ASSUME NEW w, Good(w), NEW k \in Ids, NEW c \in Conns, Tied(w, k, c),
           NEW ret, CanSay(w, k, ret)
    PROVE  /\ Good(Forget(release(call_next(w, k, ret), k), c))
           /\ Forget(release(call_next(w, k, ret), k), c).cl[k].state \notin {"ACTIVE", "none"}
           /\ plugin # "proxy" => Good(release(call_next(w, k, ret), k))
  <1>. PICK u : u = call_next(w, k, ret)
    OBVIOUS
  <1>1. Good(u) /\ Onward(w, u)
    BY CallNextGood
  <1>2. Tied(u, k, c)
    BY <1>1, TiedOnward
  <1>. QED
    BY <1>1, <1>2, ReleasedGood, ReleasedForward, TiedIs

----------------------------------------------------------------------------
(* The listeners.                                                          *)
OneMore(w, k) == [w EXCEPT !.cl[k].rcpt = @ + 1]

LEMMA OneMoreIs ==
    ASSUME NEW w, NEW k \in Ids, w.cl[k] \in Client
    PROVE  \E x \in Client :
              /\ OneMore(w, k) = Tweak(w, k, x)
              /\ x.state = w.cl[k].state /\ x.slipped = w.cl[k].slipped /\ x.next = w.cl[k].next
              /\ x.txn = w.cl[k].txn /\ x.pool = w.cl[k].pool /\ x.ears = w.cl[k].ears
              /\ x.command = w.cl[k].command /\ x.connected = w.cl[k].connected
  <1>1. PICK n \in Nat : n = w.cl[k].rcpt + 1
    BY DEF Client
  <1>2. PICK x : x = [w.cl[k] EXCEPT !.rcpt = n]
    OBVIOUS
  <1>3. x \in Client
    BY <1>2 DEF Client
  <1>4. /\ x.state = w.cl[k].state /\ x.slipped = w.cl[k].slipped /\ x.next = w.cl[k].next
        /\ x.txn = w.cl[k].txn /\ x.pool = w.cl[k].pool /\ x.ears = w.cl[k].ears
        /\ x.command = w.cl[k].command /\ x.connected = w.cl[k].connected
    BY <1>2 DEF Client
  <1>5. OneMore(w, k) = Tweak(w, k, x)
    BY <1>1, <1>2 DEF OneMore, Tweak
  <1>. QED
    BY <1>3, <1>4, <1>5

LEMMA SendRcptIs ==
    ASSUME NEW w, NEW k, NEW c
    PROVE  \/ Dead(w, c) /\ send_rcpt(w, k, c) = release(w, k)
           \/ ~Dead(w, c) /\ send_rcpt(w, k, c) = send_command(w, k, "data", NoTx)
           \/ ~Dead(w, c) /\ send_rcpt(w, k, c) = send_command(OneMore(w, k), k, "rcpt", w.cl[k].txn)
  <1>1. CASE Dead(w, c)
    BY <1>1 DEF send_rcpt
  <1>2. CASE ~Dead(w, c) /\ w.cl[k].rcpt = NRcpt
    BY <1>2 DEF send_rcpt
  <1>3. CASE ~Dead(w, c) /\ w.cl[k].rcpt # NRcpt
    BY <1>3 DEF send_rcpt, OneMore
  <1>. QED
    BY <1>1, <1>2, <1>3

LEMMA OffSendRcpt ==
    ASSUME NEW w, NEW k \in Ids, Off(w, k), NEW c \in Conns
    PROVE  Stays(w, send_rcpt(w, k, c), k)
  <1>0. w.cl[k] \in Client
    BY RestIs DEF Off
  <1>1. PICK x \in Client :
           /\ OneMore(w, k) = Tweak(w, k, x)
           /\ x.state = w.cl[k].state /\ x.slipped = w.cl[k].slipped /\ x.next = w.cl[k].next
    BY <1>0, OneMoreIs
  <1>2. PICK u : u = OneMore(w, k)
    OBVIOUS
  <1>3. Stays(w, u, k)
    BY <1>1, <1>2, OffTweak
  <1>4. PICK t \in TxId : t = w.cl[k].txn
    BY <1>0 DEF Client
  <1>5. Stays(u, send_command(u, k, "rcpt", t), k)
    BY <1>3, OffSend, CommandsAre DEF Stays
  <1>6. Stays(w, send_command(u, k, "rcpt", t), k)
    BY <1>3, <1>5, StaysThrough
  <1>7. Stays(w, send_command(w, k, "data", NoTx), k)
    BY OffSend, CommandsAre
  <1>. QED
    BY <1>2, <1>4, <1>6, <1>7, OffRelease, SendRcptIs

LEMMA OffForwardDot ==
    ASSUME NEW w, NEW k \in Ids, Off(w, k), NEW c \in Conns, CanSay(w, k, "ok")
    PROVE  Stays(w, forward_dot(w, k, c), k)
  <1>1. Stays(w, release(w, k), k)
    BY OffRelease
  <1>2. Stays(w, send_command(w, k, "rset", NoTx), k)
    BY OffSend, CommandsAre
  <1>3. Stays(w, release(call_next(w, k, "ok"), k), k)
    <2>1. PICK u : u = call_next(w, k, "ok")
      OBVIOUS
    <2>2. Stays(w, u, k)
      BY <2>1, OffCallNext
    <2>3. Stays(u, release(u, k), k)
      BY <2>2, OffRelease DEF Stays
    <2>. QED
      BY <2>1, <2>2, <2>3, StaysThrough
  <1>. QED
    BY <1>1, <1>2, <1>3 DEF forward_dot

LEMMA CanSayNo ==
    ASSUME NEW w, NEW k
    PROVE  CanSay(w, k, "deny") /\ CanSay(w, k, "cont")
  BY DEF CanSay

(* A hook is answered and the client released.                             *)
LEMMA OffAnswered ==
    ASSUME NEW w, NEW k \in Ids, Off(w, k), NEW ret, CanSay(w, k, ret)
    PROVE  Stays(w, release(call_next(w, k, ret), k), k)
  <1>1. PICK u : u = call_next(w, k, ret)
    OBVIOUS
  <1>2. Stays(w, u, k)
    BY <1>1, OffCallNext
  <1>3. Stays(u, release(u, k), k)
    BY <1>2, OffRelease DEF Stays
  <1>. QED
    BY <1>1, <1>2, <1>3, StaysThrough

LEMMA OffForwardEar ==
    ASSUME NEW w, NEW k \in Ids, Off(w, k), NEW c \in Conns, NEW ev, NEW code,
           ev = "dot" => CanSay(w, k, "ok")
    PROVE  Stays(w, forward_ear(w, k, c, ev, code), k)
  <1>0. PICK t \in TxId : t = w.cl[k].txn
    BY RestIs DEF Client, Off
  <1>1. CASE ev = "mail"
    BY <1>1, OffSendRcpt DEF forward_ear
  <1>2. CASE ev = "rcpt"
    <2>1. Stays(w, send_command(w, k, "data", NoTx), k)
      BY OffSend, CommandsAre
    <2>2. Stays(w, send_rcpt(w, k, c), k)
      BY OffSendRcpt
    <2>. QED
      BY <1>2, <2>1, <2>2 DEF forward_ear
  <1>3. CASE ev = "dot"
    <2>1. Stays(w, forward_dot(w, k, c), k)
      BY <1>3, OffForwardDot
    <2>. QED
      BY <1>3, <2>1 DEF forward_ear
  <1>4. CASE ev \in {"data", "rset", "bad_code"} /\ Dead(w, c)
    <2>1. forward_ear(w, k, c, ev, code) = release(w, k)
      BY <1>4 DEF forward_ear
    <2>. QED
      BY <2>1, OffRelease
  <1>5. CASE ev = "data" /\ ~Dead(w, c)
    <2>1. forward_ear(w, k, c, ev, code) = start_data(w, k, t)
      BY <1>0, <1>5 DEF forward_ear
    <2>. QED
      BY <2>1, OffStart
  <1>6. CASE ev = "rset" /\ ~Dead(w, c)
    <2>1. forward_ear(w, k, c, ev, code) = send_command(w, k, "mail", t)
      BY <1>0, <1>6 DEF forward_ear
    <2>. QED
      BY <2>1, OffSend, CommandsAre
  <1>7. CASE ev = "bad_code" /\ ~Dead(w, c)
    <2>1. forward_ear(w, k, c, ev, code) = release(call_next(w, k, "deny"), k)
      BY <1>7 DEF forward_ear
    <2>. QED
      BY <2>1, OffAnswered, CanSayNo
  <1>8. CASE ev \notin {"mail", "rcpt", "dot", "data", "rset", "bad_code"}
    <2>1. forward_ear(w, k, c, ev, code) = w
      BY <1>8 DEF forward_ear
    <2>. QED
      BY <2>1, StaysSame
  <1>. QED
    BY <1>1, <1>2, <1>3, <1>4, <1>5, <1>6, <1>7, <1>8

LEMMA OffProxyEar ==
    ASSUME NEW w, NEW k \in Ids, Off(w, k), NEW c \in Conns, NEW ev, NEW code,
           ev = "dot" => CanSay(w, k, "ok")
    PROVE  Stays(w, proxy_ear(w, k, c, ev, code), k)
  <1>1. CASE ev \in {"mail", "rcpt", "data"}
    <2>1. proxy_ear(w, k, c, ev, code) = call_next(w, k, "cont")
      BY <1>1 DEF proxy_ear
    <2>. QED
      BY <2>1, OffCallNext, CanSayNo
  <1>2. CASE ev = "dot" /\ Dead(w, c)
    <2>1. proxy_ear(w, k, c, ev, code) = Forget(release(w, k), c)
      BY <1>2 DEF proxy_ear
    <2>. QED
      BY <2>1, OffRelease, OffThenForget
  <1>3. CASE ev = "dot" /\ ~Dead(w, c)
    <2>1. proxy_ear(w, k, c, ev, code) = Forget(release(call_next(w, k, "ok"), k), c)
      BY <1>3 DEF proxy_ear
    <2>. QED
      BY <1>3, <2>1, OffAnswered, OffThenForget
  <1>4. CASE ev = "bad_code"
    <2>1. PICK u : u = call_next(w, k, "deny")
      OBVIOUS
    <2>2. proxy_ear(w, k, c, ev, code) = IF u.cl[k].command = "rcpt" THEN u ELSE Forget(release(u, k), c)
      BY <1>4, <2>1 DEF proxy_ear
    <2>3. Stays(w, u, k)
      BY <2>1, OffCallNext, CanSayNo
    <2>4. Stays(w, Forget(release(u, k), c), k)
      BY <2>1, OffAnswered, OffThenForget, CanSayNo
    <2>. QED
      BY <2>2, <2>3, <2>4
  <1>6. CASE ev \notin {"mail", "rcpt", "data", "dot", "bad_code"}
    <2>1. proxy_ear(w, k, c, ev, code) = w
      BY <1>6 DEF proxy_ear
    <2>. QED
      BY <2>1, StaysSame
  <1>. QED
    BY <1>1, <1>2, <1>3, <1>4, <1>6

LEMMA OffEar ==
    ASSUME NEW w, NEW k \in Ids, Off(w, k), NEW c \in Conns, NEW ev, NEW code,
           ev = "dot" => CanSay(w, k, "ok")
    PROVE  Stays(w, Ear(w, k, c, ev, code), k)
  <1>1. CASE plugin = "proxy"
    BY <1>1, OffProxyEar DEF Ear
  <1>2. CASE plugin # "proxy"
    BY <1>2, OffForwardEar DEF Ear
  <1>. QED
    BY <1>1, <1>2

----------------------------------------------------------------------------
(* Every listener in turn.                                                 *)
IsHeard(f, n, u, k, ears, ev, code) ==
    f = [i \in 0..n |-> IF i = 0 THEN u ELSE Ear(f[i - 1], k, ears[i], ev, code)]

Heard(u, k, ears, ev, code) == CHOOSE f : IsHeard(f, Len(ears), u, k, ears, ev, code)

LEMMA ListenersIs ==
    ASSUME NEW u, NEW k, NEW ears, NEW ev, NEW code
    PROVE  Listeners(u, k, ears, ev, code) = Heard(u, k, ears, ev, code)[Len(ears)]
  BY DEF Listeners, Heard, IsHeard

LEMMA SomeHeard ==
    ASSUME NEW u, NEW k, NEW ears, NEW ev, NEW code, NEW n \in Nat
    PROVE  \E f : IsHeard(f, n, u, k, ears, ev, code)
  <1>. DEFINE S == {m \in Nat : \A f : ~IsHeard(f, m, u, k, ears, ev, code)}
  <1>1. SUFFICES ASSUME n \in S
                 PROVE  FALSE
    OBVIOUS
  <1>2. PICK x \in S : \A y \in S : ~ (<<y, x>> \in OpToRel(<, Nat))
    <2>. HIDE DEF S
    <2>1. S \subseteq Nat /\ S # {}
      BY <1>1 DEF S
    <2>. QED
      BY <2>1, NatLessThanWellFounded, WFMin
  <1>3. x \in Nat /\ \A f : ~IsHeard(f, x, u, k, ears, ev, code)
    OBVIOUS
  <1>4. CASE x = 0
    <2>1. PICK f : f = [i \in 0..0 |-> u]
      OBVIOUS
    <2>2. \A i \in 0..0 : i = 0
      OBVIOUS
    <2>3. f = [i \in 0..0 |-> IF i = 0 THEN u ELSE Ear(f[i - 1], k, ears[i], ev, code)]
      BY <2>1, <2>2
    <2>. QED
      BY <1>3, <1>4, <2>3 DEF IsHeard
  <1>5. CASE x # 0
    <2>1. PICK y \in Nat : y = x - 1
      BY <1>3, <1>5
    <2>2. y < x /\ y \in Nat /\ x \in Nat
      BY <1>3, <2>1
    <2>3. y \notin S
      BY <1>2, <2>2 DEF OpToRel
    <2>4. PICK f : IsHeard(f, y, u, k, ears, ev, code)
      BY <2>2, <2>3
    <2>5. /\ f[0] = u
          /\ \A i \in 0..y : i # 0 => f[i] = Ear(f[i - 1], k, ears[i], ev, code)
      <3>1. f = [i \in 0..y |-> IF i = 0 THEN u ELSE Ear(f[i - 1], k, ears[i], ev, code)]
        BY <2>4 DEF IsHeard
      <3>2. 0 \in 0..y
        BY <2>2
      <3>. QED
        BY <3>1, <3>2
    <2>6. PICK g : g = [i \in 0..x |-> IF i = x THEN Ear(f[y], k, ears[x], ev, code) ELSE f[i]]
      OBVIOUS
    <2>7. ASSUME NEW i \in 0..x
          PROVE  g[i] = IF i = 0 THEN u ELSE Ear(g[i - 1], k, ears[i], ev, code)
      <3>1. CASE i = 0
        BY <1>5, <2>5, <2>6, <3>1
      <3>2. CASE i # 0 /\ i = x
        <4>1. y \in 0..x /\ y # x
          BY <2>1, <2>2
        <4>2. g[y] = f[y]
          BY <2>6, <4>1
        <4>. QED
          BY <2>1, <2>6, <3>2, <4>2
      <3>3. CASE i # 0 /\ i # x
        <4>1. i \in 0..y /\ (i - 1) \in 0..x /\ i - 1 # x
          BY <2>1, <2>2, <3>3
        <4>2. g[i] = f[i] /\ g[i - 1] = f[i - 1]
          BY <2>6, <3>3, <4>1
        <4>3. f[i] = Ear(f[i - 1], k, ears[i], ev, code)
          BY <2>5, <3>3, <4>1
        <4>. QED
          BY <3>3, <4>2, <4>3
      <3>. QED
        BY <3>1, <3>2, <3>3
    <2>8. IsHeard(g, x, u, k, ears, ev, code)
      <3>. DEFINE e(i) == IF i = 0 THEN u ELSE Ear(g[i - 1], k, ears[i], ev, code)
      <3>1. \A i \in 0..x : g[i] = e(i)
        BY <2>7
      <3>. HIDE DEF e
      <3>2. g = [i \in 0..x |-> e(i)]
        BY <2>6, <3>1
      <3>. QED
        BY <3>2 DEF IsHeard, e
    <2>. QED
      BY <1>3, <2>8
  <1>. QED
    BY <1>4, <1>5

LEMMA HeardIs ==
    ASSUME NEW u, NEW k, NEW ears \in Seq(Conns), NEW ev, NEW code
    PROVE  \E f : /\ Listeners(u, k, ears, ev, code) = f[Len(ears)]
                  /\ f[0] = u
                  /\ \A i \in 1..Len(ears) : f[i] = Ear(f[i - 1], k, ears[i], ev, code)
  <1>1. PICK n \in Nat : n = Len(ears)
    OBVIOUS
  <1>2. PICK f : f = Heard(u, k, ears, ev, code)
    OBVIOUS
  <1>3. IsHeard(f, n, u, k, ears, ev, code)
    <2>1. \E g : IsHeard(g, n, u, k, ears, ev, code)
      BY SomeHeard
    <2>. QED
      BY <1>1, <1>2, <2>1 DEF Heard
  <1>4. f = [i \in 0..n |-> IF i = 0 THEN u ELSE Ear(f[i - 1], k, ears[i], ev, code)]
    BY <1>3 DEF IsHeard
  <1>5. f[0] = u
    <2>1. 0 \in 0..n
      OBVIOUS
    <2>. QED
      BY <1>4, <2>1
  <1>6. \A i \in 1..n : f[i] = Ear(f[i - 1], k, ears[i], ev, code)
    <2>1. \A i \in 1..n : i \in 0..n /\ i # 0
      OBVIOUS
    <2>. QED
      BY <1>4, <2>1
  <1>7. Listeners(u, k, ears, ev, code) = f[n]
    BY <1>1, <1>2, ListenersIs
  <1>. QED
    BY <1>1, <1>5, <1>6, <1>7

LEMMA SlipOff ==
    ASSUME NEW w, NEW k \in Ids
    PROVE  /\ Slip(w, k) => Off(w, k)
           /\ \A v : Slip(w, k) /\ Stays(w, v, k) => Slip(v, k)
  <1>1. Slip(w, k) => w.cl[k].state # "none"
    BY RestIs DEF Slip, GoneIs
  <1>. QED
    BY <1>1 DEF Slip, Off, Stays

LEMMA SlipEar ==
    ASSUME NEW w, NEW k \in Ids, Slip(w, k), NEW c \in Conns, NEW ev, NEW code
    PROVE  Slip(Ear(w, k, c, ev, code), k)
  <1>1. CanSay(w, k, "ok")
    BY DEF CanSay, Slip
  <1>2. Stays(w, Ear(w, k, c, ev, code), k)
    BY <1>1, SlipOff, OffEar
  <1>. QED
    BY <1>2, SlipOff

LEMMA SlipListeners ==
    ASSUME NEW u, NEW k \in Ids, Slip(u, k), NEW ears \in Seq(Conns), NEW ev, NEW code
    PROVE  Slip(Listeners(u, k, ears, ev, code), k)
  <1>1. PICK n \in Nat : n = Len(ears)
    OBVIOUS
  <1>2. PICK f : /\ Listeners(u, k, ears, ev, code) = f[n]
                 /\ f[0] = u
                 /\ \A i \in 1..n : f[i] = Ear(f[i - 1], k, ears[i], ev, code)
    BY <1>1, HeardIs
  <1>. DEFINE S == {m \in Nat : m <= n /\ ~Slip(f[m], k)}
  <1>3. SUFFICES ASSUME n \in S
                 PROVE  FALSE
    BY <1>2
  <1>4. PICK x \in S : \A y \in S : ~ (<<y, x>> \in OpToRel(<, Nat))
    <2>. HIDE DEF S
    <2>1. S \subseteq Nat /\ S # {}
      BY <1>3 DEF S
    <2>. QED
      BY <2>1, NatLessThanWellFounded, WFMin
  <1>5. x \in Nat /\ x <= n /\ ~Slip(f[x], k)
    OBVIOUS
  <1>6. x # 0
    BY <1>2, <1>5
  <1>7. PICK y \in Nat : y = x - 1
    BY <1>5, <1>6
  <1>8. y < x /\ y <= n /\ y \in Nat /\ x \in Nat /\ x \in 1..n
    BY <1>5, <1>6, <1>7
  <1>9. y \notin S
    BY <1>4, <1>8 DEF OpToRel
  <1>10. Slip(f[y], k)
    BY <1>8, <1>9
  <1>11. f[x] = Ear(f[y], k, ears[x], ev, code)
    BY <1>2, <1>7, <1>8
  <1>12. ears[x] \in Conns
    BY <1>1, <1>8
  <1>13. Slip(f[x], k)
    BY <1>10, <1>11, <1>12, SlipEar
  <1>. QED
    BY <1>5, <1>13

LEMMA SlipPoolEar ==
    ASSUME NEW w, NEW k \in Ids, Slip(w, k), NEW ev
    PROVE  Slip(pool_ear(w, k, ev), k)
  <1>0. Rest(w, k) /\ w.cl[k].slipped /\ w.cl[k].state # "none" /\ w \in World
        /\ w.cl[k] \in Client /\ w.wire[k] \in Seq(Line) /\ w.srv[k] \in Envelope
    BY RestIs DEF Slip, GoneIs
  <1>1. CASE w.cl[k].state = "DESTROYED"
    BY <1>1 DEF pool_ear
  <1>2. CASE w.cl[k].state # "DESTROYED" /\ ev = "rset"
    <2>. PICK off \in BOOLEAN : off = FALSE
      OBVIOUS
    <2>1. PICK x : x = [w.cl[k] EXCEPT !.state = "IDLE", !.pool = off]
      OBVIOUS
    <2>2. /\ x \in Client /\ x.next = w.cl[k].next /\ x.state = "IDLE"
          /\ x.slipped = w.cl[k].slipped
      BY <1>0, <2>1 DEF Client
    <2>3. PICK v : v = Put(w, k, x, w.wire[k], w.srv[k])
      OBVIOUS
    <2>4. ~Gone(x) /\ Pooled(x)
      BY <1>0, <2>2 DEF Gone, Pooled
    <2>5. Rest(v, k)
      BY <1>0, <2>2, <2>3, <2>4, RestPut
    <2>6. v.cl[k] = x
      BY <1>0, <2>2, <2>3, Put_Is
    <2>7. v = [w EXCEPT !.cl[k] = x]
      BY <1>0, <2>2, <2>3, PutOne
    <2>8. pool_ear(w, k, ev) = pool_release(v, k)
      BY <1>2, <2>1, <2>7 DEF pool_ear
    <2>9. Slip(v, k)
      BY <1>0, <2>2, <2>5, <2>6 DEF Slip
    <2>. QED
      BY <2>4, <2>6, <2>8, <2>9, PoolReleaseSlip
  <1>3. CASE w.cl[k].state # "DESTROYED" /\ ev = "bad_code"
    <2>1. pool_ear(w, k, ev) = destroy(w, k)
      BY <1>3 DEF pool_ear
    <2>. QED
      BY <1>0, <2>1, DestroyIs DEF Slip
  <1>4. CASE w.cl[k].state # "DESTROYED" /\ ev \notin {"rset", "bad_code"}
    BY <1>4 DEF pool_ear
  <1>. QED
    BY <1>1, <1>2, <1>3, <1>4

LEMMA SlipHelo ==
    ASSUME NEW w, NEW k \in Ids, Slip(w, k), NEW c \in Conns
    PROVE  Slip(helo(w, k, c), k)
  <1>1. Rest(w, k) /\ w.cl[k].slipped /\ w.cl[k].state # "none"
    BY RestIs DEF Slip, GoneIs
  <1>. QED
    BY <1>1, HeloRest DEF Slip, Kept

LEMMA SlipEmit ==
    ASSUME NEW w, NEW k \in Ids, Slip(w, k), NEW ev, NEW code
    PROVE  Slip(emit(w, k, ev, code), k)
  <1>1. PICK ears \in Seq(Conns) : ears = w.cl[k].ears
    BY RestIs DEF Slip, Client
  <1>2. PICK u : u = IF w.cl[k].pool THEN pool_ear(w, k, ev) ELSE w
    OBVIOUS
  <1>3. Slip(u, k)
    BY <1>2, SlipPoolEar
  <1>4. CASE ears = <<>>
    BY <1>1, <1>2, <1>3, <1>4 DEF emit
  <1>5. CASE ears # <<>> /\ ev = "helo"
    <2>1. emit(w, k, ev, code) = helo(u, k, Last(ears))
      BY <1>1, <1>2, <1>5 DEF emit
    <2>. QED
      BY <1>3, <1>5, <2>1, LastIs, SlipHelo
  <1>6. CASE ears # <<>> /\ ev = "bad_code"
    <2>1. PICK d \in Conns : d = Last(ears)
      BY <1>6, LastIs
    <2>2. emit(w, k, ev, code) = Listeners(u, k, <<d>>, ev, code)
      BY <1>1, <1>2, <1>6, <2>1 DEF emit
    <2>3. <<d>> \in Seq(Conns)
      OBVIOUS
    <2>. QED
      BY <1>3, <2>2, <2>3, SlipListeners
  <1>7. CASE ears # <<>> /\ ev \notin {"helo", "bad_code"}
    <2>1. emit(w, k, ev, code) = Listeners(u, k, ears, ev, code)
      BY <1>1, <1>2, <1>7 DEF emit
    <2>. QED
      BY <1>3, <2>1, SlipListeners
  <1>. QED
    BY <1>4, <1>5, <1>6, <1>7

----------------------------------------------------------------------------
(* The switch on the command.                                              *)
Switched(w, k, x, code, v) ==
    \/ \E cmd \in Commands : /\ cmd \notin {"mail", "rcpt", "dot"}
                             /\ v = send_command(Tweak(w, k, x), k, cmd, NoTx)
    \/ v = emit(Tweak(w, k, x), k, "helo", code)
    \/ w.cl[k].command # "helo" /\ v = emit(Tweak(w, k, x), k, w.cl[k].command, code)

LEMMA SameTweak ==
    ASSUME NEW w \in World, NEW k \in Ids
    PROVE  Tweak(w, k, w.cl[k]) = w
  <1>1. w.cl \in [Ids -> Client]
    BY WorldIs
  <1>2. [w.cl EXCEPT ![k] = w.cl[k]] = w.cl
    BY <1>1
  <1>3. Tweak(w, k, w.cl[k]) = [w EXCEPT !.cl = w.cl]
    BY <1>2 DEF Tweak
  <1>. QED
    BY <1>3 DEF World

LEMMA SwitchIs ==
    ASSUME NEW w \in World, NEW k \in Ids, NEW code, NEW cap
    PROVE  \E x \in Client : /\ Alike(x, w.cl[k])
                             /\ Switched(w, k, x, code, switch(w, k, code, cap))
  <1>. PICK v : v = switch(w, k, code, cap)
    OBVIOUS
  <1>. PICK cmd : cmd = w.cl[k].command
    OBVIOUS
  <1>0. w.cl[k] \in Client
    BY WorldIs
  <1>. PICK y \in Client : y = w.cl[k]
    BY <1>0
  <1>1. Tweak(w, k, y) = w /\ Alike(y, y)
    BY SameTweak DEF Alike
  <1>. PICK on \in BOOLEAN : on = TRUE
    OBVIOUS
  <1>2. CASE cmd = "greeting"
    <2>1. PICK x : x = [y EXCEPT !.connected = on]
      OBVIOUS
    <2>2. x \in Client /\ Alike(x, y)
      BY <2>1 DEF Client, Alike
    <2>3. v = send_command(Tweak(w, k, x), k, "ehlo", NoTx)
      BY <1>2, <2>1 DEF switch, Tweak
    <2>. QED
      BY <2>2, <2>3, CommandsAre DEF Switched
  <1>3. CASE cmd = "ehlo" /\ cap = "XCLIENT"
    <2>1. v = send_command(w, k, "xclient", NoTx)
      BY <1>3 DEF switch
    <2>. QED
      BY <1>1, <2>1, CommandsAre DEF Switched
  <1>4. CASE cmd = "ehlo" /\ cap = "STARTTLS"
    <2>1. v = send_command(w, k, "starttls", NoTx)
      BY <1>4 DEF switch
    <2>. QED
      BY <1>1, <2>1, CommandsAre DEF Switched
  <1>5. CASE cmd = "xclient"
    <2>1. PICK x : x = [y EXCEPT !.xclient = on]
      OBVIOUS
    <2>2. x \in Client /\ Alike(x, y)
      BY <2>1 DEF Client, Alike
    <2>3. v = send_command(Tweak(w, k, x), k, "ehlo", NoTx)
      BY <1>5, <2>1 DEF switch, Tweak
    <2>. QED
      BY <2>2, <2>3, CommandsAre DEF Switched
  <1>6. CASE cmd = "starttls"
    <2>1. PICK x : x = [y EXCEPT !.tls = on]
      OBVIOUS
    <2>2. x \in Client /\ Alike(x, y)
      BY <2>1 DEF Client, Alike
    <2>3. v = send_command(Tweak(w, k, x), k, "ehlo", NoTx)
      BY <1>6, <2>1 DEF switch, Tweak
    <2>. QED
      BY <2>2, <2>3, CommandsAre DEF Switched
  <1>7. CASE cmd = "helo" \/ (cmd = "ehlo" /\ cap \notin {"XCLIENT", "STARTTLS"})
    <2>1. v = emit(w, k, "helo", code)
      BY <1>7 DEF switch
    <2>. QED
      BY <1>1, <2>1 DEF Switched
  <1>8. CASE cmd = "auth"
    <2>1. PICK x : x = [y EXCEPT !.authenticated = on]
      OBVIOUS
    <2>2. x \in Client /\ Alike(x, y)
      BY <2>1 DEF Client, Alike
    <2>3. v = emit(Tweak(w, k, x), k, "helo", code)
      BY <1>8, <2>1 DEF switch, Tweak
    <2>. QED
      BY <2>2, <2>3 DEF Switched
  <1>9. CASE cmd \notin {"greeting", "xclient", "starttls", "ehlo", "helo", "auth"}
    <2>1. v = emit(w, k, cmd, code)
      BY <1>9 DEF switch
    <2>. QED
      BY <1>1, <1>9, <2>1 DEF Switched
  <1>. QED
    BY <1>2, <1>3, <1>4, <1>5, <1>6, <1>7, <1>8, <1>9

LEMMA SlipSend ==
    ASSUME NEW w, NEW k \in Ids, Slip(w, k), NEW cmd \in Commands, NEW tx \in TxId
    PROVE  Slip(send_command(w, k, cmd, tx), k)
  BY SlipOff, OffSend

LEMMA SlipTweak ==
    ASSUME NEW w, NEW k \in Ids, Slip(w, k), NEW x \in Client, Alike(x, w.cl[k])
    PROVE  Slip(Tweak(w, k, x), k)
  BY SlipOff, OffTweak DEF Alike

LEMMA SlipSwitch ==
    ASSUME NEW w, NEW k \in Ids, Slip(w, k), NEW code, NEW cap
    PROVE  Slip(switch(w, k, code, cap), k)
  <1>. PICK v : v = switch(w, k, code, cap)
    OBVIOUS
  <1>1. PICK x \in Client : Alike(x, w.cl[k]) /\ Switched(w, k, x, code, v)
    BY SwitchIs DEF Slip, Rest
  <1>2. PICK u : u = Tweak(w, k, x)
    OBVIOUS
  <1>3. Slip(u, k)
    BY <1>1, <1>2, SlipTweak
  <1>4. CASE \E cmd \in Commands : v = send_command(u, k, cmd, NoTx)
    BY <1>3, <1>4, SlipSend, CommandsAre
  <1>5. CASE v = emit(u, k, "helo", code) \/ v = emit(u, k, w.cl[k].command, code)
    BY <1>3, <1>5, SlipEmit
  <1>. QED
    BY <1>1, <1>2, <1>4, <1>5 DEF Switched

(* A line that is no reply destroys the client.                            *)
LEMMA JunkGood ==
    ASSUME NEW w, Good(w), NEW k \in Ids, w.cl[k].state # "none", w.cl[k].ears # <<>>
    PROVE  Good(junk(w, k))
  <1>0. w.cl[k] \in Client
    BY GoodIs, RestIs
  <1>1. PICK e \in Conns : e = Last(w.cl[k].ears)
    BY <1>0, LastIs DEF Client
  <1>2. PICK u : u = call_next(w, k, "cont")
    OBVIOUS
  <1>3. Good(u) /\ Onward(w, u)
    BY <1>2, CanSayNo, CallNextGood
  <1>4. Rest(u, k) /\ u.cl[k].state # "none"
    BY <1>3, GoodIs DEF Onward, Since
  <1>5. Rest(Forget(u, e), k) /\ Forget(u, e).cl = u.cl
    BY <1>4, ForgetRest
  <1>6. PICK v : v = IF plugin = "proxy" THEN Forget(u, e) ELSE u
    OBVIOUS
  <1>7. Rest(v, k) /\ v.cl[k].state # "none"
    BY <1>4, <1>5, <1>6
  <1>8. junk(w, k) = destroy(v, k)
    BY <1>1, <1>2, <1>6 DEF junk
  <1>. QED
    BY <1>7, <1>8, DestroyIs

(* A reply.                                                                *)
Renamed(w, k, x, code, cap, v) ==
    \/ v = send_command(w, k, "helo", NoTx)
    \/ v = emit(Tweak(w, k, x), k, "helo", code)
    \/ code = "2xx" /\ v = switch(w, k, code, cap)
    \/ /\ emit(w, k, "bad_code", code).cl[k].state # "ACTIVE"
       /\ v = emit(w, k, "bad_code", code)
    \/ /\ emit(w, k, "bad_code", code).cl[k].state = "ACTIVE"
       /\ v = switch(emit(w, k, "bad_code", code), k, code, cap)

LEMMA LineIs ==
    ASSUME NEW w \in World, NEW k \in Ids, NEW code, NEW cap
    PROVE  \E x \in Client :
              /\ Alike(x, w.cl[k]) /\ x.command = "helo"
              /\ Renamed(w, k, x, code, cap, on_line(w, k, code, cap))
  <1>. PICK v : v = on_line(w, k, code, cap)
    OBVIOUS
  <1>. PICK cmd : cmd = w.cl[k].command
    OBVIOUS
  <1>0. w.cl[k] \in Client
    BY WorldIs
  <1>. PICK y \in Client : y = w.cl[k]
    BY <1>0
  <1>. PICK helo_ \in Commands : helo_ = "helo"
    BY CommandsAre
  <1>1. PICK x : x = [y EXCEPT !.command = helo_]
    OBVIOUS
  <1>2. x \in Client /\ Alike(x, y) /\ x.command = "helo"
    BY <1>1 DEF Client, Alike
  <1>3. CASE cmd = "ehlo" /\ code = "5xx"
    <2>1. v = send_command(w, k, "helo", NoTx)
      BY <1>3 DEF on_line
    <2>. QED
      BY <1>2, <1>3, <2>1 DEF Renamed
  <1>4. CASE cmd = "xclient" /\ code = "5xx"
    <2>1. v = emit(Tweak(w, k, x), k, "helo", code)
      BY <1>1, <1>4 DEF on_line, Tweak
    <2>. QED
      BY <1>2, <1>4, <2>1 DEF Renamed
  <1>5. CASE code = "2xx"
    <2>1. v = switch(w, k, code, cap)
      BY <1>5 DEF on_line
    <2>. QED
      BY <1>2, <1>5, <2>1 DEF Renamed
  <1>6. CASE code # "2xx" /\ (cmd \in {"ehlo", "xclient"} => code # "5xx")
    <2>1. PICK u : u = emit(w, k, "bad_code", code)
      OBVIOUS
    <2>2. v = IF u.cl[k].state = "ACTIVE" THEN switch(u, k, code, cap) ELSE u
      BY <1>6, <2>1 DEF on_line, bad_code
    <2>. QED
      BY <1>2, <2>1, <2>2 DEF Renamed
  <1>. QED
    BY <1>3, <1>4, <1>5, <1>6

LEMMA SlipLine ==
    ASSUME NEW w, NEW k \in Ids, Slip(w, k), NEW code, NEW cap
    PROVE  Slip(on_line(w, k, code, cap), k)
  <1>. PICK v : v = on_line(w, k, code, cap)
    OBVIOUS
  <1>1. PICK x \in Client : Alike(x, w.cl[k]) /\ Renamed(w, k, x, code, cap, v)
    BY LineIs DEF Slip, Rest
  <1>2. PICK u : u = emit(w, k, "bad_code", code)
    OBVIOUS
  <1>3. Slip(u, k) /\ Slip(switch(u, k, code, cap), k)
    BY <1>2, SlipEmit, SlipSwitch
  <1>4. Slip(send_command(w, k, "helo", NoTx), k)
    BY SlipSend, CommandsAre
  <1>5. Slip(emit(Tweak(w, k, x), k, "helo", code), k)
    BY <1>1, SlipTweak, SlipEmit
  <1>6. Slip(switch(w, k, code, cap), k)
    BY SlipSwitch
  <1>. QED
    BY <1>1, <1>2, <1>3, <1>4, <1>5, <1>6 DEF Renamed

----------------------------------------------------------------------------
(* The listeners of a client whose reply has come.                         *)
At(w, k, c) == InHand(w, k, c) /\ WaitsFor(w, k, c)

(* Upstream has taken the message, and its text is over.                   *)
Taken(w, k) == ~w.srv[k].body /\ \E m \in w.accepted : m.body = w.cl[k].txn

LEMMA AtDead ==
    ASSUME NEW w, NEW k \in Ids, NEW c \in Conns, At(w, k, c)
    PROVE  /\ Dead(w, c) => ~w.cn[c].up
           /\ ~Dead(w, c) => w.cn[c].up
  <1>1. ~w.cn[c].up => w.cn[c].tx = 0
    BY DEF At, InHand, Rest, Links
  <1>. QED
    BY <1>1 DEF At, WaitsFor, Dead

LEMMA HandCanSay ==
    ASSUME NEW w, NEW k \in Ids, NEW c \in Conns, At(w, k, c), ~Dead(w, c), Taken(w, k)
    PROVE  CanSay(w, k, "ok")
  <1>1. w.cl[k].next = <<c, w.cn[c].calls>> /\ w.cl[k].txn = <<c, w.cn[c].tx>>
    BY AtDead DEF At, WaitsFor, Holds
  <1>2. ASSUME NEW d \in Conns, Holds(w, k, d)
        PROVE  d = c
    <2>1. <<d, w.cn[d].calls>> = <<c, w.cn[c].calls>>
      BY <1>1, <1>2 DEF Holds
    <2>. QED
      BY ONLY <2>1
  <1>. QED
    BY <1>1, <1>2 DEF CanSay, Taken

LEMMA AtReleased ==
    ASSUME NEW w, NEW k \in Ids, NEW c \in Conns, At(w, k, c), Dead(w, c) \/ plugin # "proxy"
    PROVE  Good(release(w, k)) /\ release(w, k).cl[k].state # "ACTIVE"
  <1>1. plugin # "proxy" => w.cn[c].note = 0
    BY DEF At, InHand, Rest, Links
  <1>2. ~w.cn[c].up \/ w.cn[c].note # k
    BY <1>1, AtDead, IdsAre
  <1>. QED
    BY <1>2, HandRelease DEF At

LEMMA AtAnswered ==
    ASSUME NEW w, NEW k \in Ids, NEW c \in Conns, At(w, k, c), NEW ret, CanSay(w, k, ret)
    PROVE  /\ plugin # "proxy" => Good(release(call_next(w, k, ret), k))
           /\ Good(Forget(release(call_next(w, k, ret), k), c))
           /\ release(call_next(w, k, ret), k).cl[k].state # "ACTIVE"
           /\ Forget(release(call_next(w, k, ret), k), c).cl[k].state # "ACTIVE"
  <1>1. Good(w)
    BY InHandGood DEF At
  <1>2. Tied(w, k, c)
    BY LastEar DEF At, InHand, Tied
  <1>3. PICK u : u = call_next(w, k, ret)
    OBVIOUS
  <1>4. Good(u) /\ Onward(w, u)
    BY <1>1, <1>3, CallNextGood
  <1>5. Rest(u, k) /\ u.cl[k].state # "none"
    BY <1>2, <1>4, TiedOnward, TiedIs, GoodIs
  <1>6. release(u, k).cl[k].state # "ACTIVE"
    BY <1>5, ReleaseRest
  <1>. QED
    BY <1>1, <1>2, <1>3, <1>6, AnsweredReleased

(* A client that has still to be answered slips when its hook is.          *)
LEMMA BusyAnswered ==
    ASSUME NEW u, NEW k \in Ids, Rest(u, k), u.wire[k] # <<>>, NEW c \in Conns, Holds(u, k, c),
           NEW ret
    PROVE  Slip(call_next(u, k, ret), k)
  <1>0. u \in World /\ Early(u, k)
    BY DEF Rest, Early
  <1>1. PICK d \in Conns : call_next(u, k, ret) = process_data(Say(Mark(u, k), k, ret), d)
    BY <1>0, CallNextIs
  <1>2. PICK m : m = Mark(u, k)
    OBVIOUS
  <1>3. Slip(m, k) /\ Good(m) /\ m.cl[k].slipped
    BY <1>0, <1>2, MarkSlip, SlipIsGood DEF Slip
  <1>4. CanSay(m, k, ret)
    BY <1>3 DEF CanSay
  <1>5. PICK v : v = Say(m, k, ret)
    OBVIOUS
  <1>6. Good(v) /\ Onward(m, v)
    BY <1>3, <1>4, <1>5, SayGood
  <1>7. PICK z : z = process_data(v, d)
    OBVIOUS
  <1>8. Good(z) /\ Onward(v, z)
    BY <1>6, <1>7, ProcessGood
  <1>9. Since(m.cl[k], z.cl[k])
    BY <1>6, <1>8, OnwardThrough DEF Onward
  <1>10. z.cl[k].slipped /\ Rest(z, k)
    BY <1>3, <1>8, <1>9, GoodIs DEF Since
  <1>. QED
    BY <1>1, <1>2, <1>5, <1>7, <1>10 DEF Slip

LEMMA HandSendRcpt ==
    ASSUME NEW w, NEW k \in Ids, NEW c \in Conns, At(w, k, c), plugin # "proxy"
    PROVE  Good(send_rcpt(w, k, c))
  <1>0. w.cl[k] \in Client
    BY RestIs DEF At, InHand
  <1>1. Good(release(w, k))
    BY AtReleased
  <1>2. Good(send_command(w, k, "data", NoTx))
    BY HandSend, CommandsAre DEF At
  <1>3. Good(send_command(OneMore(w, k), k, "rcpt", w.cl[k].txn))
    <2>1. PICK x \in Client :
             /\ OneMore(w, k) = Tweak(w, k, x)
             /\ x.state = w.cl[k].state /\ x.slipped = w.cl[k].slipped /\ x.next = w.cl[k].next
             /\ x.txn = w.cl[k].txn /\ x.pool = w.cl[k].pool /\ x.ears = w.cl[k].ears
      BY <1>0, OneMoreIs
    <2>2. Alike(x, w.cl[k])
      BY <2>1 DEF Alike
    <2>3. PICK u : u = Tweak(w, k, x)
      OBVIOUS
    <2>4. InHand(u, k, c) /\ WaitsFor(u, k, c)
      BY <2>2, <2>3, HandTweak DEF At
    <2>5. u.cl[k] = x
      BY <2>2, <2>3, TweakRest DEF Alike, At, InHand
    <2>6. PICK t \in TxId : t = w.cl[k].txn
      BY <1>0 DEF Client
    <2>7. Good(send_command(u, k, "rcpt", t))
      BY <2>1, <2>4, <2>5, <2>6, HandSend, CommandsAre
    <2>. QED
      BY <2>1, <2>3, <2>6, <2>7
  <1>. QED
    BY <1>1, <1>2, <1>3, SendRcptIs

LEMMA HandForwardEar ==
    ASSUME NEW w, NEW k \in Ids, NEW c \in Conns, At(w, k, c), plugin # "proxy",
           NEW ev, NEW code, ev = "dot" => Taken(w, k)
    PROVE  /\ Good(forward_ear(w, k, c, ev, code))
           /\ ev = "bad_code" => forward_ear(w, k, c, ev, code).cl[k].state # "ACTIVE"
  <1>0. PICK t \in TxId : t = w.cl[k].txn
    BY RestIs DEF Client, At, InHand
  <1>1. CASE ev = "mail"
    <2>1. forward_ear(w, k, c, ev, code) = send_rcpt(w, k, c)
      BY <1>1 DEF forward_ear
    <2>. QED
      BY <1>1, <2>1, HandSendRcpt
  <1>2. CASE ev = "rcpt"
    <2>1. Good(send_command(w, k, "data", NoTx))
      BY HandSend, CommandsAre DEF At
    <2>2. Good(send_rcpt(w, k, c))
      BY HandSendRcpt
    <2>. QED
      BY <1>2, <2>1, <2>2 DEF forward_ear
  <1>3. CASE ev = "dot"
    <2>1. Good(send_command(w, k, "rset", NoTx))
      BY HandSend, CommandsAre DEF At
    <2>2. Good(release(w, k))
      BY AtReleased
    <2>3. ~Dead(w, c) => Good(release(call_next(w, k, "ok"), k))
      BY <1>3, HandCanSay, AtAnswered
    <2>4. forward_ear(w, k, c, ev, code) = forward_dot(w, k, c)
      BY <1>3 DEF forward_ear
    <2>. QED
      BY <1>3, <2>1, <2>2, <2>3, <2>4 DEF forward_dot
  <1>4. CASE ev \in {"data", "rset", "bad_code"} /\ Dead(w, c)
    <2>1. forward_ear(w, k, c, ev, code) = release(w, k)
      BY <1>4 DEF forward_ear
    <2>. QED
      BY <2>1, AtReleased
  <1>5. CASE ev = "data" /\ ~Dead(w, c)
    <2>1. forward_ear(w, k, c, ev, code) = start_data(w, k, w.cl[k].txn)
      BY <1>5 DEF forward_ear
    <2>. QED
      BY <1>5, <2>1, HandStart DEF At
  <1>6. CASE ev = "rset" /\ ~Dead(w, c)
    <2>1. forward_ear(w, k, c, ev, code) = send_command(w, k, "mail", t)
      BY <1>0, <1>6 DEF forward_ear
    <2>. QED
      BY <1>0, <1>6, <2>1, HandSend, CommandsAre DEF At
  <1>7. CASE ev = "bad_code" /\ ~Dead(w, c)
    <2>1. forward_ear(w, k, c, ev, code) = release(call_next(w, k, "deny"), k)
      BY <1>7 DEF forward_ear
    <2>. QED
      BY <2>1, AtAnswered, CanSayNo
  <1>8. CASE ev \notin {"mail", "rcpt", "dot", "data", "rset", "bad_code"}
    <2>1. forward_ear(w, k, c, ev, code) = w
      BY <1>8 DEF forward_ear
    <2>. QED
      BY <1>8, <2>1, InHandGood DEF At
  <1>. QED
    BY <1>1, <1>2, <1>3, <1>4, <1>5, <1>6, <1>7, <1>8

LEMMA HandProxyEar ==
    ASSUME NEW w, NEW k \in Ids, NEW c \in Conns, At(w, k, c),
           NEW ev, ev # "bad_code", NEW code, ev = "dot" => Taken(w, k)
    PROVE  Good(proxy_ear(w, k, c, ev, code))
  <1>1. CASE ev \in {"mail", "rcpt", "data"}
    <2>1. proxy_ear(w, k, c, ev, code) = call_next(w, k, "cont")
      BY <1>1 DEF proxy_ear
    <2>. QED
      BY <2>1, InHandGood, CallNextGood, CanSayNo DEF At
  <1>2. CASE ev = "dot" /\ Dead(w, c)
    <2>1. proxy_ear(w, k, c, ev, code) = Forget(release(w, k), c)
      BY <1>2 DEF proxy_ear
    <2>. QED
      BY <2>1, HandRelease DEF At
  <1>3. CASE ev = "dot" /\ ~Dead(w, c)
    <2>1. proxy_ear(w, k, c, ev, code) = Forget(release(call_next(w, k, "ok"), k), c)
      BY <1>3 DEF proxy_ear
    <2>. QED
      BY <1>3, <2>1, HandCanSay, AtAnswered
  <1>4. CASE ev \notin {"mail", "rcpt", "data", "dot", "bad_code"}
    <2>1. proxy_ear(w, k, c, ev, code) = w
      BY <1>4 DEF proxy_ear
    <2>. QED
      BY <2>1, InHandGood DEF At
  <1>. QED
    BY <1>1, <1>2, <1>3, <1>4

(* Two listeners: of a sender who has left, and of the one who waits.      *)
LEMMA TwoProxyEars ==
    ASSUME NEW w, NEW k \in Ids, NEW c \in Conns, At(w, k, c),
           NEW e \in Conns, ~w.cn[e].up,
           NEW ev, ev # "bad_code", NEW code, ev = "dot" => Taken(w, k)
    PROVE  Good(proxy_ear(proxy_ear(w, k, e, ev, code), k, c, ev, code))
  <1>1. CASE ev \in {"mail", "rcpt", "data"}
    <2>1. PICK u : u = call_next(w, k, "cont")
      OBVIOUS
    <2>2. Good(u)
      BY <2>1, InHandGood, CallNextGood, CanSayNo DEF At
    <2>3. Good(call_next(u, k, "cont"))
      BY <2>2, CallNextGood, CanSayNo
    <2>4. proxy_ear(w, k, e, ev, code) = u /\ proxy_ear(u, k, c, ev, code) = call_next(u, k, "cont")
      BY <1>1, <2>1 DEF proxy_ear
    <2>. QED
      BY <2>3, <2>4
  <1>2. CASE ev = "dot"
    <2>0. Dead(w, e)
      BY DEF At, InHand, Rest, Links, Dead
    <2>1. PICK s : s = release(w, k)
      OBVIOUS
    <2>2. /\ Rest(s, k) /\ Kept(w, s, k) /\ s.cl[k].state \in {"DESTROYED", "RELEASED"}
          /\ s.cl[k].state = "DESTROYED" \/ s.cl[k].slipped \/ s.wire[k] # <<>>
      <3>1. Rest(w, k) /\ w.cl[k].state # "none" /\ ~w.srv[k].body
        BY <1>2 DEF At, InHand, Taken
      <3>. QED
        BY <2>1, <3>1, ReleaseRest
    <2>3. PICK u : u = Forget(s, e)
      OBVIOUS
    <2>4. /\ Rest(u, k) /\ u.cl = s.cl /\ u.wire = s.wire /\ u.accepted = s.accepted
          /\ u.cn[e] = [s.cn[e] EXCEPT !.note = 0]
          /\ \A d \in Conns : d # e => u.cn[d] = s.cn[d]
      BY <2>2, <2>3, ForgetRest
    <2>5. proxy_ear(w, k, e, ev, code) = u
      BY <1>2, <2>0, <2>1, <2>3 DEF proxy_ear
    <2>6. u.cl[k].state # "none" /\ u.cl[k].state # "ACTIVE"
      BY <2>2, <2>4
    <2>7. \A d \in Conns : /\ u.cn[d].tx = w.cn[d].tx /\ u.cn[d].hook = w.cn[d].hook
                           /\ u.cn[d].calls = w.cn[d].calls
      <3>1. s.cn = w.cn /\ \A d \in Conns : s.cn[d] \in Conn
        BY <2>2, WorldIs DEF Kept, Rest
      <3>2. /\ u.cn[e].tx = s.cn[e].tx /\ u.cn[e].hook = s.cn[e].hook
            /\ u.cn[e].calls = s.cn[e].calls
        BY <2>4, <3>1 DEF Conn
      <3>. QED
        BY <2>4, <3>1, <3>2
    <2>8. CASE Dead(u, c)
      <3>1. Stays(u, release(u, k), k)
        BY <2>4, <2>6, ReleaseOff
      <3>2. Good(Forget(release(u, k), c))
        BY <3>1, OffThenForget, OffIsGood DEF Stays
      <3>3. proxy_ear(u, k, c, ev, code) = Forget(release(u, k), c)
        BY <1>2, <2>8 DEF proxy_ear
      <3>. QED
        BY <2>5, <3>2, <3>3
    <2>9. CASE ~Dead(u, c)
      <3>1. ~Dead(w, c)
        BY <2>7, <2>9 DEF Dead
      <3>2. CanSay(w, k, "ok") /\ ~w.cl[k].slipped
        BY <1>2, <3>1, HandCanSay DEF At, InHand
      <3>3. CanSay(u, k, "ok")
        <4>1. ASSUME NEW d \in Conns, Holds(u, k, d)
              PROVE  \E m \in u.accepted : m.body = <<d, u.cn[d].tx>>
          <5>1. s.cl[k].next = w.cl[k].next /\ u.accepted = w.accepted
            BY <2>2, <2>4 DEF Kept
          <5>2. u.cn[d].hook # "" /\ u.cl[k].next = <<d, u.cn[d].calls>>
            BY <4>1 DEF Holds
          <5>3. Holds(w, k, d)
            BY <2>4, <2>7, <5>1, <5>2 DEF Holds
          <5>4. \E m \in w.accepted : m.body = <<d, w.cn[d].tx>>
            BY <3>2, <5>3 DEF CanSay
          <5>. QED
            BY <2>7, <5>1, <5>4
        <4>. QED
          BY <4>1 DEF CanSay
      <3>4. PICK v : v = call_next(u, k, "ok")
        OBVIOUS
      <3>5. Off(v, k)
        <4>1. CASE u.cl[k].slipped \/ u.cl[k].state = "DESTROYED"
          <5>1. Off(u, k)
            BY <2>4, <2>6, <4>1 DEF Off
          <5>. QED
            BY <3>3, <3>4, <5>1, OffCallNext DEF Stays
        <4>2. CASE u.wire[k] # <<>>
          <5>1. Holds(w, k, c)
            BY <3>1, AtDead DEF At, WaitsFor
          <5>2. u.cl[k].next = w.cl[k].next
            BY <2>2, <2>4 DEF Kept
          <5>3. Holds(u, k, c)
            BY <2>7, <5>1, <5>2 DEF Holds
          <5>4. Slip(v, k)
            BY <2>4, <3>4, <4>2, <5>3, BusyAnswered
          <5>. QED
            BY <5>4, SlipOff
        <4>. QED
          BY <2>2, <2>4, <4>1, <4>2
      <3>7. Stays(v, release(v, k), k)
        BY <3>5, OffRelease
      <3>8. Good(Forget(release(v, k), c))
        BY <3>7, OffThenForget, OffIsGood DEF Stays
      <3>9. proxy_ear(u, k, c, ev, code) = Forget(release(v, k), c)
        BY <1>2, <2>9, <3>4 DEF proxy_ear
      <3>. QED
        BY <2>5, <3>8, <3>9
    <2>. QED
      BY <2>8, <2>9
  <1>3. CASE ev \notin {"mail", "rcpt", "data", "dot", "bad_code"}
    <2>1. proxy_ear(w, k, e, ev, code) = w /\ proxy_ear(w, k, c, ev, code) = w
      BY <1>3 DEF proxy_ear
    <2>. QED
      BY <2>1, InHandGood DEF At
  <1>. QED
    BY <1>1, <1>2, <1>3

LEMMA OneHeard ==
    ASSUME NEW u, NEW k, NEW c \in Conns, NEW ev, NEW code
    PROVE  Listeners(u, k, <<c>>, ev, code) = Ear(u, k, c, ev, code)
  <1>1. PICK ears \in Seq(Conns) : ears = <<c>> /\ Len(ears) = 1 /\ ears[1] = c
    <2>1. <<c>> \in Seq(Conns) /\ Len(<<c>>) = 1 /\ <<c>>[1] = c
      OBVIOUS
    <2>. QED
      BY <2>1
  <1>2. PICK f : /\ Listeners(u, k, ears, ev, code) = f[Len(ears)] /\ f[0] = u
                 /\ \A i \in 1..Len(ears) : f[i] = Ear(f[i - 1], k, ears[i], ev, code)
    BY HeardIs
  <1>3. /\ Listeners(u, k, ears, ev, code) = f[1] /\ f[0] = u
        /\ \A i \in 1..1 : f[i] = Ear(f[i - 1], k, ears[i], ev, code)
    <2>1. PICK n : n = Len(ears)
      OBVIOUS
    <2>2. /\ Listeners(u, k, ears, ev, code) = f[n] /\ f[0] = u
          /\ \A i \in 1..n : f[i] = Ear(f[i - 1], k, ears[i], ev, code)
      BY <1>2, <2>1
    <2>3. n = 1
      BY <1>1, <2>1
    <2>. QED
      BY <2>2, <2>3
  <1>4. f[1] = Ear(f[0], k, ears[1], ev, code)
    <2>1. 1 \in 1..1 /\ 1 - 1 = 0
      OBVIOUS
    <2>. QED
      BY <1>3, <2>1
  <1>. QED
    BY <1>1, <1>3, <1>4

LEMMA TwoHeard ==
    ASSUME NEW u, NEW k, NEW e \in Conns, NEW c \in Conns, NEW ev, NEW code
    PROVE  Listeners(u, k, <<e, c>>, ev, code)
             = Ear(Ear(u, k, e, ev, code), k, c, ev, code)
  <1>1. PICK ears \in Seq(Conns) : ears = <<e, c>> /\ Len(ears) = 2 /\ ears[1] = e /\ ears[2] = c
    <2>1. <<e, c>> \in Seq(Conns) /\ Len(<<e, c>>) = 2 /\ <<e, c>>[1] = e /\ <<e, c>>[2] = c
      OBVIOUS
    <2>. QED
      BY <2>1
  <1>2. PICK f : /\ Listeners(u, k, ears, ev, code) = f[Len(ears)] /\ f[0] = u
                 /\ \A i \in 1..Len(ears) : f[i] = Ear(f[i - 1], k, ears[i], ev, code)
    BY HeardIs
  <1>3. /\ Listeners(u, k, ears, ev, code) = f[2] /\ f[0] = u
        /\ \A i \in 1..2 : f[i] = Ear(f[i - 1], k, ears[i], ev, code)
    <2>1. PICK n : n = Len(ears)
      OBVIOUS
    <2>2. /\ Listeners(u, k, ears, ev, code) = f[n] /\ f[0] = u
          /\ \A i \in 1..n : f[i] = Ear(f[i - 1], k, ears[i], ev, code)
      BY <1>2, <2>1
    <2>3. n = 2
      BY <1>1, <2>1
    <2>. QED
      BY <2>2, <2>3
  <1>4. f[1] = Ear(f[0], k, ears[1], ev, code) /\ f[2] = Ear(f[1], k, ears[2], ev, code)
    <2>1. 1 \in 1..2 /\ 1 - 1 = 0 /\ 2 \in 1..2 /\ 2 - 1 = 1
      OBVIOUS
    <2>2. f[1] = Ear(f[1 - 1], k, ears[1], ev, code) /\ f[2] = Ear(f[2 - 1], k, ears[2], ev, code)
      BY <1>3, <2>1
    <2>. QED
      BY <2>1, <2>2
  <1>. QED
    BY <1>1, <1>3, <1>4

LEMMA HandListeners ==
    ASSUME NEW w, NEW k \in Ids, NEW c \in Conns, At(w, k, c),
           NEW ev, ev # "bad_code", NEW code, ev = "dot" => Taken(w, k)
    PROVE  Good(Listeners(w, k, w.cl[k].ears, ev, code))
  <1>1. EarsAre(w, w.cl[k].ears, c)
    BY DEF At, InHand
  <1>2. CASE w.cl[k].ears = <<c>>
    <2>1. Listeners(w, k, w.cl[k].ears, ev, code) = Ear(w, k, c, ev, code)
      BY <1>2, OneHeard
    <2>2. CASE plugin = "proxy"
      BY <2>1, <2>2, HandProxyEar DEF Ear
    <2>3. CASE plugin # "proxy"
      BY <2>1, <2>3, HandForwardEar DEF Ear
    <2>. QED
      BY <2>2, <2>3
  <1>3. CASE plugin = "proxy" /\ \E e \in Conns : ~w.cn[e].up /\ w.cl[k].ears = <<e, c>>
    <2>1. PICK e \in Conns : ~w.cn[e].up /\ w.cl[k].ears = <<e, c>>
      BY <1>3
    <2>2. Listeners(w, k, w.cl[k].ears, ev, code)
            = proxy_ear(proxy_ear(w, k, e, ev, code), k, c, ev, code)
      BY <1>3, <2>1, TwoHeard DEF Ear
    <2>. QED
      BY <2>1, <2>2, TwoProxyEars
  <1>. QED
    BY <1>1, <1>2, <1>3 DEF EarsAre

LEMMA HandHelo ==
    ASSUME NEW w, NEW k \in Ids, NEW c \in Conns, At(w, k, c)
    PROVE  Good(helo(w, k, c))
  <1>1. CASE Dead(w, c) /\ helo(w, k, c) = release(w, k)
    BY <1>1, AtReleased
  <1>2. ASSUME NEW cmd \in Commands, NEW tx \in TxId,
               helo(w, k, c) = send_command(w, k, cmd, tx),
               \/ cmd = "auth"
               \/ cmd = "mail" /\ ~Dead(w, c) /\ tx = <<c, w.cn[c].tx>>
        PROVE  Good(helo(w, k, c))
    <2>1. ~Dead(w, c) => w.cl[k].txn = <<c, w.cn[c].tx>>
      BY AtDead DEF At, WaitsFor
    <2>2. cmd \in {"mail", "rcpt", "dot"} => tx = w.cl[k].txn
      BY <1>2, <2>1
    <2>. QED
      BY <1>2, <2>2, HandSend DEF At
  <1>. QED
    BY <1>1, <1>2, HeloIs DEF At, InHand, Rest

LEMMA EmitIs ==
    ASSUME NEW w, NEW k \in Ids, NEW c \in Conns, InHand(w, k, c), NEW ev, NEW code
    PROVE  /\ ev = "helo" => emit(w, k, ev, code) = helo(w, k, c)
           /\ ev = "bad_code" => emit(w, k, ev, code) = Ear(w, k, c, ev, code)
           /\ ev \notin {"helo", "bad_code"} =>
                 emit(w, k, ev, code) = Listeners(w, k, w.cl[k].ears, ev, code)
  <1>1. ~w.cl[k].pool /\ w.cl[k].ears # <<>> /\ Last(w.cl[k].ears) = c
    BY LastEar DEF InHand
  <1>2. CASE ev = "helo"
    BY <1>1, <1>2 DEF emit
  <1>3. CASE ev = "bad_code"
    <2>1. emit(w, k, ev, code) = Listeners(w, k, <<c>>, ev, code)
      BY <1>1, <1>3 DEF emit
    <2>. QED
      BY <1>3, <2>1, OneHeard
  <1>4. CASE ev \notin {"helo", "bad_code"}
    BY <1>1, <1>4 DEF emit
  <1>. QED
    BY <1>2, <1>3, <1>4

LEMMA HandEmit ==
    ASSUME NEW w, NEW k \in Ids, NEW c \in Conns, At(w, k, c),
           NEW ev, ev # "bad_code", NEW code, ev = "dot" => Taken(w, k)
    PROVE  Good(emit(w, k, ev, code))
  <1>1. CASE ev = "helo"
    BY <1>1, EmitIs, HandHelo DEF At
  <1>2. CASE ev # "helo"
    <2>1. emit(w, k, ev, code) = Listeners(w, k, w.cl[k].ears, ev, code)
      BY <1>2, EmitIs DEF At
    <2>. QED
      BY <2>1, HandListeners
  <1>. QED
    BY <1>1, <1>2

LEMMA HandSwitch ==
    ASSUME NEW w, NEW k \in Ids, NEW c \in Conns, At(w, k, c), NEW code, NEW cap,
           w.cl[k].command = "dot" => Taken(w, k)
    PROVE  Good(switch(w, k, code, cap))
  <1>. PICK v : v = switch(w, k, code, cap)
    OBVIOUS
  <1>0. w \in World /\ w.cl[k] \in Client /\ Rest(w, k)
    BY RestIs DEF At, InHand
  <1>1. PICK x \in Client : Alike(x, w.cl[k]) /\ Switched(w, k, x, code, v)
    BY <1>0, SwitchIs
  <1>2. PICK u : u = Tweak(w, k, x)
    OBVIOUS
  <1>3. InHand(u, k, c) /\ WaitsFor(u, k, c)
    BY <1>1, <1>2, HandTweak DEF At
  <1>4. At(u, k, c)
    BY <1>3 DEF At
  <1>5. u.cl[k] = x /\ u.accepted = w.accepted /\ u.srv[k] = w.srv[k]
    BY <1>0, <1>1, <1>2, TweakRest DEF Alike
  <1>6. Taken(w, k) => Taken(u, k)
    BY <1>1, <1>5 DEF Taken, Alike
  <1>7. ASSUME NEW cmd \in Commands, cmd \notin {"mail", "rcpt", "dot"},
               v = send_command(u, k, cmd, NoTx)
        PROVE  Good(v)
    BY <1>3, <1>7, HandSend, CommandsAre
  <1>8. Good(emit(u, k, "helo", code))
    BY <1>4, HandEmit
  <1>9. Good(emit(u, k, w.cl[k].command, code))
    <2>1. w.cl[k].command # "bad_code"
      BY <1>0 DEF Client, Commands
    <2>2. w.cl[k].command = "dot" => Taken(u, k)
      BY <1>6
    <2>. QED
      BY <1>4, <2>1, <2>2, HandEmit
  <1>. QED
    BY <1>1, <1>2, <1>7, <1>8, <1>9 DEF Switched

(* A bad reply.  smtp_proxy lets one to RCPT pass: the switch then finds a *)
(* command of the caller, or one that he has pipelined.                    *)
LEMMA HandBad ==
    ASSUME NEW w, NEW k \in Ids, NEW c \in Conns, At(w, k, c), NEW code
    PROVE  LET u == emit(w, k, "bad_code", code) IN
           /\ Good(u)
           /\ u.cl[k].state = "ACTIVE" => plugin = "proxy" /\ u.cl[k].command = "rcpt"
  <1>1. PICK u : u = emit(w, k, "bad_code", code)
    OBVIOUS
  <1>2. u = Ear(w, k, c, "bad_code", code)
    BY <1>1, EmitIs DEF At
  <1>3. CASE plugin # "proxy"
    BY <1>1, <1>2, <1>3, HandForwardEar DEF Ear
  <1>4. CASE plugin = "proxy"
    <2>1. PICK v : v = call_next(w, k, "deny")
      OBVIOUS
    <2>2. u = IF v.cl[k].command = "rcpt" THEN v ELSE Forget(release(v, k), c)
      BY <1>2, <1>4, <2>1 DEF Ear, proxy_ear
    <2>3. Good(v)
      BY <2>1, InHandGood, CallNextGood, CanSayNo DEF At
    <2>4. Good(Forget(release(v, k), c)) /\ Forget(release(v, k), c).cl[k].state # "ACTIVE"
      BY <2>1, AtAnswered, CanSayNo
    <2>. QED
      BY <1>1, <1>4, <2>2, <2>3, <2>4
  <1>. QED
    BY <1>3, <1>4

LEMMA QuietRcpt ==
    ASSUME NEW u, Good(u), NEW k \in Ids, plugin = "proxy", u.cl[k].state = "ACTIVE",
           u.cl[k].command = "rcpt", NEW code, NEW cap
    PROVE  Good(switch(u, k, code, cap))
  <1>0. Rest(u, k) /\ Own(u, k)
    BY GoodIs
  <1>1. CASE u.cl[k].slipped
    <2>1. Slip(u, k)
      BY <1>0, <1>1 DEF Slip
    <2>. QED
      BY <2>1, SlipSwitch, SlipIsGood
  <1>2. CASE ~u.cl[k].slipped
    <2>1. PICK c \in Conns : ~u.cl[k].pool /\ EarsAre(u, u.cl[k].ears, c)
      BY <1>0, <1>2 DEF Own, Serves
    <2>2. u.cl[k].ears # <<>>
      BY <2>1, LastEar
    <2>3. switch(u, k, code, cap) = emit(u, k, "rcpt", code)
      BY DEF switch
    <2>4. emit(u, k, "rcpt", code) = Listeners(u, k, u.cl[k].ears, "rcpt", code)
      BY <2>1, <2>2 DEF emit
    <2>5. \A v, d : Ear(v, k, d, "rcpt", code) = call_next(v, k, "cont")
      BY DEF Ear, proxy_ear
    <2>6. PICK v : v = call_next(u, k, "cont")
      OBVIOUS
    <2>7. Good(v)
      BY <2>6, CallNextGood, CanSayNo
    <2>8. Good(call_next(v, k, "cont"))
      BY <2>7, CallNextGood, CanSayNo
    <2>9. CASE u.cl[k].ears = <<c>>
      <3>1. Listeners(u, k, u.cl[k].ears, "rcpt", code) = v
        BY <2>5, <2>6, <2>9, OneHeard
      <3>. QED
        BY <2>3, <2>4, <2>7, <3>1
    <2>10. ASSUME NEW e \in Conns, u.cl[k].ears = <<e, c>>
           PROVE  Good(switch(u, k, code, cap))
      <3>1. Listeners(u, k, u.cl[k].ears, "rcpt", code) = call_next(v, k, "cont")
        BY <2>5, <2>6, <2>10, TwoHeard
      <3>. QED
        BY <2>3, <2>4, <2>8, <3>1
    <2>. QED
      BY <2>1, <2>9, <2>10 DEF EarsAre
  <1>. QED
    BY <1>1, <1>2

LEMMA HandLine ==
    ASSUME NEW w, NEW k \in Ids, NEW c \in Conns, At(w, k, c), NEW code, NEW cap,
           w.cl[k].command = "dot" /\ code = "2xx" => Taken(w, k)
    PROVE  Good(on_line(w, k, code, cap))
  <1>. PICK v : v = on_line(w, k, code, cap)
    OBVIOUS
  <1>1. PICK x \in Client : Alike(x, w.cl[k]) /\ Renamed(w, k, x, code, cap, v)
    BY LineIs DEF At, InHand, Rest
  <1>2. Good(send_command(w, k, "helo", NoTx))
    BY HandSend, CommandsAre DEF At
  <1>3. Good(emit(Tweak(w, k, x), k, "helo", code))
    <2>1. PICK u : u = Tweak(w, k, x)
      OBVIOUS
    <2>2. At(u, k, c)
      BY <1>1, <2>1, HandTweak DEF At
    <2>. QED
      BY <2>1, <2>2, HandEmit
  <1>4. code = "2xx" => Good(switch(w, k, code, cap))
    BY HandSwitch
  <1>5. PICK u : u = emit(w, k, "bad_code", code)
    OBVIOUS
  <1>6. Good(u) /\ (u.cl[k].state = "ACTIVE" => plugin = "proxy" /\ u.cl[k].command = "rcpt")
    BY <1>5, HandBad
  <1>7. CASE u.cl[k].state # "ACTIVE" /\ v = u
    BY <1>6, <1>7
  <1>8. CASE u.cl[k].state = "ACTIVE" /\ v = switch(u, k, code, cap)
    BY <1>6, <1>8, QuietRcpt
  <1>. QED
    BY <1>1, <1>2, <1>3, <1>4, <1>5, <1>7, <1>8 DEF Renamed

----------------------------------------------------------------------------
(* The client that was released, with the reply to its RSET.               *)
Freed(w, k) ==
    LET x == w.cl[k] IN
    /\ Rest(w, k) /\ x.state = "RELEASED" /\ ~x.slipped /\ x.pool /\ x.command = "rset"
    /\ LeftOver(w, x.ears) /\ w.wire[k] = <<>> /\ w.srv[k] = Idle
    /\ \A d \in Conns : InNotes(w, k, d)

IdleAgain(w, v, k) ==
    /\ Rest(v, k) /\ v.cl[k].state = "IDLE" /\ ~v.cl[k].pool /\ v.cl[k].ears = w.cl[k].ears
    /\ v.wire[k] = <<>> /\ v.srv[k] = Idle /\ v.cn = w.cn /\ ~InPool(v.avail, k)

LEMMA FreedPoolEar ==
    ASSUME NEW w, NEW k \in Ids, Freed(w, k)
    PROVE  \E v : pool_ear(w, k, "rset") = pool_release(v, k) /\ IdleAgain(w, v, k)
  <1>0. /\ Rest(w, k) /\ w.cl[k].state = "RELEASED" /\ w.cl[k].slipped = FALSE
        /\ w \in World /\ w.cl[k] \in Client /\ w.wire[k] \in Seq(Line) /\ w.srv[k] \in Envelope
        /\ Pool(w)
    BY RestIs DEF Freed, Rest, Client
  <1>. PICK off \in BOOLEAN : off = FALSE
    OBVIOUS
  <1>1. PICK x : x = [w.cl[k] EXCEPT !.state = "IDLE", !.pool = off]
    OBVIOUS
  <1>2. /\ x \in Client /\ x.next = w.cl[k].next /\ x.state = "IDLE"
        /\ x.slipped = w.cl[k].slipped /\ x.pool = off /\ x.ears = w.cl[k].ears
    BY <1>0, <1>1 DEF Client
  <1>3. PICK v : v = Put(w, k, x, w.wire[k], w.srv[k])
    OBVIOUS
  <1>4. ~Gone(x) /\ Pooled(x) /\ x.state # "none"
    BY <1>0, <1>2 DEF Gone, Pooled
  <1>5. Rest(v, k)
    BY <1>0, <1>2, <1>3, <1>4, RestPut
  <1>6. /\ v.cl[k] = x /\ v.wire[k] = w.wire[k] /\ v.srv[k] = w.srv[k] /\ v.cn = w.cn
        /\ v.avail = w.avail
    BY <1>0, <1>2, <1>3, Put_Is
  <1>7. v = [w EXCEPT !.cl[k] = x]
    BY <1>0, <1>2, <1>3, PutOne
  <1>8. pool_ear(w, k, "rset") = pool_release(v, k)
    BY <1>0, <1>1, <1>7 DEF pool_ear
  <1>9. ~InPool(w.avail, k)
    BY <1>0 DEF Pool, Pooled
  <1>10. IdleAgain(w, v, k)
    BY <1>2, <1>5, <1>6, <1>9 DEF IdleAgain, Freed
  <1>. QED
    BY <1>8, <1>10

LEMMA FreedRset ==
    ASSUME NEW w, NEW k \in Ids, Freed(w, k), NEW code
    PROVE  Good(emit(w, k, "rset", code))
  <1>1. PICK v : pool_ear(w, k, "rset") = pool_release(v, k) /\ IdleAgain(w, v, k)
    BY FreedPoolEar
  <1>2. /\ Rest(v, k) /\ v.cl[k].state = "IDLE" /\ ~v.cl[k].pool /\ v.cl[k].ears = w.cl[k].ears
        /\ v.wire[k] = <<>> /\ v.srv[k] = Idle /\ v.cn = w.cn /\ ~InPool(v.avail, k)
    BY <1>1 DEF IdleAgain
  <1>3. \A d \in Conns : v.cn[d].up => v.cn[d].note # k
    BY <1>2 DEF Freed, InNotes, Settled, Holds
  <1>4. LeftOver(v, v.cl[k].ears)
    BY <1>2 DEF Freed, LeftOver
  <1>5. PICK u : u = pool_release(v, k)
    OBVIOUS
  <1>6. w.cl[k].pool
    BY DEF Freed
  <1>7. CASE plugin = "proxy" \/ w.cl[k].ears = <<>>
    <2>1. Spare(v, k)
      BY <1>2, <1>3, <1>4, <1>7 DEF Spare
    <2>2. Good(u)
      BY <1>2, <1>5, <2>1, PoolReleaseGood
    <2>3. CASE w.cl[k].ears = <<>>
      <3>1. emit(w, k, "rset", code) = u
        BY <1>1, <1>5, <1>6, <2>3 DEF emit
      <3>. QED
        BY <2>2, <3>1
    <2>4. CASE plugin = "proxy" /\ w.cl[k].ears # <<>>
      <3>1. PICK e \in Conns : w.cl[k].ears = <<e>>
        BY <2>4 DEF Freed, LeftOver
      <3>2. emit(w, k, "rset", code) = Listeners(u, k, w.cl[k].ears, "rset", code)
        BY <1>1, <1>5, <1>6, <2>4 DEF emit
      <3>3. emit(w, k, "rset", code) = Ear(u, k, e, "rset", code)
        BY <3>1, <3>2, OneHeard
      <3>4. Ear(u, k, e, "rset", code) = u
        BY <2>4 DEF Ear, proxy_ear
      <3>. QED
        BY <2>2, <3>3, <3>4
    <2>. QED
      BY <1>7, <2>3, <2>4
  <1>8. CASE plugin # "proxy" /\ w.cl[k].ears # <<>>
    <2>1. PICK e \in Conns : ~w.cn[e].up /\ w.cl[k].ears = <<e>>
      BY <1>8 DEF Freed, LeftOver
    <2>2. /\ Rest(u, k) /\ u.cl[k].state # "none"
          /\ ~u.cl[k].connected \/ u.cl[k].state # "ACTIVE" \/ u.wire[k] # <<>>
          /\ \A d \in Conns : u.cn[d].tx = v.cn[d].tx
      BY <1>2, <1>5, PoolReleaseBusy
    <2>3. Dead(u, e)
      <3>1. w.cn[e].tx = 0
        BY <2>1 DEF Freed, Rest, Links
      <3>. QED
        BY <1>2, <2>2, <3>1 DEF Dead
    <2>4. emit(w, k, "rset", code) = Listeners(u, k, w.cl[k].ears, "rset", code)
      BY <1>1, <1>5, <1>6, <1>8 DEF emit
    <2>5. emit(w, k, "rset", code) = Ear(u, k, e, "rset", code)
      BY <2>1, <2>4, OneHeard
    <2>6. Ear(u, k, e, "rset", code) = release(u, k)
      BY <1>8, <2>3 DEF Ear, forward_ear
    <2>7. Stays(u, release(u, k), k)
      BY <2>2, ReleaseOff
    <2>8. Good(release(u, k))
      BY <2>7, OffIsGood DEF Stays
    <2>. QED
      BY <2>5, <2>6, <2>8
  <1>. QED
    BY <1>7, <1>8

LEMMA FreedBad ==
    ASSUME NEW w, NEW k \in Ids, Freed(w, k), NEW code
    PROVE  /\ Good(emit(w, k, "bad_code", code))
           /\ emit(w, k, "bad_code", code).cl[k].state # "ACTIVE"
  <1>0. Rest(w, k) /\ w.cl[k].state = "RELEASED" /\ w.cl[k].pool /\ w.cl[k] \in Client
    BY RestIs DEF Freed
  <1>1. PICK u : u = destroy(w, k)
    OBVIOUS
  <1>2. Rest(u, k) /\ u.cl[k].state = "DESTROYED"
    BY <1>0, <1>1, DestroyIs
  <1>3. Off(u, k)
    BY <1>2 DEF Off
  <1>4. pool_ear(w, k, "bad_code") = u
    BY <1>0, <1>1 DEF pool_ear
  <1>5. CASE w.cl[k].ears = <<>>
    <2>1. emit(w, k, "bad_code", code) = u
      BY <1>0, <1>4, <1>5 DEF emit
    <2>. QED
      BY <1>2, <1>3, <2>1, OffIsGood
  <1>6. CASE w.cl[k].ears # <<>>
    <2>1. PICK e \in Conns : e = Last(w.cl[k].ears)
      BY <1>0, <1>6, LastIs DEF Client
    <2>0. emit(w, k, "bad_code", code) = Listeners(u, k, <<e>>, "bad_code", code)
      BY <1>0, <1>4, <1>6, <2>1 DEF emit
    <2>2. emit(w, k, "bad_code", code) = Ear(u, k, e, "bad_code", code)
      BY <2>0, OneHeard
    <2>3. Stays(u, Ear(u, k, e, "bad_code", code), k)
      BY <1>3, OffEar
    <2>. QED
      BY <1>2, <2>2, <2>3, OffIsGood DEF Stays
  <1>. QED
    BY <1>5, <1>6

LEMMA FreedLine ==
    ASSUME NEW w, NEW k \in Ids, Freed(w, k), NEW code, NEW cap
    PROVE  Good(on_line(w, k, code, cap))
  <1>0. w.cl[k].command = "rset"
    BY DEF Freed
  <1>1. CASE code = "2xx"
    <2>1. on_line(w, k, code, cap) = switch(w, k, code, cap)
      BY <1>0, <1>1 DEF on_line
    <2>2. switch(w, k, code, cap) = emit(w, k, "rset", code)
      BY <1>0 DEF switch
    <2>. QED
      BY <2>1, <2>2, FreedRset
  <1>2. CASE code # "2xx"
    <2>1. PICK u : u = emit(w, k, "bad_code", code)
      OBVIOUS
    <2>2. Good(u) /\ u.cl[k].state # "ACTIVE"
      BY <2>1, FreedBad
    <2>3. on_line(w, k, code, cap) = IF u.cl[k].state = "ACTIVE" THEN switch(u, k, code, cap) ELSE u
      BY <1>0, <1>2, <2>1 DEF on_line, bad_code
    <2>. QED
      BY <2>2, <2>3
  <1>. QED
    BY <1>1, <1>2

----------------------------------------------------------------------------
(* The upstream server.                                                    *)
Received(w, k) == [w EXCEPT !.wire[k] = Tail(@)]

LEMMA ReceivedIs ==
    ASSUME NEW w \in World, NEW k \in Ids, w.wire[k] # <<>>
    PROVE  /\ Tail(w.wire[k]) \in Seq(Line)
           /\ Received(w, k) = Put(w, k, w.cl[k], Tail(w.wire[k]), w.srv[k])
  <1>0. /\ w.cl \in [Ids -> Client] /\ w.wire \in [Ids -> Seq(Line)] /\ w.srv \in [Ids -> Envelope]
    BY WorldIs
  <1>1. PICK t \in Seq(Line) : t = w.wire[k]
    BY <1>0
  <1>2. Tail(t) \in Seq(Line)
    BY <1>1
  <1>3. PICK s \in Seq(Line) : s = Tail(w.wire[k])
    BY <1>1, <1>2
  <1>4. [w.cl EXCEPT ![k] = w.cl[k]] = w.cl /\ [w.srv EXCEPT ![k] = w.srv[k]] = w.srv
    BY <1>0
  <1>5. PICK wires : wires = [w.wire EXCEPT ![k] = s]
    OBVIOUS
  <1>6. Put(w, k, w.cl[k], s, w.srv[k]) = [w EXCEPT !.cl = w.cl, !.wire = wires, !.srv = w.srv]
    BY <1>4, <1>5 DEF Put
  <1>7. Received(w, k) = [w EXCEPT !.wire = wires]
    BY <1>3, <1>5 DEF Received
  <1>8. [w EXCEPT !.cl = w.cl, !.wire = wires, !.srv = w.srv] = [w EXCEPT !.wire = wires]
    BY DEF World
  <1>. QED
    BY <1>3, <1>6, <1>7, <1>8

Took(w, k, e, a) == [w EXCEPT !.srv[k] = e, !.accepted = a]

LEMMA TookIs ==
    ASSUME NEW w \in World, NEW k \in Ids, NEW e \in Envelope, NEW a \in SUBSET Message
    PROVE  /\ Took(w, k, e, a) \in World
           /\ Took(w, k, e, a).cl = w.cl /\ Took(w, k, e, a).wire = w.wire
           /\ Took(w, k, e, a).srv[k] = e
           /\ \A j \in Ids : j # k => Took(w, k, e, a).srv[j] = w.srv[j]
           /\ Took(w, k, e, a).cn = w.cn /\ Took(w, k, e, a).avail = w.avail
           /\ Took(w, k, e, a).waiting = w.waiting /\ Took(w, k, e, a).accepted = a
  <1>0. w.srv \in [Ids -> Envelope]
    BY WorldIs
  <1>1. PICK srvs \in [Ids -> Envelope] :
           srvs = [w.srv EXCEPT ![k] = e] /\ srvs[k] = e
           /\ \A j \in Ids : j # k => srvs[j] = w.srv[j]
    <2>. DEFINE g == [w.srv EXCEPT ![k] = e]
    <2>1. g \in [Ids -> Envelope] /\ g[k] = e /\ \A j \in Ids : j # k => g[j] = w.srv[j]
      BY <1>0
    <2>. QED
      BY <2>1
  <1>2. Took(w, k, e, a) = [w EXCEPT !.srv = srvs, !.accepted = a]
    BY <1>1 DEF Took
  <1>3. PICK v : v = [w EXCEPT !.srv = srvs, !.accepted = a]
    OBVIOUS
  <1>4. v \in World
    BY <1>3 DEF World
  <1>5. /\ v.cl = w.cl /\ v.wire = w.wire /\ v.srv = srvs /\ v.cn = w.cn /\ v.avail = w.avail
        /\ v.waiting = w.waiting /\ v.accepted = a
    BY <1>3 DEF World
  <1>. QED
    BY <1>1, <1>2, <1>3, <1>4, <1>5

LEMMA TookRest ==
    ASSUME NEW w, NEW k \in Ids, Rest(w, k), ~Gone(w.cl[k]), NEW e \in Envelope,
           NEW a \in SUBSET Message, w.accepted \subseteq a, \A m \in a : OfOne(m)
    PROVE  Rest(Took(w, k, e, a), k)
  <1>. PICK v : v = Took(w, k, e, a)
    OBVIOUS
  <1>0. /\ w \in World /\ Links(w) /\ Pool(w) /\ Truth(w)
        /\ (\A j \in Ids : GoneIs(w, j)) /\ (\A j \in Ids : j # k => Own(w, j))
    BY DEF Rest
  <1>1. /\ v \in World /\ v.cl = w.cl /\ v.wire = w.wire /\ v.srv[k] = e
        /\ \A j \in Ids : j # k => v.srv[j] = w.srv[j]
        /\ v.cn = w.cn /\ v.avail = w.avail /\ v.waiting = w.waiting /\ v.accepted = a
    BY <1>0, TookIs
  <1>2. ASSUME NEW j \in Ids
        PROVE  GoneIs(v, j)
    BY <1>0, <1>1 DEF GoneIs
  <1>3. ASSUME NEW j \in Ids, j # k
        PROVE  Own(v, j)
    <2>1. SameClient(w, v, j)
      BY <1>1, <1>3 DEF SameClient
    <2>. QED
      BY <1>0, <1>1, <1>3, <2>1, SameOwn
  <1>4. Links(v)
    BY <1>0, <1>1, SameLinks
  <1>5. Pool(v)
    BY <1>0, <1>1 DEF Pool
  <1>6. Truth(v)
    BY <1>0, <1>1 DEF Truth
  <1>. QED
    BY <1>1, <1>2, <1>3, <1>4, <1>5, <1>6 DEF Rest

Accepted(w, k, h) ==
    [from |-> w.srv[k].from, rcpts |-> w.srv[k].rcpts, body |-> h.tx, clean |-> h.clean,
     slipped |-> w.cl[k].slipped]

(* What upstream has after its reply.                                      *)
Replied(w, k, h, code, e, a) ==
    \/ /\ h.cmd = "dot" /\ e = Idle
       /\ \/ code # "2xx" /\ a = w.accepted
          \/ code = "2xx" /\ a = w.accepted \union {Accepted(w, k, h)}
    \/ /\ h.cmd # "dot" /\ a = w.accepted
       /\ \/ h.cmd # "rset" /\ e = w.srv[k]
          \/ e = Idle
          \/ /\ code = "2xx"
             /\ \/ h.cmd = "mail" /\ e = [w.srv[k] EXCEPT !.from = h.tx]
                \/ h.cmd = "rcpt" /\ e = [w.srv[k] EXCEPT !.rcpts = @ \union {h.tx}]
                \/ h.cmd = "data" /\ e = [w.srv[k] EXCEPT !.body = TRUE]

LEMMA IdleIs == Idle \in Envelope
  BY DEF Idle, Envelope, TxId

LEMMA TookSame ==
    ASSUME NEW w \in World, NEW k \in Ids, NEW e
    PROVE  /\ Took(w, k, e, w.accepted) = [w EXCEPT !.srv[k] = e]
           /\ Took(w, k, w.srv[k], w.accepted) = w
  <1>1. PICK srvs : srvs = [w.srv EXCEPT ![k] = e]
    OBVIOUS
  <1>2. [w EXCEPT !.srv = srvs, !.accepted = w.accepted] = [w EXCEPT !.srv = srvs]
    BY DEF World
  <1>3. [w.srv EXCEPT ![k] = w.srv[k]] = w.srv
    BY WorldIs
  <1>4. [w EXCEPT !.srv = w.srv, !.accepted = w.accepted] = w
    BY DEF World
  <1>. QED
    BY <1>1, <1>2, <1>3, <1>4 DEF Took

LEMMA UpstreamIs ==
    ASSUME NEW w \in World, NEW k \in Ids, NEW h \in Line, NEW code
    PROVE  \E e \in Envelope : \E a \in SUBSET Message :
              /\ Upstream(w, k, h, code) = Took(w, k, e, a)
              /\ Replied(w, k, h, code, e, a)
  <1>0. /\ w.srv[k] \in Envelope /\ w.accepted \in SUBSET Message /\ h.tx \in TxId
        /\ w.cl[k] \in Client
    BY WorldIs DEF Line
  <1>. PICK s \in Envelope : s = w.srv[k]
    BY <1>0
  <1>. PICK v : v = Upstream(w, k, h, code)
    OBVIOUS
  <1>. PICK idle \in Envelope : idle = Idle
    BY IdleIs
  <1>1. CASE h.cmd = "dot" /\ code # "2xx"
    <2>1. v = Took(w, k, idle, w.accepted)
      BY <1>1 DEF Upstream, Took
    <2>. QED
      BY <1>0, <1>1, <2>1 DEF Replied
  <1>2. CASE h.cmd = "dot" /\ code = "2xx"
    <2>1. PICK m : m = Accepted(w, k, h)
      OBVIOUS
    <2>2. m \in Message
      BY <1>0, <2>1 DEF Accepted, Message, Envelope, Line, Client
    <2>3. PICK a \in SUBSET Message : a = w.accepted \union {m}
      BY <1>0, <2>2
    <2>4. v = Took(w, k, idle, a)
      BY <1>2, <2>1, <2>3 DEF Upstream, Took, Accepted
    <2>. QED
      BY <1>2, <2>1, <2>3, <2>4 DEF Replied
  <1>3. CASE h.cmd = "mail" /\ code = "2xx"
    <2>1. PICK e \in Envelope : e = [s EXCEPT !.from = h.tx]
      BY <1>0 DEF Envelope
    <2>2. v = [w EXCEPT !.srv[k] = e]
      BY <1>3, <2>1 DEF Upstream
    <2>3. v = Took(w, k, e, w.accepted)
      BY <2>2, TookSame
    <2>. QED
      BY <1>0, <1>3, <2>1, <2>3 DEF Replied
  <1>4. CASE h.cmd = "rcpt" /\ code = "2xx"
    <2>0. s.rcpts \union {h.tx} \in SUBSET TxId
      BY <1>0 DEF Envelope
    <2>1. PICK e \in Envelope : e = [s EXCEPT !.rcpts = @ \union {h.tx}]
      BY <2>0 DEF Envelope
    <2>2. v = [w EXCEPT !.srv[k] = e]
      BY <1>4, <2>1 DEF Upstream
    <2>3. v = Took(w, k, e, w.accepted)
      BY <2>2, TookSame
    <2>. QED
      BY <1>0, <1>4, <2>1, <2>3 DEF Replied
  <1>5. CASE h.cmd = "data" /\ code = "2xx"
    <2>. PICK on \in BOOLEAN : on = TRUE
      OBVIOUS
    <2>1. PICK e \in Envelope : e = [s EXCEPT !.body = on]
      BY <1>0 DEF Envelope
    <2>2. v = [w EXCEPT !.srv[k] = e]
      BY <1>5, <2>1 DEF Upstream
    <2>3. v = Took(w, k, e, w.accepted)
      BY <2>2, TookSame
    <2>4. e = [w.srv[k] EXCEPT !.body = TRUE]
      BY <2>1
    <2>. QED
      BY <1>0, <1>5, <2>3, <2>4 DEF Replied
  <1>6. CASE h.cmd \in {"rset", "ehlo", "helo"}
    <2>1. v = [w EXCEPT !.srv[k] = idle]
      BY <1>6 DEF Upstream
    <2>2. v = Took(w, k, idle, w.accepted)
      BY <2>1, TookSame
    <2>. QED
      BY <1>0, <1>6, <2>2 DEF Replied
  <1>7. CASE /\ h.cmd \notin {"dot", "rset", "ehlo", "helo"}
             /\ code # "2xx" \/ h.cmd \notin {"mail", "rcpt", "data"}
    <2>1. v = w
      BY <1>7 DEF Upstream
    <2>2. v = Took(w, k, s, w.accepted)
      BY <2>1, TookSame
    <2>. QED
      BY <1>0, <1>7, <2>2 DEF Replied
  <1>. QED
    BY <1>1, <1>2, <1>3, <1>4, <1>5, <1>6, <1>7

LEMMA AllowedIs ==
    ASSUME NEW s, NEW h, NEW code, code \in Allowed(s, h)
    PROVE  code = "2xx" => /\ h.cmd = "mail" => s.from = NoTx
                           /\ h.cmd = "rcpt" => s.from # NoTx
                           /\ h.cmd = "data" => s.rcpts # {}
                           /\ h.cmd = "dot" => s.body
  <1>1. CASE h.cmd = "mail"
    BY <1>1 DEF Allowed
  <1>2. CASE h.cmd = "rcpt"
    BY <1>2 DEF Allowed
  <1>3. CASE h.cmd = "data"
    BY <1>3 DEF Allowed
  <1>4. CASE h.cmd = "dot"
    BY <1>4 DEF Allowed
  <1>5. CASE h.cmd \notin {"mail", "rcpt", "data", "dot"}
    BY <1>5 DEF Allowed
  <1>. QED
    BY <1>1, <1>2, <1>3, <1>4, <1>5

LEMMA MailedIdle ==
    ASSUME NEW t
    PROVE  Mailed(Idle, t)
  <1>1. Idle.from = NoTx /\ Idle.rcpts = {} /\ Idle.body = FALSE
    BY DEF Idle
  <1>. QED
    BY <1>1 DEF Mailed

LEMMA MailedStays ==
    ASSUME NEW w \in World, NEW k \in Ids, NEW h \in Line, NEW code,
           code \in Allowed(w.srv[k], h), NEW t \in TxId, Mailed(w.srv[k], t),
           h.cmd \in {"mail", "rcpt", "dot"} => h.tx = t,
           NEW e, NEW a, Replied(w, k, h, code, e, a)
    PROVE  Mailed(e, t)
  <1>. PICK s \in Envelope : s = w.srv[k]
    BY WorldIs
  <1>1. /\ code = "2xx" =>
              /\ h.cmd = "mail" => s.from = NoTx
              /\ h.cmd = "rcpt" => s.from # NoTx
              /\ h.cmd = "data" => s.rcpts # {}
              /\ h.cmd = "dot" => s.body
        /\ Mailed(s, t)
    BY AllowedIs
  <1>2. CASE e = Idle
    BY <1>2, MailedIdle
  <1>3. CASE e = s
    BY <1>1, <1>3
  <1>4. CASE code = "2xx" /\ h.cmd = "mail" /\ e = [s EXCEPT !.from = h.tx]
    <2>1. e.from = t /\ e.rcpts = s.rcpts /\ e.body = s.body
      BY <1>4 DEF Envelope
    <2>. QED
      BY <1>1, <1>4, <2>1 DEF Mailed
  <1>5. CASE code = "2xx" /\ h.cmd = "rcpt" /\ e = [s EXCEPT !.rcpts = @ \union {h.tx}]
    <2>1. e.from = s.from /\ e.rcpts = s.rcpts \union {t} /\ e.body = s.body
      BY <1>5 DEF Envelope
    <2>. QED
      BY <1>1, <1>5, <2>1 DEF Mailed
  <1>6. CASE code = "2xx" /\ h.cmd = "data" /\ e = [s EXCEPT !.body = TRUE]
    <2>1. e.from = s.from /\ e.rcpts = s.rcpts
      BY <1>6 DEF Envelope
    <2>. QED
      BY <1>1, <1>6, <2>1 DEF Mailed
  <1>. QED
    BY <1>2, <1>3, <1>4, <1>5, <1>6 DEF Replied

LEMMA AcceptedIs ==
    ASSUME NEW w, NEW k, NEW h, NEW t, Mailed(w.srv[k], t), w.srv[k].body, h.tx = t, h.clean
    PROVE  OfOne(Accepted(w, k, h)) /\ Accepted(w, k, h).body = t
  <1>1. w.srv[k].from = t /\ w.srv[k].rcpts = {t}
    BY DEF Mailed
  <1>. QED
    BY <1>1 DEF OfOne, Accepted

LEMMA SlippedIsOfOne ==
    ASSUME NEW w, NEW k, NEW h, w.cl[k].slipped
    PROVE  OfOne(Accepted(w, k, h))
  BY DEF OfOne, Accepted

(* A client at most one command of which is unanswered has had the reply.  *)
LEMMA OneTail ==
    ASSUME NEW s, NEW h, s = <<h>>
    PROVE  s[1] = h /\ Head(s) = h /\ Tail(s) = <<>>
  OBVIOUS

Replies(w, u, k, h, code, e, a) ==
    /\ Rest(u, k) /\ Replied(w, k, h, code, e, a)
    /\ u.cl = w.cl /\ u.wire[k] = Tail(w.wire[k]) /\ u.srv[k] = e /\ u.cn = w.cn /\ u.accepted = a

LEMMA ReplyRest ==
    ASSUME NEW w, NEW k \in Ids, Rest(w, k), w.wire[k] # <<>>, NEW h \in Line, NEW code,
           h.cmd = "dot" /\ code = "2xx" => OfOne(Accepted(w, k, h))
    PROVE  \E e, a : Replies(w, Upstream(Received(w, k), k, h, code), k, h, code, e, a)
  <1>0. /\ w \in World /\ w.cl[k] \in Client /\ w.wire[k] \in Seq(Line) /\ w.srv[k] \in Envelope
        /\ GoneIs(w, k) /\ Pool(w) /\ Truth(w)
    BY RestIs DEF Rest
  <1>1. ~Gone(w.cl[k])
    BY <1>0 DEF GoneIs
  <1>2. PICK s \in Seq(Line) : s = Tail(w.wire[k])
    BY <1>0, ReceivedIs
  <1>3. PICK r : r = Received(w, k)
    OBVIOUS
  <1>4. r = Put(w, k, w.cl[k], s, w.srv[k])
    BY <1>0, <1>2, <1>3, ReceivedIs
  <1>5. w.cl[k].slipped => w.cl[k].state # "none"
    BY <1>0 DEF GoneIs
  <1>6. InPool(w.avail, k) => Pooled(w.cl[k])
    BY <1>0 DEF Pool
  <1>7. Rest(r, k)
    BY <1>0, <1>1, <1>4, <1>5, <1>6, RestPut
  <1>8. /\ r \in World /\ r.cl[k] = w.cl[k] /\ r.wire[k] = s /\ r.srv[k] = w.srv[k]
        /\ \A j \in Ids : j # k => r.cl[j] = w.cl[j]
        /\ r.cn = w.cn /\ r.accepted = w.accepted
    BY <1>0, <1>4, Put_Is
  <1>9. r.cl = w.cl
    <2>1. r.cl \in [Ids -> Client] /\ w.cl \in [Ids -> Client]
      BY <1>0, <1>8, WorldIs
    <2>. QED
      BY <1>8, <2>1
  <1>10. PICK e \in Envelope, a \in SUBSET Message :
            /\ Upstream(r, k, h, code) = Took(r, k, e, a) /\ Replied(r, k, h, code, e, a)
    BY <1>8, UpstreamIs
  <1>11. Replied(w, k, h, code, e, a)
    BY <1>8, <1>10 DEF Replied, Accepted
  <1>12. w.accepted \subseteq a /\ \A m \in a : OfOne(m)
    <2>1. \A m \in w.accepted : OfOne(m)
      BY <1>0 DEF Truth
    <2>. QED
      BY <1>11, <2>1 DEF Replied
  <1>13. PICK u : u = Took(r, k, e, a)
    OBVIOUS
  <1>14. Rest(u, k)
    BY <1>1, <1>7, <1>8, <1>12, <1>13, TookRest
  <1>15. u.cl = w.cl /\ u.wire[k] = s /\ u.srv[k] = e /\ u.cn = w.cn /\ u.accepted = a
    BY <1>8, <1>9, <1>13, TookIs
  <1>. QED
    BY <1>2, <1>3, <1>10, <1>11, <1>13, <1>14, <1>15 DEF Replies

LEMMA LineGood ==
    ASSUME NEW w, NEW k \in Ids, Good(w), w.wire[k] # <<>>,
           NEW h, h = Head(w.wire[k]), NEW code, code \in Allowed(w.srv[k], h), NEW cap
    PROVE  Good(on_line(Upstream(Received(w, k), k, h, code), k, code, cap))
  <1>0. /\ w \in World /\ w.cl[k] \in Client /\ w.wire[k] \in Seq(Line) /\ w.srv[k] \in Envelope
        /\ GoneIs(w, k) /\ Rest(w, k) /\ Own(w, k)
    BY GoodIs, RestIs
  <1>1. h \in Line
    BY <1>0, AllowedIs
  <1>2. ~Gone(w.cl[k])
    BY <1>0 DEF GoneIs
  <1>3. PICK u : u = Upstream(Received(w, k), k, h, code)
    OBVIOUS
  <1>4. CASE w.cl[k].slipped
    <2>1. OfOne(Accepted(w, k, h))
      BY <1>4, SlippedIsOfOne
    <2>2. PICK e, a : Replies(w, u, k, h, code, e, a)
      BY <1>0, <1>1, <1>3, <2>1, ReplyRest
    <2>3. Slip(u, k)
      BY <1>4, <2>2 DEF Slip, Replies
    <2>4. Slip(on_line(u, k, code, cap), k)
      BY <2>3, SlipLine
    <2>. QED
      BY <1>3, <2>4, SlipIsGood
  <1>5. CASE ~w.cl[k].slipped /\ w.cl[k].state = "ACTIVE"
    <2>1. PICK c \in Conns : Serves(w, k, c)
      BY <1>0, <1>5 DEF Own
    <2>2. /\ ~w.cl[k].pool /\ EarsAre(w, w.cl[k].ears, c) /\ OneLine(w.cl[k], w.wire[k])
          /\ w.wire[k][1].cmd \in {"mail", "rcpt", "dot"} => w.wire[k][1].tx = w.cl[k].txn
          /\ WaitsFor(w, k, c) /\ Mailed(w.srv[k], w.cl[k].txn)
      BY <2>1 DEF Serves
    <2>3. PICK g \in Line : w.wire[k] = <<g>> /\ g.cmd = w.cl[k].command /\ g.clean
      BY <2>2 DEF OneLine
    <2>4. g = h /\ w.wire[k][1] = h /\ Tail(w.wire[k]) = <<>>
      BY <2>3, OneTail
    <2>5. PICK t \in TxId : t = w.cl[k].txn
      BY <1>0 DEF Client
    <2>6. h.cmd \in {"mail", "rcpt", "dot"} => h.tx = t
      BY <2>2, <2>4, <2>5
    <2>7. h.cmd = "dot" /\ code = "2xx" =>
             OfOne(Accepted(w, k, h)) /\ Accepted(w, k, h).body = t
      BY <2>2, <2>3, <2>4, <2>5, <2>6, AcceptedIs, AllowedIs
    <2>8. PICK e, a : Replies(w, u, k, h, code, e, a)
      BY <1>0, <1>1, <1>3, <2>7, ReplyRest
    <2>9. /\ Rest(u, k) /\ Replied(w, k, h, code, e, a) /\ u.cl = w.cl /\ u.wire[k] = <<>>
          /\ u.srv[k] = e /\ u.cn = w.cn /\ u.accepted = a
      BY <2>4, <2>8 DEF Replies
    <2>10. Mailed(e, t)
      BY <1>0, <1>1, <2>2, <2>5, <2>6, <2>9, MailedStays
    <2>11. \A d \in Conns : InNotes(u, k, d)
      BY <1>0, <1>5, <2>9 DEF Own, InNotes, Settled, Holds
    <2>12. EarsAre(u, u.cl[k].ears, c) /\ WaitsFor(u, k, c)
      BY <2>2, <2>9 DEF EarsAre, WaitsFor, Holds
    <2>13. At(u, k, c)
      BY <1>5, <2>2, <2>5, <2>9, <2>10, <2>11, <2>12 DEF At, InHand
    <2>14. u.cl[k].command = "dot" /\ code = "2xx" => Taken(u, k)
      <3>1. ASSUME u.cl[k].command = "dot", code = "2xx"
            PROVE  \E m \in u.accepted : m.body = u.cl[k].txn
        <4>1. h.cmd = "dot"
          BY <2>3, <2>4, <2>9, <3>1
        <4>2. Accepted(w, k, h) \in a
          BY <2>9, <3>1, <4>1 DEF Replied
        <4>. QED
          BY <2>5, <2>7, <2>9, <3>1, <4>1, <4>2
      <3>2. ASSUME u.cl[k].command = "dot", code = "2xx"
            PROVE  ~u.srv[k].body
        <4>1. h.cmd = "dot"
          BY <2>3, <2>4, <2>9, <3>2
        <4>2. e = Idle
          BY <2>9, <4>1 DEF Replied
        <4>. QED
          BY <2>9, <4>2 DEF Idle
      <3>. QED
        BY <3>1, <3>2 DEF Taken
    <2>. QED
      BY <1>3, <2>13, <2>14, HandLine
  <1>6. CASE ~w.cl[k].slipped /\ w.cl[k].state = "RELEASED"
    <2>1. /\ w.cl[k].pool /\ LeftOver(w, w.cl[k].ears) /\ OneLine(w.cl[k], w.wire[k])
          /\ w.cl[k].command = "rset"
      BY <1>0, <1>6 DEF Own, Released
    <2>2. PICK g \in Line : w.wire[k] = <<g>> /\ g.cmd = "rset"
      BY <2>1 DEF OneLine
    <2>3. g = h /\ Tail(w.wire[k]) = <<>>
      BY <2>2, OneTail
    <2>4. h.cmd # "dot"
      BY <2>2, <2>3
    <2>5. PICK e, a : Replies(w, u, k, h, code, e, a)
      BY <1>0, <1>1, <1>3, <2>4, ReplyRest
    <2>6. /\ Rest(u, k) /\ Replied(w, k, h, code, e, a) /\ u.cl = w.cl /\ u.wire[k] = <<>>
          /\ u.srv[k] = e /\ u.cn = w.cn
      BY <2>3, <2>5 DEF Replies
    <2>7. e = Idle
      BY <2>2, <2>3, <2>6 DEF Replied
    <2>8. \A d \in Conns : InNotes(u, k, d)
      BY <1>0, <1>6, <2>6 DEF Own, InNotes, Settled, Holds
    <2>9. Freed(u, k)
      BY <1>6, <2>1, <2>6, <2>7, <2>8 DEF Freed, LeftOver
    <2>. QED
      BY <1>3, <2>9, FreedLine
  <1>7. CASE ~w.cl[k].slipped /\ w.cl[k].state = "IDLE"
    BY <1>0, <1>7 DEF Own, Resting
  <1>. QED
    BY <1>0, <1>2, <1>4, <1>5, <1>6, <1>7 DEF Gone, Client

Left(w, c) == [w EXCEPT !.cn[c] = [@ EXCEPT !.up = FALSE, !.hook = ""]]

LEMMA LeftGood ==
    ASSUME NEW w, Good(w), NEW c \in Conns, w.cn[c].up
    PROVE  /\ Good(Reset(Left(w, c), c))
           /\ \A k \in Ids : Good(call_next(Let_go(Reset(Left(w, c), c), c), k, "cont"))
  <1>0. w \in World /\ w.cn[c] \in Conn /\ Links(w)
    BY WorldIs DEF Good
  <1>. PICK off \in BOOLEAN : off = FALSE
    OBVIOUS
  <1>1. PICK z : z = [w.cn[c] EXCEPT !.up = off, !.hook = ""]
    OBVIOUS
  <1>2. /\ z \in Conn /\ z.up = off /\ z.hook = "" /\ z.note = w.cn[c].note
        /\ z.calls = w.cn[c].calls /\ z.told = w.cn[c].told
    BY <1>0, <1>1 DEF Conn, Hooks
  <1>3. PICK v : v = WithConn(w, c, z)
    OBVIOUS
  <1>4. Left(w, c) = v
    BY <1>1, <1>3 DEF Left, WithConn
  <1>5. v \in World /\ v.cn[c] = z
    BY ONLY <1>0, <1>2, <1>3, ConnIs, c \in Conns
  <1>6. PICK y \in Conn :
           /\ Reset(v, c) = WithConn(v, c, y)
           /\ y.tx = 0 /\ y.up = v.cn[c].up /\ y.hook = v.cn[c].hook /\ y.note = v.cn[c].note
           /\ y.calls = v.cn[c].calls /\ y.told = v.cn[c].told
    BY <1>5, ResetIs
  <1>7. PICK u : u = WithConn(w, c, y)
    OBVIOUS
  <1>8. Reset(v, c) = u
    BY <1>0, <1>3, <1>6, <1>7, ConnConn
  <1>9. /\ y.tx = 0 /\ ~y.up /\ y.hook = "" /\ y.note = w.cn[c].note
        /\ y.calls = w.cn[c].calls /\ y.told = w.cn[c].told
    BY <1>2, <1>5, <1>6
  <1>10. plugin # "proxy" => y.note = 0
    BY <1>0, <1>9 DEF Links
  <1>11. LinkConn(w, c, y)
    BY <1>9, <1>10 DEF LinkConn
  <1>12. \A j \in Ids : Passes(w, j, c, y)
    BY <1>9 DEF Passes
  <1>13. Good(u)
    BY <1>7, <1>9, <1>11, <1>12, ToldSame, GoodConn
  <1>14. u.cn[c] = y /\ u.cl = w.cl
    BY ONLY <1>0, <1>7, ConnIs, c \in Conns, y \in Conn
  <1>15. HisOwn(u, c)
    <2>1. HisOwn(w, c)
      BY NoteIsHis
    <2>. QED
      BY <1>9, <1>14, <2>1 DEF HisOwn
  <1>16. Good(Let_go(u, c))
    BY <1>13, <1>15, LetGoGood
  <1>17. ASSUME NEW k \in Ids
         PROVE  Good(call_next(Let_go(u, c), k, "cont"))
    BY <1>16, CanSayNo, CallNextGood
  <1>. QED
    BY <1>4, <1>8, <1>13, <1>17

(* A hook times out that no client works for.                              *)
LEMMA TimeoutGood ==
    ASSUME NEW w, Good(w), NEW c \in Conns,
           ~ \E i \in 1..Len(w.waiting) : w.waiting[i].conn = c /\ w.waiting[i].id = w.cn[c].calls,
           ~ \E k \in Ids : w.cl[k].state = "ACTIVE" /\ w.cl[k].next = <<c, w.cn[c].calls>>
    PROVE  Good(Answer(w, c, w.cn[c].calls, "denysoft", 0))
  <1>0. Links(w)
    BY DEF Good
  <1>1. ASSUME w.cn[c].up, NEW i \in 1..Len(w.waiting), w.waiting[i].conn = c
        PROVE  FALSE
    <2>1. Called(w, w.waiting[i])
      BY <1>0 DEF Links
    <2>2. w.waiting[i].id = w.cn[c].calls
      BY <1>1, <2>1 DEF Called
    <2>. QED
      BY <1>1, <2>2
  <1>2. \A j \in Ids : w.cl[j].state = "ACTIVE" /\ w.wire[j] # <<>> => ~Holds(w, j, c)
    BY DEF Holds
  <1>. QED
    BY <1>1, <1>2, AnswerGood

----------------------------------------------------------------------------
(* The other events of a client.                                           *)
LEMMA UnrecognisedGood ==
    ASSUME NEW w, Good(w), NEW k \in Ids, w.wire[k] # <<>>, w.cl[k].ears # <<>>
    PROVE  Good(junk(w, k))
  <1>1. Rest(w, k) /\ GoneIs(w, k)
    BY GoodIs DEF Good
  <1>2. w.cl[k].state # "none"
    BY <1>1 DEF GoneIs, Gone
  <1>. QED
    BY <1>2, JunkGood

Piped(w, k) == [w EXCEPT !.wire[k][Len(w.wire[k])].whole = TRUE]

Ended(s) == [s EXCEPT ![Len(s)].whole = TRUE]

LEMMA EndedIs ==
    ASSUME NEW s \in Seq(Line), s # <<>>
    PROVE  /\ Ended(s) \in Seq(Line)
           /\ \A h \in Line : s = <<h>> =>
                 \E g \in Line : Ended(s) = <<g>> /\ g.cmd = h.cmd /\ g.tx = h.tx /\ g.clean = h.clean
  <1>. PICK on \in BOOLEAN : on = TRUE
    OBVIOUS
  <1>. PICK n \in Nat : n = Len(s)
    BY LenProperties
  <1>1. n \in 1..n /\ n \in 1..Len(s) /\ s \in [1..n -> Line]
    BY LenProperties, EmptySeq
  <1>2. PICK g : g = [s[n] EXCEPT !.whole = on]
    OBVIOUS
  <1>3. s[n] \in Line
    BY <1>1
  <1>4. g \in Line /\ g.cmd = s[n].cmd /\ g.tx = s[n].tx /\ g.clean = s[n].clean
    BY <1>2, <1>3 DEF Line
  <1>5. PICK r : r = [s EXCEPT ![n] = g]
    OBVIOUS
  <1>6. Ended(s) = r
    BY <1>2, <1>5 DEF Ended
  <1>7. r \in Seq(Line)
    BY <1>4, <1>5, ExceptSeq
  <1>8. ASSUME NEW h \in Line, s = <<h>>
        PROVE  Ended(s) = <<g>> /\ g.cmd = h.cmd /\ g.tx = h.tx /\ g.clean = h.clean
    <2>1. n = 1 /\ s[1] = h
      BY <1>8
    <2>2. r = <<g>>
      BY <1>5, <1>8, <2>1
    <2>. QED
      BY <1>4, <1>6, <2>1, <2>2
  <1>. QED
    BY <1>4, <1>6, <1>7, <1>8

LEMMA PipedGood ==
    ASSUME NEW w, Good(w), NEW k \in Ids, w.wire[k] # <<>>
    PROVE  Good(Piped(w, k))
  <1>1. Rest(w, k) /\ GoneIs(w, k) /\ Own(w, k)
    BY GoodIs DEF Good
  <1>2. w \in World /\ w.cl[k] \in Client /\ w.wire[k] \in Seq(Line) /\ w.srv[k] \in Envelope
    BY <1>1, RestIs
  <1>3. PICK s : s = Ended(w.wire[k])
    OBVIOUS
  <1>4. /\ s \in Seq(Line)
        /\ \A h \in Line : w.wire[k] = <<h>> =>
              \E g \in Line : s = <<g>> /\ g.cmd = h.cmd /\ g.tx = h.tx /\ g.clean = h.clean
    BY <1>2, <1>3, EndedIs
  <1>5. PICK v : v = Put(w, k, w.cl[k], s, w.srv[k])
    OBVIOUS
  <1>6. Piped(w, k) = v
    <2>1. Piped(w, k) = [w EXCEPT !.wire[k] = s]
      BY <1>3 DEF Piped, Ended
    <2>2. [w EXCEPT !.wire[k] = s] = Put(w, k, w.cl[k], s, w.srv[k])
      BY <1>2 DEF Put, World
    <2>. QED
      BY <1>5, <2>1, <2>2
  <1>7. /\ w.cl[k].next \in {NoTx, w.cl[k].next}
        /\ Gone(w.cl[k]) => s = <<>> /\ w.srv[k] = Idle
        /\ w.cl[k].slipped => w.cl[k].state # "none"
        /\ InPool(w.avail, k) => Pooled(w.cl[k])
    BY <1>1 DEF GoneIs, Rest, Pool
  <1>8. Rest(v, k)
    BY <1>1, <1>2, <1>4, <1>5, <1>7, RestPut
  <1>9. v.cl[k] = w.cl[k] /\ v.wire[k] = s /\ v.srv[k] = w.srv[k] /\ v.cn = w.cn
    BY ONLY <1>2, <1>4, <1>5, Put_Is, k \in Ids
  <1>10. ASSUME ~w.cl[k].slipped
         PROVE  Own(v, k)
    <2>1. ASSUME NEW c \in Conns, Serves(w, k, c)
          PROVE  Serves(v, k, c)
      <3>1. PICK h \in Line : w.wire[k] = <<h>> /\ h.cmd = w.cl[k].command /\ h.clean
        BY <2>1 DEF Serves, OneLine
      <3>2. PICK g \in Line : s = <<g>> /\ g.cmd = h.cmd /\ g.tx = h.tx /\ g.clean = h.clean
        BY <1>4, <3>1
      <3>3. OneLine(v.cl[k], v.wire[k])
        BY <1>9, <3>1, <3>2 DEF OneLine
      <3>4. WaitsFor(v, k, c)
        BY <1>9, <2>1 DEF Serves, WaitsFor, Holds
      <3>5. g.cmd \in {"mail", "rcpt", "dot"} => g.tx = v.cl[k].txn
        BY <1>9, <2>1, <3>1, <3>2 DEF Serves
      <3>6. EarsAre(v, v.cl[k].ears, c) /\ ~v.cl[k].pool /\ Mailed(v.srv[k], v.cl[k].txn)
        BY <1>9, <2>1 DEF Serves, EarsAre
      <3>. QED
        BY <1>9, <3>2, <3>3, <3>4, <3>5, <3>6 DEF Serves
    <2>2. ASSUME Released(w, k)
          PROVE  Released(v, k)
      <3>1. PICK h \in Line : w.wire[k] = <<h>> /\ h.cmd = w.cl[k].command /\ h.clean
        BY <2>2 DEF Released, OneLine
      <3>2. PICK g \in Line : s = <<g>> /\ g.cmd = h.cmd /\ g.tx = h.tx /\ g.clean = h.clean
        BY <1>4, <3>1
      <3>3. OneLine(v.cl[k], v.wire[k])
        BY <1>9, <3>1, <3>2 DEF OneLine
      <3>. QED
        BY <1>9, <2>2, <3>3 DEF Released, LeftOver
    <2>3. ~Resting(w, k)
      BY DEF Resting
    <2>4. \A c \in Conns : InNotes(w, k, c) => InNotes(v, k, c)
      BY <1>9 DEF InNotes, Settled, Holds
    <2>. QED
      BY <1>1, <1>9, <1>10, <2>1, <2>2, <2>3, <2>4 DEF Own
  <1>11. CASE w.cl[k].slipped
    BY <1>6, <1>8, <1>9, <1>11, SlipIsGood DEF Slip
  <1>12. CASE ~w.cl[k].slipped
    BY <1>6, <1>8, <1>10, <1>12, GoodIs
  <1>. QED
    BY <1>11, <1>12

LEMMA ClosedGood ==
    ASSUME NEW w, Good(w), NEW k \in Ids, w.cl[k].state # "none"
    PROVE  Good(destroy(w, k))
  <1>1. Rest(w, k)
    BY GoodIs
  <1>. QED
    BY <1>1, DestroyIs

LEMMA DispenseGood ==
    ASSUME NEW w, Good(w), w.waiting # <<>>, CanCreate(w)
    PROVE  Good(Create(WithWaiting(w, Tail(w.waiting)), Head(w.waiting)))
  <1>1. Rest(w, 0) /\ w \in World
    BY DEF Good, Rest
  <1>2. PICK v : v = WithWaiting(w, Tail(w.waiting))
    OBVIOUS
  <1>3. PICK call : call = Head(w.waiting)
    OBVIOUS
  <1>4. /\ call \in Caller /\ Tail(w.waiting) \in Seq(Caller)
        /\ Rest(v, 0) /\ Called(v, call) /\ NoneWaits(v, call.conn)
    BY <1>1, <1>2, <1>3, FirstServed
  <1>5. Good(v)
    BY <1>4, IdsAre DEF Good, Rest
  <1>6. v.cl = w.cl /\ v.cn = w.cn
    BY ONLY <1>1, <1>2, <1>4, WaitingIs
  <1>7. CanCreate(v)
    <2>1. Fresh(v) = Fresh(w) /\ Open(v) = Open(w)
      BY <1>6 DEF Fresh, Open
    <2>. QED
      BY <2>1 DEF CanCreate
  <1>8. Good(Create(v, call))
    BY <1>4, <1>5, <1>7, CreateGood
  <1>. QED
    BY <1>2, <1>3, <1>8

----------------------------------------------------------------------------
(* The next state is the one an event makes.                               *)
LEMMA CollectedGood ==
    ASSUME NEW w, Good(w)
    PROVE  Good(Collected(w))
  <1>. PICK v : v = Collected(w)
    OBVIOUS
  <1>0. /\ w \in World /\ Links(w) /\ Pool(w) /\ Truth(w)
        /\ \A j \in Ids : GoneIs(w, j) /\ Own(w, j)
    BY DEF Good
  <1>1. PICK f : f = [k \in Ids |-> IF Garbage(w, k) THEN NewClient ELSE w.cl[k]]
    OBVIOUS
  <1>2. v = [w EXCEPT !.cl = f]
    BY <1>1 DEF Collected
  <1>3. f \in [Ids -> Client]
    <2>1. \A k \in Ids : w.cl[k] \in Client
      BY <1>0, WorldIs
    <2>. QED
      BY <1>1, <2>1, NewClientIs
  <1>4. v \in World
    BY <1>0, <1>2, <1>3 DEF World
  <1>5. /\ v.cl = f /\ v.wire = w.wire /\ v.srv = w.srv /\ v.cn = w.cn /\ v.avail = w.avail
        /\ v.waiting = w.waiting /\ v.accepted = w.accepted
    BY <1>0, <1>2 DEF World
  <1>6. /\ \A j \in Ids : Garbage(w, j) => v.cl[j] = NewClient
        /\ \A j \in Ids : ~Garbage(w, j) => v.cl[j] = w.cl[j]
    BY <1>1, <1>5
  <1>7. NewClient.state = "none" /\ ~NewClient.slipped /\ NewClient.next = NoTx
    BY DEF NewClient, NoTx
  <1>8. ASSUME NEW j \in Ids
        PROVE  GoneIs(v, j) /\ Own(v, j)
    <2>1. CASE Garbage(w, j)
      <3>1. w.cl[j].state = "DESTROYED" /\ \A c \in Conns : w.cn[c].note # j
        BY <2>1 DEF Garbage
      <3>2. w.wire[j] = <<>> /\ w.srv[j] = Idle
        BY <1>0, <3>1 DEF GoneIs, Gone
      <3>3. v.cl[j].state = "none" /\ ~v.cl[j].slipped
        BY <1>6, <1>7, <2>1
      <3>4. GoneIs(v, j)
        BY <1>5, <3>2, <3>3 DEF GoneIs
      <3>5. \A c \in Conns : InNotes(v, j, c)
        BY <1>5, <3>1 DEF InNotes
      <3>. QED
        BY <3>3, <3>4, <3>5 DEF Own
    <2>2. CASE ~Garbage(w, j)
      <3>1. SameClient(w, v, j)
        BY <1>5, <1>6, <2>2 DEF SameClient
      <3>2. Own(v, j)
        BY <1>0, <1>5, <3>1, SameOwn
      <3>3. v.cl[j] = w.cl[j]
        BY <1>6, <2>2
      <3>. QED
        BY <1>0, <1>5, <3>2, <3>3 DEF GoneIs
    <2>. QED
      BY <2>1, <2>2
  <1>9. Links(v)
    <2>1. \A j \in Ids : v.cl[j].next \in {NoTx, w.cl[j].next}
      BY <1>6, <1>7
    <2>2. v.cn = w.cn /\ v.waiting = w.waiting /\ Links(w)
      BY <1>0, <1>5
    <2>. QED
      BY ONLY <2>1, <2>2, SameLinks
  <1>10. Pool(v)
    <2>1. \A k \in Ids : InPool(w.avail, k) => Pooled(v.cl[k])
      BY <1>0, <1>6 DEF Pool, Pooled, Gone, Garbage
    <2>. QED
      BY <1>0, <1>5, <2>1 DEF Pool
  <1>11. Truth(v)
    BY <1>0, <1>5 DEF Truth
  <1>. QED
    BY <1>4, <1>8, <1>9, <1>10, <1>11 DEF Good

LEMMA BecomeIs ==
    ASSUME NEW w, Good(w), Become(w)
    PROVE  \E v : Good(v) /\ Now' = v /\ plugin' = plugin
  <1>1. PICK u : u = Collected(w)
    OBVIOUS
  <1>2. Good(u)
    BY <1>1, CollectedGood
  <1>3. PICK v : v = WithAhead(u, <<>>)
    OBVIOUS
  <1>4. Good(v)
    BY <1>2, <1>3, AheadGood, EmptySeq
  <1>5. /\ u.wire = w.wire /\ u.srv = w.srv /\ u.cn = w.cn /\ u.avail = w.avail
        /\ u.waiting = w.waiting /\ u.accepted = w.accepted /\ u \in World
    BY <1>1, <1>2 DEF Collected, Good, World
  <1>6. /\ cl' = u.cl /\ wire' = u.wire /\ srv' = u.srv /\ cn' = u.cn
        /\ avail' = u.avail /\ waiting' = u.waiting /\ accepted' = u.accepted /\ plugin' = plugin
    BY <1>1, <1>5 DEF Become
  <1>7. Now' = v
    BY <1>3, <1>5, <1>6 DEF Now, WithAhead, World
  <1>. QED
    BY <1>4, <1>6, <1>7

LEMMA BecomeGood ==
    ASSUME NEW w, Good(w), Now' = w, plugin' = plugin
    PROVE  Good(Now)'
  <1>1. (Now \in World)'
    BY DEF Good, World, Client, Line, Envelope, Conn, Caller, Message, TxId, Commands, Hooks, Ids
  <1>2. (\A j \in Ids : GoneIs(Now, j))'
    BY DEF Good, GoneIs, Gone, Ids, Idle, NoTx
  <1>3. ASSUME NEW j \in Ids
        PROVE  Own(Now, j)'
    <2>0. Own(w, j)
      BY DEF Good
    <2>1. \A c \in Conns : Serves(w, j, c) => Serves(Now, j, c)'
      BY DEF Serves, EarsAre, OneLine, WaitsFor, Holds, Mailed
    <2>2. Released(w, j) => Released(Now, j)'
      BY DEF Released, LeftOver, OneLine
    <2>3. Resting(w, j) => Resting(Now, j)'
      BY DEF Resting, LeftOver
    <2>4. \A c \in Conns : InNotes(w, j, c) => InNotes(Now, j, c)'
      BY DEF InNotes, Settled, Holds
    <2>. QED
      BY <2>0, <2>1, <2>2, <2>3, <2>4 DEF Own
  <1>4. Links(Now)'
    BY DEF Good, Links, Called, Holds, Ids
  <1>5. Pool(Now)'
    BY DEF Good, Pool, Pooled, InPool, Gone, Ids
  <1>6. Truth(Now)'
    BY DEF Good, Truth, OfOne
  <1>. QED
    BY <1>1, <1>2, <1>3, <1>4, <1>5, <1>6 DEF Good

----------------------------------------------------------------------------
(* Every step keeps it.                                                    *)
LEMMA InitGood ==
    ASSUME Init
    PROVE  Good(Now)
  <1>. PICK w : w = Now
    OBVIOUS
  <1>1. /\ w.cl = [k \in Ids |-> NewClient] /\ w.wire = [k \in Ids |-> <<>>]
        /\ w.srv = [k \in Ids |-> Idle] /\ w.cn = [c \in Conns |-> NewConn]
        /\ w.avail = <<>> /\ w.waiting = <<>> /\ w.accepted = {} /\ w.ahead = <<>>
    BY DEF Init, Now
  <1>2. \A c \in Conns : /\ w.cn[c].up /\ w.cn[c].hook = "" /\ w.cn[c].note = 0
                         /\ w.cn[c].told = {}
    <2>1. NewConn.up
      BY DEF NewConn
    <2>2. NewConn.hook = "" /\ NewConn.note = 0 /\ NewConn.told = {}
      BY DEF NewConn
    <2>3. \A c \in Conns : w.cn[c] = NewConn
      BY <1>1
    <2>. QED
      BY <2>1, <2>2, <2>3
  <1>3. \A k \in Ids : /\ w.cl[k].state = "none" /\ ~w.cl[k].slipped /\ w.cl[k].next = <<>>
                       /\ w.wire[k] = <<>> /\ w.srv[k] = Idle
    BY <1>1 DEF NewClient
  <1>4. w \in World
    <2>1. NewConn \in Conn
      BY DEF NewConn, Conn, Hooks
    <2>2. NewClient \in Client /\ Idle \in Envelope
      BY NewClientIs, IdleIs
    <2>3. /\ w.wire \in [Ids -> Seq(Line)] /\ w.avail \in Seq(Ids) /\ w.waiting \in Seq(Caller)
          /\ w.ahead \in Seq(Commanded)
      BY <1>1, EmptySeq
    <2>4. w.cl \in [Ids -> Client] /\ w.srv \in [Ids -> Envelope] /\ w.cn \in [Conns -> Conn]
      BY <1>1, <2>1, <2>2
    <2>5. w.accepted \in SUBSET Message
      BY <1>1
    <2>. QED
      BY <2>3, <2>4, <2>5 DEF World, Now
  <1>5. \A j \in Ids : GoneIs(w, j)
    BY <1>3 DEF GoneIs
  <1>6. ASSUME NEW j \in Ids
        PROVE  Own(w, j)
    BY <1>2, <1>3, IdsAre DEF Own, InNotes, Settled, Holds
  <1>7. Links(w)
    <2>1. Len(w.waiting) = 0
      BY <1>1
    <2>2. \A i \in 1..Len(w.waiting) : FALSE
      BY <2>1
    <2>3. \A k \in Ids, c \in Conns, n \in Nat : w.cl[k].next # <<c, n>>
      BY <1>3
    <2>4. \A k \in Ids, c \in Conns : ~Holds(w, k, c)
      BY <1>2 DEF Holds
    <2>. QED
      BY <1>2, <2>2, <2>3, <2>4 DEF Links
  <1>8. Pool(w)
    <2>1. Len(w.avail) = 0
      BY <1>1
    <2>2. \A i \in 1..Len(w.avail) : FALSE
      BY <2>1
    <2>. QED
      BY <2>2 DEF Pool, InPool
  <1>9. Truth(w)
    BY <1>1, <1>2 DEF Truth
  <1>. QED
    BY <1>4, <1>5, <1>6, <1>7, <1>8, <1>9 DEF Good

LEMMA AheadIs ==
    ASSUME NEW k \in Ids, NEW x \in Ahead(k)
    PROVE  x \in Seq(Commanded)
  <1>1. \A y \in Commanded : <<y>> \in Seq(Commanded)
    OBVIOUS
  <1>2. \A y, z \in Commanded : <<y, z>> \in Seq(Commanded)
    OBVIOUS
  <1>3. x = <<>> \/ (\E y \in Commanded : x = <<y>>) \/ \E y, z \in Commanded : x = <<y, z>>
    BY DEF Ahead
  <1>. QED
    BY <1>1, <1>2, <1>3, EmptySeq

LEMMA NextGood ==
    ASSUME ~SlowUpstream, Good(Now), Next
    PROVE  Good(Now)'
  <1>s. PICK s : s = Now
    OBVIOUS
  <1>1. /\ Good(s) /\ s.cl = cl /\ s.wire = wire /\ s.srv = srv /\ s.cn = cn /\ s.avail = avail
        /\ s.waiting = waiting /\ s.accepted = accepted
    BY <1>s DEF Now
  <1>2. ASSUME NEW w, Good(w), Become(w)
        PROVE  Good(Now)'
    BY <1>2, BecomeIs, BecomeGood
  <1>a. ASSUME NEW k \in Ids, NEW x \in Ahead(k)
        PROVE  \E u : /\ u = With(x) /\ Good(u) /\ u.wire = wire /\ u.srv = srv /\ u.cl = cl
    <2>1. With(x) = WithAhead(s, x)
      BY <1>s DEF With, WithAhead
    <2>2. x \in Seq(Commanded)
      BY AheadIs
    <2>3. Good(WithAhead(s, x))
      BY ONLY <1>1, <2>2, AheadGood
    <2>4. With(x).wire = wire /\ With(x).srv = srv /\ With(x).cl = cl
      BY DEF With, Now
    <2>. QED
      BY <2>1, <2>3, <2>4
  <1>3. ASSUME NEW k \in Ids, line(k)
        PROVE  Good(Now)'
    <2>1. PICK h : h = Head(wire[k])
      OBVIOUS
    <2>2. PICK code \in Allowed(srv[k], h), cap \in Offered(k), x \in Ahead(k) :
             Become(on_line(Upstream(Received(With(x), k), k, h, code), k, code, cap))
      BY <1>3, <2>1 DEF line, Received
    <2>3. wire[k] # <<>>
      BY <1>3 DEF line
    <2>4. PICK u : u = With(x) /\ Good(u) /\ u.wire = wire /\ u.srv = srv
      BY <1>a
    <2>5. Good(on_line(Upstream(Received(u, k), k, h, code), k, code, cap))
      <3>1. u.wire[k] # <<>> /\ h = Head(u.wire[k]) /\ code \in Allowed(u.srv[k], h)
        BY <2>1, <2>2, <2>3, <2>4
      <3>. QED
        BY ONLY <2>4, <3>1, k \in Ids, LineGood
    <2>. QED
      BY <1>2, <2>2, <2>4, <2>5
  <1>4. ASSUME NEW k \in Ids, unrecognised(k)
        PROVE  Good(Now)'
    <2>1. PICK x \in Ahead(k) : Become(junk(With(x), k))
      BY <1>4 DEF unrecognised
    <2>2. wire[k] # <<>> /\ cl[k].ears # <<>>
      BY <1>4 DEF unrecognised
    <2>3. PICK u : u = With(x) /\ Good(u) /\ u.wire = wire /\ u.cl = cl
      BY <1>a
    <2>4. Good(junk(u, k))
      BY <2>2, <2>3, UnrecognisedGood
    <2>. QED
      BY <1>2, <2>1, <2>3, <2>4
  <1>5. ASSUME NEW k \in Ids, piped(k)
        PROVE  Good(Now)'
    <2>1. Become(Piped(s, k)) /\ s.wire[k] # <<>>
      BY <1>1, <1>5, <1>s DEF piped, Piped, BodyOpen
    <2>2. Good(Piped(s, k))
      BY <1>1, <2>1, PipedGood
    <2>. QED
      BY <1>2, <2>1, <2>2
  <1>6. ASSUME NEW k \in Ids, closed(k)
        PROVE  Good(Now)'
    <2>1. Become(destroy(s, k)) /\ s.cl[k].state # "none"
      BY <1>1, <1>6, <1>s DEF closed
    <2>2. Good(destroy(s, k))
      BY <1>1, <2>1, ClosedGood
    <2>. QED
      BY <1>2, <2>1, <2>2
  <1>7. ASSUME dispense
        PROVE  Good(Now)'
    <2>1. s.waiting # <<>> /\ CanCreate(s)
      BY <1>1, <1>7, <1>s DEF dispense
    <2>2. Become(Create(WithWaiting(s, Tail(s.waiting)), Head(s.waiting)))
      BY <1>1, <1>7, <1>s DEF dispense, WithWaiting
    <2>3. Good(Create(WithWaiting(s, Tail(s.waiting)), Head(s.waiting)))
      BY <1>1, <2>1, DispenseGood
    <2>. QED
      BY <1>2, <2>2, <2>3
  <1>8. ASSUME NEW c \in Conns, NEW cmd \in Commanded, command(c, cmd)
        PROVE  Good(Now)'
    <2>1. MayRun(s, c, cmd) /\ Become(Run(s, c, cmd))
      BY <1>8, <1>s, ValidIs DEF command
    <2>2. Good(Run(s, c, cmd))
      BY <1>1, <2>1, RunGood
    <2>. QED
      BY <1>2, <2>1, <2>2
  <1>9. ASSUME NEW c \in Conns, rejected(c)
        PROVE  Good(Now)'
    <2>1. s.cn[c].hook = ""
      BY <1>1, <1>9 DEF rejected
    <2>2. Become(Reset(s, c))
      BY <1>9, <1>s DEF rejected
    <2>3. Good(Reset(s, c))
      BY <1>1, <2>1, ResetGood
    <2>. QED
      BY <1>2, <2>2, <2>3
  <1>10. ASSUME NEW c \in Conns, disconnect(c)
         PROVE  Good(Now)'
    <2>1. s.cn[c].up
      BY <1>1, <1>10 DEF disconnect
    <2>2. PICK w : w = Reset(Left(s, c), c)
      OBVIOUS
    <2>3. PICK k : k = cn[c].note
      OBVIOUS
    <2>4. Become(IF k = 0 THEN w ELSE call_next(Let_go(w, c), k, "cont"))
      BY <1>10, <1>s, <2>2, <2>3 DEF disconnect, Left
    <2>5. Good(w) /\ \A j \in Ids : Good(call_next(Let_go(w, c), j, "cont"))
      BY <1>1, <2>1, <2>2, LeftGood
    <2>6. k = 0 \/ k \in Ids
      <3>1. s \in World
        BY <1>1 DEF Good
      <3>2. s.cn[c] \in Conn
        BY <3>1, WorldIs
      <3>. QED
        BY <1>1, <2>3, <3>2 DEF Conn
    <2>. QED
      BY <1>2, <2>4, <2>5, <2>6
  <1>11. ASSUME NEW c \in Conns, hook_timeout(c)
         PROVE  Good(Now)'
    <2>1. ~Working(c)
      BY <1>11 DEF hook_timeout
    <2>2. Become(Answer(s, c, s.cn[c].calls, "denysoft", 0))
      BY <1>1, <1>11, <1>s DEF hook_timeout
    <2>3. Good(Answer(s, c, s.cn[c].calls, "denysoft", 0))
      BY <1>1, <2>1, TimeoutGood DEF Working
    <2>. QED
      BY <1>2, <2>2, <2>3
  <1>. QED
    BY <1>3, <1>4, <1>5, <1>6, <1>7, <1>8, <1>9, <1>10, <1>11 DEF Next

----------------------------------------------------------------------------
(* The theorems.  Their hypothesis is what the docs ask for, a             *)
(* plugin_timeout that ends no hook a client still works for.              *)
LEMMA SpecGood ==
    ASSUME ~SlowUpstream
    PROVE  Spec => []Good(Now)
  <1>1. Init => Good(Now)
    BY InitGood
  <1>2. Good(Now) /\ [Next]_vars => Good(Now)'
    <2>1. ASSUME Good(Now), Next
          PROVE  Good(Now)'
      BY <2>1, NextGood
    <2>2. ASSUME Good(Now), UNCHANGED vars
          PROVE  Good(Now)'
      <3>1. PICK w : w = Now
        OBVIOUS
      <3>2. Good(w) /\ Now' = w /\ plugin' = plugin
        BY <2>2, <3>1 DEF vars, Now
      <3>. QED
        BY <3>2, BecomeGood
    <2>. QED
      BY <2>1, <2>2
  <1>. QED
    BY <1>1, <1>2, PTL DEF Spec

LEMMA GoodInStep ==
    ASSUME Good(Now)
    PROVE  InStep
  <1>1. ASSUME NEW k \in Ids, cl[k].state \in {"ACTIVE", "IDLE", "RELEASED"}, ~cl[k].slipped
        PROVE  /\ Len(wire[k]) <= 1
               /\ wire[k] # <<>> => Head(wire[k]).cmd = cl[k].command /\ Head(wire[k]).clean
               /\ cl[k].state = "IDLE" => wire[k] = <<>>
    <2>1. Own(Now, k) /\ Now.cl[k] = cl[k] /\ Now.wire[k] = wire[k]
      BY DEF Good, Now
    <2>2. OneLine(cl[k], wire[k])
      BY <1>1, <2>1 DEF Own, Serves, Released, Resting, OneLine
    <2>0. cl[k].state = "IDLE" => wire[k] = <<>>
      BY <1>1, <2>1 DEF Own, Resting
    <2>3. CASE wire[k] = <<>>
      BY <2>3
    <2>4. CASE wire[k] # <<>>
      <3>1. PICK h \in Line : wire[k] = <<h>> /\ h.cmd = cl[k].command /\ h.clean
        BY <2>2, <2>4 DEF OneLine
      <3>2. Len(wire[k]) = 1 /\ Head(wire[k]) = h
        BY <3>1
      <3>. QED
        BY <2>0, <3>1, <3>2
    <2>. QED
      BY <2>3, <2>4
  <1>. QED
    BY <1>1 DEF InStep

(* A client that was never reused too early, nor answered a hook before    *)
(* upstream had replied, takes the next line of the upstream server for    *)
(* the reply to the command it is the reply to: whatever senders pipeline, *)
(* commands that run inside the call of next() included.                   *)
THEOREM AlwaysInStep ==
    ASSUME ~SlowUpstream
    PROVE  Spec => []InStep
  <1>1. Good(Now) => InStep
    BY GoodInStep
  <1>2. Spec => []Good(Now)
    BY SpecGood
  <1>. QED
    BY <1>1, <1>2, PTL

(* What upstream accepts from such a client is one message: its sender,    *)
(* its recipients and its text are those of one transaction, and no        *)
(* command is in the text.                                                 *)
THEOREM AlwaysOneEnvelope ==
    ASSUME ~SlowUpstream
    PROVE  Spec => []OneEnvelope
  <1>1. Good(Now) => OneEnvelope
    BY DEF Good, Truth, OfOne, OneEnvelope, Now
  <1>2. Spec => []Good(Now)
    BY SpecGood
  <1>. QED
    BY <1>1, <1>2, PTL

(* A sender whose queue hook was answered OK by such a client has his      *)
(* message upstream.                                                       *)
THEOREM AlwaysTellsTruth ==
    ASSUME ~SlowUpstream
    PROVE  Spec => []TellsTruth
  <1>1. Good(Now) => TellsTruth
    BY DEF Good, Truth, TellsTruth, Now
  <1>2. Spec => []Good(Now)
    BY SpecGood
  <1>. QED
    BY <1>1, <1>2, PTL
=============================================================================
