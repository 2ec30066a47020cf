--------------------------- MODULE MessageStream ---------------------------
(***************************************************************************)
(* messagestream.js and chunkemitter.js: the store of one message.  Lines  *)
(* are collected into chunks; what exceeds spool_after goes to a file      *)
(* through a write stream that opens and drains asynchronously; plugins    *)
(* read the message back one after another, with back-pressure.            *)
(*                                                                         *)
(* A chunk is <<number, length>>: Full units, a single one for the rest of *)
(* a message; out is what the present reader was given: Headers, then the  *)
(* chunks.  process.nextTick runs before any other event and *)
(* is part of the step that asked for it.  The message has at least one    *)
(* line.                                                                   *)
(***************************************************************************)
EXTENDS Integers, Sequences, FiniteSets

CONSTANTS
    MaxChunks,    \* bound: chunks of a message
    SpoolAfter,   \* values of buffer_max: -1 for none, else units
    MaxPipes      \* bound: readers of the message

Full == 2         \* units of a chunk that fills the ChunkEmitter

VARIABLES
    buffer_max,
    given,        \* the chunks the ChunkEmitter has emitted
    ms            \* the stream: its fields

vars == <<buffer_max, given, ms>>

NewStream ==
    [queue |-> <<>>, buffered |-> 0, spooling |-> FALSE, file |-> <<>>,
     fd |-> FALSE, open_pending |-> FALSE, write_pending |-> FALSE,
     end_called |-> FALSE, ended |-> 0, write_complete |-> FALSE,
     in_pipe |-> FALSE, paused |-> FALSE, headers_done |-> FALSE, rs |-> 0,
     listens |-> FALSE, out |-> <<>>, pipes |-> 0, thrown |-> FALSE,
     reads |-> {}, failed |-> FALSE, destroyed |-> "no", exists |-> FALSE]

Init ==
    /\ buffer_max \in SpoolAfter
    /\ given = <<>>
    /\ ms = NewStream

Headers == <<0, 0>>

-----------------------------------------------------------------------------
(***************************************************************************)
(* Reading: _read, process_buf, _read_finish.                              *)
(***************************************************************************)

\* A reader still listening is given x.
Emit(s, x) == IF s.listens THEN [s EXCEPT !.out = Append(@, x)] ELSE s

_read_finish(s) ==
    [s EXCEPT !.in_pipe = FALSE, !.rs = 0, !.listens = FALSE,
              !.reads = IF s.listens THEN @ \union {s.out} ELSE @]

\* From memory all chunks go out at once, whatever pause() was called.
ReadQueue(s) ==
    _read_finish(IF s.listens THEN [s EXCEPT !.out = @ \o s.queue] ELSE s)

\* The body: from memory, or a read stream on the file (rs, its position).
_read_body(s) == IF s.queue # <<>> THEN ReadQueue(s) ELSE [s EXCEPT !.rs = 1]

\* full: the destination's buffer is full after the headers, so that
\* Stream.pipe calls pause().
_read(s, full) ==
    CASE s.paused \/ ~s.write_complete -> s
      [] ~s.paused /\ s.write_complete /\ s.headers_done -> _read_body(s)
      [] OTHER ->
            LET u == [Emit(s, Headers) EXCEPT !.headers_done = TRUE,
                                          !.paused = full /\ s.listens]
            IN  IF u.paused THEN u ELSE _read_body(u)

\* A second reader while one is active throws.
pipe(s, full) ==
    IF s.in_pipe THEN [s EXCEPT !.thrown = TRUE, !.pipes = @ + 1]
    ELSE LET u == [s EXCEPT !.in_pipe = TRUE, !.paused = FALSE, !.headers_done = FALSE,
                            !.rs = 0, !.listens = TRUE, !.out = <<>>,
                            !.pipes = @ + 1]
         IN  IF u.write_complete THEN _read(u, full) ELSE u

-----------------------------------------------------------------------------
(***************************************************************************)
(* Writing: _write, after the arguments were queued.                       *)
(***************************************************************************)

Pending(s) == s.open_pending \/ s.write_pending

\* The end callback runs data_post, whose first plugin may pipe at once:
\* reader is TRUE then.
Finish(s, reader, full) ==
    LET u == [s EXCEPT !.ended = @ + 1]
        p == IF reader /\ s.ended = 0 THEN pipe(u, full) ELSE u
        w == [p EXCEPT !.write_complete = TRUE]
    IN  IF p.listens /\ ~p.write_complete THEN _read(w, full) ELSE w

\* (..._Name: the form of a mutant that PROJECT.json names.)
Done_Early(s) == s.end_called

Done(s) == s.end_called /\ (~s.spooling \/ s.queue = <<>>)

\* One chunk to the file; wait says whether ws.write asks for a drain.
ToFile(s, wait, reader, full) ==
    LET c == Head(s.queue)
        u == [s EXCEPT !.queue = Tail(@), !.buffered = @ - c[2], !.file = Append(@, c),
                       !.write_pending = wait]
    IN  IF ~wait /\ Done(u) THEN Finish(u, reader, full) ELSE u

_write(s, wait, reader, full) ==
    LET u == [s EXCEPT !.spooling = @ \/ (buffer_max # -1 /\ s.buffered > buffer_max)]
        in_memory == buffer_max = -1 \/ (u.buffered < buffer_max /\ ~u.spooling)
        to_disk == ~Pending(s) /\ ~Done(u) /\ ~in_memory /\ u.queue # <<>>
    IN  CASE Pending(s) -> s
          [] ~Pending(s) /\ Done(u) -> Finish(u, reader, full)
          [] to_disk /\ ~u.fd -> [u EXCEPT !.open_pending = TRUE]
          [] to_disk /\ u.fd -> ToFile(u, wait, reader, full)
          [] OTHER -> u

\* ws.write returns false for a full chunk, which exceeds its highWaterMark.
Waits(s) == IF s.queue # <<>> /\ Head(s.queue)[2] = Full THEN {TRUE} ELSE BOOLEAN

Write(s) ==
    \E wait \in Waits(s), reader \in BOOLEAN, full \in BOOLEAN :
        /\ reader => s.pipes < MaxPipes
        /\ ms' = _write(s, wait, reader, full)

Alive == ~ms.failed /\ ms.destroyed = "no"

-----------------------------------------------------------------------------
(***************************************************************************)
(* Events.                                                                 *)
(***************************************************************************)

\* The ChunkEmitter emits a chunk of len units.
Given(len) == Append(given, <<Len(given) + 1, len>>)
Queued(len) ==
    [ms EXCEPT !.queue = Append(@, <<Len(given) + 1, len>>), !.buffered = @ + len]

\* A line fills a chunk.
add_line ==
    /\ Alive /\ ~ms.end_called /\ Len(given) < MaxChunks
    /\ given' = Given(Full)
    /\ Write(Queued(Full))
    /\ UNCHANGED buffer_max

\* What is left is emitted; without anything left _write is called alone.
add_line_end ==
    /\ Alive /\ ~ms.end_called
    /\ \/ /\ Len(given) < MaxChunks
          /\ given' = Given(1)
          /\ Write([Queued(1) EXCEPT !.end_called = TRUE])
       \/ /\ given # <<>>
          /\ Write([ms EXCEPT !.end_called = TRUE])
          /\ UNCHANGED given
    /\ UNCHANGED buffer_max

ws_open ==
    /\ ms.open_pending /\ ~ms.failed
    /\ LET s == [ms EXCEPT !.open_pending = FALSE, !.fd = TRUE, !.exists = TRUE] IN
       IF ms.destroyed = "no" THEN Write(s) ELSE ms' = s
    /\ UNCHANGED <<buffer_max, given>>

ws_drain ==
    /\ ms.write_pending /\ Alive
    /\ Write([ms EXCEPT !.write_pending = FALSE])
    /\ UNCHANGED <<buffer_max, given>>

\* The disk fails: 'error' makes the connection answer 421 and disconnect.
ws_error ==
    /\ Pending(ms) /\ Alive
    /\ ms' = [ms EXCEPT !.failed = TRUE, !.open_pending = FALSE]
    /\ UNCHANGED <<buffer_max, given>>

\* A plugin's hook reads the message.
reader ==
    /\ Alive /\ ms.write_complete /\ ms.pipes < MaxPipes
    /\ \E full \in BOOLEAN : ms' = pipe(ms, full)
    /\ UNCHANGED <<buffer_max, given>>

\* The read stream gives a chunk, unless it is paused, or it ends.
rs_data ==
    /\ Alive /\ ms.rs > 0 /\ ~ms.paused /\ ms.rs <= Len(ms.file)
    /\ \E full \in BOOLEAN :
          ms' = [Emit(ms, ms.file[ms.rs]) EXCEPT !.rs = @ + 1, !.paused = full /\ ms.listens]
    /\ UNCHANGED <<buffer_max, given>>

rs_end ==
    /\ Alive /\ ms.rs > Len(ms.file) /\ ~ms.paused
    /\ ms' = _read_finish(ms)
    /\ UNCHANGED <<buffer_max, given>>

\* drain of the destination: resume().
resume ==
    /\ Alive /\ ms.in_pipe /\ ms.listens /\ ms.paused
    /\ LET u == [ms EXCEPT !.paused = FALSE] IN
       ms' = IF ms.rs > 0 THEN u ELSE _read(u, FALSE)
    /\ UNCHANGED <<buffer_max, given>>

\* The destination closes early: Stream.pipe takes its listeners away.
dest_closed ==
    /\ ms.in_pipe /\ ms.listens
    /\ ms' = [ms EXCEPT !.listens = FALSE]
    /\ UNCHANGED <<buffer_max, given>>

\* reset_transaction; the file is removed, after its descriptor was closed.
destroy ==
    /\ ms.destroyed = "no"
    /\ ms' = [ms EXCEPT !.destroyed = IF ms.open_pending THEN "opening" ELSE "yes",
                        !.exists = FALSE]
    /\ UNCHANGED <<buffer_max, given>>

Next == \/ add_line \/ add_line_end \/ ws_open \/ ws_drain \/ ws_error
        \/ reader \/ rs_data \/ rs_end \/ resume \/ dest_closed \/ destroy

Spec == Init /\ [][Next]_vars

FairSpec ==
    /\ Spec
    /\ WF_vars(ws_open \/ ws_drain \/ ws_error)
    /\ WF_vars(rs_data \/ rs_end)
    /\ WF_vars(resume)

-----------------------------------------------------------------------------
(***************************************************************************)
(* Properties.                                                             *)
(***************************************************************************)

Message == <<Headers>> \o given

\* Whoever reads to the end has read the headers and every chunk, once and
\* in order, whether the message was kept in memory or spooled.
WholeMessage == \A r \in ms.reads : r = Message

\* data_post is run once, when the message is complete: all of it is in
\* memory or all of it in the file.
EndsOnce ==
    /\ ms.ended <= 1
    /\ ms.ended = 1 => \/ ms.queue = <<>> /\ ms.file = given
                       \/ ms.file = <<>> /\ ms.queue = given

\* pipe() throws only while an earlier reader is paused or is being served
\* from the file.
TurnedAway == ms'.thrown /\ ~ms.thrown => ms.paused \/ ms.rs > 0
ThrowsOnlyWhenStalled == [][TurnedAway]_vars

\* A spool file is left behind only by a reset while it was being opened.
FileIsRemoved == ms.destroyed = "yes" => ~ms.exists

\* A message that has been received is handed on, and a reader that keeps
\* its end open is served to the end.
Received == ms.end_called
HandedOn == ms.ended > 0 \/ ~Alive
BeingRead == ms.in_pipe
ReadToTheEnd == ~ms.in_pipe \/ ~ms.listens \/ ~Alive

Finishes ==
    /\ Received ~> HandedOn
    /\ BeingRead ~> ReadToTheEnd
=============================================================================
