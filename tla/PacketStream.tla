----------------------------- MODULE PacketStream -----------------------------
(***************************************************************************)
(* The receive side of a connection: PacketStream of connection.h and the  *)
(* loop of ProcessConnection (src/main.c) that fills it with recv(), cuts  *)
(* frames out of it and moves what is left to the front.                   *)
(*                                                                         *)
(* The loop is modelled at the granularity of its iterations: one recv(),  *)
(* one turn of the inner parse loop, one compaction.  recv() returns any   *)
(* number of bytes from one to the room it is given, so every way TCP can  *)
(* cut the stream is covered.                                              *)
(***************************************************************************)
EXTENDS Naturals, Sequences, FiniteSets

CONSTANTS
  HDR,          \* 4: u16 size, u16 type
  BUFFER_SIZE,  \* 4096 in main.c, the length of PacketStream.buffer
  Streams,      \* the byte streams a server may send
  Terminal      \* the three packet types whose case returns from the loop

Byte == 0..255

ASSUME HeaderAssumption == HDR = 4
ASSUME BufferAssumption == BUFFER_SIZE \in Nat /\ BUFFER_SIZE >= HDR
ASSUME StreamsAssumption == Streams \subseteq Seq(Byte)

VARIABLES
  stream,     \* the bytes the peer sends on this connection
  base,       \* history: how many of them the compactions have dropped
  buffer,     \* PacketStream.buffer
  read_pos,   \* PacketStream.read_pos
  parse_pos,  \* PacketStream.parse_pos
  pc,         \* where the loop is: "recv", "parse" or "done"
  delivered   \* history: the frames handed to the switch, oldest first

psVars == <<stream, base, buffer, read_pos, parse_pos, pc, delivered>>

-----------------------------------------------------------------------------
\* Helpers

\* read_u16 of net_rw.h: two little-endian bytes.
read_u16(i) == buffer[i] + 256 * buffer[i + 1]

packet_size == read_u16(parse_pos)
packet_type == read_u16(parse_pos + 2)

\* Mutants are named after the operator they change.
BadSize_AnyLarge(n) == n < HDR
BadSize_OffByOne(n) == n < HDR \/ n >= BUFFER_SIZE
BadSize(n) == n < HDR \/ n > BUFFER_SIZE

Unparsed == read_pos - parse_pos

\* The room recv() is given.
Room == BUFFER_SIZE - read_pos

\* What the peer still has to send.
Unread == Len(stream) - (base + read_pos)

-----------------------------------------------------------------------------
\* Initial states and actions

\* The zeroed Connection of main, connected to a peer that will send s.
Fresh(s) ==
  /\ stream = s
  /\ base = 0
  /\ buffer = [i \in 0..(BUFFER_SIZE - 1) |-> 0]
  /\ read_pos = 0
  /\ parse_pos = 0
  /\ pc = "recv"
  /\ delivered = <<>>

Init == \E s \in Streams : Fresh(s)

\* recv() returns n > 0 bytes, stored at read_pos.
Recv ==
  /\ pc = "recv"
  /\ \E n \in 1..Room :
       /\ n <= Unread
       /\ buffer' = [i \in 0..(BUFFER_SIZE - 1) |->
                       IF i \in read_pos..(read_pos + n - 1)
                         THEN stream[base + i + 1]
                         ELSE buffer[i]]
       /\ read_pos' = read_pos + n
  /\ pc' = "parse"
  /\ UNCHANGED <<stream, base, parse_pos, delivered>>

\* recv() returns 0: the peer has closed, or there was no room to read into.
RecvZero ==
  /\ pc = "recv"
  /\ Unread = 0 \/ Room = 0
  /\ pc' = "done"
  /\ UNCHANGED <<stream, base, buffer, read_pos, parse_pos, delivered>>

\* recv() fails with anything but EAGAIN.
RecvError ==
  /\ pc = "recv"
  /\ pc' = "done"
  /\ UNCHANGED <<stream, base, buffer, read_pos, parse_pos, delivered>>

\* An impossible size: drop the header, go round the loop.
DropHeader ==
  /\ pc = "parse"
  /\ Unparsed >= HDR
  /\ BadSize(packet_size)
  /\ parse_pos' = parse_pos + HDR
  /\ UNCHANGED <<stream, base, buffer, read_pos, pc, delivered>>

\* The payload copied to c->sin and passed to the handler.
sin == [i \in 1..(packet_size - HDR) |-> buffer[parse_pos + HDR + i - 1]]

Complete_Strict == packet_size < Unparsed
Complete == packet_size <= Unparsed

\* A whole frame: hand it to the switch.  A terminal type returns at once.
Dispatch ==
  /\ pc = "parse"
  /\ Unparsed >= HDR
  /\ ~BadSize(packet_size)
  /\ Complete
  /\ delivered' = Append(delivered, [type |-> packet_type, payload |-> sin])
  /\ IF packet_type \in Terminal
       THEN pc' = "done" /\ parse_pos' = parse_pos
       ELSE pc' = pc /\ parse_pos' = parse_pos + packet_size
  /\ UNCHANGED <<stream, base, buffer, read_pos>>

Compact_NoOffset ==
  /\ base' = base + parse_pos
  /\ buffer' = buffer
  /\ read_pos' = Unparsed
  /\ parse_pos' = 0

\* memmove the unparsed bytes to the front.
Compact ==
  /\ base' = base + parse_pos
  /\ buffer' = [i \in 0..(BUFFER_SIZE - 1) |->
                  IF i < Unparsed THEN buffer[i + parse_pos] ELSE buffer[i]]
  /\ read_pos' = Unparsed
  /\ parse_pos' = 0

\* Too little for a header or for the announced frame: compact, read again.
Wait ==
  /\ pc = "parse"
  /\ Unparsed >= HDR => (~BadSize(packet_size) /\ ~Complete)
  /\ Compact
  /\ pc' = "recv"
  /\ UNCHANGED <<stream, delivered>>

Done == pc = "done" /\ UNCHANGED psVars

Parse == DropHeader \/ Dispatch \/ Wait

Next == Recv \/ RecvZero \/ RecvError \/ Parse \/ Done

Spec == Init /\ [][Next]_psVars

\* The loop is a single thread that never blocks between two recv() calls;
\* nothing is assumed of the network.
FairSpec == Spec /\ WF_psVars(Parse)

-----------------------------------------------------------------------------
\* Properties

\* Types, and the order of the cursors: parse_pos never passes read_pos, and
\* read_pos never passes the end of the buffer.
TypeOK ==
  /\ stream \in Streams
  /\ base \in Nat
  /\ buffer \in [0..(BUFFER_SIZE - 1) -> Byte]
  /\ read_pos \in 0..BUFFER_SIZE
  /\ parse_pos \in 0..read_pos
  /\ pc \in {"recv", "parse", "done"}
  /\ delivered \in Seq([type : Nat, payload : Seq(Byte)])

\* recv() is never called with a zero-length buffer, whose 0 the loop would
\* take for a closed connection: the bot never hangs up on a live server
\* because a frame did not fit (main.c, "Disconnected").
RoomToReceive == pc = "recv" => Room > 0

\* When the loop goes back to recv() no whole frame and no bad header is left
\* in the buffer: a packet never waits for a later, unrelated one.
NothingLeftBehind ==
  (pc = "recv" /\ Unparsed >= HDR)
    => (~BadSize(packet_size) /\ ~(packet_size <= Unparsed))

\* The buffer holds exactly the stretch of the stream that starts at base: the
\* memmove of an iteration neither loses, repeats nor shifts a byte.
BufferIsWindow ==
  /\ base + read_pos <= Len(stream)
  /\ \A i \in 0..(read_pos - 1) : buffer[i] = stream[base + i + 1]

\* The loop only goes back to recv() after a compaction.
CompactedAtRecv == pc = "recv" => parse_pos = 0

\* The four parts together are inductive: none of them is without the others.
IInv == TypeOK /\ CompactedAtRecv /\ BufferIsWindow /\ NothingLeftBehind

\* The frames dispatched depend on the bytes sent only, never on how recv()
\* cut them: the loop implements FrameSpec, and never sits on a whole frame.
Frames == INSTANCE FrameSpec WITH
  MAX_FRAME <- BUFFER_SIZE,
  arrived   <- base + read_pos,
  pos       <- base + parse_pos,
  open      <- (pc # "done")

FramingSafe == Frames!Spec
ImplementsFrames == Frames!FairSpec
===============================================================================
