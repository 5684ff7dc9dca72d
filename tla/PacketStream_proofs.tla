------------------------- MODULE PacketStream_proofs -------------------------
(***************************************************************************)
(* Theorems about PacketStream, for every buffer size, every set of        *)
(* streams and every way recv() may cut them.                              *)
(***************************************************************************)
EXTENDS PacketStream, SequenceTheorems, TLAPS

\* A stream is a sequence of bytes: what each of its positions holds.
LEMMA StreamBytes ==
  ASSUME TypeOK
  PROVE  /\ stream \in Seq(Byte)
         /\ Len(stream) \in Nat
         /\ \A i \in 1..Len(stream) : stream[i] \in Byte
BY StreamsAssumption DEF TypeOK

\* The header fields read at an offset with at least two bytes are naturals.
LEMMA ReadU16Type ==
  ASSUME TypeOK, NEW i \in Nat, i + 1 < BUFFER_SIZE
  PROVE  read_u16(i) \in Nat
<1>1. i \in 0..(BUFFER_SIZE - 1) /\ i + 1 \in 0..(BUFFER_SIZE - 1)
  BY BufferAssumption
<1>2. buffer[i] \in 0..255 /\ buffer[i + 1] \in 0..255
  BY <1>1 DEF TypeOK, Byte
<1>3. \A a, b \in 0..255 : a + 256 * b \in Nat
  OBVIOUS
<1>. QED  BY <1>2, <1>3 DEF read_u16

\* With a whole header in the buffer, its size and type are naturals.
LEMMA HeaderType ==
  ASSUME TypeOK, Unparsed >= HDR
  PROVE  packet_size \in Nat /\ packet_type \in Nat
<1>1. /\ parse_pos \in Nat
      /\ parse_pos + 1 < BUFFER_SIZE
      /\ parse_pos + 2 \in Nat
      /\ (parse_pos + 2) + 1 < BUFFER_SIZE
  BY HeaderAssumption, BufferAssumption DEF TypeOK, Unparsed
<1>. QED  BY <1>1, ReadU16Type DEF packet_size, packet_type

\* The payload of a whole frame is a sequence of bytes.
LEMMA SinType ==
  ASSUME TypeOK, Unparsed >= HDR, ~BadSize(packet_size), Complete
  PROVE  sin \in Seq(Byte)
<1>1. packet_size \in Nat /\ packet_size - HDR \in Nat
  BY HeaderType, HeaderAssumption DEF BadSize
<1>2. ASSUME NEW i \in 1..(packet_size - HDR)
      PROVE  buffer[parse_pos + HDR + i - 1] \in Byte
  <2>1. parse_pos + HDR + i - 1 \in 0..(BUFFER_SIZE - 1)
    BY <1>1, HeaderAssumption, BufferAssumption DEF TypeOK, Unparsed, Complete
  <2>. QED  BY <2>1 DEF TypeOK
<1>. QED  BY <1>1, <1>2 DEF sin

-----------------------------------------------------------------------------
\* Every action keeps the types.

LEMMA InitIInv == Init => IInv
<1>. SUFFICES ASSUME NEW s \in Streams, Fresh(s)
              PROVE  IInv
  BY DEF Init
<1>1. Len(s) \in Nat
  BY StreamsAssumption
<1>2. TypeOK
  BY HeaderAssumption, BufferAssumption DEF Fresh, TypeOK, Byte
<1>3. CompactedAtRecv /\ BufferIsWindow
  BY <1>1 DEF Fresh, CompactedAtRecv, BufferIsWindow
<1>4. NothingLeftBehind
  BY HeaderAssumption DEF Fresh, NothingLeftBehind, Unparsed
<1>. QED  BY <1>2, <1>3, <1>4 DEF IInv

LEMMA RecvIInv == IInv /\ Recv => IInv'
<1>. SUFFICES ASSUME IInv, Recv PROVE IInv'
  OBVIOUS
<1>. USE DEF IInv
<1>1. PICK n \in 1..Room :
        /\ n <= Unread
        /\ buffer' = [i \in 0..(BUFFER_SIZE - 1) |->
                        IF i \in read_pos..(read_pos + n - 1)
                          THEN stream[base + i + 1]
                          ELSE buffer[i]]
        /\ read_pos' = read_pos + n
  BY DEF Recv
<1>2. /\ n \in Nat /\ n > 0
      /\ read_pos + n <= BUFFER_SIZE
      /\ base + read_pos + n <= Len(stream)
      /\ Len(stream) \in Nat
  BY <1>1, StreamBytes, BufferAssumption DEF TypeOK, Room, Unread
<1>3. ASSUME NEW i \in 0..(BUFFER_SIZE - 1), i \in read_pos..(read_pos + n - 1)
      PROVE  base + i + 1 \in 1..Len(stream) /\ stream[base + i + 1] \in Byte
  <2>1. base + i + 1 \in 1..Len(stream)
    BY <1>2, <1>3 DEF TypeOK
  <2>. QED  BY <2>1, StreamBytes
<1>4. buffer' \in [0..(BUFFER_SIZE - 1) -> Byte]
  BY <1>1, <1>3 DEF TypeOK
<1>5. TypeOK'
  BY <1>1, <1>2, <1>4, BufferAssumption DEF Recv, TypeOK
<1>6. BufferIsWindow'
  <2>1. base' + read_pos' <= Len(stream')
    BY <1>1, <1>2 DEF Recv, TypeOK
  <2>2. ASSUME NEW i \in 0..(read_pos' - 1)
        PROVE  buffer'[i] = stream'[base' + i + 1]
    <3>1. i \in 0..(BUFFER_SIZE - 1)
      BY <1>1, <1>2, BufferAssumption DEF TypeOK
    <3>2. CASE i \in read_pos..(read_pos + n - 1)
      BY <1>1, <3>1, <3>2 DEF Recv
    <3>3. CASE i \notin read_pos..(read_pos + n - 1)
      <4>1. i \in 0..(read_pos - 1)
        BY <1>1, <1>2, <3>1, <3>3 DEF TypeOK
      <4>. QED  BY <1>1, <3>1, <3>3, <4>1 DEF Recv, BufferIsWindow
    <3>. QED  BY <3>2, <3>3
  <2>. QED  BY <2>1, <2>2 DEF BufferIsWindow
<1>7. CompactedAtRecv' /\ NothingLeftBehind'
  BY DEF Recv, CompactedAtRecv, NothingLeftBehind
<1>. QED  BY <1>5, <1>6, <1>7

LEMMA HangUpIInv == IInv /\ (RecvZero \/ RecvError \/ UNCHANGED psVars) => IInv'
<1>. SUFFICES ASSUME IInv, RecvZero \/ RecvError \/ UNCHANGED psVars
              PROVE  IInv'
  OBVIOUS
<1>1. /\ UNCHANGED <<stream, base, buffer, read_pos, parse_pos, delivered>>
      /\ pc' = "done" \/ pc' = pc
  BY DEF RecvZero, RecvError, psVars
<1>2. TypeOK'
  BY <1>1 DEF IInv, TypeOK
<1>3. CompactedAtRecv' /\ BufferIsWindow'
  BY <1>1 DEF IInv, CompactedAtRecv, BufferIsWindow
<1>4. NothingLeftBehind'
  BY <1>1 DEF IInv, NothingLeftBehind, Unparsed, packet_size, read_u16, BadSize,
              Complete
<1>. QED  BY <1>2, <1>3, <1>4 DEF IInv

LEMMA DropHeaderIInv == IInv /\ DropHeader => IInv'
<1>. SUFFICES ASSUME IInv, DropHeader PROVE IInv'
  OBVIOUS
<1>1. TypeOK'
  BY HeaderAssumption, BufferAssumption DEF IInv, DropHeader, TypeOK, Unparsed
<1>2. CompactedAtRecv' /\ NothingLeftBehind'
  BY DEF DropHeader, CompactedAtRecv, NothingLeftBehind
<1>3. BufferIsWindow'
  BY DEF IInv, DropHeader, BufferIsWindow
<1>. QED  BY <1>1, <1>2, <1>3 DEF IInv

LEMMA DispatchIInv == IInv /\ Dispatch => IInv'
<1>. SUFFICES ASSUME IInv, Dispatch PROVE IInv'
  OBVIOUS
<1>1. packet_size \in Nat /\ packet_type \in Nat /\ sin \in Seq(Byte)
  BY HeaderType, SinType DEF IInv, Dispatch
<1>2. delivered' \in Seq([type : Nat, payload : Seq(Byte)])
  BY <1>1 DEF IInv, TypeOK, Dispatch
<1>3. parse_pos' \in 0..read_pos
  BY <1>1, BufferAssumption DEF IInv, TypeOK, Dispatch, Complete, Unparsed
<1>4. TypeOK'
  BY <1>2, <1>3 DEF IInv, TypeOK, Dispatch
<1>5. CompactedAtRecv' /\ NothingLeftBehind'
  BY DEF Dispatch, CompactedAtRecv, NothingLeftBehind
<1>6. BufferIsWindow'
  BY DEF IInv, Dispatch, BufferIsWindow
<1>. QED  BY <1>4, <1>5, <1>6 DEF IInv

LEMMA WaitIInv == IInv /\ Wait => IInv'
<1>. SUFFICES ASSUME IInv, Wait PROVE IInv'
  OBVIOUS
<1>. USE DEF IInv
<1>1. /\ base \in Nat /\ read_pos \in Nat /\ parse_pos \in Nat
      /\ parse_pos <= read_pos /\ read_pos <= BUFFER_SIZE
      /\ BUFFER_SIZE \in Nat
      /\ Unparsed \in 0..read_pos
  BY BufferAssumption DEF TypeOK, Unparsed
<1>2. buffer' \in [0..(BUFFER_SIZE - 1) -> Byte]
  <2>1. ASSUME NEW i \in 0..(BUFFER_SIZE - 1)
        PROVE  (IF i < Unparsed THEN buffer[i + parse_pos] ELSE buffer[i]) \in Byte
    BY <1>1 DEF TypeOK, Unparsed
  <2>. QED  BY <2>1 DEF Wait, Compact
<1>3. TypeOK'
  BY <1>1, <1>2 DEF TypeOK, Wait, Compact
<1>4. ASSUME NEW i \in 0..(Unparsed - 1)
      PROVE  /\ buffer'[i] = buffer[i + parse_pos]
             /\ i + parse_pos \in 0..(read_pos - 1)
  <2>1. i \in 0..(BUFFER_SIZE - 1) /\ i < Unparsed
    BY <1>1
  <2>2. i + parse_pos \in 0..(read_pos - 1)
    BY <1>1 DEF Unparsed
  <2>. QED  BY <2>1, <2>2 DEF Wait, Compact
<1>5. BufferIsWindow'
  <2>1. base' + read_pos' <= Len(stream')
    BY <1>1, StreamBytes DEF Wait, Compact, BufferIsWindow, Unparsed
  <2>2. ASSUME NEW i \in 0..(read_pos' - 1)
        PROVE  buffer'[i] = stream'[base' + i + 1]
    <3>1. i \in 0..(Unparsed - 1)
      BY DEF Wait, Compact
    <3>2. buffer[i + parse_pos] = stream[base + (i + parse_pos) + 1]
      BY <1>4, <3>1 DEF BufferIsWindow
    <3>3. base + (i + parse_pos) + 1 = (base + parse_pos) + i + 1
      BY <1>1
    <3>. QED  BY <1>4, <3>1, <3>2, <3>3 DEF Wait, Compact
  <2>. QED  BY <2>1, <2>2 DEF BufferIsWindow
<1>6. NothingLeftBehind'
  <2>. SUFFICES ASSUME Unparsed' >= HDR
                PROVE  (~BadSize(packet_size) /\ ~Complete)'
    BY DEF NothingLeftBehind, Complete
  <2>1. Unparsed' = Unparsed /\ parse_pos' = 0
    BY <1>1 DEF Wait, Compact, Unparsed
  <2>2. ~BadSize(packet_size) /\ ~Complete
    BY <2>1 DEF Wait
  <2>3. buffer'[0] = buffer[parse_pos] /\ buffer'[1] = buffer[parse_pos + 1]
    <3>1. 0 \in 0..(Unparsed - 1) /\ 1 \in 0..(Unparsed - 1)
      BY <1>1, <2>1, HeaderAssumption
    <3>. QED  BY <1>1, <1>4, <3>1
  <2>4. packet_size' = packet_size
    BY <2>1, <2>3 DEF packet_size, read_u16
  <2>. QED  BY <2>1, <2>2, <2>4 DEF BadSize, Complete
<1>7. CompactedAtRecv'
  BY DEF CompactedAtRecv, Wait, Compact
<1>. QED  BY <1>3, <1>5, <1>6, <1>7

\* The invariant of the receive loop: types, the buffer as a window on the
\* stream, and nothing dispatchable left when recv() is called again.
THEOREM LoopInvariant == Spec => []IInv
<1>1. IInv /\ [Next]_psVars => IInv'
  BY RecvIInv, HangUpIInv, DropHeaderIInv, DispatchIInv, WaitIInv
     DEF Next, Parse, Done
<1>. QED  BY InitIInv, <1>1, PTL DEF Spec

\* read_pos, parse_pos and the header stay within the BUFFER_SIZE bytes of the buffer.
THEOREM TypeCorrect == Spec => []TypeOK
BY LoopInvariant, PTL DEF IInv

\* The loop never blocks in recv() while it holds a frame it could dispatch.
THEOREM NothingLeftBehindAlways == Spec => []NothingLeftBehind
BY LoopInvariant, PTL DEF IInv

\* recv() always gets room: a full buffer would hold a whole frame, and that
\* was dispatched before the loop came back.
THEOREM RoomToReceiveAlways == Spec => []RoomToReceive
<1>1. IInv => RoomToReceive
  <2>. SUFFICES ASSUME IInv, pc = "recv", ~(Room > 0)
                PROVE  FALSE
    BY DEF RoomToReceive
  <2>1. read_pos = BUFFER_SIZE /\ parse_pos = 0 /\ Unparsed = BUFFER_SIZE
    BY BufferAssumption DEF IInv, TypeOK, CompactedAtRecv, Room, Unparsed
  <2>2. packet_size \in Nat
    BY <2>1, HeaderType, BufferAssumption DEF IInv
  <2>3. ~BadSize(packet_size) /\ ~(packet_size <= Unparsed)
    BY <2>1, BufferAssumption DEF IInv, NothingLeftBehind
  <2>. QED  BY <2>1, <2>2, <2>3, BufferAssumption, HeaderAssumption DEF BadSize
<1>. QED  BY LoopInvariant, <1>1, PTL
-----------------------------------------------------------------------------
\* The loop implements FrameSpec.

\* The header in the buffer is the header at that place of the stream.
LEMMA HeaderOfStream ==
  ASSUME TypeOK, BufferIsWindow, Unparsed >= HDR
  PROVE  /\ Frames!U16(base + parse_pos) = packet_size
         /\ Frames!U16(base + parse_pos + 2) = packet_type
<1>1. /\ base \in Nat /\ parse_pos \in Nat /\ read_pos \in Nat
      /\ parse_pos + 3 \in 0..(read_pos - 1)
  BY HeaderAssumption DEF TypeOK, Unparsed
<1>2. ASSUME NEW k \in 0..3
      PROVE  buffer[parse_pos + k] = stream[base + parse_pos + k + 1]
  <2>1. parse_pos + k \in 0..(read_pos - 1)
    BY <1>1
  <2>2. buffer[parse_pos + k] = stream[base + (parse_pos + k) + 1]
    BY <2>1 DEF BufferIsWindow
  <2>3. base + (parse_pos + k) + 1 = base + parse_pos + k + 1
    BY <1>1
  <2>. QED  BY <2>2, <2>3
<1>3. /\ buffer[parse_pos] = stream[base + parse_pos + 1]
      /\ buffer[parse_pos + 1] = stream[base + parse_pos + 2]
      /\ buffer[parse_pos + 2] = stream[(base + parse_pos + 2) + 1]
      /\ buffer[(parse_pos + 2) + 1] = stream[(base + parse_pos + 2) + 2]
  <2>1. /\ 0 \in 0..3 /\ 1 \in 0..3 /\ 2 \in 0..3 /\ 3 \in 0..3
        /\ parse_pos + 0 = parse_pos
        /\ base + parse_pos + 0 + 1 = base + parse_pos + 1
        /\ base + parse_pos + 1 + 1 = base + parse_pos + 2
        /\ (parse_pos + 2) + 1 = parse_pos + 3
        /\ (base + parse_pos + 2) + 2 = base + parse_pos + 3 + 1
    BY <1>1
  <2>. QED  BY <1>2, <2>1
<1>. QED  BY <1>3 DEF Frames!U16, packet_size, packet_type, read_u16

\* The payload handed on is the payload at that place of the stream.
LEMMA PayloadOfStream ==
  ASSUME TypeOK, BufferIsWindow, Unparsed >= HDR,
         ~BadSize(packet_size), Complete
  PROVE  [type |-> packet_type, payload |-> sin] = Frames!Frame(base + parse_pos)
<1>1. /\ base \in Nat /\ parse_pos \in Nat /\ read_pos \in Nat
      /\ packet_size \in Nat /\ parse_pos + packet_size <= read_pos
  BY HeaderType DEF TypeOK, Unparsed, Complete
<1>2. ASSUME NEW i \in 1..(packet_size - HDR)
      PROVE  buffer[parse_pos + HDR + i - 1] = stream[(base + parse_pos) + HDR + i]
  <2>1. parse_pos + HDR + i - 1 \in 0..(read_pos - 1)
    BY <1>1, HeaderAssumption
  <2>2. buffer[parse_pos + HDR + i - 1] = stream[base + (parse_pos + HDR + i - 1) + 1]
    BY <2>1 DEF BufferIsWindow
  <2>3. base + (parse_pos + HDR + i - 1) + 1 = (base + parse_pos) + HDR + i
    BY <1>1, HeaderAssumption
  <2>. QED  BY <2>2, <2>3
<1>3. sin = [i \in 1..(packet_size - HDR) |-> stream[(base + parse_pos) + HDR + i]]
  BY <1>2 DEF sin
<1>. QED  BY <1>3, HeaderOfStream DEF Frames!Frame

LEMMA InitRefines == Init => Frames!Init
BY DEF Init, Fresh, Frames!Init

LEMMA RecvRefines == IInv /\ Recv => Frames!Arrive
<1>. SUFFICES ASSUME IInv, Recv PROVE Frames!Arrive
  OBVIOUS
<1>1. PICK n \in 1..Room : n <= Unread /\ read_pos' = read_pos + n
  BY DEF Recv
<1>2. base + read_pos' \in (base + read_pos + 1)..Len(stream)
  BY <1>1, StreamBytes, BufferAssumption DEF IInv, TypeOK, Room, Unread
<1>. QED  BY <1>2 DEF Recv, Frames!Arrive

LEMMA HangUpRefines == IInv /\ (RecvZero \/ RecvError) => Frames!Close
<1>. SUFFICES ASSUME IInv, RecvZero \/ RecvError PROVE Frames!Close
  OBVIOUS
<1>1. /\ pc = "recv" /\ pc' = "done"
      /\ UNCHANGED <<stream, base, read_pos, parse_pos, delivered>>
  BY DEF RecvZero, RecvError
<1>2. (base + read_pos) - (base + parse_pos) = Unparsed
  BY DEF IInv, TypeOK, Unparsed
<1>3. ASSUME Frames!HeaderHere
      PROVE  /\ ~Frames!BadSize(Frames!U16(base + parse_pos))
             /\ ~(Frames!U16(base + parse_pos) <= Unparsed)
  <2>1. Unparsed >= HDR
    BY <1>2, <1>3 DEF Frames!HeaderHere
  <2>. QED  BY <1>1, <2>1, HeaderOfStream
            DEF IInv, NothingLeftBehind, BadSize, Frames!BadSize, Complete
<1>. QED  BY <1>1, <1>2, <1>3 DEF Frames!Close, Frames!FrameHere, Frames!HeaderHere

LEMMA DropHeaderRefines == IInv /\ DropHeader => Frames!Skip
<1>. SUFFICES ASSUME IInv, DropHeader PROVE Frames!Skip
  OBVIOUS
<1>1. /\ (base + read_pos) - (base + parse_pos) = Unparsed
      /\ base + (parse_pos + HDR) = (base + parse_pos) + HDR
  BY HeaderAssumption DEF IInv, TypeOK, Unparsed
<1>2. Frames!U16(base + parse_pos) = packet_size
  BY HeaderOfStream DEF IInv, DropHeader
<1>. QED  BY <1>1, <1>2
          DEF DropHeader, Frames!Skip, Frames!HeaderHere, BadSize, Frames!BadSize

LEMMA DispatchRefines == IInv /\ Dispatch => Frames!Deliver
<1>. SUFFICES ASSUME IInv, Dispatch PROVE Frames!Deliver
  OBVIOUS
<1>1. packet_size \in Nat
  BY HeaderType DEF IInv, Dispatch
<1>2. /\ (base + read_pos) - (base + parse_pos) = Unparsed
      /\ base + (parse_pos + packet_size) = (base + parse_pos) + packet_size
  BY <1>1 DEF IInv, TypeOK, Unparsed
<1>3. /\ Frames!U16(base + parse_pos) = packet_size
      /\ Frames!U16(base + parse_pos + 2) = packet_type
      /\ [type |-> packet_type, payload |-> sin] = Frames!Frame(base + parse_pos)
  BY HeaderOfStream, PayloadOfStream DEF IInv, Dispatch
<1>4. Frames!FrameHere
  BY <1>2, <1>3 DEF Dispatch, Frames!FrameHere, Frames!HeaderHere, Complete,
                    BadSize, Frames!BadSize
<1>. QED  BY <1>2, <1>3, <1>4 DEF Dispatch, Frames!Deliver

\* Compaction moves bytes, not the position in the stream.
LEMMA WaitRefines == IInv /\ Wait => UNCHANGED Frames!vars
<1>. SUFFICES ASSUME IInv, Wait PROVE UNCHANGED Frames!vars
  OBVIOUS
<1>1. /\ base' + read_pos' = base + read_pos
      /\ base' + parse_pos' = base + parse_pos
  BY DEF IInv, TypeOK, Wait, Compact, Unparsed
<1>. QED  BY <1>1 DEF Wait, Frames!vars

\* The bytes between the cursors are the bytes received and not yet parsed,
\* through every compaction: no header is read from bytes of an old packet.
THEOREM BufferIsWindowAlways == Spec => []BufferIsWindow
<1>1. IInv => BufferIsWindow
  BY DEF IInv
<1>. QED  BY LoopInvariant, <1>1, PTL

\* Whatever recv() does, the frames dispatched are those of the byte stream:
\* the receive loop implements the safety part of FrameSpec.
THEOREM LoopImplementsFrames == Spec => FramingSafe
<1>1. IInv /\ [Next]_psVars => [Frames!Next]_(Frames!vars)
  <2>. SUFFICES ASSUME IInv, [Next]_psVars
                PROVE  [Frames!Next]_(Frames!vars)
    OBVIOUS
  <2>1. CASE UNCHANGED psVars
    BY <2>1 DEF psVars, Frames!vars
  <2>2. CASE Next
    BY <2>2, RecvRefines, HangUpRefines, DropHeaderRefines, DispatchRefines,
       WaitRefines DEF Next, Parse, Done, psVars, Frames!vars, Frames!Next
  <2>. QED  BY <2>1, <2>2
<1>. QED  BY InitRefines, LoopInvariant, <1>1, PTL DEF Spec, FramingSafe, Frames!Spec
==============================================================================
