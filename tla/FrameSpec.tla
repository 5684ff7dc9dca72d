------------------------------ MODULE FrameSpec ------------------------------
(***************************************************************************)
(* What the receive loop of lmbot (ProcessConnection, src/main.c) promises *)
(* to its packet handlers, with no buffer and no recv(): the frames that   *)
(* are dispatched are a function of the byte stream alone.                 *)
(*                                                                         *)
(* A frame is a little-endian u16 size, which counts the HDR header bytes, *)
(* a u16 packet type, and the payload.  A header whose size is smaller     *)
(* than HDR or larger than MAX_FRAME is dropped, HDR bytes at a time.      *)
(***************************************************************************)
EXTENDS Naturals, Sequences

CONSTANTS
  HDR,        \* bytes of a frame header
  MAX_FRAME,  \* largest size a header may announce
  Streams,    \* the byte streams a server may send
  Terminal    \* packet types whose handler ends the session

VARIABLES
  stream,     \* the bytes the server sends on this connection
  arrived,    \* how many of them the bot has received
  pos,        \* how many of them have been dealt with
  delivered,  \* the frames handed to a handler, oldest first
  open        \* FALSE once the session is over

vars == <<stream, arrived, pos, delivered, open>>

\* The u16 at byte offset p of the stream (offsets count from 0).
U16(p) == stream[p + 1] + 256 * stream[p + 2]

BadSize(n) == n < HDR \/ n > MAX_FRAME

Frame(p) ==
  [type    |-> U16(p + 2),
   payload |-> [i \in 1..(U16(p) - HDR) |-> stream[p + HDR + i]]]

\* A header is dealt with only when it is there in full.
HeaderHere == open /\ arrived - pos >= HDR

\* A frame is dispatched only when it is there in full.
FrameHere == HeaderHere /\ ~BadSize(U16(pos)) /\ U16(pos) <= arrived - pos

Init ==
  /\ stream \in Streams
  /\ arrived = 0
  /\ pos = 0
  /\ delivered = <<>>
  /\ open = TRUE

Arrive ==
  /\ open
  /\ arrived' \in (arrived + 1)..Len(stream)
  /\ UNCHANGED <<stream, pos, delivered, open>>

Skip ==
  /\ HeaderHere
  /\ BadSize(U16(pos))
  /\ pos' = pos + HDR
  /\ UNCHANGED <<stream, arrived, delivered, open>>

Deliver ==
  /\ FrameHere
  /\ delivered' = Append(delivered, Frame(pos))
  /\ IF U16(pos + 2) \in Terminal
       THEN open' = FALSE /\ pos' = pos
       ELSE open' = open /\ pos' = pos + U16(pos)
  /\ UNCHANGED <<stream, arrived>>

\* The peer hangs up, or recv fails: only when nothing is left to dispatch.
Close ==
  /\ open
  /\ ~ (HeaderHere /\ BadSize(U16(pos)))
  /\ ~ FrameHere
  /\ open' = FALSE
  /\ UNCHANGED <<stream, arrived, pos, delivered>>

Next == Arrive \/ Skip \/ Deliver \/ Close

Spec == Init /\ [][Next]_vars

\* What has arrived is dispatched without waiting for more bytes.
FairSpec == Spec /\ WF_vars(Skip) /\ WF_vars(Deliver)
==============================================================================
