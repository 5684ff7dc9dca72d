--------------------------- MODULE MCPacketStream ---------------------------
(***************************************************************************)
(* Instance of PacketStream for TLC: an 8-byte buffer in place of 4096.    *)
(***************************************************************************)
EXTENDS PacketStream

Bye == 7

\* Packets, by size, type and first payload bytes.
Small  == <<5, 0, 1, 0, 9>>
Empty  == <<4, 0, 2, 0>>
Full   == <<8, 0, 3, 1, 9, 1, 0, 6>>          \* exactly BUFFER_SIZE
Large  == <<9, 0, 1, 0, 4, 0, 2, 0, 5>>       \* one byte too many
Tiny   == <<3, 0, 1, 0>>                      \* smaller than its header
Huge   == <<4, 1, 1, 0>>                      \* high size byte set
Last   == <<5, 0, Bye, 0, 1>>                 \* a type that ends the session
Cut    == <<6, 0, 1>>

MCStreams ==
  {Small \o Full \o Empty,
   Full \o Full \o Small,
   Large \o Small \o Empty \o Cut,
   Tiny \o Huge \o Small \o Full,
   Small \o Last \o Full,
   Huge \o Large \o Full \o Cut}

MCTerminal == {Bye}
=============================================================================
