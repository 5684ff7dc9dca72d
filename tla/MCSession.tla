------------------------------ MODULE MCSession ------------------------------
(***************************************************************************)
(* Instance of Session for TLC: an 8-byte buffer, short streams for both   *)
(* servers, a heartbeat every second tick of the clock.                    *)
(***************************************************************************)
EXTENDS Session

Validate(id) == <<5, 0, 1, 0, id>>
Refused      == <<4, 0, 2, 0>>
Expired      == <<4, 0, 3, 0>>
Active(t)    == <<5, 0, 4, 0, t>>
Chat         == <<6, 0, 9, 0, 1, 0>>

\* The gateway may grant, refuse, chatter, or be cut off; what follows a
\* grant stays in the buffer.
MCGatewayStreams ==
  {Validate(7) \o <<4, 0, 2>>,
   Chat \o Validate(7),
   Active(3) \o Validate(7),
   Refused,
   Expired \o Chat,
   <<5, 0, 1>>}

MCGameStreams ==
  {Active(5) \o Chat,
   Chat \o Active(5) \o Expired,
   Active(5) \o Validate(8),
   Active(5) \o Chat \o Active(6),
   Active(5) \o Active(0) \o Active(6)}

MCStreams == MCGatewayStreams \cup MCGameStreams

MCTerminal == {1, 2, 3}
==============================================================================
