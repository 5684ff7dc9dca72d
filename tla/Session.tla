------------------------------- MODULE Session -------------------------------
(***************************************************************************)
(* The life of the bot process: main() of src/main.c and the parts of      *)
(* ProcessConnection that open, use and close sockets.  It extends         *)
(* PacketStream, whose single buffer serves first the gateway and then the *)
(* game server, and adds the sockets, the login data the gateway hands     *)
(* over, the wall clock and the heartbeat.                                 *)
(*                                                                         *)
(* The gateway socket blocks in recv(); the game socket should not, but    *)
(* main() only logs a failure of set_nonblocking.                          *)
(***************************************************************************)
EXTENDS PacketStream, Integers

CONSTANTS
  GameStreams,     \* those of Streams the game server may send
  LOGINVALIDATE,   \* _MSG_RESP_LOGINVALIDATE
  LOGINERRORRESP,  \* _MSG_LOGIN_LOGINERRORRESP
  LOGINTOLRESP,    \* _MSG_CLIENT_LOGINTOLRESP
  RESP_ACTIVE,     \* _MSG_RESP_ACTIVE
  CFG_IGG_ID,      \* auth.igg_id of the configuration file
  INTERVAL,        \* 15 seconds in HeartbeatTick
  MAX_NOW          \* bound: the last second the model looks at

ASSUME SessionAssumption ==
  /\ GameStreams \subseteq Streams
  /\ CFG_IGG_ID \in Nat
  /\ Terminal = {LOGINVALIDATE, LOGINERRORRESP, LOGINTOLRESP}
  /\ RESP_ACTIVE \notin Terminal
  /\ INTERVAL \in Nat \ {0}
  /\ MAX_NOW \in Nat

VARIABLES
  phase,           \* "start", "gateway", "game" or "exit"
  sock,            \* Connection.sock, -1 when closed
  fds,             \* descriptors the process holds open
  nonblocking,     \* did set_nonblocking succeed on the current socket
  lobby_login,     \* Connection.lobby_login
  igg_id,          \* Connection.auth.igg_id
  granted,         \* history: the igg id the gateway granted, -1 before
  ticked,          \* has BotTick run since the last recv()
  server_time,     \* Connection.server_time
  last_heartbeat,  \* Connection.last_heartbeat
  now,             \* time(NULL)
  sent             \* history: requests sent on the current socket

sessVars == <<phase, sock, fds, nonblocking, lobby_login, igg_id, granted>>
tickVars == <<ticked, server_time, last_heartbeat, now>>
vars == <<psVars, sessVars, tickVars, sent>>

\* Descriptors of the two connections; the process opens each at most once.
GatewayFd == 3
GameFd == 4

InLoop == phase \in {"gateway", "game"} /\ pc # "done"

Init_Session ==
  /\ Init
  /\ phase = "start"
  /\ sock = 0
  /\ fds = {}
  /\ nonblocking = FALSE
  /\ lobby_login = FALSE
  /\ igg_id = CFG_IGG_ID
  /\ granted = -1
  /\ ticked = FALSE
  /\ server_time = 0
  /\ last_heartbeat = 0
  /\ now = INTERVAL
  /\ sent = <<>>

\* disconnect() of connection.c; a second call finds sock = -1.
disconnect_KeepsSock ==
  /\ fds' = fds \ {sock}
  /\ sock' = sock

disconnect ==
  /\ fds' = fds \ {sock}
  /\ sock' = -1

\* The requests that matter here, by the field that does: the session token,
\* the version of the client and the encryption are left out.
RequestGuestLogIn == [kind |-> "GuestLogIn", id |-> igg_id]
RequestLogIn == [kind |-> "LogIn", id |-> igg_id]
RequestClientInitOver == [kind |-> "ClientInitOver", id |-> igg_id]
RequestHeartBeat == [kind |-> "HeartBeat", id |-> now]

-----------------------------------------------------------------------------
\* main(), first part: the gateway

ConnectGateway ==
  /\ phase = "start"
  /\ phase' = "gateway"
  /\ sock' = GatewayFd
  /\ fds' = fds \cup {GatewayFd}
  /\ sent' = <<RequestGuestLogIn>>
  /\ UNCHANGED <<psVars, nonblocking, lobby_login, igg_id, granted, tickVars>>

\* connect_server returns -1 and has closed what it opened.
ConnectFails ==
  /\ \/ phase = "start"
     \/ phase = "gateway" /\ pc = "done" /\ lobby_login
  /\ phase' = "exit"
  /\ sock' = -1
  /\ UNCHANGED <<psVars, fds, nonblocking, lobby_login, igg_id, granted,
                 tickVars, sent>>

LoginFailed ==
  /\ phase = "gateway" /\ pc = "done" /\ ~lobby_login
  /\ phase' = "exit"
  /\ UNCHANGED <<psVars, sock, fds, nonblocking, lobby_login, igg_id, granted,
                 tickVars, sent>>

-----------------------------------------------------------------------------
\* main(), second part: the game server

\* The memset of c->stream, on a connection to a peer that will send s.
ResetStream_Kept(s) ==
  /\ stream' = s
  /\ base' = 0
  /\ pc' = "recv"
  /\ delivered' = <<>>
  /\ UNCHANGED <<buffer, read_pos, parse_pos>>

ResetStream(s) ==
  /\ stream' = s
  /\ base' = 0
  /\ buffer' = [i \in 0..(BUFFER_SIZE - 1) |-> 0]
  /\ read_pos' = 0
  /\ parse_pos' = 0
  /\ pc' = "recv"
  /\ delivered' = <<>>

ConnectGame ==
  /\ phase = "gateway" /\ pc = "done" /\ lobby_login
  /\ phase' = "game"
  /\ sock' = GameFd
  /\ fds' = fds \cup {GameFd}
  /\ nonblocking' \in BOOLEAN
  /\ \E s \in GameStreams : ResetStream(s)
  /\ sent' = <<RequestLogIn, RequestClientInitOver>>
  /\ ticked' = FALSE
  /\ UNCHANGED <<lobby_login, igg_id, granted, server_time, last_heartbeat, now>>

Finish ==
  /\ phase = "game" /\ pc = "done"
  /\ phase' = "exit"
  /\ disconnect
  /\ UNCHANGED <<psVars, nonblocking, lobby_login, igg_id, granted, tickVars,
                 sent>>

-----------------------------------------------------------------------------
\* ProcessConnection: BotTick, then recv(), then the packets

HeartbeatDue_Late == now - last_heartbeat > INTERVAL
HeartbeatDue == now - last_heartbeat >= INTERVAL

HeartbeatStamp == now

\* BotTick, of which this module keeps the heartbeat.
BotTick ==
  /\ InLoop /\ pc = "recv" /\ ~ticked
  /\ ticked' = TRUE
  /\ IF server_time # 0 /\ HeartbeatDue
       THEN /\ last_heartbeat' = HeartbeatStamp
            /\ sent' = Append(sent, RequestHeartBeat)
       ELSE UNCHANGED <<last_heartbeat, sent>>
  /\ UNCHANGED <<psVars, sessVars, server_time, now>>

\* Nothing to read on a non-blocking socket: sleep a millisecond, in which the
\* second may turn, and go round the loop.
TryAgain ==
  /\ InLoop /\ pc = "recv" /\ ticked /\ nonblocking
  /\ now' \in {now, now + 1} /\ now' <= MAX_NOW
  /\ ticked' = FALSE
  /\ UNCHANGED <<psVars, sessVars, server_time, last_heartbeat, sent>>

\* A blocking socket keeps the thread in recv() for as long as the peer likes.
Block ==
  /\ InLoop /\ pc = "recv" /\ ticked /\ ~nonblocking
  /\ now' = now + 1 /\ now' <= MAX_NOW
  /\ UNCHANGED <<psVars, sessVars, ticked, server_time, last_heartbeat, sent>>

Receive ==
  /\ InLoop /\ ticked
  /\ Recv
  /\ ticked' = FALSE
  /\ UNCHANGED <<sessVars, server_time, last_heartbeat, now, sent>>

HangUp ==
  /\ InLoop /\ ticked
  /\ RecvZero \/ RecvError
  /\ UNCHANGED <<sessVars, tickVars, sent>>

\* The first data byte stands for the field a handler reads from its packet.
Field == IF sin = <<>> THEN 0 ELSE sin[1]

\* HandleLoginValidate, then disconnect and return.
RecvLoginValidate_KeepsId ==
  /\ packet_type = LOGINVALIDATE
  /\ igg_id' = igg_id
  /\ granted' = IF phase = "gateway" THEN Field ELSE granted
  /\ lobby_login' = TRUE
  /\ disconnect
  /\ UNCHANGED <<phase, nonblocking, server_time>>

RecvLoginValidate ==
  /\ packet_type = LOGINVALIDATE
  /\ igg_id' = Field
  /\ granted' = IF phase = "gateway" THEN Field ELSE granted
  /\ lobby_login' = TRUE
  /\ disconnect
  /\ UNCHANGED <<phase, nonblocking, server_time>>

\* Both login errors: log, disconnect and return.
RecvLoginRefused ==
  /\ packet_type \in {LOGINERRORRESP, LOGINTOLRESP}
  /\ disconnect
  /\ UNCHANGED <<phase, nonblocking, lobby_login, igg_id, granted, server_time>>

RecvActive ==
  /\ packet_type = RESP_ACTIVE
  /\ server_time' = Field
  /\ UNCHANGED sessVars

\* Packets whose handlers touch nothing this module models.
RecvOther ==
  /\ packet_type \notin Terminal \cup {RESP_ACTIVE}
  /\ UNCHANGED <<sessVars, server_time>>

HandlePacket ==
  /\ InLoop
  /\ Dispatch
  /\ RecvLoginValidate \/ RecvLoginRefused \/ RecvActive \/ RecvOther
  /\ UNCHANGED <<ticked, last_heartbeat, now, sent>>

SkipOrWait ==
  /\ InLoop
  /\ DropHeader \/ Wait
  /\ UNCHANGED <<sessVars, tickVars, sent>>

Exited == phase = "exit" /\ UNCHANGED vars

-----------------------------------------------------------------------------
Main == ConnectGateway \/ ConnectFails \/ LoginFailed \/ ConnectGame \/ Finish

Loop == BotTick \/ HandlePacket \/ SkipOrWait

Next_Session == Main \/ Loop \/ Receive \/ HangUp \/ TryAgain \/ Block \/ Exited

Spec_Session == Init_Session /\ [][Next_Session]_vars

-----------------------------------------------------------------------------
\* Properties

\* Types; a heartbeat is never stamped later than the clock.
SessionTypeOK ==
  /\ phase \in {"start", "gateway", "game", "exit"}
  /\ sock \in {-1, 0, GatewayFd, GameFd}
  /\ fds \subseteq {GatewayFd, GameFd}
  /\ nonblocking \in BOOLEAN /\ lobby_login \in BOOLEAN /\ ticked \in BOOLEAN
  /\ igg_id \in Nat /\ granted \in Int /\ server_time \in Nat
  /\ now \in Nat /\ last_heartbeat \in 0..now

\* At most one descriptor is open at a time, and it is the one Connection.sock
\* names: disconnect, called from three packet cases and at the end of main,
\* closes the gateway socket before the game socket replaces it, and never a
\* second time.  It does not say that nothing is open at the end: after a hang-up
\* in the gateway loop main returns with the gateway socket open (main.c:846-849).
OneSocketOpen == fds = {sock} \cap {GatewayFd, GameFd}

\* The game server's packets are cut from the game server's bytes: nothing the
\* gateway left in the buffer is parsed after the memset ("clear old buffer").
CleanGameStream == phase = "game" => BufferIsWindow

\* The game login carries the identity the gateway granted on this run, and
\* the bot never talks to a game server without having been let in.
LoginAsGranted ==
  phase = "game" => (granted # -1 /\ sent[1] = [kind |-> "LogIn", id |-> granted])

BeatInGame == \E i \in 1..Len(sent) : sent[i].kind = "HeartBeat"

\* No packet of this connection has set the server time to 0, with which
\* BotTick stops.
ClockRuns ==
  \A n \in 1..Len(delivered) :
    delivered[n].type = RESP_ACTIVE =>
      delivered[n].payload # <<>> /\ delivered[n].payload[1] # 0

\* While the game socket does not block and the server's clock runs, two
\* heartbeats are never further apart than INTERVAL, whatever the server sends
\* in between (HeartbeatTick).  Behind a server time of 0 they may be: the bot
\* is silent until the next server time, and one iteration longer.
HeartbeatKept ==
  (phase = "game" /\ nonblocking /\ BeatInGame /\ ClockRuns)
    => now - last_heartbeat <= INTERVAL

\* What makes HeartbeatKept inductive: the loop parses before it ticks again, a
\* beat was only sent with a server time that has not gone back to 0, and after
\* a tick there is less than INTERVAL to go, so that one second more is allowed.
ParsesUnticked == pc = "parse" => ~ticked

BeatenInTime ==
  phase = "game" =>
    /\ BeatInGame /\ ClockRuns => server_time # 0
    /\ nonblocking /\ ticked /\ server_time # 0 => now - last_heartbeat < INTERVAL

HeartbeatInv == ParsesUnticked /\ BeatenInTime /\ HeartbeatKept
==============================================================================
