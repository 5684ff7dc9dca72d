---------------------------- MODULE Session_proofs ----------------------------
(***************************************************************************)
(* Theorems about Session: what PacketStream_proofs shows of the receive   *)
(* loop holds on both connections of the process, and its sockets and its  *)
(* login are in order, for every stream of every peer.                     *)
(***************************************************************************)
EXTENDS Session, PacketStream_proofs

SentType ==
  [kind : {"GuestLogIn", "LogIn", "ClientInitOver", "HeartBeat"}, id : Nat]

\* What each phase may rely on.  A login that was granted has closed its socket
\* and is the one that is granted; the game connection begins with it.
Entered ==
  /\ phase = "start" => sock = 0 /\ ~lobby_login
  /\ (phase = "gateway" /\ lobby_login) =>
       pc = "done" /\ sock = -1 /\ granted # -1 /\ granted = igg_id
  /\ phase = "game" => sent # <<>>
  /\ LoginAsGranted

SessionInv ==
  IInv /\ SessionTypeOK /\ sent \in Seq(SentType) /\ OneSocketOpen /\ Entered

LEMMA SessionStart == Init_Session => SessionInv
<1>. SUFFICES ASSUME Init_Session PROVE SessionInv
  OBVIOUS
<1>1. IInv
  BY InitIInv DEF Init_Session
<1>2. SessionTypeOK /\ sent \in Seq(SentType)
  <2>1. INTERVAL \in Nat /\ 0 \in 0..INTERVAL /\ -1 \in Int
    BY SessionAssumption
  <2>2. SessionTypeOK
    BY <2>1, SessionAssumption DEF Init_Session, SessionTypeOK
  <2>. QED  BY <2>2 DEF Init_Session
<1>3. OneSocketOpen /\ Entered
  BY DEF Init_Session, OneSocketOpen, Entered, LoginAsGranted, GatewayFd, GameFd
<1>. QED  BY <1>1, <1>2, <1>3 DEF SessionInv

\* The loop keeps its invariant on any connection, and a new one begins as the
\* zeroed Connection does.
LEMMA StreamUnchanged == IInv /\ UNCHANGED psVars => IInv'
BY HangUpIInv

LEMMA StreamReset == ASSUME NEW s \in Streams, ResetStream(s) PROVE IInv'
<1>1. Len(s) \in Nat
  BY StreamsAssumption
<1>2. TypeOK'
  BY HeaderAssumption, BufferAssumption DEF ResetStream, TypeOK, Byte
<1>3. CompactedAtRecv' /\ BufferIsWindow'
  BY <1>1 DEF ResetStream, CompactedAtRecv, BufferIsWindow
<1>4. NothingLeftBehind'
  BY HeaderAssumption DEF ResetStream, NothingLeftBehind, Unparsed
<1>. QED  BY <1>2, <1>3, <1>4 DEF IInv

-----------------------------------------------------------------------------
\* main

LEMMA MainKeeps == SessionInv /\ Main => SessionInv'
<1>. SUFFICES ASSUME SessionInv, Main PROVE SessionInv'
  OBVIOUS
<1>. USE DEF SessionInv, GatewayFd, GameFd
<1>1. CASE ConnectGateway
  <2>1. IInv'
    BY <1>1, StreamUnchanged DEF ConnectGateway
  <2>2. RequestGuestLogIn \in SentType
    BY DEF RequestGuestLogIn, SentType, SessionTypeOK
  <2>3. SessionTypeOK' /\ sent' \in Seq(SentType)
    BY <1>1, <2>2 DEF ConnectGateway, SessionTypeOK, tickVars
  <2>4. OneSocketOpen'
    BY <1>1 DEF ConnectGateway, Entered, OneSocketOpen
  <2>. QED  BY <1>1, <2>1, <2>3, <2>4 DEF ConnectGateway, Entered, LoginAsGranted
<1>2. CASE ConnectFails \/ LoginFailed
  <2>1. IInv'
    BY <1>2, StreamUnchanged DEF ConnectFails, LoginFailed
  <2>2. SessionTypeOK' /\ sent' \in Seq(SentType)
    BY <1>2 DEF ConnectFails, LoginFailed, SessionTypeOK, tickVars
  <2>3. OneSocketOpen'
    BY <1>2 DEF ConnectFails, LoginFailed, Entered, OneSocketOpen
  <2>. QED  BY <1>2, <2>1, <2>2, <2>3
            DEF ConnectFails, LoginFailed, Entered, LoginAsGranted
<1>3. CASE ConnectGame
  <2>1. PICK s \in GameStreams : ResetStream(s)
    BY <1>3 DEF ConnectGame
  <2>2. IInv'
    BY <2>1, SessionAssumption, StreamReset
  <2>3. RequestLogIn \in SentType /\ RequestClientInitOver \in SentType
    BY DEF RequestLogIn, RequestClientInitOver, SentType, SessionTypeOK
  <2>4. SessionTypeOK'
    BY <1>3 DEF ConnectGame, SessionTypeOK
  <2>. DEFINE first == RequestLogIn
              second == RequestClientInitOver
  <2>7. sent' = <<first, second>> /\ first \in SentType /\ second \in SentType
    BY <1>3, <2>3 DEF ConnectGame
  <2>8. sent' \in Seq(SentType)
    <3>. HIDE DEF first, second
    <3>. QED  BY <2>7
  <2>5. OneSocketOpen'
    BY <1>3 DEF ConnectGame, Entered, OneSocketOpen
  <2>6. Entered'
    BY <1>3 DEF ConnectGame, Entered, LoginAsGranted, RequestLogIn
  <2>. QED  BY <2>2, <2>4, <2>5, <2>6, <2>8
<1>4. CASE Finish
  <2>1. IInv'
    BY <1>4, StreamUnchanged DEF Finish
  <2>2. SessionTypeOK' /\ sent' \in Seq(SentType) /\ OneSocketOpen'
    BY <1>4 DEF Finish, disconnect, SessionTypeOK, OneSocketOpen, tickVars
  <2>. QED  BY <1>4, <2>1, <2>2 DEF Finish, Entered, LoginAsGranted
<1>. QED  BY <1>1, <1>2, <1>3, <1>4 DEF Main

-----------------------------------------------------------------------------
\* ProcessConnection

\* A heartbeat is one request more, behind the login.
LEMMA TickKeeps == SessionInv /\ BotTick => SessionInv'
<1>. SUFFICES ASSUME SessionInv, BotTick PROVE SessionInv'
  OBVIOUS
<1>. USE DEF SessionInv
<1>1. IInv'
  BY StreamUnchanged DEF BotTick
<1>2. UNCHANGED <<sessVars, server_time, now, pc>>
  BY DEF BotTick, psVars
<1>3. CASE UNCHANGED <<last_heartbeat, sent>>
  BY <1>1, <1>2, <1>3
     DEF BotTick, SessionTypeOK, OneSocketOpen, Entered, LoginAsGranted, sessVars
<1>4. CASE last_heartbeat' = HeartbeatStamp /\ sent' = Append(sent, RequestHeartBeat)
  <2>1. RequestHeartBeat \in SentType
    BY DEF RequestHeartBeat, SentType, SessionTypeOK
  <2>2. /\ sent' \in Seq(SentType) /\ sent' # <<>>
        /\ sent # <<>> => sent'[1] = sent[1]
    <3>1. sent' \in Seq(SentType) /\ Len(sent') = Len(sent) + 1 /\ Len(sent) \in Nat
      BY <1>4, <2>1, AppendProperties, LenProperties
    <3>2. sent # <<>> => 1 \in 1..Len(sent)
      BY <3>1, EmptySeq
    <3>3. \A i \in 1..Len(sent) : sent'[i] = sent[i]
      BY <1>4, <2>1, AppendProperties
    <3>. QED  BY <3>1, <3>2, <3>3, EmptySeq
  <2>3. SessionTypeOK'
    BY <1>2, <1>4 DEF BotTick, SessionTypeOK, HeartbeatStamp, sessVars
  <2>. QED  BY <1>1, <1>2, <2>2, <2>3
            DEF OneSocketOpen, Entered, LoginAsGranted, sessVars
<1>. QED  BY <1>3, <1>4 DEF BotTick

\* recv(), whatever it returns, and the packets without a handler here.
LEMMA ReadKeeps ==
  SessionInv /\ (Receive \/ HangUp \/ TryAgain \/ Block \/ SkipOrWait \/ UNCHANGED vars)
    => SessionInv'
<1>. SUFFICES ASSUME SessionInv,
                     Receive \/ HangUp \/ TryAgain \/ Block \/ SkipOrWait \/ UNCHANGED vars
              PROVE  SessionInv'
  OBVIOUS
<1>. USE DEF SessionInv
<1>1. IInv'
  BY RecvIInv, HangUpIInv, DropHeaderIInv, WaitIInv
     DEF Receive, HangUp, TryAgain, Block, SkipOrWait, vars
<1>2. UNCHANGED <<sessVars, server_time, last_heartbeat, sent>>
  BY DEF Receive, HangUp, TryAgain, Block, SkipOrWait, vars, tickVars
<1>3. /\ ticked' \in BOOLEAN
      /\ now' \in {now, now + 1}
      /\ InLoop \/ UNCHANGED pc
  BY DEF Receive, HangUp, TryAgain, Block, SkipOrWait, vars, tickVars, psVars,
         SessionTypeOK
<1>4. SessionTypeOK' /\ OneSocketOpen'
  BY <1>2, <1>3 DEF SessionTypeOK, OneSocketOpen, sessVars
<1>5. Entered'
  BY <1>2, <1>3 DEF Entered, LoginAsGranted, InLoop, sessVars
<1>. QED  BY <1>1, <1>2, <1>4, <1>5

LEMMA HandleKeeps == SessionInv /\ HandlePacket => SessionInv'
<1>. SUFFICES ASSUME SessionInv, HandlePacket PROVE SessionInv'
  OBVIOUS
<1>. USE DEF SessionInv
<1>1. IInv' /\ Field \in Nat
  <2>1. sin \in Seq(Byte)
    BY SinType DEF HandlePacket, Dispatch, IInv
  <2>2. sin # <<>> => sin[1] \in Byte
    BY <2>1, EmptySeq, LenProperties, ElementOfSeq
  <2>3. Field \in Nat
    <3>1. \A b \in Byte : b \in Nat
      BY DEF Byte
    <3>2. CASE sin = <<>>
      BY <3>2 DEF Field
    <3>3. CASE sin # <<>>
      BY <2>2, <3>1, <3>3 DEF Field
    <3>. QED  BY <3>2, <3>3
  <2>. QED  BY <2>3, DispatchIInv DEF HandlePacket
<1>2. UNCHANGED <<phase, nonblocking, ticked, last_heartbeat, now, sent>>
  BY DEF HandlePacket, RecvLoginValidate, RecvLoginRefused, RecvActive, RecvOther,
         sessVars
<1>3. phase \in {"gateway", "game"} /\ ~(phase = "gateway" /\ lobby_login)
  BY DEF HandlePacket, InLoop, Entered
<1>4. CASE RecvLoginValidate
  <2>1. pc' = "done"
    BY <1>4, SessionAssumption DEF HandlePacket, Dispatch, RecvLoginValidate
  <2>2. SessionTypeOK' /\ OneSocketOpen'
    BY <1>1, <1>2, <1>4 DEF RecvLoginValidate, disconnect, SessionTypeOK, OneSocketOpen,
                            GatewayFd, GameFd
  <2>. QED  BY <1>1, <1>2, <1>3, <1>4, <2>1, <2>2
            DEF RecvLoginValidate, disconnect, Entered, LoginAsGranted
<1>5. CASE RecvLoginRefused
  <2>1. SessionTypeOK' /\ OneSocketOpen'
    BY <1>2, <1>5 DEF RecvLoginRefused, disconnect, SessionTypeOK, OneSocketOpen,
                      GatewayFd, GameFd
  <2>. QED  BY <1>1, <1>2, <1>3, <1>5, <2>1 DEF RecvLoginRefused, Entered, LoginAsGranted
<1>6. CASE RecvActive \/ RecvOther
  <2>1. UNCHANGED sessVars /\ server_time' \in Nat
    BY <1>1, <1>6 DEF RecvActive, RecvOther, SessionTypeOK
  <2>. QED  BY <1>1, <1>2, <1>3, <2>1
            DEF SessionTypeOK, OneSocketOpen, Entered, LoginAsGranted, sessVars
<1>. QED  BY <1>4, <1>5, <1>6 DEF HandlePacket

-----------------------------------------------------------------------------
\* The process keeps its descriptors, its buffer and its login in order.
THEOREM SessionInvariant == Spec_Session => []SessionInv
<1>1. SessionInv /\ [Next_Session]_vars => SessionInv'
  BY MainKeeps, TickKeeps, ReadKeeps, HandleKeeps DEF Next_Session, Loop, Exited
<1>. QED  BY SessionStart, <1>1, PTL DEF Spec_Session

\* The heartbeat is never stamped later than the clock (HeartbeatTick).
THEOREM SessionTypes == Spec_Session => []SessionTypeOK
BY SessionInvariant, PTL DEF SessionInv

\* Two descriptors are never open, and the one that is open is the one that
\* Connection.sock names (disconnect and connect_server in main, with failures at
\* every step between).  Whether one is still open when main returns is not said.
THEOREM OneSocketOpenAlways == Spec_Session => []OneSocketOpen
BY SessionInvariant, PTL DEF SessionInv

\* What the game server's packets are cut from is what the game server sent
\* (the memset of c->stream in main).
THEOREM CleanGameStreamAlways == Spec_Session => []CleanGameStream
<1>1. SessionInv => CleanGameStream
  BY DEF SessionInv, IInv, CleanGameStream
<1>. QED  BY SessionInvariant, <1>1, PTL

\* The game login carries what the gateway granted (HandleLoginValidate).
THEOREM LoginAsGrantedAlways == Spec_Session => []LoginAsGranted
<1>1. SessionInv => LoginAsGranted
  BY DEF SessionInv, Entered
<1>. QED  BY SessionInvariant, <1>1, PTL

-----------------------------------------------------------------------------
\* The heartbeat

LEMMA HeartbeatStart == Init_Session => HeartbeatInv
BY DEF Init_Session, Init, Fresh, HeartbeatInv, ParsesUnticked, BeatenInTime, HeartbeatKept

\* The steps of main: a connection begins without a beat.
LEMMA MainBeats == SessionInv /\ HeartbeatInv /\ Main => HeartbeatInv'
<1>. SUFFICES ASSUME SessionInv, HeartbeatInv, Main PROVE HeartbeatInv'
  OBVIOUS
<1>. USE DEF HeartbeatInv, ParsesUnticked, BeatenInTime, HeartbeatKept
<1>1. CASE ConnectGateway
  BY <1>1 DEF ConnectGateway, psVars, tickVars
<1>2. CASE ConnectFails \/ LoginFailed \/ Finish
  BY <1>2 DEF ConnectFails, LoginFailed, Finish, psVars, tickVars
<1>3. CASE ConnectGame
  <2>1. pc' = "recv" /\ ticked' = FALSE
    BY <1>3 DEF ConnectGame, ResetStream
  <2>2. ~BeatInGame'
    BY <1>3 DEF ConnectGame, BeatInGame, RequestLogIn, RequestClientInitOver
  <2>. QED  BY <2>1, <2>2
<1>. QED  BY <1>1, <1>2, <1>3 DEF Main

\* A tick beats when it is time to, and then the beat is new.
LEMMA TickBeats == SessionInv /\ HeartbeatInv /\ BotTick => HeartbeatInv'
<1>. SUFFICES ASSUME SessionInv, HeartbeatInv, BotTick PROVE HeartbeatInv'
  OBVIOUS
<1>1. UNCHANGED <<phase, pc, delivered, nonblocking, server_time, now>> /\ pc = "recv"
  BY DEF BotTick, psVars, sessVars
<1>2. ClockRuns' = ClockRuns
  BY <1>1 DEF ClockRuns
<1>3. now \in Nat /\ last_heartbeat \in Nat /\ INTERVAL \in Nat /\ INTERVAL > 0
  BY SessionAssumption DEF SessionInv, SessionTypeOK
<1>4. CASE server_time # 0 /\ HeartbeatDue
  BY <1>1, <1>2, <1>3, <1>4
     DEF BotTick, HeartbeatStamp, HeartbeatInv, ParsesUnticked, BeatenInTime, HeartbeatKept
<1>5. CASE ~(server_time # 0 /\ HeartbeatDue)
  <2>1. UNCHANGED <<last_heartbeat, sent>>
    BY <1>5 DEF BotTick
  <2>2. BeatInGame' = BeatInGame
    BY <2>1 DEF BeatInGame
  <2>. QED  BY <1>1, <1>2, <1>3, <1>5, <2>1, <2>2
            DEF HeartbeatDue, HeartbeatInv, ParsesUnticked, BeatenInTime, HeartbeatKept
<1>. QED  BY <1>4, <1>5

\* The clock turns behind a tick only, by one second.
LEMMA ReadBeats ==
  SessionInv /\ HeartbeatInv
    /\ (Receive \/ HangUp \/ TryAgain \/ Block \/ SkipOrWait \/ UNCHANGED vars)
    => HeartbeatInv'
<1>. SUFFICES ASSUME SessionInv, HeartbeatInv,
                     Receive \/ HangUp \/ TryAgain \/ Block \/ SkipOrWait \/ UNCHANGED vars
              PROVE  HeartbeatInv'
  OBVIOUS
<1>1. UNCHANGED <<phase, delivered, nonblocking, server_time, last_heartbeat, sent>>
  BY DEF Receive, Recv, HangUp, RecvZero, RecvError, TryAgain, Block, SkipOrWait,
         DropHeader, Wait, vars, psVars, sessVars, tickVars
<1>2. ClockRuns' = ClockRuns /\ BeatInGame' = BeatInGame
  BY <1>1 DEF ClockRuns, BeatInGame
<1>3. now \in Nat /\ last_heartbeat \in Nat /\ INTERVAL \in Nat /\ INTERVAL > 0
  BY SessionAssumption DEF SessionInv, SessionTypeOK
<1>4. \/ ticked' = FALSE /\ now' = now
      \/ ticked' = ticked /\ now' = now /\ (pc' = "parse" => pc = "parse")
      \/ ticked /\ ticked' = FALSE /\ now' \in {now, now + 1}
      \/ ~nonblocking /\ pc' = pc /\ ticked' = ticked
  BY DEF Receive, HangUp, RecvZero, RecvError, TryAgain, Block, SkipOrWait,
         DropHeader, Wait, vars, psVars, tickVars
<1>. QED  BY <1>1, <1>2, <1>3, <1>4
          DEF HeartbeatInv, ParsesUnticked, BeatenInTime, HeartbeatKept

\* A packet changes the server time to what it says, and to nothing else.
LEMMA HandleBeats == SessionInv /\ HeartbeatInv /\ HandlePacket => HeartbeatInv'
<1>. SUFFICES ASSUME SessionInv, HeartbeatInv, HandlePacket PROVE HeartbeatInv'
  OBVIOUS
<1>1. /\ UNCHANGED <<phase, nonblocking, ticked, last_heartbeat, now, sent>>
      /\ pc = "parse" /\ delivered' = Append(delivered, [type |-> packet_type, payload |-> sin])
  BY DEF HandlePacket, Dispatch, RecvLoginValidate, RecvLoginRefused, RecvActive, RecvOther,
         sessVars
<1>2. BeatInGame' = BeatInGame /\ ~ticked'
  BY <1>1 DEF BeatInGame, HeartbeatInv, ParsesUnticked
<1>3. /\ Len(delivered) \in Nat /\ Len(delivered') = Len(delivered) + 1
      /\ \A n \in 1..Len(delivered) : delivered'[n] = delivered[n]
      /\ delivered'[Len(delivered) + 1] = [type |-> packet_type, payload |-> sin]
  <2>. DEFINE frame == [type |-> packet_type, payload |-> sin]
              Frame == [type : Nat, payload : Seq(Byte)]
  <2>1. delivered \in Seq(Frame) /\ delivered' \in Seq(Frame)
    <3>1. IInv'
      BY DispatchIInv DEF HandlePacket, SessionInv
    <3>. QED  BY <3>1 DEF SessionInv, IInv, TypeOK
  <2>2. delivered' = Append(delivered, frame)
    BY <1>1
  <2>3. frame \in Frame
    <3>1. packet_type \in Nat
      BY HeaderType DEF HandlePacket, Dispatch, SessionInv, IInv
    <3>2. sin \in Seq(Byte)
      BY SinType DEF HandlePacket, Dispatch, SessionInv, IInv
    <3>. QED  BY <3>1, <3>2
  <2>. HIDE DEF frame, Frame
  <2>4. /\ Len(delivered) \in Nat /\ Len(delivered') = Len(delivered) + 1
        /\ \A n \in 1..Len(delivered) : delivered'[n] = delivered[n]
        /\ delivered'[Len(delivered) + 1] = frame
    BY <2>1, <2>2, <2>3, AppendProperties, LenProperties
  <2>. QED  BY <2>4 DEF frame
<1>4. /\ ClockRuns' => ClockRuns
      /\ ClockRuns' /\ packet_type = RESP_ACTIVE => sin # <<>> /\ sin[1] # 0
  <2>1. ASSUME ClockRuns' PROVE ClockRuns
    <3>1. \A n \in 1..Len(delivered) : n \in 1..Len(delivered')
      BY <1>3
    <3>. QED  BY <1>3, <2>1, <3>1 DEF ClockRuns
  <2>2. ASSUME ClockRuns', packet_type = RESP_ACTIVE PROVE sin # <<>> /\ sin[1] # 0
    <3>1. Len(delivered) + 1 \in 1..Len(delivered')
      BY <1>3
    <3>. QED  BY <1>3, <2>2, <3>1 DEF ClockRuns
  <2>. QED  BY <2>1, <2>2
<1>5. ClockRuns' => (server_time # 0 => server_time' # 0)
  BY <1>4 DEF HandlePacket, RecvLoginValidate, RecvLoginRefused, RecvActive, RecvOther,
              Field, sessVars
<1>. QED  BY <1>1, <1>2, <1>4, <1>5
          DEF HeartbeatInv, ParsesUnticked, BeatenInTime, HeartbeatKept

\* Heartbeats keep their interval as long as the socket does not block and the
\* server's clock runs, for any interval, any streams and any cut of them
\* (BotTick, HeartbeatTick and the loop of ProcessConnection).
THEOREM HeartbeatKeptAlways == Spec_Session => []HeartbeatKept
<1>1. SessionInv /\ HeartbeatInv /\ [Next_Session]_vars => HeartbeatInv'
  BY MainBeats, TickBeats, ReadBeats, HandleBeats DEF Next_Session, Loop, Exited
<1>2. HeartbeatInv => HeartbeatKept
  BY DEF HeartbeatInv
<1>. QED  BY SessionInvariant, HeartbeatStart, <1>1, <1>2, PTL DEF Spec_Session
================================================================================
