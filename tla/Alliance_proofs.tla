---------------------------- MODULE Alliance_proofs ----------------------------
(***************************************************************************)
(* Theorems about what the bot keeps of its alliance: rallies, members,    *)
(* help and gifts, for every server.                                       *)
(*                                                                         *)
(* The tables of rallies follow the server because packets come in order:  *)
(* the last packet on the way about an entry carries what the server       *)
(* shows, and without one the table has it.                                *)
(***************************************************************************)
EXTENDS WarHall, AllianceMember, AllianceHelp, AllianceGift, SequenceTheorems, FunctionTheorems,
        FiniteSetTheorems, WellFoundedInduction, TLAPS

IsAbout(m, t, i) ==
  m.type \in {"Data", "Del", "NPC", "Troop"} /\ m.kind = t /\ m.index = i

AboutIn(w, t, i) == {n \in DOMAIN w : IsAbout(w[n], t, i)}

\* The last packet of w about an entry carries v, or there is none and the
\* entry, which holds z, has it.
LastSays(w, t, i, v, z) ==
  IF AboutIn(w, t, i) = {}
    THEN z = v
    ELSE \E n \in AboutIn(w, t, i) : w[n].rally = v /\ \A k \in AboutIn(w, t, i) : k <= n

\* The inductive invariant: what is on the way ends with what the server shows.
WireEndsAsShown ==
  \A t \in Tables, i \in RallySlot :
    LastSays(rallyWire, t, i, shown[t][i], table[t][i])

HallInv == HallTypeOK /\ WireEndsAsShown

-----------------------------------------------------------------------------
\* Sequences of packets

LEMMA AppendSays ==
  ASSUME NEW w \in Seq(HallPacketType), NEW m \in HallPacketType,
         NEW t, NEW i, NEW v, NEW z, LastSays(w, t, i, v, z)
  PROVE  LastSays(Append(w, m), t, i, IF IsAbout(m, t, i) THEN m.rally ELSE v, z)
<1> DEFINE x == Append(w, m)
<1>1. /\ x \in Seq(HallPacketType) /\ Len(x) = Len(w) + 1 /\ Len(w) \in Nat
      /\ DOMAIN x = 1..(Len(w) + 1) /\ DOMAIN w = 1..Len(w)
      /\ \A n \in 1..Len(w) : x[n] = w[n]
      /\ x[Len(w) + 1] = m
  OBVIOUS
<1> HIDE DEF x
<1>2. CASE IsAbout(m, t, i)
  <2>1. Len(w) + 1 \in AboutIn(x, t, i)
    BY <1>1, <1>2 DEF AboutIn
  <2>2. \A k \in AboutIn(x, t, i) : k <= Len(w) + 1
    BY <1>1 DEF AboutIn
  <2> QED
    BY <1>1, <1>2, <2>1, <2>2 DEF LastSays, x
<1>3. CASE ~IsAbout(m, t, i)
  <2>1. AboutIn(x, t, i) = AboutIn(w, t, i)
    <3>1. \A n \in DOMAIN x : n \in DOMAIN w \/ n = Len(w) + 1
      BY <1>1
    <3>2. \A n \in DOMAIN w : n \in DOMAIN x /\ x[n] = w[n]
      BY <1>1
    <3> QED
      BY <1>1, <1>3, <3>1, <3>2 DEF AboutIn
  <2>2. \A n \in AboutIn(w, t, i) : x[n] = w[n]
    BY <1>1 DEF AboutIn
  <2> QED
    BY <1>3, <2>1, <2>2 DEF LastSays, x
<1> QED
  BY <1>2, <1>3

LEMMA TailSays ==
  ASSUME NEW w \in Seq(HallPacketType), w # <<>>,
         NEW t, NEW i, NEW v, NEW z, LastSays(w, t, i, v, z)
  PROVE  LastSays(Tail(w), t, i, v, IF IsAbout(Head(w), t, i) THEN Head(w).rally ELSE z)
<1> DEFINE x == Tail(w)
           y == IF IsAbout(Head(w), t, i) THEN Head(w).rally ELSE z
<1>1. /\ Len(w) \in Nat /\ Len(w) >= 1 /\ DOMAIN w = 1..Len(w)
      /\ DOMAIN x = 1..(Len(w) - 1)
      /\ \A n \in 1..(Len(w) - 1) : x[n] = w[n + 1]
      /\ Head(w) = w[1]
  OBVIOUS
<1> HIDE DEF x
<1>2. \A n \in DOMAIN x : n \in AboutIn(x, t, i) <=> n + 1 \in AboutIn(w, t, i)
  BY <1>1 DEF AboutIn
<1>3. AboutIn(x, t, i) \subseteq DOMAIN x /\ AboutIn(w, t, i) \subseteq DOMAIN w
  BY DEF AboutIn
<1>4. 1 \in AboutIn(w, t, i) <=> IsAbout(Head(w), t, i)
  BY <1>1 DEF AboutIn
<1>5. CASE AboutIn(x, t, i) = {}
  <2>1. ASSUME NEW n \in AboutIn(w, t, i) PROVE n = 1
    <3>1. SUFFICES ASSUME n # 1 PROVE FALSE
      OBVIOUS
    <3>2. n - 1 \in DOMAIN x /\ (n - 1) + 1 = n
      BY <1>1, <1>3, <3>1
    <3> QED
      BY <1>2, <1>5, <3>2
  <2>2. y = v
    <3>1. CASE AboutIn(w, t, i) = {}
      BY <1>4, <3>1 DEF LastSays, y
    <3>2. CASE AboutIn(w, t, i) # {}
      <4>1. PICK n \in AboutIn(w, t, i) : w[n].rally = v
        BY <3>2 DEF LastSays
      <4> QED
        BY <1>1, <1>4, <2>1, <4>1 DEF y
    <3> QED
      BY <3>1, <3>2
  <2> QED
    BY <1>5, <2>2 DEF LastSays, x
<1>6. CASE AboutIn(x, t, i) # {}
  <2>1. PICK k \in AboutIn(x, t, i) : TRUE
    BY <1>6
  <2>2. k + 1 \in AboutIn(w, t, i) /\ k \in Nat /\ k >= 1
    BY <1>1, <1>2, <1>3, <2>1
  <2>3. PICK n \in AboutIn(w, t, i) :
          w[n].rally = v /\ \A j \in AboutIn(w, t, i) : j <= n
    BY <2>2 DEF LastSays
  <2>4. n \in 2..Len(w)
    BY <1>1, <1>3, <2>2, <2>3
  <2>5. n - 1 \in DOMAIN x /\ n - 1 \in AboutIn(x, t, i) /\ x[n - 1].rally = v
    <3>1. n - 1 \in DOMAIN x /\ (n - 1) + 1 = n
      BY <1>1, <2>4
    <3> QED
      BY <1>1, <1>2, <2>3, <3>1
  <2>6. \A j \in AboutIn(x, t, i) : j <= n - 1
    <3> SUFFICES ASSUME NEW j \in AboutIn(x, t, i) PROVE j <= n - 1
      OBVIOUS
    <3>1. j + 1 \in AboutIn(w, t, i) /\ j \in Nat
      BY <1>1, <1>2, <1>3
    <3> QED
      BY <2>3, <2>4, <3>1
  <2> QED
    BY <1>6, <2>5, <2>6 DEF LastSays, x
<1> QED
  BY <1>5, <1>6

-----------------------------------------------------------------------------
\* Steps

\* Where a packet that has been handled leaves an entry.
Handled(m, t, i) == IF IsAbout(m, t, i) THEN m.rally ELSE table[t][i]

\* A handler that writes what its packet says, and nothing else, keeps the
\* invariant.
LEMMA ReceiveKeeps ==
  ASSUME HallInv, rallyWire # <<>>, rallyWire' = Tail(rallyWire), shown' = shown,
         \A t \in Tables, i \in RallySlot :
           table'[t][i] = Handled(Head(rallyWire), t, i)
  PROVE  WireEndsAsShown'
<1> SUFFICES ASSUME NEW t \in Tables, NEW i \in RallySlot
             PROVE  LastSays(rallyWire', t, i, shown'[t][i], table'[t][i])
  BY DEF WireEndsAsShown
<1>1. LastSays(rallyWire, t, i, shown[t][i], table[t][i]) /\ rallyWire \in Seq(HallPacketType)
  BY DEF HallInv, WireEndsAsShown, HallTypeOK
<1>2. LastSays(Tail(rallyWire), t, i, shown[t][i], Handled(Head(rallyWire), t, i))
  BY <1>1, TailSays DEF Handled
<1> QED
  BY <1>2

\* A packet that says what the server shows from now on keeps the invariant.
LEMMA SendKeeps ==
  ASSUME HallInv, NEW m \in HallPacketType, rallyWire' = Append(rallyWire, m), table' = table,
         \A t \in Tables, i \in RallySlot :
           shown'[t][i] = IF IsAbout(m, t, i) THEN m.rally ELSE shown[t][i]
  PROVE  WireEndsAsShown'
<1> SUFFICES ASSUME NEW t \in Tables, NEW i \in RallySlot
             PROVE  LastSays(rallyWire', t, i, shown'[t][i], table'[t][i])
  BY DEF WireEndsAsShown
<1>1. LastSays(rallyWire, t, i, shown[t][i], table[t][i]) /\ rallyWire \in Seq(HallPacketType)
  BY DEF HallInv, WireEndsAsShown, HallTypeOK
<1> QED
  BY <1>1, AppendSays

-----------------------------------------------------------------------------
\* Types

\* Writing what a packet says within a table.
LEMMA PutWithin ==
  ASSUME HallTypeOK, NEW t \in Tables, NEW i \in RallySlot, NEW r \in Entries, Put(t, i, r)
  PROVE  /\ table' \in [Tables -> [RallySlot -> Entries]]
         /\ \A u \in Tables, j \in RallySlot :
              table'[u][j] = IF u = t /\ j = i THEN r ELSE table[u][j]
<1>1. table \in [Tables -> [RallySlot -> Entries]]
  BY DEF HallTypeOK
<1>2. DOMAIN table[t] \cup {i} = RallySlot
  BY <1>1
<1>3. table' = [table EXCEPT ![t] = [j \in RallySlot |-> IF j = i THEN r ELSE table[t][j]]]
  BY <1>2 DEF Put
<1> QED
  BY <1>1, <1>3

\* What every action that reads a packet does to the wire.
LEMMA HallReceiveFacts ==
  ASSUME HallTypeOK, NEW type, HallReceive(type)
  PROVE  /\ rallyWire # <<>> /\ rallyWire' = Tail(rallyWire)
         /\ rallyWire' \in Seq(HallPacketType)
         /\ Head(rallyWire) \in HallPacketType /\ Head(rallyWire).type = type
  BY DEF HallReceive, HallTypeOK

\* The fields of the packets that name an entry.
LEMMA PacketFields ==
  ASSUME NEW m \in HallPacketType
  PROVE  /\ m.type \in {"Data", "Del"} =>
              m.kind \in Halls \cup {"other"} /\ m.index \in Nat /\ m.rally \in Entries
         /\ m.type = "Del" => m.rally = NoRally
         /\ m.type = "NPC" => m.kind = "npc" /\ m.index \in Nat /\ m.rally \in Entries
         /\ m.type = "Troop" => m.kind = "member" /\ m.index \in Nat /\ m.rally \in Entries
         /\ m.type = "Count" => m.status \in Nat \X Nat
<1>1. CASE m \in [type : {"Social", "News"}]
  BY <1>1
<1>2. CASE m \in [type : {"Count"}, status : Nat \X Nat]
  BY <1>2
<1>3. CASE m \in [type : {"Data"}, kind : Halls \cup {"other"}, index : Nat, rally : Rallies]
  BY <1>3 DEF Entries
<1>4. CASE m \in [type : {"Del"}, kind : Halls \cup {"other"}, index : Nat, rally : {NoRally}]
  BY <1>4 DEF Entries
<1>5. CASE m \in [type : {"NPC"}, kind : {"npc"}, index : Nat, rally : Rallies]
  BY <1>5 DEF Entries
<1>6. CASE m \in [type : {"Troop"}, kind : {"member"}, index : Nat, rally : Rallies]
  BY <1>6 DEF Entries
<1> QED
  BY <1>1, <1>2, <1>3, <1>4, <1>5, <1>6 DEF HallPacketType

LEMMA Spots == \A n \in Nat : n \in RallySlot <=> n < RALLY_SLOTS
  BY HallAssumption DEF RallySlot

-----------------------------------------------------------------------------
\* The bot's steps

\* A handler of packets about one table that writes within it, or skips.
LEMMA WriteKeeps ==
  ASSUME HallInv, NEW type \in {"Data", "Del", "NPC", "Troop"}, HallReceive(type),
         UNCHANGED <<rally_status, shown>>,
         rallyRequests' \in Seq(HallRequestType),
         LET m == Head(rallyWire) IN
           IF m.kind \in Tables /\ m.index < RALLY_SLOTS
             THEN Put(m.kind, m.index, m.rally) ELSE UNCHANGED table
  PROVE  HallInv'
<1> DEFINE m == Head(rallyWire)
<1>1. HallTypeOK
  BY DEF HallInv
<1>2. /\ rallyWire # <<>> /\ rallyWire' = Tail(rallyWire)
      /\ rallyWire' \in Seq(HallPacketType)
      /\ m \in HallPacketType /\ m.type = type
  BY <1>1, HallReceiveFacts
<1>3. m.kind \in Tables \cup {"other"} /\ m.index \in Nat /\ m.rally \in Entries
  BY <1>2, PacketFields DEF Tables, Halls
<1>4. /\ table' \in [Tables -> [RallySlot -> Entries]]
      /\ \A t \in Tables, i \in RallySlot : table'[t][i] = Handled(m, t, i)
  <2>1. CASE m.kind \in Tables /\ m.index < RALLY_SLOTS
    <3>1. Put(m.kind, m.index, m.rally) /\ m.index \in RallySlot
      BY <1>3, <2>1, Spots
    <3>2. /\ table' \in [Tables -> [RallySlot -> Entries]]
          /\ \A t \in Tables, i \in RallySlot :
               table'[t][i] = IF t = m.kind /\ i = m.index THEN m.rally ELSE table[t][i]
      BY <1>1, <1>3, <2>1, <3>1, PutWithin
    <3> QED
      BY <1>2, <3>2 DEF Handled, IsAbout
  <2>2. CASE ~(m.kind \in Tables /\ m.index < RALLY_SLOTS)
    <3>1. table' = table
      BY <2>2
    <3>2. \A t \in Tables, i \in RallySlot : ~IsAbout(m, t, i)
      BY <1>3, <2>2, Spots DEF IsAbout
    <3> QED
      BY <1>1, <3>1, <3>2 DEF Handled, HallTypeOK
  <2> QED
    BY <2>1, <2>2
<1>5. HallTypeOK'
  BY <1>1, <1>2, <1>4 DEF HallTypeOK
<1>6. WireEndsAsShown'
  BY <1>2, <1>4, ReceiveKeeps
<1> QED
  BY <1>5, <1>6 DEF HallInv

\* A handler that writes to no table.
LEMMA ReadKeeps ==
  ASSUME HallInv, NEW type \in {"Social", "Count", "News"}, HallReceive(type),
         UNCHANGED <<table, shown>>,
         rally_status' \in Nat \X Nat, rallyRequests' \in Seq(HallRequestType)
  PROVE  HallInv'
<1>1. HallTypeOK
  BY DEF HallInv
<1>2. /\ rallyWire # <<>> /\ rallyWire' = Tail(rallyWire)
      /\ rallyWire' \in Seq(HallPacketType)
      /\ Head(rallyWire).type = type
  BY <1>1, HallReceiveFacts
<1>3. \A t \in Tables, i \in RallySlot : table'[t][i] = Handled(Head(rallyWire), t, i)
  BY <1>2 DEF Handled, IsAbout
<1>4. HallTypeOK'
  BY <1>1, <1>2 DEF HallTypeOK
<1>5. WireEndsAsShown'
  BY <1>2, <1>3, ReceiveKeeps
<1> QED
  BY <1>4, <1>5 DEF HallInv

LEMMA HallPacketKeeps == HallInv /\ HallPacket => HallInv'
<1> SUFFICES ASSUME HallInv, HallPacket PROVE HallInv'
  OBVIOUS
<1> DEFINE m == Head(rallyWire)
<1>1. HallTypeOK /\ rallyRequests \in Seq(HallRequestType) /\ rally_status \in Nat \X Nat
  BY DEF HallInv, HallTypeOK
<1>2. CASE RecvHallSocialData
  <2>1. rallyRequests' \in Seq(HallRequestType)
    BY <1>1, <1>2 DEF RecvHallSocialData, HallRequestType
  <2> QED
    BY <1>1, <1>2, <2>1, ReadKeeps DEF RecvHallSocialData
<1>3. CASE RecvWallHallData
  <2>1. HallReceive("Data") /\ UNCHANGED <<rally_status, shown>>
    BY <1>3 DEF RecvWallHallData
  <2>2. m \in HallPacketType /\ m.type = "Data"
    BY <1>1, <2>1, HallReceiveFacts
  <2>3. m.kind \in Halls \cup {"other"} /\ m.index \in Nat
    BY <2>2, PacketFields
  <2>4. m.kind \in Tables <=> m.kind \in Halls
    BY <2>3 DEF Tables, Halls
  <2>5. rallyRequests' \in Seq(HallRequestType)
    <3>1. CASE m.kind \in Halls /\ m.index < RALLY_SLOTS
      <4>1. [type |-> "Detail", kind |-> "ally", index |-> m.index] \in HallRequestType
        BY <2>3, <3>1, Spots DEF HallRequestType, Halls
      <4> QED
        BY <1>1, <1>3, <3>1, <4>1 DEF RecvWallHallData, RequestRallyDetail
    <3>2. CASE ~(m.kind \in Halls /\ m.index < RALLY_SLOTS)
      BY <1>1, <1>3, <3>2 DEF RecvWallHallData
    <3> QED
      BY <3>1, <3>2
  <2> QED
    BY <1>3, <2>1, <2>4, <2>5, WriteKeeps DEF RecvWallHallData
<1>4. CASE RecvWallHallDel
  <2>1. HallReceive("Del") /\ UNCHANGED <<rally_status, rallyRequests, shown>>
    BY <1>4 DEF RecvWallHallDel
  <2>2. m \in HallPacketType /\ m.type = "Del"
    BY <1>1, <2>1, HallReceiveFacts
  <2>3. m.kind \in Halls \cup {"other"} /\ m.rally = NoRally
    BY <2>2, PacketFields
  <2>4. m.kind \in Tables <=> m.kind \in Halls
    BY <2>3 DEF Tables, Halls
  <2> QED
    BY <1>1, <1>4, <2>1, <2>3, <2>4, WriteKeeps DEF RecvWallHallDel
<1>5. CASE RecvNPCWallHallData
  <2>1. HallReceive("NPC") /\ UNCHANGED <<rally_status, rallyRequests, shown>>
    BY <1>5 DEF RecvNPCWallHallData
  <2>2. m \in HallPacketType /\ m.type = "NPC"
    BY <1>1, <2>1, HallReceiveFacts
  <2>3. m.kind = "npc" /\ "npc" \in Tables
    BY <2>2, PacketFields DEF Tables
  <2> QED
    BY <1>1, <1>5, <2>1, <2>3, WriteKeeps DEF RecvNPCWallHallData
<1>6. CASE RecvWallHallTroop
  <2>1. HallReceive("Troop") /\ UNCHANGED <<rally_status, rallyRequests, shown>>
    BY <1>6 DEF RecvWallHallTroop
  <2>2. m \in HallPacketType /\ m.type = "Troop"
    BY <1>1, <2>1, HallReceiveFacts
  <2>3. m.kind = "member" /\ "member" \in Tables
    BY <2>2, PacketFields DEF Tables
  <2> QED
    BY <1>1, <1>6, <2>1, <2>3, WriteKeeps DEF RecvWallHallTroop
<1>7. CASE RecvRallyCountData
  <2>1. HallReceive("Count") /\ UNCHANGED <<table, rallyRequests, shown>>
        /\ rally_status' = m.status
    BY <1>7 DEF RecvRallyCountData
  <2>2. m \in HallPacketType /\ m.type = "Count"
    BY <1>1, <2>1, HallReceiveFacts
  <2>3. m.status \in Nat \X Nat
    BY <2>2, PacketFields
  <2> QED
    BY <1>1, <2>1, <2>3, ReadKeeps
<1>8. CASE RecvRallyNews
  BY <1>1, <1>8, ReadKeeps DEF RecvRallyNews
<1> QED
  BY <1>2, <1>3, <1>4, <1>5, <1>6, <1>7, <1>8 DEF HallPacket

-----------------------------------------------------------------------------
\* The server's steps

\* A packet about the entry it names, which the server shows from now on.
LEMMA ShowKeeps ==
  ASSUME HallInv, NEW m \in HallPacketType, m.type \in {"Data", "Del", "NPC", "Troop"},
         rallyWire' = Append(rallyWire, m), Shows(m.kind, m.index, m.rally),
         UNCHANGED <<table, rally_status, rallyRequests>>
  PROVE  HallInv'
<1>1. HallTypeOK /\ shown \in [Tables -> [RallySlot -> Entries]]
  BY DEF HallInv, HallTypeOK
<1>2. m.rally \in Entries
  BY PacketFields
<1>3. /\ shown' \in [Tables -> [RallySlot -> Entries]]
      /\ \A t \in Tables, i \in RallySlot :
           shown'[t][i] = IF IsAbout(m, t, i) THEN m.rally ELSE shown[t][i]
  <2>1. CASE m.kind \in Tables /\ m.index \in RallySlot
    <3>1. shown' = [shown EXCEPT ![m.kind][m.index] = m.rally]
      BY <2>1 DEF Shows
    <3> QED
      BY <1>1, <1>2, <2>1, <3>1 DEF IsAbout
  <2>2. CASE ~(m.kind \in Tables /\ m.index \in RallySlot)
    <3>1. shown' = shown
      BY <2>2 DEF Shows
    <3> QED
      BY <1>1, <2>2, <3>1 DEF IsAbout
  <2> QED
    BY <2>1, <2>2
<1>4. rallyWire' \in Seq(HallPacketType)
  BY <1>1 DEF HallTypeOK
<1>5. HallTypeOK'
  BY <1>1, <1>3, <1>4 DEF HallTypeOK
<1>6. WireEndsAsShown'
  BY <1>3, SendKeeps
<1> QED
  BY <1>5, <1>6 DEF HallInv

\* A packet about no entry.
LEMMA PushKeeps ==
  ASSUME HallInv, NEW m \in HallPacketType, m.type \in {"Social", "Count", "News"},
         rallyWire' = Append(rallyWire, m), rallyRequests' \in Seq(HallRequestType),
         UNCHANGED <<table, rally_status, shown>>
  PROVE  HallInv'
<1>1. HallTypeOK
  BY DEF HallInv
<1>2. \A t \in Tables, i \in RallySlot :
        shown'[t][i] = IF IsAbout(m, t, i) THEN m.rally ELSE shown[t][i]
  BY DEF IsAbout
<1>3. rallyWire' \in Seq(HallPacketType)
  BY <1>1 DEF HallTypeOK
<1>4. HallTypeOK'
  BY <1>1, <1>3 DEF HallTypeOK
<1>5. WireEndsAsShown'
  BY <1>2, SendKeeps
<1> QED
  BY <1>4, <1>5 DEF HallInv

LEMMA HallServerKeeps == HallInv /\ HallServer => HallInv'
<1> SUFFICES ASSUME HallInv, HallServer PROVE HallInv'
  OBVIOUS
<1>1. HallTypeOK /\ rallyRequests \in Seq(HallRequestType)
  BY DEF HallInv, HallTypeOK
<1>2. CASE PushHallSocialData
  <2>1. [type |-> "Social"] \in HallPacketType
    BY DEF HallPacketType
  <2> QED
    BY <1>1, <1>2, <2>1, PushKeeps DEF PushHallSocialData, HallSend
<1>3. CASE PushNews
  <2>1. [type |-> "News"] \in HallPacketType
    BY DEF HallPacketType
  <2> QED
    BY <1>1, <1>3, <2>1, PushKeeps DEF PushNews, HallSend
<1>4. CASE TakeList
  <2>1. Open("ally") \in Nat /\ Open("enemy") \in Nat
    <3>1. IsFiniteSet(RallySlot)
      BY HallAssumption, FS_Interval DEF RallySlot
    <3> QED
      BY <3>1, FS_Subset, FS_CardinalityType DEF Open
  <2>2. [type |-> "Count", status |-> <<Open("ally"), Open("enemy")>>] \in HallPacketType
    BY <2>1 DEF HallPacketType
  <2>3. rallyRequests' \in Seq(HallRequestType)
    BY <1>1, <1>4 DEF TakeList
  <2> QED
    BY <1>4, <2>2, <2>3, PushKeeps DEF TakeList
<1>5. CASE TakeDetail
  <2>1. [type |-> "News"] \in HallPacketType
    BY DEF HallPacketType
  <2>2. rallyRequests' \in Seq(HallRequestType)
    BY <1>1, <1>5 DEF TakeDetail
  <2> QED
    BY <1>5, <2>1, <2>2, PushKeeps DEF TakeDetail
<1>6. ASSUME NEW t \in Halls \cup {"other"}, NEW i \in 0..RALLY_SLOTS, CloseRally(t, i)
      PROVE  HallInv'
  <2> DEFINE m == [type |-> "Del", kind |-> t, index |-> i, rally |-> NoRally]
  <2>1. m \in HallPacketType
    BY HallAssumption DEF HallPacketType
  <2> QED
    BY <1>6, <2>1, ShowKeeps DEF CloseRally, HallSend
<1>7. ASSUME NEW t \in Halls \cup {"other"}, NEW i \in 0..RALLY_SLOTS, NEW r \in Rallies,
             ShowRally(t, i, r)
      PROVE  HallInv'
  <2> DEFINE m == [type |-> "Data", kind |-> t, index |-> i, rally |-> r]
  <2>1. m \in HallPacketType
    BY HallAssumption DEF HallPacketType
  <2> QED
    BY <1>7, <2>1, ShowKeeps DEF ShowRally, HallSend
<1>8. ASSUME NEW i \in 0..RALLY_SLOTS, NEW r \in Rallies, ShowNPCRally(i, r)
      PROVE  HallInv'
  <2> DEFINE m == [type |-> "NPC", kind |-> "npc", index |-> i, rally |-> r]
  <2>1. m \in HallPacketType
    BY HallAssumption DEF HallPacketType
  <2> QED
    BY <1>8, <2>1, ShowKeeps DEF ShowNPCRally, HallSend
<1>9. ASSUME NEW i \in 0..RALLY_SLOTS, NEW r \in Rallies, ShowMember(i, r)
      PROVE  HallInv'
  <2> DEFINE m == [type |-> "Troop", kind |-> "member", index |-> i, rally |-> r]
  <2>1. m \in HallPacketType
    BY HallAssumption DEF HallPacketType
  <2> QED
    BY <1>9, <2>1, ShowKeeps DEF ShowMember, HallSend
<1> QED
  BY <1>2, <1>3, <1>4, <1>5, <1>6, <1>7, <1>8, <1>9 DEF HallServer

-----------------------------------------------------------------------------
\* Theorems

LEMMA HallInitInv == HallInit => HallInv
<1> SUFFICES ASSUME HallInit PROVE HallInv
  OBVIOUS
<1>1. HallTypeOK
  BY DEF HallInit, HallTypeOK, Blank, Entries
<1>2. WireEndsAsShown
  BY DEF HallInit, WireEndsAsShown, LastSays, AboutIn
<1> QED
  BY <1>1, <1>2 DEF HallInv

LEMMA HallStepInv == HallInv /\ [HallNext]_hallVars => HallInv'
<1>1. HallInv /\ HallNext => HallInv'
  BY HallPacketKeeps, HallServerKeeps DEF HallNext
<1>2. HallInv /\ UNCHANGED hallVars => HallInv'
  BY DEF HallInv, HallTypeOK, WireEndsAsShown, hallVars
<1> QED
  BY <1>1, <1>2

\* The tables of rallies stay within their 30 slots, whatever index and type the
\* server's packets carry, and details are asked for by an index of a table.
THEOREM HallTypeCorrect == HallSpec => []HallTypeOK
<1>1. HallInv => HallTypeOK
  BY DEF HallInv
<1> QED
  BY <1>1, HallInitInv, HallStepInv, PTL DEF HallSpec

\* For tables of any size and packets of any number and order, an entry about
\* which nothing is on the way is what the server showed last.
THEOREM HallAsLastShown == HallSpec => []AsLastShown
<1>1. HallInv => AsLastShown
  <2> SUFFICES ASSUME HallInv, NEW t \in Tables, NEW i \in RallySlot, About(t, i) = {}
               PROVE  table[t][i] = shown[t][i]
    BY DEF AsLastShown
  <2>1. AboutIn(rallyWire, t, i) = {}
    BY DEF About, AboutIn, IsAbout
  <2> QED
    BY <2>1 DEF HallInv, WireEndsAsShown, LastSays
<1> QED
  BY <1>1, HallInitInv, HallStepInv, PTL DEF HallSpec

-----------------------------------------------------------------------------
\* Members

LEMMA MemberHead ==
  ASSUME MemberTypeOK, NEW type, MemberReceive(type)
  PROVE  /\ Head(memberWire) \in MemberPacketType /\ Head(memberWire).type = type
         /\ memberWire' \in Seq(MemberPacketType)
BY HeadTailProperties DEF MemberTypeOK, MemberReceive

LEMMA MemberAppend ==
  ASSUME MemberTypeOK, NEW m \in MemberPacketType, MemberSend(m)
  PROVE  memberWire' \in Seq(MemberPacketType)
BY DEF MemberTypeOK, MemberSend

\* A set of places of a list has a last one.
LEMMA LastPlace ==
  ASSUME NEW n \in Nat, NEW S \in SUBSET (1..n), S # {}
  PROVE  \E k \in S : \A l \in S : l <= k
<1> DEFINE T == {n - k : k \in S}
<1>1. T \subseteq Nat /\ T # {}
  <2>1. \A k \in 1..n : n - k \in Nat
    OBVIOUS
  <2> QED
    BY <2>1
<1>2. PICK x \in T : \A y \in T : <<y, x>> \notin OpToRel(<, Nat)
  BY <1>1, NatLessThanWellFounded, WFMin
<1>3. \A y \in T : ~(y < x)
  BY <1>1, <1>2 DEF OpToRel
<1>4. PICK k \in S : x = n - k
  BY <1>2
<1>5. \A l \in S : l <= k
  <2> SUFFICES ASSUME NEW l \in S PROVE l <= k
    OBVIOUS
  <2>1. ~(n - l < n - k)
    BY <1>3, <1>4
  <2> QED
    BY <2>1
<1> QED
  BY <1>4, <1>5

\* An update leaves of a member one of its entries about it.
LEMMA EntryIsOne ==
  ASSUME NEW S, NEW list \in Seq(S), NEW id, Mentions(list, id)
  PROVE  \E k \in DOMAIN list : list[k].user_id = id /\ EntryOf(list, id) = list[k]
<1> DEFINE about == {k \in DOMAIN list : list[k].user_id = id}
<1>1. DOMAIN list = 1..Len(list) /\ Len(list) \in Nat
  OBVIOUS
<1>2. about # {} /\ about \in SUBSET (1..Len(list))
  BY <1>1 DEF Mentions
<1>3. \E k \in about : \A l \in about : l <= k
  BY <1>1, <1>2, LastPlace
<1>4. /\ EntryOf(list, id) = list[CHOOSE k \in about : \A l \in about : l <= k]
      /\ \A k \in about : k \in DOMAIN list /\ list[k].user_id = id
  BY DEF EntryOf
<1> HIDE DEF about
<1> QED
  BY <1>3, <1>4

\* No part of a list is written past the table.
LEMMA ListFits ==
  ASSUME MemberTypeOK, RecvMemberList
  PROVE  /\ member' \in [MemberSlot -> MemberEntryType]
         /\ recv_index' \in 0..MAX_ALLIANCE_MEMBER
         /\ data_finished' \in BOOLEAN /\ count' \in 0..(U8 - 1)
<1> DEFINE m == Head(memberWire)
           start == IF data_finished THEN 0 ELSE recv_index
           end == Least(start + Len(m.members), MAX_ALLIANCE_MEMBER)
<1>1. /\ m.type = "Full" /\ m.last \in BOOLEAN /\ m.members \in Seq(MemberEntryType)
  <2>1. m \in MemberPacketType /\ m.type = "Full"
    BY MemberHead DEF RecvMemberList
  <2> QED BY <2>1 DEF MemberPacketType
<1>2. /\ MAX_ALLIANCE_MEMBER \in Nat /\ U8 \in Nat \ {0} /\ Len(m.members) \in Nat
      /\ recv_index \in 0..MAX_ALLIANCE_MEMBER /\ count \in Nat
  BY <1>1, MemberAssumption DEF MemberTypeOK
<1>3. /\ start \in 0..MAX_ALLIANCE_MEMBER /\ end \in 0..MAX_ALLIANCE_MEMBER
      /\ end <= start + Len(m.members)
  <2>1. start \in Nat /\ start <= MAX_ALLIANCE_MEMBER
    BY <1>2
  <2> HIDE DEF start, m
  <2>2. start + Len(m.members) \in Nat
    BY <1>2, <2>1
  <2> QED BY <1>2, <2>1, <2>2 DEF Least
<1>4. /\ count' = (Len(m.members) + IF data_finished THEN 0 ELSE count) % U8
      /\ member' = [i \in DOMAIN member \cup start..(end - 1) |->
                      IF i \in start..(end - 1) THEN m.members[i - start + 1] ELSE member[i]]
      /\ Finish(m.last, end)
  BY DEF RecvMemberList
<1> HIDE DEF start, end, m
<1>5. /\ start..(end - 1) \subseteq MemberSlot
      /\ \A i \in start..(end - 1) : i - start + 1 \in 1..Len(m.members)
  BY <1>2, <1>3 DEF MemberSlot
<1>6. \A i \in start..(end - 1) : m.members[i - start + 1] \in MemberEntryType
  BY <1>1, <1>5, ElementOfSeq
<1>7. DOMAIN member = MemberSlot /\ \A i \in MemberSlot : member[i] \in MemberEntryType
  BY DEF MemberTypeOK
<1>8. member' \in [MemberSlot -> MemberEntryType]
  <2>1. DOMAIN member \cup start..(end - 1) = MemberSlot
    BY <1>5, <1>7
  <2> QED BY <1>4, <1>6, <1>7, <2>1
<1>9. count' \in 0..(U8 - 1)
  <2> DEFINE before == IF data_finished THEN 0 ELSE count
             sum == Len(m.members) + before
  <2>1. sum \in Nat
    <3>1. before \in Nat
      BY <1>2
    <3> HIDE DEF before
    <3> QED BY <1>2, <3>1
  <2>2. \A n \in Nat : n % U8 \in 0..(U8 - 1)
    <3>1. \A u \in Nat \ {0}, n \in Nat : n % u \in 0..(u - 1)
      OBVIOUS
    <3> QED BY <1>2, <3>1
  <2>3. count' = sum % U8
    BY <1>4
  <2> HIDE DEF sum
  <2> QED BY <2>1, <2>2, <2>3
<1>10. data_finished' \in BOOLEAN /\ recv_index' \in 0..MAX_ALLIANCE_MEMBER
  BY <1>1, <1>2, <1>3, <1>4 DEF Finish
<1> QED BY <1>8, <1>9, <1>10

\* An order names members only.
LEMMA OrderType ==
  ASSUME NEW S, IsFiniteSet(S)
  PROVE  Order(S) \in Seq(S)
<1>1. Cardinality(S) \in Nat /\ ExistsBijection(1..Cardinality(S), S)
  BY FS_CardinalityType
<1>2. PICK s : s \in Bijection(1..Cardinality(S), S)
  BY <1>1 DEF ExistsBijection
<1>3. /\ s \in [1..Cardinality(S) -> S]
      /\ \A m, n \in DOMAIN s : m # n => s[m] # s[n]
  BY <1>2 DEF Bijection, Injection, Surjection, IsInjective
<1>4. Order(S) \in [1..Cardinality(S) -> S]
  BY <1>3 DEF Order
<1> QED BY <1>1, <1>4

\* An order names every member once.
LEMMA OrderOnce ==
  ASSUME NEW S, IsFiniteSet(S)
  PROVE  /\ Len(Order(S)) = Cardinality(S) /\ Cardinality(S) \in Nat
         /\ DOMAIN Order(S) = 1..Cardinality(S)
         /\ \A k, l \in DOMAIN Order(S) : Order(S)[k] = Order(S)[l] => k = l
         /\ S = {Order(S)[k] : k \in DOMAIN Order(S)}
<1>1. Cardinality(S) \in Nat /\ ExistsBijection(1..Cardinality(S), S)
  BY FS_CardinalityType
<1>2. PICK s : s \in Bijection(1..Cardinality(S), S)
  BY <1>1 DEF ExistsBijection
<1>3. /\ s \in [1..Cardinality(S) -> S]
      /\ \A m, n \in DOMAIN s : m # n => s[m] # s[n]
  BY <1>2 DEF Bijection, Injection, Surjection, IsInjective
<1>4. /\ Order(S) \in [1..Cardinality(S) -> S]
      /\ \A m, n \in DOMAIN Order(S) : m # n => Order(S)[m] # Order(S)[n]
  BY <1>3 DEF Order
<1>5. Order(S) \in Injection(1..Cardinality(S), S)
  BY <1>4 DEF Injection, IsInjective
<1>6. Cardinality(1..Cardinality(S)) = Cardinality(S)
  <2>1. Cardinality(1..Cardinality(S)) =
          IF 1 > Cardinality(S) THEN 0 ELSE Cardinality(S) - 1 + 1
    BY <1>1, FS_Interval
  <2> QED
    BY <1>1, <2>1
<1>7. Order(S) \in Surjection(1..Cardinality(S), S)
  BY <1>5, <1>6, FS_Injection
<1>8. \A x \in S : \E k \in 1..Cardinality(S) : Order(S)[k] = x
  BY <1>7 DEF Surjection
<1>9. Order(S) \in Seq(S)
  BY OrderType
<1>10. Len(Order(S)) = Cardinality(S)
  BY <1>1, <1>4, <1>9
<1> QED
  BY <1>1, <1>4, <1>8, <1>10

\* The update that Change sends.
UpdateOf(S, last) ==
  [type |-> "Update", last |-> last,
   members |-> [k \in 1..Cardinality(S) |->
                  [user_id |-> Order(S)[k], version |-> version'[Order(S)[k]]]]]

LEMMA UpdateType ==
  ASSUME NEW S \in SUBSET Members, NEW last \in UpdateLast, version' \in [Members -> Nat]
  PROVE  UpdateOf(S, last) \in MemberPacketType
<1> DEFINE list == [k \in 1..Cardinality(S) |->
                      [user_id |-> Order(S)[k], version |-> version'[Order(S)[k]]]]
<1>1. IsFiniteSet(S) /\ last \in BOOLEAN
  BY MemberAssumption, FS_Subset
<1>2. Cardinality(S) \in Nat /\ DOMAIN Order(S) = 1..Cardinality(S) /\ Order(S) \in Seq(S)
  BY <1>1, OrderOnce, OrderType
<1>3. \A k \in 1..Cardinality(S) : Order(S)[k] \in Members
  BY <1>2
<1>4. \A k \in 1..Cardinality(S) :
        [user_id |-> Order(S)[k], version |-> version'[Order(S)[k]]] \in MemberEntryType
  BY <1>3 DEF MemberEntryType
<1>5. list \in Seq(MemberEntryType)
  BY <1>2, <1>4
<1> HIDE DEF list
<1>6. [type |-> "Update", last |-> last, members |-> list] \in MemberPacketType
  BY <1>1, <1>5 DEF MemberPacketType
<1> QED
  BY <1>6 DEF UpdateOf, list

\* No list, however long and however it is cut, is written past the table, for
\* every length of the table, alliance and order of lists and updates.
THEOREM MemberTypeCorrect == MemberSpec => []MemberTypeOK
<1>1. MemberInit => MemberTypeOK
  <2> SUFFICES ASSUME MemberInit PROVE MemberTypeOK
    OBVIOUS
  <2>1. member \in [MemberSlot -> MemberEntryType] /\ version \in [Members -> Nat]
    BY DEF MemberInit, MemberEntryType
  <2>2. 0 \in 0..MAX_ALLIANCE_MEMBER /\ 0 \in 0..(U8 - 1)
    BY MemberAssumption
  <2>3. alliance \subseteq Members /\ memberWire \in Seq(MemberPacketType) /\ toSend \in Seq(Members)
    BY DEF MemberInit
  <2> QED BY <2>1, <2>2, <2>3 DEF MemberInit, MemberTypeOK
<1>2. MemberTypeOK /\ [MemberNext]_memberVars => MemberTypeOK'
  <2> SUFFICES ASSUME MemberTypeOK, [MemberNext]_memberVars PROVE MemberTypeOK'
    OBVIOUS
  <2> USE DEF memberTable, memberServer
  <2>1. CASE RecvMemberSocialData
    BY <2>1, MemberHead DEF RecvMemberSocialData, MemberTypeOK
  <2>2. CASE RecvMemberList
    <3>1. memberWire' \in Seq(MemberPacketType)
      BY <2>2, MemberHead DEF RecvMemberList
    <3> QED BY <2>2, <3>1, ListFits DEF RecvMemberList, MemberTypeOK
  <2>3. CASE RecvMemberUpdate
    <3>1. /\ Head(memberWire) \in MemberPacketType /\ Head(memberWire).type = "Update"
          /\ memberWire' \in Seq(MemberPacketType)
      BY <2>3, MemberHead DEF RecvMemberUpdate
    <3> DEFINE list == Head(memberWire).members
    <3>2. list \in Seq(MemberEntryType) /\ Head(memberWire).last \in BOOLEAN
      BY <3>1 DEF MemberPacketType
    <3>3. member' \in [MemberSlot -> MemberEntryType]
      <4>1. member' = Updated(list)
        BY <2>3 DEF RecvMemberUpdate
      <4> HIDE DEF list
      <4>2. \A id : Mentions(list, id) => EntryOf(list, id) \in MemberEntryType
        <5> SUFFICES ASSUME NEW id, Mentions(list, id) PROVE EntryOf(list, id) \in MemberEntryType
          OBVIOUS
        <5>1. \E k \in DOMAIN list : EntryOf(list, id) = list[k]
          BY <3>2, EntryIsOne
        <5> QED
          BY <3>2, <5>1
      <4> QED BY <4>1, <4>2 DEF Updated, MemberTypeOK
    <3>4. data_finished' \in BOOLEAN /\ recv_index' \in 0..MAX_ALLIANCE_MEMBER
      BY <2>3, <3>2, MemberAssumption DEF RecvMemberUpdate, Finish, MemberTypeOK
    <3> QED BY <2>3, <3>1, <3>3, <3>4 DEF RecvMemberUpdate, MemberTypeOK
  <2>4. CASE RecvMemberUnknown
    BY <2>4, MemberHead DEF RecvMemberUnknown, MemberTypeOK
  <2>5. CASE PushMemberSocialData
    <3>1. [type |-> "Social"] \in MemberPacketType
      BY DEF MemberPacketType
    <3>2. memberWire' \in Seq(MemberPacketType)
      BY <2>5, <3>1, MemberAppend DEF PushMemberSocialData
    <3> QED BY <2>5, <3>2 DEF PushMemberSocialData, MemberTypeOK
  <2>6. CASE StartMemberList
    <3>1. IsFiniteSet(alliance) /\ alliance \subseteq Members
      BY MemberAssumption, FS_Subset DEF MemberTypeOK
    <3>2. Order(alliance) \in Seq(alliance)
      BY <3>1, OrderType
    <3>3. toSend' \in Seq(Members)
      BY <2>6, <3>1, <3>2 DEF StartMemberList
    <3>4. memberRequests' \in Nat /\ roll' \subseteq Members /\ open' \in BOOLEAN
      BY <2>6, <3>1 DEF StartMemberList, MemberTypeOK
    <3> QED BY <2>6, <3>3, <3>4 DEF StartMemberList, MemberTypeOK
  <2>7. ASSUME NEW n \in 1..Len(toSend), SendMembers(n) PROVE MemberTypeOK'
    <3> DEFINE ms == [k \in 1..n |-> Entry(toSend[k])]
               m == [type |-> "Full", last |-> n = Len(toSend),
                     first |-> Len(toSend) = Cardinality(roll), members |-> ms]
    <3>1. n \in Nat /\ Len(toSend) \in Nat /\ toSend \in Seq(Members)
      BY DEF MemberTypeOK
    <3>2. \A k \in 1..n : Entry(toSend[k]) \in MemberEntryType
      BY <3>1 DEF Entry, MemberEntryType, MemberTypeOK
    <3>3. ms \in Seq(MemberEntryType)
      BY <3>1, <3>2
    <3> HIDE DEF ms
    <3>4. (n = Len(toSend)) \in BOOLEAN /\ (Len(toSend) = Cardinality(roll)) \in BOOLEAN
      OBVIOUS
    <3>5. m \in MemberPacketType
      BY <3>3, <3>4 DEF MemberPacketType
    <3>6. memberWire' \in Seq(MemberPacketType)
      <4>1. MemberSend(m)
        BY <2>7 DEF SendMembers, ms
      <4> HIDE DEF m
      <4> QED BY <3>5, <4>1, MemberAppend
    <3>7. toSend' \in Seq(Members)
      <4>1. toSend' = SubSeq(toSend, n + 1, Len(toSend))
        BY <2>7 DEF SendMembers
      <4>2. \A i \in (n + 1)..Len(toSend) : toSend[i] \in Members
        BY <3>1
      <4> QED BY <3>1, <4>1, <4>2, SubSeqProperties
    <3> QED BY <2>7, <3>6, <3>7 DEF SendMembers, MemberTypeOK
  <2>8. ASSUME NEW S \in SUBSET Members, Change(S) PROVE MemberTypeOK'
    <3>1. version' \in [Members -> Nat] /\ changes' \in Nat
      BY <2>8 DEF Change, MemberTypeOK
    <3>2. PICK last \in UpdateLast : MemberSend(UpdateOf(S, last))
      BY <2>8 DEF Change, UpdateOf
    <3>3. UpdateOf(S, last) \in MemberPacketType
      BY <3>1, UpdateType
    <3>4. memberWire' \in Seq(MemberPacketType)
      BY <3>2, <3>3, MemberAppend
    <3> QED BY <2>8, <3>1, <3>4 DEF Change, MemberTypeOK
  <2>9. CASE PushUnknown
    <3>1. [type |-> "Unknown"] \in MemberPacketType
      BY DEF MemberPacketType
    <3>2. memberWire' \in Seq(MemberPacketType)
      BY <2>9, <3>1, MemberAppend DEF PushUnknown
    <3> QED BY <2>9, <3>2 DEF PushUnknown, MemberTypeOK
  <2>10. CASE Reshuffle
    BY <2>10 DEF Reshuffle, MemberTypeOK
  <2>11. CASE UNCHANGED memberVars
    BY <2>11 DEF memberVars, MemberTypeOK
  <2> QED
    BY <2>1, <2>2, <2>3, <2>4, <2>5, <2>6, <2>7, <2>8, <2>9, <2>10, <2>11
    DEF MemberNext, MemberPacket, MemberServer, RecvAllianceMemberInfo, SendMemberList
<1> QED BY <1>1, <1>2, PTL DEF MemberSpec

-----------------------------------------------------------------------------
\* Counting

LEMMA Disjoint ==
  ASSUME NEW S, NEW T, IsFiniteSet(S), IsFiniteSet(T), S \cap T = {}
  PROVE  IsFiniteSet(S \cup T) /\ Cardinality(S \cup T) = Cardinality(S) + Cardinality(T)
<1>1. Cardinality(S) \in Nat /\ Cardinality(T) \in Nat /\ Cardinality(S \cap T) = 0
  BY FS_CardinalityType, FS_EmptySet
<1>2. /\ IsFiniteSet(S \cup T)
      /\ Cardinality(S \cup T) = Cardinality(S) + Cardinality(T) - Cardinality(S \cap T)
  BY FS_Union
<1> QED BY <1>1, <1>2

LEMMA Shifted ==
  ASSUME NEW T \in SUBSET Nat, IsFiniteSet(T)
  PROVE  /\ IsFiniteSet({n + 1 : n \in T})
         /\ Cardinality({n + 1 : n \in T}) = Cardinality(T)
<1> DEFINE S == {n + 1 : n \in T}
           F == [n \in T |-> n + 1]
<1>1. F \in [T -> S] /\ \A a, b \in T : F[a] = F[b] => a = b
  OBVIOUS
<1>2. \A t \in S : \E n \in T : F[n] = t
  OBVIOUS
<1>3. F \in Bijection(T, S)
  BY <1>1, <1>2, Fun_IsBij
<1> HIDE DEF F, S
<1>4. ExistsBijection(T, S)
  BY <1>3 DEF ExistsBijection
<1>5. IsFiniteSet(S) /\ Cardinality(S) = Cardinality(T)
  BY <1>4, FS_Bijection
<1> QED BY <1>5 DEF S

LEMMA PairedUp ==
  ASSUME NEW K, IsFiniteSet(K), NEW n
  PROVE  /\ IsFiniteSet({<<n, k>> : k \in K})
         /\ Cardinality({<<n, k>> : k \in K}) = Cardinality(K)
<1> DEFINE S == {<<n, k>> : k \in K}
           F == [k \in K |-> <<n, k>>]
<1>1. F \in [K -> S] /\ \A a, b \in K : F[a] = F[b] => a = b
  OBVIOUS
<1>2. \A t \in S : \E k \in K : F[k] = t
  OBVIOUS
<1>3. F \in Bijection(K, S)
  BY <1>1, <1>2, Fun_IsBij
<1> HIDE DEF F, S
<1>4. ExistsBijection(K, S)
  BY <1>3 DEF ExistsBijection
<1>5. IsFiniteSet(S) /\ Cardinality(S) = Cardinality(K)
  BY <1>4, FS_Bijection
<1> QED BY <1>5 DEF S

LEMMA PairsShifted ==
  ASSUME NEW A \in SUBSET (Nat \X Nat), IsFiniteSet(A)
  PROVE  /\ IsFiniteSet({<<p[1] + 1, p[2]>> : p \in A})
         /\ Cardinality({<<p[1] + 1, p[2]>> : p \in A}) = Cardinality(A)
<1> DEFINE S == {<<p[1] + 1, p[2]>> : p \in A}
           F == [p \in A |-> <<p[1] + 1, p[2]>>]
<1>1. \A p \in A : p[1] \in Nat /\ p[2] \in Nat /\ p = <<p[1], p[2]>>
  OBVIOUS
<1>2. F \in [A -> S]
  OBVIOUS
<1>3. ASSUME NEW a \in A, NEW b \in A, F[a] = F[b] PROVE a = b
  <2>1. <<a[1] + 1, a[2]>> = <<b[1] + 1, b[2]>>
    BY <1>3
  <2>2. a[1] + 1 = b[1] + 1 /\ a[2] = b[2]
    BY <2>1
  <2>3. a[1] = b[1]
    BY <1>1, <2>2
  <2> QED BY <1>1, <2>2, <2>3
<1>4. \A t \in S : \E p \in A : F[p] = t
  OBVIOUS
<1>5. F \in Bijection(A, S)
  BY <1>2, <1>3, <1>4, Fun_IsBij
<1> HIDE DEF F, S
<1>6. ExistsBijection(A, S)
  BY <1>5 DEF ExistsBijection
<1>7. IsFiniteSet(S) /\ Cardinality(S) = Cardinality(A)
  BY <1>6, FS_Bijection
<1> QED BY <1>7 DEF S

-----------------------------------------------------------------------------
\* Help: packets that tell and requests that name a record

Tellers(w, r) == {n \in DOMAIN w : Tells(w[n], r)}
Namers(q, r) ==
  {p \in (DOMAIN q) \X (1..HELP_SLOTS) : p[2] \in DOMAIN q[p[1]] /\ q[p[1]][p[2]] = r}
Naming(s, r) == {k \in DOMAIN s : s[k] = r}
One(b) == IF b THEN 1 ELSE 0

LEMMA TellersFinite ==
  ASSUME NEW S, NEW w \in Seq(S), NEW r
  PROVE  IsFiniteSet(Tellers(w, r)) /\ Cardinality(Tellers(w, r)) \in Nat
<1>1. Len(w) \in Nat /\ DOMAIN w = 1..Len(w)
  OBVIOUS
<1>2. IsFiniteSet(1..Len(w)) /\ Tellers(w, r) \in SUBSET (1..Len(w))
  BY <1>1, FS_Interval DEF Tellers
<1> QED BY <1>2, FS_Subset, FS_CardinalityType

LEMMA TellersAppend ==
  ASSUME NEW S, NEW w \in Seq(S), NEW m \in S, NEW r
  PROVE  Cardinality(Tellers(Append(w, m), r)) = Cardinality(Tellers(w, r)) + One(Tells(m, r))
<1> DEFINE x == Append(w, m)
<1>1. /\ Len(w) \in Nat /\ DOMAIN w = 1..Len(w) /\ DOMAIN x = 1..(Len(w) + 1)
      /\ \A n \in 1..Len(w) : x[n] = w[n]
      /\ x[Len(w) + 1] = m
  OBVIOUS
<1> HIDE DEF x
<1>2. 1..(Len(w) + 1) = 1..Len(w) \cup {Len(w) + 1} /\ Len(w) + 1 \notin 1..Len(w)
  BY <1>1
<1>3. /\ Tellers(x, r) = IF Tells(m, r) THEN Tellers(w, r) \cup {Len(w) + 1} ELSE Tellers(w, r)
      /\ Len(w) + 1 \notin Tellers(w, r)
  BY <1>1, <1>2 DEF Tellers
<1>4. IsFiniteSet(Tellers(w, r)) /\ Cardinality(Tellers(w, r)) \in Nat
  BY TellersFinite
<1>5. Cardinality(Tellers(w, r) \cup {Len(w) + 1}) = Cardinality(Tellers(w, r)) + 1
  BY <1>3, <1>4, FS_AddElement
<1>6. Cardinality(Tellers(x, r)) = Cardinality(Tellers(w, r)) + One(Tells(m, r))
  <2>1. CASE Tells(m, r)
    BY <1>3, <1>5, <2>1 DEF One
  <2>2. CASE ~Tells(m, r)
    BY <1>3, <1>4, <2>2 DEF One
  <2> QED BY <2>1, <2>2
<1> QED BY <1>6 DEF x

LEMMA TellersTail ==
  ASSUME NEW S, NEW w \in Seq(S), w # <<>>, NEW r
  PROVE  Cardinality(Tellers(w, r)) = Cardinality(Tellers(Tail(w), r)) + One(Tells(Head(w), r))
<1> DEFINE t == Tail(w)
           T == Tellers(t, r)
           U == {n + 1 : n \in T}
<1>1. /\ Len(w) \in Nat \ {0} /\ DOMAIN w = 1..Len(w) /\ DOMAIN t = 1..(Len(w) - 1)
      /\ \A n \in 1..(Len(w) - 1) : t[n] = w[n + 1]
      /\ Head(w) = w[1] /\ t \in Seq(S)
  OBVIOUS
<1>2. IsFiniteSet(T) /\ Cardinality(T) \in Nat /\ T \in SUBSET Nat
  <2>1. IsFiniteSet(Tellers(t, r)) /\ Cardinality(Tellers(t, r)) \in Nat
    BY <1>1, TellersFinite
  <2>2. Tellers(t, r) \subseteq DOMAIN t /\ DOMAIN t \subseteq Nat
    BY <1>1 DEF Tellers
  <2> QED BY <2>1, <2>2
<1> HIDE DEF t
<1>3. \A n : n \in Tellers(w, r) <=> (n \in U \/ (n = 1 /\ Tells(Head(w), r)))
  <2>1. \A n \in 1..Len(w) : n = 1 \/ (n - 1 \in 1..(Len(w) - 1) /\ n - 1 + 1 = n)
    BY <1>1
  <2>2. ASSUME NEW n \in Tellers(w, r) PROVE n \in U \/ (n = 1 /\ Tells(Head(w), r))
    <3>1. n \in 1..Len(w) /\ Tells(w[n], r)
      BY <1>1, <2>2 DEF Tellers
    <3>2. CASE n = 1
      BY <1>1, <3>1, <3>2
    <3>3. CASE n # 1
      <4>1. n - 1 \in 1..(Len(w) - 1) /\ n - 1 + 1 = n /\ t[n - 1] = w[n]
        BY <1>1, <2>1, <3>1, <3>3
      <4>2. n - 1 \in T
        BY <1>1, <3>1, <4>1 DEF Tellers
      <4> QED BY <4>1, <4>2
    <3> QED BY <3>2, <3>3
  <2>3. ASSUME NEW k \in T PROVE k + 1 \in Tellers(w, r)
    <3>1. k \in 1..(Len(w) - 1) /\ Tells(t[k], r) /\ t[k] = w[k + 1] /\ k + 1 \in 1..Len(w)
      BY <1>1, <2>3 DEF Tellers
    <3> QED BY <1>1, <3>1 DEF Tellers
  <2>4. Tells(Head(w), r) => 1 \in Tellers(w, r)
    BY <1>1 DEF Tellers
  <2> QED BY <2>2, <2>3, <2>4
<1>4. IsFiniteSet(U) /\ Cardinality(U) = Cardinality(T)
  BY <1>2, Shifted
<1>5. 1 \notin U
  BY <1>1 DEF Tellers
<1> HIDE DEF U, T
<1>6. Tellers(w, r) = IF Tells(Head(w), r) THEN U \cup {1} ELSE U
  BY <1>3
<1>7. Cardinality(Tellers(w, r)) = Cardinality(T) + One(Tells(Head(w), r))
  <2>1. Cardinality(U \cup {1}) = Cardinality(U) + 1
    BY <1>4, <1>5, FS_AddElement
  <2>2. CASE Tells(Head(w), r)
    BY <1>4, <1>6, <2>1, <2>2 DEF One
  <2>3. CASE ~Tells(Head(w), r)
    BY <1>2, <1>4, <1>6, <2>3 DEF One
  <2> QED BY <2>2, <2>3
<1> QED BY <1>7 DEF T, t

Short(s) == Len(s) <= HELP_SLOTS

LEMMA NamingFinite ==
  ASSUME NEW s \in Seq(Records), NEW r
  PROVE  /\ IsFiniteSet(Naming(s, r)) /\ Cardinality(Naming(s, r)) \in Nat
         /\ Cardinality(Naming(s, r)) = Times(r, s)
<1>1. Len(s) \in Nat /\ DOMAIN s = 1..Len(s)
  OBVIOUS
<1>2. IsFiniteSet(1..Len(s)) /\ Naming(s, r) \in SUBSET (1..Len(s))
  BY <1>1, FS_Interval DEF Naming
<1>3. IsFiniteSet(Naming(s, r)) /\ Cardinality(Naming(s, r)) \in Nat
  BY <1>2, FS_Subset, FS_CardinalityType
<1> QED BY <1>3 DEF Naming, Times

LEMMA NamersFinite ==
  ASSUME NEW q \in Seq(Seq(Records)), NEW r
  PROVE  /\ IsFiniteSet(Namers(q, r)) /\ Cardinality(Namers(q, r)) \in Nat
         /\ Namers(q, r) \in SUBSET (Nat \X Nat)
<1>1. Len(q) \in Nat /\ DOMAIN q = 1..Len(q) /\ HELP_SLOTS \in Nat
  BY HelpAssumption
<1>2. IsFiniteSet(1..Len(q)) /\ IsFiniteSet(1..HELP_SLOTS)
  BY <1>1, FS_Interval
<1>3. IsFiniteSet((1..Len(q)) \X (1..HELP_SLOTS))
  BY <1>2, FS_Product
<1>4. Namers(q, r) \in SUBSET ((1..Len(q)) \X (1..HELP_SLOTS))
  BY <1>1 DEF Namers
<1>5. IsFiniteSet(Namers(q, r)) /\ Cardinality(Namers(q, r)) \in Nat
  BY <1>3, <1>4, FS_Subset, FS_CardinalityType
<1>6. (1..Len(q)) \X (1..HELP_SLOTS) \subseteq Nat \X Nat
  BY <1>1
<1> QED BY <1>4, <1>5, <1>6

LEMMA NamersAppend ==
  ASSUME NEW q \in Seq(Seq(Records)), NEW s \in Seq(Records), Short(s), NEW r
  PROVE  Cardinality(Namers(Append(q, s), r)) = Cardinality(Namers(q, r)) + Times(r, s)
<1> DEFINE x == Append(q, s)
           L == Len(q) + 1
           P == {<<L, k>> : k \in Naming(s, r)}
<1>1. /\ Len(q) \in Nat /\ DOMAIN q = 1..Len(q) /\ DOMAIN x = 1..(Len(q) + 1)
      /\ \A n \in 1..Len(q) : x[n] = q[n]
      /\ x[L] = s /\ L \in Nat
  OBVIOUS
<1>2. Naming(s, r) \subseteq 1..HELP_SLOTS /\ HELP_SLOTS \in Nat
  BY HelpAssumption DEF Naming, Short
<1> HIDE DEF x
<1>3. \A n \in 1..(Len(q) + 1) : n \in 1..Len(q) \/ n = L
  BY <1>1
<1>4. 1..Len(q) \subseteq 1..(Len(q) + 1) /\ L \in 1..(Len(q) + 1) /\ L \notin 1..Len(q)
  BY <1>1
<1> HIDE DEF L
<1>5. Namers(x, r) \subseteq Namers(q, r) \cup P
  <2> SUFFICES ASSUME NEW n \in 1..(Len(q) + 1), NEW k \in 1..HELP_SLOTS,
                      k \in DOMAIN x[n], x[n][k] = r
               PROVE  <<n, k>> \in Namers(q, r) \/ <<n, k>> \in P
    BY <1>1 DEF Namers
  <2>1. CASE n \in 1..Len(q)
    BY <1>1, <2>1 DEF Namers
  <2>2. CASE n = L
    BY <1>1, <2>2 DEF Naming
  <2> QED BY <1>3, <2>1, <2>2
<1>6. Namers(q, r) \cup P \subseteq Namers(x, r)
  <2>1. Namers(q, r) \subseteq Namers(x, r)
    BY <1>1, <1>4 DEF Namers
  <2>2. ASSUME NEW k \in Naming(s, r) PROVE <<L, k>> \in Namers(x, r)
    BY <1>1, <1>2, <1>4, <2>2 DEF Namers, Naming
  <2> QED BY <2>1, <2>2
<1>7. Namers(q, r) \cap P = {}
  BY <1>1, <1>4 DEF Namers
<1>8. IsFiniteSet(P) /\ Cardinality(P) = Times(r, s)
  <2>1. IsFiniteSet(Naming(s, r)) /\ Cardinality(Naming(s, r)) = Times(r, s)
    BY NamingFinite
  <2> QED BY <2>1, PairedUp
<1>9. IsFiniteSet(Namers(q, r))
  BY NamersFinite
<1> HIDE DEF P
<1>10. Namers(x, r) = Namers(q, r) \cup P
  BY <1>5, <1>6
<1> QED BY <1>7, <1>8, <1>9, <1>10, Disjoint DEF x

LEMMA NamersTail ==
  ASSUME NEW q \in Seq(Seq(Records)), q # <<>>, Short(Head(q)), NEW r
  PROVE  Cardinality(Namers(q, r)) = Cardinality(Namers(Tail(q), r)) + Times(r, Head(q))
<1> DEFINE t == Tail(q)
           A == Namers(t, r)
           U == {<<p[1] + 1, p[2]>> : p \in A}
           P == {<<1, k>> : k \in Naming(Head(q), r)}
<1>1. /\ Len(q) \in Nat \ {0} /\ DOMAIN q = 1..Len(q) /\ DOMAIN t = 1..(Len(q) - 1)
      /\ \A n \in 1..(Len(q) - 1) : t[n] = q[n + 1]
      /\ Head(q) = q[1] /\ t \in Seq(Seq(Records)) /\ Head(q) \in Seq(Records)
  OBVIOUS
<1> HIDE DEF t
<1>2. IsFiniteSet(A) /\ Cardinality(A) \in Nat /\ A \in SUBSET (Nat \X Nat)
  BY <1>1, NamersFinite
<1>3. IsFiniteSet(U) /\ Cardinality(U) = Cardinality(A)
  BY <1>2, PairsShifted
<1>4. IsFiniteSet(P) /\ Cardinality(P) = Times(r, Head(q))
  <2>1. /\ IsFiniteSet(Naming(Head(q), r))
        /\ Cardinality(Naming(Head(q), r)) = Times(r, Head(q))
    BY <1>1, NamingFinite
  <2> QED BY <2>1, PairedUp
<1>5. Naming(Head(q), r) \subseteq 1..HELP_SLOTS
  BY <1>1, HelpAssumption DEF Naming, Short
<1>6. Namers(q, r) \subseteq U \cup P
  <2> SUFFICES ASSUME NEW n \in 1..Len(q), NEW k \in 1..HELP_SLOTS,
                      k \in DOMAIN q[n], q[n][k] = r
               PROVE  <<n, k>> \in U \/ <<n, k>> \in P
    BY <1>1 DEF Namers
  <2>1. CASE n = 1
    BY <1>1, <2>1 DEF Naming
  <2>2. CASE n # 1
    <3>1. n - 1 \in 1..(Len(q) - 1) /\ (n - 1) + 1 = n
      BY <1>1, <2>2
    <3>2. t[n - 1] = q[n]
      BY <1>1, <3>1
    <3>3. <<n - 1, k>> \in A
      BY <1>1, <3>1, <3>2 DEF Namers
    <3>4. \A p \in A : <<p[1] + 1, p[2]>> \in U
      OBVIOUS
    <3>5. <<(n - 1) + 1, k>> \in U
      <4>1. <<n - 1, k>>[1] = n - 1 /\ <<n - 1, k>>[2] = k
        OBVIOUS
      <4> HIDE DEF A, U
      <4> QED BY <3>3, <3>4, <4>1
    <3> QED BY <3>1, <3>5
  <2> QED BY <2>1, <2>2
<1>7. U \subseteq Namers(q, r)
  <2> SUFFICES ASSUME NEW p \in A PROVE <<p[1] + 1, p[2]>> \in Namers(q, r)
    OBVIOUS
  <2>1. /\ p[1] \in 1..(Len(q) - 1) /\ p[2] \in 1..HELP_SLOTS
        /\ p[2] \in DOMAIN t[p[1]] /\ t[p[1]][p[2]] = r
    BY <1>1 DEF Namers
  <2>2. p[1] + 1 \in 1..Len(q) /\ t[p[1]] = q[p[1] + 1]
    BY <1>1, <2>1
  <2> QED BY <1>1, <2>1, <2>2 DEF Namers
<1>8. P \subseteq Namers(q, r)
  <2> SUFFICES ASSUME NEW k \in Naming(Head(q), r) PROVE <<1, k>> \in Namers(q, r)
    OBVIOUS
  <2>1. k \in DOMAIN q[1] /\ q[1][k] = r /\ k \in 1..HELP_SLOTS /\ 1 \in 1..Len(q)
    BY <1>1, <1>5 DEF Naming
  <2> QED BY <1>1, <2>1 DEF Namers
<1>9. U \cap P = {}
  <2>1. \A p \in A : p[1] \in Nat \ {0}
    BY <1>1 DEF Namers
  <2>2. \A p \in A : p[1] + 1 # 1
    BY <2>1
  <2> QED BY <2>2
<1> HIDE DEF U, P, A
<1>10. Namers(q, r) = U \cup P
  BY <1>6, <1>7, <1>8
<1>11. Cardinality(Namers(q, r)) = Cardinality(U) + Cardinality(P)
  BY <1>3, <1>4, <1>9, <1>10, Disjoint
<1>12. Cardinality(Namers(q, r)) = Cardinality(A) + Times(r, Head(q))
  BY <1>3, <1>4, <1>11
<1> QED BY <1>12 DEF A, t

-----------------------------------------------------------------------------
\* Help: the invariant

Once(s) == \A m, n \in DOMAIN s : m # n => s[m] # s[n]

\* A list on its way fits the array and names a record once.
ListsFit ==
  \A n \in DOMAIN helpWire : helpWire[n].type = "Pending" =>
    Short(helpWire[n].records) /\ Once(helpWire[n].records)

RequestsFit == \A n \in DOMAIN helpRequests : Short(helpRequests[n])

HelpInv == HelpTypeOK /\ ListsFit /\ RequestsFit /\ OneHelpPerTelling

LEMMA TimesOnce ==
  ASSUME NEW s \in Seq(Records), Once(s), NEW r
  PROVE  Times(r, s) = One(\E n \in DOMAIN s : s[n] = r)
<1>1. Times(r, s) = Cardinality(Naming(s, r))
  BY DEF Times, Naming
<1>2. CASE \E n \in DOMAIN s : s[n] = r
  <2>1. PICK n \in DOMAIN s : s[n] = r
    BY <1>2
  <2>2. Naming(s, r) = {n}
    BY <2>1 DEF Naming, Once
  <2> QED BY <1>1, <1>2, <2>2, FS_Singleton DEF One
<1>3. CASE ~ \E n \in DOMAIN s : s[n] = r
  <2>1. Naming(s, r) = {}
    BY <1>3 DEF Naming
  <2> QED BY <1>1, <1>3, <2>1, FS_EmptySet DEF One
<1> QED BY <1>2, <1>3

\* A packet read no longer tells.
LEMMA HelpRead ==
  ASSUME HelpTypeOK, ListsFit, NEW type, HelpReceive(type)
  PROVE  /\ Head(helpWire) \in HelpPacketType /\ Head(helpWire).type = type
         /\ helpWire' \in Seq(HelpPacketType) /\ ListsFit'
         /\ type = "Pending" =>
              Short(Head(helpWire).records) /\ Once(Head(helpWire).records)
         /\ \A r : /\ OnWay(r)' \in Nat
                  /\ OnWay(r) = OnWay(r)' + One(Tells(Head(helpWire), r))
<1>1. /\ helpWire \in Seq(HelpPacketType) /\ helpWire # <<>>
      /\ Head(helpWire).type = type /\ helpWire' = Tail(helpWire)
  BY DEF HelpTypeOK, HelpReceive
<1>2. /\ Head(helpWire) \in HelpPacketType /\ helpWire' \in Seq(HelpPacketType)
      /\ DOMAIN helpWire = 1..Len(helpWire) /\ Len(helpWire) \in Nat \ {0}
      /\ DOMAIN helpWire' = 1..(Len(helpWire) - 1)
      /\ \A n \in 1..(Len(helpWire) - 1) : helpWire'[n] = helpWire[n + 1]
      /\ Head(helpWire) = helpWire[1]
  BY <1>1
<1>3. ListsFit'
  <2>1. \A n \in 1..(Len(helpWire) - 1) : n + 1 \in 1..Len(helpWire)
    BY <1>2
  <2> QED BY <1>2, <2>1 DEF ListsFit, Short, Once
<1>4. type = "Pending" => Short(Head(helpWire).records) /\ Once(Head(helpWire).records)
  BY <1>1, <1>2 DEF ListsFit
<1>5. ASSUME NEW r
      PROVE  OnWay(r)' \in Nat /\ OnWay(r) = OnWay(r)' + One(Tells(Head(helpWire), r))
  <2>1. OnWay(r) = Cardinality(Tellers(helpWire, r))
    BY DEF OnWay, Tellers
  <2>2. OnWay(r)' = Cardinality(Tellers(helpWire', r))
    BY DEF OnWay, Tellers, Tells
  <2>3. Cardinality(Tellers(helpWire', r)) \in Nat
    BY <1>2, TellersFinite
  <2>4. Cardinality(Tellers(helpWire, r)) =
          Cardinality(Tellers(Tail(helpWire), r)) + One(Tells(Head(helpWire), r))
    BY <1>1, TellersTail
  <2> QED BY <1>1, <2>1, <2>2, <2>3, <2>4
<1> QED BY <1>1, <1>2, <1>3, <1>4, <1>5

\* A packet sent tells from now on.
LEMMA HelpTold ==
  ASSUME HelpTypeOK, ListsFit, NEW m \in HelpPacketType, NEW who, Tell(m, who),
         m.type = "Pending" => Short(m.records) /\ Once(m.records)
  PROVE  /\ helpWire' \in Seq(HelpPacketType) /\ ListsFit' /\ tellings' \in Nat
         /\ told' \in [Records -> Nat]
         /\ \A r \in Records : told'[r] = told[r] + One(r \in who)
         /\ \A r : /\ OnWay(r) \in Nat
                  /\ OnWay(r)' = OnWay(r) + One(Tells(m, r))
<1>1. /\ helpWire \in Seq(HelpPacketType) /\ helpWire' = Append(helpWire, m)
      /\ told \in [Records -> Nat] /\ tellings \in Nat /\ tellings' = tellings + 1
      /\ told' = [r \in Records |-> told[r] + IF r \in who THEN 1 ELSE 0]
  BY DEF HelpTypeOK, Tell
<1>2. /\ helpWire' \in Seq(HelpPacketType)
      /\ DOMAIN helpWire = 1..Len(helpWire) /\ Len(helpWire) \in Nat
      /\ DOMAIN helpWire' = 1..(Len(helpWire) + 1)
      /\ \A n \in 1..Len(helpWire) : helpWire'[n] = helpWire[n]
      /\ helpWire'[Len(helpWire) + 1] = m
  BY <1>1
<1>3. ListsFit'
  <2>1. \A n \in 1..(Len(helpWire) + 1) : n \in 1..Len(helpWire) \/ n = Len(helpWire) + 1
    BY <1>2
  <2> QED BY <1>2, <2>1 DEF ListsFit, Short, Once
<1>4. told' \in [Records -> Nat] /\ \A r \in Records : told'[r] = told[r] + One(r \in who)
  BY <1>1 DEF One
<1>5. ASSUME NEW r PROVE OnWay(r) \in Nat /\ OnWay(r)' = OnWay(r) + One(Tells(m, r))
  <2>1. OnWay(r) = Cardinality(Tellers(helpWire, r))
    BY DEF OnWay, Tellers
  <2>2. OnWay(r)' = Cardinality(Tellers(helpWire', r))
    BY DEF OnWay, Tellers, Tells
  <2> QED BY <1>1, <2>1, <2>2, TellersFinite, TellersAppend
<1>6. tellings' \in Nat
  BY <1>1
<1> QED BY <1>2, <1>3, <1>4, <1>5, <1>6

\* A request sent names its records.
LEMMA HelpAsked ==
  ASSUME HelpTypeOK, RequestsFit, NEW s \in Seq(Records), Short(s),
         helpRequests' = IF auto_help THEN Append(helpRequests, s) ELSE helpRequests
  PROVE  /\ helpRequests' \in Seq(Seq(Records)) /\ RequestsFit'
         /\ \A r : Asked(r) \in Nat /\ Times(r, s) \in Nat
         /\ auto_help => \A r : Asked(r)' = Asked(r) + Times(r, s)
<1>1. helpRequests \in Seq(Seq(Records)) /\ auto_help \in BOOLEAN
  BY DEF HelpTypeOK
<1>2. \A r : Asked(r) = Cardinality(Namers(helpRequests, r))
  BY DEF Asked, Namers
<1>3. \A r : Asked(r)' = Cardinality(Namers(helpRequests', r))
  BY DEF Asked, Namers
<1>4. \A r : Asked(r) \in Nat /\ Times(r, s) \in Nat
  BY <1>1, <1>2, NamersFinite, NamingFinite
<1>5. CASE ~auto_help
  BY <1>1, <1>4, <1>5 DEF RequestsFit, Short
<1>6. CASE auto_help
  <2>1. /\ helpRequests' = Append(helpRequests, s) /\ helpRequests' \in Seq(Seq(Records))
        /\ DOMAIN helpRequests = 1..Len(helpRequests) /\ Len(helpRequests) \in Nat
        /\ DOMAIN helpRequests' = 1..(Len(helpRequests) + 1)
        /\ \A n \in 1..Len(helpRequests) : helpRequests'[n] = helpRequests[n]
        /\ helpRequests'[Len(helpRequests) + 1] = s
    BY <1>1, <1>6
  <2>2. \A n \in 1..(Len(helpRequests) + 1) :
          n \in 1..Len(helpRequests) \/ n = Len(helpRequests) + 1
    BY <2>1
  <2>3. RequestsFit'
    BY <2>1, <2>2 DEF RequestsFit, Short
  <2>4. ASSUME NEW r PROVE Asked(r)' = Asked(r) + Times(r, s)
    <3>1. Cardinality(Namers(Append(helpRequests, s), r)) =
            Cardinality(Namers(helpRequests, r)) + Times(r, s)
      BY <1>1, NamersAppend
    <3> QED BY <1>2, <1>3, <2>1, <3>1
  <2> QED BY <1>4, <2>1, <2>3, <2>4
<1> QED BY <1>5, <1>6

\* A handler that reads a packet and asks to help with what it tells of.
LEMMA HelpAnswered ==
  ASSUME HelpInv, NEW type, HelpReceive(type), NEW s \in Seq(Records), Short(s),
         helpRequests' = IF auto_help THEN Append(helpRequests, s) ELSE helpRequests,
         \A r : Times(r, s) = One(Tells(Head(helpWire), r)),
         UNCHANGED <<auto_help, helpServer>>
  PROVE  ListsFit' /\ RequestsFit' /\ OneHelpPerTelling'
         /\ helpWire' \in Seq(HelpPacketType) /\ helpRequests' \in Seq(Seq(Records))
<1>1. HelpTypeOK /\ ListsFit /\ RequestsFit /\ OneHelpPerTelling
  BY DEF HelpInv
<1>2. /\ helpWire' \in Seq(HelpPacketType) /\ ListsFit'
      /\ \A r : /\ OnWay(r)' \in Nat
               /\ OnWay(r) = OnWay(r)' + One(Tells(Head(helpWire), r))
  BY <1>1, HelpRead
<1>3. /\ helpRequests' \in Seq(Seq(Records)) /\ RequestsFit'
      /\ \A r : Asked(r) \in Nat /\ Times(r, s) \in Nat
      /\ auto_help => \A r : Asked(r)' = Asked(r) + Times(r, s)
  BY <1>1, HelpAsked
<1>4. /\ helped' = helped /\ told' = told /\ auto_help' = auto_help
      /\ helped \in [Records -> Nat] /\ auto_help \in BOOLEAN
  BY <1>1 DEF helpServer, HelpTypeOK
<1>5. ASSUME NEW x \in Records, auto_help
      PROVE  helped'[x] + Asked(x)' + OnWay(x)' = told'[x]
  <2>1. helped[x] + Asked(x) + OnWay(x) = told[x] /\ helped[x] \in Nat
    BY <1>1, <1>4, <1>5 DEF OneHelpPerTelling
  <2>2. /\ Asked(x) \in Nat /\ Times(x, s) \in Nat
        /\ Asked(x)' = Asked(x) + Times(x, s)
    BY <1>3, <1>5
  <2>3. OnWay(x) = OnWay(x)' + Times(x, s) /\ OnWay(x)' \in Nat
    <3>1. OnWay(x) = OnWay(x)' + One(Tells(Head(helpWire), x)) /\ OnWay(x)' \in Nat
      BY <1>2
    <3>2. Times(x, s) = One(Tells(Head(helpWire), x))
      OBVIOUS
    <3> QED BY <3>1, <3>2
  <2>4. helped'[x] = helped[x] /\ told'[x] = told[x]
    BY <1>4
  <2>5. \A h, a, t, w \in Nat : h + a + (w + t) = h + (a + t) + w
    OBVIOUS
  <2> QED BY <2>1, <2>2, <2>3, <2>4, <2>5
<1>6. ASSUME NEW r \in Records, ~auto_help
      PROVE  helped'[r] = 0 /\ helpRequests' = <<>>
  BY <1>1, <1>4, <1>6 DEF OneHelpPerTelling
<1>7. OneHelpPerTelling'
  BY <1>4, <1>5, <1>6 DEF OneHelpPerTelling
<1> QED BY <1>2, <1>3, <1>7

LEMMA NeedsHelpInv == ASSUME HelpInv, RecvAllianceMemberNeedsHelp PROVE HelpInv'
<1> DEFINE m == Head(helpWire)
           s == <<m.record>>
<1>1. /\ HelpReceive("NeedsHelp") /\ HelpTypeOK /\ ListsFit
      /\ record_sn' = m.record /\ UNCHANGED <<auto_help, record_sn_arr, helpServer>>
  BY DEF RecvAllianceMemberNeedsHelp, HelpInv
<1>2. m \in HelpPacketType /\ m.type = "NeedsHelp"
  BY <1>1, HelpRead
<1>3. m.record \in Records
  BY <1>2 DEF HelpPacketType
<1>4. s \in Seq(Records) /\ Len(s) = 1 /\ DOMAIN s = {1} /\ s[1] = m.record
  BY <1>3
<1>5. HELP_SLOTS >= 1 /\ Short(s) /\ Once(s)
  BY <1>4, HelpAssumption DEF Short, Once
<1>6. helpRequests' = IF auto_help THEN Append(helpRequests, s) ELSE helpRequests
  <2>1. SubSeq(s, 1, 1) = s
    <3>1. \A i \in 1..1 : s[i] \in Records
      BY <1>3
    <3>2. /\ SubSeq(s, 1, 1) \in Seq(Records) /\ Len(SubSeq(s, 1, 1)) = 1
          /\ \A i \in 1..1 : SubSeq(s, 1, 1)[i] = s[1 + i - 1]
      <4> HIDE DEF s
      <4>1. /\ SubSeq(s, 1, 1) \in Seq(Records)
            /\ Len(SubSeq(s, 1, 1)) = IF 1 <= 1 THEN 1 - 1 + 1 ELSE 0
            /\ \A i \in 1..(1 - 1 + 1) : SubSeq(s, 1, 1)[i] = s[1 + i - 1]
        BY <3>1, SubSeqProperties
      <4>2. (IF 1 <= 1 THEN 1 - 1 + 1 ELSE 0) = 1 /\ 1 - 1 + 1 = 1
        OBVIOUS
      <4> QED BY <4>1, <4>2
    <3>3. \A i \in 1..1 : SubSeq(s, 1, 1)[i] = s[i]
      BY <3>2
    <3> HIDE DEF s
    <3> QED BY <1>4, <3>2, <3>3, SeqEqual
  <2> QED BY <2>1 DEF RecvAllianceMemberNeedsHelp, RequestHelpAllianceMember
<1>7. \A r : Times(r, s) = One(Tells(m, r))
  <2> TAKE r
  <2>1. Times(r, s) = One(\E n \in DOMAIN s : s[n] = r)
    BY <1>4, <1>5, TimesOnce
  <2>2. Tells(m, r) <=> m.record = r
    BY <1>2 DEF Tells
  <2> QED BY <1>4, <2>1, <2>2 DEF One
<1> HIDE DEF s, m
<1>8. /\ ListsFit' /\ RequestsFit' /\ OneHelpPerTelling'
      /\ helpWire' \in Seq(HelpPacketType) /\ helpRequests' \in Seq(Seq(Records))
  BY <1>1, <1>4, <1>5, <1>6, <1>7, HelpAnswered DEF m
<1> QED BY <1>1, <1>3, <1>8 DEF HelpInv, HelpTypeOK, helpServer

LEMMA PendingInv == ASSUME HelpInv, RecvPendingAllianceMembersNeedHelp PROVE HelpInv'
<1> DEFINE m == Head(helpWire)
           s == m.records
<1>1. /\ HelpReceive("Pending") /\ HelpTypeOK /\ ListsFit
      /\ record_sn_arr' = Listed(s)
      /\ record_sn' = IF s = <<>> THEN record_sn ELSE s[Len(s)]
      /\ helpRequests' = IF auto_help
                           THEN Append(helpRequests, SubSeq(Array(Listed(s)), 1, Len(s)))
                           ELSE helpRequests
      /\ UNCHANGED <<auto_help, helpServer>>
  BY DEF RecvPendingAllianceMembersNeedHelp, RequestHelpAllianceMember, HelpInv
<1>2. m \in HelpPacketType /\ m.type = "Pending" /\ Short(s) /\ Once(s)
  BY <1>1, HelpRead
<1>3. s \in Seq(Records)
  BY <1>2 DEF HelpPacketType
<1>4. /\ Len(s) \in Nat /\ DOMAIN s = 1..Len(s) /\ HELP_SLOTS \in Nat /\ Len(s) <= HELP_SLOTS
      /\ \A n \in 1..Len(s) : s[n] \in Records
  BY <1>2, <1>3, HelpAssumption DEF Short
<1>7. \A r : Times(r, s) = One(Tells(m, r))
  <2> TAKE r
  <2>1. Times(r, s) = One(\E n \in DOMAIN s : s[n] = r)
    BY <1>2, <1>3, TimesOnce
  <2>2. Tells(m, r) <=> \E n \in DOMAIN s : s[n] = r
    BY <1>2 DEF Tells
  <2> QED BY <2>1, <2>2 DEF One
<1> HIDE DEF s
<1>5. Listed(s) \in [HelpSlot -> Records \cup {NoRecord}]
  <2>1. \A i \in HelpSlot : i \in Nat /\ (i < Len(s) => i + 1 \in 1..Len(s))
    BY <1>4 DEF HelpSlot
  <2> QED BY <1>1, <1>4, <2>1 DEF Listed, HelpTypeOK
<1>6. SubSeq(Array(Listed(s)), 1, Len(s)) = s
  <2> DEFINE a == Array(Listed(s))
  <2>1. \A n \in 1..Len(s) : n - 1 \in HelpSlot /\ n - 1 < Len(s) /\ (n - 1) + 1 = n
                            /\ n \in 1..HELP_SLOTS
    BY <1>4 DEF HelpSlot
  <2>2. \A n \in 1..Len(s) : a[n] = s[n]
    BY <2>1 DEF Array, Listed
  <2>3. \A n \in 1..Len(s) : a[n] \in Records
    BY <1>4, <2>2
  <2> HIDE DEF a
  <2>4. /\ SubSeq(a, 1, Len(s)) \in Seq(Records)
        /\ Len(SubSeq(a, 1, Len(s))) = IF 1 <= Len(s) THEN Len(s) - 1 + 1 ELSE 0
        /\ \A i \in 1..(Len(s) - 1 + 1) : SubSeq(a, 1, Len(s))[i] = a[1 + i - 1]
    BY <1>4, <2>3, SubSeqProperties
  <2>5. Len(SubSeq(a, 1, Len(s))) = Len(s)
    BY <1>4, <2>4
  <2>6. \A i \in 1..Len(s) : SubSeq(a, 1, Len(s))[i] = s[i]
    <3>1. Len(s) - 1 + 1 = Len(s) /\ \A i \in 1..Len(s) : 1 + i - 1 = i
      BY <1>4
    <3> QED BY <2>2, <2>4, <3>1
  <2>7. SubSeq(a, 1, Len(s)) = s
    BY <1>3, <2>4, <2>5, <2>6, SeqEqual
  <2> QED BY <2>7 DEF a
<1>8. /\ ListsFit' /\ RequestsFit' /\ OneHelpPerTelling'
      /\ helpWire' \in Seq(HelpPacketType) /\ helpRequests' \in Seq(Seq(Records))
  <2>1. helpRequests' = IF auto_help THEN Append(helpRequests, s) ELSE helpRequests
    BY <1>1, <1>6
  <2> HIDE DEF m
  <2> QED BY <1>1, <1>2, <1>3, <1>7, <2>1, HelpAnswered DEF m
<1>9. record_sn' \in Records \cup {NoRecord}
  <2>1. s # <<>> => Len(s) \in 1..Len(s)
    BY <1>3
  <2> QED BY <1>1, <1>4, <2>1 DEF HelpTypeOK
<1> QED BY <1>1, <1>5, <1>8, <1>9 DEF HelpInv, HelpTypeOK, helpServer

\* A packet sent, about those it tells of.
LEMMA ToldInv ==
  ASSUME HelpInv, NEW m \in HelpPacketType, NEW who, Tell(m, who),
         m.type = "Pending" => Short(m.records) /\ Once(m.records),
         \A r \in Records : Tells(m, r) <=> r \in who,
         waiting' \subseteq Records,
         UNCHANGED <<auto_help, helpTable, helpRequests, helped>>
  PROVE  HelpInv'
<1>1. HelpTypeOK /\ ListsFit /\ RequestsFit /\ OneHelpPerTelling
  BY DEF HelpInv
<1>2. /\ helpWire' \in Seq(HelpPacketType) /\ ListsFit' /\ tellings' \in Nat
      /\ told' \in [Records -> Nat]
      /\ \A r \in Records : told'[r] = told[r] + One(r \in who)
      /\ \A r : /\ OnWay(r) \in Nat
               /\ OnWay(r)' = OnWay(r) + One(Tells(m, r))
  BY <1>1, HelpTold
<1>3. \A r : Asked(r)' = Asked(r)
  BY DEF Asked
<1>4. \A r : Asked(r) \in Nat
  <2>1. \A r : Asked(r) = Cardinality(Namers(helpRequests, r))
    BY DEF Asked, Namers
  <2> QED BY <1>1, <2>1, NamersFinite DEF HelpTypeOK
<1>5. ASSUME NEW x \in Records, auto_help
      PROVE  helped'[x] + Asked(x)' + OnWay(x)' = told'[x]
  <2>1. helped[x] + Asked(x) + OnWay(x) = told[x] /\ helped[x] \in Nat
    BY <1>1, <1>5 DEF OneHelpPerTelling, HelpTypeOK
  <2>2. One(Tells(m, x)) = One(x \in who) /\ One(x \in who) \in Nat
    BY DEF One
  <2>3. /\ OnWay(x) \in Nat /\ OnWay(x)' = OnWay(x) + One(x \in who)
        /\ told'[x] = told[x] + One(x \in who)
    BY <1>2, <2>2
  <2>4. Asked(x)' = Asked(x) /\ Asked(x) \in Nat /\ helped'[x] = helped[x]
    BY <1>3, <1>4
  <2>5. \A h, a, t, w \in Nat : h + a + (w + t) = (h + a + w) + t
    OBVIOUS
  <2> QED BY <2>1, <2>2, <2>3, <2>4, <2>5
<1>6. OneHelpPerTelling'
  BY <1>1, <1>5 DEF OneHelpPerTelling, HelpTypeOK
<1>7. RequestsFit'
  BY <1>1 DEF RequestsFit, Short
<1> QED BY <1>1, <1>2, <1>6, <1>7 DEF HelpInv, HelpTypeOK, helpTable

\* A list that names as many as wait, each once, names all who wait.
LEMMA SendPendingInv == ASSUME HelpInv, SendPending PROVE HelpInv'
<1>1. HelpTypeOK /\ waiting \subseteq Records /\ IsFiniteSet(waiting)
  BY HelpAssumption, FS_Subset DEF HelpInv, HelpTypeOK
<1>2. PICK list \in [1..Cardinality(waiting) -> waiting] :
        /\ \A m, n \in DOMAIN list : m # n => list[m] # list[n]
        /\ Tell([type |-> "Pending", records |-> list], waiting)
  BY DEF SendPending
<1> DEFINE m == [type |-> "Pending", records |-> list]
<1>3. Cardinality(waiting) \in Nat /\ Cardinality(waiting) <= HELP_SLOTS
  BY <1>1, FS_CardinalityType DEF SendPending
<1>4. /\ list \in Seq(Records) /\ Len(list) = Cardinality(waiting)
      /\ DOMAIN list = 1..Cardinality(waiting)
  BY <1>1, <1>2, <1>3
<1>5. m \in HelpPacketType /\ Short(m.records) /\ Once(m.records)
  BY <1>2, <1>3, <1>4 DEF HelpPacketType, Short, Once
<1>6. ASSUME NEW r \in Records PROVE Tells(m, r) <=> r \in waiting
  <2>1. list \in Injection(1..Cardinality(waiting), waiting)
    BY <1>2, <1>4, Fun_IsInj
  <2>2. Cardinality(1..Cardinality(waiting)) = Cardinality(waiting)
    BY <1>3, FS_Interval
  <2>3. list \in Surjection(1..Cardinality(waiting), waiting)
    BY <1>1, <2>1, <2>2, FS_Injection
  <2>4. \A t \in waiting : \E n \in DOMAIN list : list[n] = t
    BY <1>4, <2>3, Fun_SurjectionProperties
  <2>5. Tells(m, r) <=> \E n \in DOMAIN list : list[n] = r
    BY DEF Tells
  <2> QED BY <1>2, <1>4, <2>4, <2>5
<1>7. waiting' \subseteq Records /\ UNCHANGED <<auto_help, helpTable, helpRequests, helped>>
  BY <1>1 DEF SendPending
<1>8. Tell(m, waiting)
  BY <1>2
<1> HIDE DEF m
<1> QED BY <1>5, <1>6, <1>7, <1>8, ToldInv

LEMMA AskForHelpInv ==
  ASSUME HelpInv, NEW r \in Records, AskForHelp(r) PROVE HelpInv'
<1> DEFINE m == [type |-> "NeedsHelp", record |-> r]
<1>1. m \in HelpPacketType /\ m.type # "Pending"
  BY DEF HelpPacketType
<1>2. \A x \in Records : Tells(m, x) <=> x \in {r}
  BY DEF Tells
<1>3. /\ Tell(m, {r}) /\ waiting' \subseteq Records
      /\ UNCHANGED <<auto_help, helpTable, helpRequests, helped>>
  BY DEF AskForHelp, HelpInv, HelpTypeOK
<1> HIDE DEF m
<1> QED BY <1>1, <1>2, <1>3, ToldInv

LEMMA TakeHelpInv == ASSUME HelpInv, TakeHelp PROVE HelpInv'
<1>1. /\ HelpTypeOK /\ ListsFit /\ RequestsFit /\ OneHelpPerTelling
      /\ helpRequests # <<>> /\ helpRequests' = Tail(helpRequests)
      /\ helped' = [r \in Records |-> helped[r] + Times(r, Head(helpRequests))]
      /\ UNCHANGED <<auto_help, helpTable, helpWire, waiting, told, tellings>>
      /\ helpRequests \in Seq(Seq(Records))
  BY DEF HelpInv, TakeHelp, HelpTypeOK
<1>2. /\ helpRequests' \in Seq(Seq(Records)) /\ Head(helpRequests) \in Seq(Records)
      /\ Short(Head(helpRequests)) /\ RequestsFit'
  <2>1. /\ DOMAIN helpRequests = 1..Len(helpRequests) /\ Len(helpRequests) \in Nat \ {0}
        /\ DOMAIN helpRequests' = 1..(Len(helpRequests) - 1)
        /\ \A n \in 1..(Len(helpRequests) - 1) : helpRequests'[n] = helpRequests[n + 1]
        /\ Head(helpRequests) = helpRequests[1]
    BY <1>1
  <2>2. \A n \in 1..(Len(helpRequests) - 1) : n + 1 \in 1..Len(helpRequests)
    BY <2>1
  <2> QED BY <1>1, <2>1, <2>2 DEF RequestsFit, Short
<1>3. \A r : Times(r, Head(helpRequests)) \in Nat
  BY <1>2, NamingFinite
<1>4. helped' \in [Records -> Nat]
  BY <1>1, <1>3 DEF HelpTypeOK
<1>5. ASSUME NEW x \in Records, auto_help
      PROVE  helped'[x] + Asked(x)' + OnWay(x)' = told'[x]
  <2>1. helped[x] + Asked(x) + OnWay(x) = told[x] /\ helped[x] \in Nat
    BY <1>1, <1>5 DEF OneHelpPerTelling, HelpTypeOK
  <2>2. Asked(x) = Cardinality(Namers(helpRequests, x))
    BY DEF Asked, Namers
  <2>3. Asked(x)' = Cardinality(Namers(helpRequests', x))
    BY DEF Asked, Namers
  <2>4. /\ Asked(x) = Asked(x)' + Times(x, Head(helpRequests)) /\ Asked(x)' \in Nat
    BY <1>1, <1>2, <2>2, <2>3, NamersTail, NamersFinite
  <2>5. OnWay(x)' = OnWay(x) /\ OnWay(x) \in Nat
    <3>1. OnWay(x) = Cardinality(Tellers(helpWire, x))
      BY DEF OnWay, Tellers
    <3>2. OnWay(x)' = OnWay(x)
      BY <1>1 DEF OnWay, Tells
    <3> QED BY <1>1, <3>1, <3>2, TellersFinite DEF HelpTypeOK
  <2>6. helped'[x] = helped[x] + Times(x, Head(helpRequests)) /\ told'[x] = told[x]
    BY <1>1
  <2> QED BY <1>3, <2>1, <2>4, <2>5, <2>6
<1>6. OneHelpPerTelling'
  BY <1>1, <1>5 DEF OneHelpPerTelling, HelpTypeOK
<1>7. ListsFit'
  BY <1>1 DEF ListsFit, Short, Once
<1> QED BY <1>1, <1>2, <1>4, <1>6, <1>7 DEF HelpInv, HelpTypeOK, helpTable

LEMMA HelpSame ==
  ASSUME HelpInv, waiting' \subseteq Records,
         UNCHANGED <<auto_help, helpTable, helpRequests, helpWire, helped, told, tellings>>
  PROVE  HelpInv'
<1>1. HelpTypeOK' /\ ListsFit' /\ RequestsFit'
  BY DEF HelpInv, HelpTypeOK, ListsFit, RequestsFit, Short, Once, helpTable
<1>2. \A r : Asked(r)' = Asked(r)
  BY DEF Asked
<1>3. \A r : OnWay(r)' = OnWay(r)
  BY DEF OnWay, Tells
<1> QED BY <1>1, <1>2, <1>3 DEF HelpInv, OneHelpPerTelling

\* The bot helps with each request exactly as often as it is told of it, for
\* every number of requests and every mixture of lists and single requests.
THEOREM HelpInvariant == HelpSpec => []HelpInv
<1>1. HelpInit => HelpInv
  <2> SUFFICES ASSUME HelpInit PROVE HelpInv
    OBVIOUS
  <2>1. HelpTypeOK
    BY DEF HelpInit, HelpTypeOK
  <2>2. ListsFit /\ RequestsFit
    BY DEF HelpInit, ListsFit, RequestsFit
  <2>3. ASSUME NEW r \in Records PROVE Asked(r) = 0 /\ OnWay(r) = 0
    <3>1. {n \in DOMAIN helpWire : Tells(helpWire[n], r)} = {}
      BY DEF HelpInit
    <3>2. {p \in (DOMAIN helpRequests) \X (1..HELP_SLOTS) :
             p[2] \in DOMAIN helpRequests[p[1]] /\ helpRequests[p[1]][p[2]] = r} = {}
      BY DEF HelpInit
    <3> QED BY <3>1, <3>2, FS_EmptySet DEF Asked, OnWay
  <2>4. OneHelpPerTelling
    BY <2>3 DEF HelpInit, OneHelpPerTelling
  <2> QED BY <2>1, <2>2, <2>4 DEF HelpInv
<1>2. HelpInv /\ [HelpNext]_helpVars => HelpInv'
  <2> SUFFICES ASSUME HelpInv, [HelpNext]_helpVars PROVE HelpInv'
    OBVIOUS
  <2>1. CASE RecvAllianceMemberNeedsHelp
    BY <2>1, NeedsHelpInv
  <2>2. CASE RecvPendingAllianceMembersNeedHelp
    BY <2>2, PendingInv
  <2>3. CASE SendPending
    BY <2>3, SendPendingInv
  <2>4. CASE TakeHelp
    BY <2>4, TakeHelpInv
  <2>5. ASSUME NEW r \in Records, AskForHelp(r) PROVE HelpInv'
    BY <2>5, AskForHelpInv
  <2>6. ASSUME NEW r \in Records, HelpOver(r) PROVE HelpInv'
    BY <2>6, HelpSame DEF HelpOver, HelpInv, HelpTypeOK
  <2>7. CASE UNCHANGED helpVars
    BY <2>7, HelpSame DEF helpVars, helpServer, HelpInv, HelpTypeOK
  <2> QED BY <2>1, <2>2, <2>3, <2>4, <2>5, <2>6, <2>7 DEF HelpNext, HelpPacket, HelpServer
<1> QED BY <1>1, <1>2, PTL DEF HelpSpec

\* No request for help names the empty record of a slot never written.
THEOREM HelpTypeCorrect == HelpSpec => []HelpTypeOK
<1>1. HelpInv => HelpTypeOK
  BY DEF HelpInv
<1> QED BY HelpInvariant, <1>1, PTL

\* Told once, helped once: what an earlier list left is not sent again.
THEOREM OneHelpPerTellingAlways == HelpSpec => []OneHelpPerTelling
<1>1. HelpInv => OneHelpPerTelling
  BY DEF HelpInv
<1> QED BY HelpInvariant, <1>1, PTL

-----------------------------------------------------------------------------
(***************************************************************************)
(* Lists that come in parts: what happens to a row of places (Parts) when  *)
(* the front packet is poured into the table, and when the server puts one *)
(* more on the wire.                                                       *)
(***************************************************************************)

LEMMA WholeIs ==
  ASSUME NEW h, NEW b, NEW z \in Nat, NEW s
  PROVE  Whole(h, b, z, s) <=>
           \A g : g \in s <=> \E n \in 0..z : g \in h[n] /\ SameList(b, n, z)
<1> DEFINE u == UNION {h[n] : n \in {n \in 0..z : SameList(b, n, z)}}
<1>1. \A g : g \in u <=> \E n \in 0..z : g \in h[n] /\ SameList(b, n, z)
  OBVIOUS
<1> HIDE DEF u
<1>2. s = u <=> \A g : g \in s <=> g \in u
  OBVIOUS
<1> QED
  BY <1>1, <1>2 DEF Whole, u

\* Reading: place 1 is poured into place 0 and the others move up.
LEMMA MoveSame ==
  ASSUME NEW z \in Nat, NEW b, NEW c,
         \A n \in 1..z : n \in c <=> n + 1 \in b,
         NEW m \in 0..z, NEW n \in 0..z
  PROVE  SameList(c, m, n) <=> SameList(b, m + 1, n + 1)
<1>1. ASSUME SameList(c, m, n), NEW j \in (m + 2)..(n + 1) PROVE j \notin b
  <2>1. j - 1 \in (m + 1)..n /\ j - 1 \in 1..z /\ (j - 1) + 1 = j
    OBVIOUS
  <2> QED
    BY <1>1, <2>1 DEF SameList
<1>2. ASSUME SameList(b, m + 1, n + 1), NEW j \in (m + 1)..n PROVE j \notin c
  <2>1. j + 1 \in (m + 2)..(n + 1) /\ j \in 1..z
    OBVIOUS
  <2> QED
    BY <1>2, <2>1 DEF SameList
<1>3. (m + 1) + 1 = m + 2
  OBVIOUS
<1> QED
  BY <1>1, <1>2, <1>3 DEF SameList

LEMMA SameSplit ==
  ASSUME NEW b, NEW m \in Nat, NEW n \in Nat, m < n
  PROVE  SameList(b, m, n) <=> m + 1 \notin b /\ SameList(b, m + 1, n)
<1>1. \A j \in (m + 1)..n : j = m + 1 \/ j \in ((m + 1) + 1)..n
  OBVIOUS
<1>2. m + 1 \in (m + 1)..n /\ \A j \in ((m + 1) + 1)..n : j \in (m + 1)..n
  OBVIOUS
<1> QED
  BY <1>1, <1>2 DEF SameList

LEMMA Pour ==
  ASSUME NEW z \in Nat, NEW h, NEW b, NEW e, NEW h2, NEW b2, NEW e2, NEW s,
         \A n \in 1..z : h2[n] = h[n + 1],
         \A n \in 1..z : n \in b2 <=> n + 1 \in b,
         \A n \in 1..z : n \in e2 <=> n + 1 \in e,
         0 \notin e2,
         h2[0] = IF 1 \in b THEN h[1] ELSE h[0] \cup h[1],
         Apart(h, b, z + 1), Closed(h, b, e, z + 1)
  PROVE  /\ Apart(h2, b2, z) /\ Closed(h2, b2, e2, z)
         /\ Whole(h, b, z + 1, s) => Whole(h2, b2, z, s)
<1>1. \A m, n \in 0..z : SameList(b2, m, n) <=> SameList(b, m + 1, n + 1)
  BY MoveSame
<1>2. /\ \A n \in 0..z : n + 1 \in 0..(z + 1)
      /\ 0 \in 0..(z + 1) /\ 0 + 1 = 1 /\ 1 \in 0..(z + 1) /\ 0 \in 0..z
  OBVIOUS
<1>3. \A n \in 0..z : SameList(b, 0, n + 1) <=> 1 \notin b /\ SameList(b, 1, n + 1)
  <2> SUFFICES ASSUME NEW n \in 0..z
               PROVE  SameList(b, 0, n + 1) <=> 1 \notin b /\ SameList(b, 1, n + 1)
    OBVIOUS
  <2>1. 0 \in Nat /\ n + 1 \in Nat /\ 0 < n + 1 /\ 0 + 1 = 1
    OBVIOUS
  <2> QED
    BY <2>1, SameSplit
<1>4. Apart(h2, b2, z)
  <2> SUFFICES ASSUME NEW m \in 0..z, NEW n \in 0..z, m < n, SameList(b2, m, n)
               PROVE  h2[m] \cap h2[n] = {}
    BY DEF Apart
  <2>1. n \in 1..z /\ h2[n] = h[n + 1] /\ m + 1 < n + 1 /\ 1 < n + 1 /\ 0 < n + 1
    OBVIOUS
  <2>2. SameList(b, m + 1, n + 1)
    BY <1>1
  <2>3. CASE m = 0
    <3>1. SameList(b, 1, n + 1)
      BY <1>2, <2>2, <2>3
    <3>2. h[1] \cap h[n + 1] = {}
      BY <1>2, <2>1, <3>1 DEF Apart
    <3>3. 1 \notin b => h[0] \cap h[n + 1] = {}
      BY <1>2, <1>3, <2>1, <3>1 DEF Apart
    <3> QED
      BY <2>1, <2>3, <3>2, <3>3
  <2>4. CASE m # 0
    <3>1. m \in 1..z /\ h2[m] = h[m + 1]
      BY <2>4
    <3> QED
      BY <1>2, <2>1, <2>2, <3>1 DEF Apart
  <2> QED
    BY <2>3, <2>4
<1>5. Closed(h2, b2, e2, z)
  <2> SUFFICES ASSUME NEW m \in 0..z, NEW n \in 0..z, m < n, m \in e2, SameList(b2, m, n)
               PROVE  h2[n] = {}
    BY DEF Closed
  <2>1. n \in 1..z /\ h2[n] = h[n + 1] /\ m + 1 < n + 1
    OBVIOUS
  <2>2. m \in 1..z /\ m + 1 \in e
    OBVIOUS
  <2>3. SameList(b, m + 1, n + 1)
    BY <1>1
  <2> QED
    BY <1>2, <2>1, <2>2, <2>3 DEF Closed
<1>6. ASSUME Whole(h, b, z + 1, s) PROVE Whole(h2, b2, z, s)
  <2>1. \A g : g \in s <=> \E n \in 0..(z + 1) : g \in h[n] /\ SameList(b, n, z + 1)
    BY <1>6, z + 1 \in Nat, WholeIs
  <2>2. \A g : g \in s <=> \E n \in 0..z : g \in h2[n] /\ SameList(b2, n, z)
    <3> SUFFICES ASSUME NEW g
                 PROVE  (\E n \in 0..(z + 1) : g \in h[n] /\ SameList(b, n, z + 1))
                          <=> \E n \in 0..z : g \in h2[n] /\ SameList(b2, n, z)
      BY <2>1
    <3>1. ASSUME NEW n \in 0..(z + 1), g \in h[n], SameList(b, n, z + 1)
          PROVE  \E k \in 0..z : g \in h2[k] /\ SameList(b2, k, z)
      <4>0. z \in 0..z
        OBVIOUS
      <4>1. CASE n = 0
        <5>1. 1 \notin b /\ SameList(b, 1, z + 1)
          BY <1>3, <3>1, <4>0, <4>1
        <5>2. g \in h2[0] /\ SameList(b2, 0, z)
          BY <1>1, <1>2, <3>1, <4>0, <4>1, <5>1
        <5> QED
          BY <1>2, <5>2
      <4>2. CASE n = 1
        <5>1. g \in h2[0] /\ SameList(b2, 0, z)
          BY <1>1, <1>2, <3>1, <4>0, <4>2
        <5> QED
          BY <1>2, <5>1
      <4>3. CASE n # 0 /\ n # 1
        <5>1. n - 1 \in 1..z /\ (n - 1) + 1 = n /\ n - 1 \in 0..z
          BY <4>3
        <5>2. g \in h2[n - 1] /\ SameList(b2, n - 1, z)
          BY <1>1, <3>1, <4>0, <5>1
        <5> QED
          BY <5>1, <5>2
      <4> QED
        BY <4>1, <4>2, <4>3
    <3>2. ASSUME NEW n \in 0..z, g \in h2[n], SameList(b2, n, z)
          PROVE  \E k \in 0..(z + 1) : g \in h[k] /\ SameList(b, k, z + 1)
      <4>0. z \in 0..z
        OBVIOUS
      <4>1. SameList(b, n + 1, z + 1)
        BY <1>1, <3>2, <4>0
      <4>2. CASE n = 0
        <5>1. SameList(b, 1, z + 1)
          BY <1>2, <4>1, <4>2
        <5>2. CASE g \in h[1]
          BY <1>2, <5>1, <5>2
        <5>3. CASE g \notin h[1]
          <6>1. 1 \notin b /\ g \in h[0]
            BY <3>2, <4>2, <5>3
          <6>2. SameList(b, 0, z + 1)
            BY <1>3, <4>0, <5>1, <6>1
          <6> QED
            BY <1>2, <6>1, <6>2
        <5> QED
          BY <5>2, <5>3
      <4>3. CASE n # 0
        <5>1. n \in 1..z /\ g \in h[n + 1]
          BY <3>2, <4>3
        <5> QED
          BY <1>2, <4>1, <5>1
      <4> QED
        BY <4>2, <4>3
    <3> QED
      BY <3>1, <3>2
  <2> QED
    BY <2>2, WholeIs
<1> QED
  BY <1>4, <1>5, <1>6

\* Sending: a new place z comes before the last, which moves to z + 1; what the
\* last one held is divided between the two, and if a list begins there, it
\* begins in the first of them that holds anything.
LEMMA InsertSame ==
  ASSUME NEW z \in Nat, NEW b, NEW h2, NEW b2,
         \A n \in 0..z : n # z => (n \in b2 <=> n \in b),
         z \in b2 \/ z + 1 \in b2 <=> z \in b,
         z + 1 \in b2 => h2[z] = {},
         NEW m \in 0..z, m # z
  PROVE  /\ SameList(b2, m, z + 1) <=> SameList(b, m, z)
         /\ h2[z] # {} /\ SameList(b2, m, z) => SameList(b, m, z)
<1>1. \A j \in (m + 1)..(z + 1) : j = z + 1 \/ j = z \/ (j \in (m + 1)..z /\ j \in 0..z)
  OBVIOUS
<1>2. \A j \in (m + 1)..z : j = z \/ (j \in 0..z /\ j # z)
  OBVIOUS
<1>3. /\ z \in (m + 1)..(z + 1) /\ z + 1 \in (m + 1)..(z + 1) /\ z \in (m + 1)..z
      /\ \A j \in (m + 1)..z : j \in (m + 1)..(z + 1)
  OBVIOUS
<1> QED
  BY <1>1, <1>2, <1>3 DEF SameList

LEMMA Insert ==
  ASSUME NEW z \in Nat, NEW h, NEW b, NEW e, NEW h2, NEW b2, NEW e2, NEW s,
         \A n \in 0..z : n # z => h2[n] = h[n],
         \A n \in 0..z : n # z => (n \in b2 <=> n \in b),
         \A n \in 0..z : n # z => (n \in e2 <=> n \in e),
         h2[z] \cup h2[z + 1] = h[z], h2[z] \cap h2[z + 1] = {},
         z \in b2 \/ z + 1 \in b2 <=> z \in b,
         z + 1 \in b2 => h2[z] = {},
         z \in e2 => h2[z + 1] = {},
         Apart(h, b, z), Closed(h, b, e, z)
  PROVE  /\ Apart(h2, b2, z + 1) /\ Closed(h2, b2, e2, z + 1)
         /\ Whole(h, b, z, s) => Whole(h2, b2, z + 1, s)
<1>1. ASSUME NEW m \in 0..z, NEW n \in 0..z, n # z
      PROVE  SameList(b2, m, n) <=> SameList(b, m, n)
  <2>1. \A j \in (m + 1)..n : j \in 0..z /\ j # z
    BY <1>1
  <2> QED
    BY <2>1 DEF SameList
<1>2. ASSUME NEW m \in 0..z, m # z
      PROVE  /\ SameList(b2, m, z + 1) <=> SameList(b, m, z)
             /\ h2[z] # {} /\ SameList(b2, m, z) => SameList(b, m, z)
  BY <1>2, InsertSame
<1>3. SameList(b2, z + 1, z + 1) /\ SameList(b, z, z)
  BY DEF SameList
<1>4. SameList(b2, z, z + 1) <=> z + 1 \notin b2
  <2>1. \A j : j \in (z + 1)..(z + 1) <=> j = z + 1
    OBVIOUS
  <2> QED
    BY <2>1 DEF SameList
<1>5. /\ \A n \in 0..(z + 1) : n \in 0..z \/ n = z + 1
      /\ \A n \in 0..z : n \in 0..(z + 1)
      /\ z \in 0..z /\ z + 1 \in 0..(z + 1) /\ z \in 0..(z + 1)
      /\ \A n \in 0..z : n # z => n < z
      /\ \A n \in 0..(z + 1) : ~(z + 1 < n)
      /\ \A n \in 0..z : ~(z < n)
      /\ ~(z + 1 < z) /\ z + 1 # z
  OBVIOUS
<1>6. Apart(h2, b2, z + 1)
  <2> SUFFICES ASSUME NEW m \in 0..(z + 1), NEW n \in 0..(z + 1), m < n, SameList(b2, m, n)
               PROVE  h2[m] \cap h2[n] = {}
    BY DEF Apart
  <2>1. m \in 0..z
    OBVIOUS
  <2>2. CASE n \in 0..z /\ n # z
    <3>1. m # z
      BY <2>2
    <3> QED
      BY <1>1, <2>1, <2>2, <3>1 DEF Apart
  <2>3. CASE n = z
    <3>1. m # z /\ m \in 0..z /\ m < z
      BY <2>1, <2>3
    <3>2. CASE h2[z] = {}
      BY <2>3, <3>2
    <3>3. CASE h2[z] # {}
      <4>1. SameList(b, m, z)
        BY <1>2, <2>3, <3>1, <3>3
      <4>2. h[m] \cap h[z] = {} /\ h2[m] = h[m]
        BY <1>5, <3>1, <4>1 DEF Apart
      <4> QED
        BY <2>3, <4>2
    <3> QED
      BY <3>2, <3>3
  <2>4. CASE n = z + 1 /\ m # z
    <3>1. SameList(b, m, z) /\ m < z
      BY <1>2, <2>1, <2>4
    <3>2. h[m] \cap h[z] = {} /\ h2[m] = h[m]
      BY <1>5, <2>1, <2>4, <3>1 DEF Apart
    <3> QED
      BY <2>4, <3>2
  <2>5. CASE n = z + 1 /\ m = z
    BY <2>5
  <2> QED
    BY <1>5, <2>2, <2>3, <2>4, <2>5
<1>7. Closed(h2, b2, e2, z + 1)
  <2> SUFFICES ASSUME NEW m \in 0..(z + 1), NEW n \in 0..(z + 1), m < n, m \in e2,
                      SameList(b2, m, n)
               PROVE  h2[n] = {}
    BY DEF Closed
  <2>1. m \in 0..z
    OBVIOUS
  <2>2. CASE n \in 0..z /\ n # z
    <3>1. m # z
      BY <2>2
    <3> QED
      BY <1>1, <2>1, <2>2, <3>1 DEF Closed
  <2>3. CASE n = z /\ h2[z] # {}
    <3>1. m # z /\ m < z /\ m \in e
      BY <2>1, <2>3
    <3>2. SameList(b, m, z)
      BY <1>2, <2>1, <2>3, <3>1
    <3>3. h[z] = {}
      BY <1>5, <2>1, <3>1, <3>2 DEF Closed
    <3> QED
      BY <2>3, <3>3
  <2>4. CASE n = z + 1 /\ m # z
    <3>1. SameList(b, m, z) /\ m < z /\ m \in e
      BY <1>2, <2>1, <2>4
    <3>2. h[z] = {}
      BY <1>5, <2>1, <3>1 DEF Closed
    <3> QED
      BY <2>4, <3>2
  <2>5. CASE n = z + 1 /\ m = z
    BY <2>5
  <2> QED
    BY <1>5, <2>2, <2>3, <2>4, <2>5
<1>8. ASSUME Whole(h, b, z, s) PROVE Whole(h2, b2, z + 1, s)
  <2>1. \A g : g \in s <=> \E n \in 0..z : g \in h[n] /\ SameList(b, n, z)
    BY <1>8, WholeIs
  <2>2. \A g : g \in s <=> \E n \in 0..(z + 1) : g \in h2[n] /\ SameList(b2, n, z + 1)
    <3> SUFFICES ASSUME NEW g
                 PROVE  (\E n \in 0..z : g \in h[n] /\ SameList(b, n, z))
                          <=> \E n \in 0..(z + 1) : g \in h2[n] /\ SameList(b2, n, z + 1)
      BY <2>1
    <3>1. ASSUME NEW n \in 0..z, g \in h[n], SameList(b, n, z)
          PROVE  \E k \in 0..(z + 1) : g \in h2[k] /\ SameList(b2, k, z + 1)
      <4>1. CASE n # z
        <5>1. g \in h2[n] /\ SameList(b2, n, z + 1)
          BY <1>2, <3>1, <4>1
        <5> QED
          BY <1>5, <5>1
      <4>2. CASE n = z
        BY <1>3, <1>4, <1>5, <3>1, <4>2
      <4> QED
        BY <4>1, <4>2
    <3>2. ASSUME NEW n \in 0..(z + 1), g \in h2[n], SameList(b2, n, z + 1)
          PROVE  \E k \in 0..z : g \in h[k] /\ SameList(b, k, z)
      <4>1. CASE n \in 0..z /\ n # z
        BY <1>2, <3>2, <4>1
      <4>2. CASE n = z \/ n = z + 1
        <5>1. g \in h[z]
          BY <3>2, <4>2
        <5> QED
          BY <1>3, <1>5, <5>1
      <4> QED
        BY <1>5, <4>1, <4>2
    <3> QED
      BY <3>1, <3>2
  <2> QED
    BY <2>2, z + 1 \in Nat, WholeIs
<1> QED
  BY <1>6, <1>7, <1>8

\* A list that is within a set stays within it when it is read or sent.
LEMMA PourWithin ==
  ASSUME NEW z \in Nat, NEW h, NEW b, NEW h2, NEW b2, NEW f,
         \A n \in 1..z : h2[n] = h[n + 1],
         \A n \in 1..z : n \in b2 <=> n + 1 \in b,
         h2[0] = IF 1 \in b THEN h[1] ELSE h[0] \cup h[1],
         Within(h, b, z + 1, f)
  PROVE  Within(h2, b2, z, f)
<1> SUFFICES ASSUME NEW n \in 0..z
             PROVE  \E s \in f : \A m \in 0..n : SameList(b2, m, n) => h2[m] \subseteq s
  BY DEF Within
<1>1. n + 1 \in 0..(z + 1) /\ n \in Nat /\ 0 + 1 = 1
  OBVIOUS
<1>2. PICK s \in f : \A m \in 0..(n + 1) : SameList(b, m, n + 1) => h[m] \subseteq s
  BY <1>1 DEF Within
<1>3. ASSUME NEW m \in 0..n, SameList(b2, m, n) PROVE h2[m] \subseteq s
  <2>1. m \in 0..z /\ m + 1 \in 0..(n + 1) /\ 0 \in 0..(n + 1)
    OBVIOUS
  <2>2. SameList(b, m + 1, n + 1)
    BY <1>3, <2>1, MoveSame
  <2>3. h[m + 1] \subseteq s
    BY <1>2, <2>1, <2>2
  <2>4. CASE m # 0
    <3>1. m \in 1..z
      BY <2>4
    <3> QED
      BY <2>3, <3>1
  <2>5. CASE m = 0
    <3>1. h[1] \subseteq s /\ SameList(b, 0 + 1, n + 1)
      BY <1>1, <2>2, <2>3, <2>5
    <3>2. 1 \notin b => h[0] \subseteq s
      <4>1. SameList(b, 0, n + 1) <=> 0 + 1 \notin b /\ SameList(b, 0 + 1, n + 1)
        BY <1>1, 0 \in Nat, n + 1 \in Nat, 0 < n + 1, SameSplit
      <4> QED
        BY <1>1, <1>2, <2>1, <3>1, <4>1
    <3> QED
      BY <2>5, <3>1, <3>2
  <2> QED
    BY <2>4, <2>5
<1> QED
  BY <1>2, <1>3

LEMMA InsertWithin ==
  ASSUME NEW z \in Nat, z >= 1, NEW h, NEW b, NEW h2, NEW b2, NEW f,
         \A n \in 0..z : n # z => h2[n] = h[n],
         \A n \in 0..z : n # z => (n \in b2 <=> n \in b),
         h2[z] \subseteq h[z], h2[z + 1] \subseteq h[z],
         z \in b /\ z \notin b2 => h2[z] = {} /\ (z + 1 \in b2 \/ h2[z + 1] = {}),
         Within(h, b, z, f)
  PROVE  Within(h2, b2, z + 1, f)
<1> SUFFICES ASSUME NEW n \in 0..(z + 1)
             PROVE  \E s \in f : \A m \in 0..n : SameList(b2, m, n) => h2[m] \subseteq s
  BY DEF Within
<1>1. ASSUME NEW k \in 0..z, k # z, NEW m \in 0..k
      PROVE  m \in 0..z /\ m # z /\ h2[m] = h[m] /\ (SameList(b2, m, k) <=> SameList(b, m, k))
  <2>1. m \in 0..z /\ m # z /\ \A j \in (m + 1)..k : j \in 0..z /\ j # z
    BY <1>1
  <2> QED
    BY <2>1 DEF SameList
<1>2. PICK s \in f : \A m \in 0..z : SameList(b, m, z) => h[m] \subseteq s
  <2>1. z \in 0..z
    OBVIOUS
  <2> QED
    BY <2>1 DEF Within
<1>3. PICK y : y = z - 1 /\ y \in 0..z /\ y # z
  OBVIOUS
<1>4. PICK r \in f : \A m \in 0..y : SameList(b, m, y) => h[m] \subseteq r
  BY <1>3 DEF Within
<1>5. SameList(b, z, z) /\ h[z] \subseteq s
  <2>1. z \in 0..z /\ SameList(b, z, z)
    BY DEF SameList
  <2> QED
    BY <1>2, <2>1
<1>6. CASE n \in 0..z /\ n # z
  <2>1. PICK t \in f : \A m \in 0..n : SameList(b, m, n) => h[m] \subseteq t
    BY <1>6 DEF Within
  <2> QED
    BY <1>1, <1>6, <2>1
<1>7. CASE n \in {z, z + 1} /\ z \in b /\ z \notin b2 /\ ~(n = z + 1 /\ z + 1 \in b2)
  <2>1. h2[n] = {} /\ h2[z] = {}
    BY <1>7
  <2>2. ASSUME NEW m \in 0..n, SameList(b2, m, n) PROVE h2[m] \subseteq r
    <3>1. m = n \/ m = z \/ (m \in 0..y /\ \A j \in (m + 1)..y : j \in (m + 1)..n)
      BY <1>3, <1>7
    <3>2. CASE m = n \/ m = z
      BY <2>1, <3>2
    <3>3. CASE m \in 0..y /\ \A j \in (m + 1)..y : j \in (m + 1)..n
      <4>1. SameList(b2, m, y)
        BY <2>2, <3>3 DEF SameList
      <4>2. SameList(b, m, y) /\ h2[m] = h[m]
        BY <1>1, <1>3, <3>3, <4>1
      <4> QED
        BY <1>4, <3>3, <4>2
    <3> QED
      BY <3>1, <3>2, <3>3
  <2> QED
    BY <2>2
<1>8. CASE n \in {z, z + 1} /\ (z \notin b \/ z \in b2 \/ (n = z + 1 /\ z + 1 \in b2))
  <2>1. ASSUME NEW m \in 0..n, SameList(b2, m, n) PROVE h2[m] \subseteq s
    <3>1. m = z \/ m = z + 1 \/ (m \in 0..z /\ m # z)
      OBVIOUS
    <3>2. CASE m = z \/ m = z + 1
      BY <1>5, <3>2
    <3>3. CASE m \in 0..z /\ m # z
      <4>1. z \in (m + 1)..n /\ (n = z + 1 => z + 1 \in (m + 1)..n)
        BY <1>8, <3>3
      <4>2. z \notin b2 /\ z \notin b
        BY <1>8, <2>1, <4>1 DEF SameList
      <4>3. \A j \in (m + 1)..z : j \in (m + 1)..n /\ j \in 0..z
        BY <1>8, <3>3
      <4>4. SameList(b, m, z)
        BY <2>1, <4>2, <4>3 DEF SameList
      <4> QED
        BY <1>2, <3>3, <4>4
    <3> QED
      BY <3>1, <3>2, <3>3
  <2> QED
    BY <2>1
<1>9. n \in {z, z + 1} \/ (n \in 0..z /\ n # z)
  OBVIOUS
<1> QED
  BY <1>6, <1>7, <1>8, <1>9

\* The lists of gifts that fit the table.
Fitting == {S \in SUBSET Gifts : Cardinality(S) <= GIFT_SLOTS}

\* An entry of a table as long as the set it is drawn from.
LEMMA NoLonger ==
  ASSUME NEW S, IsFiniteSet(S), NEW n \in Nat, NEW f \in [0..(n - 1) -> S],
         \A i, j \in 0..(n - 1) : f[i] = f[j] => i = j
  PROVE  n <= Cardinality(S)
<1>1. IsFiniteSet(0..(n - 1)) /\ Cardinality(0..(n - 1)) = n
  <2>1. /\ IsFiniteSet(0..(n - 1))
        /\ Cardinality(0..(n - 1)) = IF 0 > n - 1 THEN 0 ELSE (n - 1) - 0 + 1
    BY 0 \in Int, n - 1 \in Int, FS_Interval
  <2> QED
    BY <2>1
<1>2. f \in Injection(0..(n - 1), S)
  BY DEF Injection, IsInjective
<1> QED
  BY <1>1, <1>2, FS_Injection

\* Packets take turns: the same for the places that tell of a list.
LEMMA PourTurns ==
  ASSUME NEW z \in Nat, NEW t, NEW e, NEW k, NEW t2, NEW e2, NEW k2,
         Turns(t, e, k, z + 1),
         \A n \in 1..z : n \in t2 <=> n + 1 \in t,
         \A n \in 1..z : n \in e2 <=> n + 1 \in e,
         \A n \in 1..z : n \in k2 <=> n + 1 \in k,
         0 \in t, 0 \in e2 <=> IF 1 \in t THEN 1 \in e ELSE 0 \in e
  PROVE  Turns(t2, e2, k2, z)
<1> SUFFICES ASSUME NEW m \in 0..z, NEW n \in 0..z, m < n, m \in t2, n \in t2,
                    \A j \in (m + 1)..(n - 1) : j \notin t2
             PROVE  m \in e2 <=> n \notin k2
  BY DEF Turns
<1>1. /\ n \in 1..z /\ n + 1 \in 0..(z + 1) /\ 0 \in 0..(z + 1) /\ 1 \in 0..(z + 1)
      /\ 1 < n + 1 /\ 0 < n + 1
  OBVIOUS
<1>2. n + 1 \in t /\ (n \in k2 <=> n + 1 \in k)
  BY <1>1
<1>3. ASSUME NEW j \in (m + 2)..n PROVE j \notin t
  <2>1. j - 1 \in (m + 1)..(n - 1) /\ j - 1 \in 1..z /\ (j - 1) + 1 = j
    OBVIOUS
  <2> QED
    BY <2>1
<1>4. CASE m # 0
  <2>1. m \in 1..z /\ m + 1 \in 0..(z + 1) /\ m + 1 < n + 1
    BY <1>4
  <2>2. \A j \in ((m + 1) + 1)..((n + 1) - 1) : j \notin t
    BY <1>3
  <2>3. m + 1 \in e <=> n + 1 \notin k
    BY <1>1, <1>2, <2>1, <2>2 DEF Turns
  <2> QED
    BY <1>2, <2>1, <2>3
<1>5. CASE m = 0 /\ 1 \in t
  <2>1. \A j \in (1 + 1)..((n + 1) - 1) : j \notin t
    BY <1>3, <1>5
  <2>2. 1 \in e <=> n + 1 \notin k
    BY <1>1, <1>2, <1>5, <2>1 DEF Turns
  <2> QED
    BY <1>2, <1>5, <2>2
<1>6. CASE m = 0 /\ 1 \notin t
  <2>1. \A j \in (0 + 1)..((n + 1) - 1) : j = 1 \/ j \in (m + 2)..n
    BY <1>6
  <2>2. \A j \in (0 + 1)..((n + 1) - 1) : j \notin t
    BY <1>3, <1>6, <2>1
  <2>3. 0 \in e <=> n + 1 \notin k
    BY <1>1, <1>2, <1>6, <2>2 DEF Turns
  <2> QED
    BY <1>2, <1>6, <2>3
<1> QED
  BY <1>4, <1>5, <1>6

LEMMA InsertTurns ==
  ASSUME NEW z \in Nat, NEW t, NEW e, NEW k, NEW t2, NEW e2, NEW k2,
         Turns(t, e, k, z), z \in t,
         \A n \in 0..z : n # z => (n \in t2 <=> n \in t),
         \A n \in 0..z : n # z => (n \in e2 <=> n \in e),
         \A n \in 0..z : n # z => (n \in k2 <=> n \in k),
         z \in t2 => (z \in k2 <=> z \in k) /\ (z \in e2 <=> z + 1 \notin k2),
         z \notin t2 => (z + 1 \in k2 <=> z \in k)
  PROVE  Turns(t2, e2, k2, z + 1)
<1> SUFFICES ASSUME NEW m \in 0..(z + 1), NEW n \in 0..(z + 1), m < n, m \in t2, n \in t2,
                    \A j \in (m + 1)..(n - 1) : j \notin t2
             PROVE  m \in e2 <=> n \notin k2
  BY DEF Turns
<1>1. m \in 0..z
  OBVIOUS
<1>2. CASE n # z + 1
  <2>1. n \in 0..z /\ m # z /\ \A j \in (m + 1)..(n - 1) : j \in 0..z /\ j # z
    BY <1>2
  <2>2. m \in t /\ n \in t /\ (m \in e2 <=> m \in e) /\ (n \in k2 <=> n \in k)
    BY <1>1, <2>1
  <2>3. \A j \in (m + 1)..(n - 1) : j \notin t
    BY <2>1
  <2>4. m \in e <=> n \notin k
    BY <1>1, <2>1, <2>2, <2>3 DEF Turns
  <2> QED
    BY <2>2, <2>4
<1>3. CASE n = z + 1 /\ z \in t2
  <2>1. m = z
    <3>1. m # z => z \in (m + 1)..(n - 1)
      BY <1>3
    <3> QED
      BY <1>3, <3>1
  <2> QED
    BY <1>3, <2>1
<1>4. CASE n = z + 1 /\ z \notin t2
  <2>1. /\ m # z /\ m < z /\ z \in 0..z
        /\ \A j \in (m + 1)..(z - 1) : j \in 0..z /\ j # z /\ j \in (m + 1)..(n - 1)
    BY <1>4
  <2>2. m \in t /\ (m \in e2 <=> m \in e)
    BY <1>1, <2>1
  <2>3. \A j \in (m + 1)..(z - 1) : j \notin t
    BY <2>1
  <2>4. m \in e <=> z \notin k
    BY <1>1, <2>1, <2>2, <2>3 DEF Turns
  <2> QED
    BY <1>4, <2>2, <2>4
<1> QED
  BY <1>2, <1>3, <1>4

-----------------------------------------------------------------------------
(***************************************************************************)
(* Gifts.  A list goes from the server's box through the packets into the  *)
(* table.                                                                  *)
(***************************************************************************)

LEMMA GiftStart == GiftInit => GiftInv
<1> SUFFICES ASSUME GiftInit PROVE GiftInv
  OBVIOUS
<1>1. Len(giftWire) = 0 /\ DOMAIN giftWire = {} /\ DOMAIN rest = {}
  BY DEF GiftInit
<1>2. Behind = 1 /\ GiftPlaces = 0..1 /\ 0..(gift_count - 1) = {}
  BY <1>1 DEF GiftInit, Behind, GiftPlaces
<1>3. (\A n \in 0..1 : Held[n] = {}) /\ Starts = {} /\ Stops = {}
  <2>1. \A n : ~Part(n)
    BY <1>1 DEF Part
  <2>2. TableSn = {} /\ {rest[k] : k \in DOMAIN rest} = {}
    BY <1>1, <1>2 DEF TableSn
  <2>3. \A n \in 0..1 : Held[n] = {}
    BY <1>2, <2>1, <2>2 DEF Held
  <2> QED
    BY <1>2, <2>1, <2>3 DEF Starts, Stops, GiftInit
<1>4. GiftTypeOK
  <2>1. gifts \in [Slot -> EntryType]
    BY DEF GiftInit, EntryType, GIFT_NEW
  <2>2. /\ gift_count \in 0..GIFT_SLOTS /\ gift_offset \in 0..gift_count
        /\ unopened_gift_count \in 0..gift_count
    BY GiftAssumption DEF GiftInit
  <2>3. box \in [Gifts -> {GIFT_NEW, GIFT_OPEN, GIFT_EXP, ABSENT, GONE}]
    BY DEF GiftInit
  <2> QED
    BY <2>1, <2>2, <2>3 DEF GiftInit, GiftTypeOK, GiftStates
<1>5. OnceEach
  BY <1>1, <1>2, <1>3 DEF OnceEach, Apart
<1>6. WholeList
  <2>1. {} \in {S \in SUBSET Gifts : Cardinality(S) <= GIFT_SLOTS}
    BY GiftAssumption, FS_EmptySet
  <2>2. Within(Held, Starts, Behind, {S \in SUBSET Gifts : Cardinality(S) <= GIFT_SLOTS})
    <3>1. \A n \in 0..1 : \A m \in 0..n : m \in 0..1
      OBVIOUS
    <3> QED
      BY <1>2, <1>3, <2>1, <3>1 DEF Within
  <2> QED
    BY <1>2, <1>3, <2>2 DEF WholeList, Closed, GiftInit
<1>7. OffsetAtEnd /\ Marks
  BY <1>1, <1>2, <1>3 DEF OffsetAtEnd, Marks
<1> QED
  BY <1>4, <1>5, <1>6, <1>7 DEF GiftInv

\* The packet in front.
LEMMA FrontGift ==
  ASSUME GiftTypeOK, NEW t, GiftReceive(t)
  PROVE  /\ Head(giftWire) \in GiftPacketType /\ Head(giftWire).type = t
         /\ Head(giftWire) = giftWire[1] /\ 1 \in DOMAIN giftWire
         /\ giftWire' \in Seq(GiftPacketType)
         /\ Behind' \in Nat /\ Behind' >= 1 /\ Behind = Behind' + 1
         /\ DOMAIN giftWire = 1..Behind'
         /\ \A n \in DOMAIN giftWire' :
              /\ n >= 1 /\ n < Behind'
              /\ n + 1 \in DOMAIN giftWire /\ giftWire'[n] = giftWire[n + 1]
         /\ \A n \in 1..Behind' : n \in DOMAIN giftWire' <=> n # Behind'
         /\ \A n \in DOMAIN giftWire : n = 1 \/ n - 1 \in DOMAIN giftWire'
<1>1. giftWire \in Seq(GiftPacketType) /\ giftWire # <<>> /\ giftWire' = Tail(giftWire)
      /\ Head(giftWire).type = t
  BY DEF GiftTypeOK, GiftReceive
<1>2. /\ Len(giftWire) \in Nat /\ Len(giftWire) >= 1 /\ DOMAIN giftWire = 1..Len(giftWire)
      /\ Len(giftWire') = Len(giftWire) - 1 /\ DOMAIN giftWire' = 1..(Len(giftWire) - 1)
      /\ \A n \in 1..(Len(giftWire) - 1) : giftWire'[n] = giftWire[n + 1]
      /\ Head(giftWire) = giftWire[1] /\ giftWire' \in Seq(GiftPacketType)
      /\ Head(giftWire) \in GiftPacketType
  BY <1>1
<1>3. Behind' = Len(giftWire) /\ Behind = Len(giftWire) + 1
  BY <1>2 DEF Behind
<1>4. ASSUME NEW z \in Nat, z >= 1
      PROVE  /\ 1 \in 1..z
             /\ \A n \in 1..(z - 1) : n >= 1 /\ n < z /\ n + 1 \in 1..z
             /\ \A n \in 1..z : n \in 1..(z - 1) <=> n # z
             /\ \A n \in 1..z : n = 1 \/ n - 1 \in 1..(z - 1)
  BY <1>4
<1> QED
  BY <1>1, <1>2, <1>3, <1>4

LEMMA ReadPlaces ==
  ASSUME GiftTypeOK, NEW t, GiftReceive(t), UNCHANGED giftServer
  PROVE  /\ \A n \in 1..Behind' : Held'[n] = Held[n + 1]
         /\ \A n \in 1..Behind' : n \in Starts' <=> n + 1 \in Starts
         /\ \A n \in 1..Behind' : n \in Stops' <=> n + 1 \in Stops
         /\ \A n \in DOMAIN giftWire' : Part(n)' <=> Part(n + 1)
         /\ 0 \notin Stops'
         /\ Held'[0] = TableSn' /\ Held[0] = TableSn
         /\ Part(1) => Held[1] = {Head(giftWire).gifts[k].sn : k \in DOMAIN Head(giftWire).gifts}
         /\ Part(1) => (1 \in Starts <=> Begins(Head(giftWire).state))
         /\ Part(1) => (1 \in Stops <=> Ends(Head(giftWire).state))
         /\ ~Part(1) => Held[1] = {} /\ 1 \notin Starts
<1>1. /\ Head(giftWire) = giftWire[1] /\ 1 \in DOMAIN giftWire
      /\ Behind' \in Nat /\ Behind' >= 1 /\ Behind = Behind' + 1
      /\ \A n \in DOMAIN giftWire' :
           /\ n >= 1 /\ n < Behind'
           /\ n + 1 \in DOMAIN giftWire /\ giftWire'[n] = giftWire[n + 1]
      /\ \A n \in 1..Behind' : n \in DOMAIN giftWire' <=> n # Behind'
      /\ DOMAIN giftWire = 1..Behind'
  BY FrontGift
<1>0. Behind' \in Nat /\ Behind' >= 1 /\ Behind = Behind' + 1
  BY <1>1
<1>2. rest' = rest /\ sending' = sending
  BY DEF giftServer
<1>3. /\ \A n \in 1..Behind' : n \in GiftPlaces' /\ n + 1 \in GiftPlaces
      /\ 0 \in GiftPlaces' /\ 0 \in GiftPlaces /\ 1 \in GiftPlaces /\ 1 # Behind /\ 1 # 0
  <2>1. GiftPlaces' = 0..Behind' /\ GiftPlaces = 0..(Behind' + 1)
    BY <1>1 DEF GiftPlaces
  <2>2. ASSUME NEW z \in Nat, z >= 1
        PROVE  /\ \A n \in 1..z : n \in 0..z /\ n + 1 \in 0..(z + 1)
               /\ 0 \in 0..z /\ 0 \in 0..(z + 1) /\ 1 \in 0..(z + 1) /\ 1 # z + 1
    BY <2>2
  <2>3. PICK z \in Nat : z = Behind'
    BY <1>0
  <2>4. z >= 1 /\ Behind = z + 1
    BY <1>0, <2>3
  <2>5. GiftPlaces' = 0..z /\ GiftPlaces = 0..(z + 1)
    BY <2>1, <2>3
  <2>6. /\ \A n \in 1..z : n \in 0..z /\ n + 1 \in 0..(z + 1)
        /\ 0 \in 0..z /\ 0 \in 0..(z + 1) /\ 1 \in 0..(z + 1) /\ 1 # z + 1
    BY <2>2, <2>4
  <2>7. 1..Behind' = 1..z /\ 1 # Behind
    BY <2>3, <2>4, <2>6
  <2>8. \A n \in 1..Behind' : n \in GiftPlaces' /\ n + 1 \in GiftPlaces
    <3>1. \A n \in 1..z : n \in GiftPlaces' /\ n + 1 \in GiftPlaces
      BY <2>5, <2>6
    <3> QED
      BY <2>7, <3>1
  <2>9. 0 \in GiftPlaces' /\ 0 \in GiftPlaces /\ 1 \in GiftPlaces
    BY <2>5, <2>6
  <2> QED
    BY <2>7, <2>8, <2>9
<1>4. \A n \in DOMAIN giftWire' : Part(n)' <=> Part(n + 1)
  BY <1>1 DEF Part
<1>5. ASSUME NEW n \in 1..Behind'
      PROVE  /\ Held'[n] = Held[n + 1]
             /\ n \in Starts' <=> n + 1 \in Starts
             /\ n \in Stops' <=> n + 1 \in Stops
  <2>1. n \in GiftPlaces' /\ n + 1 \in GiftPlaces /\ n # 0 /\ n + 1 # 0
    BY <1>3, <1>5
  <2>2. CASE n = Behind'
    <3>1. n + 1 = Behind /\ n \notin DOMAIN giftWire' /\ n + 1 \notin DOMAIN giftWire
      <4>1. n + 1 \notin 1..Behind'
        <5>1. PICK z \in Nat : z = Behind'
          BY <1>0
        <5>2. z + 1 \notin 1..z
          OBVIOUS
        <5> QED
          BY <2>2, <5>1, <5>2
      <4> QED
        BY <1>1, <2>2, <4>1
    <3>0. ~Part(n)' /\ ~Part(n + 1)
      BY <3>1 DEF Part
    <3>2. Held'[n] = Held[n + 1]
      BY <1>2, <2>1, <2>2, <3>1 DEF Held
    <3> QED
      BY <1>2, <2>1, <2>2, <3>0, <3>1, <3>2 DEF Starts, Stops
  <2>3. CASE n # Behind'
    <3>1. /\ n + 1 # Behind /\ n \in DOMAIN giftWire'
          /\ giftWire'[n] = giftWire[n + 1] /\ (Part(n)' <=> Part(n + 1))
      BY <1>1, <1>4, <2>3
    <3>2. Held'[n] = Held[n + 1]
      BY <2>1, <2>3, <3>1 DEF Held
    <3> QED
      BY <2>1, <2>3, <3>1, <3>2 DEF Starts, Stops
  <2> QED
    BY <2>2, <2>3
<1>6. 0 \notin Stops'
  BY <1>1 DEF Stops, Part
<1>7. Held'[0] = TableSn' /\ Held[0] = TableSn
  BY <1>3 DEF Held
<1>8. /\ Part(1) => Held[1] = {Head(giftWire).gifts[k].sn : k \in DOMAIN Head(giftWire).gifts}
      /\ ~Part(1) => Held[1] = {}
  BY <1>1, <1>3 DEF Held
<1>9. /\ Part(1) => (1 \in Starts <=> Begins(Head(giftWire).state))
      /\ Part(1) => (1 \in Stops <=> Ends(Head(giftWire).state))
      /\ ~Part(1) => 1 \notin Starts
  BY <1>1, <1>3 DEF Starts, Stops
<1> QED
  BY <1>4, <1>5, <1>6, <1>7, <1>8, <1>9

\* A handler that enters what its packet holds, and nothing else, keeps lists whole.
LEMMA ReadLists ==
  ASSUME GiftInv, NEW t, GiftReceive(t), UNCHANGED giftServer,
         TableSn' = IF 1 \in Starts THEN Held[1] ELSE Held[0] \cup Held[1]
  PROVE  /\ Apart(Held', Starts', Behind') /\ WholeList'
         /\ \A n \in DOMAIN giftWire' : Part(n)' => Distinct(giftWire'[n].gifts)
         /\ \A n \in 1..Behind' : SameList(Starts', 0, n) <=> SameList(Starts, 1, n + 1)
         /\ \A n \in 1..Behind' :
              SameList(Starts, 0, n + 1) <=> 1 \notin Starts /\ SameList(Starts, 1, n + 1)
<1>1. /\ Behind' \in Nat /\ Behind' >= 1 /\ Behind = Behind' + 1
      /\ \A n \in DOMAIN giftWire' :
              n + 1 \in DOMAIN giftWire /\ giftWire'[n] = giftWire[n + 1]
  BY FrontGift DEF GiftInv
<1>2. /\ \A n \in 1..Behind' : Held'[n] = Held[n + 1]
      /\ \A n \in 1..Behind' : n \in Starts' <=> n + 1 \in Starts
      /\ \A n \in 1..Behind' : n \in Stops' <=> n + 1 \in Stops
      /\ \A n \in DOMAIN giftWire' : Part(n)' <=> Part(n + 1)
      /\ 0 \notin Stops'
      /\ Held'[0] = TableSn'
  BY ReadPlaces DEF GiftInv
<1>3. /\ Apart(Held, Starts, Behind' + 1) /\ Closed(Held, Starts, Stops, Behind' + 1)
      /\ listed # {} => Whole(Held, Starts, Behind' + 1, listed)
      /\ sending = "no" => rest = <<>>
  BY <1>1 DEF GiftInv, OnceEach, WholeList
<1>4. Held'[0] = IF 1 \in Starts THEN Held[1] ELSE Held[0] \cup Held[1]
  BY <1>2
<1>5. /\ Apart(Held', Starts', Behind') /\ Closed(Held', Starts', Stops', Behind')
      /\ Whole(Held, Starts, Behind' + 1, listed) => Whole(Held', Starts', Behind', listed)
  BY <1>1, <1>2, <1>3, <1>4, Pour
<1>6. WholeList'
  <2>1. Within(Held, Starts, Behind' + 1, Fitting)
    BY <1>1 DEF GiftInv, WholeList, Fitting
  <2>2. Within(Held', Starts', Behind', Fitting)
    BY <1>1, <1>2, <1>4, <2>1, PourWithin
  <2> QED
    BY <1>3, <1>5, <2>2 DEF WholeList, giftServer, Fitting
<1>7. \A n \in DOMAIN giftWire' : Part(n)' => Distinct(giftWire'[n].gifts)
  BY <1>1, <1>2 DEF GiftInv, OnceEach
<1>8. \A n \in 1..Behind' : SameList(Starts', 0, n) <=> SameList(Starts, 1, n + 1)
  <2> SUFFICES ASSUME NEW n \in 1..Behind'
               PROVE  SameList(Starts', 0, n) <=> SameList(Starts, 1, n + 1)
    OBVIOUS
  <2>1. 0 \in 0..Behind' /\ n \in 0..Behind' /\ 0 + 1 = 1
    BY <1>1
  <2>2. SameList(Starts', 0, n) <=> SameList(Starts, 0 + 1, n + 1)
    BY <1>1, <1>2, <2>1, MoveSame
  <2> QED
    BY <2>1, <2>2
<1>9. \A n \in 1..Behind' :
        SameList(Starts, 0, n + 1) <=> 1 \notin Starts /\ SameList(Starts, 1, n + 1)
  <2> SUFFICES ASSUME NEW n \in 1..Behind'
               PROVE  SameList(Starts, 0, n + 1)
                        <=> 1 \notin Starts /\ SameList(Starts, 1, n + 1)
    OBVIOUS
  <2>1. 0 \in Nat /\ n + 1 \in Nat /\ 0 < n + 1 /\ 0 + 1 = 1
    BY <1>1
  <2>2. SameList(Starts, 0, n + 1)
          <=> 0 + 1 \notin Starts /\ SameList(Starts, 0 + 1, n + 1)
    BY <2>1, SameSplit
  <2> QED
    BY <2>1, <2>2
<1> QED
  BY <1>5, <1>6, <1>7, <1>8, <1>9

\* Deletions on the way move up with the rest of the wire.
LEMMA ReadDeletions ==
  ASSUME GiftTypeOK, NEW t, GiftReceive(t)
  PROVE  /\ \A n \in Nat : \A g : DeletedBehind(n + 1, g) => DeletedBehind(n, g)'
         /\ \A g : DeletedBehind(0, g) =>
              \/ DeletedBehind(0, g)'
              \/ t = "Deleted" /\ Head(giftWire).sn = g
<1>1. /\ Head(giftWire) = giftWire[1] /\ Head(giftWire).type = t
      /\ \A n \in DOMAIN giftWire : n = 1 \/ n - 1 \in DOMAIN giftWire'
      /\ \A n \in DOMAIN giftWire' : giftWire'[n] = giftWire[n + 1]
      /\ \A n \in DOMAIN giftWire : n \in Nat
  BY FrontGift
<1>2. ASSUME NEW n \in Nat, NEW g, NEW m \in DOMAIN giftWire, m > n, m # 1,
             giftWire[m].type = "Deleted", giftWire[m].sn = g
      PROVE  \E k \in DOMAIN giftWire' :
               k >= n /\ k + 1 = m /\ giftWire'[k].type = "Deleted" /\ giftWire'[k].sn = g
  <2>1. m - 1 \in DOMAIN giftWire' /\ m - 1 >= n /\ (m - 1) + 1 = m
    BY <1>1, <1>2
  <2> QED
    BY <1>1, <1>2, <2>1
<1>3. ASSUME NEW n \in Nat, NEW g, DeletedBehind(n + 1, g) PROVE DeletedBehind(n, g)'
  <2>1. PICK m \in DOMAIN giftWire :
               m > n + 1 /\ giftWire[m].type = "Deleted" /\ giftWire[m].sn = g
    BY <1>3 DEF DeletedBehind
  <2>2. m # 1 /\ m > n
    BY <1>1, <2>1
  <2>3. PICK k \in DOMAIN giftWire' :
               k + 1 = m /\ giftWire'[k].type = "Deleted" /\ giftWire'[k].sn = g
    BY <1>2, <2>1, <2>2
  <2>4. k > n
    BY <1>1, <2>1, <2>3, FrontGift
  <2> QED
    BY <2>3, <2>4 DEF DeletedBehind
<1>4. ASSUME NEW g, DeletedBehind(0, g), ~(t = "Deleted" /\ Head(giftWire).sn = g)
      PROVE  DeletedBehind(0, g)'
  <2>1. PICK m \in DOMAIN giftWire :
               m > 0 /\ giftWire[m].type = "Deleted" /\ giftWire[m].sn = g
    BY <1>4 DEF DeletedBehind
  <2>2. m # 1
    BY <1>1, <1>4, <2>1
  <2>3. PICK k \in DOMAIN giftWire' :
               k + 1 = m /\ giftWire'[k].type = "Deleted" /\ giftWire'[k].sn = g
    BY <1>2, <2>1, <2>2, 0 \in Nat
  <2>4. k > 0
    BY <2>3, FrontGift
  <2> QED
    BY <2>3, <2>4 DEF DeletedBehind
<1> QED
  BY <1>3, <1>4

LEMMA Further ==
  ASSUME GiftTypeOK, NEW t, GiftReceive(t)
  PROVE  \A n \in 1..Behind' : n \in Nat /\ n + 1 \in 1..Behind
<1>1. PICK z \in Nat : z = Behind'
  BY FrontGift
<1>2. Behind = z + 1
  BY <1>1, FrontGift
<1>3. \A n \in 1..z : n \in Nat /\ n + 1 \in 1..(z + 1)
  OBVIOUS
<1> QED
  BY <1>1, <1>2, <1>3

\* A packet that is no part of a list, and leaves the table as it is but for a
\* mark: lists, once each and the offset.
LEMMA ReadOther ==
  ASSUME GiftInv, NEW t, t # "List", GiftReceive(t), UNCHANGED giftServer,
         UNCHANGED <<gift_count, gift_offset>>,
         \A i \in 0..(gift_count - 1) : gifts'[i].sn = gifts[i].sn
  PROVE  OnceEach' /\ WholeList' /\ OffsetAtEnd'
<1>1. ~Part(1)
  BY FrontGift DEF GiftInv, Part
<1>2. 1 \notin Starts /\ Held[1] = {} /\ Held'[0] = TableSn' /\ Held[0] = TableSn
  BY <1>1, ReadPlaces DEF GiftInv
<1>3. TableSn' = TableSn
  BY DEF TableSn
<1>4. /\ Apart(Held', Starts', Behind') /\ WholeList'
      /\ \A n \in DOMAIN giftWire' : Part(n)' => Distinct(giftWire'[n].gifts)
      /\ \A n \in 1..Behind' : SameList(Starts', 0, n) <=> SameList(Starts, 1, n + 1)
      /\ \A n \in 1..Behind' :
           SameList(Starts, 0, n + 1) <=> 1 \notin Starts /\ SameList(Starts, 1, n + 1)
  BY <1>2, <1>3, ReadLists
<1>5. OnceEach'
  BY <1>4 DEF GiftInv, OnceEach, giftServer
<1>6. OffsetAtEnd'
  <2> SUFFICES ASSUME NEW n \in 1..Behind', SameList(Starts', 0, n), Held'[n] # {}
               PROVE  gift_offset' = gift_count'
    BY DEF OffsetAtEnd
  <2>1. SameList(Starts, 0, n + 1) /\ Held[n + 1] # {}
    BY <1>2, <1>4, ReadPlaces DEF GiftInv
  <2>2. n + 1 \in 1..Behind
    BY Further DEF GiftInv
  <2> QED
    BY <2>1, <2>2 DEF GiftInv, OffsetAtEnd
<1> QED
  BY <1>4, <1>5, <1>6

\* What is on the wire about gifts that are gone, when the front packet is read.
LEMMA ReadMarks ==
  ASSUME GiftInv, NEW t, GiftReceive(t), UNCHANGED giftServer
  PROVE  /\ \A n \in 1..Behind', g \in Gifts :
              g \in Held'[n] => InBox(g)' \/ DeletedBehind(n, g)'
         /\ \A n \in DOMAIN giftWire' :
              giftWire'[n].type = "Deleted" => box'[giftWire'[n].sn] = GONE
         /\ \A g : InBox(g)' <=> InBox(g)
         /\ \A g : DeletedBehind(0, g) =>
              DeletedBehind(0, g)' \/ (t = "Deleted" /\ Head(giftWire).sn = g)
<1>1. \A n \in DOMAIN giftWire' :
        n + 1 \in DOMAIN giftWire /\ giftWire'[n] = giftWire[n + 1]
  BY FrontGift DEF GiftInv
<1>2. box' = box /\ \A g : InBox(g)' <=> InBox(g)
  BY DEF giftServer, InBox
<1>3. \A n \in 1..Behind' : n \in Nat /\ n + 1 \in 1..Behind
  BY Further DEF GiftInv
<1>4. \A n \in Nat : \A g : DeletedBehind(n + 1, g) => DeletedBehind(n, g)'
  BY ReadDeletions DEF GiftInv
<1>5. ASSUME NEW n \in 1..Behind', NEW g \in Gifts, g \in Held'[n]
      PROVE  InBox(g)' \/ DeletedBehind(n, g)'
  <2>1. g \in Held[n + 1]
    BY <1>5, ReadPlaces DEF GiftInv
  <2>2. InBox(g) \/ DeletedBehind(n + 1, g)
    BY <1>3, <2>1 DEF GiftInv, Marks
  <2> QED
    BY <1>2, <1>3, <1>4, <2>2
<1>6. \A n \in DOMAIN giftWire' :
        giftWire'[n].type = "Deleted" => box'[giftWire'[n].sn] = GONE
  BY <1>1, <1>2 DEF GiftInv, Marks
<1>7. \A g : DeletedBehind(0, g) =>
        DeletedBehind(0, g)' \/ (t = "Deleted" /\ Head(giftWire).sn = g)
  BY ReadDeletions DEF GiftInv
<1> QED
  BY <1>2, <1>5, <1>6, <1>7

GiftReads(t) ==
  /\ GiftReceive(t) /\ UNCHANGED giftServer
  /\ giftRequests' \in Seq(GiftRequestType) /\ gift_state' \in GiftStates

LEMMA ReadTypes ==
  ASSUME GiftTypeOK, NEW t, GiftReads(t),
         gifts' \in [Slot -> EntryType],
         gift_count' \in 0..GIFT_SLOTS, gift_offset' \in 0..gift_count',
         unopened_gift_count' \in 0..gift_count'
  PROVE  GiftTypeOK'
<1>1. giftWire' \in Seq(GiftPacketType)
  BY FrontGift DEF GiftReads
<1> QED
  BY <1>1 DEF GiftReads, GiftTypeOK, giftServer

\* Packets about something else, and the replies to openings.
LEMMA QuietRead ==
  ASSUME GiftInv, NEW t, t \notin {"List", "Deleted"}, GiftReads(t), UNCHANGED giftTable
  PROVE  GiftInv'
<1>1. GiftReceive(t) /\ UNCHANGED giftServer /\ GiftTypeOK
  BY DEF GiftReads, GiftInv
<1>2. OnceEach' /\ WholeList' /\ OffsetAtEnd'
  BY <1>1, ReadOther DEF giftTable
<1>3. GiftTypeOK'
  BY <1>1, ReadTypes DEF giftTable, GiftTypeOK
<1>4. Marks'
  <2>1. gifts' = gifts /\ gift_count' = gift_count /\ box' = box
    BY <1>1 DEF giftTable, giftServer
  <2>2. \A g : (InBox(g)' <=> InBox(g)) /\ (DeletedBehind(0, g) => DeletedBehind(0, g)')
    BY <1>1, ReadMarks
  <2>3. \A i \in 0..(gift_count' - 1) : gifts'[i].sn \in Gifts
    BY <2>1 DEF GiftInv, Marks
  <2>4. \A i \in 0..(gift_count' - 1), g \in Gifts : gifts'[i].sn = g =>
          IF gifts'[i].status = GIFT_DELETED
            THEN box'[g] = GONE ELSE InBox(g)' \/ DeletedBehind(0, g)'
    BY <2>1, <2>2 DEF GiftInv, Marks
  <2> QED
    BY <1>1, <2>3, <2>4, ReadMarks DEF Marks
<1> QED
  BY <1>2, <1>3, <1>4 DEF GiftInv

\* A deletion marks the one slot that has the gift.
LEMMA MarksOne ==
  ASSUME GiftInv, NEW g
  PROVE  /\ Marked(g) \in [Slot -> EntryType]
         /\ \A i \in Slot : Marked(g)[i].sn = gifts[i].sn
         /\ \A i \in 0..(gift_count - 1) :
              /\ i \in Slot
              /\ gifts[i].sn = g => Marked(g)[i].status = GIFT_DELETED
              /\ gifts[i].sn # g => Marked(g)[i] = gifts[i]
<1>1. gifts \in [Slot -> EntryType] /\ gift_count \in 0..GIFT_SLOTS /\ GIFT_SLOTS \in Nat
  BY GiftAssumption DEF GiftInv, GiftTypeOK
<1>2. \A i \in Slot : Marked(g)[i] = IF i \in Slots(g) /\ \A j \in Slots(g) : i <= j
                    THEN [gifts[i] EXCEPT !.status = GIFT_DELETED] ELSE gifts[i]
  BY DEF Marked
<1>3. \A i \in Slot : [gifts[i] EXCEPT !.status = GIFT_DELETED] \in EntryType
                      /\ [gifts[i] EXCEPT !.status = GIFT_DELETED].sn = gifts[i].sn
                      /\ [gifts[i] EXCEPT !.status = GIFT_DELETED].status = GIFT_DELETED
  BY <1>1 DEF EntryType
<1>4. Marked(g) \in [Slot -> EntryType]
  <2>1. \A i \in Slot : Marked(g)[i] \in EntryType
    BY <1>1, <1>2, <1>3
  <2> QED
    BY <2>1 DEF Marked
<1>5. \A i \in Slot : Marked(g)[i].sn = gifts[i].sn
  BY <1>2, <1>3
<1>6. \A i \in 0..(gift_count - 1) : i \in Slot
  BY <1>1 DEF Slot
<1>7. ASSUME NEW i \in 0..(gift_count - 1), gifts[i].sn = g
      PROVE  Marked(g)[i].status = GIFT_DELETED
  <2>1. i \in Slots(g)
    BY <1>1, <1>6, <1>7 DEF Slots
  <2>2. ASSUME NEW j \in Slots(g) PROVE i <= j
    <3>1. j \in 0..(gift_count - 1) /\ gifts[j].sn = g
      BY <1>1 DEF Slots, Slot
    <3>2. i = j
      BY <1>7, <3>1 DEF GiftInv, OnceEach
    <3> QED
      BY <1>7, <3>2
  <2> QED
    BY <1>2, <1>3, <1>6, <2>1, <2>2
<1>8. \A i \in 0..(gift_count - 1) : gifts[i].sn # g => Marked(g)[i] = gifts[i]
  BY <1>2, <1>6 DEF Slots
<1> QED
  BY <1>4, <1>5, <1>6, <1>7, <1>8

LEMMA DeletedRead ==
  ASSUME GiftInv, RecvDeleteAllianceGiftBox
  PROVE  GiftInv'
<1> DEFINE d == Head(giftWire).sn
<1>1. /\ GiftReceive("Deleted") /\ gifts' = Marked(d) /\ UNCHANGED giftServer
      /\ gift_count' = gift_count /\ gift_offset' = gift_offset
      /\ unopened_gift_count' = unopened_gift_count
      /\ GiftReads("Deleted") /\ GiftTypeOK
  BY DEF RecvDeleteAllianceGiftBox, GiftReads, GiftInv, GiftTypeOK, GiftStates
<1>2. PICK g : g = d
  OBVIOUS
<1>3. /\ gifts' \in [Slot -> EntryType]
      /\ \A i \in Slot : gifts'[i].sn = gifts[i].sn
      /\ \A i \in 0..(gift_count - 1) :
           /\ i \in Slot
           /\ gifts[i].sn = g => gifts'[i].status = GIFT_DELETED
           /\ gifts[i].sn # g => gifts'[i] = gifts[i]
  BY <1>1, <1>2, MarksOne
<1>4. OnceEach' /\ WholeList' /\ OffsetAtEnd'
  BY <1>1, <1>3, ReadOther
<1>5. GiftTypeOK'
  BY <1>1, <1>3, ReadTypes DEF GiftTypeOK
<1>6. box[g] = GONE
  BY <1>1, <1>2, FrontGift DEF GiftInv, Marks
<1>7. Marks'
  <2>1. /\ box' = box /\ 0..(gift_count' - 1) = 0..(gift_count - 1)
        /\ \A i \in 0..(gift_count - 1) : gifts'[i].sn = gifts[i].sn
    BY <1>1, <1>3 DEF giftServer
  <2>2. \A h : (InBox(h)' <=> InBox(h)) /\ (h # g /\ DeletedBehind(0, h) => DeletedBehind(0, h)')
    BY <1>1, <1>2, ReadMarks
  <2>3. \A i \in 0..(gift_count' - 1) : gifts'[i].sn \in Gifts
    BY <2>1 DEF GiftInv, Marks
  <2>4. ASSUME NEW i \in 0..(gift_count' - 1), NEW h \in Gifts, gifts'[i].sn = h
        PROVE  IF gifts'[i].status = GIFT_DELETED
                 THEN box'[h] = GONE ELSE InBox(h)' \/ DeletedBehind(0, h)'
    <3>1. i \in 0..(gift_count - 1) /\ gifts[i].sn = h
      BY <2>1, <2>4
    <3>2. CASE h = g
      BY <1>3, <1>6, <2>1, <3>1, <3>2
    <3>3. CASE h # g
      <4>1. gifts'[i] = gifts[i]
        BY <1>3, <3>1, <3>3
      <4>2. IF gifts[i].status = GIFT_DELETED
              THEN box[h] = GONE ELSE InBox(h) \/ DeletedBehind(0, h)
        BY <3>1 DEF GiftInv, Marks
      <4> QED
        BY <2>1, <2>2, <3>3, <4>1, <4>2
    <3> QED
      BY <3>2, <3>3
  <2> QED
    BY <1>1, <2>3, <2>4, ReadMarks DEF Marks
<1> QED
  BY <1>4, <1>5, <1>7 DEF GiftInv

\* An empty part is dropped.
LEMMA EmptyRead ==
  ASSUME GiftInv, GiftReads("List"), UNCHANGED giftTable, Head(giftWire).gifts = <<>>
  PROVE  GiftInv'
<1>1. GiftReceive("List") /\ UNCHANGED giftServer /\ GiftTypeOK
  BY DEF GiftReads, GiftInv
<1>2. ~Part(1)
  BY <1>1, FrontGift DEF Part
<1>3. 1 \notin Starts /\ Held[1] = {} /\ Held'[0] = TableSn' /\ Held[0] = TableSn
  BY <1>1, <1>2, ReadPlaces
<1>4. /\ gifts' = gifts /\ gift_count' = gift_count /\ gift_offset' = gift_offset
      /\ box' = box /\ rest' = rest
  BY <1>1 DEF giftTable, giftServer
<1>5. TableSn' = TableSn
  BY <1>4 DEF TableSn
<1>6. /\ Apart(Held', Starts', Behind') /\ WholeList'
      /\ \A n \in DOMAIN giftWire' : Part(n)' => Distinct(giftWire'[n].gifts)
      /\ \A n \in 1..Behind' : SameList(Starts', 0, n) <=> SameList(Starts, 1, n + 1)
      /\ \A n \in 1..Behind' :
           SameList(Starts, 0, n + 1) <=> 1 \notin Starts /\ SameList(Starts, 1, n + 1)
  BY <1>1, <1>3, <1>5, ReadLists
<1>7. OnceEach'
  BY <1>4, <1>6 DEF GiftInv, OnceEach
<1>8. OffsetAtEnd'
  <2> SUFFICES ASSUME NEW n \in 1..Behind', SameList(Starts', 0, n), Held'[n] # {}
               PROVE  gift_offset' = gift_count'
    BY DEF OffsetAtEnd
  <2>1. SameList(Starts, 0, n + 1) /\ Held[n + 1] # {} /\ n + 1 \in 1..Behind
    BY <1>1, <1>3, <1>6, ReadPlaces, Further
  <2> QED
    BY <1>4, <2>1 DEF GiftInv, OffsetAtEnd
<1>9. GiftTypeOK'
  BY <1>1, <1>4, ReadTypes DEF giftTable, GiftTypeOK
<1>10. Marks'
  <2>1. \A g : (InBox(g)' <=> InBox(g)) /\ (DeletedBehind(0, g) => DeletedBehind(0, g)')
    BY <1>1, ReadMarks
  <2>2. \A i \in 0..(gift_count' - 1) : gifts'[i].sn \in Gifts
    BY <1>4 DEF GiftInv, Marks
  <2>3. \A i \in 0..(gift_count' - 1), g \in Gifts : gifts'[i].sn = g =>
          IF gifts'[i].status = GIFT_DELETED
            THEN box'[g] = GONE ELSE InBox(g)' \/ DeletedBehind(0, g)'
    BY <1>4, <2>1 DEF GiftInv, Marks
  <2> QED
    BY <1>1, <2>2, <2>3, ReadMarks DEF Marks
<1> QED
  BY <1>6, <1>7, <1>8, <1>9, <1>10 DEF GiftInv

LEMMA UnopenedFits ==
  ASSUME NEW list \in Seq(PartType)
  PROVE  Unopened(list) \in 0..Len(list)
<1>1. /\ IsFiniteSet(DOMAIN list) /\ Cardinality(DOMAIN list) = Len(list) /\ Len(list) \in Nat
  <2>1. DOMAIN list = 1..Len(list) /\ Len(list) \in Nat
    OBVIOUS
  <2> QED
    BY <2>1, FS_Interval
<1>2. {n \in DOMAIN list : list[n].status = GIFT_NEW} \subseteq DOMAIN list
  OBVIOUS
<1>3. /\ Unopened(list) <= Len(list)
      /\ Unopened(list) \in Nat
  BY <1>1, <1>2, FS_Subset, FS_CardinalityType DEF Unopened
<1> QED
  BY <1>1, <1>3

\* A part with gifts: where they go.
LEMMA PartRead ==
  ASSUME GiftInv, RecvAllianceGiftInfo, Head(giftWire).gifts # <<>>
  PROVE  GiftInv'
<1> DEFINE front == Head(giftWire)
<1>1. /\ GiftReceive("List") /\ UNCHANGED giftServer /\ GiftTypeOK /\ GiftReads("List")
  BY DEF RecvAllianceGiftInfo, GiftReads, GiftInv, GiftTypeOK
<1>2. PICK m : m = Head(giftWire)
  OBVIOUS
<1>3. PICK list : list = m.gifts
  OBVIOUS
<1>4. /\ m \in GiftPacketType /\ m.type = "List" /\ m = giftWire[1] /\ 1 \in DOMAIN giftWire
      /\ list # <<>>
  BY <1>1, <1>2, <1>3, FrontGift
<1>5. list \in Seq(PartType)
  BY <1>3, <1>4 DEF GiftPacketType
<1>6. PICK k \in Nat : k = Len(list)
  BY <1>5
<1>7. k >= 1 /\ DOMAIN list = 1..k /\ \A n \in 1..k : list[n] \in PartType
  BY <1>4, <1>5, <1>6
<1>8. PICK base : base = IF Begins(m.state) THEN 0 ELSE gift_offset
  OBVIOUS
<1>9. PICK kept : kept = IF Begins(m.state) THEN 0 ELSE gift_count
  OBVIOUS
<1>10. Part(1)
  BY <1>3, <1>4 DEF Part
<1>11. /\ Held[1] = {list[n].sn : n \in 1..k} /\ Held[0] = TableSn /\ Held'[0] = TableSn'
       /\ 1 \in Starts <=> Begins(m.state)
       /\ 1 \in Stops <=> Ends(m.state)
  BY <1>1, <1>2, <1>3, <1>7, <1>10, ReadPlaces
<1>12. /\ gift_count \in Nat /\ gift_count <= GIFT_SLOTS /\ GIFT_SLOTS \in Nat
       /\ unopened_gift_count \in 0..gift_count /\ gifts \in [Slot -> EntryType]
  BY <1>1, GiftAssumption DEF GiftTypeOK
<1>13. base = kept /\ base \in Nat /\ base <= gift_count
  <2>1. CASE Begins(m.state)
    BY <1>8, <1>9, <1>12, <2>1
  <2>2. CASE ~Begins(m.state)
    <3>1. 1 \in 1..Behind /\ 1 \notin Starts
      BY <1>1, <1>11, <2>2, FrontGift
    <3>2. SameList(Starts, 0, 1)
      BY <3>1 DEF SameList
    <3>3. list[1].sn \in Held[1]
      BY <1>7, <1>11
    <3>4. gift_offset = gift_count
      BY <3>1, <3>2, <3>3 DEF GiftInv, OffsetAtEnd
    <3> QED
      BY <1>8, <1>9, <1>12, <2>2, <3>4
  <2> QED
    BY <2>1, <2>2
<1>14. /\ gift_count' = base + k
       /\ gifts' = Written(list, base)
       /\ unopened_gift_count' =
            Unopened(list) + IF Begins(m.state) THEN 0 ELSE unopened_gift_count
       /\ gift_offset' = IF Ends(m.state) THEN 0 ELSE base + k
  <2>1. Len(m.gifts) # 0 /\ Len(m.gifts) = k
    BY <1>3, <1>6, <1>7
  <2>2. gift_count' = Len(m.gifts) + IF Begins(m.state) THEN 0 ELSE gift_count
    BY <1>2, <2>1 DEF RecvAllianceGiftInfo
  <2>3. gifts' = Written(m.gifts, IF Begins(m.state) THEN 0 ELSE gift_offset)
    BY <1>2, <2>1 DEF RecvAllianceGiftInfo
  <2>4. unopened_gift_count' =
            Unopened(m.gifts) + IF Begins(m.state) THEN 0 ELSE unopened_gift_count
    BY <1>2, <2>1 DEF RecvAllianceGiftInfo
  <2>5. gift_offset' = IF Ends(m.state) THEN 0
          ELSE (IF Begins(m.state) THEN 0 ELSE gift_offset) + Len(m.gifts)
    BY <1>2, <2>1 DEF RecvAllianceGiftInfo
  <2>6. gift_count' = k + kept
    BY <1>9, <2>1, <2>2
  <2> QED
    BY <1>3, <1>6, <1>8, <1>13, <2>1, <2>3, <2>4, <2>5, <2>6
<1> DEFINE f == [i \in 0..(base + k - 1) |-> IF i < base THEN gifts[i].sn
                                                         ELSE list[i - base + 1].sn]
<1>15. /\ \A i \in 0..(base + k - 1) : i >= base => i - base + 1 \in 1..k
       /\ \A i \in 0..(base + k - 1) : i < base => i \in 0..(gift_count - 1)
  BY <1>6, <1>12, <1>13
<1>16. \A i \in 0..(base + k - 1) : i < base => 1 \notin Starts /\ f[i] \in Held[0]
  <2>1. \A i \in 0..(base + k - 1) : i < base => ~Begins(m.state)
    BY <1>8, <1>6
  <2> QED
    BY <1>11, <1>15, <2>1 DEF TableSn
<1>17. \A i \in 0..(base + k - 1) : i >= base => f[i] \in Held[1]
  BY <1>11, <1>13, <1>15
<1>18. 1 \notin Starts => Held[0] \cap Held[1] = {}
  <2> SUFFICES ASSUME 1 \notin Starts PROVE Held[0] \cap Held[1] = {}
    OBVIOUS
  <2>1. 0 \in 0..Behind /\ 1 \in 0..Behind
    BY <1>1, FrontGift
  <2>2. SameList(Starts, 0, 1)
    BY DEF SameList
  <2> QED
    BY <2>1, <2>2 DEF GiftInv, OnceEach, Apart
<1>19. \A i, j \in 0..(base + k - 1) : f[i] = f[j] => i = j
  <2> SUFFICES ASSUME NEW i \in 0..(base + k - 1), NEW j \in 0..(base + k - 1), f[i] = f[j]
               PROVE  i = j
    OBVIOUS
  <2>1. CASE i < base /\ j < base
    <3>1. gifts[i].sn = gifts[j].sn /\ i \in 0..(gift_count - 1) /\ j \in 0..(gift_count - 1)
      BY <1>15, <2>1
    <3> QED
      BY <3>1 DEF GiftInv, OnceEach
  <2>2. CASE i >= base /\ j >= base
    <3>1. PICK p \in 1..k : p = i - base + 1
      BY <1>15, <2>2
    <3>2. PICK q \in 1..k : q = j - base + 1
      BY <1>15, <2>2
    <3>3. list[p].sn = list[q].sn
      BY <1>13, <2>2, <3>1, <3>2
    <3>4. p = q
      BY <1>3, <1>4, <1>7, <1>10, <3>3 DEF GiftInv, OnceEach, Distinct
    <3> QED
      BY <1>6, <1>13, <3>1, <3>2, <3>4
  <2>3. CASE i < base /\ j >= base
    BY <1>16, <1>17, <1>18, <2>3
  <2>4. CASE i >= base /\ j < base
    BY <1>16, <1>17, <1>18, <2>4
  <2> QED
    BY <1>6, <1>13, <2>1, <2>2, <2>3, <2>4
<1>20. PICK S \in Fitting : \A i \in 0..(base + k - 1) : f[i] \in S
  <2>1. 1 \in 0..Behind /\ 0 \in 0..1 /\ 1 \in 0..1
    BY <1>1, FrontGift
  <2>2. PICK S \in Fitting : \A n \in 0..1 : SameList(Starts, n, 1) => Held[n] \subseteq S
    BY <2>1 DEF GiftInv, WholeList, Within, Fitting
  <2>3. SameList(Starts, 1, 1) /\ (1 \notin Starts => SameList(Starts, 0, 1))
    BY DEF SameList
  <2>4. Held[1] \subseteq S /\ (1 \notin Starts => Held[0] \subseteq S)
    BY <2>1, <2>2, <2>3
  <2> HIDE DEF f
  <2>5. \A i \in 0..(base + k - 1) : f[i] \in S
    BY <1>6, <1>13, <1>16, <1>17, <2>4
  <2> QED
    BY <2>5
<1>21. base + k <= GIFT_SLOTS
  <2>1. f \in [0..(base + k - 1) -> S] /\ base + k \in Nat
    BY <1>6, <1>13, <1>20
  <2>2. IsFiniteSet(S) /\ Cardinality(S) \in Nat /\ Cardinality(S) <= GIFT_SLOTS
    BY <1>20, GiftAssumption, FS_Subset, FS_CardinalityType DEF Fitting
  <2>3. base + k <= Cardinality(S)
    <3>1. PICK n \in Nat : n = base + k
      BY <2>1
    <3> HIDE DEF f
    <3>0. 0..(n - 1) = 0..(base + k - 1)
      BY <1>6, <1>13, <3>1
    <3>2. f \in [0..(n - 1) -> S] /\ \A i, j \in 0..(n - 1) : f[i] = f[j] => i = j
      BY <1>19, <2>1, <3>0
    <3>3. n <= Cardinality(S)
      BY <2>2, <3>2, NoLonger
    <3> QED
      BY <3>1, <3>3
  <2> QED
    BY <1>12, <2>1, <2>2, <2>3
<1>22. \A i \in 0..(base + k - 1) :
         /\ i \in Slot /\ gifts'[i].sn = f[i]
         /\ i < base => gifts'[i] = gifts[i]
         /\ i >= base => gifts'[i] = list[i - base + 1]
  <2>1. \A i \in 0..(base + k - 1) : i \in Slot
    BY <1>6, <1>12, <1>13, <1>21 DEF Slot
  <2>2. \A i \in Slot : Written(list, base)[i] =
          IF i >= base /\ i < base + k THEN list[i - base + 1] ELSE gifts[i]
    BY <1>6 DEF Written
  <2>3. \A i \in 0..(base + k - 1) :
          /\ i < base => gifts'[i] = gifts[i]
          /\ i >= base => gifts'[i] = list[i - base + 1]
    BY <1>6, <1>13, <1>14, <2>1, <2>2
  <2> QED
    BY <1>6, <1>13, <2>1, <2>3
<1> HIDE DEF f
<1>23. TableSn' = IF 1 \in Starts THEN Held[1] ELSE Held[0] \cup Held[1]
  <2>1. TableSn' = {f[i] : i \in 0..(base + k - 1)}
    BY <1>6, <1>13, <1>14, <1>22 DEF TableSn
  <2>2. Held[1] \subseteq TableSn'
    <3> SUFFICES ASSUME NEW n \in 1..k PROVE list[n].sn \in TableSn'
      BY <1>11
    <3>1. PICK i \in 0..(base + k - 1) : i = base + n - 1 /\ i >= base /\ i - base + 1 = n
      BY <1>6, <1>13
    <3>2. f[i] = list[n].sn
      BY <1>22, <3>1
    <3> QED
      BY <2>1, <3>2
  <2>3. ASSUME 1 \notin Starts PROVE Held[0] \subseteq TableSn'
    <3>1. base = gift_count
      BY <1>9, <1>11, <1>13, <2>3
    <3> SUFFICES ASSUME NEW i \in 0..(gift_count - 1) PROVE gifts[i].sn \in TableSn'
      BY <1>11 DEF TableSn
    <3>2. i \in 0..(base + k - 1) /\ i < base
      BY <1>6, <1>12, <3>1
    <3>3. f[i] = gifts[i].sn
      BY <1>22, <3>2
    <3> QED
      BY <2>1, <3>2, <3>3
  <2>4. ASSUME NEW i \in 0..(base + k - 1)
        PROVE  f[i] \in IF 1 \in Starts THEN Held[1] ELSE Held[0] \cup Held[1]
    BY <1>6, <1>13, <1>16, <1>17
  <2> QED
    BY <2>1, <2>2, <2>3, <2>4
<1>24. /\ Apart(Held', Starts', Behind') /\ WholeList'
       /\ \A n \in DOMAIN giftWire' : Part(n)' => Distinct(giftWire'[n].gifts)
       /\ \A n \in 1..Behind' : SameList(Starts', 0, n) <=> SameList(Starts, 1, n + 1)
  BY <1>1, <1>23, ReadLists
<1>25. OnceEach'
  <2>1. \A i, j \in 0..(gift_count' - 1) : gifts'[i].sn = gifts'[j].sn => i = j
    BY <1>6, <1>13, <1>14, <1>19, <1>22
  <2>2. \A i, j \in DOMAIN rest' : rest'[i] = rest'[j] => i = j
    BY <1>1 DEF GiftInv, OnceEach, giftServer
  <2> QED
    BY <1>24, <2>1, <2>2 DEF OnceEach
<1>26. OffsetAtEnd'
  <2> SUFFICES ASSUME NEW n \in 1..Behind', SameList(Starts', 0, n), Held'[n] # {}
               PROVE  gift_offset' = gift_count'
    BY DEF OffsetAtEnd
  <2>1. SameList(Starts, 1, n + 1) /\ Held[n + 1] # {} /\ n + 1 \in 1..Behind /\ n \in Nat
    BY <1>1, <1>24, ReadPlaces, Further
  <2>2. 1 \in 0..Behind /\ n + 1 \in 0..Behind /\ 1 < n + 1
    <3>1. n >= 1 /\ Behind \in Nat
      BY <1>1, FrontGift
    <3> QED
      BY <2>1, <3>1
  <2>3. 1 \notin Stops
    BY <2>1, <2>2 DEF GiftInv, WholeList, Closed
  <2> QED
    BY <1>11, <1>14, <2>3
<1>27. GiftTypeOK'
  <2>1. gifts' \in [Slot -> EntryType]
    <3>1. ASSUME NEW i \in Slot, i >= base /\ i < base + k
          PROVE  list[i - base + 1] \in EntryType
      <4>1. i - base + 1 \in 1..k
        BY <1>6, <1>13, <3>1 DEF Slot
      <4> QED
        BY <1>7, <4>1 DEF PartType, EntryType
    <3> QED
      BY <1>6, <1>12, <1>14, <3>1 DEF Written
  <2>2. gift_count' \in 0..GIFT_SLOTS /\ gift_offset' \in 0..gift_count'
    BY <1>6, <1>12, <1>13, <1>14, <1>21
  <2>3. unopened_gift_count' \in 0..gift_count'
    <3>1. Unopened(list) \in 0..k
      BY <1>5, <1>6, UnopenedFits
    <3>2. CASE Begins(m.state)
      BY <1>6, <1>13, <1>14, <3>1, <3>2
    <3>3. CASE ~Begins(m.state)
      <4>1. base = gift_count
        BY <1>9, <1>13, <3>3
      <4> QED
        BY <1>6, <1>12, <1>14, <3>1, <3>3, <4>1
    <3> QED
      BY <3>2, <3>3
  <2> QED
    BY <1>1, <2>1, <2>2, <2>3, ReadTypes
<1>28. Marks'
  <2>1. /\ \A g : InBox(g)' <=> InBox(g)
        /\ \A g : DeletedBehind(0, g) => DeletedBehind(0, g)'
        /\ box' = box
    BY <1>1, ReadMarks DEF giftServer
  <2>2. \A i \in 0..(gift_count' - 1) : gifts'[i].sn \in Gifts
    BY <1>6, <1>13, <1>14, <1>20, <1>22 DEF Fitting
  <2>3. ASSUME NEW i \in 0..(gift_count' - 1), NEW g \in Gifts, gifts'[i].sn = g
        PROVE  IF gifts'[i].status = GIFT_DELETED
                 THEN box'[g] = GONE ELSE InBox(g)' \/ DeletedBehind(0, g)'
    <3>1. i \in 0..(base + k - 1)
      BY <1>6, <1>13, <1>14
    <3>2. CASE i < base
      <4>1. gifts'[i] = gifts[i] /\ i \in 0..(gift_count - 1)
        BY <1>15, <1>22, <3>1, <3>2
      <4>2. IF gifts[i].status = GIFT_DELETED
              THEN box[g] = GONE ELSE InBox(g) \/ DeletedBehind(0, g)
        BY <2>3, <4>1 DEF GiftInv, Marks
      <4> QED
        BY <2>1, <4>1, <4>2
    <3>3. CASE i >= base
      <4>1. PICK n \in 1..k : n = i - base + 1
        BY <1>15, <3>1, <3>3
      <4>2. gifts'[i] = list[n] /\ list[n] \in PartType /\ g \in Held[1]
        BY <1>7, <1>11, <1>22, <2>3, <3>1, <3>3, <4>1
      <4>3. gifts'[i].status # GIFT_DELETED
        BY <4>2 DEF PartType, GIFT_NEW, GIFT_OPEN, GIFT_EXP, GIFT_DELETED
      <4>4. 1 \in 1..Behind
        BY <1>1, FrontGift
      <4>5. InBox(g) \/ DeletedBehind(1, g)
        BY <4>2, <4>4 DEF GiftInv, Marks
      <4>6. InBox(g)' \/ DeletedBehind(0, g)'
        BY <1>1, <2>1, <4>5, ReadDeletions, 0 \in Nat, 0 + 1 = 1
      <4> QED
        BY <4>3, <4>6
    <3> QED
      BY <1>6, <1>13, <3>1, <3>2, <3>3
  <2> QED
    BY <1>1, <2>2, <2>3, ReadMarks DEF Marks
<1> QED
  BY <1>24, <1>25, <1>26, <1>27, <1>28 DEF GiftInv

-----------------------------------------------------------------------------
\* The steps of the server.

IsPart(m) == m.type = "List" /\ m.gifts # <<>>

LEMMA BackGift ==
  ASSUME GiftTypeOK, NEW m \in GiftPacketType, GiftSend(m)
  PROVE  /\ giftWire' \in Seq(GiftPacketType)
         /\ Behind \in Nat /\ Behind >= 1 /\ Behind' = Behind + 1
         /\ DOMAIN giftWire = 1..(Behind - 1) /\ DOMAIN giftWire' = 1..Behind
         /\ \A n \in DOMAIN giftWire : n # Behind /\ giftWire'[n] = giftWire[n]
         /\ giftWire'[Behind] = m
<1>1. giftWire \in Seq(GiftPacketType) /\ giftWire' = Append(giftWire, m)
  BY DEF GiftTypeOK, GiftSend
<1>2. PICK z \in Nat : z = Len(giftWire)
  BY <1>1
<1>3. /\ DOMAIN giftWire = 1..z /\ Len(giftWire') = z + 1 /\ DOMAIN giftWire' = 1..(z + 1)
      /\ \A n \in 1..z : giftWire'[n] = giftWire[n]
      /\ giftWire'[z + 1] = m /\ giftWire' \in Seq(GiftPacketType)
  BY <1>1, <1>2
<1>4. Behind = z + 1 /\ Behind' = (z + 1) + 1
  BY <1>2, <1>3 DEF Behind
<1>5. z + 1 \in Nat /\ z + 1 >= 1 /\ 1..((z + 1) - 1) = 1..z /\ \A n \in 1..z : n # z + 1
  OBVIOUS
<1> QED
  BY <1>3, <1>4, <1>5

LEMMA SendPlaces ==
  ASSUME GiftTypeOK, NEW m \in GiftPacketType, GiftSend(m), UNCHANGED <<gifts, gift_count>>
  PROVE  /\ \A n \in 0..Behind : n # Behind => Held'[n] = Held[n]
         /\ \A n \in 0..Behind : n # Behind => (n \in Starts' <=> n \in Starts)
         /\ \A n \in 0..Behind : n # Behind => (n \in Stops' <=> n \in Stops)
         /\ Held[Behind] = {rest[k] : k \in DOMAIN rest}
         /\ Held'[Behind + 1] = {rest'[k] : k \in DOMAIN rest'}
         /\ Behind \in Starts <=> sending = "first"
         /\ Behind + 1 \in Starts' <=> sending' = "first"
         /\ IsPart(m) => /\ Held'[Behind] = {m.gifts[k].sn : k \in DOMAIN m.gifts}
                         /\ Behind \in Starts' <=> Begins(m.state)
                         /\ Behind \in Stops' <=> Ends(m.state)
         /\ ~IsPart(m) => Held'[Behind] = {} /\ Behind \notin Starts' /\ Behind \notin Stops'
         /\ \A n \in DOMAIN giftWire : Part(n)' <=> Part(n)
         /\ \A n : n = Behind => (Part(n)' <=> IsPart(m))
<1>1. PICK z \in Nat : z = Behind
  BY BackGift
<1>2. /\ z >= 1 /\ Behind' = z + 1
      /\ DOMAIN giftWire = 1..(z - 1) /\ DOMAIN giftWire' = 1..z
      /\ \A n \in DOMAIN giftWire : giftWire'[n] = giftWire[n]
      /\ giftWire'[z] = m
  BY <1>1, BackGift
<1>3. GiftPlaces = 0..z /\ GiftPlaces' = 0..(z + 1)
  BY <1>1, <1>2 DEF GiftPlaces
<1>4. /\ \A n \in 0..z : n \in 0..(z + 1) /\ n # z + 1
      /\ z \in 0..z /\ z + 1 \in 0..(z + 1) /\ z # 0 /\ z + 1 # 0
      /\ z \in 1..z /\ z \notin 1..(z - 1) /\ z + 1 \notin 1..z
      /\ \A n \in 1..(z - 1) : n \in 1..z
      /\ \A n \in 0..z : n # z /\ n \notin 1..(z - 1) => n \notin 1..z
  BY <1>2
<1>5. /\ \A n \in DOMAIN giftWire : Part(n)' <=> Part(n)
      /\ Part(z)' <=> IsPart(m)
      /\ ~Part(z) /\ ~Part(z + 1)'
  BY <1>2, <1>4 DEF Part, IsPart
<1>6. ASSUME NEW n \in 0..z, n # z
      PROVE  /\ Held'[n] = Held[n]
             /\ n \in Starts' <=> n \in Starts
             /\ n \in Stops' <=> n \in Stops
  <2>1. /\ n \in GiftPlaces /\ n \in GiftPlaces' /\ n # Behind /\ n # Behind'
    BY <1>1, <1>2, <1>3, <1>4, <1>6
  <2>2. CASE n \in 1..(z - 1)
    <3>1. giftWire'[n] = giftWire[n] /\ (Part(n)' <=> Part(n))
      BY <1>2, <1>5, <2>2
    <3>2. Held'[n] = Held[n]
      BY <2>1, <3>1 DEF Held, TableSn
    <3> QED
      BY <2>1, <3>1, <3>2 DEF Starts, Stops
  <2>3. CASE n \notin 1..(z - 1)
    <3>1. ~Part(n) /\ ~Part(n)'
      BY <1>2, <1>4, <1>6, <2>3 DEF Part
    <3>2. Held'[n] = Held[n]
      BY <2>1, <3>1 DEF Held, TableSn
    <3> QED
      BY <2>1, <3>1, <3>2 DEF Starts, Stops
  <2> QED
    BY <2>2, <2>3
<1>7. Held[z] = {rest[k] : k \in DOMAIN rest} /\ (z \in Starts <=> sending = "first")
  BY <1>1, <1>3, <1>4 DEF Held, Starts
<1>8. /\ Held'[z + 1] = {rest'[k] : k \in DOMAIN rest'}
      /\ z + 1 \in Starts' <=> sending' = "first"
  BY <1>2, <1>3, <1>4 DEF Held, Starts
<1>9. z \in GiftPlaces' /\ z # 0 /\ z # Behind'
  BY <1>2, <1>3, <1>4
<1>10. IsPart(m) => /\ Held'[z] = {m.gifts[k].sn : k \in DOMAIN m.gifts}
                    /\ z \in Starts' <=> Begins(m.state)
                    /\ z \in Stops' <=> Ends(m.state)
  BY <1>2, <1>5, <1>9 DEF Held, Starts, Stops
<1>11. ~IsPart(m) => Held'[z] = {} /\ z \notin Starts' /\ z \notin Stops'
  BY <1>5, <1>9 DEF Held, Starts, Stops
<1> QED
  BY <1>1, <1>5, <1>6, <1>7, <1>8, <1>10, <1>11

\* A packet that takes what it holds from what is left to send keeps lists whole.
LEMMA SendLists ==
  ASSUME GiftInv, NEW m \in GiftPacketType, GiftSend(m),
         UNCHANGED <<gifts, gift_count, gift_offset, listed>>,
         Held'[Behind] \cup Held'[Behind + 1] = Held[Behind],
         Held'[Behind] \cap Held'[Behind + 1] = {},
         Behind \in Starts' \/ Behind + 1 \in Starts' <=> Behind \in Starts,
         Behind + 1 \in Starts' => Held'[Behind] = {},
         Behind \in Stops' => Held'[Behind + 1] = {}
  PROVE  /\ Apart(Held', Starts', Behind')
         /\ Closed(Held', Starts', Stops', Behind')
         /\ listed' # {} => Whole(Held', Starts', Behind', listed')
         /\ Within(Held', Starts', Behind', Fitting)
         /\ OffsetAtEnd'
<1>1. PICK z \in Nat : z = Behind
  BY BackGift DEF GiftInv
<1>2. Behind' = z + 1 /\ z >= 1
  BY <1>1, BackGift DEF GiftInv
<1>3. /\ \A n \in 0..z : n # z => Held'[n] = Held[n]
      /\ \A n \in 0..z : n # z => (n \in Starts' <=> n \in Starts)
      /\ \A n \in 0..z : n # z => (n \in Stops' <=> n \in Stops)
  BY <1>1, SendPlaces DEF GiftInv
<1>4. /\ Held'[z] \cup Held'[z + 1] = Held[z] /\ Held'[z] \cap Held'[z + 1] = {}
      /\ z \in Starts' \/ z + 1 \in Starts' <=> z \in Starts
      /\ z + 1 \in Starts' => Held'[z] = {}
      /\ z \in Stops' => Held'[z + 1] = {}
  BY <1>1
<1>5. /\ Apart(Held, Starts, z) /\ Closed(Held, Starts, Stops, z)
      /\ listed # {} => Whole(Held, Starts, z, listed)
  BY <1>1 DEF GiftInv, OnceEach, WholeList
<1>6. /\ Apart(Held', Starts', z + 1) /\ Closed(Held', Starts', Stops', z + 1)
      /\ Whole(Held, Starts, z, listed) => Whole(Held', Starts', z + 1, listed)
  BY <1>3, <1>4, <1>5, Insert
<1>7. Within(Held', Starts', z + 1, Fitting)
  <2>1. Within(Held, Starts, z, Fitting)
    BY <1>1 DEF GiftInv, WholeList, Fitting
  <2>2. Held'[z] \subseteq Held[z] /\ Held'[z + 1] \subseteq Held[z]
    BY <1>4
  <2>3. z \in Starts /\ z \notin Starts' =>
          Held'[z] = {} /\ (z + 1 \in Starts' \/ Held'[z + 1] = {})
    BY <1>4
  <2> QED
    BY <1>2, <1>3, <2>1, <2>2, <2>3, InsertWithin
<1>8. OffsetAtEnd'
  <2> SUFFICES ASSUME NEW n \in 1..Behind', SameList(Starts', 0, n), Held'[n] # {}
               PROVE  gift_offset' = gift_count'
    BY DEF OffsetAtEnd
  <2>1. n \in 1..(z + 1)
    BY <1>2
  <2>2. CASE n \in 1..z /\ n # z
    <3>1. n \in 0..z /\ \A j \in (0 + 1)..n : j \in 0..z /\ j # z
      BY <2>2
    <3>2. SameList(Starts, 0, n)
      BY <1>3, <3>1 DEF SameList
    <3> QED
      BY <1>1, <1>3, <2>2, <3>1, <3>2 DEF GiftInv, OffsetAtEnd
  <2>3. CASE n = z \/ n = z + 1
    <3>1. 0 \in 0..z /\ 0 # z /\ z \in 1..z
      BY <1>2
    <3>2. /\ SameList(Starts', 0, z + 1) <=> SameList(Starts, 0, z)
          /\ Held'[z] # {} /\ SameList(Starts', 0, z) => SameList(Starts, 0, z)
      BY <1>3, <1>4, <3>1, InsertSame
    <3>3. SameList(Starts, 0, z) /\ Held[z] # {}
      BY <1>4, <2>3, <3>2
    <3> QED
      BY <1>1, <3>1, <3>3 DEF GiftInv, OffsetAtEnd
  <2> QED
    BY <2>1, <2>2, <2>3
<1> QED
  BY <1>2, <1>5, <1>6, <1>7, <1>8

LEMMA SendOnce ==
  ASSUME GiftInv, NEW m \in GiftPacketType, GiftSend(m),
         UNCHANGED <<gifts, gift_count>>,
         \A k, l \in DOMAIN rest' : rest'[k] = rest'[l] => k = l,
         IsPart(m) => Distinct(m.gifts),
         Apart(Held', Starts', Behind')
  PROVE  OnceEach'
<1>1. PICK z \in Nat : z = Behind
  BY BackGift DEF GiftInv
<1>2. \A n \in DOMAIN giftWire' : Part(n)' => Distinct(giftWire'[n].gifts)
  <2>1. /\ DOMAIN giftWire = 1..(z - 1) /\ DOMAIN giftWire' = 1..z
        /\ \A n \in DOMAIN giftWire : giftWire'[n] = giftWire[n]
        /\ giftWire'[z] = m
    BY <1>1, BackGift DEF GiftInv
  <2>2. /\ \A n \in DOMAIN giftWire : Part(n)' <=> Part(n)
        /\ Part(z)' <=> IsPart(m)
    BY <1>1, SendPlaces DEF GiftInv
  <2>3. \A n \in 1..z : n = z \/ n \in 1..(z - 1)
    OBVIOUS
  <2> QED
    BY <2>1, <2>2, <2>3 DEF GiftInv, OnceEach
<1> QED
  BY <1>2 DEF GiftInv, OnceEach

LEMMA SendDeletions ==
  ASSUME GiftTypeOK, NEW m \in GiftPacketType, GiftSend(m)
  PROVE  /\ \A n \in Nat : \A g : DeletedBehind(n, g) => DeletedBehind(n, g)'
         /\ \A g : m.type = "Deleted" /\ m.sn = g =>
              \A n \in Nat : n < Behind => DeletedBehind(n, g)'
         /\ \A g : ~DeletedBehind(Behind, g)
<1>1. PICK z \in Nat : z = Behind
  BY BackGift
<1>2. /\ DOMAIN giftWire = 1..(z - 1) /\ DOMAIN giftWire' = 1..z /\ z >= 1
      /\ \A n \in DOMAIN giftWire : giftWire'[n] = giftWire[n]
      /\ giftWire'[z] = m
  BY <1>1, BackGift
<1>3. z \in 1..z /\ \A n \in 1..(z - 1) : n \in 1..z /\ ~(n > z)
  BY <1>2
<1> QED
  BY <1>1, <1>2, <1>3 DEF DeletedBehind

LEMMA SendMarks ==
  ASSUME GiftInv, NEW m \in GiftPacketType, GiftSend(m),
         UNCHANGED <<gifts, gift_count>>,
         \A g \in Gifts : box[g] = GONE => box'[g] = GONE,
         \A g \in Gifts : InBox(g) =>
           InBox(g)' \/ (m.type = "Deleted" /\ m.sn = g /\ g \notin Held'[Behind + 1]),
         m.type = "Deleted" => box'[m.sn] = GONE,
         Held'[Behind] \subseteq Held[Behind],
         Held'[Behind + 1] \subseteq Held[Behind]
  PROVE  Marks'
<1>1. PICK z \in Nat : z = Behind
  BY BackGift DEF GiftInv
<1>2. /\ Behind' = z + 1 /\ z >= 1
      /\ DOMAIN giftWire = 1..(z - 1) /\ DOMAIN giftWire' = 1..z
      /\ \A n \in DOMAIN giftWire : giftWire'[n] = giftWire[n]
      /\ giftWire'[z] = m
      /\ giftWire \in Seq(GiftPacketType)
  BY <1>1, BackGift DEF GiftInv, GiftTypeOK
<1>3. /\ \A n \in Nat : \A g : DeletedBehind(n, g) => DeletedBehind(n, g)'
      /\ \A g : m.type = "Deleted" /\ m.sn = g =>
           \A n \in Nat : n < z => DeletedBehind(n, g)'
      /\ \A g : ~DeletedBehind(z, g)
  BY <1>1, SendDeletions DEF GiftInv
<1>4. ASSUME NEW g \in Gifts, NEW n \in Nat, n < z, InBox(g) \/ DeletedBehind(n, g)
      PROVE  InBox(g)' \/ DeletedBehind(n, g)'
  BY <1>3, <1>4
<1>5. \A i \in 0..(gift_count' - 1) : gifts'[i].sn \in Gifts
  BY DEF GiftInv, Marks
<1>6. \A i \in 0..(gift_count' - 1), g \in Gifts : gifts'[i].sn = g =>
        IF gifts'[i].status = GIFT_DELETED
          THEN box'[g] = GONE ELSE InBox(g)' \/ DeletedBehind(0, g)'
  <2>1. 0 \in Nat /\ 0 < z
    BY <1>2
  <2> QED
    BY <1>4, <2>1 DEF GiftInv, Marks
<1>7. ASSUME NEW n \in 1..Behind', NEW g \in Gifts, g \in Held'[n]
      PROVE  InBox(g)' \/ DeletedBehind(n, g)'
  <2>1. n \in 1..(z + 1) /\ z \in 1..z
    BY <1>2
  <2>2. CASE n < z
    <3>1. n \in 0..z /\ n # z /\ n \in 1..z /\ n \in Nat
      BY <2>1, <2>2
    <3>2. g \in Held[n]
      BY <1>1, <1>7, <3>1, SendPlaces DEF GiftInv
    <3>3. InBox(g) \/ DeletedBehind(n, g)
      BY <1>1, <3>1, <3>2 DEF GiftInv, Marks
    <3> QED
      BY <1>4, <2>2, <3>1, <3>3
  <2>3. CASE n = z
    <3>1. InBox(g)
      BY <1>1, <1>3, <1>7, <2>1, <2>3 DEF GiftInv, Marks
    <3>2. m.type # "Deleted"
      <4>1. Held'[z] # {}
        BY <1>7, <2>3
      <4>2. IsPart(m)
        BY <1>1, <4>1, SendPlaces DEF GiftInv
      <4> QED
        BY <4>2 DEF IsPart
    <3> QED
      BY <3>1, <3>2
  <2>4. CASE n = z + 1
    <3>1. g \in Held'[Behind + 1]
      BY <1>1, <1>7, <2>4
    <3>2. InBox(g)
      BY <1>1, <1>3, <2>1, <3>1 DEF GiftInv, Marks
    <3> QED
      BY <3>1, <3>2
  <2> QED
    BY <2>1, <2>2, <2>3, <2>4
<1>8. \A n \in DOMAIN giftWire' :
        giftWire'[n].type = "Deleted" => box'[giftWire'[n].sn] = GONE
  <2>1. \A n \in DOMAIN giftWire : giftWire[n].type = "Deleted" =>
          giftWire[n].sn \in Gifts /\ box[giftWire[n].sn] = GONE
    BY <1>2 DEF GiftInv, Marks, GiftPacketType
  <2>2. \A n \in 1..z : n = z \/ n \in 1..(z - 1)
    OBVIOUS
  <2> QED
    BY <1>2, <2>1, <2>2
<1> QED
  BY <1>5, <1>6, <1>7, <1>8 DEF Marks

\* A packet that is no part of a list.
LEMMA SendOther ==
  ASSUME GiftInv, NEW m \in GiftPacketType, m.type # "List", GiftSend(m),
         UNCHANGED <<giftTable, rest, sending, listed>>,
         \A g \in Gifts : box[g] = GONE => box'[g] = GONE,
         \A g \in Gifts : InBox(g) =>
           InBox(g)' \/ (m.type = "Deleted" /\ m.sn = g /\ \A k \in DOMAIN rest : rest[k] # g),
         m.type = "Deleted" => box'[m.sn] = GONE
  PROVE  OnceEach' /\ WholeList' /\ OffsetAtEnd' /\ Marks'
<1>1. /\ gifts' = gifts /\ gift_count' = gift_count /\ gift_offset' = gift_offset
      /\ rest' = rest /\ sending' = sending /\ listed' = listed
  BY DEF giftTable
<1>2. ~IsPart(m)
  BY DEF IsPart
<1>3. /\ Held'[Behind] = {} /\ Behind \notin Starts' /\ Behind \notin Stops'
      /\ Held[Behind] = {rest[k] : k \in DOMAIN rest}
      /\ Held'[Behind + 1] = Held[Behind]
      /\ Behind + 1 \in Starts' <=> Behind \in Starts
  <2>1. /\ Held'[Behind] = {} /\ Behind \notin Starts' /\ Behind \notin Stops'
        /\ Held[Behind] = {rest[k] : k \in DOMAIN rest}
        /\ Held'[Behind + 1] = {rest'[k] : k \in DOMAIN rest'}
        /\ Behind \in Starts <=> sending = "first"
        /\ Behind + 1 \in Starts' <=> sending' = "first"
    BY <1>1, <1>2, SendPlaces DEF GiftInv
  <2> QED
    BY <1>1, <2>1
<1>4. /\ Apart(Held', Starts', Behind')
      /\ Closed(Held', Starts', Stops', Behind')
      /\ listed' # {} => Whole(Held', Starts', Behind', listed')
      /\ Within(Held', Starts', Behind', Fitting)
      /\ OffsetAtEnd'
  BY <1>1, <1>3, SendLists
<1>5. OnceEach'
  <2>1. \A k, l \in DOMAIN rest' : rest'[k] = rest'[l] => k = l
    BY <1>1 DEF GiftInv, OnceEach
  <2> QED
    BY <1>1, <1>2, <1>4, <2>1, SendOnce
<1>6. WholeList'
  BY <1>1, <1>4 DEF GiftInv, WholeList, Fitting
<1>7. Marks'
  <2>1. \A g \in Gifts : InBox(g) =>
          InBox(g)' \/ (m.type = "Deleted" /\ m.sn = g /\ g \notin Held'[Behind + 1])
    BY <1>3
  <2>2. Held'[Behind] \subseteq Held[Behind] /\ Held'[Behind + 1] \subseteq Held[Behind]
    BY <1>3
  <2> QED
    BY <1>1, <2>1, <2>2, SendMarks
<1> QED
  BY <1>4, <1>5, <1>6, <1>7

\* The packet with the next n gifts, and what is left of the list.
LEMMA PartShape ==
  ASSUME GiftInv, NEW n \in Nat, n \in 1..Len(rest) \/ (n = 0 /\ rest = <<>>),
         NEW last \in MayBeLast(n), sending # "no",
         NEW m, m = [type |-> "List", state |-> ListState(last),
                     gifts |-> [k \in 1..n |-> [sn |-> rest[k], status |-> box[rest[k]]]]],
         rest' = SubSeq(rest, n + 1, Len(rest))
  PROVE  /\ m \in GiftPacketType /\ (IsPart(m) <=> n # 0)
         /\ DOMAIN m.gifts = 1..n /\ \A k \in 1..n : m.gifts[k].sn = rest[k]
         /\ Begins(m.state) <=> sending = "first"
         /\ Ends(m.state) <=> last
         /\ last \in BOOLEAN
         /\ rest' \in Seq(Gifts) /\ DOMAIN rest' = 1..(Len(rest) - n)
         /\ \A k \in 1..(Len(rest) - n) : rest'[k] = rest[k + n]
         /\ last => rest' = <<>>
         /\ DOMAIN rest = 1..Len(rest) /\ Len(rest) \in Nat /\ n <= Len(rest)
<1>1. rest \in Seq(Gifts) /\ sending \in {"first", "more"}
  BY DEF GiftInv, GiftTypeOK
<1>2. DOMAIN rest = 1..Len(rest) /\ Len(rest) \in Nat /\ n <= Len(rest)
      /\ \A k \in 1..Len(rest) : rest[k] \in Gifts
  BY <1>1
<1>3. last \in BOOLEAN /\ (last => n = Len(rest))
  <2>1. CASE n < Len(rest)
    BY <2>1 DEF MayBeLast
  <2>2. CASE ~(n < Len(rest))
    <3>1. n = Len(rest)
      <4>1. PICK l \in Nat : l = Len(rest)
        BY <1>2
      <4>2. n <= l /\ ~(n < l)
        BY <1>2, <2>2, <4>1
      <4> QED
        BY <4>1, <4>2
    <3>2. last \in BOOLEAN
      BY <2>2, Zenon DEF MayBeLast
    <3> QED
      BY <3>1, <3>2
  <2> QED
    BY <2>1, <2>2
<1>4. /\ ListState(last) \in {"Null", "Begin", "End", "BeginAndEnd"}
      /\ Begins(ListState(last)) <=> sending = "first"
      /\ Ends(ListState(last)) <=> last
  BY <1>1, <1>3 DEF ListState, Begins, Ends
<1>5. ASSUME NEW k \in 1..n
      PROVE  [sn |-> rest[k], status |-> box[rest[k]]] \in PartType
  <2>1. k \in DOMAIN rest /\ rest[k] \in Gifts
    BY <1>2
  <2>2. Behind \in GiftPlaces /\ Behind # 0 /\ Behind \in 1..Behind
    <3>1. giftWire \in Seq(GiftPacketType)
      BY DEF GiftInv, GiftTypeOK
    <3> QED
      BY <3>1 DEF Behind, GiftPlaces
  <2>3. rest[k] \in Held[Behind]
    BY <2>1, <2>2 DEF Held
  <2>4. InBox(rest[k]) \/ DeletedBehind(Behind, rest[k])
    BY <2>1, <2>2, <2>3 DEF GiftInv, Marks
  <2>5. ~DeletedBehind(Behind, rest[k])
    <3>1. giftWire \in Seq(GiftPacketType)
      BY DEF GiftInv, GiftTypeOK
    <3>2. \A j \in DOMAIN giftWire : ~(j > Behind)
      BY <3>1 DEF Behind
    <3> QED
      BY <3>2 DEF DeletedBehind
  <2> QED
    BY <2>1, <2>4, <2>5 DEF InBox, PartType
<1>6. [k \in 1..n |-> [sn |-> rest[k], status |-> box[rest[k]]]] \in Seq(PartType)
  BY <1>5
<1>7. m \in GiftPacketType /\ m.type = "List"
  BY <1>4, <1>6 DEF GiftPacketType
<1>8. DOMAIN m.gifts = 1..n /\ \A k \in 1..n : m.gifts[k].sn = rest[k]
  OBVIOUS
<1>9. IsPart(m) <=> n # 0
  <2>1. m.gifts \in Seq(PartType) /\ Len(m.gifts) = n
    BY <1>6
  <2>2. m.gifts = <<>> <=> n = 0
    BY <2>1, EmptySeq
  <2> QED
    BY <1>7, <2>2 DEF IsPart
<1>10. /\ rest' \in Seq(Gifts) /\ DOMAIN rest' = 1..(Len(rest) - n)
       /\ \A k \in 1..(Len(rest) - n) : rest'[k] = rest[k + n]
  <2>1. n + 1 \in 1..(Len(rest) + 1) /\ Len(rest) \in ((n + 1) - 1)..Len(rest)
    BY <1>2
  <2>2. /\ rest' \in Seq(Gifts) /\ Len(rest') = Len(rest) - (n + 1) + 1
        /\ \A k \in 1..(Len(rest) - (n + 1) + 1) : rest'[k] = rest[(n + 1) + k - 1]
    BY <1>1, <2>1, SubSeqProperties
  <2>3. /\ Len(rest) - (n + 1) + 1 = Len(rest) - n
        /\ \A k \in 1..(Len(rest) - n) : (n + 1) + k - 1 = k + n
    BY <1>2
  <2>4. DOMAIN rest' = 1..Len(rest')
    BY <2>2
  <2> QED
    BY <2>2, <2>3, <2>4
<1>11. last => rest' = <<>>
  BY <1>2, <1>3, <1>10
<1> QED
  BY <1>2, <1>3, <1>4, <1>7, <1>8, <1>9, <1>10, <1>11

\* An empty last part: where the list was not begun, it never was.
LEMMA EmptySent ==
  ASSUME GiftInv, NEW m \in GiftPacketType, ~IsPart(m), GiftSend(m),
         UNCHANGED <<gifts, gift_count, gift_offset, listed>>,
         rest = <<>>, rest' = <<>>, sending' # "first"
  PROVE  /\ Apart(Held', Starts', Behind')
         /\ Closed(Held', Starts', Stops', Behind')
         /\ listed' # {} => Whole(Held', Starts', Behind', listed')
         /\ Within(Held', Starts', Behind', Fitting)
         /\ OffsetAtEnd'
<1>1. PICK z \in Nat : z = Behind
  BY BackGift DEF GiftInv
<1>2. Behind' = z + 1 /\ z >= 1
  BY <1>1, BackGift DEF GiftInv
<1>3. /\ \A n \in 0..z : n # z => Held'[n] = Held[n]
      /\ \A n \in 0..z : n # z => (n \in Starts' <=> n \in Starts)
      /\ \A n \in 0..z : n # z => (n \in Stops' <=> n \in Stops)
      /\ Held[z] = {} /\ Held'[z] = {} /\ Held'[z + 1] = {}
      /\ z \notin Starts' /\ z + 1 \notin Starts' /\ z \notin Stops'
  BY <1>1, SendPlaces DEF GiftInv
<1>4. CASE z \notin Starts
  BY <1>1, <1>3, <1>4, SendLists
<1>5. CASE z \in Starts
  <2>1. listed = {}
    <3>1. \A n \in 0..z : SameList(Starts, n, z) => n = z
      <4>1. \A n \in 0..z : n # z => z \in (n + 1)..z
        OBVIOUS
      <4> QED
        BY <1>5, <4>1 DEF SameList
    <3>2. SUFFICES ASSUME listed # {} PROVE FALSE
      OBVIOUS
    <3>3. Whole(Held, Starts, z, listed)
      BY <1>1, <3>2 DEF GiftInv, WholeList
    <3>4. \A g : g \in listed <=> \E n \in 0..z : g \in Held[n] /\ SameList(Starts, n, z)
      BY <3>3, WholeIs
    <3> QED
      BY <1>3, <3>1, <3>2, <3>4
  <2>2. /\ \A n \in 0..(z + 1) : n \in 0..z \/ n = z + 1
        /\ \A m1, n1 \in 0..(z + 1) : m1 < n1 => m1 \in 0..z
        /\ \A m1, n1 \in 0..z : m1 < n1 => m1 # z
    OBVIOUS
  <2>3. ASSUME NEW j \in 0..z, NEW n \in 0..z, n # z, SameList(Starts', j, n)
        PROVE  SameList(Starts, j, n)
    <3>1. \A i \in (j + 1)..n : i \in 0..z /\ i # z
      BY <2>3
    <3> QED
      BY <1>3, <2>3, <3>1 DEF SameList
  <2>4. Apart(Held', Starts', z + 1)
    <3> SUFFICES ASSUME NEW j \in 0..(z + 1), NEW n \in 0..(z + 1), j < n,
                        SameList(Starts', j, n)
                 PROVE  Held'[j] \cap Held'[n] = {}
      BY DEF Apart
    <3>1. CASE n \in 0..z /\ n # z
      <4>1. j \in 0..z /\ j # z
        BY <3>1
      <4>2. SameList(Starts, j, n)
        BY <2>3, <3>1, <4>1
      <4>3. Held[j] \cap Held[n] = {}
        BY <1>1, <3>1, <4>1, <4>2 DEF GiftInv, OnceEach, Apart
      <4> QED
        BY <1>3, <3>1, <4>1, <4>3
    <3>2. CASE n = z \/ n = z + 1
      BY <1>3, <3>2
    <3> QED
      BY <2>2, <3>1, <3>2
  <2>5. Closed(Held', Starts', Stops', z + 1)
    <3> SUFFICES ASSUME NEW j \in 0..(z + 1), NEW n \in 0..(z + 1), j < n,
                        j \in Stops', SameList(Starts', j, n)
                 PROVE  Held'[n] = {}
      BY DEF Closed
    <3>1. CASE n \in 0..z /\ n # z
      <4>1. j \in 0..z /\ j # z
        BY <3>1
      <4>2. SameList(Starts, j, n)
        BY <2>3, <3>1, <4>1
      <4>3. Held[n] = {}
        BY <1>1, <1>3, <3>1, <4>1, <4>2 DEF GiftInv, WholeList, Closed
      <4> QED
        BY <1>3, <3>1, <4>3
    <3>2. CASE n = z \/ n = z + 1
      BY <1>3, <3>2
    <3> QED
      BY <2>2, <3>1, <3>2
  <2>6. OffsetAtEnd'
    <3> SUFFICES ASSUME NEW n \in 1..Behind', SameList(Starts', 0, n), Held'[n] # {}
                 PROVE  gift_offset' = gift_count'
      BY DEF OffsetAtEnd
    <3>1. n \in 1..(z + 1) /\ n # z /\ n # z + 1
      BY <1>2, <1>3
    <3>2. n \in 0..z /\ n \in 1..z /\ 0 \in 0..z
      BY <3>1
    <3> QED
      BY <1>1, <1>3, <2>3, <3>1, <3>2 DEF GiftInv, OffsetAtEnd
  <2>7. Within(Held', Starts', z + 1, Fitting)
    <3>1. Within(Held, Starts, z, Fitting)
      BY <1>1 DEF GiftInv, WholeList, Fitting
    <3>2. Held'[z] \subseteq Held[z] /\ Held'[z + 1] \subseteq Held[z]
      BY <1>3
    <3> QED
      BY <1>2, <1>3, <3>1, <3>2, InsertWithin
  <2> QED
    BY <1>2, <2>1, <2>4, <2>5, <2>6, <2>7
<1> QED
  BY <1>4, <1>5

LEMMA PartSent ==
  ASSUME GiftInv, NEW n \in 0..Len(rest), SendPart(n)
  PROVE  GiftInv'
<1>1. n \in Nat /\ (n \in 1..Len(rest) \/ (n = 0 /\ rest = <<>>)) /\ sending # "no"
  BY DEF SendPart
<1>2. PICK last \in MayBeLast(n) :
        /\ GiftSend([type |-> "List", state |-> ListState(last),
                     gifts |-> [k \in 1..n |-> [sn |-> rest[k], status |-> box[rest[k]]]]])
        /\ sending' = IF last THEN "no" ELSE "more"
  BY DEF SendPart
<1>3. PICK m : m = [type |-> "List", state |-> ListState(last),
                    gifts |-> [k \in 1..n |-> [sn |-> rest[k], status |-> box[rest[k]]]]]
  OBVIOUS
<1>4. rest' = SubSeq(rest, n + 1, Len(rest))
  BY DEF SendPart
<1>5. /\ m \in GiftPacketType /\ (IsPart(m) <=> n # 0)
      /\ DOMAIN m.gifts = 1..n /\ \A k \in 1..n : m.gifts[k].sn = rest[k]
      /\ Begins(m.state) <=> sending = "first"
      /\ Ends(m.state) <=> last
      /\ last \in BOOLEAN
      /\ rest' \in Seq(Gifts) /\ DOMAIN rest' = 1..(Len(rest) - n)
      /\ \A k \in 1..(Len(rest) - n) : rest'[k] = rest[k + n]
      /\ last => rest' = <<>>
      /\ DOMAIN rest = 1..Len(rest) /\ Len(rest) \in Nat /\ n <= Len(rest)
  BY <1>1, <1>3, <1>4, PartShape
<1>6. PICK l \in Nat : l = Len(rest)
  BY <1>5
<1>7. /\ GiftSend(m) /\ m.type = "List"
      /\ gifts' = gifts /\ gift_count' = gift_count /\ gift_offset' = gift_offset
      /\ listed' = listed /\ box' = box
      /\ UNCHANGED <<unopened_gift_count, gift_state, giftRequests, lists>>
  BY <1>2, <1>3 DEF SendPart, giftTable
<1>8. \A k, j \in 1..l : rest[k] = rest[j] => k = j
  BY <1>5, <1>6 DEF GiftInv, OnceEach
<1>9. sending' \in {"no", "more"} /\ (sending' = "no" => rest' = <<>>)
  BY <1>2, <1>5
<1>10. \A k, j \in DOMAIN rest' : rest'[k] = rest'[j] => k = j
  <2> SUFFICES ASSUME NEW k \in 1..(l - n), NEW j \in 1..(l - n), rest'[k] = rest'[j]
               PROVE  k = j
    BY <1>5, <1>6
  <2>1. k + n \in 1..l /\ j + n \in 1..l
    BY <1>1, <1>5, <1>6
  <2>2. k + n = j + n
    BY <1>5, <1>6, <1>8, <2>1
  <2> QED
    BY <1>1, <2>2
<1>11. Distinct(m.gifts)
  <2>1. 1..n \subseteq 1..l
    BY <1>1, <1>5, <1>6
  <2> QED
    BY <1>5, <1>8, <2>1 DEF Distinct
<1>12. /\ Held[Behind] = {rest[k] : k \in 1..l}
       /\ Held'[Behind + 1] = {rest'[k] : k \in 1..(l - n)}
       /\ Behind \in Starts <=> sending = "first"
       /\ Behind + 1 \notin Starts'
       /\ n # 0 => /\ Held'[Behind] = {rest[k] : k \in 1..n}
                   /\ Behind \in Starts' <=> sending = "first"
                   /\ Behind \in Stops' <=> last
       /\ n = 0 => Held'[Behind] = {}
  <2>1. /\ Held[Behind] = {rest[k] : k \in DOMAIN rest}
        /\ Held'[Behind + 1] = {rest'[k] : k \in DOMAIN rest'}
        /\ Behind \in Starts <=> sending = "first"
        /\ Behind + 1 \in Starts' <=> sending' = "first"
        /\ IsPart(m) => /\ Held'[Behind] = {m.gifts[k].sn : k \in DOMAIN m.gifts}
                        /\ Behind \in Starts' <=> Begins(m.state)
                        /\ Behind \in Stops' <=> Ends(m.state)
        /\ ~IsPart(m) => Held'[Behind] = {}
    BY <1>5, <1>7, SendPlaces DEF GiftInv
  <2>2. {m.gifts[k].sn : k \in DOMAIN m.gifts} = {rest[k] : k \in 1..n}
    BY <1>5
  <2> QED
    BY <1>5, <1>6, <1>9, <2>1, <2>2
<1>13. /\ Apart(Held', Starts', Behind')
       /\ Within(Held', Starts', Behind', Fitting)
       /\ Closed(Held', Starts', Stops', Behind')
       /\ listed' # {} => Whole(Held', Starts', Behind', listed')
       /\ OffsetAtEnd'
  <2>1. CASE n = 0
    <3>1. rest = <<>> /\ rest' = <<>> /\ ~IsPart(m) /\ sending' # "first"
      BY <1>1, <1>5, <1>9, <2>1
    <3> QED
      BY <1>5, <1>7, <3>1, EmptySent
  <2>2. CASE n # 0
    <3>1. \A k \in 1..l : k \in 1..n \/ (k - n \in 1..(l - n) /\ (k - n) + n = k)
      BY <1>1, <1>5, <1>6
    <3>2. /\ \A k \in 1..n : k \in 1..l
          /\ \A k \in 1..(l - n) : k + n \in 1..l /\ k + n \notin 1..n
      BY <1>1, <1>5, <1>6
    <3>3. \A k \in 1..(l - n) : rest'[k] = rest[k + n]
      BY <1>5, <1>6
    <3>4. Held'[Behind] \cup Held'[Behind + 1] = Held[Behind]
      <4>1. ASSUME NEW k \in 1..l PROVE rest[k] \in Held'[Behind] \cup Held'[Behind + 1]
        <5>1. CASE k \in 1..n
          BY <1>12, <2>2, <5>1
        <5>2. CASE k \notin 1..n
          <6>1. PICK j \in 1..(l - n) : j + n = k
            BY <3>1, <5>2
          <6>2. rest[k] = rest'[j]
            BY <3>3, <6>1
          <6> QED
            BY <1>12, <6>2
        <5> QED
          BY <5>1, <5>2
      <4>2. \A k \in 1..n : rest[k] \in Held[Behind]
        BY <1>12, <3>2
      <4>3. \A k \in 1..(l - n) : rest'[k] \in Held[Behind]
        BY <1>12, <3>2, <3>3
      <4> QED
        BY <1>12, <2>2, <4>1, <4>2, <4>3
    <3>5. Held'[Behind] \cap Held'[Behind + 1] = {}
      <4>1. ASSUME NEW k \in 1..n, NEW j \in 1..(l - n), rest[k] = rest'[j] PROVE FALSE
        <5>1. rest[k] = rest[j + n]
          BY <3>3, <4>1
        <5>2. k = j + n
          BY <1>8, <3>2, <5>1
        <5> QED
          BY <3>2, <5>2
      <4> QED
        BY <1>12, <2>2, <4>1
    <3>6. Behind \in Starts' \/ Behind + 1 \in Starts' <=> Behind \in Starts
      BY <1>12, <2>2
    <3>7. Behind \in Stops' => Held'[Behind + 1] = {}
      BY <1>5, <1>6, <1>12, <2>2
    <3> QED
      BY <1>5, <1>7, <1>12, <3>4, <3>5, <3>6, <3>7, SendLists
  <2> QED
    BY <2>1, <2>2
<1>14. OnceEach'
  BY <1>5, <1>7, <1>10, <1>11, <1>13, SendOnce
<1>15. WholeList'
  BY <1>9, <1>13 DEF WholeList, Fitting
<1>16. Marks'
  <2>1. Held'[Behind] \subseteq Held[Behind]
    <3>1. \A k \in 1..n : k \in 1..l
      BY <1>1, <1>5, <1>6
    <3> QED
      BY <1>12, <3>1
  <2>2. Held'[Behind + 1] \subseteq Held[Behind]
    <3>1. \A k \in 1..(l - n) : k + n \in 1..l /\ rest'[k] = rest[k + n]
      BY <1>1, <1>5, <1>6
    <3> QED
      BY <1>12, <3>1
  <2>3. /\ \A g \in Gifts : box[g] = GONE => box'[g] = GONE
        /\ \A g \in Gifts : InBox(g) => InBox(g)'
    BY <1>7 DEF InBox
  <2>4. m.type # "Deleted"
    BY <1>7
  <2> QED
    BY <1>5, <1>7, <2>1, <2>2, <2>3, <2>4, SendMarks
<1>17. GiftTypeOK'
  <2>1. giftWire' \in Seq(GiftPacketType)
    BY <1>5, <1>7, BackGift DEF GiftInv
  <2> QED
    BY <1>5, <1>7, <1>9, <2>1 DEF GiftInv, GiftTypeOK
<1> QED
  BY <1>13, <1>14, <1>15, <1>16, <1>17 DEF GiftInv

\* Steps that send nothing and leave the table's rows and the list alone.
LEMMA StillGifts ==
  ASSUME GiftInv,
         UNCHANGED <<gifts, gift_count, gift_offset, giftWire, rest, sending, listed>>,
         \A g \in Gifts : box[g] = GONE => box'[g] = GONE,
         \A g \in Gifts : InBox(g) => InBox(g)'
  PROVE  OnceEach' /\ WholeList' /\ OffsetAtEnd' /\ Marks'
<1>1. Behind' = Behind /\ GiftPlaces' = GiftPlaces
  BY DEF Behind, GiftPlaces
<1>2. Held' = Held /\ Starts' = Starts /\ Stops' = Stops /\ \A n : Part(n)' <=> Part(n)
  BY <1>1 DEF Held, Starts, Stops, Part, TableSn
<1>3. OnceEach'
  BY <1>1, <1>2 DEF GiftInv, OnceEach
<1>4. WholeList' /\ OffsetAtEnd'
  BY <1>1, <1>2 DEF GiftInv, WholeList, OffsetAtEnd
<1>5. Marks'
  <2>1. \A n, g : DeletedBehind(n, g)' <=> DeletedBehind(n, g)
    BY DEF DeletedBehind
  <2>2. \A i \in 0..(gift_count' - 1), g \in Gifts : gifts'[i].sn = g =>
          IF gifts'[i].status = GIFT_DELETED
            THEN box'[g] = GONE ELSE InBox(g)' \/ DeletedBehind(0, g)'
    BY <2>1 DEF GiftInv, Marks
  <2>3. \A n \in 1..Behind', g \in Gifts :
          g \in Held'[n] => InBox(g)' \/ DeletedBehind(n, g)'
    BY <1>1, <1>2, <2>1 DEF GiftInv, Marks
  <2>4. \A n \in DOMAIN giftWire' :
          giftWire'[n].type = "Deleted" => box'[giftWire'[n].sn] = GONE
    <3>1. \A n \in DOMAIN giftWire : giftWire[n].type = "Deleted" => giftWire[n].sn \in Gifts
      BY DEF GiftInv, GiftTypeOK, GiftPacketType
    <3> QED
      BY <3>1 DEF GiftInv, Marks
  <2>5. \A i \in 0..(gift_count' - 1) : gifts'[i].sn \in Gifts
    BY DEF GiftInv, Marks
  <2> QED
    BY <2>2, <2>3, <2>4, <2>5 DEF Marks
<1> QED
  BY <1>3, <1>4, <1>5

LEMMA ListStarted ==
  ASSUME GiftInv, StartList
  PROVE  GiftInv'
<1> DEFINE here == {g \in Gifts : InBox(g)}
<1>1. /\ gifts' = gifts /\ gift_count' = gift_count /\ gift_offset' = gift_offset
      /\ unopened_gift_count' = unopened_gift_count
      /\ giftWire' = giftWire /\ box' = box /\ lists' = lists /\ gift_state' = gift_state
      /\ sending = "no" /\ sending' = "first"
      /\ giftRequests' = Tail(giftRequests) /\ giftRequests # <<>>
      /\ listed' = here
      /\ rest' \in {s \in [1..Cardinality(here) -> here] :
                       \A m, n \in DOMAIN s : m # n => s[m] # s[n]}
  BY DEF StartList, giftTable, GiftRequest
<1>2. PICK here_ : here_ = here
  OBVIOUS
<1>3. here_ \subseteq Gifts /\ IsFiniteSet(here_) /\ (\A g \in here_ : InBox(g))
  BY <1>2, GiftAssumption, FS_Subset
<1>4. PICK c \in Nat : c = Cardinality(here_)
  BY <1>3, FS_CardinalityType
<1>5. /\ rest' \in [1..c -> here_]
      /\ \A m, n \in 1..c : rest'[m] = rest'[n] => m = n
  BY <1>1, <1>2, <1>4
<1>6. {rest'[k] : k \in 1..c} = here_
  <2>1. rest' \in Injection(1..c, here_)
    BY <1>5 DEF Injection, IsInjective
  <2>2. Cardinality(1..c) = c
    <3>1. Cardinality(1..c) = IF 1 > c THEN 0 ELSE c - 1 + 1
      BY 1 \in Int, c \in Int, FS_Interval
    <3> QED
      BY <3>1
  <2>3. rest' \in Surjection(1..c, here_)
    BY <1>3, <1>4, <2>1, <2>2, FS_Injection
  <2> QED
    BY <1>5, <2>3 DEF Surjection
<1>7. DOMAIN rest' = 1..c /\ rest = <<>> /\ DOMAIN rest = {}
  BY <1>1, <1>5 DEF GiftInv, WholeList
<1>8. PICK z \in Nat : z = Behind /\ z >= 1
  <2>1. giftWire \in Seq(GiftPacketType)
    BY DEF GiftInv, GiftTypeOK
  <2> QED
    BY <2>1 DEF Behind
<1>9. Behind' = z /\ GiftPlaces = 0..z /\ GiftPlaces' = 0..z /\ z \in 0..z /\ z # 0
  BY <1>1, <1>8 DEF Behind, GiftPlaces
<1>10. \A n : Part(n)' <=> Part(n)
  BY <1>1 DEF Part
<1>11. /\ \A n \in 0..z : n # z => Held'[n] = Held[n]
       /\ Held[z] = {} /\ Held'[z] = here_
  <2>1. TableSn' = TableSn
    BY <1>1 DEF TableSn
  <2>2. \A n \in 0..z : n # z => Held'[n] = Held[n]
    BY <1>1, <1>8, <1>9, <1>10, <2>1 DEF Held
  <2>3. Held[z] = {rest[k] : k \in DOMAIN rest} /\ Held'[z] = {rest'[k] : k \in DOMAIN rest'}
    BY <1>8, <1>9 DEF Held
  <2> QED
    BY <1>6, <1>7, <2>2, <2>3
<1>12. /\ z \in Starts'
       /\ \A n \in 0..z : n # z => (n \in Starts' <=> n \in Starts)
       /\ Stops' = Stops
  BY <1>1, <1>8, <1>9, <1>10 DEF Starts, Stops
<1>13. ASSUME NEW m \in 0..z, NEW n \in 0..z, m < n, SameList(Starts', m, n)
       PROVE  n # z /\ m # z /\ SameList(Starts, m, n)
  <2>1. n # z
    <3>1. m < z => z \in (m + 1)..z
      OBVIOUS
    <3> QED
      BY <1>12, <1>13, <3>1 DEF SameList
  <2>2. \A j \in (m + 1)..n : j \in 0..z /\ j # z
    BY <1>13, <2>1
  <2>3. SameList(Starts, m, n)
    BY <1>12, <1>13, <2>2 DEF SameList
  <2> QED
    BY <1>13, <2>1, <2>3
<1>14. Apart(Held', Starts', z) /\ Closed(Held', Starts', Stops', z)
  <2>1. Apart(Held, Starts, z) /\ Closed(Held, Starts, Stops, z)
    BY <1>8 DEF GiftInv, OnceEach, WholeList
  <2> QED
    BY <1>11, <1>12, <1>13, <2>1 DEF Apart, Closed
<1>15. Whole(Held', Starts', z, listed')
  <2>1. ASSUME NEW n \in 0..z, SameList(Starts', n, z) PROVE n = z
    BY <1>13, <2>1
  <2>2. SameList(Starts', z, z)
    BY DEF SameList
  <2>3. \A g : g \in listed' <=> \E n \in 0..z : g \in Held'[n] /\ SameList(Starts', n, z)
    BY <1>1, <1>2, <1>9, <1>11, <2>1, <2>2
  <2> QED
    BY <2>3, WholeIs
<1>16. OnceEach'
  <2>1. \A i, j \in 0..(gift_count' - 1) : gifts'[i].sn = gifts'[j].sn => i = j
    BY <1>1 DEF GiftInv, OnceEach
  <2>2. \A n \in DOMAIN giftWire' : Part(n)' => Distinct(giftWire'[n].gifts)
    BY <1>1, <1>10 DEF GiftInv, OnceEach
  <2> QED
    BY <1>5, <1>7, <1>9, <1>14, <2>1, <2>2 DEF OnceEach
<1>17. WholeList'
  <2>1. Cardinality(here_) <= GIFT_SLOTS /\ here_ \in Fitting
    BY <1>2, <1>3 DEF StartList, Fitting
  <2>2. Within(Held, Starts, z, Fitting)
    BY <1>8 DEF GiftInv, WholeList, Fitting
  <2>3. Within(Held', Starts', z, Fitting)
    <3> SUFFICES ASSUME NEW n \in 0..z
                 PROVE  \E S \in Fitting :
                          \A m \in 0..n : SameList(Starts', m, n) => Held'[m] \subseteq S
      BY DEF Within
    <3>1. \A m \in 0..n : m \in 0..z /\ (m = n \/ m < n)
      OBVIOUS
    <3>2. CASE n = z
      <4>1. \A m \in 0..n : SameList(Starts', m, n) => m = z
        BY <1>13, <3>1, <3>2
      <4> QED
        BY <1>11, <2>1, <4>1
    <3>3. CASE n # z
      <4>1. PICK S \in Fitting : \A m \in 0..n : SameList(Starts, m, n) => Held[m] \subseteq S
        BY <2>2 DEF Within
      <4>2. ASSUME NEW m \in 0..n, SameList(Starts', m, n) PROVE Held'[m] \subseteq S
        <5>1. SameList(Starts, n, n)
          BY DEF SameList
        <5>2. SameList(Starts, m, n) /\ m # z
          BY <1>13, <3>1, <3>3, <4>2, <5>1
        <5> QED
          BY <1>11, <3>1, <4>1, <5>2
      <4> QED
        BY <4>2
    <3> QED
      BY <3>2, <3>3
  <2> QED
    BY <1>1, <1>9, <1>14, <1>15, <2>3 DEF WholeList, Fitting
<1>18. OffsetAtEnd'
  <2> SUFFICES ASSUME NEW n \in 1..z, SameList(Starts', 0, n), Held'[n] # {}
               PROVE  gift_offset' = gift_count'
    BY <1>9 DEF OffsetAtEnd
  <2>1. 0 \in 0..z /\ n \in 0..z /\ 0 < n
    OBVIOUS
  <2>2. n # z /\ SameList(Starts, 0, n)
    BY <1>13, <2>1
  <2> QED
    BY <1>1, <1>8, <1>11, <2>1, <2>2 DEF GiftInv, OffsetAtEnd
<1>19. Marks'
  <2>1. \A n, g : DeletedBehind(n, g)' <=> DeletedBehind(n, g)
    BY <1>1 DEF DeletedBehind
  <2>2. \A g : InBox(g)' <=> InBox(g)
    BY <1>1 DEF InBox
  <2>3. ASSUME NEW n \in 1..Behind', NEW g \in Gifts, g \in Held'[n]
        PROVE  InBox(g)' \/ DeletedBehind(n, g)'
    <3>1. n \in 1..z /\ n \in 0..z
      BY <1>9
    <3>2. CASE n = z
      BY <1>3, <1>11, <2>2, <2>3, <3>2
    <3>3. CASE n # z
      BY <1>8, <1>11, <2>1, <2>2, <2>3, <3>1, <3>3 DEF GiftInv, Marks
    <3> QED
      BY <3>2, <3>3
  <2>4. /\ \A i \in 0..(gift_count' - 1) : gifts'[i].sn \in Gifts
        /\ \A n \in DOMAIN giftWire' :
             giftWire'[n].type = "Deleted" => box'[giftWire'[n].sn] = GONE
    BY <1>1 DEF GiftInv, Marks
  <2>5. \A i \in 0..(gift_count' - 1), g \in Gifts : gifts'[i].sn = g =>
          IF gifts'[i].status = GIFT_DELETED
            THEN box'[g] = GONE ELSE InBox(g)' \/ DeletedBehind(0, g)'
    BY <1>1, <2>1, <2>2 DEF GiftInv, Marks
  <2> QED
    BY <2>3, <2>4, <2>5 DEF Marks
<1>20. GiftTypeOK'
  <2>1. giftRequests' \in Seq(GiftRequestType)
    BY <1>1 DEF GiftInv, GiftTypeOK
  <2>2. rest' \in Seq(Gifts)
    BY <1>3, <1>5
  <2>3. listed' \subseteq Gifts
    BY <1>1, <1>2, <1>3
  <2> QED
    BY <1>1, <2>1, <2>2, <2>3 DEF GiftInv, GiftTypeOK
<1> QED
  BY <1>16, <1>17, <1>18, <1>19, <1>20 DEF GiftInv

LEMMA GiftServes ==
  ASSUME GiftInv, GiftServer
  PROVE  GiftInv'
<1>0. GiftTypeOK /\ GiftInv
  BY DEF GiftInv
<1>1. CASE PushSocialData
  <2> DEFINE m == [type |-> "Social"]
  <2>1. m \in GiftPacketType /\ m.type = "Social" /\ GiftSend(m)
    BY <1>1 DEF PushSocialData, GiftPacketType
  <2>2. UNCHANGED <<giftTable, box, rest, sending, listed, gift_state, giftRequests>>
        /\ lists' = lists + 1
    BY <1>1 DEF PushSocialData
  <2>3. \A g \in Gifts : InBox(g) => InBox(g)'
    BY <2>2 DEF InBox
  <2> HIDE DEF m
  <2>4. OnceEach' /\ WholeList' /\ OffsetAtEnd' /\ Marks'
    BY <1>0, <2>1, <2>2, <2>3, SendOther
  <2>5. GiftTypeOK'
    BY <1>0, <2>1, <2>2, BackGift DEF GiftTypeOK, giftTable
  <2> QED
    BY <2>4, <2>5 DEF GiftInv
<1>2. CASE OpenGift
  <2> DEFINE m == [type |-> "Opened"]
             g == Head(giftRequests).sn
  <2>1. m \in GiftPacketType /\ m.type = "Opened" /\ GiftSend(m)
    BY <1>2 DEF OpenGift, GiftPacketType
  <2>2. /\ UNCHANGED <<giftTable, rest, sending, listed, gift_state, lists>>
        /\ giftRequests # <<>> /\ giftRequests' = Tail(giftRequests)
        /\ box' = [box EXCEPT ![g] = IF @ = GIFT_NEW THEN GIFT_OPEN ELSE @]
    BY <1>2 DEF OpenGift, GiftRequest
  <2> HIDE DEF m, g
  <2>0. box \in [Gifts -> {GIFT_NEW, GIFT_OPEN, GIFT_EXP, ABSENT, GONE}]
    BY <1>0 DEF GiftTypeOK
  <2>7. \A h \in Gifts : box'[h] = box[h] \/ (box[h] = GIFT_NEW /\ box'[h] = GIFT_OPEN)
    BY <2>0, <2>2
  <2>3. /\ box' \in [Gifts -> {GIFT_NEW, GIFT_OPEN, GIFT_EXP, ABSENT, GONE}]
        /\ \A h \in Gifts : InBox(h) => InBox(h)'
        /\ \A h \in Gifts : box[h] = GONE => box'[h] = GONE
    <3>1. box' \in [Gifts -> {GIFT_NEW, GIFT_OPEN, GIFT_EXP, ABSENT, GONE}]
      BY <2>0, <2>2
    <3>2. \A h \in Gifts : InBox(h) => InBox(h)'
      BY <2>7 DEF InBox
    <3>3. \A h \in Gifts : box[h] = GONE => box'[h] = GONE
      BY <2>7 DEF GIFT_NEW, GONE
    <3> QED
      BY <3>1, <3>2, <3>3
  <2>4. OnceEach' /\ WholeList' /\ OffsetAtEnd' /\ Marks'
    BY <1>0, <2>1, <2>2, <2>3, SendOther
  <2>5. giftRequests' \in Seq(GiftRequestType)
    BY <1>0, <2>2 DEF GiftTypeOK
  <2>6. GiftTypeOK'
    BY <1>0, <2>1, <2>2, <2>3, <2>5, BackGift DEF GiftTypeOK, giftTable
  <2> QED
    BY <2>4, <2>6 DEF GiftInv
<1>3. ASSUME NEW g \in Gifts, Announce(g) PROVE GiftInv'
  <2> DEFINE m == [type |-> "AllianceBox1", sn |-> g]
  <2>1. m \in GiftPacketType /\ m.type = "AllianceBox1" /\ GiftSend(m)
    BY <1>3 DEF Announce, GiftPacketType
  <2>2. /\ UNCHANGED <<giftTable, rest, sending, listed, gift_state, lists, giftRequests>>
        /\ box[g] = ABSENT /\ box' = [box EXCEPT ![g] = GIFT_NEW]
    BY <1>3 DEF Announce
  <2> HIDE DEF m
  <2>3. /\ box' \in [Gifts -> {GIFT_NEW, GIFT_OPEN, GIFT_EXP, ABSENT, GONE}]
        /\ \A h \in Gifts : InBox(h) => InBox(h)'
        /\ \A h \in Gifts : box[h] = GONE => box'[h] = GONE
    BY <1>0, <2>2 DEF GiftTypeOK, InBox, GIFT_NEW, GIFT_OPEN, GIFT_EXP, ABSENT, GONE
  <2>4. OnceEach' /\ WholeList' /\ OffsetAtEnd' /\ Marks'
    BY <1>0, <2>1, <2>2, <2>3, SendOther
  <2>6. GiftTypeOK'
    BY <1>0, <2>1, <2>2, <2>3, BackGift DEF GiftTypeOK, giftTable
  <2> QED
    BY <2>4, <2>6 DEF GiftInv
<1>4. ASSUME NEW g \in Gifts, Expire(g) PROVE GiftInv'
  <2>2. /\ UNCHANGED <<giftTable, giftWire, rest, sending, listed, gift_state, lists, giftRequests>>
        /\ box[g] = GIFT_NEW /\ box' = [box EXCEPT ![g] = GIFT_EXP]
    BY <1>4 DEF Expire
  <2>3. /\ box' \in [Gifts -> {GIFT_NEW, GIFT_OPEN, GIFT_EXP, ABSENT, GONE}]
        /\ \A h \in Gifts : InBox(h) => InBox(h)'
        /\ \A h \in Gifts : box[h] = GONE => box'[h] = GONE
    BY <1>0, <2>2 DEF GiftTypeOK, InBox, GIFT_NEW, GIFT_OPEN, GIFT_EXP, ABSENT, GONE
  <2>4. OnceEach' /\ WholeList' /\ OffsetAtEnd' /\ Marks'
    BY <1>0, <2>2, <2>3, StillGifts DEF giftTable
  <2>6. GiftTypeOK'
    BY <1>0, <2>2, <2>3 DEF GiftTypeOK, giftTable
  <2> QED
    BY <2>4, <2>6 DEF GiftInv
<1>5. ASSUME NEW g \in Gifts, DeleteGift(g) PROVE GiftInv'
  <2> DEFINE m == [type |-> "Deleted", sn |-> g]
  <2>1. m \in GiftPacketType /\ m.type = "Deleted" /\ m.sn = g /\ GiftSend(m)
    BY <1>5 DEF DeleteGift, GiftPacketType
  <2>2. /\ UNCHANGED <<giftTable, rest, sending, listed, gift_state, lists, giftRequests>>
        /\ box' = [box EXCEPT ![g] = GONE]
        /\ \A k \in DOMAIN rest : rest[k] # g
    BY <1>5 DEF DeleteGift
  <2> HIDE DEF m
  <2>3. /\ box' \in [Gifts -> {GIFT_NEW, GIFT_OPEN, GIFT_EXP, ABSENT, GONE}]
        /\ \A h \in Gifts : h # g => box'[h] = box[h]
        /\ box'[g] = GONE
    BY <1>0, <2>2 DEF GiftTypeOK
  <2>4. /\ \A h \in Gifts : InBox(h) => InBox(h)' \/ h = g
        /\ \A h \in Gifts : box[h] = GONE => box'[h] = GONE
    BY <2>3 DEF InBox
  <2>5. OnceEach' /\ WholeList' /\ OffsetAtEnd' /\ Marks'
    BY <1>0, <2>1, <2>2, <2>3, <2>4, SendOther
  <2>6. GiftTypeOK'
    BY <1>0, <2>1, <2>2, <2>3, BackGift DEF GiftTypeOK, giftTable
  <2> QED
    BY <2>5, <2>6 DEF GiftInv
<1>6. ASSUME NEW n \in 0..Len(rest), SendPart(n) PROVE GiftInv'
  BY <1>6, PartSent
<1>7. CASE StartList
  BY <1>7, ListStarted
<1> QED
  BY <1>1, <1>2, <1>3, <1>4, <1>5, <1>6, <1>7 DEF GiftServer, SendList

LEMMA GiftHandles ==
  ASSUME GiftInv, GiftPacket
  PROVE  GiftInv'
<1>0. GiftTypeOK /\ GiftInv
  BY DEF GiftInv
<1>1. CASE RecvSocialData
  <2>1. GiftReceive("Social") /\ UNCHANGED giftTable /\ UNCHANGED giftServer
    BY <1>1 DEF RecvSocialData
  <2>2. GiftReads("Social")
    <3>1. [type |-> "Info"] \in GiftRequestType
      BY DEF GiftRequestType
    <3> QED
      BY <1>0, <1>1, <2>1, <3>1 DEF RecvSocialData, GiftReads, GiftTypeOK
  <2> QED
    BY <2>1, <2>2, QuietRead
<1>2. CASE RecvAllianceGiftInfo
  <2>1. CASE Head(giftWire).gifts = <<>>
    <3>1. UNCHANGED giftTable /\ GiftReads("List")
      BY <1>0, <1>2, <2>1 DEF RecvAllianceGiftInfo, GiftReads, GiftTypeOK
    <3> QED
      BY <2>1, <3>1, EmptyRead
  <2>2. CASE Head(giftWire).gifts # <<>>
    BY <1>2, <2>2, PartRead
  <2> QED
    BY <2>1, <2>2
<1>3. CASE RecvRoleUpdateInfo
  <2>1. /\ GiftReceive("AllianceBox1") /\ UNCHANGED giftTable /\ UNCHANGED giftServer
        /\ gift_state' = gift_state
        /\ giftRequests' = Append(giftRequests, [type |-> "Open", sn |-> Head(giftWire).sn])
    BY <1>3 DEF RecvRoleUpdateInfo, RequestOpenAllianceGift
  <2>2. Head(giftWire) \in GiftPacketType /\ Head(giftWire).type = "AllianceBox1"
    BY <1>0, <2>1, FrontGift
  <2>3. [type |-> "Open", sn |-> Head(giftWire).sn] \in GiftRequestType
    BY <2>2 DEF GiftPacketType, GiftRequestType
  <2>4. GiftReads("AllianceBox1")
    BY <1>0, <2>1, <2>3 DEF GiftReads, GiftTypeOK
  <2> QED
    BY <2>1, <2>4, QuietRead
<1>4. CASE RecvAllianceGiftOpen
  <2>1. UNCHANGED giftTable /\ GiftReads("Opened")
    BY <1>0, <1>4 DEF RecvAllianceGiftOpen, GiftReads, GiftTypeOK
  <2> QED
    BY <2>1, QuietRead
<1>5. CASE RecvDeleteAllianceGiftBox
  BY <1>5, DeletedRead
<1> QED
  BY <1>1, <1>2, <1>3, <1>4, <1>5 DEF GiftPacket

LEMMA GiftTicks ==
  ASSUME GiftInv, AllianceGiftTick
  PROVE  GiftInv'
<1>1. /\ UNCHANGED <<giftTable, giftWire, giftServer>> /\ gift_state' = "OPENING"
  BY DEF AllianceGiftTick
<1>2. PICK i \in Openable : giftRequests' = Append(giftRequests, [type |-> "Open", sn |-> gifts[i].sn])
  BY DEF AllianceGiftTick, RequestOpenAllianceGift
<1>3. giftRequests' \in Seq(GiftRequestType)
  <2>1. gift_count \in Nat /\ i \in 0..(gift_count - 1)
    BY DEF Openable, Slot, GiftInv, GiftTypeOK
  <2>2. gifts[i].sn \in Gifts
    BY <2>1 DEF GiftInv, Marks
  <2>3. [type |-> "Open", sn |-> gifts[i].sn] \in GiftRequestType
    BY <2>2 DEF GiftRequestType
  <2> QED
    BY <1>2, <2>3 DEF GiftInv, GiftTypeOK
<1>4. OnceEach' /\ WholeList' /\ OffsetAtEnd' /\ Marks'
  <2>1. \A g \in Gifts : InBox(g) => InBox(g)'
    BY <1>1 DEF InBox, giftServer
  <2> QED
    BY <1>1, <2>1, StillGifts DEF giftTable, giftServer
<1>5. GiftTypeOK'
  BY <1>1, <1>3 DEF GiftInv, GiftTypeOK, GiftStates, giftTable, giftServer
<1> QED
  BY <1>4, <1>5 DEF GiftInv

\* The gifts of a list are in the table once each, in its first slots, however
\* the list was cut; what is marked is gone, and what is not is in the box or
\* its deletion is still to be read.
THEOREM GiftInvariant == GiftSpec => []GiftInv
<1>1. GiftInit => GiftInv
  BY GiftStart
<1>2. GiftInv /\ [GiftNext]_giftVars => GiftInv'
  <2> SUFFICES ASSUME GiftInv, [GiftNext]_giftVars PROVE GiftInv'
    OBVIOUS
  <2>1. CASE GiftPacket
    BY <2>1, GiftHandles
  <2>2. CASE AllianceGiftTick
    BY <2>2, GiftTicks
  <2>3. CASE GiftServer
    BY <2>3, GiftServes
  <2>4. CASE UNCHANGED giftVars
    <3>1. UNCHANGED <<giftTable, gift_state, giftRequests, giftWire, giftServer>>
      BY <2>4 DEF giftVars
    <3>2. \A g \in Gifts : InBox(g) => InBox(g)'
      BY <3>1 DEF InBox, giftServer
    <3>3. OnceEach' /\ WholeList' /\ OffsetAtEnd' /\ Marks'
      BY <3>1, <3>2, StillGifts DEF giftTable, giftServer
    <3>4. GiftTypeOK'
      BY <3>1 DEF GiftInv, GiftTypeOK, giftTable, giftServer
    <3> QED
      BY <3>3, <3>4 DEF GiftInv
  <2> QED
    BY <2>1, <2>2, <2>3, <2>4 DEF GiftNext
<1> QED
  BY <1>1, <1>2, PTL DEF GiftSpec

\* As long as every list the server sends fits the 300 slots (StartList; there
\* may be any number of gifts over time), RecvAllianceGiftInfo, which tests
\* nothing, writes inside the table, and gift_offset stays within gift_count.
THEOREM GiftTypes == GiftSpec => []GiftTypeOK
<1>1. GiftInv => GiftTypeOK
  BY DEF GiftInv
<1> QED
  BY <1>1, GiftInvariant, PTL

\* Once a list and the deletions are read, RecvAllianceGiftInfo and
\* RecvDeleteAllianceGiftBox have left in the table what the server listed,
\* marked where it is gone: for any cut of the list, any number of lists and
\* any announcements, openings and deletions in between.
THEOREM TableMirrorsBoxAlways == GiftSpec => []TableMirrorsBox
<1>1. GiftInv => TableMirrorsBox
  <2> SUFFICES ASSUME GiftInv, ListRead PROVE
          /\ TableSn = listed
          /\ \A i \in 0..(gift_count - 1) :
               gifts[i].status = GIFT_DELETED <=> ~InBox(gifts[i].sn)
    BY DEF TableMirrorsBox, TableSn
  <2>1. PICK z \in Nat : z = Behind /\ z >= 1
    <3>1. giftWire \in Seq(GiftPacketType)
      BY DEF GiftInv, GiftTypeOK
    <3> QED
      BY <3>1 DEF Behind
  <2>2. /\ listed # {} /\ sending = "no" /\ rest = <<>> /\ DOMAIN rest = {}
        /\ \A n : ~Part(n)
        /\ \A n, g : ~DeletedBehind(n, g)
    BY DEF ListRead, Told, Part, DeletedBehind, GiftInv, WholeList
  <2>3. /\ Starts = {} /\ Held[0] = TableSn
        /\ \A n \in 0..z : n # 0 => Held[n] = {}
    <3>1. {rest[k] : k \in DOMAIN rest} = {} /\ GiftPlaces = 0..z /\ 0 \in 0..z
      BY <2>1, <2>2 DEF GiftPlaces
    <3> QED
      BY <2>1, <2>2, <3>1 DEF Starts, Held
  <2>4. \A g : g \in listed <=> \E n \in 0..z : g \in Held[n] /\ SameList(Starts, n, z)
    <3>1. Whole(Held, Starts, z, listed)
      BY <2>1, <2>2 DEF GiftInv, WholeList
    <3> QED
      BY <3>1, WholeIs
  <2>5. TableSn = listed
    <3>1. SameList(Starts, 0, z) /\ 0 \in 0..z
      BY <2>3 DEF SameList
    <3> QED
      BY <2>3, <2>4, <3>1
  <2>6. ASSUME NEW i \in 0..(gift_count - 1)
        PROVE  gifts[i].status = GIFT_DELETED <=> ~InBox(gifts[i].sn)
    <3>1. PICK g \in Gifts : g = gifts[i].sn
      BY DEF GiftInv, Marks
    <3>2. IF gifts[i].status = GIFT_DELETED THEN box[g] = GONE ELSE InBox(g)
      BY <2>2, <3>1 DEF GiftInv, Marks
    <3> QED
      BY <3>1, <3>2 DEF InBox, GONE, GIFT_NEW, GIFT_OPEN, GIFT_EXP
  <2> QED
    BY <2>5, <2>6
<1> QED
  BY <1>1, GiftInvariant, PTL

-----------------------------------------------------------------------------
(***************************************************************************)
(* The roll of members.  It goes the same way as a list of gifts, but only *)
(* the packets' turn tells the table where a list begins, and updates may  *)
(* stand between the packets.                                              *)
(***************************************************************************)

\* The packet in front.
LEMMA FrontMember ==
  ASSUME MemberTypeOK, NEW t, MemberReceive(t)
  PROVE  /\ Head(memberWire) \in MemberPacketType /\ Head(memberWire).type = t
         /\ Head(memberWire) = memberWire[1] /\ 1 \in DOMAIN memberWire
         /\ RollEnd' \in Nat /\ RollEnd' >= 1 /\ RollEnd = RollEnd' + 1
         /\ DOMAIN memberWire = 1..RollEnd' /\ DOMAIN memberWire' = 1..(RollEnd' - 1)
         /\ \A n \in DOMAIN memberWire' :
              /\ n \in Nat /\ n >= 1
              /\ n + 1 \in DOMAIN memberWire /\ memberWire'[n] = memberWire[n + 1]
         /\ \A n \in DOMAIN memberWire : n \in Nat /\ (n = 1 \/ n - 1 \in DOMAIN memberWire')
<1>1. /\ memberWire \in Seq(MemberPacketType) /\ memberWire # <<>>
      /\ memberWire' = Tail(memberWire) /\ Head(memberWire).type = t
  BY DEF MemberTypeOK, MemberReceive
<1>2. /\ Len(memberWire) \in Nat /\ Len(memberWire) >= 1
      /\ DOMAIN memberWire = 1..Len(memberWire)
      /\ Len(memberWire') = Len(memberWire) - 1
      /\ DOMAIN memberWire' = 1..(Len(memberWire) - 1)
      /\ \A n \in 1..(Len(memberWire) - 1) : memberWire'[n] = memberWire[n + 1]
      /\ Head(memberWire) = memberWire[1] /\ Head(memberWire) \in MemberPacketType
  BY <1>1
<1>3. RollEnd' = Len(memberWire) /\ RollEnd = Len(memberWire) + 1
  BY <1>2 DEF RollEnd
<1>4. ASSUME NEW z \in Nat, z >= 1
      PROVE  /\ 1 \in 1..z
             /\ \A n \in 1..(z - 1) : n \in Nat /\ n >= 1 /\ n + 1 \in 1..z
             /\ \A n \in 1..z : n \in Nat /\ (n = 1 \/ n - 1 \in 1..(z - 1))
  BY <1>4
<1> QED
  BY <1>1, <1>2, <1>3, <1>4

\* What the front packet is to the table.
LEMMA FrontPlaces ==
  ASSUME MemberTypeOK, NEW t, MemberReceive(t)
  PROVE  /\ 0 \in Talkers
         /\ 0 \in Enders <=> (data_finished \/ recv_index = 0)
         /\ 0 \in Enders' <=> (data_finished' \/ recv_index' = 0)
         /\ IsFull(1) <=> t = "Full"
         /\ IsUpdate(1) <=> t = "Update"
         /\ 1 \in Talkers <=> t \in {"Full", "Update"}
         /\ 1 \in Enders <=> (t \in {"Full", "Update"} /\ Head(memberWire).last)
         /\ 1 \in Goers <=> (t = "Full" /\ ~Head(memberWire).first)
         /\ 1 \in Firsts <=> (t = "Full" /\ Head(memberWire).first)
         /\ Called[0] = IF SameList(Firsts, 0, RollEnd) THEN {member[i].user_id : i \in Rows}
                                                        ELSE {}
         /\ Called'[0] = IF SameList(Firsts', 0, RollEnd')
                           THEN {member'[i].user_id : i \in Rows'} ELSE {}
         /\ Called[1] = IF SameList(Firsts, 1, RollEnd) /\ t = "Full"
                          THEN {Head(memberWire).members[k].user_id :
                                  k \in DOMAIN Head(memberWire).members}
                          ELSE {}
<1>1. PICK z \in Nat : z = RollEnd'
  BY FrontMember
<1>2. /\ z >= 1 /\ RollEnd = z + 1 /\ Head(memberWire) = memberWire[1]
      /\ Head(memberWire).type = t /\ 1 \in DOMAIN memberWire
      /\ DOMAIN memberWire = 1..z /\ DOMAIN memberWire' = 1..(z - 1)
  BY <1>1, FrontMember
<1>3. RollPlaces = 0..(z + 1) /\ RollPlaces' = 0..z
  BY <1>1, <1>2 DEF RollPlaces
<1>4. /\ 0 \in 0..(z + 1) /\ 1 \in 0..(z + 1) /\ 0 \in 0..z
      /\ 0 # z + 1 /\ 1 # z + 1 /\ 0 # z /\ 0 \notin 1..z /\ 0 \notin 1..(z - 1)
  BY <1>2
<1>5. /\ IsFull(1) <=> t = "Full"
      /\ IsUpdate(1) <=> t = "Update"
      /\ ~IsFull(0) /\ ~IsUpdate(0) /\ ~IsFull(0)' /\ ~IsUpdate(0)'
  BY <1>2, <1>4 DEF IsFull, IsUpdate
<1>6. /\ 0 \in Talkers
      /\ 0 \in Enders <=> (data_finished \/ recv_index = 0)
      /\ 0 \in Enders' <=> (data_finished' \/ recv_index' = 0)
  BY <1>3, <1>4, <1>5 DEF Talkers, Enders
<1>7. /\ 1 \in Talkers <=> t \in {"Full", "Update"}
      /\ 1 \in Enders <=> (t \in {"Full", "Update"} /\ Head(memberWire).last)
      /\ 1 \in Goers <=> (t = "Full" /\ ~Head(memberWire).first)
      /\ 1 \in Firsts <=> (t = "Full" /\ Head(memberWire).first)
  BY <1>2, <1>3, <1>4, <1>5 DEF Talkers, Enders, Goers, Firsts
<1>8. /\ Called[0] = IF SameList(Firsts, 0, RollEnd) THEN {member[i].user_id : i \in Rows}
                                                     ELSE {}
      /\ Called[1] = IF SameList(Firsts, 1, RollEnd) /\ t = "Full"
                          THEN {Head(memberWire).members[k].user_id :
                                  k \in DOMAIN Head(memberWire).members}
                          ELSE {}
  BY <1>2, <1>3, <1>4, <1>5 DEF Called
<1>9. Called'[0] = IF SameList(Firsts', 0, RollEnd')
                     THEN {member'[i].user_id : i \in Rows'} ELSE {}
  BY <1>3, <1>4 DEF Called
<1> QED
  BY <1>5, <1>6, <1>7, <1>8, <1>9

\* The others move up.
LEMMA MovePlaces ==
  ASSUME MemberTypeOK, NEW t, MemberReceive(t), UNCHANGED memberServer
  PROVE  /\ \A n \in 1..RollEnd' : n \in Firsts' <=> n + 1 \in Firsts
         /\ \A n \in 1..RollEnd' : n \in Talkers' <=> n + 1 \in Talkers
         /\ \A n \in 1..RollEnd' : n \in Enders' <=> n + 1 \in Enders
         /\ \A n \in 1..RollEnd' : n \in Goers' <=> n + 1 \in Goers
         /\ \A n \in DOMAIN memberWire' : IsFull(n)' <=> IsFull(n + 1)
         /\ \A n \in DOMAIN memberWire' : IsUpdate(n)' <=> IsUpdate(n + 1)
         /\ \A n \in 0..RollEnd' :
              SameList(Firsts', n, RollEnd') <=> SameList(Firsts, n + 1, RollEnd)
         /\ \A n \in 1..RollEnd' : Called'[n] = Called[n + 1]
<1>1. PICK z \in Nat : z = RollEnd'
  BY FrontMember
<1>2. /\ z >= 1 /\ RollEnd = z + 1
      /\ DOMAIN memberWire = 1..z /\ DOMAIN memberWire' = 1..(z - 1)
      /\ \A n \in 1..(z - 1) : memberWire'[n] = memberWire[n + 1]
  BY <1>1, FrontMember
<1>3. RollPlaces = 0..(z + 1) /\ RollPlaces' = 0..z
  BY <1>1, <1>2 DEF RollPlaces
<1>4. open' = open /\ roll' = roll /\ toSend' = toSend /\ (Unsent' <=> Unsent)
  BY DEF memberServer, Unsent
<1>5. ASSUME NEW n \in 1..z
      PROVE  /\ IsFull(n)' <=> IsFull(n + 1)
             /\ IsUpdate(n)' <=> IsUpdate(n + 1)
             /\ (n \in 1..(z - 1) /\ memberWire'[n] = memberWire[n + 1]) \/ n = z
             /\ n = z => ~IsFull(n)' /\ ~IsUpdate(n)'
             /\ n = z <=> n + 1 = z + 1
             /\ n \in 0..z /\ n + 1 \in 0..(z + 1) /\ n # 0 /\ n + 1 # 0
  <2>1. CASE n = z
    <3>1. n \notin 1..(z - 1) /\ n + 1 \notin 1..z
      BY <2>1
    <3> QED
      BY <1>2, <2>1, <3>1 DEF IsFull, IsUpdate
  <2>2. CASE n # z
    <3>1. n \in 1..(z - 1) /\ n + 1 \in 1..z
      BY <2>2
    <3> QED
      BY <1>2, <2>2, <3>1 DEF IsFull, IsUpdate
  <2> QED
    BY <2>1, <2>2
<1>6. ASSUME NEW n \in 1..z
      PROVE  /\ n \in Firsts' <=> n + 1 \in Firsts
             /\ n \in Talkers' <=> n + 1 \in Talkers
             /\ n \in Enders' <=> n + 1 \in Enders
             /\ n \in Goers' <=> n + 1 \in Goers
  <2>1. n \in RollPlaces' /\ n + 1 \in RollPlaces /\ n # 0 /\ n + 1 # 0
        /\ (n = RollEnd' <=> n + 1 = RollEnd)
    BY <1>1, <1>2, <1>3, <1>5
  <2>2. CASE n = z
    BY <1>4, <1>5, <2>1, <2>2 DEF Firsts, Talkers, Enders, Goers
  <2>3. CASE n # z
    <3>1. memberWire'[n] = memberWire[n + 1]
      BY <1>5, <2>3
    <3> QED
      BY <1>1, <1>5, <2>1, <2>3, <3>1 DEF Firsts, Talkers, Enders, Goers
  <2> QED
    BY <2>2, <2>3
<1>7. \A n \in 0..z : SameList(Firsts', n, z) <=> SameList(Firsts, n + 1, z + 1)
  <2>1. z \in 0..z
    OBVIOUS
  <2> QED
    BY <1>6, <2>1, MoveSame
<1>8. ASSUME NEW n \in 1..z PROVE Called'[n] = Called[n + 1]
  <2>1. n \in RollPlaces' /\ n + 1 \in RollPlaces /\ n # 0 /\ n + 1 # 0
        /\ (n = RollEnd' <=> n + 1 = RollEnd)
    BY <1>1, <1>2, <1>3, <1>5
  <2>2. SameList(Firsts', n, RollEnd') <=> SameList(Firsts, n + 1, RollEnd)
    BY <1>1, <1>2, <1>5, <1>7
  <2>3. CASE n = z
    BY <1>1, <1>4, <2>1, <2>2, <2>3 DEF Called
  <2>4. CASE n # z
    <3>1. memberWire'[n] = memberWire[n + 1] /\ (IsFull(n)' <=> IsFull(n + 1)) /\ n # RollEnd'
      BY <1>1, <1>5, <2>4
    <3> QED
      BY <2>1, <2>2, <3>1 DEF Called
  <2> QED
    BY <2>3, <2>4
<1>9. /\ 1..RollEnd' = 1..z /\ 0..RollEnd' = 0..z /\ \A n \in DOMAIN memberWire' : n \in 1..z
  <2>1. \A n \in 1..(z - 1) : n \in 1..z
    OBVIOUS
  <2> QED
    BY <1>1, <1>2, <2>1
<1>10. \A n \in 0..RollEnd' :
              SameList(Firsts', n, RollEnd') <=> SameList(Firsts, n + 1, RollEnd)
  BY <1>1, <1>2, <1>7, <1>9
<1> QED
  BY <1>5, <1>6, <1>8, <1>9, <1>10

\* A packet that is read hands its turn to the table.
LEMMA ReadTurns ==
  ASSUME MemberTypeOK, RollInv, NEW t, MemberReceive(t), UNCHANGED memberServer,
         (data_finished' \/ recv_index' = 0)
           <=> IF t \in {"Full", "Update"} THEN Head(memberWire).last
               ELSE data_finished \/ recv_index = 0,
         recv_index' = 0 /\ ~data_finished' => count' = 0
  PROVE  RollTurns'
<1>1. RollEnd' \in Nat /\ RollEnd = RollEnd' + 1
  BY FrontMember
<1>2. Turns(Talkers, Enders, Goers, RollEnd' + 1)
  BY <1>1 DEF RollInv, RollTurns
<1>3. 0 \in Talkers /\ (0 \in Enders' <=> IF 1 \in Talkers THEN 1 \in Enders ELSE 0 \in Enders)
  <2>1. /\ 0 \in Talkers
        /\ 0 \in Enders <=> (data_finished \/ recv_index = 0)
        /\ 0 \in Enders' <=> (data_finished' \/ recv_index' = 0)
        /\ 1 \in Talkers <=> t \in {"Full", "Update"}
        /\ 1 \in Enders <=> (t \in {"Full", "Update"} /\ Head(memberWire).last)
    BY FrontPlaces
  <2>2. CASE t \in {"Full", "Update"}
    BY <2>1, <2>2
  <2>3. CASE t \notin {"Full", "Update"}
    BY <2>1, <2>3
  <2> QED
    BY <2>2, <2>3
<1>4. /\ \A n \in 1..RollEnd' : n \in Talkers' <=> n + 1 \in Talkers
      /\ \A n \in 1..RollEnd' : n \in Enders' <=> n + 1 \in Enders
      /\ \A n \in 1..RollEnd' : n \in Goers' <=> n + 1 \in Goers
  BY MovePlaces
<1>5. Turns(Talkers', Enders', Goers', RollEnd')
  BY <1>1, <1>2, <1>3, <1>4, PourTurns
<1> QED
  BY <1>5 DEF RollTurns

LEMMA ReadOnce ==
  ASSUME MemberTypeOK, RollInv, NEW t, MemberReceive(t), UNCHANGED memberServer
  PROVE  RollOnce'
<1>1. \A n \in DOMAIN memberWire' :
        n + 1 \in DOMAIN memberWire /\ memberWire'[n] = memberWire[n + 1]
  BY FrontMember
<1>2. \A n \in DOMAIN memberWire' :
        (IsFull(n)' <=> IsFull(n + 1)) /\ (IsUpdate(n)' <=> IsUpdate(n + 1))
  BY MovePlaces
<1>3. alliance' = alliance /\ open' = open /\ roll' = roll /\ toSend' = toSend
  BY DEF memberServer
<1> QED
  BY <1>1, <1>2, <1>3 DEF RollInv, RollOnce

\* A packet whose members are poured into the table.
LEMMA ReadWhole ==
  ASSUME MemberTypeOK, RollInv, NEW t, MemberReceive(t), UNCHANGED memberServer,
         Fits => Called'[0] = IF 1 \in Firsts THEN Called[1] ELSE Called[0] \cup Called[1]
  PROVE  RollWhole'
<1>1. RollEnd' \in Nat /\ RollEnd = RollEnd' + 1
  BY FrontMember
<1>2. /\ \A n \in 1..RollEnd' : Called'[n] = Called[n + 1]
      /\ \A n \in 1..RollEnd' : n \in Firsts' <=> n + 1 \in Firsts
  BY MovePlaces
<1>3. (Fits' <=> Fits) /\ roll' = roll
  BY DEF Fits, memberServer
<1>4. ASSUME Fits
      PROVE  Apart(Called', Firsts', RollEnd') /\ Whole(Called', Firsts', RollEnd', roll)
  <2>1. /\ Apart(Called, Firsts, RollEnd' + 1)
        /\ Whole(Called, Firsts, RollEnd' + 1, roll)
    BY <1>1, <1>4 DEF RollInv, RollWhole
  <2>0. PICK e : e = {}
    OBVIOUS
  <2>2. Closed(Called, Firsts, e, RollEnd' + 1)
    BY <2>0 DEF Closed
  <2>3. \A n \in 1..RollEnd' : n \in e <=> n + 1 \in e
    BY <2>0
  <2>4. Called'[0] = IF 1 \in Firsts THEN Called[1] ELSE Called[0] \cup Called[1]
    BY <1>4
  <2>5. 0 \notin e
    BY <2>0
  <2> QED
    BY <1>1, <1>2, <2>1, <2>2, <2>3, <2>4, <2>5, Pour
<1> QED
  BY <1>3, <1>4 DEF RollWhole

LEMMA ReadBehind ==
  ASSUME MemberTypeOK, RollInv, NEW t, MemberReceive(t), UNCHANGED memberServer
  PROVE  /\ \A n \in Nat : \A m : NoneBehind(n, m)' => NoneBehind(n + 1, m)
         /\ \A m : NoneBehind(0, m)' /\ ~(t = "Update" /\ Mentions(Head(memberWire).members, m))
                     => NoneBehind(0, m)
<1>1. /\ Head(memberWire) = memberWire[1]
      /\ \A n \in DOMAIN memberWire : n \in Nat /\ (n = 1 \/ n - 1 \in DOMAIN memberWire')
      /\ \A n \in DOMAIN memberWire' : n \in Nat /\ n >= 1 /\ memberWire'[n] = memberWire[n + 1]
      /\ \A n \in DOMAIN memberWire' : IsUpdate(n)' <=> IsUpdate(n + 1)
      /\ IsUpdate(1) <=> t = "Update"
  BY FrontMember, FrontPlaces, MovePlaces
<1>2. ASSUME NEW n \in Nat, NEW m, NEW j \in DOMAIN memberWire, j # 1, j > n, IsUpdate(j),
             Mentions(memberWire[j].members, m)
      PROVE  \E i \in DOMAIN memberWire' :
               i + 1 = j /\ i >= 1 /\ IsUpdate(i)' /\ Mentions(memberWire'[i].members, m)
  <2>1. j - 1 \in DOMAIN memberWire' /\ (j - 1) + 1 = j
    BY <1>1, <1>2
  <2> QED
    BY <1>1, <1>2, <2>1
<1>3. ASSUME NEW n \in Nat, NEW m, NoneBehind(n, m)' PROVE NoneBehind(n + 1, m)
  <2> SUFFICES ASSUME NEW j \in DOMAIN memberWire, j > n + 1, IsUpdate(j),
                      Mentions(memberWire[j].members, m)
               PROVE  FALSE
    BY DEF NoneBehind
  <2>1. j # 1 /\ j > n /\ j \in Nat
    BY <1>1
  <2>2. PICK i \in DOMAIN memberWire' :
               i + 1 = j /\ IsUpdate(i)' /\ Mentions(memberWire'[i].members, m)
    BY <1>2, <2>1
  <2>3. i > n
    BY <1>1, <2>2
  <2> QED
    BY <1>3, <2>2, <2>3 DEF NoneBehind
<1>4. ASSUME NEW m, NoneBehind(0, m)',
             ~(t = "Update" /\ Mentions(Head(memberWire).members, m))
      PROVE  NoneBehind(0, m)
  <2> SUFFICES ASSUME NEW j \in DOMAIN memberWire, j > 0, IsUpdate(j),
                      Mentions(memberWire[j].members, m)
               PROVE  FALSE
    BY DEF NoneBehind
  <2>1. j # 1
    BY <1>1, <1>4
  <2>2. PICK i \in DOMAIN memberWire' :
               i >= 1 /\ IsUpdate(i)' /\ Mentions(memberWire'[i].members, m)
    BY <1>2, <2>1, 0 \in Nat
  <2>3. i > 0
    BY <1>1, <2>2
  <2> QED
    BY <1>4, <2>2, <2>3 DEF NoneBehind
<1> QED
  BY <1>3, <1>4

LEMMA ReadFresh ==
  ASSUME MemberTypeOK, RollInv, NEW t, MemberReceive(t), UNCHANGED memberServer
  PROVE  WireFresh'
<1>1. \A n \in DOMAIN memberWire' :
        n \in Nat /\ n + 1 \in DOMAIN memberWire /\ memberWire'[n] = memberWire[n + 1]
  BY FrontMember
<1>2. \A n \in DOMAIN memberWire' :
        (IsFull(n)' <=> IsFull(n + 1)) /\ (IsUpdate(n)' <=> IsUpdate(n + 1))
  BY MovePlaces
<1>3. \A n \in Nat : \A m : NoneBehind(n, m)' => NoneBehind(n + 1, m)
  BY ReadBehind
<1>4. version' = version
  BY DEF memberServer
<1>5. ASSUME NEW m \in Members, NEW n \in DOMAIN memberWire', NoneBehind(n, m)'
      PROVE  IsFull(n)' \/ IsUpdate(n)' => \A k \in DOMAIN memberWire'[n].members :
                memberWire'[n].members[k].user_id = m =>
                  memberWire'[n].members[k].version = version'[m]
  <2>1. NoneBehind(n + 1, m)
    BY <1>1, <1>3, <1>5
  <2> QED
    BY <1>1, <1>2, <1>4, <2>1 DEF RollInv, WireFresh
<1> QED
  BY <1>5 DEF WireFresh

\* The entries the table keeps when it reads a part of a list.
Kept == IF Head(memberWire).first THEN 0 ELSE count

\* A list begins where the one before has ended, and goes on where it was left.
LEMMA Carry ==
  ASSUME MemberTypeOK, RollInv, RecvMemberList, MAX_ALLIANCE_MEMBER \in 1..(U8 - 1)
  PROVE  LET m == Head(memberWire)
             start == IF m.first THEN 0 ELSE recv_index
             end == Least(start + Len(m.members), MAX_ALLIANCE_MEMBER) IN
         /\ m.members \in Seq(MemberEntryType) /\ Len(m.members) \in Nat
         /\ Len(m.members) >= 1 /\ m.last \in BOOLEAN /\ m.first \in BOOLEAN
         /\ ~m.first => ~data_finished
         /\ Kept \in Nat
         /\ count' = (Len(m.members) + Kept) % U8
         /\ member' = [i \in DOMAIN member \cup start..(end - 1) |->
                         IF i \in start..(end - 1) THEN m.members[i - start + 1]
                                                   ELSE member[i]]
         /\ Finish(m.last, end)
         /\ end \in 1..MAX_ALLIANCE_MEMBER
<1> DEFINE m == Head(memberWire)
           start == IF m.first THEN 0 ELSE recv_index
           before == IF data_finished THEN 0 ELSE recv_index
<1>1. MemberReceive("Full")
  BY DEF RecvMemberList
<1>2. /\ m \in MemberPacketType /\ m.type = "Full" /\ m = memberWire[1]
      /\ 1 \in DOMAIN memberWire /\ IsFull(1)
  BY <1>1, FrontMember, FrontPlaces
<1>3. m.members \in Seq(MemberEntryType) /\ m.last \in BOOLEAN /\ m.first \in BOOLEAN
  BY <1>2 DEF MemberPacketType
<1>4. m.members # <<>>
  BY <1>2 DEF RollInv, RollOnce
<1> HIDE DEF m
<1>5. Len(m.members) \in Nat /\ Len(m.members) >= 1
  BY <1>3, <1>4
<1>6. m.first <=> (data_finished \/ recv_index = 0)
  <2>1. /\ 0 \in Talkers /\ 1 \in Talkers
        /\ 0 \in Enders <=> (data_finished \/ recv_index = 0)
        /\ 1 \in Goers <=> ~m.first
    BY <1>1, FrontPlaces DEF m
  <2>2. PICK z \in Nat : z = RollEnd /\ z >= 1
    BY <1>1, FrontMember
  <2>3. /\ 0 \in 0..z /\ 1 \in 0..z /\ 0 < 1
        /\ \A j \in (0 + 1)..(1 - 1) : j \notin Talkers
    BY <2>2
  <2>4. 0 \in Enders <=> 1 \notin Goers
    BY <2>1, <2>2, <2>3 DEF RollInv, RollTurns, Turns
  <2> QED
    BY <1>3, <2>1, <2>4
<1>7. /\ count \in Nat /\ recv_index \in 0..MAX_ALLIANCE_MEMBER /\ data_finished \in BOOLEAN
      /\ MAX_ALLIANCE_MEMBER \in Nat
      /\ recv_index = 0 /\ ~data_finished => count = 0
  BY MemberAssumption DEF MemberTypeOK, RollInv, RollTurns
<1>8. start = before /\ start \in 0..MAX_ALLIANCE_MEMBER
  BY <1>3, <1>6, <1>7
<1>9. Kept = (IF data_finished THEN 0 ELSE count) /\ Kept \in Nat
  BY <1>3, <1>6, <1>7 DEF Kept, m
<1>10. /\ count' = (Len(m.members) + IF data_finished THEN 0 ELSE count) % U8
       /\ member' = [i \in DOMAIN member
                             \cup before..(Least(before + Len(m.members),
                                                 MAX_ALLIANCE_MEMBER) - 1) |->
                      IF i \in before..(Least(before + Len(m.members),
                                              MAX_ALLIANCE_MEMBER) - 1)
                        THEN m.members[i - before + 1] ELSE member[i]]
       /\ Finish(m.last, Least(before + Len(m.members), MAX_ALLIANCE_MEMBER))
  BY DEF RecvMemberList, m
<1> HIDE DEF start, before
<1>11. Least(start + Len(m.members), MAX_ALLIANCE_MEMBER) \in 1..MAX_ALLIANCE_MEMBER
  BY <1>5, <1>7, <1>8 DEF Least
<1>12. ~m.first => ~data_finished
  BY <1>6
<1> QED
  BY <1>3, <1>5, <1>8, <1>9, <1>10, <1>11, <1>12 DEF m, start

\* What the table then has of the list, when the list is the one sent last.
LEMMA ListRows ==
  ASSUME MemberTypeOK, RollInv, RecvMemberList, MAX_ALLIANCE_MEMBER \in 1..(U8 - 1),
         Fits, SameList(Firsts, 1, RollEnd)
  PROVE  LET m == Head(memberWire) IN
         /\ ~m.first => OnTable
         /\ Kept \in Nat /\ Len(m.members) \in Nat
         /\ count' = Kept + Len(m.members) /\ count' <= MAX_ALLIANCE_MEMBER
         /\ ~data_finished' => recv_index' = count'
         /\ \A i \in 0..(count' - 1) :
              member'[i] = IF i < Kept THEN member[i] ELSE m.members[i - Kept + 1]
         /\ \A i \in 0..(count' - 1) : member'[i].user_id \in Members
         /\ \A i, j \in 0..(count' - 1) : member'[i].user_id = member'[j].user_id => i = j
<1> DEFINE m == Head(memberWire)
           k == Len(m.members)
           c == Kept
           g == [i \in 0..(c + k - 1) |-> IF i < c THEN member[i] ELSE m.members[i - c + 1]]
           f == [i \in 0..(c + k - 1) |-> g[i].user_id]
<1>1. MemberReceive("Full")
  BY DEF RecvMemberList
<1>2. /\ m.members \in Seq(MemberEntryType) /\ k \in Nat /\ k >= 1
      /\ m.last \in BOOLEAN /\ m.first \in BOOLEAN
      /\ ~m.first => ~data_finished
      /\ c \in Nat
  BY Carry
<1>3. /\ m = memberWire[1] /\ 1 \in DOMAIN memberWire /\ IsFull(1)
      /\ 1 \in Firsts <=> m.first
      /\ Called[1] = {m.members[n].user_id : n \in DOMAIN m.members}
      /\ Called[0] = IF SameList(Firsts, 0, RollEnd) THEN {member[i].user_id : i \in Rows}
                                                     ELSE {}
  BY <1>1, FrontMember, FrontPlaces
<1>4. PICK z \in Nat : z = RollEnd /\ z >= 1
  BY <1>1, FrontMember
<1>5. SameList(Firsts, 0, RollEnd) <=> 1 \notin Firsts
  <2>1. 0 \in Nat /\ 0 < z /\ 0 + 1 = 1
    BY <1>4
  <2>2. SameList(Firsts, 0, z) <=> 0 + 1 \notin Firsts /\ SameList(Firsts, 0 + 1, z)
    BY <2>1, SameSplit
  <2> QED
    BY <1>4, <2>1, <2>2
<1>6. ~m.first => OnTable
  BY <1>3, <1>5 DEF OnTable
<1>7. /\ \A n \in DOMAIN m.members : m.members[n].user_id \in Members
      /\ \A n, l \in DOMAIN m.members : m.members[n].user_id = m.members[l].user_id => n = l
  BY <1>3 DEF RollInv, RollOnce
<1>8. ~m.first =>
        /\ c = count /\ count <= MAX_ALLIANCE_MEMBER /\ recv_index = count
        /\ \A i \in Rows : member[i].user_id \in Members
        /\ \A i, j \in Rows : member[i].user_id = member[j].user_id => i = j
        /\ \A i \in Rows, n \in DOMAIN m.members : member[i].user_id # m.members[n].user_id
  <2> SUFFICES ASSUME ~m.first
               PROVE  /\ c = count /\ count <= MAX_ALLIANCE_MEMBER /\ recv_index = count
                      /\ \A i \in Rows : member[i].user_id \in Members
                      /\ \A i, j \in Rows : member[i].user_id = member[j].user_id => i = j
                      /\ \A i \in Rows, n \in DOMAIN m.members :
                           member[i].user_id # m.members[n].user_id
    OBVIOUS
  <2>1. /\ count <= MAX_ALLIANCE_MEMBER /\ recv_index = count
        /\ \A i \in Rows : member[i].user_id \in Members
        /\ \A i, j \in Rows : member[i].user_id = member[j].user_id => i = j
    BY <1>2, <1>6 DEF RollInv, RollRows
  <2>2. Called[0] = {member[i].user_id : i \in Rows}
    BY <1>3, <1>5
  <2>3. Called[0] \cap Called[1] = {}
    <3>1. 0 \in 0..z /\ 1 \in 0..z /\ 0 < 1
      BY <1>4
    <3>2. SameList(Firsts, 0, 1)
      <4>1. \A j \in (0 + 1)..1 : j = 1
        OBVIOUS
      <4> QED
        BY <1>3, <4>1 DEF SameList
    <3> QED
      BY <1>4, <3>1, <3>2 DEF RollInv, RollWhole, Apart
  <2>4. \A i \in Rows, n \in DOMAIN m.members : member[i].user_id # m.members[n].user_id
    BY <1>3, <2>2, <2>3
  <2>5. c = count
    BY DEF Kept
  <2> QED
    BY <2>1, <2>4, <2>5
<1>9. m.first => c = 0
  BY DEF Kept
<1>10. /\ DOMAIN m.members = 1..k
       /\ c + k \in Nat
       /\ \A i \in 0..(c + k - 1) : i \in Nat /\ (i >= c => i - c + 1 \in 1..k)
       /\ \A i, j \in 0..(c + k - 1) :
            i >= c /\ j >= c /\ i - c + 1 = j - c + 1 => i = j
  <2>1. DOMAIN m.members = 1..k
    BY <1>2
  <2> HIDE DEF m, k, c
  <2> QED
    BY <1>2, <2>1
<1> HIDE DEF k, c, m
<1>11. \A i \in 0..(c + k - 1) : i < c => ~m.first /\ i \in Rows
  <2>1. MAX_ALLIANCE_MEMBER \in Nat
    BY MemberAssumption
  <2>2. \A i \in Nat : i < 0 => FALSE
    OBVIOUS
  <2>3. \A i \in Nat : ~m.first /\ i < c => i \in Rows
    <3> SUFFICES ASSUME NEW i \in Nat, ~m.first, i < c PROVE i \in Rows
      OBVIOUS
    <3>1. i < count /\ count \in Nat /\ i < MAX_ALLIANCE_MEMBER
      BY <1>2, <1>8, <2>1
    <3> QED
      BY <2>1, <3>1 DEF Rows, MemberSlot
  <2> QED
    BY <1>9, <1>10, <2>2, <2>3
<1>12. \A i \in 0..(c + k - 1) : f[i] \in Members
  <2> SUFFICES ASSUME NEW i \in 0..(c + k - 1) PROVE f[i] \in Members
    OBVIOUS
  <2>1. CASE i < c
    BY <1>8, <1>11, <2>1
  <2>2. CASE ~(i < c)
    <3>1. i - c + 1 \in 1..k
      BY <1>2, <1>10, <2>2
    <3> QED
      BY <1>7, <1>10, <2>2, <3>1
  <2> QED
    BY <2>1, <2>2
<1>13. \A i, j \in 0..(c + k - 1) : f[i] = f[j] => i = j
  <2>1. ASSUME NEW i \in 0..(c + k - 1), NEW j \in 0..(c + k - 1), f[i] = f[j], i < c, j < c
        PROVE  i = j
    BY <1>8, <1>11, <2>1
  <2>2. ASSUME NEW i \in 0..(c + k - 1), NEW j \in 0..(c + k - 1), f[i] = f[j], i < c, ~(j < c)
        PROVE  FALSE
    <3>1. j - c + 1 \in 1..k
      BY <1>2, <1>10, <2>2
    <3>2. f[i] = member[i].user_id /\ f[j] = m.members[j - c + 1].user_id
      BY <2>2
    <3> QED
      BY <1>8, <1>10, <1>11, <2>2, <3>1, <3>2
  <2>3. ASSUME NEW i \in 0..(c + k - 1), NEW j \in 0..(c + k - 1), f[i] = f[j],
               ~(i < c), ~(j < c)
        PROVE  i = j
    <3>1. i - c + 1 \in 1..k /\ j - c + 1 \in 1..k
      BY <1>2, <1>10, <2>3
    <3>2. f[i] = m.members[i - c + 1].user_id /\ f[j] = m.members[j - c + 1].user_id
      BY <2>3
    <3>3. i - c + 1 = j - c + 1
      BY <1>7, <1>10, <2>3, <3>1, <3>2
    <3> QED
      BY <1>2, <3>3
  <2> QED
    BY <2>1, <2>2, <2>3
<1>14. \A i \in 0..(c + k - 1) : f[i] \in roll
  <2> SUFFICES ASSUME NEW i \in 0..(c + k - 1) PROVE f[i] \in roll
    OBVIOUS
  <2>0. \A x : x \in roll <=> \E n \in 0..z : x \in Called[n] /\ SameList(Firsts, n, z)
    BY <1>4, WholeIs DEF RollInv, RollWhole
  <2>1. CASE i < c
    <3>1. f[i] = member[i].user_id /\ i \in Rows /\ ~m.first
      BY <1>11, <2>1
    <3>2. f[i] \in Called[0] /\ SameList(Firsts, 0, z) /\ 0 \in 0..z
      BY <1>3, <1>4, <1>5, <3>1
    <3> QED
      BY <2>0, <3>2
  <2>2. CASE ~(i < c)
    <3>1. i - c + 1 \in 1..k
      BY <1>2, <1>10, <2>2
    <3>2. f[i] = m.members[i - c + 1].user_id
      BY <2>2
    <3>3. f[i] \in Called[1] /\ SameList(Firsts, 1, z) /\ 1 \in 0..z
      BY <1>3, <1>4, <1>10, <3>1, <3>2
    <3> QED
      BY <2>0, <3>3
  <2> QED
    BY <2>1, <2>2
<1>15. c + k <= Cardinality(roll) /\ Cardinality(roll) \in Nat
  <2>1. IsFiniteSet(roll)
    BY MemberAssumption, FS_Subset DEF MemberTypeOK
  <2> HIDE DEF g
  <2>2. f \in [0..(c + k - 1) -> roll]
    BY <1>14
  <2> HIDE DEF f
  <2>3. PICK n \in Nat : n = c + k
    BY <1>10
  <2>4. f \in [0..(n - 1) -> roll] /\ \A i, j \in 0..(n - 1) : f[i] = f[j] => i = j
    <3>1. c + k - 1 = n - 1
      BY <1>2, <2>3
    <3> QED
      BY <1>13, <2>2, <3>1
  <2>5. n <= Cardinality(roll)
    BY <2>1, <2>4, NoLonger
  <2> QED
    BY <2>1, <2>3, <2>5, FS_CardinalityType
<1>16. /\ MAX_ALLIANCE_MEMBER \in Nat /\ U8 \in Nat \ {0} /\ MAX_ALLIANCE_MEMBER < U8
       /\ c + k <= MAX_ALLIANCE_MEMBER
  BY <1>10, <1>15, MemberAssumption DEF Fits
<1>17. count' = c + k
  <2>1. count' = (k + c) % U8
    BY Carry DEF k, c, m
  <2>2. k + c = c + k /\ 0 <= c + k /\ c + k < U8
    BY <1>2, <1>10, <1>16
  <2>3. \A u \in Nat \ {0}, n \in Nat : n < u => n % u = n
    OBVIOUS
  <2> QED
    BY <1>10, <1>16, <2>1, <2>2, <2>3
<1>18. (IF m.first THEN 0 ELSE recv_index) = c
  BY <1>8, <1>9
<1>19. /\ member' = [i \in DOMAIN member \cup c..(c + k - 1) |->
                       IF i \in c..(c + k - 1) THEN m.members[i - c + 1] ELSE member[i]]
       /\ Finish(m.last, c + k)
  <2> DEFINE s == IF m.first THEN 0 ELSE recv_index
             e == Least(s + k, MAX_ALLIANCE_MEMBER)
  <2>1. Least(c + k, MAX_ALLIANCE_MEMBER) = c + k
    BY <1>16 DEF Least
  <2>2. /\ member' = [i \in DOMAIN member \cup s..(e - 1) |->
                       IF i \in s..(e - 1) THEN m.members[i - s + 1] ELSE member[i]]
        /\ Finish(m.last, e)
    BY Carry DEF k, m
  <2>3. s = c
    BY <1>18
  <2>4. e = c + k /\ e - 1 = c + k - 1
    BY <1>2, <2>1, <2>3
  <2> HIDE DEF s, e
  <2> QED
    BY <2>2, <2>3, <2>4
<1>20. \A i \in 0..(c + k - 1) : member'[i] = g[i]
  <2> SUFFICES ASSUME NEW i \in 0..(c + k - 1) PROVE member'[i] = g[i]
    OBVIOUS
  <2>1. i \in c..(c + k - 1) <=> ~(i < c)
    BY <1>2, <1>10
  <2>2. i < c => i \in DOMAIN member
    BY <1>11 DEF Rows, MemberTypeOK
  <2> QED
    BY <1>19, <2>1, <2>2
<1>21. ~data_finished' => recv_index' = c + k
  BY <1>19 DEF Finish
<1>22. /\ \A i \in 0..(count' - 1) :
            member'[i] = IF i < c THEN member[i] ELSE m.members[i - c + 1]
       /\ \A i \in 0..(count' - 1) : member'[i].user_id \in Members
       /\ \A i, j \in 0..(count' - 1) : member'[i].user_id = member'[j].user_id => i = j
  <2>1. \A i \in 0..(c + k - 1) :
          member'[i] = IF i < c THEN member[i] ELSE m.members[i - c + 1]
    BY <1>20
  <2>2. \A i \in 0..(c + k - 1) : f[i] = member'[i].user_id
    BY <1>20
  <2> HIDE DEF f
  <2>3. count' - 1 = c + k - 1
    BY <1>2, <1>17
  <2> QED
    BY <1>12, <1>13, <2>1, <2>2, <2>3
<1> HIDE DEF f, g
<1> QED
  BY <1>2, <1>6, <1>16, <1>17, <1>21, <1>22 DEF k, c, m

LEMMA TheRows ==
  ASSUME count \in Nat, count <= MAX_ALLIANCE_MEMBER
  PROVE  \A i : i \in Rows <=> i \in 0..(count - 1)
<1>1. MAX_ALLIANCE_MEMBER \in Nat
  BY MemberAssumption
<1>2. \A i \in MemberSlot : i < count => i \in 0..(count - 1)
  BY <1>1 DEF MemberSlot
<1>3. \A i \in 0..(count - 1) : i \in MemberSlot /\ i < count
  BY <1>1 DEF MemberSlot
<1> QED
  BY <1>2, <1>3 DEF Rows

LEMMA PartOfRoll ==
  ASSUME MemberTypeOK, RollInv, RecvMemberList, MAX_ALLIANCE_MEMBER \in 1..(U8 - 1)
  PROVE  RollInv'
<1> DEFINE m == Head(memberWire)
           k == Len(m.members)
<1>1. MemberReceive("Full") /\ UNCHANGED memberServer
  BY DEF RecvMemberList
<1>2. /\ RollEnd' \in Nat /\ 0 \in 0..RollEnd' /\ RollEnd = RollEnd' + 1
      /\ m = memberWire[1] /\ 1 \in DOMAIN memberWire /\ IsFull(1)
      /\ 1 \in Firsts <=> m.first
      /\ Called[1] = IF SameList(Firsts, 1, RollEnd)
                       THEN {m.members[n].user_id : n \in DOMAIN m.members} ELSE {}
      /\ Called[0] = IF SameList(Firsts, 0, RollEnd) THEN {member[i].user_id : i \in Rows}
                                                     ELSE {}
      /\ Called'[0] = IF SameList(Firsts', 0, RollEnd')
                        THEN {member'[i].user_id : i \in Rows'} ELSE {}
  <2>1. PICK z \in Nat : z = RollEnd'
    BY <1>1, FrontMember
  <2>2. 0 \in 0..z /\ 0..z = 0..RollEnd'
    BY <2>1
  <2>3. m = memberWire[1] /\ 1 \in DOMAIN memberWire /\ RollEnd = RollEnd' + 1
    BY <1>1, FrontMember
  <2> HIDE DEF m
  <2> QED
    BY <1>1, <2>1, <2>2, <2>3, FrontPlaces DEF m
<1>3. m.members \in Seq(MemberEntryType) /\ k \in Nat /\ k >= 1 /\ DOMAIN m.members = 1..k
      /\ Kept \in Nat /\ m.first \in BOOLEAN
  BY Carry
<1>4. SameList(Firsts', 0, RollEnd') <=> SameList(Firsts, 1, RollEnd)
  <2>1. SameList(Firsts', 0, RollEnd') <=> SameList(Firsts, 0 + 1, RollEnd)
    BY <1>1, <1>2, MovePlaces
  <2> QED
    BY <2>1
<1>5. (Fits' <=> Fits) /\ (OnTable' <=> Fits /\ SameList(Firsts, 1, RollEnd))
  BY <1>1, <1>4 DEF Fits, OnTable, memberServer
<1>6. RollTurns'
  <2>1. /\ recv_index' # 0 \/ data_finished'
        /\ (data_finished' \/ recv_index' = 0) <=> m.last
    <3>1. /\ data_finished' = m.last /\ m.last \in BOOLEAN
          /\ \E e \in 1..MAX_ALLIANCE_MEMBER : recv_index' = IF m.last THEN 0 ELSE e
      BY Carry DEF Finish
    <3>2. \A e \in 1..MAX_ALLIANCE_MEMBER : e # 0
      OBVIOUS
    <3> QED
      BY <3>1, <3>2
  <2> QED
    BY <1>1, <2>1, ReadTurns
<1>7. ASSUME Fits, SameList(Firsts, 1, RollEnd)
      PROVE  /\ ~m.first => OnTable
             /\ count' = Kept + k /\ count' <= MAX_ALLIANCE_MEMBER
             /\ ~data_finished' => recv_index' = count'
             /\ \A i \in Rows' : /\ member'[i] = IF i < Kept THEN member[i]
                                                 ELSE m.members[i - Kept + 1]
                                 /\ member'[i].user_id \in Members
             /\ \A i, j \in Rows' : member'[i].user_id = member'[j].user_id => i = j
             /\ \A i : i \in Rows' <=> i \in 0..(Kept + k - 1)
             /\ \A i \in Rows' : i < Kept => ~m.first /\ i \in Rows
             /\ \A i \in Rows' : ~(i < Kept) => i - Kept + 1 \in DOMAIN m.members
  <2>1. /\ ~m.first => OnTable
        /\ count' = Kept + k /\ count' <= MAX_ALLIANCE_MEMBER
        /\ ~data_finished' => recv_index' = count'
        /\ \A i \in 0..(count' - 1) :
             member'[i] = IF i < Kept THEN member[i] ELSE m.members[i - Kept + 1]
        /\ \A i \in 0..(count' - 1) : member'[i].user_id \in Members
        /\ \A i, j \in 0..(count' - 1) : member'[i].user_id = member'[j].user_id => i = j
    BY <1>7, ListRows
  <2>2. PICK n \in Nat : n = count' /\ n <= MAX_ALLIANCE_MEMBER
    BY <1>3, <2>1
  <2>3. MAX_ALLIANCE_MEMBER \in Nat
    BY MemberAssumption
  <2>4. \A i : i \in Rows' <=> i \in 0..(n - 1)
    <3>1. \A i \in MemberSlot : i < n <=> i \in 0..(n - 1)
      BY <2>3 DEF MemberSlot
    <3>2. \A i \in 0..(n - 1) : i \in MemberSlot
      <4>1. \A a, b \in Nat : a <= b => \A i \in 0..(a - 1) : i \in 0..(b - 1)
        OBVIOUS
      <4> QED
        BY <2>2, <2>3, <4>1 DEF MemberSlot
    <3>3. Rows' = {i \in MemberSlot : i < n}
      BY <2>2 DEF Rows, MemberSlot
    <3> QED
      BY <3>1, <3>2, <3>3
  <2>5. Kept + k - 1 = n - 1
    BY <1>3, <2>1, <2>2
  <2>6. \A i : i \in Rows' <=> i \in 0..(Kept + k - 1)
    BY <2>4, <2>5
  <2>7. \A i \in 0..(Kept + k - 1) : ~(i < Kept) => i - Kept + 1 \in 1..k
    <3> HIDE DEF k
    <3> QED
      BY <1>3
  <2>8. \A i \in Rows' : i \in MemberSlot
    BY DEF Rows, MemberSlot
  <2>9. \A i \in Rows' : i < Kept => ~m.first /\ i \in Rows
    <3> SUFFICES ASSUME NEW i \in Rows', i < Kept PROVE ~m.first /\ i \in Rows
      OBVIOUS
    <3>1. i \in 0..(n - 1)
      BY <2>4
    <3>2. ~m.first
      BY <3>1 DEF Kept
    <3>3. i < count /\ i \in MemberSlot
      <4>1. i < count
        BY <3>2 DEF Kept
      <4> QED
        BY <4>1, <2>8
    <3> QED
      BY <3>2, <3>3 DEF Rows
  <2> QED
    BY <1>3, <2>1, <2>2, <2>4, <2>6, <2>7, <2>9
<1>8. RollRows'
  BY <1>5, <1>7 DEF RollRows
<1>9. Fits => Called'[0] = IF 1 \in Firsts THEN Called[1] ELSE Called[0] \cup Called[1]
  <2> SUFFICES ASSUME Fits
               PROVE  Called'[0] = IF 1 \in Firsts THEN Called[1] ELSE Called[0] \cup Called[1]
    OBVIOUS
  <2>1. SameList(Firsts, 0, RollEnd) <=> 1 \notin Firsts /\ SameList(Firsts, 1, RollEnd)
    <3>0. PICK z \in Nat : z = RollEnd'
      BY <1>2
    <3>1. 0 \in Nat /\ z + 1 \in Nat /\ 0 < z + 1 /\ 0 + 1 = 1
      OBVIOUS
    <3>2. SameList(Firsts, 0, z + 1)
            <=> 0 + 1 \notin Firsts /\ SameList(Firsts, 0 + 1, z + 1)
      BY <3>1, SameSplit
    <3> QED
      BY <1>2, <3>0, <3>1, <3>2
  <2>2. CASE ~SameList(Firsts, 1, RollEnd)
    BY <1>2, <1>4, <2>1, <2>2
  <2>3. CASE SameList(Firsts, 1, RollEnd)
    <3>1. /\ Called'[0] = {member'[i].user_id : i \in Rows'}
          /\ Called[1] = {m.members[n].user_id : n \in DOMAIN m.members}
      BY <1>2, <1>4, <2>3
    <3>2. \A n \in DOMAIN m.members :
            /\ n + Kept - 1 \in Rows' /\ ~(n + Kept - 1 < Kept)
            /\ (n + Kept - 1) - Kept + 1 = n
      <4>1. \A n \in 1..k : /\ n + Kept - 1 \in 0..(Kept + k - 1) /\ ~(n + Kept - 1 < Kept)
                            /\ (n + Kept - 1) - Kept + 1 = n
        <5> HIDE DEF k
        <5> QED
          BY <1>3
      <4> QED
        BY <1>3, <1>7, <2>3, <4>1
    <3>3. \A x : x \in Called[1] => x \in Called'[0]
      <4> SUFFICES ASSUME NEW n \in DOMAIN m.members
                   PROVE  \E i \in Rows' : member'[i].user_id = m.members[n].user_id
        BY <3>1
      <4>1. member'[n + Kept - 1] = m.members[n]
        BY <1>7, <2>3, <3>2
      <4> QED
        BY <3>2, <4>1
    <3>4. \A x : x \in Called'[0] =>
            \/ x \in Called[1]
            \/ 1 \notin Firsts /\ \E i \in Rows : x = member[i].user_id
      <4> SUFFICES ASSUME NEW i \in Rows'
                   PROVE  \/ member'[i].user_id \in Called[1]
                          \/ 1 \notin Firsts /\ \E j \in Rows :
                                                  member'[i].user_id = member[j].user_id
        BY <3>1
      <4>1. CASE i < Kept
        BY <1>2, <1>7, <2>3, <4>1
      <4>2. CASE ~(i < Kept)
        BY <1>7, <2>3, <3>1, <4>2
      <4> QED
        BY <4>1, <4>2
    <3>5. CASE 1 \in Firsts
      BY <3>3, <3>4, <3>5
    <3>6. CASE 1 \notin Firsts
      <4>1. Called[0] = {member[i].user_id : i \in Rows} /\ ~m.first
        BY <1>2, <2>1, <2>3, <3>6
      <4>2. Kept = count
        BY <4>1 DEF Kept
      <4>3. \A i \in Rows : i \in Rows' /\ i < Kept
        <5>1. \A i \in Rows : i \in Nat /\ i < count
          BY MemberAssumption DEF Rows, MemberSlot
        <5>2. \A i \in Nat : i < Kept => i \in 0..(Kept + k - 1)
          <6> HIDE DEF k
          <6> QED
            BY <1>3
        <5> QED
          BY <1>7, <2>3, <4>2, <5>1, <5>2
      <4>4. \A x : x \in Called[0] => x \in Called'[0]
        BY <1>7, <2>3, <3>1, <4>1, <4>3
      <4> QED
        BY <3>3, <3>4, <3>6, <4>1, <4>4
    <3> QED
      BY <3>5, <3>6
  <2> QED
    BY <2>2, <2>3
<1>10. TableFresh'
  <2>1. version' = version
    BY <1>1 DEF memberServer
  <2> SUFFICES ASSUME Fits, SameList(Firsts, 1, RollEnd), NEW a \in Members, NEW i \in Rows',
                      member'[i].user_id = a, NoneBehind(0, a)'
               PROVE  member'[i].version = version[a]
    BY <1>5, <2>1 DEF TableFresh
  <2>2. NoneBehind(0, a) /\ NoneBehind(1, a)
    <3>1. NoneBehind(0 + 1, a)
      BY <1>1, ReadBehind, 0 \in Nat
    <3>2. NoneBehind(0, a)
      BY <1>1, ReadBehind
    <3> QED
      BY <3>1, <3>2
  <2>3. CASE i < Kept
    <3>1. ~m.first /\ OnTable /\ i \in Rows /\ member'[i] = member[i]
      BY <1>7, <2>3
    <3> QED
      BY <2>2, <3>1 DEF RollInv, TableFresh
  <2>4. CASE ~(i < Kept)
    <3>1. PICK n \in DOMAIN m.members : member'[i] = m.members[n]
      BY <1>7, <2>4
    <3> QED
      BY <1>2, <2>2, <3>1 DEF RollInv, WireFresh
  <2> QED
    BY <2>3, <2>4
<1> QED
  BY <1>1, <1>6, <1>8, <1>9, <1>10, ReadOnce, ReadWhole, ReadFresh DEF RollInv

\* Reading anything else leaves the roll where it is.
LEMMA StillRoll ==
  ASSUME MemberTypeOK, RollInv, NEW t, t # "Full", MemberReceive(t), UNCHANGED memberServer
  PROVE  /\ SameList(Firsts', 0, RollEnd') <=> SameList(Firsts, 0, RollEnd)
         /\ OnTable' <=> OnTable
         /\ 1 \notin Firsts /\ Called[1] = {}
<1>1. PICK z \in Nat : z = RollEnd'
  BY FrontMember
<1>2. RollEnd = z + 1
  BY <1>1, FrontMember
<1>3. 1 \notin Firsts /\ Called[1] = {}
  BY FrontPlaces
<1>4. SameList(Firsts, 0, z + 1) <=> 0 + 1 \notin Firsts /\ SameList(Firsts, 0 + 1, z + 1)
  BY 0 \in Nat, z + 1 \in Nat, 0 < z + 1, SameSplit
<1>5. SameList(Firsts', 0, RollEnd') <=> SameList(Firsts, 0 + 1, RollEnd)
  <2>1. 0 \in 0..z /\ 0..z = 0..RollEnd'
    BY <1>1
  <2> QED
    BY <2>1, MovePlaces
<1>6. 0 + 1 = 1
  OBVIOUS
<1>7. SameList(Firsts', 0, RollEnd') <=> SameList(Firsts, 0, RollEnd)
  BY <1>2, <1>3, <1>4, <1>5, <1>6
<1> QED
  BY <1>3, <1>7 DEF OnTable, Fits, memberServer

LEMMA UpdateRead ==
  ASSUME MemberTypeOK, RollInv, RecvMemberUpdate
  PROVE  RollInv'
<1> DEFINE u == Head(memberWire).members
<1>1. MemberReceive("Update") /\ UNCHANGED memberServer /\ count' = count
  BY DEF RecvMemberUpdate
<1>2. /\ 1 \in DOMAIN memberWire /\ IsUpdate(1) /\ u = memberWire[1].members
      /\ Head(memberWire) = memberWire[1]
  BY <1>1, FrontMember, FrontPlaces
<1>3. /\ Head(memberWire).last
      /\ \A id : Mentions(u, id) =>
           \E k \in DOMAIN u : u[k].user_id = id /\ EntryOf(u, id) = u[k]
  <2>1. Head(memberWire).last
    BY <1>2 DEF RollInv, RollOnce
  <2>2. u \in Seq(MemberEntryType)
    BY <1>1, FrontMember DEF MemberPacketType
  <2> QED
    BY <2>1, <2>2, EntryIsOne
<1>4. data_finished' /\ recv_index' = 0
  BY <1>3 DEF RecvMemberUpdate, Finish
<1>5. /\ OnTable' <=> OnTable
      /\ SameList(Firsts', 0, RollEnd') <=> SameList(Firsts, 0, RollEnd)
      /\ 1 \notin Firsts /\ Called[1] = {}
  BY <1>1, StillRoll
<1>6. Rows' = Rows /\ Rows \subseteq MemberSlot
  BY <1>1 DEF Rows, MemberSlot
<1>7. \A i \in MemberSlot : /\ member'[i].user_id = member[i].user_id
                            /\ ~Mentions(u, member[i].user_id) => member'[i] = member[i]
  <2>1. member' = Updated(u)
    BY DEF RecvMemberUpdate
  <2> HIDE DEF u
  <2> QED
    BY <1>3, <2>1 DEF Updated
<1>8. RollTurns'
  <2>1. (data_finished' \/ recv_index' = 0) <=> Head(memberWire).last
    BY <1>3, <1>4
  <2> QED
    BY <1>1, <1>4, <2>1, ReadTurns
<1>9. RollWhole'
  <2>1. Called'[0] = Called[0]
    <3>1. {member'[i].user_id : i \in Rows'} = {member[i].user_id : i \in Rows}
      BY <1>6, <1>7
    <3> QED
      BY <1>1, <1>5, <3>1, FrontPlaces
  <2> QED
    BY <1>1, <1>5, <2>1, ReadWhole
<1>10. RollRows'
  BY <1>1, <1>4, <1>5, <1>6, <1>7 DEF RollInv, RollRows
<1>11. TableFresh'
  <2>1. version' = version
    BY <1>1 DEF memberServer
  <2> SUFFICES ASSUME OnTable, NEW m \in Members, NEW i \in Rows,
                      member'[i].user_id = m, NoneBehind(0, m)'
               PROVE  member'[i].version = version[m]
    BY <1>5, <1>6, <2>1 DEF TableFresh
  <2>2. member[i].user_id = m /\ i \in MemberSlot
    BY <1>6, <1>7
  <2>3. CASE ~Mentions(u, m)
    <3>1. NoneBehind(0, m) /\ member'[i] = member[i]
      BY <1>1, <1>7, <2>2, <2>3, ReadBehind
    <3> QED
      BY <2>2, <3>1 DEF RollInv, TableFresh
  <2>4. CASE Mentions(u, m)
    <3>1. NoneBehind(1, m)
      <4>1. NoneBehind(0 + 1, m)
        BY <1>1, ReadBehind, 0 \in Nat
      <4> QED
        BY <4>1
    <3>2. EntryOf(u, m).version = version[m]
      BY <1>2, <1>3, <2>4, <3>1 DEF RollInv, WireFresh
    <3>3. \A j \in Places(m) : i <= j
      <4> SUFFICES ASSUME NEW j \in Places(m), ~(i <= j) PROVE FALSE
        OBVIOUS
      <4>1. j \in MemberSlot /\ member[j].user_id = m
        BY DEF Places
      <4>2. i < count /\ count \in Nat
        BY MemberAssumption DEF MemberTypeOK, Rows
      <4>3. j < count
        BY <2>2, <4>1, <4>2, MemberAssumption DEF MemberSlot
      <4>4. j \in Rows /\ j # i
        BY <2>2, <4>1, <4>3, MemberAssumption DEF Rows, MemberSlot
      <4> QED
        BY <2>2, <4>1, <4>4 DEF RollInv, RollRows
    <3>4. i \in Places(m)
      BY <2>2 DEF Places
    <3>5. member'[i] = EntryOf(u, m)
      <4>1. member' = Updated(u)
        BY DEF RecvMemberUpdate
      <4> HIDE DEF u
      <4> QED
        BY <2>2, <2>4, <3>3, <3>4, <4>1 DEF Updated
    <3> QED
      BY <3>2, <3>5
  <2> QED
    BY <2>3, <2>4
<1> QED
  BY <1>1, <1>8, <1>9, <1>10, <1>11, ReadOnce, ReadFresh DEF RollInv

\* Packets that are no part of a list and no update.
LEMMA IdleRead ==
  ASSUME MemberTypeOK, RollInv, NEW t, t \notin {"Full", "Update"}, MemberReceive(t),
         UNCHANGED memberServer, UNCHANGED memberTable
  PROVE  RollInv'
<1>1. /\ OnTable' <=> OnTable
      /\ SameList(Firsts', 0, RollEnd') <=> SameList(Firsts, 0, RollEnd)
      /\ 1 \notin Firsts /\ Called[1] = {}
  BY StillRoll
<1>2. /\ member' = member /\ recv_index' = recv_index /\ data_finished' = data_finished
      /\ count' = count /\ Rows' = Rows /\ version' = version
  BY DEF memberTable, memberServer, Rows, MemberSlot
<1>3. RollTurns'
  BY <1>2, ReadTurns DEF RollInv, RollTurns
<1>4. RollWhole'
  <2>1. Called'[0] = Called[0]
    BY <1>1, <1>2, FrontPlaces
  <2> QED
    BY <1>1, <2>1, ReadWhole
<1>5. RollRows'
  BY <1>1, <1>2 DEF RollInv, RollRows
<1>6. TableFresh'
  <2>1. \A m : NoneBehind(0, m)' => NoneBehind(0, m)
    BY ReadBehind
  <2> QED
    BY <1>1, <1>2, <2>1 DEF RollInv, TableFresh
<1> QED
  BY <1>3, <1>4, <1>5, <1>6, ReadOnce, ReadFresh DEF RollInv

\* One more packet on the wire.
LEMMA BackMember ==
  ASSUME MemberTypeOK, NEW m, MemberSend(m)
  PROVE  /\ RollEnd \in Nat /\ RollEnd >= 1 /\ RollEnd' = RollEnd + 1
         /\ DOMAIN memberWire = 1..(RollEnd - 1) /\ DOMAIN memberWire' = 1..RollEnd
         /\ \A n \in DOMAIN memberWire : n # RollEnd /\ memberWire'[n] = memberWire[n]
         /\ memberWire'[RollEnd] = m
         /\ \A n \in DOMAIN memberWire : (IsFull(n)' <=> IsFull(n))
                                         /\ (IsUpdate(n)' <=> IsUpdate(n))
         /\ \A n : n = RollEnd => (IsFull(n)' <=> m.type = "Full")
                                  /\ (IsUpdate(n)' <=> m.type = "Update")
         /\ \A n \in DOMAIN memberWire' : n \in DOMAIN memberWire \/ n = RollEnd
<1>1. memberWire \in Seq(MemberPacketType) /\ memberWire' = Append(memberWire, m)
  BY DEF MemberTypeOK, MemberSend
<1>2. PICK z \in Nat : z = Len(memberWire)
  BY <1>1
<1>3. /\ DOMAIN memberWire = 1..z /\ Len(memberWire') = z + 1
      /\ DOMAIN memberWire' = 1..(z + 1)
      /\ \A n \in 1..z : memberWire'[n] = memberWire[n]
      /\ memberWire'[z + 1] = m
  BY <1>1, <1>2
<1>4. RollEnd = z + 1 /\ RollEnd' = (z + 1) + 1
  BY <1>2, <1>3 DEF RollEnd
<1>5. /\ z + 1 \in Nat /\ z + 1 >= 1 /\ 1..((z + 1) - 1) = 1..z
      /\ \A n \in 1..z : n # z + 1 /\ n \in 1..(z + 1)
      /\ \A n \in 1..(z + 1) : n \in 1..z \/ n = z + 1
      /\ z + 1 \in 1..(z + 1)
  OBVIOUS
<1>6. \A n \in DOMAIN memberWire : (IsFull(n)' <=> IsFull(n)) /\ (IsUpdate(n)' <=> IsUpdate(n))
  BY <1>3, <1>5 DEF IsFull, IsUpdate
<1>7. \A n : n = z + 1 => (IsFull(n)' <=> m.type = "Full") /\ (IsUpdate(n)' <=> m.type = "Update")
  BY <1>3, <1>5 DEF IsFull, IsUpdate
<1> QED
  BY <1>3, <1>4, <1>5, <1>6, <1>7

LEMMA SendRoll ==
  ASSUME MemberTypeOK, NEW m, MemberSend(m), UNCHANGED memberTable
  PROVE  /\ \A n \in 0..RollEnd : n # RollEnd => (n \in Firsts' <=> n \in Firsts)
         /\ \A n \in 0..RollEnd : n # RollEnd => (n \in Talkers' <=> n \in Talkers)
         /\ \A n \in 0..RollEnd : n # RollEnd => (n \in Enders' <=> n \in Enders)
         /\ \A n \in 0..RollEnd : n # RollEnd => (n \in Goers' <=> n \in Goers)
         /\ RollEnd \in Talkers
         /\ RollEnd \in Firsts <=> Unsent
         /\ RollEnd + 1 \in Firsts' <=> Unsent'
         /\ RollEnd \in Firsts' <=> (m.type = "Full" /\ m.first)
         /\ RollEnd \in Goers <=> (open /\ ~Unsent)
         /\ RollEnd + 1 \in Goers' <=> (open' /\ ~Unsent')
         /\ RollEnd \in Goers' <=> (m.type = "Full" /\ ~m.first)
         /\ RollEnd \in Talkers' <=> m.type \in {"Full", "Update"}
         /\ RollEnd \in Enders' <=> (m.type \in {"Full", "Update"} /\ m.last)
         /\ Called[RollEnd] = {toSend[k] : k \in DOMAIN toSend}
         /\ Called'[RollEnd + 1] = {toSend'[k] : k \in DOMAIN toSend'}
         /\ Called'[RollEnd] = IF m.type = "Full" /\ ~Unsent'
                                 THEN {m.members[k].user_id : k \in DOMAIN m.members} ELSE {}
         /\ \A n \in 0..RollEnd : n # RollEnd =>
              /\ SameList(Firsts', n, RollEnd + 1) /\ SameList(Firsts, n, RollEnd)
                   => Called'[n] = Called[n]
              /\ ~SameList(Firsts', n, RollEnd + 1) => Called'[n] = {}
              /\ ~SameList(Firsts, n, RollEnd) => Called[n] = {}
<1>1. PICK z \in Nat : z = RollEnd /\ z >= 1
  BY BackMember
<1>2. /\ RollEnd' = z + 1
      /\ DOMAIN memberWire = 1..(z - 1) /\ DOMAIN memberWire' = 1..z
      /\ \A n \in DOMAIN memberWire : memberWire'[n] = memberWire[n]
      /\ memberWire'[z] = m
      /\ \A n \in DOMAIN memberWire : (IsFull(n)' <=> IsFull(n)) /\ (IsUpdate(n)' <=> IsUpdate(n))
      /\ IsFull(z)' <=> m.type = "Full"
      /\ IsUpdate(z)' <=> m.type = "Update"
  BY <1>1, BackMember
<1>3. RollPlaces = 0..z /\ RollPlaces' = 0..(z + 1)
  BY <1>1, <1>2 DEF RollPlaces
<1>4. /\ \A n \in 0..z : n \in 0..(z + 1) /\ n # z + 1
      /\ z \in 0..z /\ z + 1 \in 0..(z + 1) /\ z # 0 /\ z + 1 # 0 /\ z # z + 1
      /\ z \in 1..z /\ z \notin 1..(z - 1) /\ z + 1 \notin 1..z /\ z \in 0..(z + 1)
      /\ \A n \in 1..(z - 1) : n \in 1..z
      /\ \A n \in 0..z : n # z /\ n \notin 1..(z - 1) => n = 0 /\ n \notin 1..z
  BY <1>1
<1>5. ~IsFull(z) /\ ~IsUpdate(z) /\ ~IsFull(z + 1)' /\ ~IsUpdate(z + 1)'
  BY <1>2, <1>4 DEF IsFull, IsUpdate
<1>6. /\ member' = member /\ recv_index' = recv_index /\ data_finished' = data_finished
      /\ count' = count /\ Rows' = Rows
  BY DEF memberTable, Rows, MemberSlot
<1>7. ASSUME NEW n \in 0..z, n # z
      PROVE  /\ n \in Firsts' <=> n \in Firsts
             /\ n \in Talkers' <=> n \in Talkers
             /\ n \in Enders' <=> n \in Enders
             /\ n \in Goers' <=> n \in Goers
             /\ SameList(Firsts', n, z + 1) /\ SameList(Firsts, n, z) => Called'[n] = Called[n]
             /\ ~SameList(Firsts', n, z + 1) => Called'[n] = {}
             /\ ~SameList(Firsts, n, z) => Called[n] = {}
  <2>1. n \in RollPlaces /\ n \in RollPlaces' /\ n # RollEnd /\ n # RollEnd'
    BY <1>1, <1>2, <1>3, <1>4, <1>7
  <2>2. CASE n \in 1..(z - 1)
    <3>1. memberWire'[n] = memberWire[n] /\ (IsFull(n)' <=> IsFull(n))
          /\ (IsUpdate(n)' <=> IsUpdate(n)) /\ n # 0
      BY <1>2, <2>2
    <3> QED
      BY <1>1, <1>2, <1>6, <2>1, <3>1 DEF Firsts, Talkers, Enders, Goers, Called
  <2>3. CASE n \notin 1..(z - 1)
    <3>1. n = 0 /\ ~IsFull(n) /\ ~IsFull(n)' /\ ~IsUpdate(n) /\ ~IsUpdate(n)'
      BY <1>2, <1>4, <1>7, <2>3 DEF IsFull, IsUpdate
    <3> QED
      BY <1>1, <1>2, <1>6, <2>1, <3>1 DEF Firsts, Talkers, Enders, Goers, Called
  <2> QED
    BY <2>2, <2>3
<1>8. /\ z \in Talkers
      /\ z \in Firsts <=> Unsent
      /\ z \in Goers <=> (open /\ ~Unsent)
  BY <1>1, <1>3, <1>4, <1>5 DEF Talkers, Firsts, Goers
<1>9. /\ z + 1 \in Firsts' <=> Unsent'
      /\ z + 1 \in Goers' <=> (open' /\ ~Unsent')
  BY <1>2, <1>3, <1>4, <1>5 DEF Firsts, Goers
<1>10. /\ z \in Firsts' <=> (m.type = "Full" /\ m.first)
       /\ z \in Goers' <=> (m.type = "Full" /\ ~m.first)
       /\ z \in Talkers' <=> m.type \in {"Full", "Update"}
       /\ z \in Enders' <=> (m.type \in {"Full", "Update"} /\ m.last)
  <2>1. z \in RollPlaces' /\ z # 0 /\ z # RollEnd'
    BY <1>2, <1>3, <1>4
  <2> QED
    BY <1>2, <2>1 DEF Firsts, Goers, Talkers, Enders
<1>11. Called[z] = {toSend[k] : k \in DOMAIN toSend}
  <2>1. SameList(Firsts, z, z)
    BY DEF SameList
  <2> QED
    BY <1>1, <1>3, <1>4, <2>1 DEF Called
<1>12. Called'[z + 1] = {toSend'[k] : k \in DOMAIN toSend'}
  <2>1. SameList(Firsts', z + 1, z + 1)
    BY DEF SameList
  <2> QED
    BY <1>2, <1>3, <1>4, <2>1 DEF Called
<1>13. Called'[z] = IF m.type = "Full" /\ ~Unsent'
                      THEN {m.members[k].user_id : k \in DOMAIN m.members} ELSE {}
  <2>1. SameList(Firsts', z, z + 1) <=> ~Unsent'
    <3>1. \A j : j \in (z + 1)..(z + 1) <=> j = z + 1
      OBVIOUS
    <3> QED
      BY <1>9, <3>1 DEF SameList
  <2>2. z \in RollPlaces' /\ z # 0 /\ z # RollEnd'
    BY <1>2, <1>3, <1>4
  <2> QED
    BY <1>2, <2>1, <2>2 DEF Called
<1> QED
  BY <1>1, <1>7, <1>8, <1>9, <1>10, <1>11, <1>12, <1>13

\* A packet that takes what it holds from what is left to send keeps the list whole.
LEMMA SendWhole ==
  ASSUME MemberTypeOK, RollInv, NEW m, MemberSend(m), UNCHANGED <<memberTable, roll>>,
         (m.type = "Full" /\ m.first) \/ Unsent' <=> Unsent,
         Called'[RollEnd] \cup Called'[RollEnd + 1] = Called[RollEnd],
         Called'[RollEnd] \cap Called'[RollEnd + 1] = {}
  PROVE  RollWhole' /\ RollRows' /\ (OnTable' <=> OnTable)
<1>1. PICK z \in Nat : z = RollEnd /\ z >= 1
  BY BackMember
<1>2. RollEnd' = z + 1
  BY <1>1, BackMember
<1>3. \A n \in 0..z : n # z => (n \in Firsts' <=> n \in Firsts)
  BY <1>1, SendRoll
<1>4. /\ z \in Firsts' \/ z + 1 \in Firsts' <=> z \in Firsts
      /\ z + 1 \in Firsts' => Called'[z] = {}
      /\ Called'[z] \cup Called'[z + 1] = Called[z] /\ Called'[z] \cap Called'[z + 1] = {}
  BY <1>1, SendRoll
<1>5. \A n \in 0..z : n # z => (SameList(Firsts', n, z + 1) <=> SameList(Firsts, n, z))
  BY <1>3, <1>4, InsertSame
<1>6. \A n \in 0..z : n # z => Called'[n] = Called[n]
  BY <1>1, <1>5, SendRoll
<1>7. (Fits' <=> Fits) /\ roll' = roll
  BY DEF Fits
<1>8. ASSUME Fits PROVE Apart(Called', Firsts', z + 1) /\ Whole(Called', Firsts', z + 1, roll)
  <2>0. PICK e : e = {}
    OBVIOUS
  <2>1. /\ Apart(Called, Firsts, z) /\ Whole(Called, Firsts, z, roll)
        /\ Closed(Called, Firsts, e, z)
    BY <1>1, <1>8, <2>0 DEF RollInv, RollWhole, Closed
  <2>2. (\A n \in 0..z : n # z => (n \in e <=> n \in e)) /\ (z \in e => Called'[z + 1] = {})
    BY <2>0
  <2> QED
    BY <1>3, <1>4, <1>6, <2>1, <2>2, Insert
<1>9. OnTable' <=> OnTable
  <2>1. 0 \in 0..z /\ 0 # z
    BY <1>1
  <2>2. SameList(Firsts', 0, z + 1) <=> SameList(Firsts, 0, z)
    BY <1>5, <2>1
  <2> QED
    BY <1>1, <1>2, <1>7, <2>2 DEF OnTable
<1>10. RollRows'
  <2>1. /\ member' = member /\ recv_index' = recv_index /\ data_finished' = data_finished
        /\ count' = count /\ Rows' = Rows
    BY DEF memberTable, Rows, MemberSlot
  <2> QED
    BY <1>9, <2>1 DEF RollInv, RollRows
<1> QED
  BY <1>2, <1>7, <1>8, <1>9, <1>10 DEF RollWhole

\* Packets that are no part of a list.
LEMMA SendAside ==
  ASSUME MemberTypeOK, RollInv, NEW m, MemberSend(m), m.type # "Full",
         UNCHANGED <<memberTable, roll, open, toSend>>
  PROVE  RollWhole' /\ RollRows' /\ (OnTable' <=> OnTable) /\ (Unsent' <=> Unsent)
<1>1. Unsent' <=> Unsent
  BY DEF Unsent
<1>2. Called'[RollEnd] = {} /\ Called'[RollEnd + 1] = Called[RollEnd]
  BY SendRoll
<1> QED
  BY <1>1, <1>2, SendWhole

LEMMA SendTurn ==
  ASSUME MemberTypeOK, RollInv, NEW m, MemberSend(m), UNCHANGED memberTable,
         m.type \in {"Full", "Update"} =>
           /\ (m.type = "Full" /\ ~m.first) <=> (open /\ ~Unsent)
           /\ m.last <=> ~(open' /\ ~Unsent'),
         m.type \notin {"Full", "Update"} => ((open' /\ ~Unsent') <=> (open /\ ~Unsent))
  PROVE  RollTurns'
<1>1. PICK z \in Nat : z = RollEnd /\ z >= 1
  BY BackMember
<1>2. RollEnd' = z + 1
  BY <1>1, BackMember
<1>3. /\ \A n \in 0..z : n # z => (n \in Talkers' <=> n \in Talkers)
      /\ \A n \in 0..z : n # z => (n \in Enders' <=> n \in Enders)
      /\ \A n \in 0..z : n # z => (n \in Goers' <=> n \in Goers)
      /\ z \in Talkers
  BY <1>1, SendRoll
<1>4. /\ z \in Goers <=> (open /\ ~Unsent)
      /\ z + 1 \in Goers' <=> (open' /\ ~Unsent')
      /\ z \in Goers' <=> (m.type = "Full" /\ ~m.first)
      /\ z \in Talkers' <=> m.type \in {"Full", "Update"}
      /\ z \in Enders' <=> (m.type \in {"Full", "Update"} /\ m.last)
  BY <1>1, SendRoll
<1>5. /\ z \in Talkers' => (z \in Goers' <=> z \in Goers) /\ (z \in Enders' <=> z + 1 \notin Goers')
      /\ z \notin Talkers' => (z + 1 \in Goers' <=> z \in Goers)
  <2>1. CASE m.type \in {"Full", "Update"}
    BY <1>4, <2>1
  <2>2. CASE m.type \notin {"Full", "Update"}
    BY <1>4, <2>2
  <2> QED
    BY <2>1, <2>2
<1>6. Turns(Talkers, Enders, Goers, z)
  BY <1>1 DEF RollInv, RollTurns
<1>7. Turns(Talkers', Enders', Goers', z + 1)
  BY <1>3, <1>5, <1>6, InsertTurns
<1>8. recv_index' = 0 /\ ~data_finished' => count' = 0
  BY DEF RollInv, RollTurns, memberTable
<1> QED
  BY <1>2, <1>7, <1>8 DEF RollTurns

LEMMA SendRollOnce ==
  ASSUME MemberTypeOK, RollInv, NEW m, MemberSend(m), alliance' = alliance, roll' = roll,
         IF open' THEN Len(toSend') \in 1..Cardinality(roll) ELSE toSend' = <<>>,
         \A k, l \in DOMAIN toSend' : toSend'[k] = toSend'[l] => k = l,
         m.type \in {"Full", "Update"} =>
           /\ m.members # <<>>
           /\ \A k \in DOMAIN m.members : m.members[k].user_id \in Members
           /\ \A k, l \in DOMAIN m.members :
                m.members[k].user_id = m.members[l].user_id => k = l,
         m.type = "Update" => m.last
  PROVE  RollOnce'
<1>1. /\ \A n \in DOMAIN memberWire : memberWire'[n] = memberWire[n]
      /\ memberWire'[RollEnd] = m
      /\ \A n \in DOMAIN memberWire : (IsFull(n)' <=> IsFull(n)) /\ (IsUpdate(n)' <=> IsUpdate(n))
      /\ \A n : n = RollEnd => (IsFull(n)' <=> m.type = "Full")
                               /\ (IsUpdate(n)' <=> m.type = "Update")
      /\ \A n \in DOMAIN memberWire' : n \in DOMAIN memberWire \/ n = RollEnd
  BY BackMember
<1>2. ASSUME NEW n \in DOMAIN memberWire', IsFull(n)' \/ IsUpdate(n)'
      PROVE  /\ memberWire'[n].members # <<>>
             /\ \A k \in DOMAIN memberWire'[n].members :
                  memberWire'[n].members[k].user_id \in Members
             /\ \A k, l \in DOMAIN memberWire'[n].members :
                  memberWire'[n].members[k].user_id = memberWire'[n].members[l].user_id => k = l
  <2>1. CASE n = RollEnd
    BY <1>1, <1>2, <2>1
  <2>2. CASE n \in DOMAIN memberWire
    BY <1>1, <1>2, <2>2 DEF RollInv, RollOnce
  <2> QED
    BY <1>1, <2>1, <2>2
<1>3. ASSUME NEW n \in DOMAIN memberWire', IsUpdate(n)'
      PROVE  memberWire'[n].last
  <2>1. CASE n = RollEnd
    BY <1>1, <1>3, <2>1
  <2>2. CASE n \in DOMAIN memberWire
    BY <1>1, <1>3, <2>2 DEF RollInv, RollOnce
  <2> QED
    BY <1>1, <2>1, <2>2
<1> QED
  BY <1>2, <1>3 DEF RollInv, RollOnce

LEMMA SendFresh ==
  ASSUME MemberTypeOK, RollInv, NEW m, MemberSend(m), UNCHANGED memberTable,
         OnTable' <=> OnTable,
         \A a \in Members : version'[a] = version[a]
                              \/ (m.type = "Update" /\ Mentions(m.members, a)),
         m.type \in {"Full", "Update"} => \A a \in Members, k \in DOMAIN m.members :
           m.members[k].user_id = a => m.members[k].version = version'[a]
  PROVE  TableFresh' /\ WireFresh'
<1>1. /\ RollEnd \in Nat /\ RollEnd >= 1
      /\ DOMAIN memberWire = 1..(RollEnd - 1) /\ DOMAIN memberWire' = 1..RollEnd
      /\ \A n \in DOMAIN memberWire : memberWire'[n] = memberWire[n]
      /\ memberWire'[RollEnd] = m
      /\ \A n \in DOMAIN memberWire : (IsFull(n)' <=> IsFull(n)) /\ (IsUpdate(n)' <=> IsUpdate(n))
      /\ \A n : n = RollEnd => (IsFull(n)' <=> m.type = "Full")
                               /\ (IsUpdate(n)' <=> m.type = "Update")
      /\ \A n \in DOMAIN memberWire' : n \in DOMAIN memberWire \/ n = RollEnd
  BY BackMember
<1>2. RollEnd \in DOMAIN memberWire' /\ \A n \in DOMAIN memberWire : n \in DOMAIN memberWire'
                                                                      /\ n < RollEnd
  BY <1>1
<1>3. ASSUME NEW n, NEW a \in Members, NoneBehind(n, a)', n < RollEnd
      PROVE  NoneBehind(n, a) /\ version'[a] = version[a]
  <2>1. NoneBehind(n, a)
    BY <1>1, <1>2, <1>3 DEF NoneBehind
  <2>2. m.type = "Update" => ~Mentions(m.members, a)
    BY <1>1, <1>2, <1>3 DEF NoneBehind
  <2> QED
    BY <2>1, <2>2
<1>4. TableFresh'
  <2>1. member' = member /\ Rows' = Rows
    BY DEF memberTable, Rows, MemberSlot
  <2>2. 0 < RollEnd
    BY <1>1
  <2> QED
    BY <1>3, <2>1, <2>2 DEF RollInv, TableFresh
<1>5. ASSUME NEW a \in Members, NEW n \in DOMAIN memberWire', NoneBehind(n, a)'
      PROVE  IsFull(n)' \/ IsUpdate(n)' => \A k \in DOMAIN memberWire'[n].members :
                memberWire'[n].members[k].user_id = a =>
                  memberWire'[n].members[k].version = version'[a]
  <2>1. CASE n = RollEnd
    BY <1>1, <2>1
  <2>2. CASE n \in DOMAIN memberWire
    <3>1. NoneBehind(n, a) /\ version'[a] = version[a]
      BY <1>2, <1>3, <1>5, <2>2
    <3> QED
      BY <1>1, <2>2, <3>1 DEF RollInv, WireFresh
  <2> QED
    BY <1>1, <2>1, <2>2
<1> QED
  BY <1>4, <1>5 DEF WireFresh

LEMMA AsideServes ==
  ASSUME MemberTypeOK, RollInv, NEW m, m.type \in {"Social", "Unknown"}, MemberSend(m),
         UNCHANGED <<memberTable, alliance, version, toSend, open, roll>>
  PROVE  RollInv'
<1>1. RollWhole' /\ RollRows' /\ (OnTable' <=> OnTable) /\ (Unsent' <=> Unsent)
  BY SendAside
<1>2. RollTurns'
  BY <1>1, SendTurn
<1>3. RollOnce'
  BY SendRollOnce DEF RollInv, RollOnce
<1>4. TableFresh' /\ WireFresh'
  BY <1>1, SendFresh
<1> QED
  BY <1>1, <1>2, <1>3, <1>4 DEF RollInv

LEMMA ChangeServes ==
  ASSUME MemberTypeOK, RollInv, ~UpdatesInList, UpdateLast = {TRUE},
         NEW S \in SUBSET Members, Change(S)
  PROVE  RollInv'
<1> DEFINE m == UpdateOf(S, TRUE)
<1>1. /\ MemberSend(m) /\ ~open /\ S # {}
      /\ UNCHANGED <<memberTable, alliance, toSend, open, roll>>
      /\ version' = [a \in Members |-> IF a \in S THEN version[a] + 1 ELSE version[a]]
  BY DEF Change, UpdateOf
<1>2. /\ m.type = "Update" /\ m.last
      /\ m.members # <<>>
      /\ \A k \in DOMAIN m.members : m.members[k].user_id \in Members
      /\ \A k, l \in DOMAIN m.members :
           m.members[k].user_id = m.members[l].user_id => k = l
      /\ \A a \in Members, k \in DOMAIN m.members :
           m.members[k].user_id = a => m.members[k].version = version'[a]
      /\ \A a \in Members : version'[a] = version[a] \/ Mentions(m.members, a)
  <2>1. IsFiniteSet(S)
    BY MemberAssumption, FS_Subset
  <2> DEFINE o == Order(S)
  <2>2. /\ DOMAIN o = 1..Cardinality(S)
        /\ \A k \in DOMAIN o : o[k] \in S
        /\ \A a \in S : \E k \in DOMAIN o : o[k] = a
        /\ \A k, l \in DOMAIN o : o[k] = o[l] => k = l
    BY <2>1, OrderOnce
  <2>3. /\ m.type = "Update" /\ m.last /\ DOMAIN m.members = DOMAIN o
        /\ \A k \in DOMAIN o : /\ m.members[k].user_id = o[k]
                               /\ m.members[k].version = version'[o[k]]
    BY <2>2 DEF UpdateOf
  <2> HIDE DEF m, o
  <2>4. m.members # <<>>
    <3>1. PICK k \in DOMAIN o : TRUE
      BY <1>1, <2>2
    <3>2. k \in DOMAIN m.members
      BY <2>3
    <3> QED
      BY <3>2
  <2>5. \A a \in S : Mentions(m.members, a)
    <3> SUFFICES ASSUME NEW a \in S PROVE Mentions(m.members, a)
      OBVIOUS
    <3>1. PICK k \in DOMAIN o : o[k] = a
      BY <2>2
    <3>2. k \in DOMAIN m.members /\ m.members[k].user_id = a
      BY <2>3, <3>1
    <3> QED
      BY <3>2 DEF Mentions
  <2>6. \A a \in Members : version'[a] = version[a] \/ Mentions(m.members, a)
    BY <1>1, <2>5
  <2>7. \A k \in DOMAIN m.members : m.members[k].user_id \in Members
    BY <2>2, <2>3
  <2> QED
    BY <2>2, <2>3, <2>4, <2>6, <2>7
<1> HIDE DEF m
<1>3. RollWhole' /\ RollRows' /\ (OnTable' <=> OnTable) /\ (Unsent' <=> Unsent)
  BY <1>1, <1>2, SendAside
<1>4. RollTurns'
  BY <1>1, <1>2, <1>3, SendTurn
<1>5. RollOnce'
  BY <1>1, <1>2, SendRollOnce DEF RollInv, RollOnce
<1>6. TableFresh' /\ WireFresh'
  BY <1>1, <1>2, <1>3, SendFresh
<1> QED
  BY <1>3, <1>4, <1>5, <1>6 DEF RollInv

LEMMA PartServes ==
  ASSUME MemberTypeOK, RollInv, NEW n \in 1..Len(toSend), SendMembers(n)
  PROVE  RollInv'
<1> DEFINE ms == [k \in 1..n |-> Entry(toSend[k])]
           m == [type |-> "Full", last |-> n = Len(toSend),
                 first |-> Len(toSend) = Cardinality(roll), members |-> ms]
           l == Len(toSend)
<1>1. /\ open /\ MemberSend(m) /\ toSend' = SubSeq(toSend, n + 1, l)
      /\ open' = (n < l)
      /\ UNCHANGED <<memberTable, alliance, version, roll>>
  BY DEF SendMembers
<1>2. /\ m.type = "Full" /\ (m.last <=> n = l) /\ (m.first <=> l = Cardinality(roll))
      /\ m.members = ms
  OBVIOUS
<1>3. /\ toSend \in Seq(Members) /\ l \in Nat /\ n \in 1..l /\ n \in Nat /\ DOMAIN toSend = 1..l
      /\ Cardinality(roll) \in Nat /\ l \in 1..Cardinality(roll)
      /\ \A k, j \in 1..l : toSend[k] = toSend[j] => k = j
  <2>1. IsFiniteSet(roll)
    BY MemberAssumption, FS_Subset DEF MemberTypeOK
  <2>2. toSend \in Seq(Members)
    BY DEF MemberTypeOK
  <2>3. l \in Nat /\ DOMAIN toSend = 1..l
    BY <2>2
  <2>4. l \in 1..Cardinality(roll) /\ \A k, j \in DOMAIN toSend : toSend[k] = toSend[j] => k = j
    BY <1>1 DEF RollInv, RollOnce
  <2> QED
    BY <2>1, <2>2, <2>3, <2>4, FS_CardinalityType
<1>4. /\ ms # <<>> /\ DOMAIN m.members = 1..n
      /\ \A k \in 1..n : /\ k \in 1..l
                         /\ m.members[k].user_id = toSend[k] /\ toSend[k] \in Members
                         /\ m.members[k].version = version[toSend[k]]
  <2>1. \A k \in 1..n : k \in 1..l
    BY <1>3
  <2>2. 1 \in 1..n
    BY <1>3
  <2>3. ms # <<>>
    <3>1. 1 \in DOMAIN ms /\ 1 \notin DOMAIN <<>>
      BY <2>2
    <3> QED
      BY <3>1
  <2>4. m.members = ms /\ DOMAIN ms = 1..n /\ \A k \in 1..n : ms[k] = Entry(toSend[k])
    OBVIOUS
  <2>5. \A x : Entry(x).user_id = x /\ Entry(x).version = version[x]
    BY DEF Entry
  <2> HIDE DEF m, ms
  <2> QED
    BY <1>3, <2>1, <2>3, <2>4, <2>5
<1> HIDE DEF m, ms, l
<1>5. /\ Len(toSend') = l - n /\ DOMAIN toSend' = 1..(l - n)
      /\ \A k \in 1..(l - n) : toSend'[k] = toSend[k + n] /\ k + n \in 1..l
      /\ n = l => toSend' = <<>>
  <2>1. \A i \in (n + 1)..l : toSend[i] \in Members
    BY <1>3 DEF l
  <2>2. /\ toSend' \in Seq(Members)
        /\ Len(toSend') = IF n + 1 <= l THEN l - (n + 1) + 1 ELSE 0
        /\ \A i \in 1..(l - (n + 1) + 1) : toSend'[i] = toSend[(n + 1) + i - 1]
    BY <1>1, <1>3, <2>1, SubSeqProperties DEF l
  <2>3. Len(toSend') = l - n /\ l - n \in Nat
    BY <1>3, <2>2
  <2>4. DOMAIN toSend' = 1..(l - n)
    BY <2>2, <2>3
  <2>5. \A k \in 1..(l - n) : toSend'[k] = toSend[k + n] /\ k + n \in 1..l
    <3> SUFFICES ASSUME NEW k \in 1..(l - n)
                 PROVE  toSend'[k] = toSend[k + n] /\ k + n \in 1..l
      OBVIOUS
    <3>1. k \in 1..(l - (n + 1) + 1) /\ (n + 1) + k - 1 = k + n /\ k + n \in 1..l
      BY <1>3
    <3> QED
      BY <2>2, <3>1
  <2>6. n = l => toSend' = <<>>
    BY <1>3, <2>2, <2>3, EmptySeq
  <2> QED
    BY <2>3, <2>4, <2>5, <2>6
<1>6. ~Unsent' /\ (open' <=> n # l) /\ (Unsent <=> m.first)
  <2>1. ~Unsent'
    BY <1>1, <1>3, <1>5 DEF Unsent
  <2>2. open' <=> n # l
    <3>1. n < l <=> n # l
      BY <1>3
    <3> QED
      BY <1>1, <3>1, Zenon
  <2> QED
    BY <1>1, <1>2, <2>1, <2>2 DEF Unsent, l
<1>7. RollWhole' /\ RollRows' /\ (OnTable' <=> OnTable)
  <2>1. /\ Called[RollEnd] = {toSend[k] : k \in 1..l}
        /\ Called'[RollEnd + 1] = {toSend'[k] : k \in 1..(l - n)}
        /\ Called'[RollEnd] = {m.members[k].user_id : k \in 1..n}
    <3>1. /\ Called[RollEnd] = {toSend[k] : k \in DOMAIN toSend}
          /\ Called'[RollEnd + 1] = {toSend'[k] : k \in DOMAIN toSend'}
          /\ Called'[RollEnd] = IF m.type = "Full" /\ ~Unsent'
                                  THEN {m.members[k].user_id : k \in DOMAIN m.members}
                                  ELSE {}
      BY <1>1, SendRoll
    <3> QED
      BY <1>2, <1>3, <1>4, <1>5, <1>6, <3>1
  <2>2. \A k \in 1..l : k \in 1..n \/ (k - n \in 1..(l - n) /\ (k - n) + n = k)
    BY <1>3
  <2>3. \A k \in 1..n, j \in 1..(l - n) : k # j + n
    BY <1>3
  <2>4. \A x : x \in Called[RollEnd] <=> x \in Called'[RollEnd] \cup Called'[RollEnd + 1]
    <3>1. ASSUME NEW k \in 1..l
          PROVE  toSend[k] \in Called'[RollEnd] \cup Called'[RollEnd + 1]
      <4>1. CASE k \in 1..n
        BY <1>4, <2>1, <4>1
      <4>2. CASE k - n \in 1..(l - n) /\ (k - n) + n = k
        BY <1>5, <2>1, <4>2
      <4> QED
        BY <2>2, <4>1, <4>2
    <3>2. \A k \in 1..n : m.members[k].user_id \in Called[RollEnd]
      BY <1>4, <2>1
    <3>3. \A k \in 1..(l - n) : toSend'[k] \in Called[RollEnd]
      BY <1>5, <2>1
    <3> QED
      BY <2>1, <3>1, <3>2, <3>3
  <2>5. \A x : ~(x \in Called'[RollEnd] /\ x \in Called'[RollEnd + 1])
    <3> SUFFICES ASSUME NEW k \in 1..n, NEW j \in 1..(l - n),
                        m.members[k].user_id = toSend'[j]
                 PROVE  FALSE
      BY <2>1
    <3>1. k \in 1..l /\ j + n \in 1..l /\ toSend[k] = toSend[j + n]
      BY <1>4, <1>5
    <3> QED
      BY <1>3, <2>3, <3>1
  <2>6. /\ Called'[RollEnd] \cup Called'[RollEnd + 1] = Called[RollEnd]
        /\ Called'[RollEnd] \cap Called'[RollEnd + 1] = {}
    BY <2>4, <2>5
  <2> QED
    BY <1>1, <1>2, <1>6, <2>6, SendWhole
<1>8. RollTurns'
  BY <1>1, <1>2, <1>6, SendTurn
<1>9. RollOnce'
  <2>1. IF open' THEN Len(toSend') \in 1..Cardinality(roll) ELSE toSend' = <<>>
    BY <1>3, <1>5, <1>6
  <2>2. \A k, j \in DOMAIN toSend' : toSend'[k] = toSend'[j] => k = j
    <3> SUFFICES ASSUME NEW k \in 1..(l - n), NEW j \in 1..(l - n), toSend'[k] = toSend'[j]
                 PROVE  k = j
      BY <1>5
    <3>1. k + n = j + n
      BY <1>3, <1>5
    <3> QED
      BY <1>3, <3>1
  <2>3. /\ m.members # <<>>
        /\ \A k \in DOMAIN m.members : m.members[k].user_id \in Members
        /\ \A k, j \in DOMAIN m.members : m.members[k].user_id = m.members[j].user_id => k = j
    BY <1>2, <1>3, <1>4
  <2> QED
    BY <1>1, <1>2, <2>1, <2>2, <2>3, SendRollOnce
<1>10. TableFresh' /\ WireFresh'
  <2>1. \A a \in Members, k \in DOMAIN m.members :
           m.members[k].user_id = a => m.members[k].version = version'[a]
    BY <1>1, <1>4
  <2> QED
    BY <1>1, <1>2, <1>7, <2>1, SendFresh
<1> QED
  BY <1>7, <1>8, <1>9, <1>10 DEF RollInv

LEMMA RollStart == MemberInit => RollInv
<1> SUFFICES ASSUME MemberInit PROVE RollInv
  OBVIOUS
<1>1. /\ Len(memberWire) = 0 /\ DOMAIN memberWire = {} /\ DOMAIN toSend = {}
      /\ ~open /\ toSend = <<>> /\ count = 0 /\ recv_index = 0 /\ roll = {} /\ alliance # {}
  BY DEF MemberInit
<1>2. RollEnd = 1 /\ RollPlaces = 0..1
  BY <1>1 DEF RollEnd, RollPlaces
<1>3. \A n : ~IsFull(n) /\ ~IsUpdate(n)
  BY <1>1 DEF IsFull, IsUpdate
<1>4. Rows = {}
  BY <1>1, MemberAssumption DEF Rows, MemberSlot
<1>5. \A n \in 0..1 : Called[n] = {}
  BY <1>1, <1>2, <1>3, <1>4 DEF Called
<1>6. RollTurns
  <2>1. 0 \in Enders /\ Goers = {}
    BY <1>1, <1>2, <1>3 DEF Enders, Goers
  <2>2. \A m, n \in 0..1 : m < n => m = 0
    OBVIOUS
  <2> QED
    BY <1>1, <1>2, <2>1, <2>2 DEF RollTurns, Turns
<1>7. RollOnce
  BY <1>1 DEF RollOnce
<1>8. RollWhole
  BY <1>1, <1>2, <1>5 DEF RollWhole, Apart, Whole
<1>9. RollRows
  BY <1>1, <1>4, MemberAssumption DEF RollRows
<1>10. TableFresh /\ WireFresh
  BY <1>1, <1>4 DEF TableFresh, WireFresh
<1> QED
  BY <1>6, <1>7, <1>8, <1>9, <1>10 DEF RollInv

\* A new list puts the one before out of the count.
LEMMA StartServes ==
  ASSUME MemberTypeOK, RollInv, StartMemberList
  PROVE  RollInv'
<1>1. /\ ~open /\ open' /\ toSend' = Order(alliance) /\ roll' = alliance /\ alliance' = alliance
      /\ memberWire' = memberWire /\ version' = version /\ UNCHANGED memberTable
  BY DEF StartMemberList
<1>2. alliance # {} /\ IsFiniteSet(alliance)
  BY MemberAssumption, FS_Subset DEF MemberTypeOK, RollInv, RollOnce
<1>3. /\ Len(toSend') = Cardinality(alliance) /\ Cardinality(alliance) \in Nat
      /\ Cardinality(alliance) # 0
      /\ \A k, l \in DOMAIN toSend' : toSend'[k] = toSend'[l] => k = l
      /\ alliance = {toSend'[k] : k \in DOMAIN toSend'}
  BY <1>1, <1>2, OrderOnce, FS_EmptySet
<1>4. PICK z \in Nat : z = RollEnd /\ z >= 1
  BY DEF RollEnd, MemberTypeOK
<1>5. RollEnd' = z /\ RollPlaces' = 0..z /\ RollPlaces = 0..z
  BY <1>1, <1>4 DEF RollEnd, RollPlaces
<1>6. Unsent' /\ ~Unsent
  BY <1>1, <1>3 DEF Unsent
<1>7. \A n : (IsFull(n)' <=> IsFull(n)) /\ (IsUpdate(n)' <=> IsUpdate(n))
  BY <1>1 DEF IsFull, IsUpdate
<1>8. /\ member' = member /\ recv_index' = recv_index /\ data_finished' = data_finished
      /\ count' = count
  BY <1>1 DEF memberTable
<1>9. Talkers' = Talkers /\ Enders' = Enders /\ Goers' = Goers
  <2>1. Talkers' = Talkers
    BY <1>4, <1>5, <1>7 DEF Talkers
  <2>2. Enders' = Enders
    BY <1>1, <1>5, <1>7, <1>8 DEF Enders
  <2>3. Goers' = Goers
    BY <1>1, <1>4, <1>5, <1>6, <1>7 DEF Goers
  <2> QED
    BY <2>1, <2>2, <2>3
<1>10. RollTurns'
  BY <1>4, <1>5, <1>8, <1>9 DEF RollInv, RollTurns
<1>11. z \in Firsts' /\ z \in 0..z
  BY <1>4, <1>5, <1>6 DEF Firsts
<1>12. \A n \in 0..z : n # z => ~SameList(Firsts', n, z)
  <2>1. \A n \in 0..z : n # z => z \in (n + 1)..z
    OBVIOUS
  <2> QED
    BY <1>11, <2>1 DEF SameList
<1>13. \A n \in 0..z : n # z => Called'[n] = {}
  BY <1>5, <1>12 DEF Called
<1>14. SameList(Firsts', z, z)
  BY DEF SameList
<1>15. Called'[z] = alliance
  BY <1>3, <1>4, <1>5, <1>11, <1>14 DEF Called
<1>16. RollWhole'
  <2>1. Apart(Called', Firsts', z)
    <3>1. \A m, n \in 0..z : m < n => m # z
      OBVIOUS
    <3> QED
      BY <1>13, <3>1 DEF Apart
  <2>2. Whole(Called', Firsts', z, alliance)
    <3>1. \A g : g \in alliance <=> \E n \in 0..z : g \in Called'[n] /\ SameList(Firsts', n, z)
      BY <1>11, <1>13, <1>14, <1>15
    <3> QED
      BY <3>1, WholeIs
  <2> QED
    BY <1>1, <1>5, <2>1, <2>2 DEF RollWhole
<1>17. ~OnTable'
  <2>1. 0 \in 0..z /\ 0 # z
    BY <1>4
  <2> QED
    BY <1>5, <1>12, <2>1 DEF OnTable
<1>18. RollOnce'
  <2>1. Len(toSend') \in 1..Cardinality(roll')
    BY <1>1, <1>3
  <2> QED
    BY <1>1, <1>2, <1>3, <1>7, <2>1 DEF RollInv, RollOnce
<1>19. WireFresh'
  <2>1. \A n, m : NoneBehind(n, m)' <=> NoneBehind(n, m)
    BY <1>1, <1>7 DEF NoneBehind
  <2> QED
    BY <1>1, <1>7, <2>1 DEF RollInv, WireFresh
<1> QED
  BY <1>10, <1>16, <1>17, <1>18, <1>19 DEF RollInv, RollRows, TableFresh

LEMMA RollStays ==
  ASSUME RollInv, alliance' # {},
         UNCHANGED <<memberTable, memberWire, version, toSend, open, roll>>
  PROVE  RollInv'
<1>1. /\ memberWire' = memberWire /\ toSend' = toSend /\ open' = open /\ roll' = roll
      /\ version' = version /\ member' = member /\ recv_index' = recv_index
      /\ data_finished' = data_finished /\ count' = count
  BY DEF memberTable
<1>2. /\ \A n : (IsFull(n)' <=> IsFull(n)) /\ (IsUpdate(n)' <=> IsUpdate(n))
      /\ RollEnd' = RollEnd /\ RollPlaces' = RollPlaces /\ (Unsent' <=> Unsent)
      /\ Rows' = Rows
  BY <1>1 DEF IsFull, IsUpdate, RollEnd, RollPlaces, Unsent, Rows, MemberSlot
<1>3. /\ Firsts' = Firsts /\ Talkers' = Talkers /\ Enders' = Enders /\ Goers' = Goers
  BY <1>1, <1>2 DEF Firsts, Talkers, Enders, Goers
<1>4. Called' = Called
  BY <1>1, <1>2, <1>3 DEF Called
<1>5. (Fits' <=> Fits) /\ (OnTable' <=> OnTable)
  BY <1>1, <1>2, <1>3 DEF Fits, OnTable
<1>6. \A n, m : NoneBehind(n, m)' <=> NoneBehind(n, m)
  BY <1>1, <1>2 DEF NoneBehind
<1>7. RollTurns' /\ RollOnce'
  BY <1>1, <1>2, <1>3 DEF RollInv, RollTurns, RollOnce
<1>8. RollWhole' /\ RollRows'
  BY <1>1, <1>2, <1>3, <1>4, <1>5 DEF RollInv, RollWhole, RollRows
<1>9. TableFresh'
  BY <1>1, <1>2, <1>5, <1>6 DEF RollInv, TableFresh
<1>10. WireFresh'
  BY <1>1, <1>2, <1>6 DEF RollInv, WireFresh
<1> QED
  BY <1>7, <1>8, <1>9, <1>10 DEF RollInv

LEMMA RollStep ==
  ASSUME MemberTypeOK, RollInv, [MemberNext]_memberVars,
         ~UpdatesInList, UpdateLast = {TRUE}, MAX_ALLIANCE_MEMBER \in 1..(U8 - 1)
  PROVE  RollInv'
<1>0. alliance # {}
  BY DEF RollInv, RollOnce
<1>1. CASE RecvMemberSocialData
  <2>1. MemberReceive("Social") /\ UNCHANGED memberServer /\ UNCHANGED memberTable
    BY <1>1 DEF RecvMemberSocialData
  <2> QED
    BY <2>1, IdleRead
<1>2. CASE RecvMemberList
  BY <1>2, PartOfRoll
<1>3. CASE RecvMemberUpdate
  BY <1>3, UpdateRead
<1>4. CASE RecvMemberUnknown
  <2>1. MemberReceive("Unknown") /\ UNCHANGED memberServer /\ UNCHANGED memberTable
    BY <1>4 DEF RecvMemberUnknown
  <2> QED
    BY <2>1, IdleRead
<1>5. CASE PushMemberSocialData
  <2>1. /\ MemberSend([type |-> "Social"])
        /\ UNCHANGED <<memberTable, alliance, version, toSend, open, roll>>
    BY <1>5 DEF PushMemberSocialData
  <2> QED
    BY <2>1, AsideServes
<1>6. CASE StartMemberList
  BY <1>6, StartServes
<1>7. CASE \E n \in 1..Len(toSend) : SendMembers(n)
  BY <1>7, PartServes
<1>8. CASE PushUnknown
  <2>1. /\ MemberSend([type |-> "Unknown"])
        /\ UNCHANGED <<memberTable, alliance, version, toSend, open, roll>>
    BY <1>8 DEF PushUnknown, memberServer
  <2> QED
    BY <2>1, AsideServes
<1>9. CASE Reshuffle
  BY <1>9, RollStays DEF Reshuffle
<1>10. CASE \E S \in SUBSET Members : Change(S)
  BY <1>10, ChangeServes
<1>11. CASE UNCHANGED memberVars
  BY <1>0, <1>11, RollStays DEF memberVars, memberServer
<1> QED
  BY <1>1, <1>2, <1>3, <1>4, <1>5, <1>6, <1>7, <1>8, <1>9, <1>10, <1>11
  DEF MemberNext, MemberPacket, MemberServer, SendMemberList, RecvAllianceMemberInfo

\* The list sent last, followed from the server through the packets into the
\* table: nobody twice, nobody lost, the packets in turn and what no update
\* follows as the server has it.  For every alliance and every length of its
\* lists and packets, provided the table is shorter than the width of count, no
\* update cuts into a list and every update carries b2 = 1.
THEOREM RollInvariant ==
  ASSUME ~UpdatesInList, UpdateLast = {TRUE}, MAX_ALLIANCE_MEMBER \in 1..(U8 - 1)
  PROVE  MemberSpec => []RollInv
<1>1. MemberInit => RollInv
  BY RollStart
<1>2. MemberTypeOK /\ RollInv /\ [MemberNext]_memberVars => RollInv'
  BY RollStep
<1>3. MemberSpec => []MemberTypeOK
  BY MemberTypeCorrect
<1> QED
  BY <1>1, <1>2, <1>3, PTL DEF MemberSpec

\* With everything read, the count is that of the list sent last, its entries are
\* the members of that list, each once, and as recent as the server has them
\* (RecvAllianceMemberInfo, protocol.c).
THEOREM RollCallAlways ==
  ASSUME ~UpdatesInList, UpdateLast = {TRUE}, MAX_ALLIANCE_MEMBER \in 1..(U8 - 1)
  PROVE  MemberSpec => []RollCall
<1>1. MemberTypeOK /\ RollInv => RollCall
  <2> SUFFICES ASSUME MemberTypeOK, RollInv, Quiet PROVE
                  /\ count = Cardinality(roll)
                  /\ {member[i].user_id : i \in 0..(count - 1)} = roll
                  /\ \A i \in 0..(count - 1) : member[i].user_id \in alliance =>
                       member[i].version = version[member[i].user_id]
    BY DEF RollCall
  <2>1. /\ ~open /\ toSend = <<>> /\ Fits /\ alliance \subseteq Members
        /\ \A n : ~IsFull(n) /\ ~IsUpdate(n)
    BY DEF Quiet, Fits, IsFull, IsUpdate, RollInv, RollOnce, MemberTypeOK
  <2>2. Firsts = {} /\ OnTable
    <3>1. Firsts = {}
      BY <2>1 DEF Firsts, Unsent
    <3> QED
      BY <2>1, <3>1 DEF OnTable, SameList
  <2>3. PICK z \in Nat : z = RollEnd /\ z >= 1
    BY DEF RollEnd, MemberTypeOK
  <2>4. /\ \A n \in 0..z : n # 0 => Called[n] = {}
        /\ Called[0] = {member[i].user_id : i \in Rows}
    <3>1. RollPlaces = 0..z /\ 0 \in 0..z /\ 0 # z
      BY <2>3 DEF RollPlaces
    <3>2. DOMAIN toSend = {}
      BY <2>1
    <3> QED
      BY <2>1, <2>2, <2>3, <3>1, <3>2 DEF Called, OnTable
  <2>5. count \in Nat /\ count <= MAX_ALLIANCE_MEMBER
    BY <2>2, MemberAssumption DEF MemberTypeOK, RollInv, RollRows
  <2>6. \A i : i \in Rows <=> i \in 0..(count - 1)
    BY <2>5, TheRows
  <2>7. roll = {member[i].user_id : i \in 0..(count - 1)}
    <3>1. Whole(Called, Firsts, z, roll)
      BY <2>1, <2>3 DEF RollInv, RollWhole
    <3>2. \A g : g \in roll <=> \E n \in 0..z : g \in Called[n] /\ SameList(Firsts, n, z)
      BY <3>1, WholeIs
    <3>3. 0 \in 0..z /\ SameList(Firsts, 0, z)
      BY <2>2, <2>3 DEF OnTable
    <3>4. \A g : g \in roll <=> g \in Called[0]
      BY <2>4, <3>2, <3>3
    <3> QED
      BY <2>4, <2>6, <3>4
  <2>8. count = Cardinality(roll)
    <3> DEFINE f == [i \in 0..(count - 1) |-> member[i].user_id]
    <3>1. IsFiniteSet(roll)
      BY MemberAssumption, FS_Subset DEF MemberTypeOK
    <3>2. f \in Bijection(0..(count - 1), roll)
      <4>1. \A i, j \in 0..(count - 1) : member[i].user_id = member[j].user_id => i = j
        BY <2>2, <2>6 DEF RollInv, RollRows
      <4> QED
        BY <2>7, <4>1 DEF Bijection, Injection, Surjection, IsInjective
    <3>3. IsFiniteSet(0..(count - 1)) /\ Cardinality(0..(count - 1)) = count
      <4>1. /\ IsFiniteSet(0..(count - 1))
            /\ Cardinality(0..(count - 1)) =
                 IF 0 > count - 1 THEN 0 ELSE (count - 1) - 0 + 1
        BY <2>5, 0 \in Int, count - 1 \in Int, FS_Interval
      <4> QED
        BY <2>5, <4>1
    <3>4. ExistsBijection(0..(count - 1), roll)
      BY <3>2 DEF ExistsBijection
    <3> QED
      BY <3>3, <3>4, FS_Bijection
  <2>9. \A i \in 0..(count - 1) : member[i].user_id \in alliance =>
          member[i].version = version[member[i].user_id]
    <3>1. \A m : NoneBehind(0, m)
      BY <2>1 DEF NoneBehind
    <3> QED
      BY <2>1, <2>2, <2>6, <3>1 DEF RollInv, TableFresh
  <2> QED
    BY <2>7, <2>8, <2>9
<1> QED
  BY <1>1, RollInvariant, MemberTypeCorrect, PTL
===============================================================================
