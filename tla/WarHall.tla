-------------------------------- MODULE WarHall --------------------------------
(***************************************************************************)
(* The tables of rallies (protocol.c): those the alliance has opened and   *)
(* those opened against it, rallies on monsters, and the members of a      *)
(* rally.  The server shows, changes and deletes entries by their index;   *)
(* the bot keeps what it was shown last and asks for details.              *)
(*                                                                         *)
(* The tick that would join rallies is not called (main.c:74), and every   *)
(* call that would follow from a rally on a monster is commented out.      *)
(***************************************************************************)
EXTENDS Naturals, Sequences, FiniteSets

CONSTANTS
  Rallies,      \* what an entry may hold
  NoRally,      \* an entry of zeros
  RALLY_SLOTS,  \* 30: ally_rallies, enemy_rallies, npc_rallies, rally_members
  MaxOnWay      \* bound: packets and requests on their way

ASSUME HallAssumption ==
  /\ NoRally \notin Rallies
  /\ RALLY_SLOTS \in Nat /\ MaxOnWay \in Nat

RallySlot == 0..(RALLY_SLOTS - 1)

\* The tables; the type of a rally is 0 for "ally", 1 for "enemy".
Halls == {"ally", "enemy"}
Tables == Halls \cup {"npc", "member"}

VARIABLES
  table,          \* ally_rallies, enemy_rallies, npc_rallies, rally_members
  rally_status,   \* how many rallies are open: alliance, enemy
  rallyRequests,  \* requests on their way to the server
  rallyWire,      \* packets on their way to the bot
  shown           \* server: what the bot was shown last

hallVars == <<table, rally_status, rallyRequests, rallyWire, shown>>

Blank == [t \in Tables |-> [i \in RallySlot |-> NoRally]]

HallInit ==
  /\ table = Blank
  /\ rally_status = <<0, 0>>
  /\ rallyRequests = <<>> /\ rallyWire = <<>>
  /\ shown = Blank

-----------------------------------------------------------------------------
\* The bot

HallReceive(type) ==
  rallyWire # <<>> /\ Head(rallyWire).type = type /\ rallyWire' = Tail(rallyWire)

\* A write past a table would make a slot that is none.
Put(t, i, value) ==
  table' = [table EXCEPT ![t] = [j \in DOMAIN table[t] \cup {i} |->
                                   IF j = i THEN value ELSE table[t][j]]]

RequestRallyDetail(type, i) ==
  rallyRequests' = Append(rallyRequests, [type |-> "Detail", kind |-> type, index |-> i])

\* _MSG_RESP_SOCIAL_DATA: RequestRallyList.
RecvHallSocialData ==
  /\ HallReceive("Social")
  /\ rallyRequests' = Append(rallyRequests, [type |-> "List"])
  /\ UNCHANGED <<table, rally_status, shown>>

\* A rally that is new or has changed.  Details are asked for with type 0,
\* whatever the type of the rally.
RecvWallHallData ==
  /\ HallReceive("Data")
  /\ LET m == Head(rallyWire) IN
       IF m.kind \in Halls /\ m.index < RALLY_SLOTS
         THEN Put(m.kind, m.index, m.rally) /\ RequestRallyDetail("ally", m.index)
         ELSE UNCHANGED <<table, rallyRequests>>
  /\ UNCHANGED <<rally_status, shown>>

\* Mutants are named after the operator they change.
RecvWallHallDel_AllyOnly ==
  /\ HallReceive("Del")
  /\ LET m == Head(rallyWire) IN
       IF m.kind \in Halls /\ m.index < RALLY_SLOTS
         THEN Put("ally", m.index, NoRally)
         ELSE UNCHANGED table
  /\ UNCHANGED <<rally_status, rallyRequests, shown>>

RecvWallHallDel ==
  /\ HallReceive("Del")
  /\ LET m == Head(rallyWire) IN
       IF m.kind \in Halls /\ m.index < RALLY_SLOTS
         THEN Put(m.kind, m.index, NoRally)
         ELSE UNCHANGED table
  /\ UNCHANGED <<rally_status, rallyRequests, shown>>

RecvNPCWallHallData_OneMore ==
  /\ HallReceive("NPC")
  /\ LET m == Head(rallyWire) IN
       IF m.index <= RALLY_SLOTS THEN Put("npc", m.index, m.rally) ELSE UNCHANGED table
  /\ UNCHANGED <<rally_status, rallyRequests, shown>>

\* A rally on a monster.  No packet deletes one.
RecvNPCWallHallData ==
  /\ HallReceive("NPC")
  /\ LET m == Head(rallyWire) IN
       IF m.index < RALLY_SLOTS THEN Put("npc", m.index, m.rally) ELSE UNCHANGED table
  /\ UNCHANGED <<rally_status, rallyRequests, shown>>

\* A member of a rally, of whichever rally: the packet does not say.
RecvWallHallTroop ==
  /\ HallReceive("Troop")
  /\ LET m == Head(rallyWire) IN
       IF m.index < RALLY_SLOTS THEN Put("member", m.index, m.rally) ELSE UNCHANGED table
  /\ UNCHANGED <<rally_status, rallyRequests, shown>>

RecvRallyCountData ==
  /\ HallReceive("Count")
  /\ rally_status' = Head(rallyWire).status
  /\ UNCHANGED <<table, rallyRequests, shown>>

\* RecvWarBegin, RecvDarknestBroadcast, RecvNPCWallHallDetail, RecvWallHallDetail,
\* RecvWallHallDetailClose and RecvJoinedRallyData only print.
RecvRallyNews ==
  /\ HallReceive("News")
  /\ UNCHANGED <<table, rally_status, rallyRequests, shown>>

HallPacket ==
  \/ RecvHallSocialData \/ RecvWallHallData \/ RecvWallHallDel \/ RecvNPCWallHallData
  \/ RecvWallHallTroop \/ RecvRallyCountData \/ RecvRallyNews

-----------------------------------------------------------------------------
\* The server

HallSend(m) ==
  /\ Len(rallyWire) + Len(rallyRequests) < MaxOnWay
  /\ rallyWire' = Append(rallyWire, m)

PushHallSocialData ==
  /\ HallSend([type |-> "Social"])
  /\ UNCHANGED <<table, rally_status, rallyRequests, shown>>

Shows(t, i, value) ==
  shown' = IF t \in Tables /\ i \in RallySlot THEN [shown EXCEPT ![t][i] = value] ELSE shown

\* The type may be one the bot does not know, and the index beyond its tables.
ShowRally(t, i, r) ==
  /\ HallSend([type |-> "Data", kind |-> t, index |-> i, rally |-> r])
  /\ Shows(t, i, r)
  /\ UNCHANGED <<table, rally_status, rallyRequests>>

CloseRally(t, i) ==
  /\ HallSend([type |-> "Del", kind |-> t, index |-> i, rally |-> NoRally])
  /\ Shows(t, i, NoRally)
  /\ UNCHANGED <<table, rally_status, rallyRequests>>

ShowNPCRally(i, r) ==
  /\ HallSend([type |-> "NPC", kind |-> "npc", index |-> i, rally |-> r])
  /\ Shows("npc", i, r)
  /\ UNCHANGED <<table, rally_status, rallyRequests>>

ShowMember(i, r) ==
  /\ HallSend([type |-> "Troop", kind |-> "member", index |-> i, rally |-> r])
  /\ Shows("member", i, r)
  /\ UNCHANGED <<table, rally_status, rallyRequests>>

PushNews ==
  /\ HallSend([type |-> "News"])
  /\ UNCHANGED <<table, rally_status, rallyRequests, shown>>

Open(t) == Cardinality({i \in RallySlot : shown[t][i] # NoRally})

\* A list is answered with the counts; its entries follow as changes do.
TakeList ==
  /\ rallyRequests # <<>> /\ Head(rallyRequests).type = "List"
  /\ rallyRequests' = Tail(rallyRequests)
  /\ rallyWire' = Append(rallyWire, [type |-> "Count",
                                     status |-> <<Open("ally"), Open("enemy")>>])
  /\ UNCHANGED <<table, rally_status, shown>>

\* Details begin; the members follow as they do when one joins.
TakeDetail ==
  /\ rallyRequests # <<>> /\ Head(rallyRequests).type = "Detail"
  /\ rallyRequests' = Tail(rallyRequests)
  /\ rallyWire' = Append(rallyWire, [type |-> "News"])
  /\ UNCHANGED <<table, rally_status, shown>>

HallServer ==
  \/ PushHallSocialData \/ PushNews \/ TakeList \/ TakeDetail
  \/ \E i \in 0..RALLY_SLOTS :
       \/ \E t \in Halls \cup {"other"} : CloseRally(t, i) \/ \E r \in Rallies : ShowRally(t, i, r)
       \/ \E r \in Rallies : ShowNPCRally(i, r) \/ ShowMember(i, r)

HallNext == HallPacket \/ HallServer

HallSpec == HallInit /\ [][HallNext]_hallVars

-----------------------------------------------------------------------------
\* Properties

Entries == Rallies \cup {NoRally}

HallPacketType ==
  [type : {"Social", "News"}] \cup [type : {"Count"}, status : Nat \X Nat]
    \cup [type : {"Data"}, kind : Halls \cup {"other"}, index : Nat, rally : Rallies]
    \cup [type : {"Del"}, kind : Halls \cup {"other"}, index : Nat, rally : {NoRally}]
    \cup [type : {"NPC"}, kind : {"npc"}, index : Nat, rally : Rallies]
    \cup [type : {"Troop"}, kind : {"member"}, index : Nat, rally : Rallies]

HallRequestType ==
  [type : {"List"}] \cup [type : {"Detail"}, kind : Halls, index : RallySlot]

\* Types; no packet writes past a table, whatever its index.
HallTypeOK ==
  /\ table \in [Tables -> [RallySlot -> Entries]]
  /\ rally_status \in Nat \X Nat
  /\ rallyRequests \in Seq(HallRequestType)
  /\ rallyWire \in Seq(HallPacketType)
  /\ shown \in [Tables -> [RallySlot -> Entries]]

\* The packets on the way that are about an entry.
About(t, i) ==
  {n \in DOMAIN rallyWire :
     /\ rallyWire[n].type \in {"Data", "Del", "NPC", "Troop"}
     /\ rallyWire[n].kind = t /\ rallyWire[n].index = i}

\* An entry about which nothing is on the way holds what the server showed
\* last, or nothing if that was a deletion: rallies of both sides under one
\* index, opened, changed and closed while details are asked for, do not get
\* mixed up (RecvWallHallData, RecvWallHallDel, RecvNPCWallHallData,
\* RecvWallHallTroop).
AsLastShown ==
  \A t \in Tables, i \in RallySlot : About(t, i) = {} => table[t][i] = shown[t][i]

===============================================================================
