---------------------------- MODULE AllianceMember ----------------------------
(***************************************************************************)
(* The table of alliance members (RecvAllianceMemberInfo, protocol.c): full*)
(* lists in several packets (b = 0), and updates of some of the members     *)
(* (b = 2), which share the fields that tell where a full list goes on.    *)
(*                                                                         *)
(* The server cuts a list into packets as it likes; members join, leave    *)
(* and change; changes are announced, joining and leaving show in the next *)
(* list.                                                                   *)
(***************************************************************************)
EXTENDS Naturals, Sequences, FiniteSets, Parts

CONSTANTS
  Members,              \* user ids
  NoMember,             \* the user id of a slot never written
  MAX_ALLIANCE_MEMBER,  \* 100
  U8,                   \* 256: the width of count
  MaxMemberLists,       \* bound: lists asked for
  MaxChanges,           \* bound: updates sent
  UpdatesInList,        \* may an update come between the packets of a list
  UpdateLast            \* what the server sends as b2 of an update

ASSUME MemberAssumption ==
  /\ IsFiniteSet(Members) /\ NoMember \notin Members
  /\ MAX_ALLIANCE_MEMBER \in Nat /\ U8 \in Nat \ {0}
  /\ MaxMemberLists \in Nat /\ MaxChanges \in Nat
  /\ UpdatesInList \in BOOLEAN /\ UpdateLast \subseteq BOOLEAN

VARIABLES
  member,          \* alliance_member.member: the id, and how recent the rest is
  recv_index,      \* alliance_member.recv_index
  data_finished,   \* alliance_member.data_finished
  count,           \* alliance_member.count
  memberRequests,  \* lists asked for and not yet begun
  memberWire,      \* packets on their way to the bot
  alliance,        \* server: the members
  version,         \* server: how often a member has changed
  toSend,          \* server: what is left to send of the list
  open,            \* server: is a list under way
  roll,            \* history: members of the list sent last
  memberLists,     \* history: lists asked for
  changes          \* history: updates sent

memberTable == <<member, recv_index, data_finished, count>>
memberServer == <<alliance, version, toSend, open, roll, memberLists, changes>>
memberVars == <<memberTable, memberRequests, memberWire, memberServer>>

MemberSlot == 0..(MAX_ALLIANCE_MEMBER - 1)

MemberInit ==
  /\ member = [i \in MemberSlot |-> [user_id |-> NoMember, version |-> 0]]
  /\ recv_index = 0 /\ data_finished = FALSE /\ count = 0
  /\ memberRequests = 0 /\ memberWire = <<>>
  /\ alliance \in (SUBSET Members) \ {{}}
  /\ version = [m \in Members |-> 0]
  /\ toSend = <<>> /\ open = FALSE /\ roll = {} /\ memberLists = 0 /\ changes = 0

-----------------------------------------------------------------------------
\* Packets from the server

MemberReceive(type) ==
  memberWire # <<>> /\ Head(memberWire).type = type /\ memberWire' = Tail(memberWire)

\* _MSG_RESP_SOCIAL_DATA: RequestAllianceMemberInfo.
RecvMemberSocialData ==
  /\ MemberReceive("Social")
  /\ memberRequests' = memberRequests + 1
  /\ UNCHANGED <<memberTable, memberServer>>

Least(a, b) == IF a <= b THEN a ELSE b

\* data_finished is set from every packet, whatever its type.
Finish(last, index) ==
  /\ data_finished' = last
  /\ recv_index' = IF last THEN 0 ELSE index

\* Mutants are named after the operator they change.
RecvMemberList_OneMore ==
  /\ MemberReceive("Full")
  /\ LET m == Head(memberWire)
         start == IF data_finished THEN 0 ELSE recv_index
         end == Least(start + Len(m.members), MAX_ALLIANCE_MEMBER + 1) IN
       /\ count' = (Len(m.members) + IF data_finished THEN 0 ELSE count) % U8
       /\ member' = [i \in DOMAIN member \cup start..(end - 1) |->
                       IF i \in start..(end - 1) THEN m.members[i - start + 1] ELSE member[i]]
       /\ Finish(m.last, end)
  /\ UNCHANGED <<memberRequests, memberServer>>

\* b = 0: the next members of a list, or the first of a new one when the list
\* before is finished.  The table is capped, the count is not.  (A write past the
\* table would make a slot that is none.)
RecvMemberList ==
  /\ MemberReceive("Full")
  /\ LET m == Head(memberWire)
         start == IF data_finished THEN 0 ELSE recv_index
         end == Least(start + Len(m.members), MAX_ALLIANCE_MEMBER) IN
       /\ count' = (Len(m.members) + IF data_finished THEN 0 ELSE count) % U8
       /\ member' = [i \in DOMAIN member \cup start..(end - 1) |->
                       IF i \in start..(end - 1) THEN m.members[i - start + 1] ELSE member[i]]
       /\ Finish(m.last, end)
  /\ UNCHANGED <<memberRequests, memberServer>>

Places(id) == {i \in MemberSlot : member[i].user_id = id}

Mentions(list, id) == \E k \in DOMAIN list : list[k].user_id = id

\* What an update leaves of a member: its last entry about it.
EntryOf(list, id) ==
  LET about == {k \in DOMAIN list : list[k].user_id = id} IN
    list[CHOOSE k \in about : \A l \in about : l <= k]

Updated_LastSlot(list) ==
  [i \in MemberSlot |->
     LET id == member[i].user_id IN
       IF Mentions(list, id) /\ \A j \in Places(id) : j <= i
         THEN EntryOf(list, id) ELSE member[i]]

\* The first slot with an id of the update is overwritten.
Updated(list) ==
  [i \in MemberSlot |->
     LET id == member[i].user_id IN
       IF Mentions(list, id) /\ \A j \in Places(id) : i <= j
         THEN EntryOf(list, id) ELSE member[i]]

\* b = 2: any number of members, and b2 as in a list.
RecvMemberUpdate ==
  /\ MemberReceive("Update")
  /\ member' = Updated(Head(memberWire).members)
  /\ Finish(Head(memberWire).last, recv_index)
  /\ UNCHANGED <<count, memberRequests, memberServer>>

\* Any other b returns at once.
RecvMemberUnknown ==
  /\ MemberReceive("Unknown")
  /\ UNCHANGED <<memberTable, memberRequests, memberServer>>

RecvAllianceMemberInfo == RecvMemberList \/ RecvMemberUpdate \/ RecvMemberUnknown

-----------------------------------------------------------------------------
\* The server

MemberSend(m) == memberWire' = Append(memberWire, m)

PushMemberSocialData ==
  /\ memberLists < MaxMemberLists
  /\ memberLists' = memberLists + 1
  /\ MemberSend([type |-> "Social"])
  /\ UNCHANGED <<memberTable, memberRequests, alliance, version, toSend, open, roll,
                 changes>>

\* An order of the server's own.
Order(S) ==
  CHOOSE s \in [1..Cardinality(S) -> S] : \A m, n \in DOMAIN s : m # n => s[m] # s[n]

StartMemberList ==
  /\ memberRequests > 0 /\ ~open
  /\ memberRequests' = memberRequests - 1
  /\ open' = TRUE
  /\ toSend' = Order(alliance)
  /\ roll' = alliance
  /\ UNCHANGED <<memberTable, memberWire, alliance, version, memberLists, changes>>

Entry(m) == [user_id |-> m, version |-> version[m]]

SendMembers(n) ==
  /\ open
  /\ n \in 1..Len(toSend)
  /\ MemberSend([type |-> "Full", last |-> n = Len(toSend),
                 first |-> Len(toSend) = Cardinality(roll),
                 members |-> [k \in 1..n |-> Entry(toSend[k])]])
  /\ toSend' = SubSeq(toSend, n + 1, Len(toSend))
  /\ open' = (n < Len(toSend))
  /\ UNCHANGED <<memberTable, memberRequests, alliance, version, roll, memberLists,
                 changes>>

\* Members change.  The update is a packet of its own, complete in itself.
Change(S) ==
  /\ S # {} /\ S \subseteq alliance
  /\ changes < MaxChanges
  /\ changes' = changes + 1
  /\ open => UpdatesInList
  /\ version' = [m \in Members |-> IF m \in S THEN version[m] + 1 ELSE version[m]]
  /\ \E last \in UpdateLast :
       MemberSend([type |-> "Update", last |-> last,
                   members |-> [k \in 1..Cardinality(S) |->
                                  [user_id |-> Order(S)[k], version |-> version'[Order(S)[k]]]]])
  /\ UNCHANGED <<memberTable, memberRequests, alliance, toSend, open, roll, memberLists>>

PushUnknown ==
  /\ memberWire = <<>>
  /\ MemberSend([type |-> "Unknown"])
  /\ UNCHANGED <<memberTable, memberRequests, memberServer>>

\* Members come and go between lists.
Reshuffle ==
  /\ ~open
  /\ alliance' \in {a \in (SUBSET Members) \ {{}} : a # alliance}
  /\ UNCHANGED <<memberTable, memberRequests, memberWire, version, toSend, open, roll,
                 memberLists, changes>>

SendMemberList == StartMemberList \/ \E n \in 1..Len(toSend) : SendMembers(n)

MemberServer ==
  \/ PushMemberSocialData \/ SendMemberList \/ PushUnknown \/ Reshuffle
  \/ \E S \in SUBSET Members : Change(S)

MemberPacket == RecvMemberSocialData \/ RecvAllianceMemberInfo

MemberNext == MemberPacket \/ MemberServer

MemberSpec == MemberInit /\ [][MemberNext]_memberVars

-----------------------------------------------------------------------------
\* Properties

MemberEntryType == [user_id : Members \cup {NoMember}, version : Nat]

MemberPacketType ==
  [type : {"Social", "Unknown"}]
    \cup [type : {"Full"}, last : BOOLEAN, first : BOOLEAN, members : Seq(MemberEntryType)]
    \cup [type : {"Update"}, last : BOOLEAN, members : Seq(MemberEntryType)]

\* Types; no list, however long, is written past the table.
MemberTypeOK ==
  /\ member \in [MemberSlot -> MemberEntryType]
  /\ recv_index \in 0..MAX_ALLIANCE_MEMBER
  /\ data_finished \in BOOLEAN /\ count \in 0..(U8 - 1)
  /\ memberRequests \in Nat
  /\ memberWire \in Seq(MemberPacketType)
  /\ alliance \subseteq Members /\ roll \subseteq Members
  /\ version \in [Members -> Nat]
  /\ toSend \in Seq(Members) /\ open \in BOOLEAN
  /\ memberLists \in Nat /\ changes \in Nat

Quiet ==
  /\ ~open /\ roll # {}
  /\ Cardinality(roll) <= MAX_ALLIANCE_MEMBER
  /\ \A n \in DOMAIN memberWire : memberWire[n].type = "Social"

\* Between lists, with everything read, the first count entries are the members
\* of the list sent last, each once and as recent as the server has them:
\* through lists that grow and shrink, cut anywhere, and updates in between.
\* (RecvAllianceMemberInfo, for alliances that fit the table, as long as no
\* update cuts into a list and every update carries b2 = 1: one with b2 = 0 leaves
\* data_finished FALSE, and the list after it would be added to the count.)
RollCall ==
  Quiet =>
    /\ count = Cardinality(roll)
    /\ {member[i].user_id : i \in 0..(count - 1)} = roll
    /\ \A i \in 0..(count - 1) :
         member[i].user_id \in alliance => member[i].version = version[member[i].user_id]

\* "Start of a new full member list" (protocol.c:4369): the table is begun anew
\* by the first packet of a list only.
BegunByFirst ==
  [][(MemberReceive("Full") /\ data_finished) => Head(memberWire).first]_memberVars

-----------------------------------------------------------------------------
(***************************************************************************)
(* What makes RollCall inductive, as long as no update cuts into a list    *)
(* and each carries b2 = 1:                                                *)
(* the list sent last, followed through its places (Parts), its packets in *)
(* turn, and who is behind with whom.                                      *)
(***************************************************************************)
RollEnd == Len(memberWire) + 1
RollPlaces == 0..RollEnd

IsFull(n) == n \in DOMAIN memberWire /\ memberWire[n].type = "Full"
IsUpdate(n) == n \in DOMAIN memberWire /\ memberWire[n].type = "Update"

Unsent == open /\ Len(toSend) = Cardinality(roll)

\* Places where a list begins.
Firsts ==
  {n \in RollPlaces : (n = RollEnd /\ Unsent) \/ (IsFull(n) /\ memberWire[n].first)}

Rows == {i \in MemberSlot : i < count}

\* What the places hold of the list sent last.
Called ==
  [n \in RollPlaces |->
     IF ~SameList(Firsts, n, RollEnd) THEN {}
     ELSE IF n = 0 THEN {member[i].user_id : i \in Rows}
     ELSE IF n = RollEnd THEN {toSend[k] : k \in DOMAIN toSend}
     ELSE IF IsFull(n)
       THEN {memberWire[n].members[k].user_id : k \in DOMAIN memberWire[n].members}
     ELSE {}]

\* The packets that set data_finished, between the table and the server.
Talkers == {n \in RollPlaces : n = 0 \/ n = RollEnd \/ IsFull(n) \/ IsUpdate(n)}
Enders ==
  {n \in RollPlaces : \/ n = 0 /\ (data_finished \/ recv_index = 0)
                      \/ (IsFull(n) \/ IsUpdate(n)) /\ memberWire[n].last}
Goers ==
  {n \in RollPlaces : \/ n = RollEnd /\ open /\ ~Unsent
                      \/ IsFull(n) /\ ~memberWire[n].first}

RollTurns ==
  /\ Turns(Talkers, Enders, Goers, RollEnd)
  /\ recv_index = 0 /\ ~data_finished => count = 0

RollOnce ==
  /\ alliance # {}
  /\ IF open THEN Len(toSend) \in 1..Cardinality(roll) ELSE toSend = <<>>
  /\ \A k, l \in DOMAIN toSend : toSend[k] = toSend[l] => k = l
  /\ \A n \in DOMAIN memberWire : IsFull(n) \/ IsUpdate(n) =>
       /\ memberWire[n].members # <<>>
       /\ \A k \in DOMAIN memberWire[n].members : memberWire[n].members[k].user_id \in Members
       /\ \A k, l \in DOMAIN memberWire[n].members :
            memberWire[n].members[k].user_id = memberWire[n].members[l].user_id => k = l
  /\ \A n \in DOMAIN memberWire : IsUpdate(n) => memberWire[n].last

Fits == Cardinality(roll) <= MAX_ALLIANCE_MEMBER

\* The table has begun on the list sent last, and that list fits.
OnTable == Fits /\ SameList(Firsts, 0, RollEnd)

RollWhole ==
  Fits => Apart(Called, Firsts, RollEnd) /\ Whole(Called, Firsts, RollEnd, roll)

RollRows ==
  OnTable =>
    /\ count <= MAX_ALLIANCE_MEMBER
    /\ ~data_finished => recv_index = count
    /\ \A i \in Rows : member[i].user_id \in Members
    /\ \A i, j \in Rows : member[i].user_id = member[j].user_id => i = j

NoneBehind(n, m) ==
  \A j \in DOMAIN memberWire : j > n /\ IsUpdate(j) => ~Mentions(memberWire[j].members, m)

\* Where no update follows, what is said of a member is recent.
TableFresh ==
  OnTable => \A m \in Members, i \in Rows :
    member[i].user_id = m /\ NoneBehind(0, m) => member[i].version = version[m]
WireFresh ==
  \A m \in Members, n \in DOMAIN memberWire :
    (IsFull(n) \/ IsUpdate(n)) /\ NoneBehind(n, m) =>
      \A k \in DOMAIN memberWire[n].members :
        memberWire[n].members[k].user_id = m => memberWire[n].members[k].version = version[m]

RollInv == RollTurns /\ RollOnce /\ RollWhole /\ RollRows /\ TableFresh /\ WireFresh
===============================================================================
