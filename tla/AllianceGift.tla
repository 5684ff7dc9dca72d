----------------------------- MODULE AllianceGift -----------------------------
(***************************************************************************)
(* Alliance gifts: the list that arrives in several packets, the gifts     *)
(* announced one by one, AllianceGiftTick, and the replies to openings and *)
(* deletions (protocol.c).  All of it is under alliance.auto_open_gifts;   *)
(* without the switch no handler does anything.                            *)
(*                                                                         *)
(* The server keeps a box of gifts.  It cuts its list into packets as it   *)
(* likes, and between them it goes on announcing gifts and deletions.      *)
(* Nothing in src/ asks for a deletion, so those it reports are its own    *)
(* or another client's.  No list it sends is longer than the table: the    *)
(* code writes at gift_offset without a test (protocol.c:2401-2412) and so *)
(* relies on it.                                                           *)
(***************************************************************************)
EXTENDS Naturals, Sequences, FiniteSets, Parts

CONSTANTS
  Gifts,        \* serial numbers
  NoGift,       \* 0, the serial number of a slot never written
  GiftsAtLogin, \* gifts in the box when the connection opens
  GIFT_SLOTS,   \* 300: AllianceSettings.gifts
  MaxLists,     \* bound: lists asked for, one for each _MSG_RESP_SOCIAL_DATA
  EmptyLast     \* may the last packet of a list be empty

ASSUME GiftAssumption ==
  /\ IsFiniteSet(Gifts) /\ NoGift \notin Gifts
  /\ GiftsAtLogin \subseteq Gifts
  /\ GIFT_SLOTS \in Nat /\ MaxLists \in Nat
  /\ EmptyLast \in BOOLEAN

VARIABLES
  gifts,                \* Connection.alliance.gifts
  gift_count,           \* alliance.gift_count
  gift_offset,          \* alliance.gift_offset: next slot to write, or to scan
  unopened_gift_count,  \* alliance.unopened_gift_count
  gift_state,           \* alliance.gift_state
  giftRequests,         \* requests on their way to the server
  giftWire,             \* packets on their way to the bot
  box,                  \* server: the state of every gift
  rest,                 \* server: what is left to send of the list
  sending,              \* server: no list, the first packet of one, or more
  listed,               \* history: gifts of the list sent last
  lists                 \* history: lists asked for

giftTable == <<gifts, gift_count, gift_offset, unopened_gift_count>>
giftServer == <<box, rest, sending, listed, lists>>
giftVars == <<giftTable, gift_state, giftRequests, giftWire, giftServer>>

\* GiftStatusToString; 0xFF marks what the bot knows to be deleted.
GIFT_NEW == 0
GIFT_OPEN == 1
GIFT_EXP == 2
GIFT_DELETED == 255

ABSENT == 3   \* server: not there yet
GONE == 4     \* server: deleted

GiftStates == {"IDLE", "LOADING", "READY", "OPENING", "DELETING"}

Slot == 0..(GIFT_SLOTS - 1)

GiftInit ==
  /\ gifts = [i \in Slot |-> [sn |-> NoGift, status |-> GIFT_NEW]]
  /\ gift_count = 0 /\ gift_offset = 0 /\ unopened_gift_count = 0
  /\ gift_state = "IDLE"
  /\ giftRequests = <<>> /\ giftWire = <<>>
  /\ box \in [Gifts -> {GIFT_NEW, GIFT_OPEN, ABSENT}]
  /\ \A g \in Gifts : box[g] = ABSENT <=> g \notin GiftsAtLogin
  /\ rest = <<>> /\ sending = "no" /\ listed = {} /\ lists = 0

-----------------------------------------------------------------------------
\* Packets from the server

GiftReceive(type) ==
  giftWire # <<>> /\ Head(giftWire).type = type /\ giftWire' = Tail(giftWire)

\* _MSG_RESP_SOCIAL_DATA: RequestAllianceGiftInfo.
RecvSocialData ==
  /\ GiftReceive("Social")
  /\ giftRequests' = Append(giftRequests, [type |-> "Info"])
  /\ UNCHANGED <<giftTable, gift_state, giftServer>>

Begins(state) == state \in {"Begin", "BeginAndEnd"}
Ends(state) == state \in {"End", "BeginAndEnd"}

Unopened(list) == Cardinality({n \in DOMAIN list : list[n].status = GIFT_NEW})

\* The slots after a packet is written from slot at on.
Written(list, at) ==
  [i \in Slot |-> IF i >= at /\ i < at + Len(list) THEN list[i - at + 1] ELSE gifts[i]]

\* Mutants are named after the operator they change.
RecvAllianceGiftInfo_NoReset ==
  /\ GiftReceive("List")
  /\ LET m == Head(giftWire)
         n == Len(m.gifts) IN
       IF n = 0
         THEN UNCHANGED giftTable
         ELSE /\ gift_count' = gift_count + n
              /\ gifts' = Written(m.gifts, gift_offset)
              /\ unopened_gift_count' = unopened_gift_count + Unopened(m.gifts)
              /\ gift_offset' = IF Ends(m.state) THEN 0 ELSE gift_offset + n
  /\ UNCHANGED <<gift_state, giftRequests, giftServer>>

RecvAllianceGiftInfo_KeepsOffset ==
  /\ GiftReceive("List")
  /\ LET m == Head(giftWire)
         n == Len(m.gifts)
         first == Begins(m.state)
         base == IF first THEN 0 ELSE gift_offset IN
       IF n = 0
         THEN UNCHANGED giftTable
         ELSE /\ gift_count' = n + IF first THEN 0 ELSE gift_count
              /\ gifts' = Written(m.gifts, base)
              /\ unopened_gift_count' =
                   Unopened(m.gifts) + IF first THEN 0 ELSE unopened_gift_count
              /\ gift_offset' = base + n
  /\ UNCHANGED <<gift_state, giftRequests, giftServer>>

\* A part of the list.  An empty one is dropped before its state is looked at.
RecvAllianceGiftInfo ==
  /\ GiftReceive("List")
  /\ LET m == Head(giftWire)
         n == Len(m.gifts)
         first == Begins(m.state)
         base == IF first THEN 0 ELSE gift_offset IN
       IF n = 0
         THEN UNCHANGED giftTable
         ELSE /\ gift_count' = n + IF first THEN 0 ELSE gift_count
              /\ gifts' = Written(m.gifts, base)
              /\ unopened_gift_count' =
                   Unopened(m.gifts) + IF first THEN 0 ELSE unopened_gift_count
              /\ gift_offset' = IF Ends(m.state) THEN 0 ELSE base + n
  /\ UNCHANGED <<gift_state, giftRequests, giftServer>>

RequestOpenAllianceGift(g) ==
  giftRequests' = Append(giftRequests, [type |-> "Open", sn |-> g])

\* b = 19, AllianceBox1: a gift has just come in.  It is opened at once and
\* not entered in the table.
RecvRoleUpdateInfo ==
  /\ GiftReceive("AllianceBox1")
  /\ RequestOpenAllianceGift(Head(giftWire).sn)
  /\ UNCHANGED <<giftTable, gift_state, giftServer>>

\* Every reply, good or bad, returns before anything is recorded.
RecvAllianceGiftOpen ==
  /\ GiftReceive("Opened")
  /\ UNCHANGED <<giftTable, gift_state, giftRequests, giftServer>>

Slots(g) == {i \in Slot : i < gift_count /\ gifts[i].sn = g}

Marked(g) ==
  [i \in Slot |-> IF i \in Slots(g) /\ \A j \in Slots(g) : i <= j
                    THEN [gifts[i] EXCEPT !.status = GIFT_DELETED] ELSE gifts[i]]

RecvDeleteAllianceGiftBox_FromOffset ==
  /\ GiftReceive("Deleted")
  /\ gift_state' = "READY"
  /\ gifts' = [i \in Slot |-> IF i >= gift_offset THEN Marked(Head(giftWire).sn)[i]
                                                  ELSE gifts[i]]
  /\ UNCHANGED <<gift_count, gift_offset, unopened_gift_count, giftRequests, giftServer>>

\* b = 0: the gift is marked, and the tick may go on.  The only place that
\* sets gift_state to READY.
RecvDeleteAllianceGiftBox ==
  /\ GiftReceive("Deleted")
  /\ gift_state' = "READY"
  /\ gifts' = Marked(Head(giftWire).sn)
  /\ UNCHANGED <<gift_count, gift_offset, unopened_gift_count, giftRequests, giftServer>>

GiftPacket ==
  \/ RecvSocialData \/ RecvAllianceGiftInfo \/ RecvRoleUpdateInfo
  \/ RecvAllianceGiftOpen \/ RecvDeleteAllianceGiftBox

\* Slots the tick may open.
Openable == {i \in Slot : i >= gift_offset /\ i < gift_count /\ gifts[i].status = GIFT_NEW}

AllianceGiftTick ==
  /\ gift_state = "READY"
  /\ \E i \in Openable :
       /\ \A j \in Openable : i <= j
       /\ RequestOpenAllianceGift(gifts[i].sn)
  /\ gift_state' = "OPENING"
  /\ UNCHANGED <<giftTable, giftWire, giftServer>>

-----------------------------------------------------------------------------
\* The server

GiftSend(m) == giftWire' = Append(giftWire, m)
GiftRequest(type) ==
  /\ giftRequests # <<>> /\ Head(giftRequests).type = type
  /\ giftRequests' = Tail(giftRequests)

PushSocialData ==
  /\ lists < MaxLists
  /\ lists' = lists + 1
  /\ GiftSend([type |-> "Social"])
  /\ UNCHANGED <<giftTable, gift_state, giftRequests, box, rest, sending, listed>>

InBox(g) == box[g] \in {GIFT_NEW, GIFT_OPEN, GIFT_EXP}

\* A list is asked for and begins, in an order of the server's own; a box that
\* does not fit the table is not sent.
StartList ==
  /\ sending = "no"
  /\ sending' = "first"
  /\ GiftRequest("Info")
  /\ LET here == {g \in Gifts : InBox(g)} IN
       /\ Cardinality(here) <= GIFT_SLOTS
       /\ rest' \in {s \in [1..Cardinality(here) -> here] :
                       \A m, n \in DOMAIN s : m # n => s[m] # s[n]}
       /\ listed' = here
  /\ UNCHANGED <<giftTable, gift_state, giftWire, box, lists>>

ListState(last) ==
  CASE sending = "first" /\ last  -> "BeginAndEnd"
    [] sending = "first" /\ ~last -> "Begin"
    [] sending = "more" /\ last   -> "End"
    [] sending = "more" /\ ~last  -> "Null"

\* A packet with the last gifts is the last, unless an empty one may follow.
MayBeLast(n) ==
  IF n < Len(rest) THEN {FALSE} ELSE IF EmptyLast /\ n > 0 THEN BOOLEAN ELSE {TRUE}

\* The next n gifts of the list, as they are now.
SendPart(n) ==
  /\ sending # "no"
  /\ n \in 1..Len(rest) \/ (n = 0 /\ rest = <<>>)
  /\ \E last \in MayBeLast(n) :
       /\ GiftSend([type |-> "List", state |-> ListState(last),
                    gifts |-> [k \in 1..n |-> [sn |-> rest[k], status |-> box[rest[k]]]]])
       /\ sending' = IF last THEN "no" ELSE "more"
  /\ rest' = SubSeq(rest, n + 1, Len(rest))
  /\ UNCHANGED <<giftTable, gift_state, giftRequests, box, listed, lists>>

\* A monster is hunted while the bot is online.
Announce(g) ==
  /\ box[g] = ABSENT
  /\ box' = [box EXCEPT ![g] = GIFT_NEW]
  /\ GiftSend([type |-> "AllianceBox1", sn |-> g])
  /\ UNCHANGED <<giftTable, gift_state, giftRequests, rest, sending, listed, lists>>

\* An opening is answered; it works once.
OpenGift ==
  /\ GiftRequest("Open")
  /\ LET g == Head(giftRequests).sn IN
       /\ box' = [box EXCEPT ![g] = IF @ = GIFT_NEW THEN GIFT_OPEN ELSE @]
       /\ GiftSend([type |-> "Opened"])
  /\ UNCHANGED <<giftTable, gift_state, rest, sending, listed, lists>>

Expire(g) ==
  /\ box[g] = GIFT_NEW
  /\ box' = [box EXCEPT ![g] = GIFT_EXP]
  /\ UNCHANGED <<giftTable, gift_state, giftRequests, giftWire, rest, sending, listed, lists>>

\* Gifts that are still to be sent of a list under way are not deleted.
DeleteGift(g) ==
  /\ box[g] \in {GIFT_OPEN, GIFT_EXP}
  /\ \A n \in DOMAIN rest : rest[n] # g
  /\ box' = [box EXCEPT ![g] = GONE]
  /\ GiftSend([type |-> "Deleted", sn |-> g])
  /\ UNCHANGED <<giftTable, gift_state, giftRequests, rest, sending, listed, lists>>

SendList == StartList \/ \E n \in 0..Len(rest) : SendPart(n)

GiftServer ==
  \/ PushSocialData \/ SendList \/ OpenGift
  \/ \E g \in Gifts : Announce(g) \/ Expire(g) \/ DeleteGift(g)

GiftNext == GiftPacket \/ AllianceGiftTick \/ GiftServer

GiftSpec == GiftInit /\ [][GiftNext]_giftVars

-----------------------------------------------------------------------------
\* Properties

EntryType ==
  [sn : Gifts \cup {NoGift}, status : {GIFT_NEW, GIFT_OPEN, GIFT_EXP, GIFT_DELETED}]
PartType == [sn : Gifts, status : {GIFT_NEW, GIFT_OPEN, GIFT_EXP}]

GiftRequestType == [type : {"Info"}] \cup [type : {"Open"}, sn : Gifts]

GiftPacketType ==
  [type : {"Social", "Opened"}]
    \cup [type : {"AllianceBox1", "Deleted"}, sn : Gifts]
    \cup [type : {"List"}, state : {"Null", "Begin", "End", "BeginAndEnd"},
          gifts : Seq(PartType)]

\* Types.  RecvAllianceGiftInfo writes at gift_offset and AllianceGiftTick scans
\* up to gift_count, neither with a test: through lists cut anywhere and asked
\* for again, both stay within the 300 slots as long as every list does.
GiftTypeOK ==
  /\ gifts \in [Slot -> EntryType]
  /\ gift_count \in 0..GIFT_SLOTS /\ gift_offset \in 0..gift_count
  /\ unopened_gift_count \in 0..gift_count
  /\ gift_state \in GiftStates
  /\ giftRequests \in Seq(GiftRequestType)
  /\ giftWire \in Seq(GiftPacketType)
  /\ box \in [Gifts -> {GIFT_NEW, GIFT_OPEN, GIFT_EXP, ABSENT, GONE}]
  /\ rest \in Seq(Gifts) /\ sending \in {"no", "first", "more"}
  /\ listed \subseteq Gifts /\ lists \in Nat

Told(type) == \E n \in DOMAIN giftWire : giftWire[n].type = type

ListRead == lists > 0 /\ listed # {} /\ sending = "no" /\ ~Told("List") /\ ~Told("Deleted")

\* Once a list and the deletions are read, the table holds every gift of the
\* list, and marks as deleted those that are gone and no other, whatever
\* was announced, opened and deleted between the packets of the list.
TableMirrorsBox ==
  ListRead =>
    /\ {gifts[i].sn : i \in 0..(gift_count - 1)} = listed
    /\ \A i \in 0..(gift_count - 1) :
         gifts[i].status = GIFT_DELETED <=> ~InBox(gifts[i].sn)

\* When the bot is READY ("Ready to process gifts", connection.h) and a whole
\* list shows a gift as new, the tick opens one: no cut of the list makes it
\* start behind the gifts.
ShownNew == ListRead /\ \E i \in 0..(gift_count - 1) : gifts[i].status = GIFT_NEW

ReadyOpens ==
  (gift_state = "READY" /\ ShownNew) ~> (gift_state = "OPENING" \/ ~ShownNew)

\* "Unopened gift", says AllianceGiftTick of what it opens: an opening it asks
\* for is not of a gift whose opening the server has already confirmed.
OnlyUnopened ==
  [][(gift_state = "READY" /\ gift_state' = "OPENING" /\ ~Told("Opened") /\ giftRequests = <<>>)
       => box[giftRequests'[1].sn] # GIFT_OPEN]_giftVars
-----------------------------------------------------------------------------
(***************************************************************************)
(* What makes TableMirrorsBox inductive.  The serial numbers are followed  *)
(* through the places they pass (Parts): the table (0), the packets on the *)
(* way and what the server has still to send (Behind).                     *)
(***************************************************************************)
Behind == Len(giftWire) + 1
GiftPlaces == 0..Behind

Part(n) == n \in DOMAIN giftWire /\ giftWire[n].type = "List" /\ giftWire[n].gifts # <<>>

TableSn == {gifts[i].sn : i \in 0..(gift_count - 1)}

Held ==
  [n \in GiftPlaces |->
     IF n = 0 THEN TableSn
     ELSE IF n = Behind THEN {rest[k] : k \in DOMAIN rest}
     ELSE IF Part(n) THEN {giftWire[n].gifts[k].sn : k \in DOMAIN giftWire[n].gifts}
     ELSE {}]

\* Places where a list begins, and where one ends.
Starts ==
  {n \in GiftPlaces : \/ n = Behind /\ sending = "first"
                      \/ n # Behind /\ Part(n) /\ Begins(giftWire[n].state)}
Stops == {n \in GiftPlaces : Part(n) /\ Ends(giftWire[n].state)}

Distinct(list) == \A k, l \in DOMAIN list : list[k].sn = list[l].sn => k = l

OnceEach ==
  /\ \A i, j \in 0..(gift_count - 1) : gifts[i].sn = gifts[j].sn => i = j
  /\ \A n \in DOMAIN giftWire : Part(n) => Distinct(giftWire[n].gifts)
  /\ \A k, l \in DOMAIN rest : rest[k] = rest[l] => k = l
  /\ Apart(Held, Starts, Behind)

WholeList ==
  /\ Closed(Held, Starts, Stops, Behind)
  /\ listed # {} => Whole(Held, Starts, Behind, listed)
  /\ Within(Held, Starts, Behind, {S \in SUBSET Gifts : Cardinality(S) <= GIFT_SLOTS})
  /\ sending = "no" => rest = <<>>

\* While more of the list in the table is to come, its next slot is where the
\* table ends.
OffsetAtEnd ==
  \A n \in 1..Behind :
    SameList(Starts, 0, n) /\ Held[n] # {} => gift_offset = gift_count

DeletedBehind(n, g) ==
  \E m \in DOMAIN giftWire : m > n /\ giftWire[m].type = "Deleted" /\ giftWire[m].sn = g

\* A gift entered or on the way is in the box, or its deletion is still to be
\* read behind it; what is marked, or said to be deleted, is gone.
Marks ==
  /\ \A i \in 0..(gift_count - 1) : gifts[i].sn \in Gifts
  /\ \A i \in 0..(gift_count - 1), g \in Gifts : gifts[i].sn = g =>
       IF gifts[i].status = GIFT_DELETED THEN box[g] = GONE
                                         ELSE InBox(g) \/ DeletedBehind(0, g)
  /\ \A n \in 1..Behind, g \in Gifts : g \in Held[n] => InBox(g) \/ DeletedBehind(n, g)
  /\ \A n \in DOMAIN giftWire :
       giftWire[n].type = "Deleted" => box[giftWire[n].sn] = GONE

GiftInv == GiftTypeOK /\ OnceEach /\ WholeList /\ OffsetAtEnd /\ Marks
===============================================================================
