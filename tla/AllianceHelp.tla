----------------------------- MODULE AllianceHelp -----------------------------
(***************************************************************************)
(* Help for alliance members (protocol.c): one who asks now                *)
(* (RecvAllianceMemberNeedsHelp, 0xB26), and the list of all who still     *)
(* wait (RecvPendingAllianceMembersNeedHelp, 0x0B23).  Both answer at once *)
(* with RequestHelpAllianceMember, and the list goes through an array that *)
(* keeps what an earlier, longer list left behind.                         *)
(***************************************************************************)
EXTENDS Naturals, Sequences, FiniteSets

CONSTANTS
  Records,     \* serial numbers of requests for help
  NoRecord,    \* 0, the serial number of a slot never written
  HELP_SLOTS,  \* 255: AllianceHelp.record_sn_arr
  MaxTold      \* bound: packets that tell of requests

ASSUME HelpAssumption ==
  /\ IsFiniteSet(Records) /\ NoRecord \notin Records
  /\ HELP_SLOTS \in Nat \ {0}
  /\ MaxTold \in Nat

VARIABLES
  auto_help,      \* alliance.auto_help, never changed after LoadConfig
  record_sn,      \* help.record_sn: the record read last
  record_sn_arr,  \* help.record_sn_arr
  helpRequests,   \* requests on their way to the server
  helpWire,       \* packets on their way to the bot
  waiting,        \* server: requests for help that are not over
  helped,         \* history: how often the bot has helped with each request
  told,           \* history: how often the bot was told of each request
  tellings        \* history: packets sent

helpTable == <<record_sn, record_sn_arr>>
helpServer == <<waiting, helped, told, tellings>>
helpVars == <<auto_help, helpTable, helpRequests, helpWire, helpServer>>

HelpSlot == 0..(HELP_SLOTS - 1)

HelpInit ==
  /\ auto_help \in BOOLEAN
  /\ record_sn = NoRecord
  /\ record_sn_arr = [i \in HelpSlot |-> NoRecord]
  /\ helpRequests = <<>> /\ helpWire = <<>>
  /\ waiting \in SUBSET Records
  /\ helped = [r \in Records |-> 0] /\ told = [r \in Records |-> 0] /\ tellings = 0

-----------------------------------------------------------------------------
\* The bot

HelpReceive(type) ==
  helpWire # <<>> /\ Head(helpWire).type = type /\ helpWire' = Tail(helpWire)

\* The first n records of an array.
RequestHelpAllianceMember(n, records) ==
  helpRequests' = IF auto_help THEN Append(helpRequests, SubSeq(records, 1, n))
                               ELSE helpRequests

Array(arr) == [n \in 1..HELP_SLOTS |-> arr[n - 1]]

RecvAllianceMemberNeedsHelp ==
  /\ HelpReceive("NeedsHelp")
  /\ record_sn' = Head(helpWire).record
  /\ RequestHelpAllianceMember(1, <<Head(helpWire).record>>)
  /\ UNCHANGED <<auto_help, record_sn_arr, helpServer>>

\* The array once a list is read.
Listed(list) ==
  [i \in HelpSlot |-> IF i < Len(list) THEN list[i + 1] ELSE record_sn_arr[i]]

\* Mutants are named after the operator they change.
RecvPendingAllianceMembersNeedHelp_LastOnly ==
  /\ HelpReceive("Pending")
  /\ LET list == Head(helpWire).records IN
       /\ record_sn_arr' = Listed(list)
       /\ record_sn' = IF list = <<>> THEN record_sn ELSE list[Len(list)]
       /\ RequestHelpAllianceMember(1, <<record_sn'>>)
  /\ UNCHANGED <<auto_help, helpServer>>

RecvPendingAllianceMembersNeedHelp ==
  /\ HelpReceive("Pending")
  /\ LET list == Head(helpWire).records IN
       /\ record_sn_arr' = Listed(list)
       /\ record_sn' = IF list = <<>> THEN record_sn ELSE list[Len(list)]
       /\ RequestHelpAllianceMember(Len(list), Array(Listed(list)))
  /\ UNCHANGED <<auto_help, helpServer>>

HelpPacket == RecvAllianceMemberNeedsHelp \/ RecvPendingAllianceMembersNeedHelp

-----------------------------------------------------------------------------
\* The server

Tell(m, who) ==
  /\ tellings < MaxTold
  /\ tellings' = tellings + 1
  /\ helpWire' = Append(helpWire, m)
  /\ told' = [r \in Records |-> told[r] + IF r \in who THEN 1 ELSE 0]

\* A member asks for help.
AskForHelp(r) ==
  /\ r \notin waiting
  /\ waiting' = waiting \cup {r}
  /\ Tell([type |-> "NeedsHelp", record |-> r], {r})
  /\ UNCHANGED <<auto_help, helpTable, helpRequests, helped>>

\* All who wait, in an order of the server's own; none may.  The packet counts them
\* in one octet (protocol.c:2331), so no list is longer than the array.
SendPending ==
  /\ Cardinality(waiting) <= HELP_SLOTS
  /\ \E list \in [1..Cardinality(waiting) -> waiting] :
       /\ \A m, n \in DOMAIN list : m # n => list[m] # list[n]
       /\ Tell([type |-> "Pending", records |-> list], waiting)
  /\ UNCHANGED <<auto_help, helpTable, helpRequests, waiting, helped>>

Times(r, s) == Cardinality({n \in DOMAIN s : s[n] = r})

TakeHelp ==
  /\ helpRequests # <<>>
  /\ helpRequests' = Tail(helpRequests)
  /\ helped' = [r \in Records |-> helped[r] + Times(r, Head(helpRequests))]
  /\ UNCHANGED <<auto_help, helpTable, helpWire, waiting, told, tellings>>

\* Enough others have helped, or the work is done.
HelpOver(r) ==
  /\ r \in waiting
  /\ waiting' = waiting \ {r}
  /\ UNCHANGED <<auto_help, helpTable, helpRequests, helpWire, helped, told, tellings>>

HelpServer ==
  \/ SendPending \/ TakeHelp
  \/ \E r \in Records : AskForHelp(r) \/ HelpOver(r)

HelpNext == HelpPacket \/ HelpServer

HelpSpec == HelpInit /\ [][HelpNext]_helpVars

-----------------------------------------------------------------------------
\* Properties

HelpPacketType ==
  [type : {"NeedsHelp"}, record : Records] \cup [type : {"Pending"}, records : Seq(Records)]

\* Types; no request names the empty record of a slot never written.
HelpTypeOK ==
  /\ auto_help \in BOOLEAN
  /\ record_sn \in Records \cup {NoRecord}
  /\ record_sn_arr \in [HelpSlot -> Records \cup {NoRecord}]
  /\ helpRequests \in Seq(Seq(Records))
  /\ helpWire \in Seq(HelpPacketType)
  /\ waiting \subseteq Records
  /\ helped \in [Records -> Nat] /\ told \in [Records -> Nat] /\ tellings \in Nat

Tells(m, r) ==
  CASE m.type = "NeedsHelp" -> m.record = r
    [] m.type = "Pending"   -> \E n \in DOMAIN m.records : m.records[n] = r

OnWay(r) ==
  Cardinality({n \in DOMAIN helpWire : Tells(helpWire[n], r)})

\* How often the requests under way name a record.
Asked(r) ==
  Cardinality({p \in (DOMAIN helpRequests) \X (1..HELP_SLOTS) :
                 /\ p[2] \in DOMAIN helpRequests[p[1]]
                 /\ helpRequests[p[1]][p[2]] = r})

\* The bot helps with a request exactly as often as it is told of it: every
\* packet that tells of it, or is yet to be read, stands for one help given or
\* under way.  What an earlier list left in record_sn_arr is not sent again,
\* however lists of different length and single requests follow one another.
OneHelpPerTelling ==
  \A r \in Records :
    IF auto_help
      THEN helped[r] + Asked(r) + OnWay(r) = told[r]
      ELSE helped[r] = 0 /\ helpRequests = <<>>

===============================================================================
