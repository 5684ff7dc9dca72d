------------------------------ MODULE Protection ------------------------------
(***************************************************************************)
(* The shields: UsePriorityShield of protocol.c, the watchtower alerts     *)
(* that call it, and the packets that tell what is in the bag and which    *)
(* shield is up.                                                           *)
(*                                                                         *)
(* The game server is modelled by what the bot can see of it: requests and *)
(* packets travel in order, one connection each way; a shield protects the *)
(* castle until its time is over; shields come into the bag, and packets   *)
(* about bag, buffs and enemies are sent, at any moment.                   *)
(*                                                                         *)
(* Two settings are FALSE whatever the file says (module Config):          *)
(* shield_always_on, so that ShieldTick always returns at its second test, *)
(* and recall_on_incoming_*, so that alerts about camps do nothing.        *)
(***************************************************************************)
EXTENDS Naturals, Sequences, FiniteSets

CONSTANTS
  Shields,        \* the seven shield items
  SHIELD_14D,     \* the one RecvUseItem does not know
  Settings,       \* the values of Connection.protection
  Duration,       \* how long a shield protects
  Bag,            \* shields in the bag at the start
  MaxBag,         \* bound: shields of a kind that may come into the bag
  Until,          \* ends of the shield that may be up at the start, 0 for none
  MaxNow,         \* bound: the last moment looked at
  MaxWire,        \* bound: packets on the wire when one is sent unasked
  RefusesAtWill   \* may the server refuse to use a shield that is in the bag

SettingsType ==
  [enabled : BOOLEAN, shield_on_incoming_attack : BOOLEAN,
   shield_on_incoming_scout : BOOLEAN, shield_priority : Seq(Shields)]

ASSUME ProtectionAssumption ==
  /\ \A p \in Settings :
       /\ p.enabled \in BOOLEAN
       /\ p.shield_on_incoming_attack \in BOOLEAN
       /\ p.shield_on_incoming_scout \in BOOLEAN
       /\ p.shield_priority \in Seq(Shields)
  /\ SHIELD_14D \in Shields
  /\ Duration \in [Shields -> Nat] /\ Bag \in [Shields -> Nat]
  /\ Until \subseteq Nat
  /\ MaxBag \in Nat /\ MaxNow \in Nat /\ MaxWire \in Nat
  /\ RefusesAtWill \in BOOLEAN

VARIABLES
  protection,   \* Connection.protection
  active,       \* Connection.shield_info.active
  loaded,       \* shield_info.loaded
  pending,      \* shield_info.pending
  items,        \* Connection.items[s].quantity
  told,         \* history: shields that a list of the bag has told of
  raided,       \* history: was an attack reported that calls for a shield
  gained,       \* history: shields that came into the bag
  requests,     \* requests on their way to the server
  wire,         \* packets on their way to the bot
  clock,        \* server: the time
  until,        \* server: when the shield ends
  bag           \* server: shields in the bag

shieldVars == <<active, loaded, pending>>
serverVars == <<clock, until, bag, gained>>
vars == <<protection, shieldVars, items, told, raided, requests, wire, serverVars>>

Init ==
  /\ protection \in Settings
  /\ active = FALSE /\ loaded = FALSE /\ pending = FALSE
  /\ items = [s \in Shields |-> 0]
  /\ told = {} /\ raided = FALSE /\ gained = {}
  /\ requests = <<>>
  /\ wire = <<>>
  /\ clock = 1
  /\ until \in Until
  /\ bag = Bag

\* A request to use a shield; informed and told say what was known when it was
\* sent: the buffs, and of which shields the lists of the bag had told.
Use(s) == [item |-> s, informed |-> loaded, told |-> told]

Shielded == until > clock

\* Packets.  A list of the bag comes in parts, each of some of the shields.
Items(S) ==
  [type |-> "Items", of |-> S, bag |-> [s \in Shields |-> IF s \in S THEN bag[s] ELSE 0]]
Buffs == [type |-> "Buffs", active |-> Shielded]
Attack == [type |-> "Attack"]
Scout == [type |-> "Scout"]
Camp == [type |-> "Camp"]
UseFailed == [type |-> "UseFailed"]
Used(s, left) == [type |-> "Used", item |-> s, left |-> left]

-----------------------------------------------------------------------------
\* UsePriorityShield

Available == {n \in DOMAIN protection.shield_priority :
                items[protection.shield_priority[n]] > 0}

\* Mutants are named after the operator they change.
UsePriorityShield_NoPending ==
  IF Available # {}
    THEN \E n \in Available :
           /\ \A m \in Available : n <= m
           /\ requests' = Append(requests, Use(protection.shield_priority[n]))
           /\ pending' = TRUE
    ELSE UNCHANGED <<requests, pending>>

\* The first shield of the list that is in the bag, unless a request is open.
UsePriorityShield ==
  IF ~pending /\ Available # {}
    THEN \E n \in Available :
           /\ \A m \in Available : n <= m
           /\ requests' = Append(requests, Use(protection.shield_priority[n]))
           /\ pending' = TRUE
    ELSE UNCHANGED <<requests, pending>>

-----------------------------------------------------------------------------
\* Packets from the server

Receive(type) == wire # <<>> /\ Head(wire).type = type /\ wire' = Tail(wire)

WhenEnemyArmyApproachingTurf_EvenActive ==
  IF protection.enabled /\ protection.shield_on_incoming_attack
    THEN UsePriorityShield
    ELSE UNCHANGED <<requests, pending>>

WhenEnemyArmyApproachingTurf_Informed ==
  IF protection.enabled /\ protection.shield_on_incoming_attack /\ loaded /\ ~active
    THEN UsePriorityShield
    ELSE UNCHANGED <<requests, pending>>

WhenEnemyArmyApproachingTurf ==
  IF protection.enabled /\ protection.shield_on_incoming_attack /\ ~active
    THEN UsePriorityShield
    ELSE UNCHANGED <<requests, pending>>

WhenEnemyScoutApproachingTurf ==
  IF protection.enabled /\ protection.shield_on_incoming_scout /\ ~active
    THEN UsePriorityShield
    ELSE UNCHANGED <<requests, pending>>

\* The castle has no shield, the settings ask for one, the bag has one, and the
\* bot knows of one it may use.  Without the last, before the list of the bag, the
\* alert is lost: nothing looks at it again.
CallsForShield ==
  /\ protection.enabled /\ protection.shield_on_incoming_attack
  /\ ~Shielded
  /\ \E n \in DOMAIN protection.shield_priority : bag[protection.shield_priority[n]] > 0
  /\ Available # {}

\* RecvUpdateWatchTowerAddLineInfo, by the kind of the line.
RecvAttack ==
  /\ Receive("Attack")
  /\ WhenEnemyArmyApproachingTurf
  /\ raided' = (raided \/ CallsForShield)
  /\ UNCHANGED <<protection, active, loaded, items, told, serverVars>>

RecvScout ==
  /\ Receive("Scout")
  /\ WhenEnemyScoutApproachingTurf
  /\ UNCHANGED <<protection, active, loaded, items, told, raided, serverVars>>

RecvCamp ==
  /\ Receive("Camp")
  /\ UNCHANGED <<protection, shieldVars, items, told, raided, requests, serverVars>>

\* RecvItemInfo: a part of the list of the bag; the state of the list, begun or
\* ended, is read and not looked at.
RecvItems ==
  /\ Receive("Items")
  /\ items' = [s \in Shields |-> IF s \in Head(wire).of THEN Head(wire).bag[s]
                                                      ELSE items[s]]
  /\ told' = told \cup Head(wire).of
  /\ UNCHANGED <<protection, shieldVars, raided, requests, serverVars>>

RecvIBuffInfo_ClearsPending ==
  /\ Receive("Buffs")
  /\ active' = Head(wire).active
  /\ pending' = FALSE
  /\ loaded' = TRUE
  /\ UNCHANGED <<protection, items, told, raided, requests, serverVars>>

\* The list of the buffs.
RecvIBuffInfo ==
  /\ Receive("Buffs")
  /\ active' = Head(wire).active
  /\ loaded' = TRUE
  /\ UNCHANGED <<protection, pending, items, told, raided, requests, serverVars>>

RecvUseItem_OneMore ==
  /\ Receive("Used")
  /\ items' = [items EXCEPT ![Head(wire).item] = Head(wire).left - 1]
  /\ IF Head(wire).item # SHIELD_14D
       THEN active' = TRUE /\ pending' = FALSE
       ELSE UNCHANGED <<active, pending>>
  /\ UNCHANGED <<protection, loaded, told, raided, requests, serverVars>>

RecvUseItem_KeepsQuantity ==
  /\ Receive("Used")
  /\ IF Head(wire).item # SHIELD_14D
       THEN active' = TRUE /\ pending' = FALSE
       ELSE UNCHANGED <<active, pending>>
  /\ UNCHANGED <<protection, loaded, items, told, raided, requests, serverVars>>

RecvUseItem_KeepsPending ==
  /\ Receive("Used")
  /\ items' = [items EXCEPT ![Head(wire).item] = Head(wire).left]
  /\ active' = IF Head(wire).item # SHIELD_14D THEN TRUE ELSE active
  /\ UNCHANGED <<protection, loaded, pending, told, raided, requests, serverVars>>

\* status = 0; the 14 day shield is not in the list of the shields.
RecvUseItem ==
  /\ Receive("Used")
  /\ items' = [items EXCEPT ![Head(wire).item] = Head(wire).left]
  /\ IF Head(wire).item # SHIELD_14D
       THEN active' = TRUE /\ pending' = FALSE
       ELSE UNCHANGED <<active, pending>>
  /\ UNCHANGED <<protection, loaded, told, raided, requests, serverVars>>

\* status # 0: nothing happens.
RecvUseItemFailed ==
  /\ Receive("UseFailed")
  /\ UNCHANGED <<protection, shieldVars, items, told, raided, requests, serverVars>>

RecvPacket ==
  \/ RecvAttack \/ RecvScout \/ RecvCamp
  \/ RecvItems \/ RecvIBuffInfo \/ RecvUseItem \/ RecvUseItemFailed

-----------------------------------------------------------------------------
\* The server

Send(m) == wire' = Append(wire, m)

Serve ==
  /\ requests # <<>>
  /\ requests' = Tail(requests)
  /\ LET s == Head(requests).item IN
       /\ bag[s] > 0
       /\ bag' = [bag EXCEPT ![s] = @ - 1]
       /\ until' = clock + Duration[s]
       /\ Send(Used(s, bag[s] - 1))
  /\ raided' = FALSE
  /\ UNCHANGED <<protection, shieldVars, items, told, clock, gained>>

Refuse ==
  /\ requests # <<>>
  /\ RefusesAtWill \/ bag[Head(requests).item] = 0
  /\ requests' = Tail(requests)
  /\ Send(UseFailed)
  /\ UNCHANGED <<protection, shieldVars, items, told, raided, serverVars>>

OnWire(type) == \E n \in DOMAIN wire : wire[n].type = type

\* Packets sent unasked: one of a kind on the wire at a time.
Push(m) ==
  /\ ~OnWire(m.type) /\ Len(wire) < MaxWire
  /\ Send(m)
  /\ UNCHANGED <<protection, shieldVars, items, told, raided, requests, serverVars>>

Pushes ==
  \/ \E S \in SUBSET Shields : S # {} /\ Push(Items(S))
  \/ Push(Buffs) \/ Push(Attack) \/ Push(Scout) \/ Push(Camp)

\* A shield comes into the bag.
Gain(s) ==
  /\ bag[s] < MaxBag
  /\ bag' = [bag EXCEPT ![s] = @ + 1]
  /\ gained' = gained \cup {s}
  /\ UNCHANGED <<protection, shieldVars, items, told, raided, requests, wire, clock, until>>

Second ==
  /\ clock < MaxNow
  /\ clock' = clock + 1
  /\ UNCHANGED <<protection, shieldVars, items, told, raided, requests, wire, until, bag,
                 gained>>

-----------------------------------------------------------------------------
Next ==
  RecvPacket \/ Serve \/ Refuse \/ Pushes \/ (\E s \in Shields : Gain(s)) \/ Second

Spec == Init /\ [][Next]_vars

\* The bot reads what arrives; the server answers.
FairSpec == Spec /\ WF_vars(RecvPacket) /\ WF_vars(Serve \/ Refuse)

-----------------------------------------------------------------------------
\* Properties

RequestType == [item : Shields, informed : BOOLEAN, told : SUBSET Shields]

PacketType ==
  [type : {"Items"}, of : SUBSET Shields, bag : [Shields -> Nat]]
    \cup [type : {"Buffs"}, active : BOOLEAN]
    \cup [type : {"Attack", "Scout", "Camp", "UseFailed"}]
    \cup [type : {"Used"}, item : Shields, left : Nat]

\* Types; quantities never wrap below 0.
TypeOK ==
  /\ protection \in Settings
  /\ active \in BOOLEAN /\ loaded \in BOOLEAN /\ pending \in BOOLEAN
  /\ raided \in BOOLEAN
  /\ told \subseteq Shields /\ gained \subseteq Shields
  /\ clock \in Nat /\ until \in Nat
  /\ items \in [Shields -> Nat] /\ bag \in [Shields -> Nat]
  /\ requests \in Seq(RequestType)
  /\ wire \in Seq(PacketType)

Answered(n) == wire[n].type \in {"Used", "UseFailed"}

\* Two shields are never asked for at once: through alerts in a row and lists
\* that arrive while a request is out, at most one is open or answered and not
\* yet read ("A shield activation request has already been sent").
OneShieldOrder ==
  /\ Len(requests) <= 1
  /\ \A m, n \in DOMAIN wire : Answered(m) /\ Answered(n) => m = n
  /\ requests # <<>> => \A n \in DOMAIN wire : ~Answered(n)

\* Without pending no request is open and no answer is unread, so that a list
\* of buffs sent before the answer cannot free the bot to ask once more.
PendingIsOpen ==
  ~pending => (requests = <<>> /\ \A n \in DOMAIN wire : ~Answered(n))

IInv == TypeOK /\ OneShieldOrder /\ PendingIsOpen

\* Answers, among everything else that is on its way, as RecvUseItem tells them
\* apart: it does not know the 14 day shield.
AnswersSent == {n \in DOMAIN wire : Answered(n)}

AnswerKind(m) ==
  IF m.type = "Used" /\ m.item = SHIELD_14D THEN "UsedUnknown" ELSE m.type
AnswerKinds == {AnswerKind(wire[n]) : n \in AnswersSent}

Shielding == INSTANCE Exchange WITH
          Answers <- {"Used", "UsedUnknown", "UseFailed"}, Frees <- {"Used"},
          willing <- TRUE, asked <- Len(requests), unread <- Cardinality(AnswersSent),
          outcome <- AnswerKinds

\* The use of a shield is an exchange of one request for one answer at a time:
\* alerts, lists and buffs in between neither ask a second time nor end the wait,
\* and of the answers only that of a shield RecvUseItem knows does.
ImplementsExchange == Shielding!Spec

\* A request is for the first shield of the list, as far as the parts of the list of
\* the bag that were read before it could tell: that shield is in the bag, and none
\* before it that a part told of and that did not come in since, however late the
\* parts come and whatever was used since they were sent.
FirstListed ==
  \A n \in DOMAIN requests :
    /\ bag[requests[n].item] > 0
    /\ \E i \in DOMAIN protection.shield_priority :
         /\ protection.shield_priority[i] = requests[n].item
         /\ \A j \in 1..(i - 1) :
              \/ bag[protection.shield_priority[j]] = 0
              \/ protection.shield_priority[j] \in gained
              \/ protection.shield_priority[j] \notin requests[n].told

\* What makes FirstListed inductive.  The bot never counts more of a shield
\* than the bag holds, unless an answer that takes it away is on its way; and of
\* a shield that a list told of never less, what came in excepted.  What is on
\* the wire is as true, or overtaken.
TakenBehind(n, s) ==
  \E m \in DOMAIN wire : m > n /\ wire[m].type = "Used" /\ wire[m].item = s

NeverMore == \A s \in Shields : items[s] <= bag[s] \/ TakenBehind(0, s)

NeverLess == \A s \in told : s \in gained \/ bag[s] <= items[s]

WireTells ==
  \A n \in DOMAIN wire :
    /\ wire[n].type = "Items" =>
         \A s \in wire[n].of :
           /\ wire[n].bag[s] <= bag[s] \/ TakenBehind(n, s)
           /\ s \in gained \/ bag[s] <= wire[n].bag[s]
    /\ wire[n].type = "Used" =>
         /\ wire[n].left <= bag[wire[n].item]
         /\ wire[n].item \in gained \/ bag[wire[n].item] <= wire[n].left

BagInv == NeverMore /\ NeverLess /\ WireTells /\ FirstListed

\* What makes NoWaste inductive.  An open request was sent without a shield up
\* if it was sent knowingly; without a request open or active, no shield is up;
\* a list of buffs that says so is true or overtaken by an answer behind it.
Informed == requests # <<>> /\ Head(requests).informed => ~Shielded

Knows == loaded /\ ~active /\ ~pending => ~Shielded

ListsKnow ==
  \A n \in DOMAIN wire :
    wire[n].type = "Buffs" /\ ~wire[n].active =>
      ~Shielded \/ \E m \in DOMAIN wire : m > n /\ wire[m].type = "Used"

WasteInv == IInv /\ Informed /\ Knows /\ ListsKnow

\* A shield is used up while another one protects the castle.
Wastes == Shielded /\ \E s \in Shields : bag'[s] < bag[s]

\* Once the bot knows the buffs no shield is wasted, whatever alerts come while
\* the request is on its way ("A shield is already active; nothing to do").
NoWaste == [][Wastes => ~Head(requests).informed]_vars

\* A request to use a shield is answered, and the answer frees the bot for the
\* next one ("pending").
PendingEnds == pending ~> ~pending

\* An attack that is reported while the bot knows of a shield, and that finds the
\* castle without one, gets one: alerts that come while a request is open, or
\* before the buffs are known, included.
KnownAttackShielded == raided ~> ~raided
================================================================================
