-------------------------- MODULE Protection_proofs ---------------------------
(***************************************************************************)
(* Theorems about Protection: for any shields, settings, times and server, *)
(* the bot has at most one request open, asks as Exchange says, and once   *)
(* it knows the buffs it uses no shield while another one is up.           *)
(***************************************************************************)
EXTENDS Protection, SequenceTheorems, FiniteSetTheorems, TLAPS

\* What every action that reads a packet does to the wire.
LEMMA ReceiveFacts ==
  ASSUME IInv, NEW type, Receive(type)
  PROVE  /\ Head(wire) \in PacketType /\ Head(wire).type = type
         /\ wire' \in Seq(PacketType)
         /\ 1 \in DOMAIN wire /\ Head(wire) = wire[1]
         /\ \A n \in DOMAIN wire' :
              n \in Nat /\ n >= 1 /\ wire'[n] = wire[n + 1] /\ n + 1 \in DOMAIN wire
         /\ \A n \in DOMAIN wire : n \in Nat /\ (n > 1 => n - 1 \in DOMAIN wire')
<1>1. wire \in Seq(PacketType) /\ wire # <<>> /\ wire' = Tail(wire)
  BY DEF IInv, TypeOK, Receive
<1>2. /\ Head(wire) \in PacketType /\ wire' \in Seq(PacketType)
      /\ Len(wire') = Len(wire) - 1
      /\ \A n \in 1..Len(wire') : wire'[n] = wire[n + 1]
  BY <1>1, HeadTailProperties
<1>3. /\ DOMAIN wire' = 1..Len(wire') /\ DOMAIN wire = 1..Len(wire) /\ Len(wire) \in Nat
      /\ Head(wire) = wire[1]
  BY <1>1, <1>2, LenProperties
<1>. QED  BY <1>1, <1>2, <1>3 DEF Receive

\* What a packet put on the wire does.
LEMMA SendFacts ==
  ASSUME IInv, NEW m \in PacketType, Send(m)
  PROVE  /\ wire' \in Seq(PacketType)
         /\ DOMAIN wire = 1..Len(wire) /\ Len(wire) \in Nat
         /\ DOMAIN wire' = 1..(Len(wire) + 1)
         /\ \A n \in DOMAIN wire : wire'[n] = wire[n]
         /\ wire'[Len(wire) + 1] = m
<1>1. wire \in Seq(PacketType)
  BY DEF IInv, TypeOK
<1>. QED  BY <1>1, AppendProperties, LenProperties DEF Send

\* A request taken by the server was the only one.
LEMMA TakeFacts ==
  ASSUME IInv, requests # <<>>, requests' = Tail(requests)
  PROVE  /\ Head(requests) \in RequestType /\ requests' = <<>> /\ Len(requests') <= 1
         /\ requests' \in Seq(RequestType)
         /\ pending
         /\ \A n \in DOMAIN wire : ~Answered(n)
<1>1. requests \in Seq(RequestType) /\ Len(requests) <= 1
  BY DEF IInv, TypeOK, OneShieldOrder
<1>2. /\ Head(requests) \in RequestType /\ requests' \in Seq(RequestType)
      /\ Len(requests') = Len(requests) - 1 /\ Len(requests) \in Nat
  BY <1>1, HeadTailProperties, LenProperties
<1>3. Len(requests') = 0
  BY <1>1, <1>2, LenProperties
<1>4. requests' = <<>>
  BY <1>2, <1>3, EmptySeq
<1>. QED  BY <1>2, <1>3, <1>4 DEF IInv, OneShieldOrder, PendingIsOpen

LEMMA InitWasteInv == Init => WasteInv
<1>. SUFFICES ASSUME Init PROVE WasteInv
  OBVIOUS
<1>1. items \in [Shields -> Nat] /\ bag \in [Shields -> Nat] /\ until \in Nat
  BY ProtectionAssumption DEF Init
<1>2. requests \in Seq(RequestType) /\ wire \in Seq(PacketType)
  BY DEF Init
<1>3. TypeOK
  BY <1>1, <1>2 DEF Init, TypeOK
<1>4. OneShieldOrder /\ PendingIsOpen /\ Informed /\ Knows /\ ListsKnow
  <2>1. Len(requests) = 0 /\ DOMAIN wire = {}
    BY DEF Init
  <2>. QED  BY <2>1 DEF Init, OneShieldOrder, PendingIsOpen, Informed, Knows, ListsKnow
<1>. QED  BY <1>3, <1>4 DEF WasteInv, IInv

-----------------------------------------------------------------------------
\* UsePriorityShield: nothing, or one request where none was open.
Outcome ==
  \/ pending' = pending /\ requests' = requests
  \/ /\ ~pending /\ ~active /\ pending' = TRUE
     /\ \E s \in Shields : requests' = <<Use(s)>>

LEMMA UseOutcome ==
  ASSUME IInv, ~active, UsePriorityShield
  PROVE  Outcome
<1>1. CASE ~pending /\ Available # {}
  <2>1. PICK n \in Available :
          /\ requests' = Append(requests, Use(protection.shield_priority[n]))
          /\ pending' = TRUE
    BY <1>1 DEF UsePriorityShield
  <2>2. protection.shield_priority \in Seq(Shields)
    BY ProtectionAssumption DEF IInv, TypeOK
  <2>3. protection.shield_priority[n] \in Shields
    BY <2>1, <2>2, ElementOfSeq, LenProperties DEF Available
  <2>4. requests = <<>>
    BY <1>1 DEF IInv, PendingIsOpen
  <2>5. requests' = <<Use(protection.shield_priority[n])>>
    BY <2>1, <2>4
  <2>. QED  BY <1>1, <2>1, <2>3, <2>5 DEF Outcome
<1>2. CASE ~(~pending /\ Available # {})
  BY <1>2 DEF UsePriorityShield, Outcome
<1>. QED  BY <1>1, <1>2

LEMMA OutcomeTypes ==
  ASSUME IInv, Outcome
  PROVE  /\ requests' \in Seq(RequestType) /\ pending' \in BOOLEAN
         /\ Len(requests') <= 1
         /\ requests' # requests =>
              /\ ~pending /\ ~active /\ pending'
              /\ Head(requests').informed = loaded
         /\ requests' = requests => (pending' = pending \/ pending')
         /\ pending => pending'
<1>1. CASE pending' = pending /\ requests' = requests
  BY <1>1 DEF IInv, TypeOK, OneShieldOrder
<1>2. ASSUME ~pending, ~active, pending' = TRUE,
             NEW s \in Shields, requests' = <<Use(s)>>
      PROVE  /\ requests' \in Seq(RequestType) /\ Len(requests') <= 1
             /\ Head(requests').informed = loaded
  <2>1. Use(s) \in RequestType /\ Use(s).informed = loaded
    BY DEF IInv, TypeOK, Use, RequestType
  <2>2. requests' \in Seq(RequestType) /\ Len(requests') = 1 /\ Head(requests') = Use(s)
    BY <1>2, <2>1
  <2>. QED  BY <2>1, <2>2
<1>. QED  BY <1>1, <1>2 DEF Outcome

\* Reading a packet that is no answer and changes neither active nor loaded.
LEMMA AlertKeepsInv ==
  ASSUME WasteInv, NEW type \in {"Attack", "Scout", "Camp", "Items"}, Receive(type),
         Outcome, raided' \in BOOLEAN, told' \subseteq Shields,
         items' \in [Shields -> Nat],
         UNCHANGED <<protection, active, loaded, clock, until, bag, gained>>
  PROVE  WasteInv'
<1>. USE DEF Answered
<1>1. IInv
  BY DEF WasteInv
<1>2. TypeOK'
  BY <1>1, ReceiveFacts, OutcomeTypes DEF IInv, TypeOK
<1>3. \A n \in DOMAIN wire' :
        n \in Nat /\ n >= 1 /\ n + 1 \in DOMAIN wire /\ wire'[n] = wire[n + 1]
  BY <1>1, ReceiveFacts
<1>4. \A m, n \in DOMAIN wire' : Answered(m)' /\ Answered(n)' => m = n
  BY <1>1, <1>3 DEF IInv, OneShieldOrder
<1>5. (\A n \in DOMAIN wire : ~Answered(n)) => \A n \in DOMAIN wire' : ~Answered(n)'
  BY <1>3
<1>6. (requests' # <<>>) => \A n \in DOMAIN wire' : ~Answered(n)'
  BY <1>1, <1>5, OutcomeTypes DEF IInv, OneShieldOrder, PendingIsOpen
<1>7. PendingIsOpen'
  BY <1>1, <1>5, OutcomeTypes DEF IInv, PendingIsOpen
<1>8. IInv'
  BY <1>1, <1>2, <1>4, <1>6, <1>7, OutcomeTypes DEF IInv, OneShieldOrder
<1>9. Shielded' = Shielded
  BY DEF Shielded
<1>10. Informed'
  BY <1>1, <1>9, OutcomeTypes DEF WasteInv, Informed, Knows
<1>11. Knows'
  BY <1>1, <1>9, OutcomeTypes DEF WasteInv, Knows
<1>12. ListsKnow'
  <2>. SUFFICES ASSUME NEW n \in DOMAIN wire', wire'[n].type = "Buffs", ~wire'[n].active,
                       Shielded'
                PROVE  \E m \in DOMAIN wire' : m > n /\ wire'[m].type = "Used"
    BY DEF ListsKnow
  <2>1. n \in Nat /\ n >= 1 /\ n + 1 \in DOMAIN wire /\ wire'[n] = wire[n + 1]
    BY <1>3
  <2>2. PICK m \in DOMAIN wire : m > n + 1 /\ wire[m].type = "Used"
    BY <1>9, <2>1 DEF WasteInv, ListsKnow
  <2>3. m \in Nat /\ m - 1 \in DOMAIN wire' /\ m - 1 > n /\ wire'[m - 1] = wire[m]
    BY <1>1, <1>3, <2>1, <2>2, ReceiveFacts
  <2>. QED  BY <2>2, <2>3
<1>. QED  BY <1>8, <1>10, <1>11, <1>12 DEF WasteInv

-----------------------------------------------------------------------------
\* Packets from the server

LEMMA AttackInv == WasteInv /\ (RecvAttack \/ RecvScout \/ RecvCamp \/ RecvItems) => WasteInv'
<1>. SUFFICES ASSUME WasteInv, RecvAttack \/ RecvScout \/ RecvCamp \/ RecvItems
              PROVE  WasteInv'
  OBVIOUS
<1>. USE DEF shieldVars, serverVars
<1>1. /\ IInv /\ items \in [Shields -> Nat]
      /\ raided \in BOOLEAN /\ told \subseteq Shields
  BY DEF WasteInv, IInv, TypeOK
<1>2. CASE RecvAttack
  <2>1. Outcome
    BY <1>1, <1>2, UseOutcome DEF RecvAttack, WhenEnemyArmyApproachingTurf, Outcome
  <2>2. raided' \in BOOLEAN
    BY <1>1, <1>2 DEF RecvAttack, CallsForShield
  <2>. QED  BY <1>1, <1>2, <2>1, <2>2, AlertKeepsInv DEF RecvAttack
<1>3. CASE RecvScout
  <2>1. Outcome
    BY <1>1, <1>3, UseOutcome DEF RecvScout, WhenEnemyScoutApproachingTurf, Outcome
  <2>. QED  BY <1>1, <1>3, <2>1, AlertKeepsInv DEF RecvScout
<1>4. CASE RecvCamp
  BY <1>1, <1>4, AlertKeepsInv DEF RecvCamp, Outcome
<1>5. CASE RecvItems
  <2>1. /\ Receive("Items") /\ Outcome /\ raided' = raided
        /\ items' = [s \in Shields |-> IF s \in Head(wire).of THEN Head(wire).bag[s]
                                                              ELSE items[s]]
        /\ told' = told \cup Head(wire).of
        /\ UNCHANGED <<protection, active, loaded, clock, until, bag, gained>>
    BY <1>5 DEF RecvItems, Outcome
  <2>2. Head(wire).bag \in [Shields -> Nat] /\ Head(wire).of \subseteq Shields
    <3>1. Head(wire) \in PacketType /\ Head(wire).type = "Items"
      BY <1>1, <2>1, ReceiveFacts
    <3>. QED  BY <3>1 DEF PacketType
  <2>3. items' \in [Shields -> Nat] /\ told' \subseteq Shields
    BY <1>1, <2>1, <2>2
  <2>. QED  BY <1>1, <2>1, <2>3, AlertKeepsInv
<1>. QED  BY <1>2, <1>3, <1>4, <1>5

LEMMA BuffsInv == WasteInv /\ RecvIBuffInfo => WasteInv'
<1>. SUFFICES ASSUME WasteInv, RecvIBuffInfo PROVE WasteInv'
  OBVIOUS
<1>. USE DEF Answered, shieldVars, serverVars
<1>1. /\ IInv /\ Receive("Buffs")
      /\ active' = Head(wire).active /\ loaded' = TRUE
      /\ UNCHANGED <<protection, pending, items, told, raided, requests, clock, until,
                     bag, gained>>
  BY DEF WasteInv, RecvIBuffInfo
<1>2. /\ Head(wire) \in PacketType /\ Head(wire).type = "Buffs"
      /\ wire' \in Seq(PacketType) /\ Head(wire) = wire[1] /\ 1 \in DOMAIN wire
  BY <1>1, ReceiveFacts
<1>3. Head(wire).active \in BOOLEAN
  BY <1>2 DEF PacketType
<1>4. TypeOK'
  BY <1>1, <1>2, <1>3 DEF IInv, TypeOK
<1>5. \A n \in DOMAIN wire' :
        n \in Nat /\ n >= 1 /\ n + 1 \in DOMAIN wire /\ wire'[n] = wire[n + 1]
  BY <1>1, ReceiveFacts
<1>6. \A m, n \in DOMAIN wire' : Answered(m)' /\ Answered(n)' => m = n
  BY <1>1, <1>5 DEF IInv, OneShieldOrder
<1>7. IInv'
  BY <1>1, <1>4, <1>5, <1>6 DEF IInv, OneShieldOrder, PendingIsOpen
<1>8. Shielded' = Shielded
  BY <1>1 DEF Shielded
<1>9. Informed'
  BY <1>1, <1>8 DEF WasteInv, Informed
<1>10. Knows'
  <2>. SUFFICES ASSUME ~Head(wire).active, ~pending, Shielded PROVE FALSE
    BY <1>1, <1>8 DEF Knows
  <2>1. \E m \in DOMAIN wire : m > 1 /\ wire[m].type = "Used"
    BY <1>2 DEF WasteInv, ListsKnow
  <2>. QED  BY <1>1, <2>1 DEF IInv, PendingIsOpen
<1>11. ListsKnow'
  <2>. SUFFICES ASSUME NEW n \in DOMAIN wire', wire'[n].type = "Buffs", ~wire'[n].active,
                       Shielded'
                PROVE  \E m \in DOMAIN wire' : m > n /\ wire'[m].type = "Used"
    BY DEF ListsKnow
  <2>1. n \in Nat /\ n >= 1 /\ n + 1 \in DOMAIN wire /\ wire'[n] = wire[n + 1]
    BY <1>5
  <2>2. PICK m \in DOMAIN wire : m > n + 1 /\ wire[m].type = "Used"
    BY <1>8, <2>1 DEF WasteInv, ListsKnow
  <2>3. m \in Nat /\ m - 1 \in DOMAIN wire' /\ m - 1 > n /\ wire'[m - 1] = wire[m]
    BY <1>1, <1>5, <2>1, <2>2, ReceiveFacts
  <2>. QED  BY <2>2, <2>3
<1>. QED  BY <1>7, <1>9, <1>10, <1>11 DEF WasteInv

\* The answer to the request that was open; nothing is open after it.
LEMMA AnswerInv ==
  ASSUME WasteInv, NEW type \in {"Used", "UseFailed"}, Receive(type),
         items' \in [Shields -> Nat],
         \/ active' = active /\ pending' = pending
         \/ active' = TRUE /\ pending' = FALSE,
         UNCHANGED <<protection, loaded, told, raided, requests, clock, until, bag,
                     gained>>
  PROVE  WasteInv'
<1>. USE DEF Answered
<1>1. IInv
  BY DEF WasteInv
<1>2. 1 \in DOMAIN wire /\ Answered(1) /\ wire' \in Seq(PacketType)
  BY <1>1, ReceiveFacts
<1>3. requests = <<>> /\ pending
  BY <1>1, <1>2 DEF IInv, OneShieldOrder, PendingIsOpen
<1>4. \A n \in DOMAIN wire' : ~Answered(n)'
  <2>. SUFFICES ASSUME NEW n \in DOMAIN wire', Answered(n)' PROVE FALSE
    OBVIOUS
  <2>1. n \in Nat /\ n >= 1 /\ n + 1 \in DOMAIN wire /\ Answered(n + 1)
    BY <1>1, ReceiveFacts
  <2>. QED  BY <1>1, <1>2, <2>1 DEF IInv, OneShieldOrder
<1>5. TypeOK'
  BY <1>1, <1>2 DEF IInv, TypeOK
<1>6. IInv'
  BY <1>1, <1>3, <1>4, <1>5 DEF IInv, OneShieldOrder, PendingIsOpen
<1>7. Informed' /\ Knows'
  BY <1>1, <1>3 DEF Informed, Knows, IInv, TypeOK
<1>8. ListsKnow'
  <2>. SUFFICES ASSUME NEW n \in DOMAIN wire', wire'[n].type = "Buffs", ~wire'[n].active,
                       Shielded'
                PROVE  FALSE
    BY DEF ListsKnow
  <2>1. n \in Nat /\ n >= 1 /\ n + 1 \in DOMAIN wire /\ wire'[n] = wire[n + 1]
    BY <1>1, ReceiveFacts
  <2>2. PICK m \in DOMAIN wire : m > n + 1 /\ wire[m].type = "Used"
    BY <2>1 DEF WasteInv, ListsKnow, Shielded
  <2>3. m \in Nat /\ m = 1
    BY <1>1, <1>2, <2>2, ReceiveFacts DEF IInv, OneShieldOrder
  <2>. QED  BY <2>1, <2>2, <2>3
<1>. QED  BY <1>6, <1>7, <1>8 DEF WasteInv

LEMMA UseItemInv == WasteInv /\ (RecvUseItem \/ RecvUseItemFailed) => WasteInv'
<1>. SUFFICES ASSUME WasteInv, RecvUseItem \/ RecvUseItemFailed PROVE WasteInv'
  OBVIOUS
<1>1. IInv /\ items \in [Shields -> Nat]
  BY DEF WasteInv, IInv, TypeOK
<1>2. CASE RecvUseItem
  <2>1. Receive("Used")
    BY <1>2 DEF RecvUseItem
  <2>2. Head(wire) \in PacketType /\ Head(wire).type = "Used"
    BY <1>1, <2>1, ReceiveFacts
  <2>3. Head(wire).left \in Nat
    BY <2>2 DEF PacketType
  <2>4. items' \in [Shields -> Nat]
    BY <1>1, <1>2, <2>3 DEF RecvUseItem
  <2>5. \/ active' = active /\ pending' = pending
        \/ active' = TRUE /\ pending' = FALSE
    BY <1>2 DEF RecvUseItem
  <2>. QED  BY <1>2, <2>1, <2>4, <2>5, AnswerInv DEF RecvUseItem, serverVars
<1>3. CASE RecvUseItemFailed
  BY <1>1, <1>3, AnswerInv DEF RecvUseItemFailed, shieldVars, serverVars
<1>. QED  BY <1>2, <1>3

-----------------------------------------------------------------------------
\* The server

\* The one open request becomes the one answer.
LEMMA AnswerSent ==
  ASSUME WasteInv, requests # <<>>, requests' = Tail(requests),
         NEW m \in PacketType, m.type \in {"Used", "UseFailed"}, Send(m),
         raided' \in BOOLEAN, bag' \in [Shields -> Nat], until' \in Nat,
         m.type = "Used" \/ until' = until,
         UNCHANGED <<protection, active, loaded, pending, items, told, clock, gained>>
  PROVE  WasteInv'
<1>. USE DEF Answered
<1>1. IInv
  BY DEF WasteInv
<1>2. /\ requests' = <<>> /\ requests' \in Seq(RequestType) /\ pending
      /\ \A n \in DOMAIN wire : ~Answered(n)
  BY <1>1, TakeFacts
<1>3. /\ wire' \in Seq(PacketType)
      /\ DOMAIN wire = 1..Len(wire) /\ Len(wire) \in Nat
      /\ DOMAIN wire' = 1..(Len(wire) + 1)
      /\ \A n \in DOMAIN wire : wire'[n] = wire[n]
      /\ wire'[Len(wire) + 1] = m
  BY <1>1, SendFacts
<1>4. TypeOK'
  BY <1>1, <1>2, <1>3 DEF IInv, TypeOK
<1>5. \A n \in DOMAIN wire' : Answered(n)' => n = Len(wire) + 1
  BY <1>2, <1>3
<1>6. Len(requests') <= 1 /\ pending'
  BY <1>1, TakeFacts
<1>7. OneShieldOrder'
  BY <1>2, <1>5, <1>6 DEF OneShieldOrder
<1>8. IInv'
  BY <1>4, <1>6, <1>7 DEF IInv, PendingIsOpen
<1>9. Informed' /\ Knows'
  BY <1>2 DEF Informed, Knows
<1>10. ListsKnow'
  <2>. SUFFICES ASSUME NEW n \in DOMAIN wire', wire'[n].type = "Buffs", ~wire'[n].active,
                       Shielded'
                PROVE  \E k \in DOMAIN wire' : k > n /\ wire'[k].type = "Used"
    BY DEF ListsKnow
  <2>1. n \in DOMAIN wire /\ wire[n] = wire'[n]
    BY <1>3
  <2>2. CASE m.type = "Used"
    BY <1>3, <2>1, <2>2
  <2>3. CASE until' = until
    <3>1. \E k \in DOMAIN wire : k > n /\ wire[k].type = "Used"
      BY <2>1, <2>3 DEF WasteInv, ListsKnow, Shielded
    <3>. QED  BY <1>2, <3>1
  <2>. QED  BY <2>2, <2>3
<1>. QED  BY <1>8, <1>9, <1>10 DEF WasteInv

LEMMA ServeInv == WasteInv /\ (Serve \/ Refuse) => WasteInv'
<1>. SUFFICES ASSUME WasteInv, Serve \/ Refuse PROVE WasteInv'
  OBVIOUS
<1>. USE DEF shieldVars, serverVars
<1>1. /\ IInv /\ requests # <<>> /\ requests' = Tail(requests)
      /\ bag \in [Shields -> Nat] /\ until \in Nat /\ clock \in Nat
      /\ raided \in BOOLEAN
  BY DEF WasteInv, IInv, TypeOK, Serve, Refuse
<1>2. Head(requests).item \in Shields
  BY <1>1, TakeFacts DEF RequestType
<1>3. CASE Serve
  <2>. DEFINE s == Head(requests).item
              m == Used(s, bag[s] - 1)
  <2>1. /\ bag[s] > 0 /\ Send(m)
        /\ bag' = [bag EXCEPT ![s] = bag[s] - 1]
        /\ until' = clock + Duration[s] /\ raided' = FALSE
    BY <1>3 DEF Serve
  <2>2. bag[s] - 1 \in Nat /\ bag' \in [Shields -> Nat]
    BY <1>1, <1>2, <2>1
  <2>3. m \in PacketType /\ m.type = "Used"
    BY <1>2, <2>2 DEF Used, PacketType
  <2>4. until' \in Nat
    <3>1. Duration[s] \in Nat
      BY <1>2, ProtectionAssumption
    <3>. QED  BY <1>1, <2>1, <3>1
  <2>. HIDE DEF m, s
  <2>. QED  BY <1>1, <1>3, <2>1, <2>2, <2>3, <2>4, AnswerSent DEF Serve
<1>4. CASE Refuse
  <2>1. UseFailed \in PacketType /\ UseFailed.type = "UseFailed"
    BY DEF UseFailed, PacketType
  <2>. QED  BY <1>1, <1>4, <2>1, AnswerSent DEF Refuse
<1>. QED  BY <1>3, <1>4

\* What the server sends unasked.
LEMMA PushedPacket ==
  ASSUME IInv, Pushes
  PROVE  \E m \in PacketType :
           /\ Push(m)
           /\ m.type \notin {"Used", "UseFailed"}
           /\ m.type = "Buffs" => m.active = Shielded
           /\ m.type = "Items" => \A s \in m.of : m.bag[s] = bag[s]
<1>1. bag \in [Shields -> Nat] /\ Shielded \in BOOLEAN
  BY DEF IInv, TypeOK, Shielded
<1>2. ASSUME NEW S \in SUBSET Shields
      PROVE  /\ Items(S) \in PacketType /\ Items(S).type = "Items"
             /\ \A s \in Items(S).of : Items(S).bag[s] = bag[s]
  BY <1>1 DEF Items, PacketType
<1>3. CASE \E S \in SUBSET Shields : S # {} /\ Push(Items(S))
  BY <1>2, <1>3
<1>4. CASE Push(Buffs) \/ Push(Attack) \/ Push(Scout) \/ Push(Camp)
  <2>1. \A m \in {Buffs, Attack, Scout, Camp} :
          /\ m \in PacketType /\ m.type \notin {"Used", "UseFailed", "Items"}
          /\ m.type = "Buffs" => m.active = Shielded
    BY <1>1 DEF Buffs, Attack, Scout, Camp, PacketType
  <2>. QED  BY <1>4, <2>1
<1>. QED  BY <1>3, <1>4 DEF Pushes

LEMMA PushInv == WasteInv /\ Pushes => WasteInv'
<1>. SUFFICES ASSUME WasteInv, Pushes PROVE WasteInv'
  OBVIOUS
<1>. USE DEF Answered, shieldVars, serverVars
<1>1. IInv /\ bag \in [Shields -> Nat] /\ Shielded \in BOOLEAN
  BY DEF WasteInv, IInv, TypeOK, Shielded
<1>2. PICK m \in PacketType :
        /\ Push(m)
        /\ m.type \notin {"Used", "UseFailed"}
        /\ m.type = "Buffs" => m.active = Shielded
  BY <1>1, PushedPacket
<1>3. /\ m \in PacketType /\ m.type \notin {"Used", "UseFailed"}
      /\ m.type = "Buffs" => m.active = Shielded
  BY <1>2
<1>4. /\ Send(m)
      /\ UNCHANGED <<protection, active, loaded, pending, items, told, raided, requests,
                     clock, until, bag, gained>>
  BY <1>2 DEF Push
<1>5. /\ wire' \in Seq(PacketType)
      /\ DOMAIN wire = 1..Len(wire) /\ Len(wire) \in Nat
      /\ DOMAIN wire' = 1..(Len(wire) + 1)
      /\ \A n \in DOMAIN wire : wire'[n] = wire[n]
      /\ wire'[Len(wire) + 1] = m
  BY <1>1, <1>3, <1>4, SendFacts
<1>6. TypeOK'
  BY <1>1, <1>4, <1>5 DEF IInv, TypeOK
<1>7. \A n \in DOMAIN wire' : Answered(n)' => n \in DOMAIN wire /\ Answered(n)
  BY <1>3, <1>5
<1>8. IInv'
  BY <1>1, <1>4, <1>6, <1>7 DEF IInv, OneShieldOrder, PendingIsOpen
<1>9. Shielded' = Shielded
  BY <1>4 DEF Shielded
<1>10. Informed' /\ Knows'
  BY <1>4, <1>9 DEF WasteInv, Informed, Knows
<1>11. ListsKnow'
  BY <1>3, <1>5, <1>9 DEF WasteInv, ListsKnow
<1>. QED  BY <1>8, <1>10, <1>11 DEF WasteInv

\* The clock and the bag: a shield that is down stays down.
LEMMA ElsewhereInv ==
  WasteInv /\ ((\E s \in Shields : Gain(s)) \/ Second \/ UNCHANGED vars) => WasteInv'
<1>. SUFFICES ASSUME WasteInv, (\E s \in Shields : Gain(s)) \/ Second \/ UNCHANGED vars
              PROVE  WasteInv'
  OBVIOUS
<1>. USE DEF shieldVars, serverVars
<1>1. IInv
  BY DEF WasteInv
<1>2. /\ UNCHANGED <<protection, active, loaded, pending, items, told, raided, requests,
                     wire, until>>
      /\ bag' \in [Shields -> Nat] /\ gained' \subseteq Shields
      /\ clock' \in Nat /\ clock' >= clock
  <2>1. ASSUME NEW s \in Shields, Gain(s)
        PROVE  bag' \in [Shields -> Nat] /\ gained' \subseteq Shields
    BY <1>1, <2>1 DEF Gain, IInv, TypeOK
  <2>2. clock \in Nat /\ bag \in [Shields -> Nat] /\ gained \subseteq Shields
    BY <1>1 DEF IInv, TypeOK
  <2>3. CASE \E s \in Shields : Gain(s)
    BY <2>1, <2>2, <2>3 DEF Gain
  <2>4. CASE Second \/ UNCHANGED vars
    BY <2>2, <2>4 DEF Second, vars
  <2>. QED  BY <2>3, <2>4
<1>3. Shielded' => Shielded
  BY <1>1, <1>2 DEF Shielded, IInv, TypeOK
<1>4. IInv'
  BY <1>1, <1>2 DEF IInv, TypeOK, OneShieldOrder, PendingIsOpen, Answered
<1>5. Informed' /\ Knows'
  BY <1>2, <1>3 DEF WasteInv, Informed, Knows
<1>6. ListsKnow'
  BY <1>2, <1>3 DEF WasteInv, ListsKnow
<1>. QED  BY <1>4, <1>5, <1>6 DEF WasteInv

-----------------------------------------------------------------------------
\* The theorems

\* The inductive invariant: one request is open at most, and what the bot
\* believes of the shield is true or about to be corrected.
THEOREM ShieldInvariant == Spec => []WasteInv
<1>1. WasteInv /\ [Next]_vars => WasteInv'
  <2>. SUFFICES ASSUME WasteInv, [Next]_vars PROVE WasteInv'
    OBVIOUS
  <2>. QED  BY AttackInv, BuffsInv, UseItemInv, ServeInv, PushInv, ElsewhereInv
            DEF Next, RecvPacket
<1>. QED  BY InitWasteInv, <1>1, PTL DEF Spec

\* Quantities of the bag never wrap, in the bot or at the server.
THEOREM TypeCorrect == Spec => []TypeOK
<1>1. WasteInv => TypeOK
  BY DEF WasteInv, IInv
<1>. QED  BY ShieldInvariant, <1>1, PTL

\* Two shields are never asked for at once (UsePriorityShield and pending).
THEOREM OneShieldOrderAlways == Spec => []OneShieldOrder
<1>1. WasteInv => OneShieldOrder
  BY DEF WasteInv, IInv
<1>. QED  BY ShieldInvariant, <1>1, PTL

\* While no request is pending none is open or unread (pending in ShieldInfo).
THEOREM PendingIsOpenAlways == Spec => []PendingIsOpen
<1>1. WasteInv => PendingIsOpen
  BY DEF WasteInv, IInv
<1>. QED  BY ShieldInvariant, <1>1, PTL

\* An alert read once the buffs are known never uses up a shield while another
\* one is up, for any order of alerts, lists and answers.
THEOREM NoWasteEver == Spec => NoWaste
<1>. USE DEF shieldVars, serverVars
<1>1. WasteInv /\ [Next]_vars => [Wastes => ~Head(requests).informed]_vars
  <2>. SUFFICES ASSUME WasteInv, Next, Shielded, NEW s \in Shields, bag'[s] < bag[s]
                PROVE  ~Head(requests).informed
    BY DEF Wastes
  <2>1. bag \in [Shields -> Nat]
    BY DEF WasteInv, IInv, TypeOK
  <2>2. bag' # bag
    BY <2>1
  <2>3. CASE Serve
    BY <2>3 DEF Serve, WasteInv, Informed
  <2>4. ASSUME NEW g \in Shields, Gain(g) PROVE FALSE
    BY <2>1, <2>4 DEF Gain
  <2>5. Serve \/ \E g \in Shields : Gain(g)
    BY <2>2 DEF Next, RecvPacket, RecvAttack, RecvScout, RecvCamp, RecvItems,
                RecvIBuffInfo, RecvUseItem, RecvUseItemFailed, Refuse, Pushes, Push, Second
  <2>. QED  BY <2>3, <2>4, <2>5
<1>. QED  BY ShieldInvariant, <1>1, PTL DEF Spec, NoWaste

-----------------------------------------------------------------------------
\* What the bot knows of the bag

LEMMA InitBagInv == Init => BagInv
<1>. SUFFICES ASSUME Init PROVE BagInv
  OBVIOUS
<1>1. DOMAIN wire = {} /\ DOMAIN requests = {}
  BY DEF Init
<1>2. \A s \in Shields : items[s] = 0 /\ bag[s] \in Nat
  BY ProtectionAssumption DEF Init
<1>. QED  BY <1>1, <1>2 DEF Init, BagInv, NeverMore, NeverLess, WireTells, FirstListed

\* Reading a packet leaves the rest as true as it was.
LEMMA ReadTells ==
  ASSUME IInv, WireTells, NEW type, Receive(type), UNCHANGED <<bag, gained>>
  PROVE  /\ WireTells'
         /\ \A n \in DOMAIN wire, s \in Shields :
              n = 1 /\ TakenBehind(n, s) => TakenBehind(0, s)'
<1>1. /\ 1 \in DOMAIN wire
      /\ \A n \in DOMAIN wire' :
           n \in Nat /\ n >= 1 /\ wire'[n] = wire[n + 1] /\ n + 1 \in DOMAIN wire
      /\ \A n \in DOMAIN wire : n \in Nat /\ (n > 1 => n - 1 \in DOMAIN wire')
  BY ReceiveFacts
<1>2. ASSUME NEW n \in Nat, NEW s, TakenBehind(n + 1, s)
      PROVE  TakenBehind(n, s)'
  <2>1. PICK m \in DOMAIN wire : m > n + 1 /\ wire[m].type = "Used" /\ wire[m].item = s
    BY <1>2 DEF TakenBehind
  <2>2. m \in Nat /\ m - 1 \in DOMAIN wire' /\ m - 1 > n /\ wire'[m - 1] = wire[m]
    BY <1>1, <2>1
  <2>. QED  BY <2>1, <2>2 DEF TakenBehind
<1>3. ASSUME NEW n \in DOMAIN wire'
      PROVE  /\ wire'[n].type = "Items" =>
                  \A s \in wire'[n].of :
                    /\ wire'[n].bag[s] <= bag[s] \/ TakenBehind(n, s)'
                    /\ s \in gained \/ bag[s] <= wire'[n].bag[s]
             /\ wire'[n].type = "Used" =>
                  /\ wire'[n].left <= bag[wire'[n].item]
                  /\ wire'[n].item \in gained \/ bag[wire'[n].item] <= wire'[n].left
  <2>1. n \in Nat /\ wire'[n] = wire[n + 1] /\ n + 1 \in DOMAIN wire
    BY <1>1, <1>3
  <2>. QED  BY <1>2, <2>1 DEF WireTells
<1>4. WireTells'
  BY <1>3 DEF WireTells
<1>5. 1 = 0 + 1 /\ 0 \in Nat
  OBVIOUS
<1>. QED  BY <1>2, <1>4, <1>5

\* Without an answer on the wire the bot counts what the bag holds.
LEMMA TakenIsAnswered ==
  ASSUME NEW n, NEW s, TakenBehind(n, s)
  PROVE  \E m \in DOMAIN wire : m > n /\ Answered(m) /\ wire[m].item = s
BY DEF TakenBehind, Answered

\* UsePriorityShield asks for a shield the bag has, the first of the list.
LEMMA UseAsksFirst ==
  ASSUME WasteInv, BagInv, UsePriorityShield,
         UNCHANGED <<protection, bag, gained, items, told>>
  PROVE  FirstListed' /\ NeverLess'
<1>1. IInv /\ protection.shield_priority \in Seq(Shields)
  BY ProtectionAssumption DEF WasteInv, IInv, TypeOK
<1>2. CASE ~pending /\ Available # {}
  <2>1. PICK n \in Available :
          /\ \A m \in Available : n <= m
          /\ requests' = Append(requests, Use(protection.shield_priority[n]))
          /\ pending' = TRUE
    BY <1>2 DEF UsePriorityShield
  <2>. DEFINE list == protection.shield_priority
              first == list[n]
  <2>2. requests = <<>> /\ \A m \in DOMAIN wire : ~Answered(m)
    BY <1>1, <1>2 DEF IInv, PendingIsOpen
  <2>3. /\ DOMAIN list = 1..Len(list) /\ Len(list) \in Nat
        /\ \A j \in DOMAIN list : list[j] \in Shields
    BY <1>1, LenProperties, ElementOfSeq
  <2>4. first \in Shields /\ items[first] > 0 /\ n \in DOMAIN list
    BY <2>3 DEF Available
  <2>5. \A s \in Shields : items[s] <= bag[s]
    BY <2>2, TakenIsAnswered DEF BagInv, NeverMore
  <2>6. \A s \in told : s \in gained \/ bag[s] <= items[s]
    BY DEF BagInv, NeverLess
  <2>7. items \in [Shields -> Nat] /\ bag \in [Shields -> Nat]
    BY <1>1 DEF IInv, TypeOK
  <2>8. bag[first] > 0
    BY <2>4, <2>5, <2>7
  <2>9. ASSUME NEW j \in 1..(n - 1)
        PROVE  bag[list[j]] = 0 \/ list[j] \in gained \/ list[j] \notin told
    <3>1. j \in DOMAIN list /\ j \notin Available
      BY <2>1, <2>3, <2>4
    <3>2. list[j] \in Shields /\ ~(items[list[j]] > 0)
      BY <2>3, <3>1 DEF Available
    <3>3. items[list[j]] \in Nat /\ bag[list[j]] \in Nat
      BY <2>7, <3>2
    <3>. QED  BY <2>6, <3>2, <3>3
  <2>10. requests' = <<Use(first)>>
    BY <2>1, <2>2
  <2>11. DOMAIN requests' = {1} /\ requests'[1].item = first /\ requests'[1].told = told
    BY <2>10 DEF Use
  <2>12. FirstListed'
    BY <2>4, <2>8, <2>9, <2>11 DEF FirstListed
  <2>. QED  BY <2>6, <2>12 DEF NeverLess
<1>3. CASE ~(~pending /\ Available # {})
  BY <1>3 DEF UsePriorityShield, BagInv, FirstListed, NeverLess
<1>. QED  BY <1>2, <1>3

\* Alerts change nothing of what the bot knows.
LEMMA AlertBag ==
  ASSUME WasteInv, BagInv, NEW type \in {"Attack", "Scout", "Camp", "Buffs", "UseFailed"},
         Receive(type), UNCHANGED <<protection, items, told, bag, gained>>,
         \/ UsePriorityShield
         \/ UNCHANGED <<requests, pending>>
  PROVE  BagInv'
<1>1. IInv
  BY DEF WasteInv
<1>2. WireTells'
  BY <1>1, ReadTells DEF BagInv
<1>3. NeverMore'
  <2>. SUFFICES ASSUME NEW s \in Shields, ~(items[s] <= bag[s]) PROVE TakenBehind(0, s)'
    BY DEF NeverMore
  <2>1. PICK m \in DOMAIN wire : m > 0 /\ wire[m].type = "Used" /\ wire[m].item = s
    BY DEF BagInv, NeverMore, TakenBehind
  <2>2. 1 \in DOMAIN wire /\ wire[1].type # "Used" /\ m \in Nat
    BY <1>1, <2>1, ReceiveFacts
  <2>3. TakenBehind(1, s)
    BY <2>1, <2>2 DEF TakenBehind
  <2>. QED  BY <1>1, <2>2, <2>3, ReadTells DEF BagInv
<1>4. FirstListed' /\ NeverLess'
  <2>1. CASE UsePriorityShield
    BY <2>1, UseAsksFirst
  <2>2. CASE UNCHANGED <<requests, pending>>
    BY <2>2 DEF BagInv, FirstListed, NeverLess
  <2>. QED  BY <2>1, <2>2
<1>. QED  BY <1>2, <1>3, <1>4 DEF BagInv

-----------------------------------------------------------------------------
\* Packets that tell of the bag

LEMMA ItemsBag == WasteInv /\ BagInv /\ RecvItems => BagInv'
<1>. SUFFICES ASSUME WasteInv, BagInv, RecvItems PROVE BagInv'
  OBVIOUS
<1>1. /\ IInv /\ Receive("Items")
      /\ items' = [s \in Shields |-> IF s \in Head(wire).of THEN Head(wire).bag[s]
                                                            ELSE items[s]]
      /\ told' = told \cup Head(wire).of
      /\ UNCHANGED <<protection, pending, requests, bag, gained>>
  BY DEF WasteInv, RecvItems, shieldVars, serverVars
<1>2. /\ 1 \in DOMAIN wire /\ Head(wire) = wire[1] /\ wire[1].type = "Items"
      /\ wire[1].of \subseteq Shields
  <2>1. /\ 1 \in DOMAIN wire /\ Head(wire) = wire[1] /\ wire[1].type = "Items"
        /\ Head(wire) \in PacketType
    BY <1>1, ReceiveFacts
  <2>. QED  BY <2>1 DEF PacketType
<1>3. WireTells'
  BY <1>1, ReadTells DEF BagInv
<1>4. ASSUME NEW s \in Shields PROVE items'[s] <= bag[s] \/ TakenBehind(0, s)'
  <2>1. CASE s \in wire[1].of
    BY <1>1, <1>2, <2>1, ReadTells DEF BagInv, WireTells
  <2>2. CASE s \notin wire[1].of
    <3>1. items'[s] = items[s]
      BY <1>1, <1>2, <2>2
    <3>2. CASE items[s] <= bag[s]
      BY <3>1, <3>2
    <3>3. CASE TakenBehind(0, s)
      <4>1. PICK m \in DOMAIN wire : m > 0 /\ wire[m].type = "Used" /\ wire[m].item = s
        BY <3>3 DEF TakenBehind
      <4>2. m \in Nat /\ m # 1
        BY <1>1, <1>2, <4>1, ReceiveFacts
      <4>3. TakenBehind(1, s)
        BY <4>1, <4>2 DEF TakenBehind
      <4>. QED  BY <1>1, <1>2, <4>3, ReadTells DEF BagInv
    <3>. QED  BY <3>2, <3>3 DEF BagInv, NeverMore
  <2>. QED  BY <2>1, <2>2
<1>5. ASSUME NEW s \in told' PROVE s \in gained \/ bag[s] <= items'[s]
  <2>1. CASE s \in wire[1].of
    BY <1>1, <1>2, <2>1 DEF BagInv, WireTells
  <2>2. CASE s \notin wire[1].of
    <3>1. s \in told /\ told \subseteq Shields
      BY <1>1, <1>2, <2>2 DEF IInv, TypeOK
    <3>. QED  BY <1>1, <1>2, <2>2, <3>1 DEF BagInv, NeverLess
  <2>. QED  BY <2>1, <2>2
<1>6. NeverMore' /\ NeverLess'
  BY <1>1, <1>4, <1>5 DEF NeverMore, NeverLess
<1>. QED  BY <1>1, <1>3, <1>6 DEF BagInv, FirstListed

LEMMA UsedBag == WasteInv /\ BagInv /\ RecvUseItem => BagInv'
<1>. SUFFICES ASSUME WasteInv, BagInv, RecvUseItem PROVE BagInv'
  OBVIOUS
<1>1. /\ IInv /\ Receive("Used")
      /\ items' = [items EXCEPT ![Head(wire).item] = Head(wire).left]
      /\ UNCHANGED <<protection, told, requests, bag, gained>>
  BY DEF WasteInv, RecvUseItem, serverVars
<1>2. /\ 1 \in DOMAIN wire /\ wire[1].type = "Used" /\ Head(wire) = wire[1]
      /\ wire[1].item \in Shields
  <2>1. 1 \in DOMAIN wire /\ wire[1].type = "Used" /\ Head(wire) = wire[1]
        /\ Head(wire) \in PacketType
    BY <1>1, ReceiveFacts
  <2>. QED  BY <2>1 DEF PacketType
<1>3. WireTells'
  BY <1>1, ReadTells DEF BagInv
<1>4. Answered(1) /\ pending
  BY <1>1, <1>2 DEF Answered, IInv, PendingIsOpen
<1>5. ASSUME NEW s \in Shields, s # wire[1].item PROVE ~TakenBehind(0, s)
  <2>. SUFFICES ASSUME TakenBehind(0, s) PROVE FALSE
    OBVIOUS
  <2>1. PICK m \in DOMAIN wire : Answered(m) /\ wire[m].item = s
    BY TakenIsAnswered
  <2>2. m = 1
    BY <1>1, <1>2, <1>4, <2>1 DEF IInv, OneShieldOrder
  <2>. QED  BY <1>5, <2>1, <2>2
<1>6. /\ items' = [items EXCEPT ![wire[1].item] = wire[1].left]
      /\ items \in [Shields -> Nat]
  BY <1>1, <1>2 DEF IInv, TypeOK
<1>7. NeverMore'
  BY <1>1, <1>2, <1>5, <1>6 DEF BagInv, WireTells, NeverMore
<1>8. NeverLess'
  <2>1. told \subseteq Shields
    BY <1>1 DEF IInv, TypeOK
  <2>. QED  BY <1>1, <1>2, <1>4, <1>6, <2>1 DEF BagInv, WireTells, NeverLess
<1>. QED  BY <1>1, <1>3, <1>7, <1>8 DEF BagInv, FirstListed

LEMMA ReadBag == WasteInv /\ BagInv /\ RecvPacket => BagInv'
<1>. SUFFICES ASSUME WasteInv, BagInv, RecvPacket PROVE BagInv'
  OBVIOUS
<1>. USE DEF shieldVars, serverVars
<1>1. CASE RecvAttack
  BY <1>1, AlertBag DEF RecvAttack, WhenEnemyArmyApproachingTurf
<1>2. CASE RecvScout
  BY <1>2, AlertBag DEF RecvScout, WhenEnemyScoutApproachingTurf
<1>3. CASE RecvCamp
  BY <1>3, AlertBag DEF RecvCamp
<1>4. CASE RecvIBuffInfo
  BY <1>4, AlertBag DEF RecvIBuffInfo
<1>5. CASE RecvUseItemFailed
  BY <1>5, AlertBag DEF RecvUseItemFailed
<1>. QED  BY <1>1, <1>2, <1>3, <1>4, <1>5, ItemsBag, UsedBag DEF RecvPacket

-----------------------------------------------------------------------------
\* The server and the bag

\* A packet behind the others overtakes none of them.
LEMMA SendTakes ==
  ASSUME IInv, NEW p \in PacketType, Send(p), NEW n \in Nat, NEW s \in Shields,
         TakenBehind(n, s)
  PROVE  TakenBehind(n, s)'
BY SendFacts DEF TakenBehind

\* The shield that is used is taken from the bag and from what is known of it.
LEMMA ServeBag == WasteInv /\ BagInv /\ Serve => BagInv'
<1>. SUFFICES ASSUME WasteInv, BagInv, Serve PROVE BagInv'
  OBVIOUS
<1>0. IInv /\ requests # <<>> /\ requests' = Tail(requests)
  BY DEF WasteInv, Serve
<1>. PICK s \in Shields : s = Head(requests).item
  BY <1>0, TakeFacts DEF RequestType
<1>. DEFINE p == Used(s, bag[s] - 1)
<1>1. /\ IInv
      /\ bag[s] > 0 /\ bag' = [bag EXCEPT ![s] = bag[s] - 1] /\ Send(p)
      /\ UNCHANGED <<protection, pending, items, told, gained>>
  BY DEF WasteInv, Serve, shieldVars
<1>2. requests' = <<>> /\ pending /\ \A n \in DOMAIN wire : ~Answered(n)
  BY <1>0, TakeFacts
<1>3. bag \in [Shields -> Nat] /\ bag' \in [Shields -> Nat] /\ items \in [Shields -> Nat]
  <2>1. bag \in [Shields -> Nat] /\ items \in [Shields -> Nat]
    BY <1>1 DEF IInv, TypeOK
  <2>. QED  BY <1>1, <1>2, <2>1
<1>4. p \in PacketType /\ p.type = "Used" /\ p.item = s /\ p.left = bag'[s]
  BY <1>1, <1>2, <1>3 DEF Used, PacketType
<1>. HIDE DEF p
<1>5. /\ DOMAIN wire = 1..Len(wire) /\ Len(wire) \in Nat
      /\ DOMAIN wire' = 1..(Len(wire) + 1)
      /\ \A n \in DOMAIN wire : wire'[n] = wire[n]
      /\ wire'[Len(wire) + 1] = p
  BY <1>1, <1>4, SendFacts
<1>6. \A n \in 0..Len(wire) : TakenBehind(n, s)'
  BY <1>4, <1>5 DEF TakenBehind
<1>7. \A n \in Nat, x \in Shields : ~TakenBehind(n, x)
  BY <1>2, TakenIsAnswered
<1>8. \A x \in Shields : bag'[x] <= bag[x] /\ (x # s => bag'[x] = bag[x])
  BY <1>1, <1>2, <1>3
<1>9. NeverMore'
  BY <1>1, <1>3, <1>5, <1>6, <1>7, <1>8 DEF BagInv, NeverMore
<1>10. NeverLess'
  <2>1. told \subseteq Shields
    BY <1>1 DEF IInv, TypeOK
  <2>. QED  BY <1>1, <1>2, <1>3, <1>8, <2>1 DEF BagInv, NeverLess
<1>11. WireTells'
  <2>1. ASSUME NEW n \in DOMAIN wire', wire'[n].type = "Items",
               NEW x \in wire'[n].of
        PROVE  /\ wire'[n].bag[x] <= bag'[x] \/ TakenBehind(n, x)'
               /\ x \in gained \/ bag'[x] <= wire'[n].bag[x]
    <3>1. n \in DOMAIN wire /\ n \in Nat /\ n \in 0..Len(wire) /\ wire'[n] = wire[n]
      BY <1>4, <1>5, <2>1
    <3>2. x \in Shields /\ wire[n].bag[x] \in Nat
      <4>1. wire[n] \in PacketType /\ wire[n].type = "Items"
        BY <1>1, <2>1, <3>1, ElementOfSeq, LenProperties DEF IInv, TypeOK
      <4>. QED  BY <2>1, <3>1, <4>1 DEF PacketType
    <3>3. wire[n].bag[x] <= bag[x] /\ (x \in gained \/ bag[x] <= wire[n].bag[x])
      BY <1>7, <2>1, <3>1, <3>2 DEF BagInv, WireTells
    <3>4. bag[x] \in Nat /\ bag'[x] \in Nat /\ bag'[x] <= bag[x]
      BY <1>3, <1>8, <3>2
    <3>5. CASE x = s
      BY <1>6, <3>1, <3>2, <3>3, <3>4, <3>5
    <3>6. CASE x # s
      BY <1>8, <3>1, <3>2, <3>3, <3>6
    <3>. QED  BY <3>5, <3>6
  <2>2. ASSUME NEW n \in DOMAIN wire', wire'[n].type = "Used"
        PROVE  wire'[n] = p
    BY <1>2, <1>5, <2>2 DEF Answered
  <2>3. bag'[s] \in Nat
    BY <1>2, <1>3
  <2>. QED  BY <1>1, <1>4, <2>1, <2>2, <2>3 DEF WireTells
<1>12. FirstListed'
  BY <1>2 DEF FirstListed
<1>. QED  BY <1>9, <1>10, <1>11, <1>12 DEF BagInv

\* A packet that is no answer is behind the others, and true when it is sent.
LEMMA OtherSentBag ==
  ASSUME WasteInv, BagInv, NEW p \in PacketType, Send(p), p.type # "Used",
         p.type = "Items" => \A s \in p.of : p.bag[s] = bag[s],
         FirstListed',
         UNCHANGED <<protection, pending, items, told, bag, gained>>
  PROVE  BagInv'
<1>1. IInv /\ bag \in [Shields -> Nat]
  BY DEF WasteInv, IInv, TypeOK
<1>2. /\ DOMAIN wire = 1..Len(wire) /\ Len(wire) \in Nat
      /\ DOMAIN wire' = 1..(Len(wire) + 1)
      /\ \A n \in DOMAIN wire : wire'[n] = wire[n]
      /\ wire'[Len(wire) + 1] = p
  BY <1>1, SendFacts
<1>3. \A n \in Nat, s \in Shields : TakenBehind(n, s) => TakenBehind(n, s)'
  BY <1>1, SendTakes
<1>4. NeverMore' /\ NeverLess'
  BY <1>3 DEF BagInv, NeverMore, NeverLess
<1>5. WireTells'
  <2>1. ASSUME NEW n \in DOMAIN wire', wire'[n].type = "Items", NEW s \in wire'[n].of
        PROVE  /\ wire'[n].bag[s] <= bag[s] \/ TakenBehind(n, s)'
               /\ s \in gained \/ bag[s] <= wire'[n].bag[s]
    <3>0. s \in Shields
      <4>1. wire' \in Seq(PacketType)
        BY <1>1, SendFacts
      <4>2. wire'[n] \in PacketType
        BY <2>1, <4>1, ElementOfSeq, LenProperties
      <4>. QED  BY <2>1, <4>2 DEF PacketType
    <3>1. CASE n \in DOMAIN wire
      BY <1>2, <1>3, <2>1, <3>0, <3>1 DEF BagInv, WireTells
    <3>2. CASE n = Len(wire) + 1
      BY <1>1, <1>2, <2>1, <3>0, <3>2
    <3>. QED  BY <1>2, <3>1, <3>2
  <2>2. ASSUME NEW n \in DOMAIN wire', wire'[n].type = "Used"
        PROVE  /\ wire'[n].left <= bag[wire'[n].item]
               /\ wire'[n].item \in gained \/ bag[wire'[n].item] <= wire'[n].left
    <3>1. n \in DOMAIN wire /\ wire'[n] = wire[n]
      BY <1>2, <2>2
    <3>. QED  BY <2>2, <3>1 DEF BagInv, WireTells
  <2>. QED  BY <2>1, <2>2 DEF WireTells
<1>. QED  BY <1>4, <1>5 DEF BagInv

LEMMA SentBag == WasteInv /\ BagInv /\ (Refuse \/ Pushes) => BagInv'
<1>. SUFFICES ASSUME WasteInv, BagInv, Refuse \/ Pushes PROVE BagInv'
  OBVIOUS
<1>. USE DEF shieldVars, serverVars
<1>1. IInv /\ bag \in [Shields -> Nat] /\ Shielded \in BOOLEAN
  BY DEF WasteInv, IInv, TypeOK, Shielded
<1>2. CASE Refuse
  <2>1. requests' = <<>>
    BY <1>1, <1>2, TakeFacts DEF Refuse
  <2>2. FirstListed'
    BY <2>1 DEF FirstListed
  <2>3. UseFailed \in PacketType /\ UseFailed.type = "UseFailed"
    BY DEF UseFailed, PacketType
  <2>. QED  BY <1>2, <2>2, <2>3, OtherSentBag DEF Refuse
<1>3. CASE Pushes
  <2>1. PICK m \in PacketType :
          /\ Push(m)
          /\ m.type \notin {"Used", "UseFailed"}
          /\ m.type = "Items" => \A s \in m.of : m.bag[s] = bag[s]
    BY <1>1, <1>3, PushedPacket
  <2>2. FirstListed'
    BY <2>1 DEF Push, BagInv, FirstListed
  <2>. QED  BY <2>1, <2>2, OtherSentBag DEF Push
<1>. QED  BY <1>2, <1>3

LEMMA GainBag ==
  WasteInv /\ BagInv /\ ((\E s \in Shields : Gain(s)) \/ Second \/ UNCHANGED vars)
    => BagInv'
<1>. SUFFICES ASSUME WasteInv, BagInv,
                     (\E s \in Shields : Gain(s)) \/ Second \/ UNCHANGED vars
              PROVE  BagInv'
  OBVIOUS
<1>. USE DEF shieldVars, serverVars
<1>1. /\ bag \in [Shields -> Nat] /\ items \in [Shields -> Nat]
      /\ wire \in Seq(PacketType) /\ requests \in Seq(RequestType)
      /\ protection.shield_priority \in Seq(Shields)
  BY ProtectionAssumption DEF WasteInv, IInv, TypeOK
<1>2. UNCHANGED <<protection, pending, items, told, requests, wire>>
  BY DEF Gain, Second, vars
<1>3. /\ bag' \in [Shields -> Nat] /\ gained \subseteq gained'
      /\ \A s \in Shields : bag[s] <= bag'[s] /\ (bag'[s] = bag[s] \/ s \in gained')
  <2>1. ASSUME NEW g \in Shields, Gain(g)
        PROVE  /\ bag' \in [Shields -> Nat] /\ gained \subseteq gained'
               /\ \A s \in Shields : bag[s] <= bag'[s] /\ (bag'[s] = bag[s] \/ s \in gained')
    BY <1>1, <2>1 DEF Gain
  <2>. QED  BY <1>1, <2>1 DEF Second, vars
<1>4. \A n, s : TakenBehind(n, s)' = TakenBehind(n, s)
  BY <1>2 DEF TakenBehind
<1>5. NeverMore'
  BY <1>1, <1>2, <1>3, <1>4 DEF BagInv, NeverMore
<1>6. NeverLess'
  <2>1. told \subseteq Shields
    BY DEF WasteInv, IInv, TypeOK
  <2>. QED  BY <1>1, <1>2, <1>3, <2>1 DEF BagInv, NeverLess
<1>7. WireTells'
  <2>1. ASSUME NEW n \in DOMAIN wire, wire[n].type = "Items", NEW s \in wire[n].of
        PROVE  /\ wire[n].bag[s] <= bag'[s] \/ TakenBehind(n, s)
               /\ s \in gained' \/ bag'[s] <= wire[n].bag[s]
    <3>1. s \in Shields /\ wire[n].bag[s] \in Nat
      <4>1. wire[n] \in PacketType
        BY <1>1, <2>1, ElementOfSeq, LenProperties
      <4>. QED  BY <2>1, <4>1 DEF PacketType
    <3>. QED  BY <1>1, <1>3, <2>1, <3>1 DEF BagInv, WireTells
  <2>2. ASSUME NEW n \in DOMAIN wire, wire[n].type = "Used"
        PROVE  /\ wire[n].left <= bag'[wire[n].item]
               /\ wire[n].item \in gained' \/ bag'[wire[n].item] <= wire[n].left
    <3>1. wire[n].left \in Nat /\ wire[n].item \in Shields
      <4>1. wire[n] \in PacketType
        BY <1>1, <2>2, ElementOfSeq, LenProperties
      <4>. QED  BY <2>2, <4>1 DEF PacketType
    <3>. QED  BY <1>1, <1>3, <2>2, <3>1 DEF BagInv, WireTells
  <2>. QED  BY <1>2, <1>4, <2>1, <2>2 DEF WireTells
<1>8. FirstListed'
  <2>. SUFFICES ASSUME NEW n \in DOMAIN requests
                PROVE  /\ bag'[requests[n].item] > 0
                       /\ \E i \in DOMAIN protection.shield_priority :
                            /\ protection.shield_priority[i] = requests[n].item
                            /\ \A j \in 1..(i - 1) :
                                 \/ bag'[protection.shield_priority[j]] = 0
                                 \/ protection.shield_priority[j] \in gained'
                                 \/ protection.shield_priority[j] \notin requests[n].told
    BY <1>2 DEF FirstListed
  <2>1. requests[n].item \in Shields
    <3>1. requests[n] \in RequestType
      BY <1>1, ElementOfSeq, LenProperties
    <3>. QED  BY <3>1 DEF RequestType
  <2>2. bag'[requests[n].item] > 0
    BY <1>1, <1>3, <2>1 DEF BagInv, FirstListed
  <2>3. PICK i \in DOMAIN protection.shield_priority :
          /\ protection.shield_priority[i] = requests[n].item
          /\ \A j \in 1..(i - 1) :
               \/ bag[protection.shield_priority[j]] = 0
               \/ protection.shield_priority[j] \in gained
               \/ protection.shield_priority[j] \notin requests[n].told
    BY DEF BagInv, FirstListed
  <2>4. ASSUME NEW j \in 1..(i - 1)
        PROVE  \/ bag'[protection.shield_priority[j]] = 0
               \/ protection.shield_priority[j] \in gained'
               \/ protection.shield_priority[j] \notin requests[n].told
    <3>1. protection.shield_priority[j] \in Shields
      BY <1>1, <2>3, ElementOfSeq, LenProperties
    <3>. QED  BY <1>3, <2>3, <3>1
  <2>. QED  BY <2>2, <2>3, <2>4
<1>. QED  BY <1>5, <1>6, <1>7, <1>8 DEF BagInv

\* What the bot knows of the shields it was told of is as old as what is still on
\* its way, no older.
THEOREM BagInvariant == Spec => []BagInv
<1>1. WasteInv /\ BagInv /\ [Next]_vars => BagInv'
  BY ReadBag, ServeBag, SentBag, GainBag DEF Next
<1>. QED  BY InitBagInv, ShieldInvariant, <1>1, PTL DEF Spec

\* The bot asks for the first shield of its list that is in the bag, of those the
\* parts of the list read so far have told of, however late the parts come
\* (UsePriorityShield, RecvItemInfo, RecvUseItem).
THEOREM FirstListedAlways == Spec => []FirstListed
<1>1. BagInv => FirstListed
  BY DEF BagInv
<1>. QED  BY BagInvariant, <1>1, PTL
-----------------------------------------------------------------------------
\* The use of a shield is an exchange

\* A set whose elements are all one has one element at most.
LEMMA OneAtMost ==
  ASSUME NEW S, \A m, n \in S : m = n
  PROVE  Cardinality(S) = IF S = {} THEN 0 ELSE 1
<1>1. CASE S = {}
  BY <1>1, FS_EmptySet
<1>2. CASE S # {}
  <2>1. PICK x : x \in S
    BY <1>2
  <2>2. S = {x}
    BY <2>1
  <2>. QED  BY <1>2, <2>2, FS_Singleton
<1>. QED  BY <1>1, <1>2

\* Answers are counted by whether there is one, in this state and in the next.
LEMMA Counted ==
  ASSUME OneShieldOrder
  PROVE  Cardinality(AnswersSent) = IF AnswersSent = {} THEN 0 ELSE 1
<1>1. \A m, n \in AnswersSent : m = n
  BY DEF OneShieldOrder, AnswersSent
<1>. QED  BY <1>1, OneAtMost

LEMMA CountedNext ==
  ASSUME OneShieldOrder'
  PROVE  Cardinality(AnswersSent') = IF AnswersSent' = {} THEN 0 ELSE 1
<1>1. \A m, n \in AnswersSent' : m = n
  BY DEF OneShieldOrder, AnswersSent
<1>. QED  BY <1>1, OneAtMost

\* A packet that is read and is no answer leaves the answers as they are.
LEMMA OtherReadKeepsAnswers ==
  ASSUME IInv, NEW type \in {"Attack", "Scout", "Camp", "Items", "Buffs"}, Receive(type)
  PROVE  AnswerKinds' = AnswerKinds /\ (AnswersSent' = {} <=> AnswersSent = {})
<1>. USE DEF Answered, AnswersSent
<1>1. /\ \A n \in DOMAIN wire' : n \in Nat /\ n + 1 \in DOMAIN wire /\ wire'[n] = wire[n + 1]
      /\ \A n \in DOMAIN wire :
           n \in Nat /\ (n # 1 => n > 1 /\ n - 1 \in DOMAIN wire' /\ wire'[n - 1] = wire[n])
      /\ wire[1].type = type
  <2>1. \A n \in DOMAIN wire : n >= 1
    BY LenProperties DEF IInv, TypeOK
  <2>. QED  BY <2>1, ReceiveFacts
<1>2. ~Answered(1)
  BY <1>1
<1>3. \A n \in AnswersSent' : n + 1 \in AnswersSent /\ wire'[n] = wire[n + 1]
  BY <1>1
<1>4. \A n \in AnswersSent : n - 1 \in AnswersSent' /\ wire'[n - 1] = wire[n]
  BY <1>1, <1>2
<1>5. AnswersSent' = {} <=> AnswersSent = {}
  BY <1>3, <1>4
<1>6. AnswerKinds' = AnswerKinds
  <2>. HIDE DEF AnswersSent
  <2>. QED  BY <1>3, <1>4 DEF AnswerKinds
<1>. QED  BY <1>5, <1>6

\* An alert asks, or leaves things as they are.
LEMMA AlertAsks ==
  ASSUME IInv, IInv', Outcome,
         AnswerKinds' = AnswerKinds, AnswersSent' = {} <=> AnswersSent = {}
  PROVE  Shielding!Ask \/ UNCHANGED Shielding!vars
<1>1. Cardinality(AnswersSent') = Cardinality(AnswersSent)
  BY Counted, CountedNext DEF IInv
<1>2. CASE pending' = pending /\ requests' = requests
  BY <1>1, <1>2 DEF Shielding!vars
<1>3. ASSUME ~pending, pending' = TRUE, NEW s \in Shields, requests' = <<Use(s)>>
      PROVE  Shielding!Ask
  <2>1. requests = <<>> /\ AnswersSent = {}
    BY <1>3 DEF IInv, PendingIsOpen, AnswersSent
  <2>2. Len(requests) = 0 /\ Len(requests') = 1 /\ Cardinality(AnswersSent) = 0
    BY <1>3, <2>1, Counted DEF IInv
  <2>. QED  BY <1>1, <1>3, <2>2 DEF Shielding!Ask
<1>. QED  BY <1>2, <1>3 DEF Outcome

\* The packets that are no answers.
LEMMA ReadAsks ==
  ASSUME IInv, IInv',
         RecvAttack \/ RecvScout \/ RecvCamp \/ RecvItems \/ RecvIBuffInfo
  PROVE  Shielding!Ask \/ UNCHANGED Shielding!vars
<1>1. PICK type \in {"Attack", "Scout", "Camp", "Items", "Buffs"} : Receive(type)
  BY DEF RecvAttack, RecvScout, RecvCamp, RecvItems, RecvIBuffInfo
<1>2. Outcome
  <2>1. CASE RecvAttack
    BY <2>1, UseOutcome DEF RecvAttack, WhenEnemyArmyApproachingTurf, Outcome
  <2>2. CASE RecvScout
    BY <2>2, UseOutcome DEF RecvScout, WhenEnemyScoutApproachingTurf, Outcome
  <2>3. CASE RecvCamp \/ RecvItems \/ RecvIBuffInfo
    BY <2>3 DEF RecvCamp, RecvItems, RecvIBuffInfo, Outcome, shieldVars
  <2>. QED  BY <2>1, <2>2, <2>3
<1>. QED  BY <1>1, <1>2, OtherReadKeepsAnswers, AlertAsks

\* An answer read ends the wait if it is that of a shield RecvUseItem knows.
LEMMA AnswerIsRead ==
  ASSUME IInv, IInv', RecvUseItem \/ RecvUseItemFailed
  PROVE  Shielding!Read
<1>. USE DEF Answered
<1>1. PICK type \in {"Used", "UseFailed"} : Receive(type)
  BY DEF RecvUseItem, RecvUseItemFailed
<1>2. /\ 1 \in DOMAIN wire /\ Head(wire) = wire[1] /\ wire[1].type = type
      /\ \A n \in DOMAIN wire' : n \in Nat /\ n >= 1 /\ n + 1 \in DOMAIN wire
                                   /\ wire'[n] = wire[n + 1]
  BY <1>1, ReceiveFacts
<1>3. AnswersSent = {1}
  BY <1>2 DEF AnswersSent, IInv, OneShieldOrder
<1>4. AnswersSent' = {}
  <2>. SUFFICES ASSUME NEW n \in DOMAIN wire', Answered(n)' PROVE FALSE
    BY DEF AnswersSent
  <2>1. n \in Nat /\ n >= 1 /\ n + 1 \in AnswersSent
    BY <1>2 DEF AnswersSent
  <2>. QED  BY <1>3, <2>1
<1>5. AnswerKinds = {AnswerKind(wire[1])} /\ AnswerKinds' = {}
  BY <1>3, <1>4 DEF AnswerKinds
<1>6. requests = <<>> /\ Len(requests) = 0 /\ requests' = requests
  BY <1>2 DEF IInv, OneShieldOrder, RecvUseItem, RecvUseItemFailed
<1>7. Cardinality(AnswersSent) = 1 /\ Cardinality(AnswersSent') = 0
  BY <1>3, <1>4, Counted, CountedNext DEF IInv
<1>8. IF AnswerKind(wire[1]) = "Used" THEN pending' = FALSE ELSE pending' = pending
  <2>1. CASE RecvUseItem
    <3>1. wire[1].type = "Used"
      BY <1>2, <2>1 DEF RecvUseItem, Receive
    <3>. QED  BY <1>2, <2>1, <3>1 DEF RecvUseItem, AnswerKind
  <2>2. CASE RecvUseItemFailed
    <3>1. wire[1].type = "UseFailed"
      BY <1>2, <2>2 DEF RecvUseItemFailed, Receive
    <3>. QED  BY <2>2, <3>1 DEF RecvUseItemFailed, AnswerKind, shieldVars
  <2>. QED  BY <2>1, <2>2
<1>. QED  BY <1>5, <1>6, <1>7, <1>8 DEF Shielding!Read

\* The server's answer takes the request's place.
LEMMA ServerAnswers ==
  ASSUME WasteInv, IInv', Serve \/ Refuse
  PROVE  Shielding!Answer
<1>1. IInv /\ requests # <<>> /\ requests' = Tail(requests) /\ pending' = pending
  BY DEF WasteInv, Serve, Refuse, shieldVars
<1>2. /\ requests' = <<>> /\ Head(requests) \in RequestType
      /\ \A n \in DOMAIN wire : ~Answered(n)
  BY <1>1, TakeFacts
<1>3. Len(requests) = 1 /\ Len(requests') = 0
  <2>1. requests \in Seq(RequestType) /\ Len(requests) \in Nat /\ Len(requests) <= 1
    BY <1>1, LenProperties DEF IInv, TypeOK, OneShieldOrder
  <2>2. Len(requests) # 0
    BY <1>1, <2>1, EmptySeq
  <2>. DEFINE k == Len(requests)
  <2>3. k = 1
    <3>1. k \in Nat /\ k <= 1 /\ k # 0
      BY <2>1, <2>2
    <3>. HIDE DEF k
    <3>. QED  BY <3>1
  <2>4. Len(requests') = 0
    BY <1>2
  <2>. QED  BY <2>3, <2>4
<1>4. PICK m \in PacketType : m.type \in {"Used", "UseFailed"} /\ Send(m)
  <2>1. CASE Serve
    <3>. DEFINE s == Head(requests).item
    <3>1. s \in Shields /\ bag[s] > 0 /\ bag \in [Shields -> Nat]
      BY <1>1, <1>2, <2>1 DEF Serve, RequestType, IInv, TypeOK
    <3>2. bag[s] - 1 \in Nat /\ Send(Used(s, bag[s] - 1))
      BY <2>1, <3>1 DEF Serve
    <3>. HIDE DEF s
    <3>. QED  BY <3>1, <3>2 DEF Used, PacketType
  <2>2. CASE Refuse
    BY <2>2 DEF Refuse, UseFailed, PacketType
  <2>. QED  BY <2>1, <2>2
<1>5. /\ DOMAIN wire = 1..Len(wire) /\ Len(wire) \in Nat
      /\ DOMAIN wire' = 1..(Len(wire) + 1)
      /\ \A n \in DOMAIN wire : wire'[n] = wire[n]
      /\ wire'[Len(wire) + 1] = m
  BY <1>1, <1>4, SendFacts
<1>6. AnswersSent = {} /\ AnswersSent' = {Len(wire) + 1}
  BY <1>2, <1>4, <1>5 DEF AnswersSent, Answered
<1>7. AnswerKinds' = {AnswerKind(m)}
  BY <1>5, <1>6 DEF AnswerKinds
<1>8. AnswerKind(m) \in {"Used", "UsedUnknown", "UseFailed"}
  BY <1>4 DEF AnswerKind
<1>9. Cardinality(AnswersSent) = 0 /\ Cardinality(AnswersSent') = 1
  BY <1>1, <1>6, Counted, CountedNext DEF IInv
<1>. QED  BY <1>1, <1>3, <1>7, <1>8, <1>9 DEF Shielding!Answer

\* Everything else the server does is no part of it.
LEMMA OtherStutters ==
  ASSUME IInv, IInv',
         Pushes \/ (\E s \in Shields : Gain(s)) \/ Second \/ UNCHANGED vars
  PROVE  UNCHANGED Shielding!vars
<1>1. pending' = pending /\ requests' = requests
  BY DEF Pushes, Push, Gain, Second, vars, shieldVars
<1>2. AnswersSent' = AnswersSent /\ AnswerKinds' = AnswerKinds
  <2>1. CASE Pushes
    <3>1. PICK m \in PacketType : Push(m) /\ m.type \notin {"Used", "UseFailed"}
      BY <2>1, PushedPacket
    <3>2. m \in PacketType /\ m.type \notin {"Used", "UseFailed"} /\ Send(m)
      BY <3>1 DEF Push
    <3>3. /\ DOMAIN wire = 1..Len(wire) /\ Len(wire) \in Nat
          /\ DOMAIN wire' = 1..(Len(wire) + 1)
          /\ \A n \in DOMAIN wire : wire'[n] = wire[n]
          /\ wire'[Len(wire) + 1] = m
      BY <3>2, SendFacts
    <3>4. AnswersSent' = AnswersSent /\ AnswersSent \subseteq DOMAIN wire
      BY <3>2, <3>3 DEF AnswersSent, Answered
    <3>5. AnswerKinds' = AnswerKinds
      BY <3>3, <3>4 DEF AnswerKinds
    <3>. QED  BY <3>4, <3>5
  <2>2. CASE (\E s \in Shields : Gain(s)) \/ Second \/ UNCHANGED vars
    <3>1. wire' = wire
      BY <2>2 DEF Gain, Second, vars
    <3>. QED  BY <3>1 DEF AnswersSent, AnswerKinds, Answered
  <2>. QED  BY <2>1, <2>2
<1>. QED  BY <1>1, <1>2 DEF Shielding!vars

\* The use of a shield implements Exchange: no alert asks twice, no list of bag or
\* buffs ends the wait, and of the answers only that of a shield RecvUseItem knows.
THEOREM ShieldImplementsExchange == Spec => ImplementsExchange
<1>1. Init => Shielding!Init
  <2>. SUFFICES ASSUME Init PROVE Shielding!Init
    OBVIOUS
  <2>1. AnswersSent = {} /\ AnswerKinds = {} /\ Len(requests) = 0
    BY DEF Init, AnswersSent, AnswerKinds
  <2>2. Cardinality(AnswersSent) = 0
    BY <2>1, FS_EmptySet
  <2>. QED  BY <2>1, <2>2 DEF Init, Shielding!Init
<1>2. WasteInv /\ WasteInv' /\ [Next]_vars => [Shielding!Next]_(Shielding!vars)
  <2>. SUFFICES ASSUME WasteInv, WasteInv', [Next]_vars
                PROVE  Shielding!Next \/ UNCHANGED Shielding!vars
    OBVIOUS
  <2>1. IInv /\ IInv'
    BY DEF WasteInv
  <2>2. CASE RecvAttack \/ RecvScout \/ RecvCamp \/ RecvItems \/ RecvIBuffInfo
    BY <2>1, <2>2, ReadAsks DEF Shielding!Next
  <2>3. CASE RecvUseItem \/ RecvUseItemFailed
    BY <2>1, <2>3, AnswerIsRead DEF Shielding!Next
  <2>4. CASE Serve \/ Refuse
    BY <2>1, <2>4, ServerAnswers DEF Shielding!Next
  <2>5. CASE Pushes \/ (\E s \in Shields : Gain(s)) \/ Second \/ UNCHANGED vars
    BY <2>1, <2>5, OtherStutters
  <2>. QED  BY <2>2, <2>3, <2>4, <2>5 DEF Next, RecvPacket
<1>. QED  BY ShieldInvariant, <1>1, <1>2, PTL DEF Spec, ImplementsExchange, Shielding!Spec
===============================================================================
