----------------------- MODULE ResourceTransfer_proofs -----------------------
(***************************************************************************)
(* Theorems about ResourceTransfer: for any players, amounts, capacities   *)
(* and server, the types hold, a request is never overdrawn, and never     *)
(* displaced by another player's; the bank waits only for answers that are *)
(* due, and miscounts its marches only after a chat message, or a march    *)
(* that left or came home under a bad number.                              *)
(***************************************************************************)
EXTENDS ResourceTransfer, SequenceTheorems, TLAPS

\* The invariant: remaining is a natural only because no march takes more than
\* what remains, and names sent to the server are names of players.
IInv == TypeOK /\ Accounted /\ LookupTarget

LEMMA SpendableNat ==
  ASSUME TypeOK, NEW k \in Kinds
  PROVE  Spendable(k) \in Nat
BY TransferAssumption DEF TypeOK, Spendable

\* A march is never larger than what remains of the request.
LEMMA AmountBound ==
  ASSUME TypeOK
  PROVE  /\ CalculateTransferAmount \in Nat
         /\ CalculateTransferAmount <= transfer.remaining
<1>1. /\ Spendable(transfer.kind) \in Nat
      /\ transfer.remaining \in Nat
      /\ supply_capacity \in Nat
  BY SpendableNat DEF TypeOK, TransferType
<1>. QED  BY <1>1 DEF CalculateTransferAmount, Least

\* A step that only moves the state machine keeps the three parts.
LEMMA MoveIInv ==
  ASSUME IInv, NEW s \in States, s # "FIND_TARGET",
         transfer' = [transfer EXCEPT !.state = s], ordered' = ordered
  PROVE  transfer' \in TransferType /\ Accounted' /\ LookupTarget'
BY DEF IInv, TypeOK, TransferType, States, Accounted, LookupTarget

LEMMA InitIInv == Init => IInv
<1>. SUFFICES ASSUME Init PROVE IInv
  OBVIOUS
<1>1. TypeOK
  BY TransferAssumption DEF Init, TypeOK, TransferType, OrderType, Zeroed, States
<1>2. Accounted /\ LookupTarget
  BY DEF Init, Accounted, LookupTarget, Zeroed
<1>. QED  BY <1>1, <1>2 DEF IInv

LEMMA CommandIInv ==
  ASSUME IInv, NEW p \in Players, NEW k \in Kinds, NEW a \in Asks, Command(p, k, a)
  PROVE  IInv'
<1>1. a \in Nat
  BY TransferAssumption
<1>2. UNCHANGED <<resources, supply_capacity, stock, lookups, orders, out,
                  greeted>>
  BY DEF Command, serverVars
<1>3. /\ current_marches' \in Nat /\ max_marches' \in Nat /\ commands' \in Nat
      /\ upset' \subseteq {"chat", "order", "homecoming"}
  <2>1. \/ /\ current_marches' = 0 /\ max_marches' = 0
           /\ upset' = upset \cup {"chat"}
        \/ UNCHANGED <<current_marches, max_marches, upset>>
    BY DEF Command, ChatPacket, MailPacket
  <2>2. commands' = commands + 1
    BY DEF Command
  <2>3. current_marches' \in Nat /\ max_marches' \in Nat /\ commands' \in Nat
    BY <2>1, <2>2 DEF IInv, TypeOK
  <2>4. upset' \subseteq {"chat", "order", "homecoming"}
    BY <2>1 DEF IInv, TypeOK
  <2>. QED  BY <2>3, <2>4
<1>4. Current \in TransferType /\ Current.state = "IDLE"
  BY TransferAssumption DEF IInv, TypeOK, TransferType, States, Current, Zeroed
<1>5. /\ transfer' \in TransferType
      /\ ordered' \in Nat
      /\ Accounted'
      /\ LookupTarget'
  <2>1. CASE Accept(p, k, a)
    <3>1. /\ transfer' = [Current EXCEPT !.state = "FIND_TARGET", !.target = p,
                                         !.kind = k, !.amount = a, !.remaining = a]
          /\ ordered' = 0
      BY <2>1 DEF Accept
    <3>2. transfer' \in TransferType
      BY <1>1, <1>4, <3>1 DEF TransferType, States
    <3>3. /\ transfer'.amount = a /\ transfer'.remaining = a /\ transfer'.target = p
      BY <1>4, <3>1 DEF TransferType
    <3>. QED  BY <1>1, <3>1, <3>2, <3>3 DEF Accounted, LookupTarget
  <2>2. CASE Refuse(p, k, a)
    BY <1>4, <2>2 DEF Refuse, IInv, TypeOK, Accounted, LookupTarget, Current, Zeroed
  <2>3. CASE Reject(p)
    BY <2>3 DEF Reject, IInv, TypeOK, Accounted, LookupTarget
  <2>. QED  BY <2>1, <2>2, <2>3 DEF Command
<1>. QED  BY <1>2, <1>3, <1>5 DEF IInv, TypeOK

\* What a tick, or the timer, does to the transfer.
LEMMA TickIInv == IInv /\ (ResourceTransferTick \/ Second) => IInv'
<1>. SUFFICES ASSUME IInv, ResourceTransferTick \/ Second PROVE IInv'
  OBVIOUS
<1>. USE DEF IInv
<1>1. CASE TickFindTarget
  <2>1. lookups' \in Seq(Players)
    BY <1>1 DEF TickFindTarget, Ticks, LookupTarget, TypeOK
  <2>2. transfer' = [transfer EXCEPT !.state = "WAIT_TARGET", !.timeout = LookupWait]
    BY <1>1 DEF TickFindTarget
  <2>3. LookupWait \in 0..LookupWait /\ "WAIT_TARGET" \in States
    BY TransferAssumption DEF States
  <2>4. transfer' \in TransferType
    BY <2>2, <2>3 DEF TypeOK, TransferType
  <2>5. /\ transfer'.remaining = transfer.remaining
        /\ transfer'.amount = transfer.amount
        /\ transfer'.state = "WAIT_TARGET"
        /\ ordered' = ordered
    BY <1>1, <2>2 DEF TickFindTarget, TypeOK, TransferType
  <2>6. Accounted' /\ LookupTarget'
    BY <2>5 DEF Accounted, LookupTarget
  <2>. QED  BY <1>1, <2>1, <2>4, <2>6 DEF TickFindTarget, TypeOK
<1>2. CASE TickWaitTarget
  <2>1. transfer' \in TransferType /\ Accounted' /\ LookupTarget'
    BY <1>2, MoveIInv DEF TickWaitTarget, States
  <2>. QED  BY <1>2, <2>1 DEF TickWaitTarget, TypeOK, serverVars
<1>3. CASE TickNothingToSend
  <2>1. transfer' \in TransferType /\ Accounted' /\ LookupTarget'
    BY <1>3, MoveIInv DEF TickNothingToSend, States
  <2>. QED  BY <1>3, <2>1 DEF TickNothingToSend, TypeOK, serverVars
<1>4. CASE TickSendMarch
  <2>. DEFINE amount == CalculateTransferAmount
  <2>1. amount \in Nat /\ amount <= transfer.remaining
    BY AmountBound
  <2>2. /\ transfer' = [transfer EXCEPT !.state = "WAIT_MARCH",
                                        !.remaining = transfer.remaining - amount]
        /\ ordered' = ordered + amount
        /\ orders' = Append(orders, [place |-> transfer.place,
                                     kind |-> transfer.kind, amount |-> amount])
        /\ UNCHANGED <<resources, current_marches, max_marches, supply_capacity,
                       commands, upset, stock, lookups, out, greeted>>
    BY <1>4 DEF TickSendMarch, SendResource
  <2>. HIDE DEF amount
  <2>3. /\ transfer.remaining \in Nat /\ transfer.amount \in Nat
        /\ ordered \in Nat /\ transfer.place \in Players \cup {NoOne}
        /\ transfer.kind \in Kinds
    BY DEF TypeOK, TransferType
  <2>4. orders' \in Seq(OrderType)
    BY <2>1, <2>2, <2>3 DEF TypeOK, OrderType
  <2>5. transfer' \in TransferType
    <3>1. transfer.remaining - amount \in Nat /\ "WAIT_MARCH" \in States
      BY <2>1, <2>3 DEF States
    <3>2. transfer \in TransferType
      BY DEF TypeOK
    <3>. HIDE DEF IInv
    <3>. QED  BY <2>2, <3>1, <3>2 DEF TransferType
  <2>6. TypeOK'
    BY <2>1, <2>2, <2>3, <2>4, <2>5 DEF TypeOK
  <2>7. /\ transfer'.remaining = transfer.remaining - amount
        /\ transfer'.amount = transfer.amount
        /\ transfer'.state = "WAIT_MARCH"
    BY <2>2 DEF TypeOK, TransferType
  <2>. QED  BY <2>1, <2>2, <2>3, <2>6, <2>7 DEF Accounted, LookupTarget
<1>5. CASE TickEnd
  <2>1. transfer' \in TransferType /\ Accounted' /\ LookupTarget'
    BY <1>5, MoveIInv DEF TickEnd, States
  <2>. QED  BY <1>5, <2>1 DEF TickEnd, TypeOK, serverVars
<1>6. CASE Second
  <2>1. transfer.timeout - 1 \in 0..LookupWait
    <3>1. transfer.timeout \in 0..LookupWait /\ transfer.timeout > 0
      BY <1>6 DEF Second, TypeOK, TransferType
    <3>2. LookupWait \in Nat
      BY TransferAssumption
    <3>. HIDE DEF IInv
    <3>. QED  BY <3>1, <3>2
  <2>2. transfer' = [transfer EXCEPT !.timeout = transfer.timeout - 1]
    BY <1>6 DEF Second
  <2>3. transfer' \in TransferType
    BY <2>1, <2>2 DEF TypeOK, TransferType
  <2>4. /\ transfer'.remaining = transfer.remaining
        /\ transfer'.amount = transfer.amount
        /\ transfer'.state = transfer.state
        /\ transfer'.target = transfer.target
        /\ ordered' = ordered
    BY <1>6, <2>2 DEF Second, TypeOK, TransferType
  <2>5. Accounted' /\ LookupTarget'
    BY <2>4 DEF Accounted, LookupTarget
  <2>. QED  BY <1>6, <2>3, <2>5 DEF Second, TypeOK, serverVars
<1>. QED  BY <1>1, <1>2, <1>3, <1>4, <1>5, <1>6 DEF ResourceTransferTick

\* Answers about castles and marches, whenever they come.
LEMMA AnswerIInv ==
  IInv /\ (RecvAllyPoint \/ RecvSHelp \/ RecvSHelpRefused \/ RecvSHelpUncounted
             \/ RecvHelp_Home \/ RecvHelp_HomeBad) => IInv'
<1>. SUFFICES ASSUME IInv,
                     RecvAllyPoint \/ RecvSHelp \/ RecvSHelpRefused
                       \/ RecvSHelpUncounted \/ RecvHelp_Home \/ RecvHelp_HomeBad
              PROVE  IInv'
  OBVIOUS
<1>. USE DEF IInv
<1>1. CASE RecvAllyPoint
  <2>1. lookups \in Seq(Players) /\ lookups # <<>> /\ lookups' = Tail(lookups)
    BY <1>1 DEF RecvAllyPoint, TypeOK
  <2>2. Head(lookups) \in Players /\ lookups' \in Seq(Players)
    BY <2>1, HeadTailProperties
  <2>3. transfer' \in TransferType /\ Accounted' /\ LookupTarget'
    BY <1>1, <2>2
       DEF RecvAllyPoint, TypeOK, TransferType, States, Accounted, LookupTarget
  <2>. QED  BY <1>1, <2>2, <2>3 DEF RecvAllyPoint, TypeOK
<1>2. CASE RecvSHelp
  <2>1. orders \in Seq(OrderType) /\ orders # <<>> /\ orders' = Tail(orders)
    BY <1>2 DEF RecvSHelp, TypeOK
  <2>2. Head(orders) \in OrderType /\ orders' \in Seq(OrderType)
    BY <2>1, HeadTailProperties
  <2>3. /\ Head(orders).kind \in Kinds /\ Head(orders).amount \in Nat
        /\ Head(orders).amount <= stock[Head(orders).kind]
        /\ stock' = [stock EXCEPT ![Head(orders).kind] =
                       stock[Head(orders).kind] - Head(orders).amount]
    BY <1>2, <2>2 DEF RecvSHelp, OrderType
  <2>4. stock' \in [Kinds -> Nat]
    BY <2>3 DEF TypeOK
  <2>5. transfer' \in TransferType /\ Accounted' /\ LookupTarget'
    BY <1>2, MoveIInv DEF RecvSHelp, States
  <2>6. current_marches' \in Nat /\ out' \in Nat
    BY <1>2 DEF RecvSHelp, TypeOK
  <2>. QED  BY <1>2, <2>2, <2>4, <2>5, <2>6 DEF RecvSHelp, TypeOK
<1>3. CASE RecvSHelpRefused
  <2>1. orders \in Seq(OrderType) /\ orders # <<>> /\ orders' = Tail(orders)
    BY <1>3 DEF RecvSHelpRefused, TypeOK
  <2>2. orders' \in Seq(OrderType)
    BY <2>1, HeadTailProperties
  <2>3. transfer' \in TransferType /\ Accounted' /\ LookupTarget'
    BY <1>3, MoveIInv DEF RecvSHelpRefused, States
  <2>. QED  BY <1>3, <2>2, <2>3 DEF RecvSHelpRefused, TypeOK
<1>4. CASE RecvHelp_Home
  <2>1. transfer' \in TransferType /\ Accounted' /\ LookupTarget'
    BY <1>4, MoveIInv DEF RecvHelp_Home, States
  <2>2. current_marches' \in Nat /\ out' \in Nat
    BY <1>4 DEF RecvHelp_Home, MarchBack, TypeOK
  <2>. QED  BY <1>4, <2>1, <2>2 DEF RecvHelp_Home, TypeOK
<1>5. CASE RecvHelp_HomeBad
  <2>1. transfer' \in TransferType /\ Accounted' /\ LookupTarget'
    BY <1>5, MoveIInv DEF RecvHelp_HomeBad, States
  <2>2. out' \in Nat
    BY <1>5 DEF RecvHelp_HomeBad, TypeOK
  <2>. QED  BY <1>5, <2>1, <2>2 DEF RecvHelp_HomeBad, TypeOK
<1>6. CASE RecvSHelpUncounted
  <2>1. orders \in Seq(OrderType) /\ orders # <<>> /\ orders' = Tail(orders)
    BY <1>6 DEF RecvSHelpUncounted, TypeOK
  <2>2. Head(orders) \in OrderType /\ orders' \in Seq(OrderType)
    BY <2>1, HeadTailProperties
  <2>3. /\ Head(orders).kind \in Kinds /\ Head(orders).amount \in Nat
        /\ Head(orders).amount <= stock[Head(orders).kind]
        /\ stock' = [stock EXCEPT ![Head(orders).kind] =
                       stock[Head(orders).kind] - Head(orders).amount]
    BY <1>6, <2>2 DEF RecvSHelpUncounted, OrderType
  <2>4. stock' \in [Kinds -> Nat]
    BY <2>3 DEF TypeOK
  <2>5. transfer' \in TransferType /\ Accounted' /\ LookupTarget'
    BY <1>6, MoveIInv DEF RecvSHelpUncounted, States
  <2>6. out' \in Nat /\ upset' \subseteq {"chat", "order", "homecoming"}
    BY <1>6 DEF RecvSHelpUncounted, TypeOK
  <2>. QED  BY <1>6, <2>2, <2>4, <2>5, <2>6 DEF RecvSHelpUncounted, TypeOK
<1>. QED  BY <1>1, <1>2, <1>3, <1>4, <1>5, <1>6

\* Packets and messages that leave the transfer alone.
LEMMA OtherIInv ==
  IInv /\ (Chatter \/ RecvResources \/ Login \/ UNCHANGED vars) => IInv'
<1>. SUFFICES ASSUME IInv,
                     Chatter \/ RecvResources \/ Login
                       \/ UNCHANGED vars
              PROVE  IInv'
  OBVIOUS
<1>. USE TransferAssumption DEF IInv, TypeOK, Accounted, LookupTarget, serverVars
<1>1. CASE Chatter
  BY <1>1 DEF Chatter, ChatPacket
<1>2. CASE RecvResources
  BY <1>2 DEF RecvResources
<1>3. CASE RecvMarchData
  BY <1>3 DEF RecvMarchData
<1>4. CASE RecvAllBuildData
  BY <1>4 DEF RecvAllBuildData
<1>5. CASE UNCHANGED vars
  BY <1>5 DEF vars, botVars
<1>. QED  BY <1>1, <1>2, <1>3, <1>4, <1>5 DEF Login

\* The invariant holds in every state, whatever the players ask for and
\* whatever the server answers.
THEOREM TransferInvariant == Spec => []IInv
<1>1. IInv /\ [Next]_vars => IInv'
  BY CommandIInv, TickIInv, AnswerIInv, OtherIInv DEF Next
<1>. QED  BY InitIInv, <1>1, PTL DEF Spec

\* The types hold in every state; in particular remaining never wraps.
THEOREM TypeCorrect == Spec => []TypeOK
BY TransferInvariant, PTL DEF IInv

\* A request is never overdrawn: what was ordered for it and what remains add
\* up to what was asked.
THEOREM NeverOverdrawn == Spec => []Accounted
BY TransferInvariant, PTL DEF IInv

\* Only the owner of a request under way can replace it.
LEMMA StepKeepsTarget ==
  ASSUME IInv, [Next]_vars,
         transfer'.target \in Players, transfer'.target # transfer.target
  PROVE  transfer.state = "IDLE"
<1>. USE TransferAssumption DEF IInv, TypeOK
<1>1. ASSUME NEW p \in Players, NEW k \in Kinds, NEW a \in Asks, Command(p, k, a)
      PROVE  transfer.state = "IDLE"
  <2>1. CASE Accept(p, k, a)
    BY <2>1 DEF Accept, Busy, Current, Zeroed
  <2>2. CASE Refuse(p, k, a)
    BY <2>2 DEF Refuse, Current, Zeroed
  <2>3. CASE Reject(p)
    BY <2>3 DEF Reject
  <2>. QED  BY <1>1, <2>1, <2>2, <2>3 DEF Command
<1>2. CASE ResourceTransferTick \/ Second
  <2>1. transfer'.target = transfer.target
    BY <1>2 DEF ResourceTransferTick, TickFindTarget, TickWaitTarget, TickSendMarch,
                TickNothingToSend, TickEnd, Second, TransferType
  <2>. QED  BY <2>1
<1>3. CASE RecvAllyPoint \/ RecvSHelp \/ RecvSHelpRefused \/ RecvSHelpUncounted
  <2>1. transfer'.target = transfer.target
    BY <1>3 DEF RecvAllyPoint, RecvSHelp, RecvSHelpRefused, RecvSHelpUncounted,
                TransferType
  <2>. QED  BY <2>1
<1>4. CASE RecvHelp_Home \/ RecvHelp_HomeBad
  <2>1. transfer'.target = transfer.target
    BY <1>4 DEF RecvHelp_Home, RecvHelp_HomeBad, TransferType
  <2>. QED  BY <2>1
<1>5. CASE Chatter \/ RecvResources \/ Login
  BY <1>5 DEF Chatter, RecvResources, Login, RecvMarchData,
              RecvAllBuildData
<1>6. CASE UNCHANGED vars
  BY <1>6 DEF vars, botVars
<1>. QED  BY <1>1, <1>2, <1>3, <1>4, <1>5, <1>6 DEF Next

\* A request under way is never displaced by another player's ("Different
\* player -> reject", command.c).
THEOREM NeverDisplaced == Spec => NotDisplaced
<1>1. IInv /\ [Next]_vars
        => [transfer'.target \in Players /\ transfer'.target # transfer.target
              => transfer.state = "IDLE"]_vars
  BY StepKeepsTarget
<1>. QED  BY TransferInvariant, <1>1, PTL DEF Spec, NotDisplaced
-----------------------------------------------------------------------------
\* The marches.  Before RecvMarchData the bot knows of none it may use, and so
\* orders none: what it sets current_marches to then is the number out.
MarchInv ==
  /\ WaitAnswered
  /\ MarchesCounted
  /\ "marches" \notin greeted => max_marches = 0 /\ out = 0 /\ orders = <<>>

LEMMA CommandMarches ==
  ASSUME IInv, MarchInv, NEW p \in Players, NEW k \in Kinds, NEW a \in Asks,
         Command(p, k, a)
  PROVE  MarchInv'
<1>1. UNCHANGED <<orders, out, greeted>>
  BY DEF Command, serverVars
<1>2. \/ current_marches' = 0 /\ max_marches' = 0 /\ upset' = upset \cup {"chat"}
      \/ UNCHANGED <<current_marches, max_marches, upset>>
  BY DEF Command, ChatPacket, MailPacket
<1>3. max_marches' \in {0, max_marches}
  BY DEF Command, ChatPacket, MailPacket
<1>4. transfer'.state = "WAIT_MARCH" => transfer.state = "WAIT_MARCH"
  <2>1. CASE Accept(p, k, a)
    BY <2>1 DEF Accept, Current, Zeroed, IInv, TypeOK, TransferType
  <2>2. CASE Refuse(p, k, a)
    BY <2>2 DEF Refuse, Current, Zeroed
  <2>3. CASE Reject(p)
    BY <2>3 DEF Reject
  <2>. QED  BY <2>1, <2>2, <2>3 DEF Command
<1>5. MarchesCounted'
  <2>1. out \in Nat /\ current_marches \in Nat
    BY DEF IInv, TypeOK
  <2>. QED  BY <1>1, <1>2, <2>1 DEF MarchInv, MarchesCounted
<1>. QED  BY <1>1, <1>3, <1>4, <1>5 DEF MarchInv, WaitAnswered

LEMMA TickMarches == IInv /\ MarchInv /\ (ResourceTransferTick \/ Second) => MarchInv'
<1>. SUFFICES ASSUME IInv, MarchInv, ResourceTransferTick \/ Second PROVE MarchInv'
  OBVIOUS
<1>1. CASE TickSendMarch
  <2>1. orders' # <<>>
    BY <1>1 DEF TickSendMarch, SendResource, IInv, TypeOK
  <2>2. "marches" \in greeted
    BY <1>1 DEF TickSendMarch, FreeMarch, MarchInv, IInv, TypeOK
  <2>3. UNCHANGED <<current_marches, out, greeted, upset>>
    BY <1>1 DEF TickSendMarch
  <2>. QED
    BY <2>1, <2>2, <2>3 DEF MarchInv, WaitAnswered, MarchesCounted
<1>2. ASSUME TickFindTarget \/ TickWaitTarget \/ TickNothingToSend \/ TickEnd \/ Second
      PROVE  MarchInv'
  <2>1. UNCHANGED <<current_marches, max_marches, orders, out, greeted, upset>>
    BY <1>2 DEF TickFindTarget, TickWaitTarget, TickNothingToSend, TickEnd, Second,
                serverVars
  <2>2. transfer'.state # "WAIT_MARCH"
    BY <1>2 DEF TickFindTarget, TickWaitTarget, TickNothingToSend, TickEnd, Second,
                IInv, TypeOK, TransferType
  <2>. QED  BY <2>1, <2>2 DEF MarchInv, WaitAnswered, MarchesCounted
<1>. QED  BY <1>1, <1>2 DEF ResourceTransferTick

\* An answer always ends the wait, and only a march that goes or comes counts.
LEMMA AnswerMarches ==
  IInv /\ MarchInv
    /\ (RecvAllyPoint \/ RecvSHelp \/ RecvSHelpRefused \/ RecvSHelpUncounted
          \/ RecvHelp_Home \/ RecvHelp_HomeBad)
  => MarchInv'
<1>. SUFFICES ASSUME IInv, MarchInv,
                     RecvAllyPoint \/ RecvSHelp \/ RecvSHelpRefused
                       \/ RecvSHelpUncounted \/ RecvHelp_Home \/ RecvHelp_HomeBad
              PROVE  MarchInv'
  OBVIOUS
<1>. USE DEF IInv, TypeOK, MarchInv, WaitAnswered, MarchesCounted
<1>1. CASE RecvAllyPoint
  BY <1>1 DEF RecvAllyPoint, TransferType
<1>2. CASE RecvSHelp
  <2>1. transfer'.state = "SEND_MARCH"
    BY <1>2 DEF RecvSHelp, TransferType
  <2>2. "marches" \in greeted
    BY <1>2 DEF RecvSHelp
  <2>3. /\ out' = out + 1 /\ current_marches' = current_marches + 1
        /\ UNCHANGED <<greeted, upset>>
    BY <1>2 DEF RecvSHelp
  <2>. QED  BY <2>1, <2>2, <2>3
<1>3. CASE RecvSHelpRefused
  <2>1. transfer'.state = "FAILED"
    BY <1>3 DEF RecvSHelpRefused, TransferType
  <2>2. "marches" \in greeted
    BY <1>3 DEF RecvSHelpRefused
  <2>. QED  BY <1>3, <2>1, <2>2 DEF RecvSHelpRefused
<1>4. CASE RecvHelp_Home
  <2>1. transfer'.state # "WAIT_MARCH"
    BY <1>4 DEF RecvHelp_Home, TransferType
  <2>2. "marches" \in greeted
    BY <1>4 DEF RecvHelp_Home
  <2>3. /\ out > 0 /\ out' = out - 1 /\ current_marches' = MarchBack
        /\ UNCHANGED <<greeted, upset>>
    BY <1>4 DEF RecvHelp_Home
  <2>. QED  BY <2>1, <2>2, <2>3 DEF MarchBack
<1>5. CASE RecvHelp_HomeBad
  <2>1. transfer'.state = "FAILED"
    BY <1>5 DEF RecvHelp_HomeBad, TransferType
  <2>2. "marches" \in greeted
    BY <1>5 DEF RecvHelp_HomeBad
  <2>3. /\ out > 0 /\ out' = out - 1
        /\ UNCHANGED <<current_marches, greeted>>
        /\ upset' = upset \cup {"homecoming"}
    BY <1>5 DEF RecvHelp_HomeBad
  <2>4. "chat" \in upset' <=> "chat" \in upset
    BY <2>3
  <2>5. "order" \in upset' <=> "order" \in upset
    BY <2>3
  <2>6. "homecoming" \in upset'
    BY <2>3
  <2>7. upset' \cap {"chat", "order"} = {} => upset \cap {"chat", "order"} = {}
    BY <2>4, <2>5
  <2>. QED  BY <2>1, <2>2, <2>3, <2>6, <2>7
<1>6. CASE RecvSHelpUncounted
  <2>1. transfer'.state = "FAILED"
    BY <1>6 DEF RecvSHelpUncounted, TransferType
  <2>2. "marches" \in greeted
    BY <1>6 DEF RecvSHelpUncounted
  <2>3. /\ out' = out + 1
        /\ UNCHANGED <<current_marches, greeted>>
        /\ upset' = upset \cup {"order"}
    BY <1>6 DEF RecvSHelpUncounted
  <2>4. "order" \in upset' /\ ("homecoming" \in upset' <=> "homecoming" \in upset)
    BY <2>3
  <2>5. upset' \cap {"chat", "order"} # {}
    BY <2>4
  <2>. QED  BY <2>1, <2>2, <2>3, <2>4, <2>5
<1>. QED  BY <1>1, <1>2, <1>3, <1>4, <1>5, <1>6

LEMMA OtherMarches ==
  IInv /\ MarchInv /\ (Chatter \/ RecvResources \/ Login \/ UNCHANGED vars) => MarchInv'
<1>. SUFFICES ASSUME IInv, MarchInv, Chatter \/ RecvResources \/ Login \/ UNCHANGED vars
              PROVE  MarchInv'
  OBVIOUS
<1>. USE DEF MarchInv, WaitAnswered, MarchesCounted, IInv, TypeOK, serverVars
<1>1. CASE Chatter
  BY <1>1 DEF Chatter, ChatPacket
<1>2. CASE RecvResources
  BY <1>2 DEF RecvResources
<1>3. CASE RecvMarchData
  BY <1>3 DEF RecvMarchData
<1>4. CASE RecvAllBuildData
  BY <1>4 DEF RecvAllBuildData
<1>5. CASE UNCHANGED vars
  BY <1>5 DEF vars, botVars
<1>. QED  BY <1>1, <1>2, <1>3, <1>4, <1>5 DEF Login

LEMMA MarchInvariant == Spec => []MarchInv
<1>1. Init => MarchInv
  BY DEF Init, MarchInv, WaitAnswered, MarchesCounted, Zeroed
<1>2. IInv /\ MarchInv /\ [Next]_vars => MarchInv'
  BY CommandMarches, TickMarches, AnswerMarches, OtherMarches DEF Next
<1>. QED  BY <1>1, <1>2, TransferInvariant, PTL DEF Spec

\* The bank waits for a march order only while one is unanswered
\* (TRANSFER_WAIT_MARCH has no timeout).
THEOREM WaitsForAnswer == Spec => []WaitAnswered
BY MarchInvariant, PTL DEF MarchInv

\* Only a chat message and an order accepted under a bad march number make
\* current_marches (RecvSHelp, RecvHelp_Home) less than the marches on the road, and
\* only a homecoming under a bad number makes it more.
THEOREM CountsMarches == Spec => []MarchesCounted
BY MarchInvariant, PTL DEF MarchInv
==============================================================================
