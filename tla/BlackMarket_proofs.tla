-------------------------- MODULE BlackMarket_proofs --------------------------
(***************************************************************************)
(* Theorems about BlackMarket: for any slots, offers, reserves and server, *)
(* the bot has at most one order open, gives none before it knows the      *)
(* stock, and trades as Exchange says.                                     *)
(***************************************************************************)
EXTENDS BlackMarket, SequenceTheorems, FiniteSetTheorems, TLAPS

\* What every action that reads a packet does to the wire.
LEMMA ReceiveFacts ==
  ASSUME IInv, NEW type, Receive(type)
  PROVE  /\ Head(wire) \in PacketType /\ Head(wire).type = type
         /\ wire' \in Seq(PacketType)
         /\ wire # <<>> /\ Len(wire') = Len(wire) - 1
         /\ Head(wire) = wire[1]
         /\ \A n \in DOMAIN wire' : wire'[n] = wire[n + 1] /\ n + 1 \in DOMAIN wire
<1>1. wire \in Seq(PacketType) /\ wire # <<>> /\ wire' = Tail(wire)
  BY DEF IInv, TypeOK, Receive
<1>2. /\ Head(wire) \in PacketType /\ wire' \in Seq(PacketType)
      /\ Len(wire') = Len(wire) - 1
      /\ \A n \in 1..Len(wire') : wire'[n] = wire[n + 1]
  BY <1>1, HeadTailProperties
<1>3. DOMAIN wire' = 1..Len(wire') /\ DOMAIN wire = 1..Len(wire) /\ Len(wire) \in Nat
  BY <1>1, <1>2, LenProperties
<1>. QED  BY <1>1, <1>2, <1>3 DEF Receive

LEMMA InitIInv == Init => IInv
<1>. SUFFICES ASSUME Init PROVE IInv
  OBVIOUS
<1>1. TypeOK
  <2>1. items \in [Slots -> OfferType] /\ offers \in [Slots -> OfferType]
    BY MarketAssumption DEF Init, NoOffer, OfferType
  <2>2. resources \in [Kinds -> Nat] /\ stock \in [Kinds -> Nat]
    BY MarketAssumption DEF Init
  <2>3. requests \in Seq(RequestType) /\ wire \in Seq(PacketType)
    BY DEF Init
  <2>4. auto_trade \in BOOLEAN
    BY MarketAssumption DEF Init
  <2>. QED  BY <2>1, <2>2, <2>3, <2>4 DEF Init, TypeOK
<1>2. OneOrder /\ PendingIsOpen /\ KnowsStock /\ AnswerKnowsStock
  BY DEF Init, OneOrder, PendingIsOpen, KnowsStock, AnswerKnowsStock, Ordered, Answered
<1>. QED  BY <1>1, <1>2 DEF IInv

\* The part of the invariant that is about orders.
OrderInv == OneOrder /\ PendingIsOpen /\ KnowsStock /\ AnswerKnowsStock

\* An answer that is read leaves no order open, whatever the bot believed.
LEMMA AnswerReadClosesOrder ==
  ASSUME IInv, NEW type \in {"Bought", "Refused"}, Receive(type)
  PROVE  /\ \A n \in DOMAIN requests : ~Ordered(n)
         /\ \A n \in DOMAIN wire' : ~Answered(n)'
         /\ resource_loaded \/ ~auto_trade
<1>. USE DEF IsAnswer, Ordered, Answered
<1>1. 1 \in DOMAIN wire /\ Answered(1)
  BY ReceiveFacts, LenProperties DEF IInv, TypeOK
<1>2. \A n \in DOMAIN requests : ~Ordered(n)
  BY <1>1 DEF IInv, OneOrder
<1>3. ASSUME NEW n \in DOMAIN wire', Answered(n)' PROVE FALSE
  <2>1. n \in Nat /\ n >= 1 /\ n + 1 \in DOMAIN wire /\ Answered(n + 1)
    BY <1>3, ReceiveFacts, LenProperties
  <2>. QED  BY <1>1, <2>1 DEF IInv, OneOrder
<1>4. resource_loaded \/ ~auto_trade
  BY <1>1 DEF IInv, AnswerKnowsStock
<1>. QED  BY <1>2, <1>3, <1>4

\* Reading a packet that is no answer keeps what is said of the wire.
LEMMA OtherReadKeepsOrder ==
  ASSUME IInv, NEW type \in {"Data", "Resources", "RefreshResources"}, Receive(type),
         requests' = requests
  PROVE  /\ OneOrder'
         /\ (\A n \in DOMAIN wire : ~Answered(n)) => \A n \in DOMAIN wire' : ~Answered(n)'
         /\ (\E n \in DOMAIN wire' : Answered(n)') => \E n \in DOMAIN wire : Answered(n)
<1>. USE DEF IsAnswer, Ordered, Answered
<1>1. \A n \in DOMAIN wire' : n \in Nat /\ n + 1 \in DOMAIN wire /\ wire'[n] = wire[n + 1]
  BY ReceiveFacts, LenProperties
<1>2. \A m, n \in DOMAIN wire' : Answered(m)' /\ Answered(n)' => m = n
  BY <1>1 DEF IInv, OneOrder
<1>. QED  BY <1>1, <1>2 DEF IInv, OneOrder

-----------------------------------------------------------------------------
\* What an evaluation may come to: nothing, or one order more.
Outcome(pending) ==
  \/ buy_pending' = pending /\ requests' = requests
  \/ /\ auto_trade /\ ~pending
     /\ buy_pending' = TRUE
     /\ \E i \in Slots, g \in Nat : requests' = Append(requests, Buy(i, g))

LEMMA EvaluateOutcome ==
  ASSUME NEW pending, NEW status, NEW its, NEW res, NEW g \in Nat,
         EvaluateBlackMarket(pending, status, its, res, g)
  PROVE  Outcome(pending)
BY DEF EvaluateBlackMarket, Outcome, Tradable

LEMMA OutcomeTypes ==
  ASSUME IInv, NEW pending \in BOOLEAN, Outcome(pending)
  PROVE  requests' \in Seq(RequestType) /\ buy_pending' \in BOOLEAN
<1>1. ASSUME NEW i \in Slots, NEW g \in Nat PROVE Buy(i, g) \in RequestType
  BY DEF Buy, RequestType
<1>2. requests \in Seq(RequestType)
  BY DEF IInv, TypeOK
<1>3. CASE buy_pending' = pending /\ requests' = requests
  BY <1>2, <1>3
<1>4. ASSUME NEW i \in Slots, NEW g \in Nat, requests' = Append(requests, Buy(i, g))
      PROVE  requests' \in Seq(RequestType)
  BY <1>1, <1>2, <1>4, AppendProperties
<1>. QED  BY <1>2, <1>3, <1>4 DEF Outcome

\* An evaluation keeps the order invariant if what it believes is true: an
\* order is pending unless none is open, and the stock is known.
LEMMA OutcomeKeepsOrder ==
  ASSUME IInv, NEW pending \in BOOLEAN, Outcome(pending),
         wire' \in Seq(PacketType), auto_trade' = auto_trade,
         \A m, n \in DOMAIN wire' : Answered(m)' /\ Answered(n)' => m = n,
         ~ \E m \in DOMAIN requests, n \in DOMAIN wire' : Ordered(m) /\ Answered(n)',
         (auto_trade /\ ~pending) =>
            /\ \A n \in DOMAIN requests : ~Ordered(n)
            /\ \A n \in DOMAIN wire' : ~Answered(n)'
            /\ requests' # requests => resource_loaded',
         (\E n \in DOMAIN requests : Ordered(n)) => (resource_loaded' \/ ~auto_trade),
         (\E n \in DOMAIN wire' : Answered(n)') => (resource_loaded' \/ ~auto_trade)
  PROVE  OrderInv'
<1>. USE DEF OrderInv, OneOrder, PendingIsOpen, KnowsStock, AnswerKnowsStock, Ordered
<1>1. CASE buy_pending' = pending /\ requests' = requests
  BY <1>1 DEF IInv
<1>2. ASSUME auto_trade, ~pending, buy_pending' = TRUE,
             NEW i \in Slots, NEW g \in Nat, requests' = Append(requests, Buy(i, g))
      PROVE  OrderInv'
  <2>1. /\ requests \in Seq(RequestType)
        /\ DOMAIN requests = 1..Len(requests) /\ Len(requests) \in Nat
    BY LenProperties DEF IInv, TypeOK
  <2>2. Buy(i, g) \in RequestType
    BY DEF Buy, RequestType
  <2>. DEFINE longer == Append(requests, Buy(i, g))
  <2>3. /\ longer \in Seq(RequestType) /\ Len(longer) = Len(requests) + 1
        /\ \A n \in 1..Len(requests) : longer[n] = requests[n]
    BY <2>1, <2>2, AppendProperties
  <2>4. DOMAIN longer = 1..(Len(requests) + 1)
    BY <2>3, LenProperties
  <2>5. longer # requests
    <3>. HIDE DEF longer
    <3>. QED  BY <2>1, <2>3
  <2>6. requests' = longer
    BY <1>2
  <2>7. \A n \in DOMAIN requests : ~Ordered(n)
    BY <1>2
  <2>. HIDE DEF longer
  <2>8. \A n \in DOMAIN requests' : Ordered(n)' => n = Len(requests) + 1
    BY <2>1, <2>3, <2>4, <2>6, <2>7
  <2>. QED  BY <1>2, <2>5, <2>6, <2>8
<1>. QED  BY <1>1, <1>2 DEF Outcome

-----------------------------------------------------------------------------
\* The packets

LEMMA DataIInv == IInv /\ RecvBlackMarket_Data => IInv'
<1>. SUFFICES ASSUME IInv, RecvBlackMarket_Data PROVE IInv'
  OBVIOUS
<1>1. /\ Receive("Data")
      /\ trade_status' = Head(wire).sold /\ items' = Head(wire).offers
      /\ held' = Head(wire).gen /\ loaded' = TRUE
      /\ UNCHANGED <<auto_trade, resource_loaded, resources, gen, sold, offers, stock>>
  BY DEF RecvBlackMarket_Data, stockVars, serverVars
<1>2. /\ Head(wire) \in PacketType /\ Head(wire).type = "Data"
      /\ wire' \in Seq(PacketType)
  BY <1>1, ReceiveFacts
<1>3. /\ Head(wire).sold \subseteq Slots /\ Head(wire).gen \in Nat
      /\ Head(wire).offers \in [Slots -> OfferType]
  BY <1>2 DEF PacketType
<1>4. buy_pending \in BOOLEAN
  BY DEF IInv, TypeOK
<1>5. /\ Outcome(buy_pending)
      /\ requests' # requests => resource_loaded
  <2>1. CASE resource_loaded
    BY <2>1, <1>3, EvaluateOutcome DEF RecvBlackMarket_Data
  <2>2. CASE ~resource_loaded
    BY <2>2 DEF RecvBlackMarket_Data, Outcome
  <2>. QED  BY <2>1, <2>2
<1>6. TypeOK'
  BY <1>1, <1>2, <1>3, <1>4, <1>5, OutcomeTypes DEF IInv, TypeOK
<1>7. \A n \in DOMAIN wire' : n + 1 \in DOMAIN wire /\ wire'[n] = wire[n + 1] /\ n \in Nat
  BY <1>1, <1>2, ReceiveFacts, LenProperties
<1>8. OrderInv'
  BY <1>1, <1>2, <1>4, <1>5, <1>7, OutcomeKeepsOrder
     DEF IInv, OneOrder, PendingIsOpen, KnowsStock, AnswerKnowsStock, Answered, IsAnswer
<1>. QED  BY <1>6, <1>8 DEF IInv, OrderInv

LEMMA ResourcesIInv == IInv /\ RecvResources => IInv'
<1>. SUFFICES ASSUME IInv, RecvResources PROVE IInv'
  OBVIOUS
<1>1. /\ Receive("Resources")
      /\ resources' = Head(wire).stock /\ resource_loaded' = TRUE
      /\ UNCHANGED <<loaded, trade_status, items, auto_trade, held, gen, sold, offers,
                     stock>>
  BY DEF RecvResources, serverVars
<1>2. /\ Head(wire) \in PacketType /\ Head(wire).type = "Resources"
      /\ wire' \in Seq(PacketType)
  BY <1>1, ReceiveFacts
<1>3. Head(wire).stock \in [Kinds -> Nat]
  BY <1>2 DEF PacketType
<1>4. buy_pending \in BOOLEAN /\ held \in Nat
  BY DEF IInv, TypeOK
<1>5. Outcome(buy_pending)
  <2>1. CASE loaded
    BY <2>1, <1>4, EvaluateOutcome DEF RecvResources
  <2>2. CASE ~loaded
    BY <2>2 DEF RecvResources, Outcome
  <2>. QED  BY <2>1, <2>2
<1>6. TypeOK'
  BY <1>1, <1>2, <1>3, <1>4, <1>5, OutcomeTypes DEF IInv, TypeOK
<1>7. \A n \in DOMAIN wire' : n + 1 \in DOMAIN wire /\ wire'[n] = wire[n + 1] /\ n \in Nat
  BY <1>1, <1>2, ReceiveFacts, LenProperties
<1>8. OrderInv'
  BY <1>1, <1>2, <1>4, <1>5, <1>7, OutcomeKeepsOrder
     DEF IInv, OneOrder, PendingIsOpen, Answered, IsAnswer
<1>. QED  BY <1>6, <1>8 DEF IInv, OrderInv

LEMMA BoughtIInv == IInv /\ RecvBlackMarket_Bought => IInv'
<1>. SUFFICES ASSUME IInv, RecvBlackMarket_Bought PROVE IInv'
  OBVIOUS
<1>1. /\ Receive("Bought") /\ trade_status' = Head(wire).sold
      /\ UNCHANGED <<loaded, items, auto_trade, held, resource_loaded, resources, gen,
                     sold, offers, stock>>
  BY DEF RecvBlackMarket_Bought, stockVars, serverVars
<1>2. /\ Head(wire) \in PacketType /\ Head(wire).type = "Bought"
      /\ wire' \in Seq(PacketType)
  BY <1>1, ReceiveFacts
<1>3. Head(wire).sold \subseteq Slots /\ held \in Nat
  BY <1>2 DEF PacketType, IInv, TypeOK
<1>4. Outcome(FALSE)
  <2>1. CASE loaded
    BY <2>1, <1>3, EvaluateOutcome DEF RecvBlackMarket_Bought
  <2>2. CASE ~loaded
    BY <2>2 DEF RecvBlackMarket_Bought, Outcome
  <2>. QED  BY <2>1, <2>2
<1>5. TypeOK'
  BY <1>1, <1>2, <1>3, <1>4, OutcomeTypes DEF IInv, TypeOK
<1>6. /\ \A n \in DOMAIN requests : ~Ordered(n)
      /\ \A n \in DOMAIN wire' : ~Answered(n)'
      /\ resource_loaded \/ ~auto_trade
  BY <1>1, AnswerReadClosesOrder
<1>7. OrderInv'
  BY <1>1, <1>2, <1>4, <1>6, OutcomeKeepsOrder
<1>. QED  BY <1>5, <1>7 DEF IInv, OrderInv

LEMMA RefusedIInv == IInv /\ RecvBlackMarket_Refused => IInv'
<1>. SUFFICES ASSUME IInv, RecvBlackMarket_Refused PROVE IInv'
  OBVIOUS
<1>1. /\ Receive("Refused") /\ buy_pending' = FALSE
      /\ UNCHANGED <<loaded, trade_status, items, auto_trade, held, requests,
                     resource_loaded, resources, gen, sold, offers, stock>>
  BY DEF RecvBlackMarket_Refused, stockVars, serverVars
<1>2. wire' \in Seq(PacketType)
  BY <1>1, ReceiveFacts
<1>3. /\ \A n \in DOMAIN requests : ~Ordered(n)
      /\ \A n \in DOMAIN wire' : ~Answered(n)'
  BY <1>1, AnswerReadClosesOrder
<1>4. TypeOK'
  BY <1>1, <1>2 DEF IInv, TypeOK
<1>5. OrderInv'
  BY <1>1, <1>3
     DEF OrderInv, OneOrder, PendingIsOpen, KnowsStock, AnswerKnowsStock, Ordered
<1>. QED  BY <1>4, <1>5 DEF IInv, OrderInv

LEMMA RefreshIInv == IInv /\ RecvRefreshResources => IInv'
<1>. SUFFICES ASSUME IInv, RecvRefreshResources PROVE IInv'
  OBVIOUS
<1>1. /\ Receive("RefreshResources") /\ resources' = Head(wire).stock
      /\ UNCHANGED <<loaded, buy_pending, trade_status, items, auto_trade, held,
                     requests, resource_loaded, gen, sold, offers, stock>>
  BY DEF RecvRefreshResources, marketVars, serverVars
<1>2. /\ Head(wire) \in PacketType /\ Head(wire).type = "RefreshResources"
      /\ wire' \in Seq(PacketType)
  BY <1>1, ReceiveFacts
<1>3. Head(wire).stock \in [Kinds -> Nat]
  BY <1>2 DEF PacketType
<1>4. TypeOK'
  BY <1>1, <1>2, <1>3 DEF IInv, TypeOK
<1>5. OrderInv'
  BY <1>1, OtherReadKeepsOrder
     DEF IInv, OrderInv, PendingIsOpen, KnowsStock, AnswerKnowsStock, Ordered
<1>. QED  BY <1>4, <1>5 DEF IInv, OrderInv

-----------------------------------------------------------------------------
\* The server

\* What a packet put on the wire does.
LEMMA SendFacts ==
  ASSUME IInv, NEW m \in PacketType, Send(m)
  PROVE  /\ wire' \in Seq(PacketType)
         /\ DOMAIN wire = 1..Len(wire) /\ Len(wire) \in Nat
         /\ DOMAIN wire' = 1..(Len(wire) + 1)
         /\ \A n \in DOMAIN wire : wire'[n] = wire[n]
         /\ wire'[Len(wire) + 1] = m
<1>1. wire \in Seq(PacketType)
  BY DEF IInv, TypeOK
<1>. QED  BY <1>1, AppendProperties, LenProperties DEF Send

\* What a request taken by the server leaves.
LEMMA RequestFacts ==
  ASSUME IInv, NEW type, Request(type)
  PROVE  /\ Head(requests) \in RequestType
         /\ requests' \in Seq(RequestType)
         /\ 1 \in DOMAIN requests /\ requests[1].type = type
         /\ \A n \in DOMAIN requests' :
              n \in Nat /\ n >= 1 /\ n + 1 \in DOMAIN requests
                /\ requests'[n] = requests[n + 1]
<1>1. requests \in Seq(RequestType) /\ requests # <<>> /\ requests' = Tail(requests)
  BY DEF IInv, TypeOK, Request
<1>2. /\ Head(requests) \in RequestType /\ requests' \in Seq(RequestType)
      /\ Len(requests') = Len(requests) - 1
      /\ \A n \in 1..Len(requests') : requests'[n] = requests[n + 1]
  BY <1>1, HeadTailProperties
<1>3. /\ DOMAIN requests' = 1..Len(requests') /\ DOMAIN requests = 1..Len(requests)
      /\ Len(requests) \in Nat /\ Head(requests) = requests[1]
  BY <1>1, <1>2, LenProperties
<1>. QED  BY <1>1, <1>2, <1>3 DEF Request

\* The server turns the one open order into the one answer on the wire.
LEMMA AnswerKeepsOrder ==
  ASSUME IInv, Request("Buy"), NEW m \in PacketType, IsAnswer(m), Send(m),
         UNCHANGED <<auto_trade, buy_pending, resource_loaded>>
  PROVE  OrderInv'
<1>. USE DEF Ordered, Answered
<1>1. 1 \in DOMAIN requests /\ Ordered(1)
  BY RequestFacts
<1>2. \A n \in DOMAIN wire : ~Answered(n)
  BY <1>1 DEF IInv, OneOrder
<1>3. ASSUME NEW n \in DOMAIN requests', Ordered(n)' PROVE FALSE
  <2>1. n \in Nat /\ n >= 1 /\ n + 1 \in DOMAIN requests /\ Ordered(n + 1)
    BY <1>3, RequestFacts
  <2>. QED  BY <1>1, <2>1 DEF IInv, OneOrder
<1>4. \A n \in DOMAIN wire' : Answered(n)' => n = Len(wire) + 1
  BY <1>2, SendFacts
<1>5. buy_pending \/ ~auto_trade
  BY <1>1 DEF IInv, PendingIsOpen
<1>6. resource_loaded \/ ~auto_trade
  BY <1>1 DEF IInv, KnowsStock
<1>. QED  BY <1>3, <1>4, <1>5, <1>6
          DEF OrderInv, OneOrder, PendingIsOpen, KnowsStock, AnswerKnowsStock

\* Any other packet, and an order or a request that stays or is no order.
LEMMA PushKeepsOrder ==
  ASSUME IInv, NEW m \in PacketType, ~IsAnswer(m), Send(m),
         requests' = requests \/ Request("Info"),
         UNCHANGED <<auto_trade, buy_pending, resource_loaded>>
  PROVE  OrderInv' /\ requests' \in Seq(RequestType)
<1>. USE DEF Ordered, Answered
<1>1. \A n \in DOMAIN wire' :
        Answered(n)' => n \in DOMAIN wire /\ Answered(n)
  BY SendFacts
<1>2. CASE requests' = requests
  BY <1>1, <1>2 DEF IInv, TypeOK, OrderInv, OneOrder, PendingIsOpen, KnowsStock,
                    AnswerKnowsStock
<1>3. CASE Request("Info")
  <2>1. \A n \in DOMAIN requests' :
          /\ n \in Nat /\ n + 1 \in DOMAIN requests
          /\ Ordered(n)' => Ordered(n + 1)
    BY <1>3, RequestFacts
  <2>2. \A i, j \in DOMAIN requests' : Ordered(i)' /\ Ordered(j)' => i = j
    BY <2>1 DEF IInv, OneOrder
  <2>. QED  BY <1>1, <1>3, <2>1, <2>2, RequestFacts
            DEF IInv, OrderInv, OneOrder, PendingIsOpen, KnowsStock, AnswerKnowsStock
<1>. QED  BY <1>2, <1>3

LEMMA SellIInv == IInv /\ (Sell \/ Refuse) => IInv'
<1>. SUFFICES ASSUME IInv, Sell \/ Refuse PROVE IInv'
  OBVIOUS
<1>1. requests' \in Seq(RequestType) /\ Head(requests) \in RequestType
  BY RequestFacts DEF Sell, Refuse
<1>2. CASE Sell
  <2>. DEFINE i == Head(requests).slot
  <2>1. i \in Slots
    BY <1>1, <1>2 DEF Sell, Request, RequestType
  <2>2. /\ i \notin sold /\ stock[offers[i].kind] >= offers[i].count
        /\ sold' = sold \cup {i}
        /\ stock' = [stock EXCEPT ![offers[i].kind] =
                       stock[offers[i].kind] - offers[i].count]
        /\ Send(Bought(sold \cup {i})) /\ Request("Buy")
        /\ UNCHANGED <<loaded, buy_pending, trade_status, items, auto_trade, held,
                       resource_loaded, resources, gen, offers>>
    BY <1>2 DEF Sell, Honours, marketVars, stockVars
  <2>. HIDE DEF i
  <2>3. sold' \subseteq Slots /\ Bought(sold \cup {i}) \in PacketType
    BY <2>1, <2>2 DEF IInv, TypeOK, Bought, PacketType
  <2>4. IsAnswer(Bought(sold \cup {i}))
    BY DEF IsAnswer, Bought
  <2>5. stock' \in [Kinds -> Nat]
    <3>1. /\ offers[i].kind \in Kinds /\ offers[i].count \in Nat
          /\ stock \in [Kinds -> Nat]
      BY <2>1 DEF IInv, TypeOK, OfferType
    <3>2. stock[offers[i].kind] - offers[i].count \in Nat
      BY <2>2, <3>1
    <3>. QED  BY <2>2, <3>1, <3>2
  <2>6. TypeOK'
    BY <1>1, <2>2, <2>3, <2>5, SendFacts DEF IInv, TypeOK
  <2>7. OrderInv'
    BY <2>2, <2>3, <2>4, AnswerKeepsOrder
  <2>. QED  BY <2>6, <2>7 DEF IInv, OrderInv
<1>3. CASE Refuse
  <2>1. /\ Send(Refused) /\ Request("Buy")
        /\ UNCHANGED <<loaded, buy_pending, trade_status, items, auto_trade, held,
                       resource_loaded, resources, gen, sold, offers, stock>>
    BY <1>3 DEF Refuse, marketVars, stockVars, serverVars
  <2>2. Refused \in PacketType /\ IsAnswer(Refused)
    BY DEF Refused, PacketType, IsAnswer
  <2>3. TypeOK'
    BY <1>1, <2>1, <2>2, SendFacts DEF IInv, TypeOK
  <2>4. OrderInv'
    BY <2>1, <2>2, AnswerKeepsOrder
  <2>. QED  BY <2>3, <2>4 DEF IInv, OrderInv
<1>. QED  BY <1>2, <1>3

LEMMA PushIInv ==
  IInv /\ (Inform \/ PushData \/ PushResources \/ PushRefreshResources) => IInv'
<1>. SUFFICES ASSUME IInv, Inform \/ PushData \/ PushResources \/ PushRefreshResources
              PROVE  IInv'
  OBVIOUS
<1>1. Data \in PacketType /\ Resources \in PacketType /\ RefreshResources \in PacketType
  BY DEF IInv, TypeOK, Data, Resources, RefreshResources, PacketType
<1>2. ~IsAnswer(Data) /\ ~IsAnswer(Resources) /\ ~IsAnswer(RefreshResources)
  BY DEF Data, Resources, RefreshResources, IsAnswer
<1>3. PICK m \in {Data, Resources, RefreshResources} : Send(m)
  BY DEF Inform, PushData, PushResources, PushRefreshResources
<1>4. requests' = requests \/ Request("Info")
  BY DEF Inform, PushData, PushResources, PushRefreshResources
<1>5. UNCHANGED <<loaded, buy_pending, trade_status, items, auto_trade, held,
                  resource_loaded, resources, gen, sold, offers, stock>>
  BY DEF Inform, PushData, PushResources, PushRefreshResources, marketVars, stockVars,
         serverVars
<1>6. m \in PacketType /\ ~IsAnswer(m)
  BY <1>1, <1>2
<1>7. OrderInv' /\ requests' \in Seq(RequestType)
  BY <1>3, <1>4, <1>5, <1>6, PushKeepsOrder
<1>8. wire' \in Seq(PacketType)
  BY <1>3, <1>6, SendFacts
<1>9. TypeOK'
  BY <1>5, <1>7, <1>8 DEF IInv, TypeOK
<1>. QED  BY <1>7, <1>9 DEF IInv, OrderInv

\* A request for the mission list is no order.
LEMMA TickIInv == IInv /\ BlackMarketTick => IInv'
<1>. SUFFICES ASSUME IInv, BlackMarketTick PROVE IInv'
  OBVIOUS
<1>. USE DEF Ordered
<1>1. /\ requests' = Append(requests, Info) /\ loaded' = FALSE
      /\ UNCHANGED <<buy_pending, trade_status, items, auto_trade, held,
                     resource_loaded, resources, wire, gen, sold, offers, stock>>
  BY DEF BlackMarketTick, stockVars, serverVars
<1>2. requests \in Seq(RequestType) /\ Info \in RequestType /\ Info.type # "Buy"
  BY DEF IInv, TypeOK, Info, RequestType
<1>3. /\ requests' \in Seq(RequestType) /\ Len(requests') = Len(requests) + 1
      /\ \A n \in 1..Len(requests) : requests'[n] = requests[n]
      /\ requests'[Len(requests) + 1] = Info
  BY <1>1, <1>2, AppendProperties
<1>4. /\ DOMAIN requests' = 1..(Len(requests) + 1) /\ Len(requests) \in Nat
      /\ DOMAIN requests = 1..Len(requests)
  BY <1>2, <1>3, LenProperties
<1>5. \A n \in DOMAIN requests' : Ordered(n)' => n \in DOMAIN requests /\ Ordered(n)
  BY <1>2, <1>3, <1>4
<1>6. TypeOK'
  BY <1>1, <1>3 DEF IInv, TypeOK
<1>7. OrderInv'
  BY <1>1, <1>5 DEF IInv, OrderInv, OneOrder, PendingIsOpen, KnowsStock,
                    AnswerKnowsStock, Answered
<1>. QED  BY <1>6, <1>7 DEF IInv, OrderInv

\* Steps that move neither requests nor packets.
LEMMA OtherIInv ==
  IInv /\ (RecvChatMessage \/ Refresh \/ (\E k \in Kinds : Produce(k))
             \/ UNCHANGED vars) => IInv'
<1>. SUFFICES ASSUME IInv,
                     RecvChatMessage \/ Refresh \/ (\E k \in Kinds : Produce(k))
                       \/ UNCHANGED vars
              PROVE  IInv'
  OBVIOUS
<1>. USE MarketAssumption
     DEF IInv, OneOrder, PendingIsOpen, KnowsStock, AnswerKnowsStock, Ordered, Answered
<1>1. CASE RecvChatMessage
  <2>1. items' \in [Slots -> OfferType]
    BY <1>1 DEF RecvChatMessage, NoOffer, OfferType
  <2>. QED  BY <1>1, <2>1 DEF RecvChatMessage, TypeOK, serverVars
<1>2. CASE Refresh
  <2>1. offers' \in [Slots -> OfferType] /\ gen' \in Nat /\ sold' \subseteq Slots
    BY <1>2 DEF Refresh, TypeOK
  <2>. QED  BY <1>2, <2>1 DEF Refresh, TypeOK, marketVars, stockVars
<1>3. ASSUME NEW k \in Kinds, Produce(k) PROVE IInv'
  <2>1. stock' \in [Kinds -> Nat]
    BY <1>3 DEF Produce, TypeOK
  <2>. QED  BY <1>3, <2>1 DEF Produce, TypeOK, marketVars, stockVars
<1>4. CASE UNCHANGED vars
  BY <1>4 DEF vars, marketVars, stockVars, serverVars, TypeOK
<1>. QED  BY <1>1, <1>2, <1>3, <1>4

-----------------------------------------------------------------------------
\* The invariant holds in every state, whatever the server sends and sells.
THEOREM MarketInvariant == Spec => []IInv
<1>1. IInv /\ [Next]_vars => IInv'
  BY DataIInv, BoughtIInv, RefusedIInv, ResourcesIInv, RefreshIInv, SellIInv,
     PushIInv, TickIInv, OtherIInv
     DEF Next, RecvPacket, Server, Serve
<1>. QED  BY InitIInv, <1>1, PTL DEF Spec

\* The types hold in every state; no order names a slot that does not exist.
THEOREM TypeCorrect == Spec => []TypeOK
BY MarketInvariant, PTL DEF IInv

\* The bot never has two orders open (buy_pending in EvaluateBlackMarket).
THEOREM OneOrderAlways == Spec => []OneOrder
BY MarketInvariant, PTL DEF IInv

\* No order is given before the resources of the login are known
\* (resource_loaded in TryEvaluateBlackMarket).
THEOREM KnowsStockAlways == Spec => []KnowsStock
BY MarketInvariant, PTL DEF IInv
\* While the bot trades, no order is open that it does not know of.
THEOREM PendingIsOpenAlways == Spec => []PendingIsOpen
BY MarketInvariant, PTL DEF IInv

-----------------------------------------------------------------------------
\* No slot is ordered twice

\* Packets that are read leave what is said of the rest true.
LEMMA ReadKeepsTruth ==
  ASSUME IInv, SoldInv, NEW type, Receive(type), UNCHANGED <<gen, sold>>,
         held' = held \/ (type = "Data" /\ held' = Head(wire).gen)
  PROVE  HeldPast' /\ ListsTrue' /\ SalesTrue'
<1>. USE DEF Sale, Listed
<1>1. \A n \in DOMAIN wire' : /\ n \in Nat /\ n >= 1 /\ n + 1 \in DOMAIN wire
                              /\ wire'[n] = wire[n + 1]
  BY ReceiveFacts, LenProperties
<1>2. /\ \A n \in DOMAIN wire : n \in Nat /\ n >= 1 /\ (n > 1 => n - 1 \in DOMAIN wire')
      /\ 1 \in DOMAIN wire /\ Head(wire) = wire[1] /\ wire[1].type = type
  BY ReceiveFacts, LenProperties DEF IInv, TypeOK
<1>3. \A n \in DOMAIN wire : n > 1 => wire'[n - 1] = wire[n]
  BY <1>1, <1>2
<1>4. HeldPast'
  BY <1>2 DEF SoldInv, HeldPast, ListsTrue
<1>5. ListsTrue'
  <2>. SUFFICES ASSUME NEW n \in DOMAIN wire', Listed(n)'
                PROVE  /\ wire'[n].gen <= gen
                       /\ wire'[n].gen = gen =>
                            wire'[n].sold = sold
                              \/ \E k \in DOMAIN wire' : n < k /\ wire'[k].type = "Bought"
    BY DEF ListsTrue
  <2>1. /\ wire'[n].gen <= gen
        /\ wire'[n].gen = gen =>
             wire'[n].sold = sold \/ \E k \in DOMAIN wire : n + 1 < k /\ Sale(k)
    BY <1>1 DEF SoldInv, ListsTrue
  <2>2. ASSUME NEW k \in DOMAIN wire, n + 1 < k, Sale(k)
        PROVE  k - 1 \in DOMAIN wire' /\ n < k - 1 /\ wire'[k - 1].type = "Bought"
    BY <1>1, <1>2, <1>3, <2>2
  <2>. QED  BY <2>1, <2>2
<1>6. SalesTrue'
  <2>. SUFFICES ASSUME NEW n \in DOMAIN wire', Sale(n)', wire'[n].sold # sold
                PROVE  /\ held' # gen
                       /\ \A k \in DOMAIN wire' :
                            k < n /\ wire'[k].type = "Data" => wire'[k].gen # gen
    BY DEF SalesTrue
  <2>1. /\ held # gen
        /\ \A k \in DOMAIN wire : k < n + 1 /\ Listed(k) => wire[k].gen # gen
    BY <1>1 DEF SoldInv, SalesTrue
  <2>2. held' # gen
    BY <1>1, <1>2, <2>1
  <2>. QED  BY <1>1, <2>1, <2>2
<1>. QED  BY <1>4, <1>5, <1>6

\* So do packets sent, an answer to an order excepted.
LEMMA SendKeepsTruth ==
  ASSUME IInv, SoldInv, NEW m \in PacketType, Send(m), m.type # "Bought",
         m.type = "Data" => m.gen = gen /\ m.sold = sold,
         UNCHANGED <<gen, sold, held, auto_trade, trade_status>>
  PROVE  HeldPast' /\ StatusTrue' /\ ListsTrue' /\ SalesTrue'
<1>. USE DEF Sale, Listed
<1>1. /\ DOMAIN wire = 1..Len(wire) /\ Len(wire) \in Nat
      /\ DOMAIN wire' = 1..(Len(wire) + 1)
      /\ \A n \in DOMAIN wire : wire'[n] = wire[n]
      /\ wire'[Len(wire) + 1] = m
  BY SendFacts
<1>2. \A n \in DOMAIN wire' : n \in DOMAIN wire \/ (n = Len(wire) + 1 /\ wire'[n] = m)
  BY <1>1
<1>3. \A n \in DOMAIN wire : n \in DOMAIN wire' /\ n < Len(wire) + 1
  BY <1>1
<1>4. HeldPast' /\ StatusTrue'
  BY <1>1, <1>3 DEF SoldInv, HeldPast, StatusTrue
<1>5. gen \in Nat
  BY DEF IInv, TypeOK
<1>6. ListsTrue'
  BY <1>1, <1>2, <1>3, <1>5 DEF SoldInv, ListsTrue
<1>7. SalesTrue'
  BY <1>1, <1>2, <1>3 DEF SoldInv, SalesTrue
<1>. QED  BY <1>4, <1>6, <1>7

\* What an evaluation orders was not sold as far as it knows, and with nothing
\* pending what it knows is true if no answer is on its way.
LEMMA EvaluateOrders ==
  ASSUME IInv, SoldOnce, UNCHANGED <<gen, sold>>, NEW pending, NEW status, NEW its,
         NEW res, NEW g \in Nat, EvaluateBlackMarket(pending, status, its, res, g),
         (auto_trade /\ ~pending /\ g = gen) => sold = status
  PROVE  SoldOnce'
<1>. USE DEF Ordered
<1>1. CASE requests' = requests
  BY <1>1 DEF SoldOnce
<1>2. ASSUME NEW i \in Slots \ status, auto_trade, ~pending,
             requests' = Append(requests, Buy(i, g))
      PROVE  SoldOnce'
  <2>1. requests \in Seq(RequestType) /\ Buy(i, g) \in RequestType
    BY DEF IInv, TypeOK, Buy, RequestType
  <2>2. /\ \A n \in DOMAIN requests : requests'[n] = requests[n]
        /\ \A n \in DOMAIN requests' :
             n \in DOMAIN requests \/ requests'[n] = Buy(i, g)
    BY <1>2, <2>1, AppendProperties, LenProperties
  <2>3. Buy(i, g).slot = i /\ Buy(i, g).gen = g
    BY DEF Buy
  <2>. QED  BY <1>2, <2>2, <2>3 DEF SoldOnce
<1>. QED  BY <1>1, <1>2 DEF EvaluateBlackMarket, Tradable

\* Requests that are taken, or asked for besides orders, name no new slot.
LEMMA FewerOrders ==
  ASSUME IInv, SoldOnce, UNCHANGED <<gen, sold>>,
         requests' = requests \/ Request("Info") \/ requests' = Append(requests, Info)
  PROVE  SoldOnce'
<1>. USE DEF Ordered
<1>1. CASE requests' = requests
  BY <1>1 DEF SoldOnce
<1>2. CASE Request("Info")
  BY <1>2, RequestFacts DEF SoldOnce
<1>3. CASE requests' = Append(requests, Info)
  <2>1. requests \in Seq(RequestType) /\ Info \in RequestType /\ Info.type # "Buy"
    BY DEF IInv, TypeOK, Info, RequestType
  <2>2. /\ \A n \in DOMAIN requests : requests'[n] = requests[n]
        /\ \A n \in DOMAIN requests' : n \in DOMAIN requests \/ requests'[n] = Info
    BY <1>3, <2>1, AppendProperties, LenProperties
  <2>. QED  BY <2>1, <2>2 DEF SoldOnce
<1>. QED  BY <1>1, <1>2, <1>3

\* A list: the status it brings is the market's, or an answer corrects it.
LEMMA DataSold == IInv /\ SoldInv /\ RecvBlackMarket_Data => SoldInv'
<1>. SUFFICES ASSUME IInv, SoldInv, RecvBlackMarket_Data PROVE SoldInv'
  OBVIOUS
<1>. USE DEF Sale, Listed
<1>1. /\ Receive("Data")
      /\ trade_status' = Head(wire).sold /\ held' = Head(wire).gen
      /\ UNCHANGED <<auto_trade, resource_loaded, gen, sold>>
  BY DEF RecvBlackMarket_Data, stockVars, serverVars
<1>2. HeldPast' /\ ListsTrue' /\ SalesTrue'
  BY <1>1, ReadKeepsTruth
<1>3. /\ 1 \in DOMAIN wire /\ Head(wire) = wire[1] /\ Listed(1)
      /\ \A k \in DOMAIN wire : 1 < k => k - 1 \in DOMAIN wire' /\ wire'[k - 1] = wire[k]
  BY <1>1, ReceiveFacts, LenProperties DEF IInv, TypeOK
<1>4. Head(wire).gen = gen =>
        Head(wire).sold = sold \/ \E k \in DOMAIN wire : 1 < k /\ Sale(k)
  BY <1>3 DEF SoldInv, ListsTrue
<1>5. StatusTrue'
  BY <1>1, <1>3, <1>4 DEF StatusTrue
<1>6. Head(wire).gen \in Nat
  BY <1>1, ReceiveFacts DEF PacketType
<1>7. SoldOnce'
  <2>1. CASE resource_loaded
    <3>1. EvaluateBlackMarket(buy_pending, Head(wire).sold, Head(wire).offers, resources,
                              Head(wire).gen)
      BY <2>1 DEF RecvBlackMarket_Data
    <3>2. (auto_trade /\ ~buy_pending) => \A k \in DOMAIN wire : ~Sale(k)
      BY DEF IInv, PendingIsOpen, Answered, IsAnswer
    <3>. QED  BY <1>1, <1>4, <1>6, <3>1, <3>2, EvaluateOrders DEF SoldInv
  <2>2. CASE ~resource_loaded
    BY <1>1, <2>2 DEF RecvBlackMarket_Data, SoldInv, SoldOnce, Ordered
  <2>. QED  BY <2>1, <2>2
<1>. QED  BY <1>2, <1>5, <1>7 DEF SoldInv

\* The answer to an order brings the status up to date.
LEMMA BoughtSold == IInv /\ SoldInv /\ RecvBlackMarket_Bought => SoldInv'
<1>. SUFFICES ASSUME IInv, SoldInv, RecvBlackMarket_Bought PROVE SoldInv'
  OBVIOUS
<1>. USE DEF Sale, Listed
<1>1. /\ Receive("Bought") /\ trade_status' = Head(wire).sold
      /\ UNCHANGED <<auto_trade, held, gen, sold>>
  BY DEF RecvBlackMarket_Bought, serverVars
<1>2. HeldPast' /\ ListsTrue' /\ SalesTrue'
  BY <1>1, ReadKeepsTruth
<1>3. 1 \in DOMAIN wire /\ Head(wire) = wire[1] /\ Sale(1)
  BY <1>1, ReceiveFacts, LenProperties DEF IInv, TypeOK
<1>4. held = gen => Head(wire).sold = sold
  BY <1>3 DEF SoldInv, SalesTrue
<1>5. StatusTrue'
  BY <1>1, <1>4 DEF StatusTrue
<1>6. held \in Nat
  BY DEF IInv, TypeOK
<1>7. SoldOnce'
  <2>1. CASE loaded
    <3>1. EvaluateBlackMarket(FALSE, Head(wire).sold, items, resources, held)
      BY <2>1 DEF RecvBlackMarket_Bought
    <3>. QED  BY <1>1, <1>4, <1>6, <3>1, EvaluateOrders DEF SoldInv
  <2>2. CASE ~loaded
    BY <1>1, <2>2 DEF RecvBlackMarket_Bought, SoldInv, SoldOnce, Ordered
  <2>. QED  BY <2>1, <2>2
<1>. QED  BY <1>2, <1>5, <1>7 DEF SoldInv

\* Packets that say nothing of the slots.
LEMMA OtherReadSold ==
  IInv /\ SoldInv /\ (RecvBlackMarket_Refused \/ RecvResources \/ RecvRefreshResources)
    => SoldInv'
<1>. SUFFICES ASSUME IInv, SoldInv,
                     RecvBlackMarket_Refused \/ RecvResources \/ RecvRefreshResources
              PROVE  SoldInv'
  OBVIOUS
<1>. USE DEF Sale, Listed
<1>1. PICK type \in {"Refused", "Resources", "RefreshResources"} : Receive(type)
  BY DEF RecvBlackMarket_Refused, RecvResources, RecvRefreshResources
<1>2. UNCHANGED <<trade_status, auto_trade, held, gen, sold>>
  BY DEF RecvBlackMarket_Refused, RecvResources, RecvRefreshResources, marketVars,
         serverVars
<1>3. HeldPast' /\ ListsTrue' /\ SalesTrue'
  BY <1>1, <1>2, ReadKeepsTruth
<1>4. \A k \in DOMAIN wire : Sale(k) => k - 1 \in DOMAIN wire' /\ wire'[k - 1] = wire[k]
  BY <1>1, ReceiveFacts, LenProperties DEF IInv, TypeOK
<1>5. StatusTrue'
  BY <1>2, <1>4 DEF SoldInv, StatusTrue
<1>6. held \in Nat
  BY DEF IInv, TypeOK
<1>7. SoldOnce'
  <2>1. CASE requests' = requests
    BY <1>2, <2>1 DEF SoldInv, SoldOnce, Ordered
  <2>2. CASE requests' # requests
    <3>1. EvaluateBlackMarket(buy_pending, trade_status, items, Head(wire).stock, held)
      BY <2>2 DEF RecvBlackMarket_Refused, RecvResources, RecvRefreshResources
    <3>2. (auto_trade /\ ~buy_pending) => \A k \in DOMAIN wire : ~Sale(k)
      BY DEF IInv, PendingIsOpen, Answered, IsAnswer
    <3>. QED  BY <1>2, <1>6, <3>1, <3>2, EvaluateOrders DEF SoldInv, StatusTrue
  <2>. QED  BY <2>1, <2>2
<1>. QED  BY <1>3, <1>5, <1>7 DEF SoldInv

\* The server sells or refuses what was the only order open.
LEMMA SellSold == IInv /\ SoldInv /\ (Sell \/ Refuse) => SoldInv'
<1>. SUFFICES ASSUME IInv, SoldInv, Sell \/ Refuse PROVE SoldInv'
  OBVIOUS
<1>. USE DEF Sale, Listed
<1>1. /\ Request("Buy")
      /\ UNCHANGED <<held, trade_status, auto_trade, gen>>
  BY DEF Sell, Refuse, marketVars, serverVars
<1>2. 1 \in DOMAIN requests /\ Ordered(1)
  BY <1>1, RequestFacts DEF Ordered
<1>3. \A n \in DOMAIN wire : ~Sale(n)
  BY <1>2 DEF IInv, OneOrder, Answered, IsAnswer
<1>4. ASSUME NEW n \in DOMAIN requests', Ordered(n)' PROVE FALSE
  <2>1. n \in Nat /\ n >= 1 /\ n + 1 \in DOMAIN requests /\ Ordered(n + 1)
    BY <1>1, <1>4, RequestFacts DEF Ordered
  <2>. QED  BY <1>2, <2>1 DEF IInv, OneOrder
<1>5. SoldOnce'
  BY <1>4 DEF SoldOnce
<1>6. CASE Refuse
  <2>1. Refused \in PacketType /\ Refused.type = "Refused"
    BY DEF Refused, PacketType
  <2>2. Send(Refused) /\ UNCHANGED sold
    BY <1>6 DEF Refuse, serverVars
  <2>. QED  BY <1>1, <1>5, <2>1, <2>2, SendKeepsTruth DEF SoldInv
<1>7. CASE Sell
  <2>. DEFINE m == Bought(sold')
  <2>1. sold' \subseteq Slots
    <3>1. Head(requests).slot \in Slots
      BY <1>1, RequestFacts DEF Request, RequestType
    <3>. QED  BY <1>7, <3>1 DEF Sell, IInv, TypeOK
  <2>2. m \in PacketType /\ m.type = "Bought" /\ m.sold = sold' /\ Send(m)
    BY <1>7, <2>1 DEF Sell, Bought, PacketType
  <2>. HIDE DEF m
  <2>3. /\ DOMAIN wire = 1..Len(wire) /\ Len(wire) \in Nat
        /\ DOMAIN wire' = 1..(Len(wire) + 1)
        /\ \A n \in DOMAIN wire : wire'[n] = wire[n]
        /\ wire'[Len(wire) + 1] = m
    BY <2>2, SendFacts
  <2>4. /\ Len(wire) + 1 \in DOMAIN wire' /\ wire'[Len(wire) + 1].type = "Bought"
        /\ \A n \in DOMAIN wire' :
             (n \in DOMAIN wire /\ n < Len(wire) + 1) \/ n = Len(wire) + 1
    BY <2>2, <2>3
  <2>5. HeldPast' /\ StatusTrue'
    BY <1>1, <2>4 DEF SoldInv, HeldPast, StatusTrue
  <2>6. ListsTrue'
    BY <1>1, <2>2, <2>3, <2>4 DEF SoldInv, ListsTrue
  <2>7. SalesTrue'
    BY <1>3, <2>2, <2>3, <2>4 DEF SalesTrue
  <2>. QED  BY <1>5, <2>5, <2>6, <2>7 DEF SoldInv
<1>. QED  BY <1>6, <1>7

\* Packets sent unasked, and the answer to the tick.
LEMMA PushSold ==
  IInv /\ SoldInv /\ (Inform \/ PushData \/ PushResources \/ PushRefreshResources)
    => SoldInv'
<1>. SUFFICES ASSUME IInv, SoldInv,
                     Inform \/ PushData \/ PushResources \/ PushRefreshResources
              PROVE  SoldInv'
  OBVIOUS
<1>1. Data \in PacketType /\ Resources \in PacketType /\ RefreshResources \in PacketType
  BY DEF IInv, TypeOK, Data, Resources, RefreshResources, PacketType
<1>2. PICK m \in {Data, Resources, RefreshResources} : Send(m)
  BY DEF Inform, PushData, PushResources, PushRefreshResources
<1>3. /\ m \in PacketType /\ m.type # "Bought"
      /\ m.type = "Data" => m.gen = gen /\ m.sold = sold
  BY <1>1 DEF Data, Resources, RefreshResources
<1>4. requests' = requests \/ Request("Info")
  BY DEF Inform, PushData, PushResources, PushRefreshResources
<1>5. UNCHANGED <<trade_status, auto_trade, held, gen, sold>>
  BY DEF Inform, PushData, PushResources, PushRefreshResources, marketVars, serverVars
<1>. QED  BY <1>2, <1>3, <1>4, <1>5, SendKeepsTruth, FewerOrders DEF SoldInv

\* After a refresh no list, sale or order is of the market as it is.
LEMMA OtherSold ==
  IInv /\ SoldInv /\ (BlackMarketTick \/ RecvChatMessage \/ Refresh
                        \/ (\E k \in Kinds : Produce(k)) \/ UNCHANGED vars)
    => SoldInv'
<1>. SUFFICES ASSUME IInv, SoldInv,
                     BlackMarketTick \/ RecvChatMessage \/ Refresh
                       \/ (\E k \in Kinds : Produce(k)) \/ UNCHANGED vars
              PROVE  SoldInv'
  OBVIOUS
<1>. USE DEF Sale, Listed, HeldPast, StatusTrue, ListsTrue, SalesTrue
<1>1. CASE Refresh
  <2>1. gen \in Nat /\ gen' = gen + 1 /\ sold' = {} /\ held \in Nat
        /\ UNCHANGED <<held, wire, requests, trade_status, auto_trade>>
    BY <1>1 DEF Refresh, marketVars, IInv, TypeOK
  <2>2. \A n \in DOMAIN wire : Listed(n) => wire[n].gen \in Nat
    BY LenProperties DEF IInv, TypeOK, PacketType
  <2>3. HeldPast' /\ StatusTrue' /\ ListsTrue' /\ SalesTrue'
    BY <2>1, <2>2 DEF SoldInv
  <2>. QED  BY <2>1, <2>3 DEF SoldInv, SoldOnce, Ordered
<1>2. CASE ~Refresh
  <2>1. /\ UNCHANGED <<held, wire, gen, sold>>
        /\ auto_trade' => auto_trade /\ trade_status' = trade_status
        /\ requests' = requests \/ requests' = Append(requests, Info)
    BY <1>2 DEF BlackMarketTick, RecvChatMessage, Produce, vars, marketVars, serverVars
  <2>2. HeldPast' /\ StatusTrue' /\ ListsTrue' /\ SalesTrue'
    BY <2>1 DEF SoldInv
  <2>. QED  BY <2>1, <2>2, FewerOrders DEF SoldInv
<1>. QED  BY <1>1, <1>2

\* An order meant for the list the server still offers is for a slot not sold
\* since (EvaluateBlackMarket against lists, sales and refreshes on their way).
THEOREM SoldOnceAlways == Spec => []SoldOnce
<1>1. Init => SoldInv
  BY MarketAssumption
     DEF Init, SoldInv, SoldOnce, HeldPast, StatusTrue, ListsTrue, SalesTrue
<1>2. IInv /\ SoldInv /\ [Next]_vars => SoldInv'
  BY DataSold, BoughtSold, OtherReadSold, SellSold, PushSold, OtherSold
     DEF Next, RecvPacket, Server, Serve
<1>3. SoldInv => SoldOnce
  BY DEF SoldInv
<1>. QED  BY MarketInvariant, <1>1, <1>2, <1>3, PTL DEF Spec
-----------------------------------------------------------------------------
\* The trade is an exchange

\* A set whose elements are all one has one element at most.
LEMMA OneAtMost ==
  ASSUME NEW S, \A m, n \in S : m = n
  PROVE  Cardinality(S) = IF S = {} THEN 0 ELSE 1
<1>1. CASE S = {}
  BY <1>1, FS_EmptySet
<1>2. CASE S # {}
  <2>1. PICK x : x \in S
    BY <1>2
  <2>2. S = {x}
    BY <2>1
  <2>. QED  BY <1>2, <2>2, FS_Singleton
<1>. QED  BY <1>1, <1>2

\* Orders and answers are counted by whether there is one.
LEMMA Counted ==
  ASSUME OneOrder
  PROVE  /\ Cardinality(Orders) = IF Orders = {} THEN 0 ELSE 1
         /\ Cardinality(AnswersSent) = IF AnswersSent = {} THEN 0 ELSE 1
         /\ Orders = {} \/ AnswersSent = {}
<1>1. \A m, n \in Orders : m = n
  BY DEF OneOrder, Orders
<1>2. \A m, n \in AnswersSent : m = n
  BY DEF OneOrder, AnswersSent
<1>. QED  BY <1>1, <1>2, OneAtMost DEF OneOrder, Orders, AnswersSent

\* The same in the next state.
LEMMA CountedNext ==
  ASSUME OneOrder'
  PROVE  /\ Cardinality(Orders') = IF Orders' = {} THEN 0 ELSE 1
         /\ Cardinality(AnswersSent') = IF AnswersSent' = {} THEN 0 ELSE 1
         /\ Orders' = {} \/ AnswersSent' = {}
<1>1. \A m, n \in Orders' : m = n
  BY DEF OneOrder, Orders
<1>2. \A m, n \in AnswersSent' : m = n
  BY DEF OneOrder, AnswersSent
<1>. QED  BY <1>1, <1>2, OneAtMost DEF OneOrder, Orders, AnswersSent

\* A packet that is read and is no answer leaves the answers as they are.
LEMMA OtherReadKeepsAnswers ==
  ASSUME IInv, NEW type \in {"Data", "Resources", "RefreshResources"}, Receive(type)
  PROVE  AnswerKinds' = AnswerKinds /\ (AnswersSent' = {} <=> AnswersSent = {})
<1>. USE DEF IsAnswer, Answered, AnswersSent
<1>1. /\ \A n \in DOMAIN wire' : n \in Nat /\ n + 1 \in DOMAIN wire /\ wire'[n] = wire[n + 1]
      /\ \A n \in DOMAIN wire : n # 1 => n - 1 \in DOMAIN wire' /\ wire'[n - 1] = wire[n]
      /\ wire[1].type = type
  <2>1. /\ wire \in Seq(PacketType) /\ wire' \in Seq(PacketType)
        /\ Len(wire') = Len(wire) - 1 /\ wire[1].type = type
        /\ \A n \in DOMAIN wire' : wire'[n] = wire[n + 1] /\ n + 1 \in DOMAIN wire
    BY ReceiveFacts DEF IInv, TypeOK
  <2>2. /\ DOMAIN wire' = 1..Len(wire') /\ DOMAIN wire = 1..Len(wire)
        /\ Len(wire) \in Nat /\ Len(wire') \in Nat
    BY <2>1, LenProperties
  <2>. QED  BY <2>1, <2>2
<1>2. ~Answered(1)
  BY <1>1
<1>3. \A n \in AnswersSent' : n + 1 \in AnswersSent /\ wire'[n] = wire[n + 1]
  BY <1>1
<1>4. \A n \in AnswersSent : n - 1 \in AnswersSent' /\ wire'[n - 1] = wire[n]
  BY <1>1, <1>2
<1>5. AnswersSent' = {} <=> AnswersSent = {}
  BY <1>3, <1>4
<1>6. AnswerKinds' = AnswerKinds
  <2>. HIDE DEF AnswersSent
  <2>. QED  BY <1>3, <1>4 DEF AnswerKinds
<1>. QED  BY <1>5, <1>6

LEMMA OrderAppended ==
  ASSUME IInv, NEW i \in Slots, NEW g \in Nat, requests' = Append(requests, Buy(i, g))
  PROVE  Orders' # {}
<1>1. requests \in Seq(RequestType) /\ Buy(i, g) \in RequestType /\ Buy(i, g).type = "Buy"
  BY DEF IInv, TypeOK, Buy, RequestType
<1>2. /\ requests' \in Seq(RequestType) /\ Len(requests') = Len(requests) + 1
      /\ requests'[Len(requests) + 1] = Buy(i, g)
  BY <1>1, AppendProperties
<1>3. Len(requests) + 1 \in DOMAIN requests'
  BY <1>1, <1>2, LenProperties
<1>4. Len(requests) + 1 \in Orders'
  BY <1>1, <1>2, <1>3 DEF Orders, Ordered
<1>. QED  BY <1>4

\* An evaluation asks or leaves things as they are.
LEMMA EvaluationAsks ==
  ASSUME IInv, IInv', Outcome(buy_pending), auto_trade' = auto_trade,
         AnswerKinds' = AnswerKinds, AnswersSent' = {} <=> AnswersSent = {}
  PROVE  Trade!Ask \/ UNCHANGED Trade!vars
<1>. USE DEF Trade!Ask, Trade!vars
<1>1. OneOrder /\ OneOrder' /\ PendingIsOpen
  BY DEF IInv
<1>2. Cardinality(AnswersSent') = Cardinality(AnswersSent)
  BY <1>1, Counted, CountedNext
<1>3. CASE buy_pending' = buy_pending /\ requests' = requests
  <2>1. Orders' = Orders
    BY <1>3 DEF Orders, Ordered
  <2>. QED  BY <1>2, <1>3, <2>1
<1>4. ASSUME auto_trade, ~buy_pending, buy_pending' = TRUE,
             NEW i \in Slots, NEW g \in Nat, requests' = Append(requests, Buy(i, g))
      PROVE  Trade!Ask
  <2>1. Orders = {} /\ AnswersSent = {}
    BY <1>1, <1>4 DEF PendingIsOpen, Orders, AnswersSent
  <2>2. Orders' # {}
    BY <1>4, OrderAppended
  <2>3. /\ Cardinality(Orders) = 0 /\ Cardinality(AnswersSent) = 0
        /\ Cardinality(Orders') = 1
    BY <1>1, <2>1, <2>2, Counted, CountedNext
  <2>. QED  BY <1>2, <1>4, <2>3
<1>. QED  BY <1>3, <1>4 DEF Outcome

\* The packets that are no answers.
LEMMA ReadAsks ==
  ASSUME IInv, IInv',
         RecvBlackMarket_Data \/ RecvResources \/ RecvRefreshResources
  PROVE  Trade!Ask \/ UNCHANGED Trade!vars
<1>1. PICK type \in {"Data", "Resources", "RefreshResources"} : Receive(type)
  BY DEF RecvBlackMarket_Data, RecvResources, RecvRefreshResources
<1>2. AnswerKinds' = AnswerKinds /\ (AnswersSent' = {} <=> AnswersSent = {})
  BY <1>1, OtherReadKeepsAnswers
<1>3. auto_trade' = auto_trade
  BY DEF RecvBlackMarket_Data, RecvResources, RecvRefreshResources, marketVars
<1>4. Outcome(buy_pending)
  <2>1. CASE RecvBlackMarket_Data
    <3>1. Head(wire).gen \in Nat
      <4>1. Receive("Data")
        BY <2>1 DEF RecvBlackMarket_Data
      <4>2. Head(wire) \in PacketType /\ Head(wire).type = "Data"
        BY <4>1, ReceiveFacts
      <4>. QED  BY <4>2 DEF PacketType
    <3>. QED  BY <2>1, <3>1, EvaluateOutcome DEF RecvBlackMarket_Data, Outcome
  <2>2. CASE RecvResources
    <3>1. held \in Nat
      BY DEF IInv, TypeOK
    <3>. QED  BY <2>2, <3>1, EvaluateOutcome DEF RecvResources, Outcome
  <2>3. CASE RecvRefreshResources
    BY <2>3 DEF RecvRefreshResources, marketVars, Outcome
  <2>. QED  BY <2>1, <2>2, <2>3
<1>. QED  BY <1>2, <1>3, <1>4, EvaluationAsks

\* An answer read ends the wait, and may start the next.
LEMMA AnswerIsRead ==
  ASSUME IInv, IInv', RecvBlackMarket_Bought \/ RecvBlackMarket_Refused
  PROVE  Trade!Read
<1>1. PICK type \in {"Bought", "Refused"} : Receive(type)
  BY DEF RecvBlackMarket_Bought, RecvBlackMarket_Refused
<1>2. Orders = {} /\ AnswersSent' = {}
  BY <1>1, AnswerReadClosesOrder DEF Orders, AnswersSent
<1>3. AnswersSent # {}
  <2>1. 1 \in DOMAIN wire /\ wire[1].type = type
    <3>1. wire \in Seq(PacketType) /\ wire # <<>> /\ wire[1].type = type
      BY <1>1, ReceiveFacts DEF IInv, TypeOK
    <3>. QED  BY <3>1, LenProperties
  <2>. QED  BY <2>1 DEF AnswersSent, Answered, IsAnswer
<1>4. AnswerKinds' = {}
  BY <1>2 DEF AnswerKinds
<1>5. AnswerKinds \subseteq {"Bought", "Refused"}
  BY DEF AnswerKinds, AnswersSent, Answered, IsAnswer
<1>6. auto_trade' = auto_trade
  BY DEF RecvBlackMarket_Bought, RecvBlackMarket_Refused
<1>7. Outcome(FALSE)
  <2>1. CASE RecvBlackMarket_Bought
    <3>1. held \in Nat
      BY DEF IInv, TypeOK
    <3>. QED  BY <2>1, <3>1, EvaluateOutcome DEF RecvBlackMarket_Bought, Outcome
  <2>2. CASE RecvBlackMarket_Refused
    BY <2>2 DEF RecvBlackMarket_Refused, Outcome
  <2>. QED  BY <2>1, <2>2
<1>8. OneOrder /\ OneOrder'
  BY DEF IInv
<1>9. /\ Cardinality(Orders) = 0 /\ Cardinality(AnswersSent) = 1
      /\ Cardinality(AnswersSent') = 0
  BY <1>2, <1>3, <1>8, Counted, CountedNext
<1>10. \/ buy_pending' = FALSE /\ Cardinality(Orders') = 0
       \/ auto_trade /\ buy_pending' = TRUE /\ Cardinality(Orders') = 1
  <2>1. CASE buy_pending' = FALSE /\ requests' = requests
    <3>1. Orders' = Orders
      BY <2>1 DEF Orders, Ordered
    <3>. QED  BY <1>9, <2>1, <3>1
  <2>2. ASSUME auto_trade, buy_pending' = TRUE, NEW i \in Slots, NEW g \in Nat,
               requests' = Append(requests, Buy(i, g))
        PROVE  auto_trade /\ buy_pending' = TRUE /\ Cardinality(Orders') = 1
    BY <1>8, <2>2, OrderAppended, Counted, CountedNext
  <2>. QED  BY <1>7, <2>1, <2>2 DEF Outcome
<1>. QED  BY <1>4, <1>5, <1>6, <1>9, <1>10 DEF Trade!Read

\* The server's answer takes the order's place.
LEMMA ServerAnswers ==
  ASSUME IInv, IInv', Sell \/ Refuse
  PROVE  Trade!Answer
<1>1. Request("Buy")
  BY DEF Sell, Refuse
<1>2. PICK m \in PacketType : IsAnswer(m) /\ Send(m)
  <2>1. CASE Sell
    <3>. DEFINE i == Head(requests).slot
    <3>1. Send(Bought(sold \cup {i})) /\ sold' = sold \cup {i}
      BY <2>1 DEF Sell
    <3>2. sold' \subseteq Slots
      BY DEF IInv, TypeOK
    <3>. QED  BY <3>1, <3>2 DEF Bought, PacketType, IsAnswer
  <2>2. CASE Refuse
    BY <2>2 DEF Refuse, Refused, PacketType, IsAnswer
  <2>. QED  BY <2>1, <2>2
<1>3. UNCHANGED <<auto_trade, buy_pending>>
  BY DEF Sell, Refuse, marketVars
<1>4. Orders # {}
  <2>1. 1 \in DOMAIN requests /\ requests[1].type = "Buy"
    BY <1>1, RequestFacts
  <2>. QED  BY <2>1 DEF Orders, Ordered
<1>5. AnswersSent = {}
  BY <1>4, Counted, CountedNext DEF IInv
<1>6. /\ DOMAIN wire' = 1..(Len(wire) + 1) /\ Len(wire) \in Nat
      /\ DOMAIN wire = 1..Len(wire)
      /\ \A n \in DOMAIN wire : wire'[n] = wire[n]
      /\ wire'[Len(wire) + 1] = m
  BY <1>2, SendFacts
<1>7. AnswersSent' = {Len(wire) + 1}
  BY <1>2, <1>5, <1>6 DEF AnswersSent, Answered
<1>8. AnswerKinds' = {m.type}
  BY <1>6, <1>7 DEF AnswerKinds
<1>9. Orders' = {}
  BY <1>7, Counted, CountedNext DEF IInv
<1>10. /\ Cardinality(Orders) = 1 /\ Cardinality(AnswersSent) = 0
       /\ Cardinality(Orders') = 0 /\ Cardinality(AnswersSent') = 1
  BY <1>4, <1>5, <1>7, <1>9, Counted, CountedNext DEF IInv
<1>. QED  BY <1>2, <1>3, <1>8, <1>10 DEF Trade!Answer, IsAnswer

\* Everything else the bot and the server do is no part of the trade.
LEMMA OtherStutters ==
  ASSUME IInv, IInv',
         BlackMarketTick \/ Inform \/ PushData \/ PushResources \/ PushRefreshResources
           \/ Refresh \/ (\E k \in Kinds : Produce(k)) \/ UNCHANGED vars
  PROVE  UNCHANGED Trade!vars
<1>1. UNCHANGED <<auto_trade, buy_pending>>
  BY DEF BlackMarketTick, Inform, PushData, PushResources, PushRefreshResources,
         Refresh, Produce, vars, marketVars
<1>2. (Orders' = {} <=> Orders = {}) /\ AnswerKinds' = AnswerKinds
        /\ (AnswersSent' = {} <=> AnswersSent = {})
  <2>. USE DEF Ordered, Answered, IsAnswer, Orders, AnswersSent, AnswerKinds
  <2>1. CASE BlackMarketTick
    <3>1. requests' = Append(requests, Info) /\ wire' = wire
      BY <2>1 DEF BlackMarketTick
    <3>2. requests \in Seq(RequestType) /\ Info \in RequestType /\ Info.type # "Buy"
      BY DEF IInv, TypeOK, Info, RequestType
    <3>3. /\ requests' \in Seq(RequestType) /\ Len(requests') = Len(requests) + 1
          /\ \A n \in 1..Len(requests) : requests'[n] = requests[n]
          /\ requests'[Len(requests) + 1] = Info
      BY <3>1, <3>2, AppendProperties
    <3>4. /\ DOMAIN requests' = 1..(Len(requests) + 1) /\ Len(requests) \in Nat
          /\ DOMAIN requests = 1..Len(requests)
      BY <3>2, <3>3, LenProperties
    <3>5. Orders' = Orders
      BY <3>2, <3>3, <3>4
    <3>. QED  BY <3>1, <3>5
  <2>2. CASE Inform \/ PushData \/ PushResources \/ PushRefreshResources
    <3>1. PICK m \in {Data, Resources, RefreshResources} : Send(m)
      BY <2>2 DEF Inform, PushData, PushResources, PushRefreshResources
    <3>2. m \in PacketType /\ ~IsAnswer(m)
      BY DEF IInv, TypeOK, Data, Resources, RefreshResources, PacketType
    <3>3. /\ DOMAIN wire' = 1..(Len(wire) + 1) /\ Len(wire) \in Nat
          /\ DOMAIN wire = 1..Len(wire)
          /\ \A n \in DOMAIN wire : wire'[n] = wire[n]
          /\ wire'[Len(wire) + 1] = m
      BY <3>1, <3>2, SendFacts
    <3>4. AnswersSent' = AnswersSent /\ AnswersSent \subseteq DOMAIN wire
      BY <3>2, <3>3
    <3>5. AnswerKinds' = AnswerKinds
      <4>. HIDE DEF AnswersSent
      <4>. QED  BY <3>3, <3>4
    <3>6. Orders' = {} <=> Orders = {}
      <4>1. CASE requests' = requests
        BY <4>1
      <4>2. CASE Request("Info")
        <5>1. requests \in Seq(RequestType) /\ requests # <<>> /\ requests' = Tail(requests)
              /\ requests[1].type = "Info"
          BY <4>2, RequestFacts DEF IInv, TypeOK, Request
        <5>2. /\ requests' \in Seq(RequestType) /\ Len(requests') = Len(requests) - 1
              /\ \A n \in 1..Len(requests') : requests'[n] = requests[n + 1]
          BY <5>1, HeadTailProperties
        <5>3. /\ DOMAIN requests' = 1..Len(requests') /\ Len(requests') \in Nat
              /\ DOMAIN requests = 1..Len(requests) /\ Len(requests) \in Nat
          BY <5>1, <5>2, LenProperties
        <5>4. \A n \in Orders' : n + 1 \in Orders
          BY <5>2, <5>3
        <5>5. \A n \in Orders : n - 1 \in Orders'
          BY <5>1, <5>2, <5>3
        <5>. QED  BY <5>4, <5>5
      <4>. QED  BY <2>2, <4>1, <4>2 DEF Inform, PushData, PushResources, PushRefreshResources
    <3>. QED  BY <3>4, <3>5, <3>6
  <2>3. CASE Refresh \/ (\E k \in Kinds : Produce(k)) \/ UNCHANGED vars
    BY <2>3 DEF Refresh, Produce, vars
  <2>. QED  BY <2>1, <2>2, <2>3
<1>3. /\ Cardinality(Orders') = Cardinality(Orders)
      /\ Cardinality(AnswersSent') = Cardinality(AnswersSent)
  BY <1>2, Counted, CountedNext DEF IInv
<1>. QED  BY <1>1, <1>2, <1>3 DEF Trade!vars

\* The trade implements Exchange: one order, one answer, and only the answer, or a
\* chat message, ends the wait (buy_pending), whatever else the bot reads and sends.
THEOREM MarketImplementsExchange == Spec => ImplementsExchange
<1>1. Init => Trade!Init
  <2>. SUFFICES ASSUME Init PROVE Trade!Init
    OBVIOUS
  <2>1. Orders = {} /\ AnswersSent = {} /\ AnswerKinds = {}
    BY DEF Init, Orders, AnswersSent, AnswerKinds
  <2>2. Cardinality(Orders) = 0 /\ Cardinality(AnswersSent) = 0
    BY <2>1, FS_EmptySet
  <2>. QED  BY <2>1, <2>2, MarketAssumption DEF Init, Trade!Init
<1>2. IInv /\ IInv' /\ [Next]_vars => [Trade!Next]_(Trade!vars)
  <2>. SUFFICES ASSUME IInv, IInv', [Next]_vars PROVE Trade!Next \/ UNCHANGED Trade!vars
    OBVIOUS
  <2>1. CASE RecvBlackMarket_Data \/ RecvResources \/ RecvRefreshResources
    BY <2>1, ReadAsks DEF Trade!Next
  <2>2. CASE RecvBlackMarket_Bought \/ RecvBlackMarket_Refused
    BY <2>2, AnswerIsRead DEF Trade!Next
  <2>3. CASE RecvChatMessage
    <3>1. auto_trade' = FALSE /\ buy_pending' = FALSE /\ requests' = requests /\ wire' = wire
      BY <2>3 DEF RecvChatMessage
    <3>2. Orders' = Orders /\ AnswersSent' = AnswersSent /\ AnswerKinds' = AnswerKinds
      BY <3>1 DEF Orders, AnswersSent, AnswerKinds, Ordered, Answered
    <3>. QED  BY <3>1, <3>2 DEF Trade!Next, Trade!Forget
  <2>4. CASE Sell \/ Refuse
    BY <2>4, ServerAnswers DEF Trade!Next
  <2>5. CASE BlackMarketTick \/ Inform \/ PushData \/ PushResources \/ PushRefreshResources
               \/ Refresh \/ (\E k \in Kinds : Produce(k)) \/ UNCHANGED vars
    BY <2>5, OtherStutters
  <2>. QED  BY <2>1, <2>2, <2>3, <2>4, <2>5 DEF Next, RecvPacket, Server, Serve
<1>. QED  BY MarketInvariant, <1>1, <1>2, PTL DEF Spec, ImplementsExchange, Trade!Spec
================================================================================
