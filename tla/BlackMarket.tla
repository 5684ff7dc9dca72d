------------------------------ MODULE BlackMarket ------------------------------
(***************************************************************************)
(* Cargo ship trading: EvaluateBlackMarket of protocol.c, the packets that *)
(* call it and BlackMarketTick.  The market offers a few slots, each sold  *)
(* once for a resource, and is refreshed by the server now and then.       *)
(*                                                                         *)
(* The game server is modelled by what the bot can see of it: it takes     *)
(* requests and sends packets in order on one connection each way, sells,  *)
(* refuses, refreshes and pushes its data when it likes.                   *)
(***************************************************************************)
EXTENDS Naturals, Sequences, FiniteSets

CONSTANTS
  Slots,           \* 0..3 in the code
  Kinds,           \* resource kinds
  Food,            \* RESOURCE_FOOD, the zero of the enumeration
  Offers,          \* what a slot may offer: a kind and a count
  AutoTrade,       \* market.settings.auto_trade after LoadConfig
  Spend,           \* the kinds whose market.settings.spend_* is set
  Reserve,         \* market.reserve
  WORD,            \* 2^32: the width of reserve, count and stock
  Stock,           \* resources the server starts with
  MaxStock,        \* bound: production stops here
  MaxRefresh,      \* bound: refreshes looked at
  ChatArrives,     \* may chat packets arrive
  RefusesAtWill    \* may the server refuse an order it could honour

OfferType == [kind : Kinds, count : Nat]

ASSUME MarketAssumption ==
  /\ Slots \subseteq Nat
  /\ Food \in Kinds
  /\ Offers \subseteq OfferType
  /\ AutoTrade \in BOOLEAN
  /\ Spend \subseteq Kinds
  /\ WORD \in Nat \ {0}
  /\ Reserve \in [Kinds -> Nat] /\ Stock \in [Kinds -> Nat]
  /\ MaxStock \in Nat /\ MaxRefresh \in Nat
  /\ ChatArrives \in BOOLEAN /\ RefusesAtWill \in BOOLEAN

VARIABLES
  loaded,           \* Connection.market.loaded
  buy_pending,      \* market.buy_pending
  trade_status,     \* market.trade_status, the set of its one bits
  items,            \* market.items
  auto_trade,       \* market.settings.auto_trade
  resource_loaded,  \* Connection.resource_loaded
  resources,        \* Connection.resources
  held,             \* history: the refresh the items come from
  requests,         \* requests on their way to the server
  wire,             \* packets on their way to the bot
  gen,              \* server: refreshes so far
  sold,             \* server: slots sold since the last one
  offers,           \* server: what the slots offer
  stock             \* server: the castle's resources

marketVars == <<loaded, buy_pending, trade_status, items, auto_trade, held>>
stockVars == <<resource_loaded, resources>>
serverVars == <<gen, sold, offers, stock>>
vars == <<marketVars, stockVars, requests, wire, serverVars>>

NoOffer == [kind |-> Food, count |-> 0]

Init ==
  /\ loaded = FALSE
  /\ buy_pending = FALSE
  /\ trade_status = {}
  /\ items = [i \in Slots |-> NoOffer]
  /\ auto_trade = AutoTrade
  /\ resource_loaded = FALSE
  /\ resources = [k \in Kinds |-> 0]
  /\ held = 0
  /\ requests = <<>>
  /\ wire = <<>>
  /\ gen = 0
  /\ sold = {}
  /\ offers \in [Slots -> Offers]
  /\ stock = Stock

\* Requests and packets.
Buy(i, g) == [type |-> "Buy", slot |-> i, gen |-> g]
Info == [type |-> "Info"]
Data == [type |-> "Data", gen |-> gen, sold |-> sold, offers |-> offers]
Bought(s) == [type |-> "Bought", sold |-> s]
Refused == [type |-> "Refused"]
Resources == [type |-> "Resources", stock |-> stock]
RefreshResources == [type |-> "RefreshResources", stock |-> stock]

-----------------------------------------------------------------------------
\* EvaluateBlackMarket

CanAffordMarketItem(res, offer) ==
  res[offer.kind] >= (Reserve[offer.kind] + offer.count) % WORD

Tradable(status, its, res) ==
  {i \in Slots \ status : its[i].kind \in Spend /\ CanAffordMarketItem(res, its[i])}

\* Mutants are named after the operator they change.
EvaluateBlackMarket_Always(pending, status, its, res, g) ==
  IF auto_trade /\ Tradable(status, its, res) # {}
    THEN \E i \in Tradable(status, its, res) :
           /\ \A j \in Tradable(status, its, res) : i <= j
           /\ requests' = Append(requests, Buy(i, g))
           /\ buy_pending' = TRUE
    ELSE buy_pending' = pending /\ UNCHANGED requests

EvaluateBlackMarket_OneBased(pending, status, its, res, g) ==
  IF auto_trade /\ ~pending /\ Tradable(status, its, res) # {}
    THEN \E i \in Tradable(status, its, res) :
           /\ requests' = Append(requests, Buy(i + 1, g))
           /\ buy_pending' = TRUE
    ELSE buy_pending' = pending /\ UNCHANGED requests

\* Orders the first slot worth trading, unless an order is pending.  The
\* arguments are the fields its callers have just set.
EvaluateBlackMarket(pending, status, its, res, g) ==
  IF auto_trade /\ ~pending /\ Tradable(status, its, res) # {}
    THEN \E i \in Tradable(status, its, res) :
           /\ \A j \in Tradable(status, its, res) : i <= j
           /\ requests' = Append(requests, Buy(i, g))
           /\ buy_pending' = TRUE
    ELSE buy_pending' = pending /\ UNCHANGED requests

-----------------------------------------------------------------------------
\* Packets from the server

Receive(type) == wire # <<>> /\ Head(wire).type = type /\ wire' = Tail(wire)

RecvBlackMarket_Data_Eager ==
  /\ Receive("Data")
  /\ LET m == Head(wire) IN
       /\ trade_status' = m.sold
       /\ items' = m.offers
       /\ held' = m.gen
       /\ EvaluateBlackMarket(buy_pending, m.sold, m.offers, resources, m.gen)
  /\ loaded' = TRUE
  /\ UNCHANGED <<auto_trade, stockVars, serverVars>>

RecvBlackMarket_Data_ClearsPending ==
  /\ Receive("Data")
  /\ trade_status' = Head(wire).sold
  /\ items' = Head(wire).offers
  /\ held' = Head(wire).gen
  /\ buy_pending' = FALSE
  /\ loaded' = TRUE
  /\ UNCHANGED <<auto_trade, requests, stockVars, serverVars>>

\* A new list; the evaluation waits for the resources (TryEvaluateBlackMarket).
RecvBlackMarket_Data ==
  /\ Receive("Data")
  /\ LET m == Head(wire) IN
       /\ trade_status' = m.sold
       /\ items' = m.offers
       /\ held' = m.gen
       /\ IF resource_loaded
            THEN EvaluateBlackMarket(buy_pending, m.sold, m.offers, resources, m.gen)
            ELSE UNCHANGED <<buy_pending, requests>>
  /\ loaded' = TRUE
  /\ UNCHANGED <<auto_trade, stockVars, serverVars>>

RecvBlackMarket_Bought_OldStatus ==
  /\ Receive("Bought")
  /\ IF loaded
       THEN EvaluateBlackMarket(FALSE, trade_status, items, resources, held)
       ELSE buy_pending' = FALSE /\ UNCHANGED requests
  /\ UNCHANGED <<loaded, items, auto_trade, held, trade_status, stockVars, serverVars>>

\* result = 0: the new status; the stock left, also in the packet, is dropped.
RecvBlackMarket_Bought ==
  /\ Receive("Bought")
  /\ trade_status' = Head(wire).sold
  /\ IF loaded
       THEN EvaluateBlackMarket(FALSE, Head(wire).sold, items, resources, held)
       ELSE buy_pending' = FALSE /\ UNCHANGED requests
  /\ UNCHANGED <<loaded, items, auto_trade, held, stockVars, serverVars>>

RecvBlackMarket_Refused_KeepsPending ==
  /\ Receive("Refused")
  /\ UNCHANGED <<marketVars, requests, stockVars, serverVars>>

\* result # 0: nothing is evaluated.
RecvBlackMarket_Refused ==
  /\ Receive("Refused")
  /\ buy_pending' = FALSE
  /\ UNCHANGED <<loaded, trade_status, items, auto_trade, held, requests, stockVars,
                 serverVars>>

RecvResources ==
  /\ Receive("Resources")
  /\ resources' = Head(wire).stock
  /\ resource_loaded' = TRUE
  /\ IF loaded
       THEN EvaluateBlackMarket(buy_pending, trade_status, items, Head(wire).stock, held)
       ELSE UNCHANGED <<buy_pending, requests>>
  /\ UNCHANGED <<loaded, trade_status, items, auto_trade, held, serverVars>>

RecvRefreshResources ==
  /\ Receive("RefreshResources")
  /\ resources' = Head(wire).stock
  /\ UNCHANGED <<marketVars, resource_loaded, requests, serverVars>>

\* memset(c->chat.message, 0, 4096) runs past the 1024 bytes of the message
\* and zeroes the market, its settings and resource_loaded.
RecvChatMessage ==
  /\ ChatArrives
  /\ loaded' = FALSE
  /\ buy_pending' = FALSE
  /\ trade_status' = {}
  /\ items' = [i \in Slots |-> NoOffer]
  /\ auto_trade' = FALSE
  /\ resource_loaded' = FALSE
  /\ UNCHANGED <<resources, held, requests, wire, serverVars>>

\* refresh_time + 5 is past: the server has refreshed the market since.
BlackMarketTick ==
  /\ loaded
  /\ held # gen
  /\ requests' = Append(requests, Info)
  /\ loaded' = FALSE
  /\ UNCHANGED <<buy_pending, trade_status, items, auto_trade, held, stockVars, wire,
                 serverVars>>

RecvPacket ==
  \/ RecvBlackMarket_Data \/ RecvBlackMarket_Bought \/ RecvBlackMarket_Refused
  \/ RecvResources \/ RecvRefreshResources

-----------------------------------------------------------------------------
\* The server

Send(m) == wire' = Append(wire, m)
Request(type) == requests # <<>> /\ Head(requests).type = type
                   /\ requests' = Tail(requests)

Honours(i) == i \notin sold /\ stock[offers[i].kind] >= offers[i].count

Sell ==
  /\ Request("Buy")
  /\ LET i == Head(requests).slot IN
       /\ Honours(i)
       /\ sold' = sold \cup {i}
       /\ stock' = [stock EXCEPT ![offers[i].kind] = @ - offers[i].count]
       /\ Send(Bought(sold \cup {i}))
  /\ UNCHANGED <<marketVars, stockVars, gen, offers>>

Refuse ==
  /\ Request("Buy")
  /\ RefusesAtWill \/ ~Honours(Head(requests).slot)
  /\ Send(Refused)
  /\ UNCHANGED <<marketVars, stockVars, serverVars>>

\* The answer to RequestMissionInfo.
Inform ==
  /\ Request("Info")
  /\ Send(Data)
  /\ UNCHANGED <<marketVars, stockVars, serverVars>>

Serve == Sell \/ Refuse \/ Inform

OnWire(type) == \E n \in DOMAIN wire : wire[n].type = type

\* Packets sent unasked: one of a kind on the wire at a time.
PushData ==
  /\ ~OnWire("Data")
  /\ Send(Data)
  /\ UNCHANGED <<marketVars, stockVars, requests, serverVars>>

PushResources ==
  /\ ~OnWire("Resources")
  /\ Send(Resources)
  /\ UNCHANGED <<marketVars, stockVars, requests, serverVars>>

PushRefreshResources ==
  /\ ~OnWire("RefreshResources")
  /\ Send(RefreshResources)
  /\ UNCHANGED <<marketVars, stockVars, requests, serverVars>>

Refresh ==
  /\ gen < MaxRefresh
  /\ gen' = gen + 1
  /\ sold' = {}
  /\ offers' \in [Slots -> Offers]
  /\ UNCHANGED <<marketVars, stockVars, requests, wire, stock>>

Produce(k) ==
  /\ stock[k] < MaxStock
  /\ stock' = [stock EXCEPT ![k] = @ + 1]
  /\ UNCHANGED <<marketVars, stockVars, requests, wire, gen, sold, offers>>

Server ==
  \/ Serve
  \/ PushData \/ PushResources \/ PushRefreshResources
  \/ Refresh
  \/ \E k \in Kinds : Produce(k)

-----------------------------------------------------------------------------
Next == RecvPacket \/ RecvChatMessage \/ BlackMarketTick \/ Server

Spec == Init /\ [][Next]_vars

\* The bot reads what arrives and its loop turns; the server answers, and
\* sends the market and the resources now and then.
FairSpec ==
  /\ Spec
  /\ WF_vars(RecvPacket) /\ WF_vars(BlackMarketTick)
  /\ WF_vars(Serve) /\ WF_vars(PushData) /\ WF_vars(PushResources)

-----------------------------------------------------------------------------
\* Properties

RequestType == [type : {"Buy"}, slot : Slots, gen : Nat] \cup [type : {"Info"}]

PacketType ==
  [type : {"Data"}, gen : Nat, sold : SUBSET Slots, offers : [Slots -> OfferType]]
    \cup [type : {"Bought"}, sold : SUBSET Slots]
    \cup [type : {"Refused"}]
    \cup [type : {"Resources", "RefreshResources"}, stock : [Kinds -> Nat]]

\* Types; orders name slots of the market, and the stock is never overdrawn.
TypeOK ==
  /\ loaded \in BOOLEAN /\ buy_pending \in BOOLEAN
  /\ auto_trade \in BOOLEAN /\ resource_loaded \in BOOLEAN
  /\ trade_status \subseteq Slots /\ sold \subseteq Slots
  /\ items \in [Slots -> OfferType] /\ offers \in [Slots -> OfferType]
  /\ resources \in [Kinds -> Nat] /\ stock \in [Kinds -> Nat]
  /\ held \in Nat /\ gen \in Nat
  /\ requests \in Seq(RequestType)
  /\ wire \in Seq(PacketType)

IsAnswer(m) == m.type \in {"Bought", "Refused"}
Ordered(n) == requests[n].type = "Buy"
Answered(n) == IsAnswer(wire[n])

\* The bot never has two orders open: through answers that overtake lists,
\* lists that arrive while an order is out, and a chat message that forgets
\* the order, at most one is on its way or answered and not yet read.
OneOrder ==
  /\ \A m, n \in DOMAIN requests : Ordered(m) /\ Ordered(n) => m = n
  /\ \A m, n \in DOMAIN wire : Answered(m) /\ Answered(n) => m = n
  /\ ~ \E m \in DOMAIN requests, n \in DOMAIN wire : Ordered(m) /\ Answered(n)

\* While the bot trades and has no order pending, none is open.
PendingIsOpen ==
  (auto_trade /\ ~buy_pending) =>
    /\ \A n \in DOMAIN requests : ~Ordered(n)
    /\ \A n \in DOMAIN wire : ~Answered(n)

\* Orders and their answers, among everything else that is on its way.
Orders == {n \in DOMAIN requests : Ordered(n)}
AnswersSent == {n \in DOMAIN wire : Answered(n)}
AnswerKinds == {wire[n].type : n \in AnswersSent}

Trade == INSTANCE Exchange WITH
           Answers <- {"Bought", "Refused"}, Frees <- {"Bought", "Refused"},
           willing <- auto_trade, pending <- buy_pending,
           asked <- Cardinality(Orders), unread <- Cardinality(AnswersSent),
           outcome <- AnswerKinds

\* The trade is an exchange of one order for one answer at a time, and only the
\* answer, or a chat message, ends the wait: through lists, stock and refreshes
\* read in between, and an evaluation that each of them starts.
ImplementsExchange == Trade!Spec

\* No slot is ordered twice: an order meant for the list the server still
\* offers is for a slot not sold since, so a trade is never paid for again.
SoldOnce ==
  \A n \in DOMAIN requests :
    (Ordered(n) /\ requests[n].gen = gen) => requests[n].slot \notin sold

\* No order is given before the resources of the login packet are known, though
\* a market list or a refresh may come first ("resource_loaded").
KnowsStock ==
  (\E n \in DOMAIN requests : Ordered(n)) => (resource_loaded \/ ~auto_trade)

\* The same while an answer is on its way: what makes KnowsStock inductive.
AnswerKnowsStock ==
  (\E n \in DOMAIN wire : Answered(n)) => (resource_loaded \/ ~auto_trade)

IInv == TypeOK /\ OneOrder /\ PendingIsOpen /\ KnowsStock /\ AnswerKnowsStock

\* What makes SoldOnce inductive: what the bot knows of the slots sold is true,
\* or the answer that corrects it is on its way.
Sale(n) == wire[n].type = "Bought"
Listed(n) == wire[n].type = "Data"

HeldPast == held <= gen

StatusTrue ==
  (auto_trade /\ held = gen) =>
    sold = trade_status \/ \E n \in DOMAIN wire : Sale(n)

ListsTrue ==
  \A n \in DOMAIN wire : Listed(n) =>
    /\ wire[n].gen <= gen
    /\ wire[n].gen = gen => wire[n].sold = sold \/ \E k \in DOMAIN wire : n < k /\ Sale(k)

SalesTrue ==
  \A n \in DOMAIN wire : Sale(n) =>
    \/ wire[n].sold = sold
    \/ held # gen /\ \A k \in DOMAIN wire : k < n /\ Listed(k) => wire[k].gen # gen

SoldInv == SoldOnce /\ HeldPast /\ StatusTrue /\ ListsTrue /\ SalesTrue

Wanted(i) ==
  /\ i \notin sold
  /\ offers[i].kind \in Spend
  /\ stock[offers[i].kind] >= Reserve[offers[i].kind] + offers[i].count

\* configuration.md: "Automatically completes Cargo Ship trades."  A slot that
\* may be bought, and can be without touching the reserve, does not stay on
\* offer for good.
TradesDone == AutoTrade => \A i \in Slots : Wanted(i) ~> ~Wanted(i)

\* main.c, of cargo_ship.reserve_*: "The bot always keeps at least this amount
\* and only spends the excess."
ReserveKept == [][\A k \in Kinds : stock'[k] < stock[k] => stock'[k] >= Reserve[k]]_vars
================================================================================
