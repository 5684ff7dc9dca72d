--------------------------- MODULE ResourceTransfer ---------------------------
(***************************************************************************)
(* The bank: a player asks for resources by chat or mail, the bot looks up *)
(* where the player's castle is and sends marches there until the amount   *)
(* is delivered.  Translated from ResourceCommandHandler (command.c) and   *)
(* ResourceTransferTick, SendResourceMarch, RecvAllyPoint, RecvSHelp and   *)
(* RecvHelp_Home (protocol.c).                                             *)
(*                                                                         *)
(* The game server is modelled by what the bot can see of it: it answers   *)
(* lookups and orders in the order they were sent, each at a time of its   *)
(* own choosing, and brings marches home when it likes.  A castle is       *)
(* identified with the player who owns it; NoOne stands for zone 0, point  *)
(* 0 and for the empty name.                                               *)
(***************************************************************************)
EXTENDS Naturals, Sequences

CONSTANTS
  Players,         \* alliance members who may send commands
  NoOne,           \* the zeroed target_name, and the castle at zone 0 point 0
  Kinds,           \* resource types
  Food,            \* RESOURCE_FOOD, the zero of the enumeration
  Asks,            \* amounts a command may name; 0 stands for a bad one
  Capacity,        \* what RecvAllBuildData adds to supply_capacity
  MaxMarches,      \* marches the castle may have out
  Reserve,         \* Connection.bank.reserve, 0 after LoadConfig
  LookupWait,      \* 10 seconds in ResourceTransferTick
  Stock,           \* resources the server starts with
  MaxCommands,     \* bound: commands looked at
  ChatArrives,     \* may chat packets arrive, or mail only
  BadNumbers       \* may RecvSHelp, RecvHelp_Home carry a march number of 8 or more

ASSUME TransferAssumption ==
  /\ NoOne \notin Players
  /\ Food \in Kinds
  /\ Asks \subseteq Nat
  /\ Capacity \in Nat /\ MaxMarches \in Nat /\ LookupWait \in Nat
  /\ Stock \in [Kinds -> Nat] /\ Reserve \in [Kinds -> Nat]
  /\ MaxCommands \in Nat
  /\ ChatArrives \in BOOLEAN /\ BadNumbers \in BOOLEAN

VARIABLES
  transfer,         \* Connection.transfer; timeout is kept as seconds left
  resources,        \* Connection.resources, the bot's copy of the stock
  current_marches,  \* Connection.player.current_marches
  max_marches,      \* Connection.player.max_marches
  supply_capacity,  \* Connection.supply_capacity
  ordered,          \* history: sent so far for the request in transfer
  commands,         \* history: resource commands received
  upset,            \* history: what has upset the count of marches
  stock,            \* server: the castle's resources
  lookups,          \* server: names to look up, oldest first
  orders,           \* server: marches ordered and not yet answered
  out,              \* server: marches on the road
  greeted           \* server: the login packets already sent

botVars == <<transfer, resources, current_marches, max_marches,
             supply_capacity, ordered>>
serverVars == <<stock, lookups, orders, out, greeted>>
vars == <<botVars, commands, upset, serverVars>>

States == {"IDLE", "FIND_TARGET", "WAIT_TARGET", "SEND_MARCH", "WAIT_MARCH",
           "COMPLETE", "FAILED"}

\* ResourceTransfer after memset.
Zeroed ==
  [state |-> "IDLE", target |-> NoOne, kind |-> Food, amount |-> 0,
   remaining |-> 0, timeout |-> 0, place |-> NoOne]

Init ==
  /\ transfer = Zeroed
  /\ resources = [k \in Kinds |-> 0]
  /\ current_marches = 0
  /\ max_marches = 0
  /\ supply_capacity = 0
  /\ ordered = 0
  /\ commands = 0
  /\ upset = {}
  /\ stock = Stock
  /\ lookups = <<>>
  /\ orders = <<>>
  /\ out = 0
  /\ greeted = {}

-----------------------------------------------------------------------------
\* Commands

\* What the reserve leaves of the bot's copy of the stock.
Spendable(k) == IF resources[k] <= Reserve[k] THEN 0 ELSE resources[k] - Reserve[k]

\* memset(c->chat.message, 0, 4096) runs past the 1024 bytes of the message;
\* of the state here it zeroes Connection.player.
ChatPacket ==
  /\ ChatArrives
  /\ current_marches' = 0
  /\ max_marches' = 0
  /\ upset' = upset \cup {"chat"}

MailPacket == UNCHANGED <<current_marches, max_marches, upset>>

\* Mutants are named after the operator they change.
Busy_WhileRemaining(p) ==
  transfer.state # "IDLE" /\ transfer.target # p /\ transfer.remaining > 0

Busy(p) == transfer.state # "IDLE" /\ transfer.target # p

\* A request of the same player replaces the one under way.
Current == IF transfer.state = "IDLE" THEN transfer ELSE Zeroed

Accept(p, k, a) ==
  /\ ~Busy(p)
  /\ a # 0 /\ a <= Spendable(k)
  /\ transfer' = [Current EXCEPT !.state = "FIND_TARGET", !.target = p,
                                 !.kind = k, !.amount = a, !.remaining = a]
  /\ ordered' = 0

\* A bad amount, or more than there is ("Not Enough Resources").
Refuse(p, k, a) ==
  /\ ~Busy(p)
  /\ a = 0 \/ a > Spendable(k)
  /\ transfer' = Current
  /\ ordered' = IF transfer.state = "IDLE" THEN ordered ELSE 0

\* "Transfer Busy".
Reject(p) == Busy(p) /\ UNCHANGED <<transfer, ordered>>

\* A resource command, by chat or by mail: command_handler picks the kind.
Command(p, k, a) ==
  /\ commands < MaxCommands
  /\ commands' = commands + 1
  /\ ChatPacket \/ MailPacket
  /\ Accept(p, k, a) \/ Refuse(p, k, a) \/ Reject(p)
  /\ UNCHANGED <<resources, supply_capacity, serverVars>>

\* A chat message that is no command; "$stop", which the "Transfer Busy" mail
\* advises, is none.
Chatter ==
  /\ ChatPacket
  /\ UNCHANGED <<transfer, ordered, resources, supply_capacity, commands,
                 serverVars>>

-----------------------------------------------------------------------------
\* ResourceTransferTick: does nothing until the trading post is known

Ticks(s) == transfer.state = s /\ supply_capacity # 0

TickFindTarget ==
  /\ Ticks("FIND_TARGET")
  /\ lookups' = Append(lookups, transfer.target)
  /\ transfer' = [transfer EXCEPT !.state = "WAIT_TARGET", !.timeout = LookupWait]
  /\ UNCHANGED <<resources, current_marches, max_marches, supply_capacity,
                 ordered, commands, upset, stock, orders, out, greeted>>

Expired_Never == FALSE
Expired == transfer.timeout = 0

TickWaitTarget ==
  /\ Ticks("WAIT_TARGET")
  /\ Expired
  /\ transfer' = [transfer EXCEPT !.state = "FAILED"]
  /\ UNCHANGED <<resources, current_marches, max_marches, supply_capacity,
                 ordered, commands, upset, serverVars>>

Least(a, b) == IF a <= b THEN a ELSE b

CalculateTransferAmount_NoRemaining == Least(Spendable(transfer.kind), supply_capacity)

CalculateTransferAmount ==
  Least(Least(Spendable(transfer.kind), transfer.remaining), supply_capacity)

FreeMarch == current_marches < max_marches

\* The march order: one kind, the others 0.
SendResource(amount) ==
  orders' = Append(orders, [place |-> transfer.place, kind |-> transfer.kind,
                            amount |-> amount])

\* SendResourceMarch with nothing left to send, or nothing to send it from.
TickNothingToSend ==
  /\ Ticks("SEND_MARCH")
  /\ FreeMarch
  /\ transfer.remaining = 0 \/ CalculateTransferAmount = 0
  /\ transfer' = [transfer EXCEPT !.state = "COMPLETE"]
  /\ UNCHANGED <<resources, current_marches, max_marches, supply_capacity,
                 ordered, commands, upset, serverVars>>

TickSendMarch ==
  /\ Ticks("SEND_MARCH")
  /\ FreeMarch
  /\ transfer.remaining # 0 /\ CalculateTransferAmount # 0
  /\ LET amount == CalculateTransferAmount IN
       /\ SendResource(amount)
       /\ transfer' = [transfer EXCEPT !.state = "WAIT_MARCH",
                                       !.remaining = @ - amount]
       /\ ordered' = ordered + amount
  /\ UNCHANGED <<resources, current_marches, max_marches, supply_capacity,
                 commands, upset, stock, lookups, out, greeted>>

\* COMPLETE and FAILED last until the next tick.
TickEnd ==
  /\ Ticks("COMPLETE") \/ Ticks("FAILED")
  /\ transfer' = [transfer EXCEPT !.state = "IDLE"]
  /\ UNCHANGED <<resources, current_marches, max_marches, supply_capacity,
                 ordered, commands, upset, serverVars>>

ResourceTransferTick ==
  \/ TickFindTarget \/ TickWaitTarget \/ TickNothingToSend \/ TickSendMarch
  \/ TickEnd

\* A second goes by on the lookup timer.
Second ==
  /\ transfer.state = "WAIT_TARGET" /\ transfer.timeout > 0
  /\ transfer' = [transfer EXCEPT !.timeout = @ - 1]
  /\ UNCHANGED <<resources, current_marches, max_marches, supply_capacity,
                 ordered, commands, upset, serverVars>>

-----------------------------------------------------------------------------
\* Packets from the server

\* RecvAllyPoint: status 0 carries a castle, but no name.
RecvAllyPoint ==
  /\ lookups # <<>>
  /\ lookups' = Tail(lookups)
  /\ \/ /\ transfer.state = "WAIT_TARGET"
        /\ \/ transfer' = [transfer EXCEPT !.state = "SEND_MARCH",
                                           !.place = Head(lookups)]
           \/ transfer' = [transfer EXCEPT !.state = "FAILED"]
     \/ transfer.state # "WAIT_TARGET" /\ UNCHANGED transfer
  /\ UNCHANGED <<resources, current_marches, max_marches, supply_capacity,
                 ordered, commands, upset, stock, orders, out, greeted>>

\* RecvSHelp, b = 0 and b2 < 8: the march is on the road.
RecvSHelp ==
  /\ orders # <<>>
  /\ Head(orders).amount <= stock[Head(orders).kind] /\ out < MaxMarches
  /\ stock' = [stock EXCEPT ![Head(orders).kind] = @ - Head(orders).amount]
  /\ orders' = Tail(orders)
  /\ out' = out + 1
  /\ current_marches' = current_marches + 1
  /\ transfer' = [transfer EXCEPT !.state = "SEND_MARCH"]
  /\ UNCHANGED <<resources, max_marches, supply_capacity, ordered, commands, upset,
                 lookups, greeted>>

RecvSHelpRefused_Restores ==
  /\ orders # <<>>
  /\ orders' = Tail(orders)
  /\ transfer' = [transfer EXCEPT !.state = "FAILED",
                                  !.remaining = @ + Head(orders).amount]
  /\ UNCHANGED <<resources, current_marches, max_marches, supply_capacity,
                 ordered, commands, upset, stock, lookups, out, greeted>>

\* The march is counted before the status is looked at.
RecvSHelpRefused_Counts ==
  /\ orders # <<>>
  /\ orders' = Tail(orders)
  /\ current_marches' = current_marches + 1
  /\ transfer' = [transfer EXCEPT !.state = "FAILED"]
  /\ UNCHANGED <<resources, max_marches, supply_capacity, ordered, commands, upset,
                 stock, lookups, out, greeted>>

RecvSHelpRefused_Ignored ==
  /\ orders # <<>>
  /\ orders' = Tail(orders)
  /\ UNCHANGED <<botVars, commands, upset, stock, lookups, out, greeted>>

\* RecvSHelp, b # 0: the server refuses, for reasons of its own.
RecvSHelpRefused ==
  /\ orders # <<>>
  /\ orders' = Tail(orders)
  /\ transfer' = [transfer EXCEPT !.state = "FAILED"]
  /\ UNCHANGED <<resources, current_marches, max_marches, supply_capacity,
                 ordered, commands, upset, stock, lookups, out, greeted>>

\* RecvSHelp, b = 0 and b2 >= 8: the march is on the road, and the bot, which
\* takes the answer for a refusal, does not count it.
RecvSHelpUncounted ==
  /\ BadNumbers
  /\ orders # <<>>
  /\ Head(orders).amount <= stock[Head(orders).kind] /\ out < MaxMarches
  /\ stock' = [stock EXCEPT ![Head(orders).kind] = @ - Head(orders).amount]
  /\ orders' = Tail(orders)
  /\ out' = out + 1
  /\ transfer' = [transfer EXCEPT !.state = "FAILED"]
  /\ upset' = upset \cup {"order"}
  /\ UNCHANGED <<resources, current_marches, max_marches, supply_capacity,
                 ordered, commands, lookups, greeted>>

MarchBack_Uncounted == current_marches
MarchBack == IF current_marches > 0 THEN current_marches - 1 ELSE 0

\* RecvHelp_Home, b < 8: a march is back, and the stock is as the server has it.
RecvHelp_Home ==
  /\ out > 0
  /\ out' = out - 1
  /\ resources' = stock
  /\ current_marches' = MarchBack
  /\ transfer' = [transfer EXCEPT
                    !.state = IF transfer.remaining > 0 THEN "SEND_MARCH"
                                                        ELSE "COMPLETE"]
  /\ UNCHANGED <<max_marches, supply_capacity, ordered, commands, upset, stock,
                 lookups, orders, greeted>>

\* RecvHelp_Home, b >= 8.
RecvHelp_HomeBad ==
  /\ BadNumbers
  /\ out > 0
  /\ out' = out - 1
  /\ transfer' = [transfer EXCEPT !.state = "FAILED"]
  /\ upset' = upset \cup {"homecoming"}
  /\ UNCHANGED <<resources, current_marches, max_marches, supply_capacity,
                 ordered, commands, stock, lookups, orders, greeted>>

\* RecvResources and RecvRefreshResources: the bot's copy becomes current.
RecvResources ==
  /\ resources # stock
  /\ resources' = stock
  /\ UNCHANGED <<transfer, current_marches, max_marches, supply_capacity,
                 ordered, commands, upset, serverVars>>

\* The login packets that matter here, once each.
RecvMarchData ==
  /\ "marches" \notin greeted
  /\ greeted' = greeted \cup {"marches"}
  /\ max_marches' = MaxMarches
  /\ current_marches' = out
  /\ UNCHANGED <<transfer, resources, supply_capacity, ordered, commands, upset,
                 stock, lookups, orders, out>>

RecvAllBuildData ==
  /\ "buildings" \notin greeted
  /\ greeted' = greeted \cup {"buildings"}
  /\ supply_capacity' = supply_capacity + Capacity
  /\ UNCHANGED <<transfer, resources, current_marches, max_marches, ordered,
                 commands, upset, stock, lookups, orders, out>>

Login == RecvMarchData \/ RecvAllBuildData

-----------------------------------------------------------------------------
Next ==
  \/ \E p \in Players, k \in Kinds, a \in Asks : Command(p, k, a)
  \/ Chatter
  \/ ResourceTransferTick
  \/ Second
  \/ RecvAllyPoint
  \/ RecvSHelp \/ RecvSHelpRefused \/ RecvSHelpUncounted
  \/ RecvHelp_Home \/ RecvHelp_HomeBad
  \/ RecvResources
  \/ Login

Spec == Init /\ [][Next]_vars

\* The bot's loop turns and the clock runs; nothing is assumed of the server.
ClockSpec == Spec /\ WF_vars(ResourceTransferTick) /\ WF_vars(Second)

\* A server that answers every order, sends its login packets and brings every
\* march home.
FairSpec ==
  /\ ClockSpec
  /\ WF_vars(RecvSHelp \/ RecvSHelpRefused \/ RecvSHelpUncounted)
  /\ WF_vars(RecvHelp_Home \/ RecvHelp_HomeBad)
  /\ WF_vars(RecvMarchData) /\ WF_vars(RecvAllBuildData)

-----------------------------------------------------------------------------
\* Properties

TransferType ==
  [state : States, target : Players \cup {NoOne}, kind : Kinds, amount : Nat,
   remaining : Nat, timeout : 0..LookupWait, place : Players \cup {NoOne}]

OrderType == [place : Players \cup {NoOne}, kind : Kinds, amount : Nat]

\* Types; remaining and the stock are naturals, never a wrapped difference.
TypeOK ==
  /\ transfer \in TransferType
  /\ resources \in [Kinds -> Nat] /\ stock \in [Kinds -> Nat]
  /\ current_marches \in Nat /\ max_marches \in Nat
  /\ supply_capacity \in Nat /\ ordered \in Nat
  /\ commands \in Nat /\ out \in Nat
  /\ lookups \in Seq(Players)
  /\ orders \in Seq(OrderType)
  /\ greeted \subseteq {"marches", "buildings"}
  /\ upset \subseteq {"chat", "order", "homecoming"}

\* A request is never overdrawn: through refusals, failures, marches that come
\* home late and revive it, and requests that replace it, what was ordered for
\* it and what remains add up to what was asked (no u32 wrap of remaining).
Accounted == ordered + transfer.remaining = transfer.amount

\* A lookup is only ever started for a player.
LookupTarget == transfer.state = "FIND_TARGET" => transfer.target \in Players

\* TRANSFER_WAIT_MARCH has no timeout (SendResourceMarch): the bank waits there
\* only while an order is unanswered, also when its owner replaced the request
\* that an order was for, so that two answers are on their way.
WaitAnswered == transfer.state = "WAIT_MARCH" => orders # <<>>

\* current_marches, by which SendResourceMarch decides, follows the marches on the
\* road through refusals, replaced requests and late homecomings.  Three packets
\* upset it: a chat message and an order accepted under a march number of 8 or
\* more can make it too low, a homecoming under such a number too high.
MarchesCounted ==
  /\ upset \cap {"chat", "order"} = {} => out <= current_marches
  /\ "homecoming" \notin upset => current_marches <= out

\* A request under way is never displaced by another player's: only its owner
\* replaces it ("Different player -> reject", command.c).
NotDisplaced ==
  [][transfer'.target \in Players /\ transfer'.target # transfer.target
       => transfer.state = "IDLE"]_vars

\* A lookup the server never answers does not block the bank.
LookupEnds == transfer.state = "WAIT_TARGET" ~> transfer.state # "WAIT_TARGET"

\* With a server that answers orders and brings marches home, the bank is
\* never busy for good.
BusyEnds == transfer.state # "IDLE" ~> transfer.state = "IDLE"

\* connection.h says of target_name "Who will receive resource?": the castle that
\* RecvAllyPoint stores for a request is the one of that player.
RightCastle ==
  [][transfer'.place # transfer.place
       => transfer'.place \in {NoOne, transfer'.target}]_vars

\* configuration.md: commands are received by GUILD and WORLD chat as well as
\* by mail, and "The banking system handles resource transfer commands": with
\* chat, too, a request comes to an end.
BusyEndsWithChat == BusyEnds
==============================================================================
