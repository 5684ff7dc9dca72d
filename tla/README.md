# Verification of lmbot

lmbot is a headless client of the game *Lords Mobile*: it logs in through a
gateway, holds one TCP connection to a game server, parses the packets that
arrive, keeps a copy of the castle's state, and acts on it: it sends resources
to alliance members, buys from the cargo ship, raises shields, opens gifts.

This directory holds TLA+ modules translated from the C sources, TLC
configurations that model-check them on small instances, and theorems that
TLAPS proves for every value of the constants.  Paths below are those of the
repository (`src/main.c`, `docs/configuration.md`, ...).  `PROJECT.json` maps
every definition to the lines it translates.

    tlc -config MCTransfer.cfg MCTransfer              # a run
    tlapm ResourceTransfer_proofs.tla                  # proofs of a module

## 1. The system

The bot is one thread.  `main` connects, and `ProcessConnection` loops: it runs
`BotTick`, calls `recv`, and hands every complete packet to the handler of its
type.  Handlers write into one structure, `Connection`, and may send requests;
ticks do the same on the strength of what handlers stored.  Nothing is
persisted and there are no locks; what makes the program hard is that every
exchange with the server is split over several packets, and that anything may
arrive between a request and its answer.

| Component | State it keeps | Operations | Interacts with |
| --- | --- | --- | --- |
| Packet stream (`main.c`, `connection.h`) | `PacketStream`: a 4096-byte buffer, two cursors | `recv`, parse, dispatch, compact | feeds every handler |
| Session (`main.c`, `connection.c`, `protocol.c`) | `sock`, login data, `server_time`, `last_heartbeat` | connect, login, disconnect, heartbeat | gateway, then game server |
| Resource transfer (`command.c`, `protocol.c`) | `transfer`, march counters, `resources`, `supply_capacity` | commands, `ResourceTransferTick`, `RecvAllyPoint`, `RecvSHelp`, `RecvHelp_Home` | chat, mail, login packets, resources |
| Cargo ship (`protocol.c`) | `market`, `resource_loaded` | market packets, `EvaluateBlackMarket`, `BlackMarketTick` | resources, configuration |
| Protection (`protocol.c`) | `protection`, `shield_info`, `items` | watchtower alerts, `UsePriorityShield`, `RecvUseItem`, `RecvIBuffInfo` | bag, configuration |
| Configuration (`config.c`) | the settings inside `Connection` | `LoadConfig`, `ParserConfig` | read once, before connecting |
| Alliance gifts (`protocol.c`) | gift table, `gift_offset`, `gift_state` | gift packets, `AllianceGiftTick`, `RecvRoleUpdateInfo` | login, tick |
| Alliance members (`protocol.c`) | member table, `recv_index`, `data_finished`, `count` | full lists and updates | login |
| Alliance help (`protocol.c`) | `record_sn`, `record_sn_arr` | single requests, lists of requests | requests |
| Rallies (`protocol.c`) | tables of ally, enemy and darknest rallies, and of members | war hall packets, `RequestRallyDetail` | login |
| Packet building (`net_rw.h`, `protocol.c`) | `Connection.data`, `size`, `seq_id` | `write_*`, `read_*`, `Request...`, `Send...` | everything that sends |
| Encryption (`des.c`, `connection.c`) | none | DES on blocks, `send_packet` | packet building |
| Map points (`map_point.c`) | none | coordinate conversions | ally points, rallies |
| Troops, technology, buildings (`protocol.c`) | tables | handlers that record and print | — |
| Packet names, logging | constant tables | output | — |

What is hard, and what makes each component correct:

* **Packet stream.**  TCP cuts the stream anywhere.  The packets dispatched
  must depend on the bytes only; no whole packet may wait in the buffer for a
  later one; `recv` must never be given a zero-length buffer, whose 0 the loop
  takes for "Disconnected".
* **Session.**  Two connections share one buffer and one `sock`; a failure may
  come at each step between them.  No more than one descriptor is open and
  `sock` names it, the game server's packets are cut from its own bytes only, and the
  login carries what the gateway granted.  A heartbeat is due every 15 seconds although
  only the loop's turn sends it.
* **Resource transfer.**  A state machine driven by ticks, answers, marches that
  come home and commands of several players, which may meet in any order.  What
  was ordered and what remains must add up to what was asked; another player's
  request is not displaced; the bank gets free again.
* **Cargo ship.**  Lists, stock updates and answers each start an evaluation.
  Together they must not order twice, nor before the stock is known, and must
  not stop trading.
* **Protection.**  Alerts come in bursts and may overtake the packets that say
  which shield is up and what is in the bag, the latter in parts.  One shield per
  attack, the right one, none while another is up, and one for every attack.
* **Alliance.**  Lists come in several packets, with announcements, updates and
  deletions between them, and the offsets that tell where a list goes on are
  shared with ticks and updates.  No table is written past its end; when a list
  is read the table is that list; every gift and every request for help is
  dealt with, and none twice.
* **Packet building and encryption.**  A packet says its own length, does not
  outgrow the 4096-byte buffer, and means to a reader what was written; what is
  decrypted is what was encrypted.
* **Configuration.**  The last line that assigns a setting wins, lists shrink as
  well as grow, and a wrong line anywhere keeps the bot from starting.

`PROJECT.json` lists the hazards line by line, each with the property that
would catch it going wrong, or the reason why none does yet.

## 2. Modules and their correspondence to the code

Every action is one handler, one tick branch or one step of the loop; its
comment names the function.  Operators with a suffix (`Busy_WhileRemaining`)
are mutants: plausible slips of the operator they are named after.  No
specification uses them; they document which slip each property catches.

**FrameSpec / PacketStream.**  `FrameSpec` is the promise: a stream of bytes,
the number that have arrived, the position dealt with, and the frames
delivered.  `PacketStream` is the loop of `ProcessConnection`: `Recv` stores
any number of bytes up to the room there is, `DropHeader`, `Dispatch` and `Wait`
are the three ways through the inner loop, `Wait` including the `memmove`.
`base` and `delivered` are history variables.  The refinement maps `arrived` to
`base + read_pos` and `pos` to `base + parse_pos`.

**Exchange** is the promise of a flag called "pending": the bot asks when nothing is
open, the server answers once, only an answer ends the wait (some answers do not), and
the next request may follow at once.  `BlackMarket` implements it with `buy_pending`,
orders and their answers; the bot is `willing` while it trades, and a chat message,
which clears both, is `Forget`.  `Protection` implements it with `shield_info.pending`;
of the answers only `Used`, of a shield that `RecvUseItem` knows, ends the wait.

**Session** extends `PacketStream` and conjoins its actions with those of
`main`: `ConnectGateway`, `ConnectGame` (with the `memset` of the stream),
`Finish`, the failures between them, `BotTick` with `HeartbeatTick`, the login
handlers and `RecvActive`.  `nonblocking` is chosen freely when the game
connection opens, because `main` only logs a failure of `set_nonblocking`.
`HeartbeatKept` is stated with `ClockRuns`: while `server_time` is 0 `BotTick` returns
at its first test, so that a server time of 0 silences the bot until the next one.

**ResourceTransfer** has `Connection.transfer` and the counters its decisions
depend on; the server is a queue of lookups, a queue of orders, its own stock
and the marches on the road.  `Command` is `ResourceCommandHandler` (accept,
refuse, reject; a request of the same player replaces the one under way).  The
five branches of `ResourceTransferTick` are five actions.  `timeout` is kept as
the seconds left; a castle is identified with its owner.  The three
answers to an order are `RecvSHelp`, `RecvSHelpRefused`, and `RecvSHelpUncounted`: the
march is on the road, but under a number of 8 or more, which the bot takes for a failure
and does not count.  `upset` is a history variable: which of the three packets that
make the count of marches wrong, a chat message, an order accepted under such a
number or a homecoming under one, have come so far.

**BlackMarket** has the fields of `Connection.market`, the two directions of
the connection as queues, and a server that sells, refuses, refreshes and pushes
lists and stock when it likes.  `EvaluateBlackMarket` takes as arguments the
fields its callers have just set.  `held` records which refresh the list came
from and replaces the comparison of `refresh_time` with the clock in
`BlackMarketTick`.

**Protection** has `shield_info`, the bag as the bot knows it and as the server has it,
and the two queues.  A packet of the list of the bag tells of any set of shields, as
`RecvItemInfo` stores the items listed and leaves the others alone; whole lists, parts
in any order and parts that never come are among them.  `told`, `gained` and `raided`
are history: the shields that a list has told of, those that came into the bag, and
whether an attack was reported that calls for a shield the bot knew of.  `ShieldTick`
and the recall of camps are not actions: no file can set their switches (see *Config*
and section 6), so the first returns at its second test and the second does nothing.

**Config** reads a file of abstract lines.  Keys whose value is copied as it is
are one key; the five reserves are one; the six switches that are parsed stand
for all of them, next to four that the documentation lists and the parser
does not know.  `Assigning` says which lines assign a setting: for
`protection.enabled` also those about `shield_always_on`, for `shield_always_on`
none (`config.c:205`).  `CreateDefaultConfig` is the file that `--create-config` writes,
as far as its lines set one of these; `Shields` are the names that `ParseShield` knows.

**AllianceGift** has the table of `AllianceSettings`, the slot that serves both
as the place to write the next gift and as the place where the tick starts, and
the state of the tick.  The server cuts its list anywhere, announces gifts
(`RecvRoleUpdateInfo` opens those at once), and reports deletions, which nothing
in the repository asks for.  **AllianceMember** has the table of members: a
member is an id and how recent the rest of the entry is.  An update has any members
in any order and a value of `b2` from `UpdateLast`.  A packet carries
`first`, which the code does not see, to say which packet begins a list.
**AllianceHelp** has the record read last and the array that lists are copied
through; `told` and `helped` are history.  **WarHall** has the four tables of
rallies; a write past a table is a write to a slot it does not have, which the
type invariant excludes.  `shown` is what the server showed last.  **Parts** holds what
the invariants of `AllianceGift` and `AllianceMember` have in common: a list that comes
in parts stands in a row of *places* (the table, each packet on the wire, what the
server has still to send), and is told of by where lists begin and end in that row.

**NetRW**, **Requests** and **Des** have no state.  `NetRW` has the functions of
`net_rw.h` on sequences of octets, with offsets that count from 0 and 64-bit
numbers as two halves.  `Requests` has what each `Request...` and `Send...`
function writes behind the header, and the header (`Packet`).  `Des` has `des.c`
with blocks as functions from bit numbers, so that a shift or mask of the code
is a choice of bits; `Encrypted` is what `send_packet` does with it.  The operators
of `Des` were evaluated on twelve random blocks and keys and agree with the compiled
`des.c` both ways.

**MapPoint** has the conversions of `map_point.c` between point codes, map ids
and positions as operators on integers, with the widths of the code's types.
It has no state and no run; its statements are theorems.

In `ResourceTransfer` and `BlackMarket` a chat packet has the side effect of
`RecvChatMessage`'s `memset` over 4096 bytes (section 6), as the members of
`Connection` are laid out in `connection.h`.

## 3. Runs

| Run | States | What it shows |
| --- | --- | --- |
| MCPacketStream | 2,449 | however `recv` cuts six streams (full buffers, impossible sizes, truncated and terminal packets), the loop implements `FrameSpec`, live part included; `recv` always has room |
| MCSession | 145,217 | one descriptor at a time, the buffer between the two connections, the identity, the heartbeat |
| MCTransfer | 890,761 | amounts, owners and march counts through all orders of commands, answers, refusals and homecomings, chat damage and march numbers the bot does not take included; lookups and requests end |
| MCMarket | 941,404 | orders and answers are an `Exchange`; one order at a time, of a slot not yet sold, with a known stock; everything worth buying is bought |
| MCShield | 1,761,267 | requests and answers are an `Exchange`; one at a time, the first shield of the list as far as the parts of the bag read so far tell, none wasted; requests end, and attacks reported while the bot knows of a shield are shielded |
| MCConfig | 34,997 | settings are those of the last lines that assign them, wrong files are refused, the file that `--create-config` writes is not |
| MCAlliance | 580,784 | gifts, members, help and rallies: tables keep their bounds and hold what was sent; a ready bot opens what is new, each request told is answered once |
| MCTransferRecipient | — | the late answer to one player's castle lookup becomes the target of another player's transfer |
| MCTransferChat | — | after a chat packet the bank stays busy |
| MCMarketReserve | — | two purchases in a row cut into the reserve |
| MCGiftOpened | — | a gift already opened is opened again |
| MCMemberUpdate | — | an update with `b2 = 1` makes a member list begin anew in its middle |

The runs without a count end at a counterexample; each shows a disagreement of
code and documentation, listed in section 6.

Three of the run modules hold two instances of their component: `MCTransfer`,
`MCMarket` and `MCShield` have a variable `live`, chosen at the start, that says
whether a behaviour is of the server at its worst, about which only safety is
asked, or of `Live`, an instance of the same module with the constants and the
fairness under which the properties named `...Live` are stated.  Safety
invariants are checked of both.  In `MCAlliance` the variable `focus` says in the
same way which of the four components a behaviour is of: they share no state,
and the product of their states would say no more.

### Bounds

* `BUFFER_SIZE = 8` stands for 4096: with 4-byte headers it fits a frame of
  exactly the buffer, two empty frames, and a header cut at every byte.  The
  proofs are for every size.
* `INTERVAL = 2` and `MAX_NOW = 7` stand for 15 seconds: three heartbeats fit.
* `MaxCommands = 3` (2 in the live instance) with two players: a request, one that
  displaces or replaces it, and one after; `Capacity = 2` with asks of 2 and 3
  makes one-march and two-march transfers; two marches are enough for one to
  come home while the other's order is unanswered; `LookupWait = 1` stands for
  10 seconds, the timer may expire before or after the answer.
* `WORD = 8` and `U32 = 4` stand for 2^32.  Two slots and one refresh show every
  order of list, answer and stock that involves an old list; a third slot is
  behind one that is refused.  Each kind of unasked packet is on the wire at
  most once at a time, which bounds the queue without forbidding an order of
  packets: a second copy of a list behind the first can be sent when the first
  is read.
* Two shields, one of them the 14 day shield that `RecvUseItem` does not know;
  three moments of time; one more of each may come into the bag.  Every nonempty set
  of shields is a part of the list of the bag.  `MaxWire = 4` packets are on the wire
  when one is sent unasked: an answer, a list of buffs, a part of the bag and an alert
  in any order.
* Two gifts and two slots, two lists: gifts that are there at login and gifts that
  come later, a list cut between them, a second list after deletions.  The table
  is as large as the box, which is the case at which an offset could leave it.
* Three members, a table of two and `U8 = 3`: lists that fit, lists that do not, and
  one long enough for `count` to wrap; two lists, and one update of any members
  before, between and behind them, with `UpdateLast = {TRUE}`: an update is
  complete in itself (`b2 = 1`), as the code takes it to be.
* Two requests for help, an array of two, four tellings: a list that fills the array,
  a short one behind it, single requests between.
* Two rallies on one index, at most two packets and requests on the way; indices
  up to the first that a table does not have.
* Files of up to three lines and two priority slots: a line, one that
  contradicts it, one between; a list that fits, one that is cut, one whose
  unknown name lies behind the cut.

`CHECK_DEADLOCK FALSE` is set where a run stops for good reasons: `ResourceTransfer`
runs out of commands, the alliance's servers out of lists and packets, and `Config` ends
with the file.

### Fairness

Safety properties need none.  The live instances assume weak fairness of

* the bot's own steps (`Parse`; `ResourceTransferTick`; `RecvPacket`;
  `BlackMarketTick`; `GiftPacket`, `AllianceGiftTick`): one thread, which goes
  round its loop again and again, at least as long as the game socket does not
  block.  The ticks run only after the server's time is known, which is the
  first thing the game server sends;
* the clock (`Second`);
* the server's answers to orders, and its login packets, because the code has no
  timeout for them and relies on TCP.  Lookups are the exception: they do
  have a timeout, so no fairness is assumed of `RecvAllyPoint`, and
  `LookupEndsLive` holds without answers.

Liveness also needs assumptions that the constants of the live instances state, each
because the code has no way out otherwise: `ChatArrives = FALSE` (the damage of chat
packets is the subject of its own run), `BadNumbers = FALSE` (a march number of 8 or
more is not counted when the order is answered, and returns before the counter is
decremented when the march comes home), `RefusesAtWill = FALSE` (a slot refused for ever
is tried first for ever; a refused shield request leaves `pending` set), in `MCShield`
shields that do not run out (`active` is only corrected by the next list of buffs), and
for gifts `EmptyLast = FALSE` (an empty last packet leaves `gift_offset` behind the
list, where the tick finds nothing).  `KnownAttackShieldedLive` is about attacks
reported while the bot knows of a shield it may use; the others are lost (section 6).
`ReadyOpensLive` says what follows once the tick is ready; that it gets ready needs a
deletion, which no fairness provides.

## 4. Theorems

Those about state machines are of the form *the specification implies the
property, always*, for every value of the constants that the modules' `ASSUME`s
allow (sizes are naturals, the buffer holds a header, streams are bytes, ...).
`PROJECT.json` lists them.

* **PacketStream_proofs.**  `LoopInvariant` proves `IInv`: types, that
  `parse_pos = 0` whenever `recv` is called, that the buffer is the stretch of
  the stream starting at `base`, and that nothing dispatchable is left at
  `recv`.  `RoomToReceiveAlways` needs all of it: were there no room, the
  buffer would be full and start with a header that is either impossible or
  announces a frame no longer than the buffer, hence a whole one.
  `LoopImplementsFrames` maps every step of the loop to a step or a stutter of
  `FrameSpec`: the header in the buffer is the header in the stream.
* **Session_proofs.**  `SessionInv` is the loop's `IInv`, carried from one
  connection to the other by `ResetStream`, with the types, `OneSocketOpen` and
  `Entered`: what must hold between the phases (in the gateway's loop nothing
  is granted before its end, the game is entered with a login sent).  The run's
  safety properties but one follow.  `OneSocketOpenAlways` says that at most one
  descriptor is open and that `sock` names it; it does not say that the last one
  is closed when `main` returns, which after a hang-up of the gateway it is not
  (`main.c:846`).  `HeartbeatKeptAlways` has an invariant of its own,
  `HeartbeatInv`: the loop parses before it ticks again, a beat was sent with a
  server time that is not back at 0, and behind a tick less than `INTERVAL` has
  passed, so that the one second that may go by before the next tick is allowed.
* **ResourceTransfer_proofs.**  `IInv` adds to the types that what was ordered and
  what remains add up to the amount asked, from which follows that a march never
  takes more than remains and the unsigned difference does not wrap
  (`NeverOverdrawn`).  `NeverDisplaced` is the action property: only the owner of
  a request replaces it.  `WaitsForAnswer` says that the state without a timeout,
  `TRANSFER_WAIT_MARCH`, is never entered or kept without an order open;
  `CountsMarches` relates `current_marches` to the marches on the road: it says of the
  three packets recorded in `upset` that nothing else makes the count wrong, and each
  only in one direction: a chat message or an order accepted under a bad number too low,
  a homecoming under one too high.
* **BlackMarket_proofs.**  `OneOrder` is not inductive: that no second order is
  sent depends on `buy_pending`, which chat packets clear.  `IInv` adds that
  while the bot trades and nothing is pending no order is open (chat packets
  also end trading), and that the stock was known when an order on its way, or
  an answer, was given.  `SoldOnceAlways` needs `SoldInv`: what the bot's status,
  the lists and the sales on the way say of the refresh they come from.
  `MarketImplementsExchange` maps orders on their way to `asked`, answers on their way
  to `unread`, and every step of bot and server to one of `Exchange` or a stutter: the
  evaluation that an answer starts may order again within the same step, and that of
  a list or of stock orders only while nothing is open, which is `IInv`.
* **Protection_proofs.**  `ShieldInvariant` proves `WasteInv`, which adds to one
  open request what the bot's knowledge is worth: an open request that was sent
  knowingly was sent without a shield; `loaded`, not `active` and not `pending`
  mean that no shield is up; and a list of buffs on its way that says "no
  shield" is true or has an answer behind it.  `NoWasteEver` follows.
  `FirstListedAlways` says of a request that its shield is in the bag and that of the
  shields before it in the list none is which a part of the bag, read before, told of.
  It needs `BagInv`: the bot never counts more of a shield than the bag holds, unless
  the answer that takes it away is still to be read, and of the shields in `told` never
  less, except for what came in since; and the same of every part of the bag and every
  answer on the wire.  An answer can only be behind a list when a
  request was open, which `ShieldInvariant` gives.  `ShieldImplementsExchange` maps
  requests and answers as in the market.
* **Config_proofs.**  The properties are about loaded files, so `ConfigInv` states
  them of the lines read so far: a setting is what the last line that assigns it says,
  and its default if there is none (`SwitchesRead`, `PriorityRead`, `ReserveRead`), for
  files of any length and lists of any length.  No switch is left out: a line about
  `shield_always_on` is one that assigns `protection.enabled` (section 6).
  `SettingsAsWrittenAlways` follows.
  `DefaultAcceptedAlways` is about one file, the generated one, but for any number of
  slots: `DefaultInv` says that no line of it read so far was refused or turned
  anything on.
* **Alliance_proofs.**  Rallies: the last packet on the way about an entry says what the
  server shows, or, if there is none, the table does (`WireEndsAsShown`). Members: a
  list is never written past the table, wherever it is cut.  Help: `OneHelpPerTelling`
  is inductive once lists on the way are known to fit the array and to name each record
  once; the proof counts records in sequences.  How many records there are over time is
  not bounded, only the length of a list. Gifts and member lists are proved with
  `Parts`.  `GiftInv` says that what is behind the last beginning of a list is that list
  (`WholeList`), that nothing is in it twice (`OnceEach`), so that the table cannot grow
  past the box, that the slot for the next gift is the end of the table while a list is
  coming (`OffsetAtEnd`; after the tick has used it as its start it is not), and that a
  mark is true or its deletion is on the way (`Marks`).  `Within` says that what is
  written and still to be written fits the table.  The module's server sends a list only
  if it fits the table's 300 slots, without which the code writes past them
  (`protocol.c:2401`); how many gifts there are over time is not bounded.  `RollInv`
  says the same of the members' list sent last, if it fits the table, and adds that its
  packets take turns (`RollTurns`: a packet continues a list exactly if the one before,
  or the table, has not finished one), because `data_finished` and `recv_index` are all
  the code has to tell a first packet by, and that where no update of a member follows,
  what is said of it is recent (`TableFresh`, `WireFresh`).  The theorems assume that no
  update comes inside a list, which *MCMemberUpdate* shows to be necessary, that updates
  carry `b2 = 1`, and that the table is shorter than the 8 bits of `count` are wide, as
  100 is.  Lists that do not fit the table are in `MemberTypeCorrect`, which assumes
  none of this.
* **Wire_proofs.**  Numbers of 16 and 32 bits are read as they were written at any
  place of a packet (`ReadWrite`), a packet says its length, type and number
  (`Framed`), which is what `PacketStream` cuts by, and the packets with texts and
  lists fit the buffer under the conditions stated (`ChatFits`, `MailFits`,
  `HelpFits`).  `JoinRallySays`: the mask and the counts behind it mean to the reader
  the troops chosen.  `DecryptEncrypt` holds for data of every length and every
  key: a round is its own inverse up to a swap, the two key schedules are each
  other's reverse, and the outer permutations are inverse.  `SentFramed`: encrypted
  packets are still cut rightly.  Map points: a tile's map id survives the way
  to its point code and back (`IdByCode`), a code the way to the id and back
  (`CodeById`), and an id the way to the position and back (`IdByPosition`).
  `CodeByPosition` says where `MapPosToPointCode` and `getPointCodeByMapPos` agree.

## 5. What is only model-checked, and what is not modelled

Every invariant and every action property that a passing run checks is also proved.
TLC alone checks

* liveness under fairness (`LookupEndsLive`, `BusyEndsLive`, the `...Live` properties of
  market, shields and gifts), and the live part of the refinement of `FrameSpec`, for
  which the proof system has no rule here;
* that the operators of `Des` are those of the compiled code, on examples (section 2);
* the disagreements of section 6, which are counterexamples.

The type invariants of `PacketStream`, `Session` and `AllianceHelp` are proved and are in no
run; their parts that could go wrong are in the properties of the runs.  The invariants
that make the others inductive were checked on the runs' instances before they were
proved, and are in no run of their own.

Not modelled:

* the handlers of army, technology and building queue: they fill tables that
  nothing decides on;
* `RecvAddConflictLine`, which recalls camps: `recall_on_incoming_conflict` is never set (the
  call of `Configuration` is commented out at `main.c:822`, `config.c` does not parse
  the key);
* `DarknestRallyTick`, commented out of `BotTick` (`main.c:74`); darknest rallies are
  never deleted, and members of a rally are kept without the rally;
* packet names, logging, texts of chat and mail, distances, and sources that are
  empty or not compiled (`bank.c`, `bot/command.c`, `protocol/login.c`);
* lines of the configuration file longer than 511 bytes, which `fgets` cuts in
  two; partial results of `send`, at which no caller looks.

`BotTick`'s guard on `server_time` is in `Session`; the other modules start after it.

## 6. Where code and documentation disagree

Shown by a run:

1. `RecvChatMessage` clears 4096 bytes of a 1024-byte array (`protocol.c:1106`) and
   with it the march counters, the market, and its settings.  From then on no
   march is free: a request stays in `SEND_MARCH` (*MCTransferChat*).  Trading
   stops as well.
2. The answer to a castle lookup carries no name and is accepted whenever one is
   awaited (`protocol.c:2278`).  A lookup expires (`protocol.c:4243`), another player
   asks, and the late answer is taken for the castle of the second
   (*MCTransferRecipient*).
3. The stock left after a purchase is read and dropped (`protocol.c:1928`), and
   the next purchase is decided on the stock before it
   (*MCMarketReserve*, against `main.c:766`).
4. `RecvAllianceGiftOpen` returns before it marks the gift (`protocol.c:2453`): a gift
   already opened is "Unopened gift" (`protocol.c:2946`) to the next tick
   (*MCGiftOpened*).
5. `RecvAllianceMemberInfo` sets `data_finished` and `recv_index` from updates too
   (`protocol.c:4436`): an update with `b2 = 1` between two packets of a list makes the
   second one the "Start of a new full member list" (`protocol.c:4369`) (*MCMemberUpdate*).

Met while reading, and modelled as the code has it:

* An empty packet of gifts returns before `gift_offset` is reset (`protocol.c:2388`);
  `gift_state` gets ready only by the report of a deletion, and is left in OPENING by
  the reply to an opening.
* `count` of the members is 8 bits wide and counts members that the table has no
  slot for (`protocol.c:4375`).
* `vsnprintf` admits mails of 4095 bytes, `MailFits` 40 less than the buffer with the
  subject (`protocol.c:528`).
* `$stop`, which the "Transfer Busy" mail advises (`command.c:185`), is no command.
* `bank.enabled` is not looked at (the test is commented out, `command.c:77`), and
  none of the `bank.*` keys of `docs/configuration.md` is parsed; the bank's
  reserve is 0.
* `reserve + price` is a 32-bit sum and wraps (`protocol.c:1782`); reserves are cut
  to 32 bits when read (`config.c:280`).
* `RecvSHelp` sets `TRANSFER_SEND_MARCH` whatever the state is (`protocol.c:4314`).  When
  a player replaces his request while an order is unanswered, the answer lets the new
  transfer march before its target is looked up, to zone 0, point 0.
* An order names a slot only; if the market is refreshed on its way it buys what
  the slot offers then (`protocol.c:1880`), also for a resource whose `spend_*` is off.
* The list of the bag comes in parts, and `RecvItemInfo` does not look at which part
  one is (`protocol.c:1197`): an alert in between may use a later shield of the list
  than the first available (`docs/configuration.md:239`).  `FirstListed` says what
  holds: no shield that was told of is passed over.
* An attack reported before the list of the bag finds no shield and is not looked
  at again (`protocol.c:2689`), against `main.c:720`.  `KnownAttackShieldedLive` is therefore
  about attacks reported while the bot knows of a shield.
* `protection.shield_always_on` assigns `protection.enabled` (`config.c:205`); with the
  order of lines in the default file it turns protection off, against `main.c:714`.
  `SettingsAsWritten` takes such a line for what it does.  `recall_on_*` is never parsed.
* An order accepted under a march number of 8 or more is taken for a failure, and its
  march is not counted (`protocol.c:4281`).
* `SHIELD_14D` is missing from the list in `RecvUseItem` (`protocol.c:2542`), so that
  using one leaves `pending` set, as does a refusal (`protocol.c:2570`).
* From odd positions of even rows, which hold no tile, `MapPosToPointCode` goes to
  the tile on the left and `getPointCodeByMapPos` to the one on the right, which
  for x = 511 lies in the next row (`map_point.c:47`).  On every other position
  they agree (theorem `CodeByPosition`).
* `shield_info.active` is never cleared by time (`protocol.c:2730`), and alerts do not
  look at `loaded`, as `ShieldTick` does.

## 7. Plan

Done: all modules above; proofs of every safety property the runs check, and of the
refinements of `FrameSpec` (without its live part) and of `Exchange` by market and shields.

Left, in this order:

1. **Bot**: the transfer, the market and the shields over one connection, with
   one queue each way and `BotTick`'s order of ticks; properties that relate
   them (resources spent by the market while a march is ordered; more orders out
   than `current_marches` shows free).
2. An abstract specification of the bank, which delivers an amount to a player in
   marches, and the proof that `ResourceTransfer` implements it, step by step.
