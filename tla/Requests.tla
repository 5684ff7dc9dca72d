------------------------------- MODULE Requests -------------------------------
(***************************************************************************)
(* The packets the bot sends (protocol.c) as the bytes that are built in   *)
(* Connection.data: the size of the whole, the type, the number of the     *)
(* packet in the session, and the payload.  The two packets of the login   *)
(* have no number and are not encrypted.  The types are parameters of no   *)
(* interest and keep their names.                                          *)
(***************************************************************************)
EXTENDS NetRW, FiniteSets

\* Connection.data
BUFFER == 4096

\* The constant items of items.h that a packet names.
ADVANCE_RELOCATOR == 1004
WITHDRAW_SQUAD == 1001
NEWBIE_TELEPORT == 1005
RENAME == 1006

Login(type, payload) == write_u16(4 + Len(payload)) \o write_u16(type) \o payload

Packet(type, seq, payload) ==
  write_u16(8 + Len(payload)) \o write_u16(type) \o write_u32(seq) \o payload

\* Whether the packet fits the buffer it is built in.
Fits(payload) == 8 + Len(payload) <= BUFFER

-----------------------------------------------------------------------------
\* Login

RequestGuestLogIn(auth, app) ==
  write_u64(auth.igg_id) \o write_u8(app.version_minor) \o write_u8(app.version_major)
    \o write_u16(app.version_patch) \o write_u8(1) \o write_u8(app.language_code)
    \o write_raw(auth.device_uuid, 50) \o write_u16(auth.session_len)
    \o write_raw(auth.session, 512)

RequestLogIn(auth) ==
  write_u64(auth.igg_id) \o write_zero(50) \o write_u32(0) \o write_u8(0) \o write_u8(0)
    \o write_u16(auth.session_len) \o write_raw(auth.session, 512)

RequestClientInitOver(igg_id) == write_u64(igg_id)

\* RequestHeartBeat, CancelTroopTraining, RequestAllianceMemberInfo,
\* RequestAllianceGiftInfo and RequestRallyList have nothing to say.
Nothing == <<>>

-----------------------------------------------------------------------------
\* Items: what follows the item and how many is 10 bytes, whatever the item.

UseItem(item_id, quantity, rest) == write_u16(item_id) \o write_u16(quantity) \o rest

Place(kingdom_id, zone_id, point_id) ==
  write_u16(kingdom_id) \o write_u16(zone_id) \o write_u8(point_id) \o write_zero(5)

RequestSimpleUseItem(item_id, quantity) == UseItem(item_id, quantity, write_zero(10))

RequestUseAdvancedRelocator(kingdom_id, zone_id, point_id) ==
  UseItem(ADVANCE_RELOCATOR, 1, Place(kingdom_id, zone_id, point_id))

ServerNewbieTeleport(kingdom_id, zone_id, point_id) ==
  UseItem(NEWBIE_TELEPORT, 1, Place(kingdom_id, zone_id, point_id))

RequestTroopRecall(index) ==
  UseItem(WITHDRAW_SQUAD, 1, write_u8(index) \o write_zero(9))

ServerRename(bought, num, name, length) ==
  write_u8(bought) \o write_u16(num) \o write_u16(RENAME) \o write_u8(length)
    \o write_raw(name, 12)

RequestBuyItem(type, key, item_id, qty) ==
  write_u8(type) \o write_u16(key) \o write_u16(item_id) \o write_u16(qty)

RequestBuyGiftItem(type, key, item_id, qty, name) ==
  write_u8(type) \o write_u16(key) \o write_u16(item_id) \o write_raw(name, 13)
    \o write_u16(qty)

RequsetWorldTeleportItemCount(power) == write_u64(power)

-----------------------------------------------------------------------------
\* The castle: cargo ship, troops, buildings, missions

GetBlackMarketData == write_u8(1)
SendBlackMarketBuy(mIdx) == write_u8(mIdx)

\* The items are those of the connection; the parameter smart_use is not read.
RequestSmartUseBlackMarketBuy(items, mIdx) ==
  write_u8(mIdx) \o write_u16(Len(items))
    \o [n \in 1..(4 * Len(items)) |->
          LET item == items[((n - 1) \div 4) + 1]
              k == (n - 1) % 4 IN
            (write_u16(item.id) \o write_u16(item.qty))[k + 1]]

RequestTroopTraining(kind, tier, amount) ==
  write_u8(kind) \o write_u8(tier) \o write_u32(amount)

SendStartBuilding(position_id, build_id, operation_type) ==
  write_u16(position_id) \o write_u16(build_id) \o write_u8(operation_type)

\* For the two types of mission only: the code sends nothing for another.
RequestMissionInfo(missionType) == write_u8(missionType + 1)

ServerMagicGateDoEvent(n, x) == write_u16(n) \o write_u8(x)

-----------------------------------------------------------------------------
\* The map and marches

RequestMapData(count, zone) ==
  write_u8(count) \o write_u16(At(zone, 0)) \o write_u16(At(zone, 1))
    \o write_u16(At(zone, 2)) \o write_u16(At(zone, 3)) \o write_zero(32)

SendResource(resource, zoneId, pointId) ==
  write_u16(zoneId) \o write_u8(pointId) \o write_u32(resource.food)
    \o write_u32(resource.rock) \o write_u32(resource.wood) \o write_u32(resource.ore)
    \o write_u32(resource.gold)

RequestAllyPoint(name) == write_raw(name, 13)
RequestTroopTakeBack(index) == write_u32(index)

-----------------------------------------------------------------------------
\* Chat and mail.  A message is its bytes, its length that of the string.

RequestSendChat(channel, message) ==
  write_u8(channel) \o write_u8(0) \o write_u8(5)
    \o write_u16(Len(message)) \o write_raw(message, Len(message) % (256 * 256))

RequestViewChat(version_major, channel, prev, kind, DataID, DataTime) ==
  write_u8(channel) \o write_u8(prev)
    \o (IF version_major # 0 THEN write_i8(kind) ELSE Nothing)
    \o (IF channel # 0 THEN write_u64(DataID) \o write_u64(DataTime) ELSE Nothing)

RequestSendMail(player_name, subject, message) ==
  write_u32(0) \o write_raw(player_name, 13) \o write_u8(1)
    \o write_u8(Len(subject)) \o write_u16(Len(message)) \o write_u8(0)
    \o write_raw(subject, Len(subject) % 256)
    \o write_raw(message, Len(message) % (256 * 256)) \o write_zero(10)

\* vsnprintf keeps what fits buf, less the byte that ends the string.
RequestSendMailFmt(player_name, subject, formatted) ==
  LET length == IF Len(formatted) < 4096 THEN Len(formatted) ELSE 4095 IN
    RequestSendMail(player_name, subject, SubSeq(formatted, 1, length))

-----------------------------------------------------------------------------
\* The alliance

\* A sequence of 32-bit numbers, one after the other.
Words(numbers) ==
  [n \in 1..(4 * Len(numbers)) |-> write_u32(numbers[((n - 1) \div 4) + 1])[((n - 1) % 4) + 1]]

RequestHelpAllianceMember(record_sn) == write_u16(Len(record_sn)) \o Words(record_sn)

RequestOpenAllianceGift(SN) == write_u32(SN)
RequestDeleteAllianceGiftBox(sn) == write_u32(sn)
RequestRallyDetail(type, index) == write_u8(type) \o write_u32(index)

TROOPS == 0..15

\* Which troops go, and the mask that says so.
Selected(troop_array) == {i \in TROOPS : troop_array[i] # 0}

Mask(S) == [k \in 1..4 |-> Octet([j \in 0..7 |-> IF 8 * (k - 1) + j \in S THEN 1 ELSE 0])]

\* How many of S come before i, and the one of which that many do.
Rank(S, i) == Cardinality({j \in S : j < i})
Nth(S, r) == CHOOSE i \in S : Rank(S, i) = r

RequestJoinRally(ally_name, troop_array) ==
  LET S == Selected(troop_array) IN
    write_raw(ally_name, 13) \o Mask(S)
      \o Words([r \in 1..Cardinality(S) |-> troop_array[Nth(S, r - 1)]]) \o write_u8(0)

\* How the bot reads a mask and the numbers that follow it (RecvWallHallTroop):
\* a number for each bit that is set, read one after the other.
ReadSelected(data, offset) ==
  {i \in 0..31 : Bit(At(data, offset + (i \div 8)), i % 8) = 1}

ReadTroops(data, offset, troops) ==
  LET S == ReadSelected(data, offset) \cap troops IN
    [i \in troops |-> IF i \in S THEN read_u32(data, offset + 4 + 4 * Rank(S, i)) ELSE 0]

-----------------------------------------------------------------------------
Send_Mall_TestBuy == write_zero(50)
RequestUnknown == write_u8(0)
===============================================================================
