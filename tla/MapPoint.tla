------------------------------- MODULE MapPoint -------------------------------
(***************************************************************************)
(* The conversions of map_point.c.  The map has 512 by 1024 positions, of  *)
(* which every second one, as on a chess board, holds a tile.  A tile has  *)
(* a map id, and a point code: the zone of 16 by 16 tiles and the point in *)
(* it.  The castle a march is sent to is named by its code, and printed by *)
(* its position.                                                           *)
(*                                                                         *)
(* On the numbers that occur, none of them negative, n & (2^k - 1), n >> k *)
(* and n << k are n % 2^k, n \div 2^k and n * 2^k.                         *)
(***************************************************************************)
EXTENDS Integers

\* 262144 of them, 1024 rows of 256.
MapIDs == {m \in Nat : m < 1024 * 256}
Zones == 0..1023
Points == 0..255

PointCodeToMapID(zoneID, pointID) ==
  LET zone == zoneID % 1024 IN
    (zone % 16) * 16 + (pointID % 16)
      + ((zone \div 16) * 16 + (pointID \div 16)) * 256

MapIDToPointCode(mapID) ==
  LET column == mapID % 256
      row == mapID \div 256 IN
    [zoneID |-> ((row \div 16) * 16 + (column \div 16)) % (256 * 256),
     pointID |-> ((row % 16) * 16 + (column % 16)) % 256]

getTileMapPosbyMapID(mapID) ==
  LET row == mapID \div 256 IN
    IF mapID \in MapIDs THEN [x |-> (mapID % 256) * 2 + (row % 2), y |-> row]
                        ELSE [x |-> 0, y |-> 0]

CheckTileMapPos(x, y) == x \in 0..511 /\ y \in 0..1023

\* TileMapPosToMapID is the same once more.
PositionToMapId(x, y) == y * 256 + ((x + 1 - (y % 2)) \div 2)

MapPosToPointCode(pos) ==
  [zoneID |-> ((pos.x \div 32) + (pos.y \div 16) * 16) % (256 * 256),
   pointID |-> (((pos.x \div 2) % 16) + (pos.y % 16) * 16) % 256]

getTileMapPosbyPointCode(zoneID, pointID) ==
  getTileMapPosbyMapID(PointCodeToMapID(zoneID, pointID))

getPointCodeByMapPos(x, y) == MapIDToPointCode(PositionToMapId(x, y))
===============================================================================
