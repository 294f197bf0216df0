-------------------------- MODULE BackgroundAddress --------------------------
(***************************************************************************)
(* Addressing of the runtime background updates: how a tile or attribute   *)
(* coordinate becomes a PPU address, which byte of the confirmed shadow an *)
(* uploaded PPU write updates, and which byte a tile query reads.  All of  *)
(* it is eight-bit arithmetic of the routines that                         *)
(* _generate_background_runtime_routines emits.                            *)
(*                                                                         *)
(* A PPU address is a pair <<high, low>> of bytes, as the queue stores it. *)
(***************************************************************************)
EXTENDS Integers

Byte == 0 .. 255

TileColumns == 0 .. 31
TileRows == 0 .. 29
AttributeColumns == 0 .. 7
AttributeRows == 0 .. 7

\* The 960 bytes of the confirmed tile shadow.
ShadowIndexes == 0 .. 959

\* Faults: a bound one too large, and a page compare that takes attribute
\* bytes for tiles.
OneRowTooMany(x, y) == y < 31 /\ x < 32
OneColumnTooMany(x, y) == y < 8 /\ x < 9
ConfirmsWholePage23(addr) == addr[1] <= 35

(***************************************************************************)
(* runtime_prepare_tile_index: the carry it returns is ~TileInRange.       *)
(***************************************************************************)
TileInRange(x, y) == y < 30 /\ x < 32
TileIndexLow(x, y) == (((y % 8) * 32) + x) % 256
TileIndexPage(y) == y \div 8

\* runtime_set_tile: the address queued for an accepted tile coordinate.
TileAddress(x, y) == <<TileIndexPage(y) + 32, TileIndexLow(x, y)>>

\* runtime_set_attribute: range check and queued address.
AttributeInRange(x, y) == x < 8 /\ y < 8
AttributeAddress(x, y) == <<35, (((y * 8) % 256) + x + 192) % 256>>

(***************************************************************************)
(* Shadow confirmation in runtime_upload_queued_background: attribute      *)
(* bytes ($23C0-$23FF) are not confirmed; the page of every other byte is  *)
(* selected by comparing the high byte with $23, $20 and $21, in that      *)
(* order.                                                                  *)
(***************************************************************************)
Confirms(addr) == addr[1] < 35 \/ (addr[1] = 35 /\ addr[2] < 192)

ConfirmedPage(high) ==
  IF high = 35 THEN 3 ELSE IF high \in {32, 33} THEN high - 32 ELSE 2

ConfirmedIndex(addr) == ConfirmedPage(addr[1]) * 256 + addr[2]

\* runtime_get_tile: the shadow byte read for a coordinate in range.
QueriedIndex(x, y) ==
  (IF TileIndexPage(y) \in {0, 1, 2} THEN TileIndexPage(y) ELSE 3) * 256
    + TileIndexLow(x, y)

=============================================================================
