------------------------ MODULE BackgroundQueueProofs ------------------------
(***************************************************************************)
(* Proofs about BackgroundQueue, for every number of slots, every set of   *)
(* coordinates and every set of bytes.                                     *)
(*                                                                         *)
(* The invariant IInv adds to the properties of BackgroundQueue what a     *)
(* write in progress owns: the slot it selected is unpublished and holds   *)
(* the bytes stored so far, and those bytes are a cell of the program.     *)
(***************************************************************************)
EXTENDS BackgroundQueue, TLAPS

\* A call in progress addresses a cell.
StagedCell ==
  pc \in {"find", "high", "low", "value", "publish"} => <<bx, by>> \in Cells

\* The slot being filled is not published ...
SlotIsOwned == pc \in {"high", "low", "value", "publish"} => ~ready[slot]

\* ... and holds the bytes stored so far.
StagedBytes ==
  /\ pc \in {"low", "value", "publish"} => high[slot] = bx
  /\ pc \in {"value", "publish"} => low[slot] = by

\* The shadow agrees with the nametable on every tile.
ShadowAgrees == \A c \in TileCells : shadow[ConfirmedIndex(c)] = ppu[c]

IInv ==
  /\ TypeOK
  /\ StagedCell
  /\ SlotIsOwned
  /\ StagedBytes
  /\ PublishedAddressesAreWhole
  /\ ShadowAgrees

-----------------------------------------------------------------------------
(***************************************************************************)
(* Addresses.                                                              *)
(***************************************************************************)

\* The eight-bit index computation never wraps for a tile in range.
LEMMA TileIndexRange ==
  ASSUME NEW x \in Byte, NEW y \in Byte, TileInRange(x, y)
  PROVE  /\ TileIndexPage(y) \in 0 .. 3
         /\ TileIndexLow(x, y) \in Byte
         /\ TileIndexPage(y) = 3 => TileIndexLow(x, y) < 192
<1> USE DEF Byte, TileInRange
<1>1. y % 8 \in 0 .. 7 OBVIOUS
<1>2. y \div 8 \in 0 .. 3 OBVIOUS
<1>3. y = 8 * (y \div 8) + (y % 8) OBVIOUS
<1>4. ((y % 8) * 32) + x \in 0 .. 255 BY <1>1
<1>5. (((y % 8) * 32) + x) % 256 = ((y % 8) * 32) + x BY <1>4
<1> QED BY <1>1, <1>2, <1>3, <1>4, <1>5 DEF TileIndexPage, TileIndexLow

\* A tile address is a pair of bytes, is confirmed in the shadow, and is
\* confirmed at the byte a query of the same coordinate reads.
LEMMA TileAddressFacts ==
  ASSUME NEW x \in Byte, NEW y \in Byte, TileInRange(x, y)
  PROVE  LET c == TileAddress(x, y)
         IN /\ c \in Byte \X Byte
            /\ Confirms(c)
            /\ ConfirmedIndex(c) = QueriedIndex(x, y)
            /\ ConfirmedIndex(c) = (c[1] - 32) * 256 + c[2]
<1> DEFINE p == TileIndexPage(y)
           l == TileIndexLow(x, y)
<1>1. p \in 0 .. 3 /\ l \in 0 .. 255 /\ (p = 3 => l < 192)
  BY TileIndexRange DEF Byte
<1>2. TileAddress(x, y) = <<p + 32, l>> BY DEF TileAddress
<1>3. QueriedIndex(x, y) = (IF p \in {0, 1, 2} THEN p ELSE 3) * 256 + l
  BY DEF QueriedIndex
<1> HIDE DEF p, l
<1>4. ConfirmedPage(p + 32) = p BY <1>1 DEF ConfirmedPage
<1> QED BY <1>1, <1>2, <1>3, <1>4 DEF Confirms, ConfirmedIndex, Byte

\* An attribute address is a pair of bytes that is never confirmed.
LEMMA AttributeAddressFacts ==
  ASSUME NEW x \in Byte, NEW y \in Byte, AttributeInRange(x, y)
  PROVE  /\ AttributeAddress(x, y) \in Byte \X Byte
         /\ ~Confirms(AttributeAddress(x, y))
<1>1. (((y * 8) % 256) + x + 192) % 256 \in 192 .. 255
  BY DEF AttributeInRange, Byte
<1> QED BY <1>1 DEF AttributeAddress, Confirms, Byte

LEMMA CellFacts ==
  /\ Cells \subseteq Byte \X Byte
  /\ \A c \in TileCells : /\ Confirms(c)
                          /\ ConfirmedIndex(c) = (c[1] - 32) * 256 + c[2]
  /\ \A c \in AttributeCells : ~Confirms(c)
<1>1. \A c \in TileCells :
        /\ c \in Byte \X Byte
        /\ Confirms(c)
        /\ ConfirmedIndex(c) = (c[1] - 32) * 256 + c[2]
  <2> SUFFICES ASSUME NEW t \in TileArgs, TileInRange(t[1], t[2])
               PROVE  LET c == TileAddress(t[1], t[2])
                      IN /\ c \in Byte \X Byte
                         /\ Confirms(c)
                         /\ ConfirmedIndex(c) = (c[1] - 32) * 256 + c[2]
    BY DEF TileCells
  <2>1. t[1] \in Byte /\ t[2] \in Byte BY ArgsAssumption
  <2> QED BY <2>1, TileAddressFacts
<1>2. \A c \in AttributeCells : c \in Byte \X Byte /\ ~Confirms(c)
  <2> SUFFICES ASSUME NEW t \in AttributeArgs, AttributeInRange(t[1], t[2])
               PROVE  /\ AttributeAddress(t[1], t[2]) \in Byte \X Byte
                      /\ ~Confirms(AttributeAddress(t[1], t[2]))
    BY DEF AttributeCells
  <2>1. t[1] \in Byte /\ t[2] \in Byte BY ArgsAssumption
  <2> QED BY <2>1, AttributeAddressFacts
<1> QED BY <1>1, <1>2 DEF Cells

\* No two tiles share a byte of the shadow.
LEMMA ConfirmedIndexInjective ==
  ASSUME NEW c \in TileCells, NEW d \in TileCells,
         ConfirmedIndex(c) = ConfirmedIndex(d)
  PROVE  c = d
<1>0. c \in Byte \X Byte /\ d \in Byte \X Byte BY CellFacts DEF Cells
<1>1. PICK h \in 0 .. 255, l \in 0 .. 255 : c = <<h, l>>
  <2>1. c = <<c[1], c[2]>> /\ c[1] \in 0 .. 255 /\ c[2] \in 0 .. 255
    BY <1>0 DEF Byte
  <2> QED BY <2>1, Zenon
<1>2. PICK i \in 0 .. 255, j \in 0 .. 255 : d = <<i, j>>
  <2>1. d = <<d[1], d[2]>> /\ d[1] \in 0 .. 255 /\ d[2] \in 0 .. 255
    BY <1>0 DEF Byte
  <2> QED BY <2>1, Zenon
<1>3. ConfirmedIndex(c) = (h - 32) * 256 + l BY <1>1, CellFacts
<1>4. ConfirmedIndex(d) = (i - 32) * 256 + j BY <1>2, CellFacts
<1>5. (h - 32) * 256 + l = (i - 32) * 256 + j BY <1>3, <1>4
<1>6. h = i /\ l = j BY <1>5
<1> QED BY <1>1, <1>2, <1>6

\* What NMI confirms at a tile's shadow byte is what it writes to the tile.
LEMMA ConfirmersAreWriters ==
  ASSUME PublishedAddressesAreWhole, NEW c \in TileCells
  PROVE  ConfirmersOf(ConfirmedIndex(c)) = WritersOf(c)
<1>1. ASSUME NEW i \in Slots, ready[i], Confirms(SlotAddress(i)),
             ConfirmedIndex(SlotAddress(i)) = ConfirmedIndex(c)
      PROVE  SlotAddress(i) = c
  <2>1. SlotAddress(i) \in TileCells
    BY <1>1, CellFacts DEF PublishedAddressesAreWhole, Cells
  <2> QED BY <1>1, <2>1, ConfirmedIndexInjective
<1>2. Confirms(c) BY CellFacts
<1> QED BY <1>1, <1>2 DEF ConfirmersOf, WritersOf

-----------------------------------------------------------------------------
(***************************************************************************)
(* The invariant holds initially and every step preserves it.              *)
(***************************************************************************)

LEMMA SlotFacts ==
  /\ Slots \subseteq Int
  /\ 0 \in Slots
  /\ \A i \in Slots : i + 1 # NumSlots => i + 1 \in Slots
BY NumSlotsAssumption DEF Slots

\* The loop leaves a byte of some slot, or the byte that was there.
LEMMA LastByteType ==
  ASSUME NEW S \in SUBSET Slots, NEW old \in Byte, value \in [Slots -> Byte]
  PROVE  LastByte(S, old) \in Byte
<1>1. CASE \E i \in S : \A j \in S : j <= i
  <2>1. LastOf(S) \in S BY <1>1 DEF LastOf
  <2> QED BY <1>1, <2>1 DEF LastByte
<1>2. CASE ~ \E i \in S : \A j \in S : j <= i
  BY <1>2 DEF LastByte
<1> QED BY <1>1, <1>2

LEMMA InitIInv == Init => IInv
<1> SUFFICES ASSUME Init PROVE IInv OBVIOUS
<1> USE DEF Init
<1>1. TypeOK
  <2>1. ppu \in [Cells -> Byte] /\ shadow \in [ShadowCells -> Byte]
    BY InitialBytesAssumption
  <2>2. 0 \in Slots /\ 0 \in Byte BY SlotFacts DEF Byte
  <2> HIDE DEF Init
  <2>3. /\ ready \in [Slots -> BOOLEAN]
        /\ high \in [Slots -> Byte]
        /\ low \in [Slots -> Byte]
        /\ value \in [Slots -> Byte]
    BY <2>2 DEF Init
  <2> QED BY <2>1, <2>2, <2>3 DEF TypeOK, PcValues, Init
<1>2. PublishedAddressesAreWhole BY DEF PublishedAddressesAreWhole
<1>3. ShadowAgrees BY DEF ShadowAgrees
<1> QED
  BY <1>1, <1>2, <1>3 DEF IInv, StagedCell, SlotIsOwned, StagedBytes

\* Starting a call stages a cell and touches nothing NMI reads.
LEMMA StartWriteStep ==
  ASSUME IInv, pc = "idle", NEW c \in Cells, NEW v \in Byte, StartWrite(c, v)
  PROVE  IInv'
<1> USE DEF IInv, StartWrite, queueVars
<1>1. c \in Byte \X Byte /\ c = <<c[1], c[2]>> BY CellFacts
<1>2. TypeOK' BY <1>1, SlotFacts DEF TypeOK, PcValues
<1>3. StagedCell' BY <1>1 DEF StagedCell
<1>4. SlotIsOwned' /\ StagedBytes' BY DEF SlotIsOwned, StagedBytes
<1>5. PublishedAddressesAreWhole'
  BY DEF PublishedAddressesAreWhole, SlotAddress
<1>6. ShadowAgrees' BY DEF ShadowAgrees
<1> QED BY <1>2, <1>3, <1>4, <1>5, <1>6

LEMMA IgnoreWriteStep ==
  ASSUME IInv, pc = "idle", NEW x \in Byte, NEW y \in Byte, NEW v \in Byte,
         IgnoreWrite(x, y, v)
  PROVE  IInv'
<1> USE DEF IInv, IgnoreWrite, queueVars
<1>1. TypeOK' BY DEF TypeOK
<1>2. StagedCell' /\ SlotIsOwned' /\ StagedBytes'
  BY DEF StagedCell, SlotIsOwned, StagedBytes
<1>3. PublishedAddressesAreWhole'
  BY DEF PublishedAddressesAreWhole, SlotAddress
<1>4. ShadowAgrees' BY DEF ShadowAgrees
<1> QED BY <1>1, <1>2, <1>3, <1>4

LEMMA SetTileStep ==
  ASSUME IInv, NEW a \in TileArgs, NEW v \in Values, SetTile(a[1], a[2], v)
  PROVE  IInv'
<1>1. a[1] \in Byte /\ a[2] \in Byte /\ v \in Byte
  BY ArgsAssumption, ValuesAssumption
<1>2. CASE TileInRange(a[1], a[2])
  <2>1. TileAddress(a[1], a[2]) \in Cells BY <1>2 DEF Cells, TileCells
  <2> QED BY <1>1, <1>2, <2>1, StartWriteStep DEF SetTile
<1>3. CASE ~TileInRange(a[1], a[2])
  BY <1>1, <1>3, IgnoreWriteStep DEF SetTile
<1> QED BY <1>2, <1>3

LEMMA SetAttributeStep ==
  ASSUME IInv, NEW a \in AttributeArgs, NEW v \in Values,
         SetAttribute(a[1], a[2], v)
  PROVE  IInv'
<1>1. a[1] \in Byte /\ a[2] \in Byte /\ v \in Byte
  BY ArgsAssumption, ValuesAssumption
<1>2. CASE AttributeInRange(a[1], a[2])
  <2>1. AttributeAddress(a[1], a[2]) \in Cells
    BY <1>2 DEF Cells, AttributeCells
  <2> QED BY <1>1, <1>2, <2>1, StartWriteStep DEF SetAttribute
<1>3. CASE ~AttributeInRange(a[1], a[2])
  BY <1>1, <1>3, IgnoreWriteStep DEF SetAttribute
<1> QED BY <1>2, <1>3

\* Slot searches, the rejected call and the cleared overflow flag.
LEMMA SearchStep ==
  ASSUME IInv, SlotFree \/ SlotBusy \/ Reject \/ ClearOverflow
  PROVE  IInv'
<1> USE DEF IInv, queueVars, argVars
<1>1. CASE SlotFree
  <2> USE <1>1 DEF SlotFree
  <2>1. TypeOK' BY DEF TypeOK, PcValues
  <2>2. StagedCell' /\ SlotIsOwned' /\ StagedBytes'
    BY DEF StagedCell, SlotIsOwned, StagedBytes
  <2>3. PublishedAddressesAreWhole' /\ ShadowAgrees'
    BY DEF PublishedAddressesAreWhole, SlotAddress, ShadowAgrees
  <2> QED BY <2>1, <2>2, <2>3
<1>2. CASE SlotBusy
  <2> USE <1>2 DEF SlotBusy
  <2>1. TypeOK' BY SlotFacts DEF TypeOK, PcValues
  <2>2. StagedCell' /\ SlotIsOwned' /\ StagedBytes'
    BY DEF StagedCell, SlotIsOwned, StagedBytes
  <2>3. PublishedAddressesAreWhole' /\ ShadowAgrees'
    BY DEF PublishedAddressesAreWhole, SlotAddress, ShadowAgrees
  <2> QED BY <2>1, <2>2, <2>3
<1>3. CASE Reject \/ ClearOverflow
  <2> USE <1>3 DEF Reject, ClearOverflow
  <2>1. TypeOK' BY DEF TypeOK, PcValues
  <2>2. StagedCell' /\ SlotIsOwned' /\ StagedBytes'
    BY DEF StagedCell, SlotIsOwned, StagedBytes
  <2>3. PublishedAddressesAreWhole' /\ ShadowAgrees'
    BY DEF PublishedAddressesAreWhole, SlotAddress, ShadowAgrees
  <2> QED BY <2>1, <2>2, <2>3
<1> QED BY <1>1, <1>2, <1>3

\* Filling the owned slot, byte by byte, and publishing it.
LEMMA FillStep ==
  ASSUME IInv, FillHigh \/ FillLow \/ FillValue
  PROVE  IInv'
<1> USE DEF IInv, argVars, FillHigh, FillLow, FillValue
<1>1. TypeOK' BY DEF TypeOK, PcValues
<1>2. StagedCell' /\ SlotIsOwned'
  BY DEF StagedCell, SlotIsOwned
<1>3. StagedBytes' BY DEF StagedBytes, TypeOK
<1>4. PublishedAddressesAreWhole'
  BY DEF PublishedAddressesAreWhole, SlotAddress, SlotIsOwned, TypeOK
<1>5. ShadowAgrees' BY DEF ShadowAgrees
<1> QED BY <1>1, <1>2, <1>3, <1>4, <1>5

LEMMA PublishStep == ASSUME IInv, Publish PROVE IInv'
<1> USE DEF IInv, argVars, Publish
<1>1. TypeOK' BY DEF TypeOK, PcValues
<1>2. StagedCell' /\ SlotIsOwned' /\ StagedBytes'
  BY DEF StagedCell, SlotIsOwned, StagedBytes
<1>3. PublishedAddressesAreWhole'
  <2>1. SlotAddress(slot) \in Cells BY DEF SlotAddress, StagedCell, StagedBytes
  <2> QED BY <2>1 DEF PublishedAddressesAreWhole, SlotAddress, TypeOK
<1>4. ShadowAgrees' BY DEF ShadowAgrees
<1> QED BY <1>1, <1>2, <1>3, <1>4

\* The three steps of a cancellation.
LEMMA CancelStep ==
  ASSUME IInv, LockQueue \/ ClearSlot \/ UnlockQueue
  PROVE  IInv'
<1> USE DEF IInv, queueVars, argVars, LockQueue, ClearSlot, UnlockQueue
<1>1. TypeOK' BY SlotFacts DEF TypeOK, PcValues
<1>2. StagedCell' /\ SlotIsOwned' /\ StagedBytes'
  BY DEF StagedCell, SlotIsOwned, StagedBytes
<1>3. PublishedAddressesAreWhole'
  BY DEF PublishedAddressesAreWhole, SlotAddress, TypeOK
<1>4. ShadowAgrees' BY DEF ShadowAgrees
<1> QED BY <1>1, <1>2, <1>3, <1>4

\* The upload writes a tile and its shadow byte from the same slot.
LEMMA NmiStep == ASSUME IInv, Nmi PROVE IInv'
<1> USE DEF IInv, Nmi, argVars
<1>1. CASE cancelLock
  <2> USE <1>1
  <2>1. TypeOK' BY DEF TypeOK
  <2>2. StagedCell' /\ SlotIsOwned' /\ StagedBytes'
    BY DEF StagedCell, SlotIsOwned, StagedBytes
  <2>3. PublishedAddressesAreWhole' /\ ShadowAgrees'
    BY DEF PublishedAddressesAreWhole, SlotAddress, ShadowAgrees
  <2> QED BY <2>1, <2>2, <2>3
<1>2. CASE ~cancelLock
  <2> USE <1>2 DEF Upload
  <2>1. \A c \in Cells : LastByte(WritersOf(c), ppu[c]) \in Byte
    BY LastByteType DEF TypeOK, WritersOf
  <2>2. \A k \in ShadowCells : LastByte(ConfirmersOf(k), shadow[k]) \in Byte
    BY LastByteType DEF TypeOK, ConfirmersOf
  <2>3. ppu' \in [Cells -> Byte] /\ shadow' \in [ShadowCells -> Byte]
    BY <2>1, <2>2
  <2>4. TypeOK' BY <2>3 DEF TypeOK
  <2>5. StagedCell' /\ StagedBytes' BY DEF StagedCell, StagedBytes
  <2>6. SlotIsOwned' /\ PublishedAddressesAreWhole'
    BY DEF SlotIsOwned, PublishedAddressesAreWhole, TypeOK
  <2>7. ShadowAgrees'
    <3> SUFFICES ASSUME NEW c \in TileCells
                 PROVE  shadow'[ConfirmedIndex(c)] = ppu'[c]
      BY DEF ShadowAgrees
    <3>1. c \in Cells /\ ConfirmedIndex(c) \in ShadowCells
      BY DEF Cells, ShadowCells
    <3>2. ConfirmersOf(ConfirmedIndex(c)) = WritersOf(c)
      BY ConfirmersAreWriters
    <3>3. shadow[ConfirmedIndex(c)] = ppu[c] BY DEF ShadowAgrees
    <3> QED BY <3>1, <3>2, <3>3
  <2> QED BY <2>4, <2>5, <2>6, <2>7
<1> QED BY <1>1, <1>2

LEMMA StepIInv == IInv /\ [Next]_vars => IInv'
<1> SUFFICES ASSUME IInv, [Next]_vars PROVE IInv' OBVIOUS
<1>1. CASE UNCHANGED vars
  <2> USE <1>1 DEF vars, IInv
  <2>1. TypeOK' BY DEF TypeOK
  <2>2. StagedCell' /\ SlotIsOwned' /\ StagedBytes'
    BY DEF StagedCell, SlotIsOwned, StagedBytes
  <2>3. PublishedAddressesAreWhole' /\ ShadowAgrees'
    BY DEF PublishedAddressesAreWhole, SlotAddress, ShadowAgrees
  <2> QED BY <2>1, <2>2, <2>3
<1>2. CASE Nmi BY <1>2, NmiStep
<1>3. CASE Main
  BY <1>3, SetTileStep, SetAttributeStep, SearchStep, FillStep, PublishStep,
     CancelStep DEF Main
<1> QED BY <1>1, <1>2, <1>3 DEF Next

-----------------------------------------------------------------------------

(***************************************************************************)
(* IInv holds in every reachable state.                                    *)
(***************************************************************************)
THEOREM Invariance == Spec => []IInv
BY InitIInv, StepIInv, PTL DEF Spec

(***************************************************************************)
(* Every byte of the queue, of the shadow and of the nametable is a byte.  *)
(***************************************************************************)
THEOREM TypeCorrectness == Spec => []TypeOK
<1>1. IInv => TypeOK BY DEF IInv
<1> QED BY <1>1, Invariance, PTL

(***************************************************************************)
(* NMI never uploads a torn address: a published slot holds the address of *)
(* one accepted call (runtime_queue_background_write).                     *)
(***************************************************************************)
THEOREM WholeAddresses == Spec => []PublishedAddressesAreWhole
<1>1. IInv => PublishedAddressesAreWhole BY DEF IInv
<1> QED BY <1>1, Invariance, PTL

(***************************************************************************)
(* nes.get_tile returns the byte the PPU shows, for every coordinate, in   *)
(* every state (runtime_get_tile, runtime_upload_queued_background).       *)
(***************************************************************************)
THEOREM QueriesAreConfirmed == Spec => []QueriesReturnConfirmedTiles
<1>1. IInv => QueriesReturnConfirmedTiles
  <2> SUFFICES ASSUME IInv, NEW a \in TileArgs, TileInRange(a[1], a[2])
               PROVE  shadow[QueriedIndex(a[1], a[2])]
                        = ppu[TileAddress(a[1], a[2])]
    BY DEF QueriesReturnConfirmedTiles
  <2>1. TileAddress(a[1], a[2]) \in TileCells BY DEF TileCells
  <2>2. a[1] \in Byte /\ a[2] \in Byte BY ArgsAssumption
  <2>3. ConfirmedIndex(TileAddress(a[1], a[2])) = QueriedIndex(a[1], a[2])
    BY <2>2, TileAddressFacts
  <2> QED BY <2>1, <2>3 DEF IInv, ShadowAgrees
<1> QED BY <1>1, Invariance, PTL

(***************************************************************************)
(* No step of the main thread or of NMI changes the bytes of a slot that   *)
(* is and stays published.                                                 *)
(***************************************************************************)
THEOREM PendingStability == Spec => PendingEntriesAreStable
<1> DEFINE Stable == \A i \in Slots : ready[i] /\ ready'[i] =>
             high'[i] = high[i] /\ low'[i] = low[i] /\ value'[i] = value[i]
<1>1. ASSUME IInv, [Next]_vars PROVE Stable
  <2> USE DEF queueVars
  <2>1. CASE UNCHANGED vars BY <2>1 DEF vars
  <2>2. CASE Nmi BY <2>2 DEF Nmi
  <2>3. CASE FillHigh \/ FillLow \/ FillValue
    BY <1>1, <2>3 DEF FillHigh, FillLow, FillValue, IInv, SlotIsOwned, TypeOK
  <2>4. CASE /\ Main
             /\ ~(FillHigh \/ FillLow \/ FillValue)
    BY <2>4 DEF Main, SetTile, SetAttribute, StartWrite, IgnoreWrite, SlotFree,
                SlotBusy, Publish, Reject, ClearOverflow, LockQueue, ClearSlot,
                UnlockQueue
  <2> QED BY <1>1, <2>1, <2>2, <2>3, <2>4 DEF Next
<1>2. IInv /\ [Next]_vars => [Stable]_vars BY <1>1
<1> QED BY <1>2, Invariance, PTL DEF Spec, PendingEntriesAreStable

=============================================================================
