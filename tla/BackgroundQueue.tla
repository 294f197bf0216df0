--------------------------- MODULE BackgroundQueue ---------------------------
(***************************************************************************)
(* The bounded background-update queue: main-thread code publishes PPU     *)
(* writes into NumSlots slots, the NMI handler uploads every published     *)
(* slot and confirms tiles in a RAM shadow, and                            *)
(* nes.clear_background_updates cancels the whole queue under a one-byte   *)
(* lock.                                                                   *)
(*                                                                         *)
(* The main thread is a program counter with one step per access to a      *)
(* location NMI can read or write; the steps between two such accesses     *)
(* touch registers and main-only scratch and are merged into the step      *)
(* before them.  NMI runs to completion while the main thread is suspended *)
(* and is therefore one action, enabled between any two main steps.        *)
(***************************************************************************)
EXTENDS BackgroundAddress

CONSTANTS
  NumSlots,       \* slots of the queue; the code's value is 4
  TileArgs,       \* coordinates the program passes to nes.set_tile
  AttributeArgs,  \* coordinates the program passes to nes.set_attribute
  Values,         \* bytes it writes
  InitialBytes    \* bytes the nametable may hold when nes.run starts

ASSUME NumSlotsAssumption == NumSlots \in Nat \ {0}
ASSUME ArgsAssumption ==
  TileArgs \subseteq Byte \X Byte /\ AttributeArgs \subseteq Byte \X Byte
ASSUME ValuesAssumption == Values \subseteq Byte
ASSUME InitialBytesAssumption ==
  InitialBytes \subseteq Byte /\ InitialBytes # {}

Slots == 0 .. NumSlots - 1

\* Cells of the nametable that the program can address.
TileCells == {TileAddress(a[1], a[2]) : a \in
                {t \in TileArgs : TileInRange(t[1], t[2])}}
AttributeCells == {AttributeAddress(a[1], a[2]) : a \in
                     {t \in AttributeArgs : AttributeInRange(t[1], t[2])}}
Cells == TileCells \union AttributeCells
ShadowCells == {ConfirmedIndex(c) : c \in TileCells}

VARIABLES
  ready,       \* runtime_background_queue_ready, one flag per slot
  high,        \* runtime_background_queue_high
  low,         \* runtime_background_queue_low
  value,       \* runtime_background_queue_value
  overflow,    \* runtime_background_queue_overflow
  cancelLock,  \* runtime_background_queue_cancel_lock
  shadow,      \* runtime_background_shadow
  ppu,         \* nametable 0 in PPU memory
  pc,          \* next step of the main thread
  slot,        \* X register of the main thread: slot being searched or filled
  bx, by, pendingValue  \* runtime_background_x, _y and _pending_value

queueVars == <<ready, high, low, value>>
argVars == <<bx, by, pendingValue>>
vars == <<ready, high, low, value, overflow, cancelLock, shadow, ppu,
          pc, slot, bx, by, pendingValue>>

PcValues == {"idle", "find", "high", "low", "value", "publish", "reject",
             "clear", "unlock"}

(***************************************************************************)
(* RESET clears RAM, zeroes or uploads the nametable and fills the shadow  *)
(* from the same bytes before NMI is enabled.                              *)
(***************************************************************************)
Init ==
  /\ ready = [i \in Slots |-> FALSE]
  /\ high = [i \in Slots |-> 0]
  /\ low = [i \in Slots |-> 0]
  /\ value = [i \in Slots |-> 0]
  /\ overflow = FALSE
  /\ cancelLock = FALSE
  /\ ppu \in [Cells -> InitialBytes]
  /\ shadow \in [ShadowCells -> InitialBytes]
  /\ \A c \in TileCells : shadow[ConfirmedIndex(c)] = ppu[c]
  /\ pc = "idle"
  /\ slot = 0
  /\ bx = 0 /\ by = 0 /\ pendingValue = 0

(***************************************************************************)
(* Faults: a search that resumes where the previous one ended, one that    *)
(* ignores the ready flag or the end of the queue, a flag raised before    *)
(* the address is complete, an upload in descending order, a confirmation  *)
(* of slots that are not published, and a cancellation that keeps the      *)
(* lock.                                                                   *)
(***************************************************************************)
StartWriteAtLastSlot(addr, v) ==
  /\ bx' = addr[1] /\ by' = addr[2] /\ pendingValue' = v
  /\ pc' = "find"
  /\ UNCHANGED <<queueVars, overflow, cancelLock, shadow, ppu, slot>>

SlotTaken ==
  /\ pc = "find"
  /\ pc' = "high"
  /\ UNCHANGED <<queueVars, overflow, cancelLock, shadow, ppu, slot, argVars>>

SlotBusyUnbounded ==
  /\ pc = "find" /\ ready[slot]
  /\ slot' = slot + 1
  /\ UNCHANGED <<queueVars, overflow, cancelLock, shadow, ppu, pc, argVars>>

FillHighAndPublish ==
  /\ pc = "high"
  /\ high' = [high EXCEPT ![slot] = bx]
  /\ ready' = [ready EXCEPT ![slot] = TRUE]
  /\ pc' = "low"
  /\ UNCHANGED <<low, value, overflow, cancelLock, shadow, ppu, slot, argVars>>

FirstByte(S, old) ==
  IF \E i \in S : \A j \in S : i <= j
  THEN value[CHOOSE i \in S : \A j \in S : i <= j] ELSE old

KeepLock ==
  /\ pc = "unlock"
  /\ pc' = "idle"
  /\ UNCHANGED <<queueVars, overflow, cancelLock, shadow, ppu, slot, argVars>>

(***************************************************************************)
(* Main thread: nes.set_tile and nes.set_attribute.  A coordinate out of   *)
(* range returns before the queue is touched, leaving only the scratch     *)
(* arguments behind; one in range turns them into the PPU address.         *)
(***************************************************************************)
StartWrite(addr, v) ==
  /\ bx' = addr[1] /\ by' = addr[2] /\ pendingValue' = v
  /\ pc' = "find"
  /\ slot' = 0
  /\ UNCHANGED <<queueVars, overflow, cancelLock, shadow, ppu>>

IgnoreWrite(x, y, v) ==
  /\ bx' = x /\ by' = y /\ pendingValue' = v
  /\ UNCHANGED <<queueVars, overflow, cancelLock, shadow, ppu, pc, slot>>

SetTile(x, y, v) ==
  /\ pc = "idle"
  /\ \/ TileInRange(x, y) /\ StartWrite(TileAddress(x, y), v)
     \/ ~TileInRange(x, y) /\ IgnoreWrite(x, y, v)

SetAttribute(x, y, v) ==
  /\ pc = "idle"
  /\ \/ AttributeInRange(x, y) /\ StartWrite(AttributeAddress(x, y), v)
     \/ ~AttributeInRange(x, y) /\ IgnoreWrite(x, y, v)

(***************************************************************************)
(* runtime_queue_background_write, from @background_find_slot on: test one *)
(* ready flag per step, then fill the slot found and publish it last, or   *)
(* set the sticky overflow flag when no slot was free.                     *)
(***************************************************************************)
SlotFree ==
  /\ pc = "find" /\ ~ready[slot]
  /\ pc' = "high"
  /\ UNCHANGED <<queueVars, overflow, cancelLock, shadow, ppu, slot, argVars>>

SlotBusy ==
  /\ pc = "find" /\ ready[slot]
  /\ \/ slot + 1 # NumSlots /\ slot' = slot + 1 /\ pc' = "find"
     \/ slot + 1 = NumSlots /\ slot' = slot /\ pc' = "reject"
  /\ UNCHANGED <<queueVars, overflow, cancelLock, shadow, ppu, argVars>>

FillHigh ==
  /\ pc = "high"
  /\ high' = [high EXCEPT ![slot] = bx]
  /\ pc' = "low"
  /\ UNCHANGED <<ready, low, value, overflow, cancelLock, shadow, ppu, slot,
                 argVars>>

FillLow ==
  /\ pc = "low"
  /\ low' = [low EXCEPT ![slot] = by]
  /\ pc' = "value"
  /\ UNCHANGED <<ready, high, value, overflow, cancelLock, shadow, ppu, slot,
                 argVars>>

FillValue ==
  /\ pc = "value"
  /\ value' = [value EXCEPT ![slot] = pendingValue]
  /\ pc' = "publish"
  /\ UNCHANGED <<ready, high, low, overflow, cancelLock, shadow, ppu, slot,
                 argVars>>

Publish ==
  /\ pc = "publish"
  /\ ready' = [ready EXCEPT ![slot] = TRUE]
  /\ pc' = "idle"
  /\ UNCHANGED <<high, low, value, overflow, cancelLock, shadow, ppu, slot,
                 argVars>>

Reject ==
  /\ pc = "reject"
  /\ overflow' = TRUE
  /\ pc' = "idle"
  /\ UNCHANGED <<queueVars, cancelLock, shadow, ppu, slot, argVars>>

(***************************************************************************)
(* nes.clear_background_update_overflow and nes.clear_background_updates:  *)
(* the latter takes the lock, clears the ready flags in slot order and     *)
(* releases the lock.  The straight-line stores use no index register;     *)
(* slot stands for the next flag to clear.                                 *)
(***************************************************************************)
ClearOverflow ==
  /\ pc = "idle"
  /\ overflow' = FALSE
  /\ UNCHANGED <<queueVars, cancelLock, shadow, ppu, pc, slot, argVars>>

LockQueue ==
  /\ pc = "idle"
  /\ cancelLock' = TRUE
  /\ pc' = "clear"
  /\ slot' = 0
  /\ UNCHANGED <<queueVars, overflow, shadow, ppu, argVars>>

ClearSlot ==
  /\ pc = "clear"
  /\ ready' = [ready EXCEPT ![slot] = FALSE]
  /\ \/ slot + 1 # NumSlots /\ slot' = slot + 1 /\ pc' = "clear"
     \/ slot + 1 = NumSlots /\ slot' = slot /\ pc' = "unlock"
  /\ UNCHANGED <<high, low, value, overflow, cancelLock, shadow, ppu, argVars>>

UnlockQueue ==
  /\ pc = "unlock"
  /\ cancelLock' = FALSE
  /\ pc' = "idle"
  /\ UNCHANGED <<queueVars, overflow, shadow, ppu, slot, argVars>>

(***************************************************************************)
(* NMI: runtime_upload_queued_background.  The loop visits the slots in    *)
(* ascending order, so the last published slot of a cell decides its byte; *)
(* consumed flags are cleared and tile bytes are confirmed in the shadow.  *)
(***************************************************************************)
SlotAddress(i) == <<high[i], low[i]>>

LastOf(S) == CHOOSE i \in S : \A j \in S : j <= i

\* The byte the ascending loop leaves in a cell that the slots of S write.
LastByte(S, old) ==
  IF \E i \in S : \A j \in S : j <= i THEN value[LastOf(S)] ELSE old

WritersOf(cell) == {i \in Slots : ready[i] /\ SlotAddress(i) = cell}

ConfirmersPublishedOrNot(index) ==
  {i \in Slots : /\ Confirms(SlotAddress(i))
                 /\ ConfirmedIndex(SlotAddress(i)) = index}

ConfirmersOf(index) ==
  {i \in Slots : /\ ready[i]
                 /\ Confirms(SlotAddress(i))
                 /\ ConfirmedIndex(SlotAddress(i)) = index}

Upload ==
  /\ ready' = [i \in Slots |-> FALSE]
  /\ ppu' = [c \in Cells |-> LastByte(WritersOf(c), ppu[c])]
  /\ shadow' = [k \in ShadowCells |-> LastByte(ConfirmersOf(k), shadow[k])]

Nmi ==
  /\ \/ cancelLock /\ UNCHANGED <<ready, ppu, shadow>>
     \/ ~cancelLock /\ Upload
  /\ UNCHANGED <<high, low, value, overflow, cancelLock, pc, slot, argVars>>

Main ==
  \/ \E a \in TileArgs, v \in Values : SetTile(a[1], a[2], v)
  \/ \E a \in AttributeArgs, v \in Values : SetAttribute(a[1], a[2], v)
  \/ SlotFree \/ SlotBusy
  \/ FillHigh \/ FillLow \/ FillValue \/ Publish \/ Reject
  \/ ClearOverflow
  \/ LockQueue \/ ClearSlot \/ UnlockQueue

Next == Main \/ Nmi

(***************************************************************************)
(* The program may stop calling the API, but a call it has begun runs on   *)
(* (Busy), and VBlank raises NMI forever once nes.run has enabled it.      *)
(***************************************************************************)
Busy == pc # "idle" /\ Main

Spec == Init /\ [][Next]_vars
FairSpec == Spec /\ WF_vars(Busy) /\ WF_vars(Nmi)

-----------------------------------------------------------------------------

TypeOK ==
  /\ ready \in [Slots -> BOOLEAN]
  /\ high \in [Slots -> Byte]
  /\ low \in [Slots -> Byte]
  /\ value \in [Slots -> Byte]
  /\ overflow \in BOOLEAN
  /\ cancelLock \in BOOLEAN
  /\ shadow \in [ShadowCells -> Byte]
  /\ ppu \in [Cells -> Byte]
  /\ pc \in PcValues
  /\ slot \in Slots
  /\ bx \in Byte /\ by \in Byte /\ pendingValue \in Byte

(***************************************************************************)
(* A slot NMI can see addresses a cell of some accepted call: NMI never    *)
(* uploads the high byte of one write with the low byte of another.        *)
(***************************************************************************)
PublishedAddressesAreWhole ==
  \A i \in Slots : ready[i] => SlotAddress(i) \in Cells

(***************************************************************************)
(* nes.get_tile returns what the PPU shows: the byte it reads for a tile   *)
(* equals the PPU byte of that tile in every state the main thread can     *)
(* observe, whatever is still queued (runtime_get_tile).                   *)
(***************************************************************************)
QueriesReturnConfirmedTiles ==
  \A a \in TileArgs : TileInRange(a[1], a[2]) =>
    shadow[QueriedIndex(a[1], a[2])] = ppu[TileAddress(a[1], a[2])]

(***************************************************************************)
(* A pending entry is never overwritten: while a slot stays published its  *)
(* bytes do not change, although the writer decided on its slot several    *)
(* steps, and possibly an NMI, earlier (runtime_queue_background_write).   *)
(***************************************************************************)
PendingEntriesAreStable ==
  [][\A i \in Slots : ready[i] /\ ready'[i] =>
       high'[i] = high[i] /\ low'[i] = low[i] /\ value'[i] = value[i]]_vars

(***************************************************************************)
(* Every published write leaves the queue: an NMI uploads it or a          *)
(* cancellation discards it, even when NMIs keep landing on a held lock.   *)
(***************************************************************************)
EveryWriteLeavesTheQueue == \A i \in Slots : ready[i] ~> ~ready[i]

=============================================================================
