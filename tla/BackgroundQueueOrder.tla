------------------------- MODULE BackgroundQueueOrder -------------------------
(***************************************************************************)
(* BackgroundQueue with the history its ordering claims are about, and the *)
(* refinement to BackgroundWrites.                                         *)
(*                                                                         *)
(* The slot search takes the first free slot, NMI uploads in slot order,   *)
(* and NMI can empty the queue between the search and the publication; so  *)
(* the slot order is the call order only while no write straddles an NMI.  *)
(***************************************************************************)
EXTENDS BackgroundQueue, Sequences

VARIABLES
  order,      \* slots the next NMI uploads, in the order of their publication
  straddled,  \* an NMI emptied the queue since the current search began
  lateSlot    \* slots whose write straddled such an NMI (at most one)

history == <<order, straddled, lateSlot>>
historyVars == <<vars, history>>

HistoryInit == Init /\ order = <<>> /\ straddled = FALSE /\ lateSlot = {}

\* Main steps that neither publish a write nor discard one.
Silent ==
  /\ \/ \E a \in TileArgs, v \in Values : SetTile(a[1], a[2], v)
     \/ \E a \in AttributeArgs, v \in Values : SetAttribute(a[1], a[2], v)
     \/ SlotFree \/ SlotBusy
     \/ FillHigh \/ FillLow \/ FillValue \/ Reject
     \/ ClearOverflow
     \/ ClearSlot \/ UnlockQueue
  /\ straddled' = (IF pc = "idle" THEN FALSE ELSE straddled)
  /\ UNCHANGED <<order, lateSlot>>

HistoryPublish ==
  /\ Publish
  /\ order' = Append(order, slot)
  /\ lateSlot' = IF straddled THEN lateSlot \union {slot} ELSE lateSlot
  /\ UNCHANGED straddled

\* Main code has cleared every ready flag before it releases the lock, so no
\* NMI uploads a slot that is published when the lock is taken.
HistoryLock ==
  /\ LockQueue
  /\ order' = <<>>
  /\ lateSlot' = {}
  /\ UNCHANGED straddled

HistoryNmi ==
  /\ Nmi
  /\ \/ cancelLock /\ UNCHANGED history
     \/ /\ ~cancelLock
        /\ order' = <<>>
        /\ lateSlot' = {}
        /\ straddled' = TRUE

HistoryNext == Silent \/ HistoryPublish \/ HistoryLock \/ HistoryNmi

HistorySpec == HistoryInit /\ [][HistoryNext]_historyVars
FairHistorySpec == HistorySpec /\ WF_vars(Busy) /\ WF_vars(Nmi)

-----------------------------------------------------------------------------

\* The byte the most recent accepted call left pending for a cell.
NewestFor(cell) ==
  LET calls == {k \in 1 .. Len(order) : SlotAddress(order[k]) = cell}
  IN value[order[LastOf(calls)]]

\* An NMI that finds the queue unlocked.
Drains == Nmi /\ ~cancelLock

(***************************************************************************)
(* Upload order: "Repeated writes to one address occupy separate slots and *)
(* are uploaded in queue order. [...] After NMI, it returns the last write *)
(* processed for that tile" (background-updates.md): after an NMI, a cell  *)
(* with pending writes holds the byte of the last accepted call.           *)
(***************************************************************************)
LastCallWins ==
  [][Drains => \A c \in Cells :
       WritersOf(c) # {} => ppu'[c] = NewestFor(c)]_historyVars

(***************************************************************************)
(* Upload order as the slot search guarantees it: the last accepted call   *)
(* for a cell decides it, unless one of the pending writes to that very    *)
(* cell was overtaken by the previous NMI between its search and its       *)
(* publication.                                                            *)
(***************************************************************************)
LastCallWinsUnlessStraddled ==
  [][Drains => \A c \in Cells :
       WritersOf(c) # {} /\ WritersOf(c) \intersect lateSlot = {}
         => ppu'[c] = NewestFor(c)]_historyVars

(***************************************************************************)
(* At most one pending write is out of place, and every other pending      *)
(* write sits in the slot order of its call: a single slow call cannot     *)
(* disturb more than its own position.                                     *)
(***************************************************************************)
OnlyLateWritesAreMisplaced ==
  /\ \A i, j \in lateSlot : i = j
  /\ \A k, l \in 1 .. Len(order) :
       k < l /\ {order[k], order[l]} \intersect lateSlot = {}
         => order[k] < order[l]

(***************************************************************************)
(* Refinement.  The overflow is promised from the moment the search has    *)
(* found the last slot busy.  A late write is accepted by an empty queue,  *)
(* so it is the first of the pending ones.                                 *)
(***************************************************************************)
WriteIn(i) == [addr |-> SlotAddress(i), byte |-> value[i]]

OnTime == IF lateSlot = {} THEN order ELSE Tail(order)

PendingWrites == [k \in 1 .. Len(OnTime) |-> WriteIn(OnTime[k])]

LateWrites == {WriteIn(i) : i \in lateSlot}

Promise == INSTANCE BackgroundWrites WITH
  Capacity <- NumSlots,
  Addresses <- Cells,
  Bytes <- Values \union InitialBytes,
  pending <- PendingWrites,
  late <- LateWrites,
  overflow <- overflow \/ pc = "reject",
  nametable <- ppu

(***************************************************************************)
(* The queue implements BackgroundWrites: bounded, all-or-nothing          *)
(* confirmation by NMI, atomic cancellation at the lock, overflow only     *)
(* when the queue was full, rejected writes without any other effect.      *)
(***************************************************************************)
ImplementsBackgroundWrites == Promise!Spec

=============================================================================
