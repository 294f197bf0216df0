---------------------- MODULE BackgroundQueueOrderProofs ----------------------
(***************************************************************************)
(* Proofs about BackgroundQueueOrder, for every number of slots, every set *)
(* of coordinates and every set of bytes: the order in which pending       *)
(* writes sit in the queue, which write decides a cell, and the refinement *)
(* of BackgroundWrites.                                                    *)
(*                                                                         *)
(* The invariant OrderInv says at which slot every pending write sits.     *)
(***************************************************************************)
EXTENDS BackgroundQueueOrder, BackgroundQueueProofs, FiniteSetTheorems

Writing == {"find", "high", "low", "value", "publish"}

HistoryType ==
  /\ order \in Seq(Slots)
  /\ straddled \in BOOLEAN

\* The lock is held by a cancellation in progress, which clears the flags in
\* slot order.
LockHeld == cancelLock <=> pc \in {"clear", "unlock"}

ClearedSoFar ==
  /\ pc = "clear" => \A i \in Slots : i < slot => ~ready[i]
  /\ pc = "unlock" => \A i \in Slots : ~ready[i]

\* The history names exactly the slots the next NMI uploads.
OrderIsReady ==
  IF cancelLock THEN order = <<>>
  ELSE \A i \in Slots : ready[i] <=> \E k \in 1 .. Len(order) : order[k] = i

\* A late write is the first one published after the NMI that overtook it.
LateIsFirst == lateSlot # {} => order # <<>> /\ lateSlot = {order[1]}

\* The k-th pending write: the calls fill the slots upwards, around the slot
\* of a late write.
Position(k) ==
  IF lateSlot = {} THEN k - 1
  ELSE IF k = 1 THEN order[1]
  ELSE IF k - 2 < order[1] THEN k - 2 ELSE k - 1

FilledUpwards == \A k \in 1 .. Len(order) : order[k] = Position(k)

\* The search left no free slot behind, unless an NMI emptied the queue, and
\* then nothing has been published since.
SearchedSlots ==
  /\ pc \in Writing /\ ~straddled => \A i \in Slots : i < slot => ready[i]
  /\ pc \in Writing \union {"reject"} /\ straddled => order = <<>>

\* The byte of a call in progress is one the program writes.
StagedValue ==
  /\ pc \in Writing => pendingValue \in Values
  /\ pc = "publish" => value[slot] = pendingValue

OrderInv ==
  /\ HistoryType
  /\ LockHeld
  /\ ClearedSoFar
  /\ OrderIsReady
  /\ LateIsFirst
  /\ FilledUpwards
  /\ SearchedSlots
  /\ StagedValue

-----------------------------------------------------------------------------
(***************************************************************************)
(* What the positions say about the slots.                                 *)
(***************************************************************************)

LEMMA OrderSlots ==
  ASSUME OrderInv
  PROVE  /\ Len(order) \in Nat
         /\ \A k \in 1 .. Len(order) : order[k] \in Slots
         /\ lateSlot # {} => /\ Len(order) >= 1
                            /\ lateSlot = {order[1]}
         /\ lateSlot = {} => \A k \in 1 .. Len(order) : order[k] = k - 1
         /\ lateSlot # {} => \A k \in 2 .. Len(order) :
              order[k] = IF k - 2 < order[1] THEN k - 2 ELSE k - 1
<1> USE DEF OrderInv
<1>0. order \in Seq(Slots) BY DEF HistoryType
<1>1. Len(order) \in Nat BY <1>0
<1>2. \A k \in 1 .. Len(order) : order[k] \in Slots BY <1>0
<1>3. order # <<>> => Len(order) >= 1 BY <1>0
<1>4. \A k \in 1 .. Len(order) : order[k] = Position(k) BY DEF FilledUpwards
<1> QED BY <1>1, <1>2, <1>3, <1>4 DEF Position, LateIsFirst

\* A queue that has a free slot is not full, and the search takes the
\* position after the last one.
LEMMA FreeSlot ==
  ASSUME OrderInv, ~cancelLock, NEW s \in Slots, ~ready[s]
  PROVE  /\ Len(order) < NumSlots
         /\ (\A i \in Slots : i < s => ready[i]) /\ order # <<>>
              => s = IF lateSlot = {} THEN Len(order)
                     ELSE IF Len(order) - 1 < order[1]
                          THEN Len(order) - 1 ELSE Len(order)
<1> DEFINE n == Len(order)
           L == order[1]
<1>1. /\ n \in Nat
      /\ \A k \in 1 .. n : order[k] \in Slots
      /\ lateSlot # {} => n >= 1 /\ L \in Slots
      /\ lateSlot = {} => \A k \in 1 .. n : order[k] = k - 1
      /\ lateSlot # {} => \A k \in 2 .. n :
           order[k] = IF k - 2 < L THEN k - 2 ELSE k - 1
  BY OrderSlots
<1>2. \A i \in Slots : ready[i] <=> \E k \in 1 .. n : order[k] = i
  BY DEF OrderInv, OrderIsReady
<1>3. \A k \in 1 .. n : order[k] # s BY <1>2
<1>4. NumSlots \in Nat /\ NumSlots >= 1 BY NumSlotsAssumption
<1>5. order # <<>> => n >= 1
  BY DEF OrderInv, HistoryType
<1> HIDE DEF n
<1>6. CASE lateSlot = {}
  <2>1. n < NumSlots
    <3> SUFFICES ASSUME n >= NumSlots PROVE FALSE BY <1>1, <1>4
    <3>1. s + 1 \in 1 .. n BY <1>1, <1>4 DEF Slots
    <3>2. order[s + 1] = s BY <3>1, <1>1, <1>6 DEF Slots
    <3> QED BY <3>1, <3>2, <1>3
  <2>2. ASSUME \A i \in Slots : i < s => ready[i] PROVE s = n
    <3>1. CASE s < n
      <4>1. s + 1 \in 1 .. n BY <1>1, <3>1 DEF Slots
      <4>2. order[s + 1] = s BY <4>1, <1>1, <1>6 DEF Slots
      <4> QED BY <4>1, <4>2, <1>3
    <3>2. CASE s > n
      <4>1. n \in Slots BY <1>1, <1>4, <3>2 DEF Slots
      <4>2. PICK k \in 1 .. n : order[k] = n BY <4>1, <3>2, <2>2, <1>2
      <4> QED BY <4>2, <1>1, <1>6
    <3> QED BY <3>1, <3>2, <1>1 DEF Slots
  <2> QED BY <2>1, <2>2, <1>6 DEF n
<1>7. CASE lateSlot # {}
  <2>0. n >= 1 /\ L \in Slots /\ s # L
    <3>1. 1 \in 1 .. n BY <1>1, <1>7
    <3> QED BY <3>1, <1>1, <1>3, <1>7
  <2> HIDE DEF L
  <2>1. n < NumSlots
    <3> SUFFICES ASSUME n >= NumSlots PROVE FALSE BY <1>1, <1>4
    <3>1. CASE s < L
      <4>1. s + 2 \in 2 .. n BY <1>1, <1>4, <2>0, <3>1 DEF Slots
      <4>2. order[s + 2] = s BY <4>1, <1>1, <1>7, <3>1 DEF Slots
      <4>3. s + 2 \in 1 .. n BY <4>1
      <4> QED BY <4>2, <4>3, <1>3
    <3>2. CASE s > L
      <4>1. s + 1 \in 2 .. n BY <1>1, <1>4, <2>0, <3>2 DEF Slots
      <4>2. order[s + 1] = s BY <4>1, <1>1, <1>7, <2>0, <3>2 DEF Slots
      <4>3. s + 1 \in 1 .. n BY <4>1
      <4> QED BY <4>2, <4>3, <1>3
    <3> QED BY <3>1, <3>2, <2>0 DEF Slots
  <2>2. ASSUME \A i \in Slots : i < s => ready[i]
        PROVE  s = IF n - 1 < L THEN n - 1 ELSE n
    <3> DEFINE t == IF n - 1 < L THEN n - 1 ELSE n
    <3>0. t \in Int /\ t # L /\ t >= 0 BY <1>1, <2>0 DEF Slots
    <3>1. CASE s < t
      <4>1. CASE s < L
        <5>1. s + 2 \in 2 .. n BY <1>1, <2>0, <3>1, <4>1 DEF Slots
        <5>2. order[s + 2] = s BY <5>1, <1>1, <1>7, <4>1 DEF Slots
        <5>3. s + 2 \in 1 .. n BY <5>1
        <5> QED BY <5>2, <5>3, <1>3
      <4>2. CASE s > L
        <5>1. s + 1 \in 2 .. n BY <1>1, <2>0, <3>1, <4>2 DEF Slots
        <5>2. order[s + 1] = s BY <5>1, <1>1, <1>7, <2>0, <4>2 DEF Slots
        <5>3. s + 1 \in 1 .. n BY <5>1
        <5> QED BY <5>2, <5>3, <1>3
      <4> QED BY <4>1, <4>2, <2>0 DEF Slots
    <3>2. CASE s > t
      <4>1. t \in Slots BY <1>1, <1>4, <3>0, <3>2 DEF Slots
      <4>2. PICK k \in 1 .. n : order[k] = t BY <4>1, <3>2, <2>2, <1>2
      <4>3. k # 1 BY <4>2, <3>0 DEF L
      <4>4. k \in 2 .. n BY <4>2, <4>3
      <4>5. order[k] = IF k - 2 < L THEN k - 2 ELSE k - 1
        BY <4>4, <1>1, <1>7
      <4> QED BY <4>2, <4>4, <4>5, <2>0, <1>1 DEF Slots
    <3> QED BY <3>0, <3>1, <3>2 DEF Slots
  <2> QED BY <2>1, <2>2, <1>7 DEF n, L
<1> QED BY <1>6, <1>7

\* The search finds every slot busy only when the queue is full.
LEMMA FullQueue ==
  ASSUME OrderInv, ~cancelLock, \A i \in Slots : ready[i]
  PROVE  Len(order) = NumSlots
<1> DEFINE n == Len(order)
           L == order[1]
<1>1. /\ n \in Nat
      /\ \A k \in 1 .. n : order[k] \in Slots
      /\ lateSlot # {} => n >= 1 /\ L \in Slots
      /\ lateSlot = {} => \A k \in 1 .. n : order[k] = k - 1
      /\ lateSlot # {} => \A k \in 2 .. n :
           order[k] = IF k - 2 < L THEN k - 2 ELSE k - 1
  BY OrderSlots
<1>2. \A i \in Slots : \E k \in 1 .. n : order[k] = i
  BY DEF OrderInv, OrderIsReady
<1>3. NumSlots \in Nat /\ NumSlots >= 1 BY NumSlotsAssumption
<1> HIDE DEF n
<1>4. NumSlots - 1 \in Slots BY <1>3 DEF Slots
<1>5. CASE lateSlot = {}
  <2>1. n <= NumSlots
    <3> SUFFICES ASSUME n > NumSlots PROVE FALSE BY <1>1, <1>3
    <3>1. NumSlots + 1 \in 1 .. n BY <1>1, <1>3
    <3> QED BY <3>1, <1>1, <1>3, <1>5 DEF Slots
  <2>2. PICK k \in 1 .. n : order[k] = NumSlots - 1 BY <1>2, <1>4
  <2> QED BY <2>1, <2>2, <1>1, <1>3, <1>5 DEF n
<1>6. CASE lateSlot # {}
  <2> HIDE DEF L
  <2>1. n <= NumSlots
    <3> SUFFICES ASSUME n > NumSlots PROVE FALSE BY <1>1, <1>3
    <3>1. NumSlots + 1 \in 2 .. n BY <1>1, <1>3
    <3>2. NumSlots + 1 \in 1 .. n BY <3>1
    <3>3. order[NumSlots + 1] = NumSlots BY <3>1, <1>1, <1>3, <1>6 DEF Slots
    <3> QED BY <3>2, <3>3, <1>1, <1>3 DEF Slots
  <2>2. n >= NumSlots
    <3>1. CASE NumSlots = 1 BY <3>1, <1>1, <1>6
    <3>2. CASE NumSlots > 1 /\ L < NumSlots - 1
      <4>1. PICK k \in 1 .. n : order[k] = NumSlots - 1 BY <1>2, <1>4
      <4>2. k # 1 BY <4>1, <3>2, <1>1, <1>3, <1>6 DEF L, Slots
      <4>3. k \in 2 .. n BY <4>1, <4>2
      <4>4. order[k] = IF k - 2 < L THEN k - 2 ELSE k - 1
        BY <4>3, <1>1, <1>6
      <4> QED BY <4>1, <4>3, <4>4, <1>1, <1>3, <1>6, <3>2 DEF Slots
    <3>3. CASE NumSlots > 1 /\ L = NumSlots - 1
      <4>0. NumSlots - 2 \in Slots BY <3>3, <1>3 DEF Slots
      <4>1. PICK k \in 1 .. n : order[k] = NumSlots - 2 BY <1>2, <4>0
      <4>2. k # 1 BY <4>1, <3>3, <1>3 DEF L
      <4>3. k \in 2 .. n BY <4>1, <4>2
      <4>4. order[k] = IF k - 2 < L THEN k - 2 ELSE k - 1
        BY <4>3, <1>1, <1>6
      <4> QED BY <4>1, <4>3, <4>4, <1>1, <1>3, <3>3
    <3> QED BY <3>1, <3>2, <3>3, <1>1, <1>3, <1>6 DEF Slots
  <2> QED BY <2>1, <2>2, <1>1, <1>3 DEF n
<1> QED BY <1>5, <1>6

-----------------------------------------------------------------------------
(***************************************************************************)
(* The invariant holds initially and every step preserves it.              *)
(***************************************************************************)

LEMMA InitOrderInv == HistoryInit => OrderInv
<1> SUFFICES ASSUME HistoryInit PROVE OrderInv OBVIOUS
<1> USE DEF HistoryInit, Init
<1>1. HistoryType /\ Len(order) = 0
  <2>1. order \in Seq(Slots) /\ Len(order) = 0 OBVIOUS
  <2>2. straddled \in BOOLEAN BY Zenon
  <2> QED BY <2>1, <2>2 DEF HistoryType
<1>2. LockHeld /\ ClearedSoFar BY DEF LockHeld, ClearedSoFar
<1>3. OrderIsReady BY <1>1 DEF OrderIsReady
<1>4. LateIsFirst BY DEF LateIsFirst
<1>5. FilledUpwards BY <1>1 DEF FilledUpwards
<1>6. SearchedSlots /\ StagedValue BY DEF SearchedSlots, StagedValue, Writing
<1> QED BY <1>1, <1>2, <1>3, <1>4, <1>5, <1>6 DEF OrderInv

\* The history of a step that neither publishes nor discards a write.
LEMMA SameHistory ==
  ASSUME OrderInv, UNCHANGED <<order, lateSlot>>, straddled' \in BOOLEAN
  PROVE  HistoryType' /\ LateIsFirst' /\ FilledUpwards'
BY DEF OrderInv, HistoryType, LateIsFirst, FilledUpwards, Position

LEMMA StartOrder ==
  ASSUME OrderInv, pc = "idle", NEW c, NEW v \in Values, StartWrite(c, v),
         straddled' = FALSE, UNCHANGED <<order, lateSlot>>
  PROVE  OrderInv'
<1> USE DEF OrderInv, StartWrite, queueVars
<1>1. HistoryType' /\ LateIsFirst' /\ FilledUpwards' BY SameHistory
<1>2. LockHeld' /\ ClearedSoFar' BY DEF LockHeld, ClearedSoFar
<1>3. OrderIsReady' BY DEF OrderIsReady
<1>4. SearchedSlots' /\ StagedValue'
  BY NumSlotsAssumption DEF SearchedSlots, StagedValue, Slots
<1> QED BY <1>1, <1>2, <1>3, <1>4

LEMMA IgnoreOrder ==
  ASSUME OrderInv, pc = "idle", NEW x, NEW y, NEW v, IgnoreWrite(x, y, v),
         straddled' = FALSE, UNCHANGED <<order, lateSlot>>
  PROVE  OrderInv'
<1> USE DEF OrderInv, IgnoreWrite, queueVars
<1>1. HistoryType' /\ LateIsFirst' /\ FilledUpwards' BY SameHistory
<1>2. LockHeld' /\ ClearedSoFar' BY DEF LockHeld, ClearedSoFar
<1>3. OrderIsReady' BY DEF OrderIsReady
<1>4. SearchedSlots' /\ StagedValue'
  BY DEF SearchedSlots, StagedValue, Writing
<1> QED BY <1>1, <1>2, <1>3, <1>4

\* The steps of a call between its start and its publication.
LEMMA CallOrder ==
  ASSUME IInv, OrderInv, UNCHANGED <<order, straddled, lateSlot>>,
         SlotFree \/ SlotBusy \/ FillHigh \/ FillLow \/ FillValue \/ Reject
  PROVE  OrderInv'
<1> USE DEF OrderInv, SlotFree, SlotBusy, FillHigh, FillLow, FillValue, Reject,
            queueVars, argVars
<1>1. HistoryType' /\ LateIsFirst' /\ FilledUpwards'
  BY SameHistory DEF HistoryType
<1>2. LockHeld' /\ ClearedSoFar' BY DEF LockHeld, ClearedSoFar
<1>3. OrderIsReady' BY DEF OrderIsReady
<1>4. SearchedSlots'
  <2>1. slot \in Slots /\ Slots \subseteq Int
    BY SlotFacts DEF IInv, TypeOK
  <2>2. CASE SlotBusy
    <3>1. \A i \in Slots : i < slot + 1 => i < slot \/ i = slot BY <2>1
    <3> QED BY <2>1, <2>2, <3>1 DEF SearchedSlots, Writing
  <2>3. CASE ~SlotBusy BY <2>3 DEF SearchedSlots, Writing
  <2> QED BY <2>2, <2>3
<1>5. StagedValue' BY DEF StagedValue, Writing, IInv, TypeOK
<1> QED BY <1>1, <1>2, <1>3, <1>4, <1>5

LEMMA OverflowOrder ==
  ASSUME OrderInv, ClearOverflow, straddled' = FALSE,
         UNCHANGED <<order, lateSlot>>
  PROVE  OrderInv'
<1> USE DEF OrderInv, ClearOverflow, queueVars, argVars
<1>1. HistoryType' /\ LateIsFirst' /\ FilledUpwards' BY SameHistory
<1>2. LockHeld' /\ ClearedSoFar' BY DEF LockHeld, ClearedSoFar
<1>3. OrderIsReady' BY DEF OrderIsReady
<1>4. SearchedSlots' /\ StagedValue'
  BY DEF SearchedSlots, StagedValue, Writing
<1> QED BY <1>1, <1>2, <1>3, <1>4

\* The steps of a cancellation that holds the lock.
LEMMA UnlockingOrder ==
  ASSUME IInv, OrderInv, UNCHANGED <<order, straddled, lateSlot>>,
         ClearSlot \/ UnlockQueue
  PROVE  OrderInv'
<1> USE DEF OrderInv, ClearSlot, UnlockQueue, queueVars, argVars
<1>1. HistoryType' /\ LateIsFirst' /\ FilledUpwards'
  BY SameHistory DEF HistoryType
<1>2. LockHeld' BY DEF LockHeld
<1>3. ClearedSoFar'
  <2>1. slot \in Slots /\ Slots \subseteq Int /\ ready \in [Slots -> BOOLEAN]
    BY SlotFacts DEF IInv, TypeOK
  <2>2. CASE ClearSlot
    <3>1. \A i \in Slots : i < slot + 1 => i < slot \/ i = slot BY <2>1
    <3>2. \A i \in Slots : i < slot + 1 => ~ready'[i]
      BY <2>1, <2>2, <3>1 DEF ClearedSoFar
    <3>3. slot + 1 = NumSlots => \A i \in Slots : i < slot + 1
      BY <2>1, NumSlotsAssumption DEF Slots
    <3> QED BY <2>2, <3>2, <3>3 DEF ClearedSoFar
  <2>3. CASE UnlockQueue BY <2>3 DEF ClearedSoFar
  <2> QED BY <2>2, <2>3
<1>4. OrderIsReady'
  <2>1. order = <<>> /\ Len(order) = 0 BY DEF OrderIsReady, LockHeld
  <2> QED BY <2>1 DEF OrderIsReady, ClearedSoFar, LockHeld
<1>5. SearchedSlots' /\ StagedValue'
  BY DEF SearchedSlots, StagedValue, Writing
<1> QED BY <1>1, <1>2, <1>3, <1>4, <1>5

LEMMA LockOrder ==
  ASSUME IInv, OrderInv, HistoryLock PROVE OrderInv'
<1> USE DEF OrderInv, HistoryLock, LockQueue, queueVars, argVars
<1>0. Len(order') = 0 OBVIOUS
<1>1. HistoryType' BY DEF HistoryType
<1>2. LockHeld' BY DEF LockHeld
<1>3. ClearedSoFar' BY NumSlotsAssumption DEF ClearedSoFar, Slots
<1>4. OrderIsReady' /\ LateIsFirst' BY DEF OrderIsReady, LateIsFirst
<1>5. FilledUpwards' BY <1>0 DEF FilledUpwards
<1>6. SearchedSlots' /\ StagedValue'
  BY DEF SearchedSlots, StagedValue, Writing
<1> QED BY <1>1, <1>2, <1>3, <1>4, <1>5, <1>6

\* An upload empties the queue and starts a new order.
LEMMA NmiOrder ==
  ASSUME IInv, OrderInv, HistoryNmi PROVE OrderInv'
<1> USE DEF OrderInv, HistoryNmi, Nmi, argVars
<1>1. CASE cancelLock
  <2> USE <1>1 DEF history
  <2>1. HistoryType' /\ LateIsFirst' /\ FilledUpwards'
    BY SameHistory DEF HistoryType
  <2>2. LockHeld' /\ ClearedSoFar' BY DEF LockHeld, ClearedSoFar
  <2>3. OrderIsReady' BY DEF OrderIsReady
  <2>4. SearchedSlots' /\ StagedValue' BY DEF SearchedSlots, StagedValue
  <2> QED BY <2>1, <2>2, <2>3, <2>4
<1>2. CASE ~cancelLock
  <2> USE <1>2 DEF Upload
  <2>0. Len(order') = 0 OBVIOUS
  <2>1. HistoryType'
    <3>0. order' = <<>> /\ straddled' = TRUE BY Zenon
    <3> HIDE DEF OrderInv, HistoryNmi, Nmi, Upload, argVars
    <3>1. order' \in Seq(Slots) BY <3>0
    <3>2. straddled' \in BOOLEAN BY <3>0, Zenon
    <3> QED BY <3>1, <3>2 DEF HistoryType
  <2>2. LockHeld' /\ ClearedSoFar' BY DEF LockHeld, ClearedSoFar
  <2>3. OrderIsReady' BY <2>0 DEF OrderIsReady
  <2>4. LateIsFirst' BY DEF LateIsFirst
  <2>5. FilledUpwards' BY <2>0 DEF FilledUpwards
  <2>6. SearchedSlots' /\ StagedValue' BY DEF SearchedSlots, StagedValue
  <2> QED BY <2>1, <2>2, <2>3, <2>4, <2>5, <2>6
<1> QED BY <1>1, <1>2

\* Publishing takes the next position, or the first one when an NMI overtook
\* the call.
LEMMA PublishOrder ==
  ASSUME IInv, OrderInv, HistoryPublish PROVE OrderInv'
<1> USE DEF OrderInv, HistoryPublish, Publish, argVars
<1> DEFINE n == Len(order)
<1>0. /\ slot \in Slots /\ ~ready[slot] /\ ready \in [Slots -> BOOLEAN]
      /\ order \in Seq(Slots) /\ ~cancelLock
  BY DEF IInv, TypeOK, SlotIsOwned, HistoryType, LockHeld
<1>1. /\ n \in Nat
      /\ Len(order') = n + 1
      /\ order'[n + 1] = slot
      /\ \A k \in 1 .. n : order'[k] = order[k]
      /\ order' # <<>>
  BY <1>0
<1>2. HistoryType'
  <2>1. order' \in Seq(Slots) BY <1>0
  <2> QED BY <2>1 DEF HistoryType
<1>3. LockHeld' /\ ClearedSoFar' BY DEF LockHeld, ClearedSoFar
<1>4. OrderIsReady'
  <2> SUFFICES ASSUME NEW i \in Slots
               PROVE  ready'[i] <=> \E k \in 1 .. n + 1 : order'[k] = i
    BY <1>0, <1>1 DEF OrderIsReady
  <2>1. ready[i] <=> \E k \in 1 .. n : order[k] = i
    BY <1>0 DEF OrderIsReady
  <2>2. ready'[i] <=> ready[i] \/ i = slot BY <1>0
  <2>3. (\E k \in 1 .. n : order[k] = i) \/ i = slot
          => \E k \in 1 .. n + 1 : order'[k] = i
    BY <1>1
  <2>4. ASSUME NEW k \in 1 .. n + 1, order'[k] = i
        PROVE  (\E l \in 1 .. n : order[l] = i) \/ i = slot
    <3>1. k \in 1 .. n \/ k = n + 1 BY <1>1
    <3> QED BY <3>1, <2>4, <1>1
  <2> QED BY <2>1, <2>2, <2>3, <2>4
<1>5. SearchedSlots' /\ StagedValue'
  BY DEF SearchedSlots, StagedValue, Writing
<1>6. CASE straddled
  <2>1. order = <<>> BY <1>6 DEF SearchedSlots, Writing
  <2>2. lateSlot = {} BY <2>1 DEF LateIsFirst
  <2>3. n = 0 /\ order'[1] = slot /\ lateSlot' = {slot}
    BY <1>1, <1>6, <2>1, <2>2
  <2>4. LateIsFirst' BY <1>1, <2>3 DEF LateIsFirst
  <2>5. FilledUpwards' BY <1>1, <2>3 DEF FilledUpwards, Position
  <2> QED BY <1>2, <1>3, <1>4, <1>5, <2>4, <2>5
<1>7. CASE ~straddled
  <2>0. lateSlot' = lateSlot BY <1>7
  <2>1. lateSlot # {} => n >= 1 /\ lateSlot = {order[1]} BY OrderSlots
  <2>2. lateSlot # {} => order'[1] = order[1] BY <1>1, <2>1
  <2>3. LateIsFirst' BY <1>1, <2>0, <2>1, <2>2 DEF LateIsFirst
  <2>4. \A i \in Slots : i < slot => ready[i]
    BY <1>7 DEF SearchedSlots, Writing
  <2>5. order # <<>> => slot = IF lateSlot = {} THEN n
                              ELSE IF n - 1 < order[1] THEN n - 1 ELSE n
    BY <1>0, <2>4, FreeSlot
  <2>6. order = <<>> => lateSlot = {} /\ n = 0 /\ slot = 0
    <3>1. ASSUME order = <<>> PROVE n = 0 /\ lateSlot = {}
      BY <3>1 DEF LateIsFirst
    <3>2. ASSUME order = <<>> PROVE ~(0 < slot)
      BY <3>1, <3>2, <1>0, <2>4, SlotFacts DEF OrderIsReady
    <3> QED BY <3>1, <3>2, <1>0, NumSlotsAssumption DEF Slots
  <2>7. ASSUME NEW k \in 1 .. n + 1 PROVE order'[k] = Position(k)'
    <3>1. CASE k \in 1 .. n
      <4>1. order[k] = Position(k) BY <3>1 DEF FilledUpwards
      <4> QED BY <3>1, <4>1, <1>1, <2>0, <2>2 DEF Position
    <3>2. CASE k = n + 1
      <4> HIDE DEF OrderInv, HistoryPublish, Publish
      <4> QED BY <3>2, <1>1, <2>0, <2>1, <2>2, <2>5, <2>6 DEF Position
    <3> QED BY <3>1, <3>2, <1>1
  <2>8. FilledUpwards' BY <1>1, <2>7 DEF FilledUpwards
  <2> QED BY <1>2, <1>3, <1>4, <1>5, <2>3, <2>8
<1> QED BY <1>6, <1>7

LEMMA StepOrderInv == IInv /\ OrderInv /\ [HistoryNext]_historyVars => OrderInv'
<1> SUFFICES ASSUME IInv, OrderInv, [HistoryNext]_historyVars PROVE OrderInv'
  OBVIOUS
<1>1. CASE UNCHANGED historyVars
  <2> USE <1>1 DEF historyVars, history, vars, OrderInv
  <2>1. HistoryType' /\ LateIsFirst' /\ FilledUpwards'
    BY SameHistory DEF HistoryType
  <2>2. LockHeld' /\ ClearedSoFar' BY DEF LockHeld, ClearedSoFar
  <2>3. OrderIsReady' BY DEF OrderIsReady
  <2>4. SearchedSlots' /\ StagedValue' BY DEF SearchedSlots, StagedValue
  <2> QED BY <2>1, <2>2, <2>3, <2>4
<1>2. CASE Silent
  <2>0. UNCHANGED <<order, lateSlot>> BY <1>2 DEF Silent
  <2>1. pc = "idle" => straddled' = FALSE BY <1>2 DEF Silent
  <2>2. pc # "idle" => straddled' = straddled BY <1>2 DEF Silent
  <2>3. CASE \E a \in TileArgs, v \in Values : SetTile(a[1], a[2], v)
    BY <2>0, <2>1, <2>3, StartOrder, IgnoreOrder DEF SetTile
  <2>4. CASE \E a \in AttributeArgs, v \in Values : SetAttribute(a[1], a[2], v)
    BY <2>0, <2>1, <2>4, StartOrder, IgnoreOrder DEF SetAttribute
  <2>5. CASE SlotFree \/ SlotBusy \/ FillHigh \/ FillLow \/ FillValue \/ Reject
    <3>1. pc # "idle"
      BY <2>5 DEF SlotFree, SlotBusy, FillHigh, FillLow, FillValue, Reject
    <3> QED BY <2>0, <2>2, <2>5, <3>1, CallOrder
  <2>6. CASE ClearOverflow
    BY <2>0, <2>1, <2>6, OverflowOrder DEF ClearOverflow
  <2>7. CASE ClearSlot \/ UnlockQueue
    <3>1. pc # "idle" BY <2>7 DEF ClearSlot, UnlockQueue
    <3> QED BY <2>0, <2>2, <2>7, <3>1, UnlockingOrder
  <2> QED BY <1>2, <2>3, <2>4, <2>5, <2>6, <2>7 DEF Silent
<1>3. CASE HistoryPublish BY <1>3, PublishOrder
<1>4. CASE HistoryLock BY <1>4, LockOrder
<1>5. CASE HistoryNmi BY <1>5, NmiOrder
<1> QED BY <1>1, <1>2, <1>3, <1>4, <1>5 DEF HistoryNext

\* The history only observes the queue.
LEMMA HistoryStep == [HistoryNext]_historyVars => [Next]_vars
BY DEF HistoryNext, Silent, HistoryPublish, HistoryLock, HistoryNmi, Next, Main,
       historyVars

LEMMA HistoryInvariance == HistorySpec => [](IInv /\ OrderInv)
<1>1. HistoryInit => IInv /\ OrderInv
  BY InitIInv, InitOrderInv DEF HistoryInit
<1>2. IInv /\ OrderInv /\ [HistoryNext]_historyVars => (IInv /\ OrderInv)'
  BY HistoryStep, StepIInv, StepOrderInv
<1> QED BY <1>1, <1>2, PTL DEF HistorySpec

-----------------------------------------------------------------------------
(***************************************************************************)
(* The ascending upload loop.                                              *)
(***************************************************************************)

\* A nonempty finite set of numbers has a largest element: the sets of the
\* elements above each element are ordered by inclusion, and a minimal one
\* is empty.
LEMMA Maximum ==
  ASSUME NEW S \in SUBSET Int, IsFiniteSet(S), S # {}
  PROVE  \E i \in S : \A j \in S : j <= i
<1> DEFINE Above(i) == {j \in S : j > i}
           T == {Above(i) : i \in S}
<1>1. T \subseteq FiniteSubsetsOf(S) /\ T # {}
  <2>1. \A i \in S : Above(i) \in SUBSET S OBVIOUS
  <2>2. FiniteSubsetsOf(S) = SUBSET S BY FS_FiniteSubsetsOfFinite
  <2>3. \A x \in T : x \in SUBSET S BY <2>1
  <2>4. T # {} OBVIOUS
  <2> HIDE DEF T
  <2> QED BY <2>2, <2>3, <2>4
<1>2. IsWellFoundedOn(StrictSubsetOrdering(S), FiniteSubsetsOf(S))
  BY FS_StrictSubsetOrderingWellFounded
<1>3. PICK x \in T : \A y \in T : ~(<<y, x>> \in StrictSubsetOrdering(S))
  <2> HIDE DEF T
  <2> QED BY <1>1, <1>2, WFMin
<1>4. PICK i \in S : x = Above(i) OBVIOUS
<1>5. ASSUME NEW j \in S, ~(j <= i) PROVE FALSE
  <2>1. j \in x /\ j \notin Above(j) BY <1>4, <1>5
  <2>2. Above(j) \subseteq x
    <3>1. j > i BY <1>5
    <3>2. \A k \in S : k > j => k > i BY <3>1
    <3> QED BY <1>4, <3>2
  <2>3. x \in SUBSET S /\ Above(j) \in SUBSET S /\ Above(j) \in T BY <1>4
  <2>4. <<Above(j), x>> \in StrictSubsetOrdering(S)
    <3> HIDE DEF Above
    <3> QED BY <2>1, <2>2, <2>3 DEF StrictSubsetOrdering
  <2> QED BY <2>3, <2>4, <1>3
<1> QED BY <1>5

\* The first n elements of s are numbers in ascending order.
Ascending(s, n) ==
  /\ \A k \in 1 .. n : s[k] \in Int
  /\ \A k, l \in 1 .. n : k < l => s[k] < s[l]

HasLast(S) == \E i \in S : \A j \in S : j <= i

\* The last of the slots at some positions is the one at the last position.
LEMMA LastOfImage ==
  ASSUME NEW n \in Nat, NEW s, Ascending(s, n),
         NEW S \in SUBSET (1 .. n), S # {},
         NEW T, T = {s[k] : k \in S}
  PROVE  /\ LastOf(S) \in S
         /\ HasLast(S)
         /\ HasLast(T)
         /\ LastOf(T) = s[LastOf(S)]
<1>0. /\ \A k \in 1 .. n : s[k] \in Int
      /\ \A k, l \in 1 .. n : k < l => s[k] < s[l]
  BY DEF Ascending
<1>1. IsFiniteSet(S)
  <2>1. IsFiniteSet(1 .. n) BY FS_Interval
  <2> QED BY <2>1, FS_Subset
<1>2. S \subseteq Int OBVIOUS
<1>3. PICK m \in S : \A j \in S : j <= m BY <1>1, <1>2, Maximum
<1>4. LastOf(S) \in S /\ \A j \in S : j <= LastOf(S) BY <1>3 DEF LastOf
<1> DEFINE top == LastOf(S)
<1> HIDE DEF top
<1>5. top \in S /\ \A j \in S : j <= top BY <1>4 DEF top
<1>6. s[top] \in T BY <1>5
<1>7. ASSUME NEW j \in T PROVE j \in Int /\ j <= s[top]
  <2>1. PICK k \in S : s[k] = j OBVIOUS
  <2>2. k \in Int /\ top \in Int /\ k <= top BY <2>1, <1>2, <1>5
  <2>3. k < top \/ k = top BY <2>2
  <2>4. k \in 1 .. n /\ top \in 1 .. n BY <2>1, <1>5
  <2>5. s[k] \in Int /\ s[top] \in Int BY <2>4, <1>0
  <2>6. k < top => s[k] < s[top] BY <2>4, <1>0
  <2> QED BY <2>1, <2>3, <2>5, <2>6
<1>8. s[top] \in Int BY <1>6, <1>7
<1>9. LastOf(T) \in T /\ \A j \in T : j <= LastOf(T)
  BY <1>6, <1>7 DEF LastOf
<1>10. LastOf(T) = s[top]
  <2>1. LastOf(T) \in Int /\ LastOf(T) <= s[top] BY <1>7, <1>9
  <2>2. s[top] <= LastOf(T) BY <1>6, <1>9
  <2> QED BY <2>1, <2>2, <1>8
<1>11. HasLast(S) /\ HasLast(T) BY <1>3, <1>6, <1>7 DEF HasLast
<1> QED BY <1>4, <1>10, <1>11 DEF top

-----------------------------------------------------------------------------

\* Writes that no NMI overtook sit in the slot order of their calls.
LEMMA OnTimeAscending == OrderInv => OnlyLateWritesAreMisplaced
<1> SUFFICES ASSUME OrderInv PROVE OnlyLateWritesAreMisplaced OBVIOUS
<1>1. \A i, j \in lateSlot : i = j BY OrderSlots
<1>2. ASSUME NEW k \in 1 .. Len(order), NEW l \in 1 .. Len(order), k < l,
             {order[k], order[l]} \intersect lateSlot = {}
      PROVE  order[k] < order[l]
  <2>1. CASE lateSlot = {} BY <1>2, <2>1, OrderSlots
  <2>2. CASE lateSlot # {}
    <3>1. Len(order) \in Nat /\ order[1] \in Slots /\ lateSlot = {order[1]}
      <4>1. 1 \in 1 .. Len(order) BY <2>2, OrderSlots
      <4> QED BY <4>1, <2>2, OrderSlots
    <3>2. k # 1 /\ l # 1 BY <1>2, <3>1
    <3>3. k \in 2 .. Len(order) /\ l \in 2 .. Len(order) BY <3>1, <3>2
    <3>4. order[k] = IF k - 2 < order[1] THEN k - 2 ELSE k - 1
      BY <3>3, <2>2, OrderSlots
    <3>5. order[l] = IF l - 2 < order[1] THEN l - 2 ELSE l - 1
      BY <3>3, <2>2, OrderSlots
    <3>6. order[1] \in Int BY <3>1, SlotFacts
    <3> QED BY <1>2, <3>3, <3>4, <3>5, <3>6
  <2> QED BY <2>1, <2>2
<1> QED BY <1>1, <1>2 DEF OnlyLateWritesAreMisplaced

\* A late write is the first of the batch and occurs only there.
LEMMA LateIsOnlyFirst ==
  ASSUME OrderInv, NEW k \in 1 .. Len(order), order[k] \in lateSlot
  PROVE  k = 1
<1>1. Len(order) \in Nat /\ order[1] \in Slots /\ lateSlot = {order[1]}
  <2>1. 1 \in 1 .. Len(order) BY OrderSlots
  <2> QED BY <2>1, OrderSlots
<1>2. order[1] \in Int BY <1>1, SlotFacts
<1>3. ASSUME k # 1 PROVE FALSE
  <2>1. k \in 2 .. Len(order) BY <1>1, <1>3
  <2>2. order[k] = IF k - 2 < order[1] THEN k - 2 ELSE k - 1 BY <2>1, OrderSlots
  <2> QED BY <1>1, <1>2, <2>1, <2>2
<1> QED BY <1>3

(***************************************************************************)
(* At most one pending write is out of the order of the calls: the one     *)
(* that an NMI overtook between its search and its publication             *)
(* (runtime_queue_background_write).                                       *)
(***************************************************************************)
THEOREM OneMisplacedWrite == HistorySpec => []OnlyLateWritesAreMisplaced
BY OnTimeAscending, HistoryInvariance, PTL

(***************************************************************************)
(* Unless a pending write to that very cell was overtaken, an NMI leaves   *)
(* in every cell the byte of the last accepted call for it, whatever       *)
(* happened to the writes of other cells (runtime_upload_queued_background *)
(* and runtime_queue_background_write).                                    *)
(***************************************************************************)
THEOREM LastCallDecides == HistorySpec => LastCallWinsUnlessStraddled
<1> DEFINE Decides ==
      Drains => \A c \in Cells :
        WritersOf(c) # {} /\ WritersOf(c) \intersect lateSlot = {}
          => ppu'[c] = NewestFor(c)
<1>1. ASSUME IInv, OrderInv PROVE Decides
  <2> SUFFICES ASSUME Drains, NEW c \in Cells, WritersOf(c) # {},
                      WritersOf(c) \intersect lateSlot = {}
               PROVE  ppu'[c] = NewestFor(c)
    OBVIOUS
  <2> DEFINE n == Len(order)
             calls == {k \in 1 .. n : SlotAddress(order[k]) = c}
             \* The slots of the batch, with a late one below all others.
             place == [k \in 1 .. n |-> IF order[k] \in lateSlot THEN -1 ELSE order[k]]
  <2>1. /\ n \in Nat
        /\ \A k \in 1 .. n : order[k] \in Slots
        /\ \A i \in Slots : ready[i] <=> \E k \in 1 .. n : order[k] = i
    BY <1>1, OrderSlots DEF Drains, OrderInv, OrderIsReady
  <2>2. WritersOf(c) = {order[k] : k \in calls} BY <2>1 DEF WritersOf
  <2>3. calls # {} /\ calls \in SUBSET (1 .. n) BY <2>2
  <2>4. \A k \in calls : place[k] = order[k]
    <3>1. \A k \in calls : order[k] \in WritersOf(c) BY <2>2
    <3> QED BY <3>1
  <2>5. Ascending(place, n)
    <3>1. \A k \in 1 .. n : order[k] \in Int /\ order[k] >= 0
      BY <2>1, NumSlotsAssumption DEF Slots
    <3>2. ASSUME NEW k \in 1 .. n, NEW l \in 1 .. n, k < l
          PROVE  place[k] < place[l]
      <4>1. order[l] \notin lateSlot BY <1>1, <2>1, <3>2, LateIsOnlyFirst
      <4>2. CASE order[k] \in lateSlot BY <3>1, <4>1, <4>2
      <4>3. CASE order[k] \notin lateSlot
        <5>1. order[k] < order[l]
          BY <1>1, <3>2, <4>1, <4>3, OnTimeAscending DEF OnlyLateWritesAreMisplaced
        <5> QED BY <4>1, <4>3, <5>1
      <4> QED BY <4>2, <4>3
    <3>3. \A k \in 1 .. n : place[k] \in Int BY <3>1
    <3> HIDE DEF place
    <3> QED BY <3>2, <3>3 DEF Ascending
  <2> HIDE DEF place
  <2>6. WritersOf(c) = {place[k] : k \in calls}
    <3> HIDE DEF calls
    <3> QED BY <2>2, <2>4
  <2>7. /\ LastOf(calls) \in calls
        /\ HasLast(WritersOf(c))
        /\ LastOf(WritersOf(c)) = place[LastOf(calls)]
    <3> HIDE DEF calls, n
    <3> QED BY <2>1, <2>3, <2>5, <2>6, LastOfImage
  <2>8. LastOf(WritersOf(c)) = order[LastOf(calls)]
    <3> HIDE DEF calls
    <3> QED BY <2>4, <2>7
  <2>9. ppu'[c] = LastByte(WritersOf(c), ppu[c]) BY DEF Drains, Nmi, Upload
  <2> QED BY <2>7, <2>8, <2>9 DEF LastByte, NewestFor, HasLast
<1>2. IInv /\ OrderInv /\ [HistoryNext]_historyVars => [Decides]_historyVars
  BY <1>1
<1> QED
  BY <1>2, HistoryInvariance, PTL DEF HistorySpec, LastCallWinsUnlessStraddled

-----------------------------------------------------------------------------
(***************************************************************************)
(* Refinement of BackgroundWrites: what each step does to the pending and  *)
(* late writes it promises.                                                *)
(***************************************************************************)

\* The pending writes one by one.
LEMMA PendingFacts ==
  ASSUME OrderInv
  PROVE  /\ lateSlot = {} => /\ Len(PendingWrites) = Len(order)
                            /\ LateWrites = {}
                            /\ \A k \in 1 .. Len(order) :
                                 PendingWrites[k] = WriteIn(order[k])
         /\ lateSlot # {} => /\ Len(PendingWrites) = Len(order) - 1
                            /\ LateWrites = {WriteIn(order[1])}
                            /\ \A k \in 1 .. Len(order) - 1 :
                                 PendingWrites[k] = WriteIn(order[k + 1])
<1>0. order \in Seq(Slots) BY DEF OrderInv, HistoryType
<1>1. ASSUME lateSlot # {}
      PROVE  Len(order) >= 1 /\ lateSlot = {order[1]}
  BY <1>1, OrderSlots
<1>2. CASE lateSlot = {}
  BY <1>0, <1>2 DEF PendingWrites, OnTime, LateWrites
<1>3. CASE lateSlot # {}
  <2>1. /\ Len(Tail(order)) = Len(order) - 1
        /\ Len(Tail(order)) \in Nat
        /\ \A k \in 1 .. Len(order) - 1 : Tail(order)[k] = order[k + 1]
    BY <1>0, <1>1, <1>3
  <2> QED BY <1>1, <1>3, <2>1 DEF PendingWrites, OnTime, LateWrites
<1> QED BY <1>2, <1>3

LEMMA PromiseFull ==
  ASSUME OrderInv PROVE Promise!Full <=> Len(order) = NumSlots
<1>1. Len(order) \in Nat /\ NumSlots \in Nat
  BY NumSlotsAssumption DEF OrderInv, HistoryType
<1>2. CASE lateSlot = {}
  BY <1>1, <1>2, PendingFacts DEF Promise!Full
<1>3. CASE lateSlot # {}
  <2>1. LateWrites # {} /\ Len(PendingWrites) = Len(order) - 1
    BY <1>3, PendingFacts
  <2> QED BY <1>1, <2>1 DEF Promise!Full
<1> QED BY <1>2, <1>3

\* A step that keeps the history and the bytes of every published slot keeps
\* the pending writes.
LEMMA PendingKept ==
  ASSUME OrderInv, UNCHANGED <<order, lateSlot>>,
         \A k \in 1 .. Len(order) :
           /\ high'[order[k]] = high[order[k]]
           /\ low'[order[k]] = low[order[k]]
           /\ value'[order[k]] = value[order[k]]
  PROVE  UNCHANGED <<PendingWrites, LateWrites>>
<1>0. order \in Seq(Slots) BY DEF OrderInv, HistoryType
<1>1. \A k \in 1 .. Len(order) : WriteIn(order[k])' = WriteIn(order[k])
  BY DEF WriteIn, SlotAddress
<1>2. ASSUME lateSlot # {}
      PROVE  Len(order) >= 1 /\ lateSlot = {order[1]}
  BY <1>2, OrderSlots
<1>3. CASE lateSlot = {}
  BY <1>0, <1>1, <1>3 DEF PendingWrites, OnTime, LateWrites
<1>4. CASE lateSlot # {}
  <2>1. /\ Len(Tail(order)) = Len(order) - 1
        /\ \A k \in 1 .. Len(order) - 1 : Tail(order)[k] = order[k + 1]
    BY <1>0, <1>2, <1>4
  <2>2. \A k \in 1 .. Len(order) - 1 : k + 1 \in 1 .. Len(order)
    BY <1>0
  <2>3. 1 \in 1 .. Len(order) BY <1>0, <1>2, <1>4
  <2>4. LateWrites' = LateWrites BY <1>1, <1>2, <1>4, <2>3 DEF LateWrites
  <2>5. PendingWrites' = PendingWrites
    BY <1>1, <1>4, <2>1, <2>2 DEF PendingWrites, OnTime
  <2> QED BY <2>4, <2>5
<1> QED BY <1>3, <1>4

\* A step that keeps what is promised.
LEMMA PromiseStutters ==
  ASSUME UNCHANGED <<PendingWrites, LateWrites, ppu>>,
         (overflow \/ pc = "reject")' <=> (overflow \/ pc = "reject")
  PROVE  UNCHANGED Promise!vars
BY DEF Promise!vars

LEMMA InitPromise == HistoryInit => Promise!Init
<1> SUFFICES ASSUME HistoryInit PROVE Promise!Init OBVIOUS
<1> USE DEF HistoryInit, Init
<1>1. PendingWrites = <<>> BY DEF PendingWrites, OnTime
<1>2. LateWrites = {} BY DEF LateWrites
<1>3. (overflow \/ pc = "reject") = FALSE OBVIOUS
<1>4. ppu \in [Cells -> Values \union InitialBytes] OBVIOUS
<1> QED BY <1>1, <1>2, <1>3, <1>4 DEF Promise!Init

\* The steps of a call before its publication, and a rejected call: a search
\* that finds the last slot busy is a rejection.
LEMMA CallPromise ==
  ASSUME IInv, OrderInv, UNCHANGED <<order, lateSlot>>,
         SlotFree \/ SlotBusy \/ FillHigh \/ FillLow \/ FillValue \/ Reject
  PROVE  [Promise!Next]_Promise!vars
<1> USE DEF SlotFree, SlotBusy, FillHigh, FillLow, FillValue, Reject, queueVars,
            argVars
<1>1. \A k \in 1 .. Len(order) : order[k] \in Slots BY OrderSlots
<1>2. ~cancelLock BY DEF OrderInv, LockHeld
<1>3. \A k \in 1 .. Len(order) : ready[order[k]]
  BY <1>1, <1>2 DEF OrderInv, OrderIsReady
<1>4. \A k \in 1 .. Len(order) :
        /\ high'[order[k]] = high[order[k]]
        /\ low'[order[k]] = low[order[k]]
        /\ value'[order[k]] = value[order[k]]
  BY <1>1, <1>3 DEF IInv, SlotIsOwned, TypeOK
<1>5. UNCHANGED <<PendingWrites, LateWrites>> BY <1>4, PendingKept
<1>6. CASE SlotBusy /\ slot + 1 = NumSlots
  <2>1. pc = "find" /\ pc' = "reject" /\ ready[slot] BY <1>6
  <2>2. slot \in Slots BY DEF IInv, TypeOK
  <2>3. order # <<>>
    BY <1>2, <2>1, <2>2 DEF OrderInv, OrderIsReady
  <2>4. \A i \in Slots : i < slot => ready[i]
    BY <2>1, <2>3 DEF OrderInv, SearchedSlots, Writing, HistoryType
  <2>5. \A i \in Slots : ready[i]
    <3>1. \A i \in Slots : i < slot \/ i = slot
      BY <1>6, <2>2, NumSlotsAssumption DEF Slots
    <3> QED BY <2>1, <2>4, <3>1
  <2>6. Promise!Full BY <1>2, <2>5, FullQueue, PromiseFull
  <2>7. Promise!Reject BY <1>5, <1>6, <2>1, <2>6 DEF Promise!Reject
  <2> QED BY <2>7 DEF Promise!Next
<1>7. CASE ~(SlotBusy /\ slot + 1 = NumSlots)
  <2>1. ppu' = ppu OBVIOUS
  <2>2. (overflow \/ pc = "reject")' <=> (overflow \/ pc = "reject") BY <1>7
  <2>3. UNCHANGED Promise!vars BY <1>5, <2>1, <2>2, PromiseStutters
  <2> QED BY <2>3
<1> QED BY <1>6, <1>7

\* The steps that begin a call, or clear flags under the lock.
LEMMA QuietPromise ==
  ASSUME OrderInv, UNCHANGED <<order, lateSlot, high, low, value, ppu>>,
         overflow' = overflow, pc # "reject", pc' # "reject"
  PROVE  UNCHANGED Promise!vars
<1>1. UNCHANGED <<PendingWrites, LateWrites>> BY PendingKept
<1> QED BY <1>1, PromiseStutters

LEMMA OverflowPromise ==
  ASSUME OrderInv, ClearOverflow, UNCHANGED <<order, lateSlot>>
  PROVE  Promise!ClearOverflow
<1> USE DEF ClearOverflow, queueVars, argVars
<1>1. UNCHANGED <<PendingWrites, LateWrites>> BY PendingKept
<1>2. (overflow \/ pc = "reject")' = FALSE OBVIOUS
<1> QED BY <1>1, <1>2 DEF Promise!ClearOverflow

\* Taking the lock discards every pending write.
LEMMA LockPromise == ASSUME OrderInv, HistoryLock PROVE Promise!Cancel
<1> USE DEF HistoryLock, LockQueue, queueVars, argVars
<1>1. PendingWrites' = <<>> BY DEF PendingWrites, OnTime
<1>2. LateWrites' = {} BY DEF LateWrites
<1>3. (overflow \/ pc = "reject")' = (overflow \/ pc = "reject") OBVIOUS
<1> QED BY <1>1, <1>2, <1>3 DEF Promise!Cancel

\* A publication accepts a write, on time or late.
LEMMA PublishPromise ==
  ASSUME IInv, OrderInv, HistoryPublish
  PROVE  \E w \in Promise!Write : Promise!Accept(w) \/ Promise!AcceptLate(w)
<1> USE DEF HistoryPublish, Publish, argVars
<1> DEFINE w == WriteIn(slot)
<1>0. /\ slot \in Slots /\ ~ready[slot] /\ ~cancelLock /\ order \in Seq(Slots)
  BY DEF IInv, OrderInv, TypeOK, SlotIsOwned, HistoryType, LockHeld
<1>1. w \in Promise!Write
  <2>1. SlotAddress(slot) \in Cells
    BY DEF IInv, SlotAddress, StagedCell, StagedBytes
  <2>2. value[slot] \in Values BY DEF OrderInv, StagedValue, Writing
  <2> QED BY <2>1, <2>2 DEF WriteIn, Promise!Write
<1>2. ~Promise!Full BY <1>0, FreeSlot, PromiseFull, NumSlotsAssumption
<1>3. (overflow \/ pc = "reject")' = (overflow \/ pc = "reject") OBVIOUS
<1>4. \A i : WriteIn(i)' = WriteIn(i) BY DEF WriteIn, SlotAddress
<1>5. CASE straddled
  <2>1. order = <<>> BY <1>5 DEF OrderInv, SearchedSlots, Writing
  <2>2. lateSlot = {} BY <2>1 DEF OrderInv, LateIsFirst
  <2>3. order' = <<slot>> /\ lateSlot' = {slot} BY <1>5, <2>1, <2>2
  <2>4. PendingWrites = <<>> /\ LateWrites = {}
    BY <2>1, <2>2 DEF PendingWrites, OnTime, LateWrites
  <2>5. PendingWrites' = <<>> BY <2>3 DEF PendingWrites, OnTime
  <2>6. LateWrites' = {w} BY <1>4, <2>3 DEF LateWrites
  <2>7. Promise!AcceptLate(w)
    BY <1>2, <1>3, <2>4, <2>5, <2>6 DEF Promise!AcceptLate
  <2> QED BY <1>1, <2>7
<1>6. CASE ~straddled
  <2>1. order' = Append(order, slot) /\ lateSlot' = lateSlot BY <1>6
  <2>2. lateSlot # {} => Len(order) >= 1 BY OrderSlots
  <2>3. OnTime \in Seq(Slots) BY <1>0, <2>2 DEF OnTime
  <2>4. OnTime' = Append(OnTime, slot)
    <3>1. CASE lateSlot = {} BY <2>1, <3>1 DEF OnTime
    <3>2. CASE lateSlot # {}
      <4>1. Tail(Append(order, slot)) = Append(Tail(order), slot)
        BY <1>0, <2>2, <3>2
      <4> QED BY <2>1, <3>2, <4>1 DEF OnTime
    <3> QED BY <3>1, <3>2
  <2>5. LateWrites' = LateWrites BY <1>4, <2>1 DEF LateWrites
  <2>6. PendingWrites' = Append(PendingWrites, w)
    <3> DEFINE m == Len(OnTime)
    <3>1. /\ m \in Nat /\ Len(OnTime') = m + 1
          /\ OnTime'[m + 1] = slot
          /\ \A k \in 1 .. m : OnTime'[k] = OnTime[k]
      BY <2>3, <2>4
    <3>2. PendingWrites' = [k \in 1 .. m + 1 |-> WriteIn(OnTime'[k])]
      BY <1>4, <3>1 DEF PendingWrites
    <3>3. PendingWrites = [k \in 1 .. m |-> WriteIn(OnTime[k])]
      BY DEF PendingWrites
    <3>4. Append(PendingWrites, w)
            = [k \in 1 .. m + 1 |-> IF k = m + 1 THEN w ELSE WriteIn(OnTime[k])]
      <4> HIDE DEF m, w
      <4> QED BY <3>1, <3>3
    <3>5. \A k \in 1 .. m + 1 : k = m + 1 \/ k \in 1 .. m BY <3>1
    <3> HIDE DEF m
    <3> QED BY <3>1, <3>2, <3>4, <3>5
  <2>7. Promise!Accept(w) BY <1>2, <1>3, <2>5, <2>6 DEF Promise!Accept
  <2> QED BY <1>1, <2>7
<1> QED BY <1>5, <1>6

\* An upload applies a list of writes that sit in the queue in ascending
\* slots.
LEMMA AppliedAscending ==
  ASSUME NEW n \in Nat, NEW s, Ascending(s, n),
         \A k \in 1 .. n : s[k] \in Slots,
         \A i \in Slots : ready[i] <=> \E k \in 1 .. n : s[k] = i,
         NEW t, Len(t) = n, \A k \in 1 .. n : t[k] = WriteIn(s[k])
  PROVE  Promise!Applied(t) = [c \in Cells |-> LastByte(WritersOf(c), ppu[c])]
<1> DEFINE hits(c) == {k \in 1 .. n : SlotAddress(s[k]) = c}
<1>1. ASSUME NEW c \in Cells
      PROVE  LastByte(WritersOf(c), ppu[c])
               = IF hits(c) = {} THEN ppu[c] ELSE value[s[LastOf(hits(c))]]
  <2>1. WritersOf(c) = {s[k] : k \in hits(c)} BY DEF WritersOf
  <2>2. hits(c) \in SUBSET (1 .. n) OBVIOUS
  <2>3. CASE hits(c) = {}
    <3>1. WritersOf(c) = {} BY <2>1, <2>3
    <3> QED BY <2>3, <3>1 DEF LastByte
  <2>4. CASE hits(c) # {}
    <3>1. /\ HasLast(WritersOf(c))
          /\ LastOf(WritersOf(c)) = s[LastOf(hits(c))]
      <4> HIDE DEF hits
      <4> QED BY <2>1, <2>2, <2>4, LastOfImage
    <3> QED BY <2>4, <3>1 DEF LastByte, HasLast
  <2> QED BY <2>3, <2>4
<1>2. ASSUME NEW c \in Cells
      PROVE  {k \in 1 .. Len(t) : t[k].addr = c} = hits(c)
  BY DEF WriteIn
<1>3. ASSUME NEW c \in Cells, hits(c) # {}
      PROVE  t[LastOf(hits(c))].byte = value[s[LastOf(hits(c))]]
  <2>1. hits(c) \in SUBSET (1 .. n) OBVIOUS
  <2>2. LastOf(hits(c)) \in hits(c)
    <3>1. hits(c) \in SUBSET Int OBVIOUS
    <3>2. IsFiniteSet(hits(c))
      <4>1. IsFiniteSet(1 .. n) BY FS_Interval
      <4> HIDE DEF hits
      <4> QED BY <2>1, <4>1, FS_Subset
    <3> HIDE DEF hits
    <3>3. \E i \in hits(c) : \A j \in hits(c) : j <= i
      BY <1>3, <3>1, <3>2, Maximum
    <3> QED BY <3>3 DEF LastOf
  <2>3. LastOf(hits(c)) \in 1 .. n BY <2>1, <2>2
  <2> HIDE DEF hits
  <2> QED BY <2>3 DEF WriteIn
<1> DEFINE found(c) == {k \in 1 .. Len(t) : t[k].addr = c}
           byte(c) == IF found(c) = {} THEN ppu[c] ELSE t[LastOf(found(c))].byte
<1>4. Promise!Applied(t) = [c \in Cells |-> byte(c)]
  BY DEF Promise!Applied, LastOf
<1>5. \A c \in Cells : byte(c) = LastByte(WritersOf(c), ppu[c])
  <2>1. \A c \in Cells : found(c) = hits(c) BY <1>2
  <2> HIDE DEF hits, found
  <2> QED BY <1>1, <1>3, <2>1
<1> HIDE DEF byte
<1> QED BY <1>4, <1>5

\* The list of pending writes with another write inserted.
LEMMA InsertedFacts ==
  ASSUME NEW S, NEW p \in Seq(S), NEW w \in S, NEW k \in 1 .. Len(p) + 1
  PROVE  LET q == SubSeq(p, 1, k - 1) \o <<w>> \o SubSeq(p, k, Len(p))
         IN /\ Len(q) = Len(p) + 1
            /\ \A j \in 1 .. Len(p) + 1 :
                 q[j] = IF j < k THEN p[j] ELSE IF j = k THEN w ELSE p[j - 1]
<1> DEFINE a == SubSeq(p, 1, k - 1)
           b == SubSeq(p, k, Len(p))
           m == Len(p)
<1>0. m \in Nat /\ k \in Nat /\ k >= 1 /\ k <= m + 1 OBVIOUS
<1>1. a \in Seq(S) /\ Len(a) = k - 1 /\ \A j \in 1 .. k - 1 : a[j] = p[j]
  OBVIOUS
<1>2. /\ b \in Seq(S) /\ Len(b) = m - k + 1
      /\ \A j \in 1 .. m - k + 1 : b[j] = p[k + j - 1]
  OBVIOUS
<1> DEFINE c == a \o <<w>>
<1> HIDE DEF a, b, m
<1>3. /\ c \in Seq(S) /\ Len(c) = k
      /\ \A j \in 1 .. k - 1 : c[j] = p[j]
      /\ c[k] = w
  BY <1>0, <1>1
<1> HIDE DEF c
<1>4. /\ Len(c \o b) = m + 1
      /\ \A j \in 1 .. k : (c \o b)[j] = c[j]
      /\ \A j \in k + 1 .. m + 1 : (c \o b)[j] = b[j - k]
  <2>1. c \in Seq(S) /\ b \in Seq(S) BY <1>2, <1>3
  <2>2. /\ Len(c \o b) = Len(c) + Len(b)
        /\ \A j \in 1 .. Len(c) + Len(b) :
             (c \o b)[j] = IF j <= Len(c) THEN c[j] ELSE b[j - Len(c)]
    BY <2>1
  <2> QED BY <1>0, <1>2, <1>3, <2>2
<1>5. \A j \in k + 1 .. m + 1 : b[j - k] = p[j - 1] BY <1>0, <1>2
<1>6. \A j \in 1 .. m + 1 :
        (c \o b)[j] = IF j < k THEN p[j] ELSE IF j = k THEN w ELSE p[j - 1]
  BY <1>0, <1>3, <1>4, <1>5
<1> QED BY <1>4, <1>6 DEF a, b, c, m

LEMMA ConfirmPromise ==
  ASSUME IInv, OrderInv, HistoryNmi, ~cancelLock
  PROVE  Promise!Confirm
<1> USE DEF HistoryNmi, Nmi, Upload, argVars
<1> DEFINE n == Len(order)
<1>0. /\ n \in Nat
      /\ \A k \in 1 .. n : order[k] \in Slots
      /\ \A i \in Slots : ready[i] <=> \E k \in 1 .. n : order[k] = i
      /\ order \in Seq(Slots)
  BY OrderSlots DEF OrderInv, OrderIsReady, HistoryType
<1>1. PendingWrites' = <<>> /\ LateWrites' = {}
  <2>1. order' = <<>> /\ lateSlot' = {} OBVIOUS
  <2> QED BY <2>1 DEF PendingWrites, OnTime, LateWrites
<1>2. (overflow \/ pc = "reject")' = (overflow \/ pc = "reject") OBVIOUS
<1>3. ppu' = [c \in Cells |-> LastByte(WritersOf(c), ppu[c])] OBVIOUS
<1> HIDE DEF HistoryNmi, Nmi, Upload, argVars
<1>4. CASE lateSlot = {}
  <2>1. /\ Len(PendingWrites) = n
        /\ LateWrites = {}
        /\ \A k \in 1 .. n : PendingWrites[k] = WriteIn(order[k])
    BY <1>4, PendingFacts
  <2>2. Ascending(order, n) BY <1>0, <1>4, OrderSlots, SlotFacts DEF Ascending
  <2>3. Promise!Applied(PendingWrites) = ppu'
    <3> HIDE DEF n
    <3> QED BY <1>0, <1>3, <2>1, <2>2, AppliedAscending
  <2> QED BY <1>1, <1>2, <2>1, <2>3 DEF Promise!Confirm
<1>5. CASE lateSlot # {}
  <2> DEFINE L == order[1]
             m == n - 1
             K == IF m <= L THEN m + 1 ELSE L + 1
             s == [j \in 1 .. n |-> IF j = K THEN L ELSE j - 1]
             w == WriteIn(L)
             q == SubSeq(PendingWrites, 1, K - 1) \o <<w>>
                    \o SubSeq(PendingWrites, K, Len(PendingWrites))
             W == {WriteIn(i) : i \in Slots}
  <2>1. /\ Len(PendingWrites) = m
        /\ LateWrites = {w}
        /\ \A k \in 1 .. m : PendingWrites[k] = WriteIn(order[k + 1])
    BY <1>5, PendingFacts
  <2>2. n >= 1 BY <1>5, OrderSlots
  <2>3. L \in Slots /\ L \in Int /\ L >= 0
    <3>1. 1 \in 1 .. n BY <1>0, <2>2
    <3>2. L \in Slots BY <1>0, <3>1
    <3> QED BY <3>2, NumSlotsAssumption DEF Slots
  <2>4. \A k \in 2 .. n : order[k] = IF k - 2 < L THEN k - 2 ELSE k - 1
    BY <1>5, OrderSlots
  <2>5. K \in 1 .. m + 1 BY <1>0, <2>2, <2>3
  <2>6. Ascending(s, n)
    <3> HIDE DEF L, n
    <3> QED BY <1>0, <2>2, <2>3 DEF Ascending
  \* The j-th slot in ascending order is L, or the one of an on-time write.
  <2>7. /\ s[K] = L
        /\ \A j \in 1 .. n : j < K => s[j] = order[j + 1]
        /\ \A j \in 1 .. n : j > K => s[j] = order[j]
    <3> HIDE DEF L, n
    <3>1. s[K] = L BY <1>0, <2>5
    <3>2. ASSUME NEW j \in 1 .. n, j < K PROVE s[j] = order[j + 1]
      <4>1. j + 1 \in 2 .. n BY <1>0, <2>5, <3>2
      <4>2. order[j + 1] = j - 1 BY <4>1, <2>3, <2>4, <1>0, <3>2
      <4> QED BY <3>2, <4>2, <2>5, <1>0
    <3>3. ASSUME NEW j \in 1 .. n, j > K PROVE s[j] = order[j]
      <4>1. j \in 2 .. n BY <1>0, <2>5, <3>3
      <4>2. order[j] = j - 1 BY <4>1, <2>3, <2>4, <1>0, <3>3
      <4> QED BY <3>3, <4>2, <2>5, <1>0
    <3> QED BY <3>1, <3>2, <3>3
  <2> HIDE DEF s
  <2>8. \A k \in 1 .. n : s[k] \in Slots
    <3> HIDE DEF L, n, K
    <3>1. ASSUME NEW k \in 1 .. n PROVE s[k] \in Slots
      <4>0. K \in Int BY <2>5, <1>0
      <4>1. CASE k = K BY <4>1, <2>3, <2>7
      <4>2. CASE k < K
        <5>1. k + 1 \in 1 .. n BY <4>2, <2>5, <1>0 DEF n
        <5> QED BY <4>2, <5>1, <1>0, <2>7
      <4>3. CASE k > K BY <4>3, <1>0, <2>7
      <4> QED BY <4>0, <4>1, <4>2, <4>3, <1>0
    <3> QED BY <3>1
  <2>9. \A i \in Slots : (\E k \in 1 .. n : order[k] = i)
                           <=> \E k \in 1 .. n : s[k] = i
    <3> HIDE DEF n, K
    <3>0. K \in Int /\ K >= 1 /\ K <= n BY <2>5, <1>0
    <3>1. ASSUME NEW k \in 1 .. n PROVE \E j \in 1 .. n : s[j] = order[k]
      <4>1. CASE k = 1
        <5>1. K \in 1 .. n BY <3>0, <1>0
        <5> QED BY <4>1, <5>1, <2>7
      <4>2. CASE k > 1 /\ k <= K
        <5>1. k - 1 \in 1 .. n /\ k - 1 < K BY <4>2, <3>0, <1>0
        <5>2. s[k - 1] = order[(k - 1) + 1] BY <5>1, <2>7
        <5>3. (k - 1) + 1 = k BY <1>0
        <5> QED BY <5>1, <5>2, <5>3
      <4>3. CASE k > K BY <4>3, <2>7
      <4> QED BY <4>1, <4>2, <4>3, <3>0, <1>0
    <3>2. ASSUME NEW k \in 1 .. n PROVE \E j \in 1 .. n : order[j] = s[k]
      <4>1. CASE k = K
        <5>1. 1 \in 1 .. n BY <2>2, <1>0
        <5> QED BY <4>1, <5>1, <2>7
      <4>2. CASE k < K
        <5>1. k + 1 \in 1 .. n BY <4>2, <3>0, <1>0
        <5> QED BY <4>2, <5>1, <2>7
      <4>3. CASE k > K BY <4>3, <2>7
      <4> QED BY <4>1, <4>2, <4>3, <3>0, <1>0
    <3> QED BY <3>1, <3>2
  <2>10. PendingWrites \in Seq(W) /\ w \in W
    <3>1. \A k \in 1 .. m : order[k + 1] \in Slots BY <1>0, <2>2
    <3>2. \A k \in 1 .. m : PendingWrites[k] \in W BY <2>1, <3>1
    <3>3. m \in Nat BY <1>0, <2>2
    <3>4. PendingWrites = [k \in 1 .. Len(OnTime) |-> PendingWrites[k]]
      BY DEF PendingWrites
    <3>5. Len(OnTime) = m
      BY <1>0, <1>5, <2>2 DEF OnTime
    <3> HIDE DEF W, m
    <3> QED BY <3>2, <3>3, <3>4, <3>5, <2>3 DEF W
  <2>11. /\ Len(q) = n
         /\ \A j \in 1 .. n :
              q[j] = IF j < K THEN PendingWrites[j]
                     ELSE IF j = K THEN w ELSE PendingWrites[j - 1]
    <3>1. m + 1 = n BY <1>0
    <3> HIDE DEF W, K, w, n
    <3>2. K \in 1 .. Len(PendingWrites) + 1 BY <2>1, <2>5
    <3> HIDE DEF m
    <3> QED BY <2>1, <2>10, <3>1, <3>2, InsertedFacts
  <2> HIDE DEF q
  <2>12. \A j \in 1 .. n : q[j] = WriteIn(s[j])
    <3> HIDE DEF L, n, K
    <3>1. ASSUME NEW j \in 1 .. n PROVE q[j] = WriteIn(s[j])
      <4>0. K \in Int /\ K >= 1 /\ K <= n BY <2>5, <1>0
      <4>1. CASE j = K
        <5>1. s[j] = L /\ q[j] = w BY <4>1, <2>7, <2>11
        <5> QED BY <5>1
      <4>2. CASE j < K
        <5>1. j \in 1 .. m BY <4>0, <4>2, <1>0
        <5>2. q[j] = PendingWrites[j] /\ s[j] = order[j + 1]
          BY <4>2, <2>7, <2>11
        <5> QED BY <5>1, <5>2, <2>1
      <4>3. CASE j > K
        <5>1. j - 1 \in 1 .. m /\ ~(j < K) /\ j # K BY <4>0, <4>3, <1>0
        <5>2. q[j] = PendingWrites[j - 1] /\ s[j] = order[j]
          BY <4>3, <5>1, <2>7, <2>11
        <5>3. PendingWrites[j - 1] = WriteIn(order[(j - 1) + 1]) BY <5>1, <2>1
        <5>4. (j - 1) + 1 = j BY <1>0
        <5> QED BY <5>2, <5>3, <5>4
      <4> QED BY <4>0, <4>1, <4>2, <4>3, <1>0
    <3> QED BY <3>1
  <2>13. Promise!Applied(q) = ppu'
    <3>1. \A i \in Slots : ready[i] <=> \E k \in 1 .. n : s[k] = i
      BY <1>0, <2>9
    <3> HIDE DEF n
    <3> QED BY <1>0, <1>3, <2>6, <2>8, <2>11, <2>12, <3>1, AppliedAscending
  <2>14. Promise!Inserted(w, K) = q BY DEF q, Promise!Inserted
  <2>15. ppu' = Promise!Applied(Promise!Inserted(w, K)) BY <2>13, <2>14
  <2> HIDE DEF w, K, m
  <2>16. w \in LateWrites /\ K \in 1 .. Len(PendingWrites) + 1
    BY <2>1, <2>5
  <2> QED BY <1>1, <1>2, <2>15, <2>16 DEF Promise!Confirm
<1> QED BY <1>4, <1>5

LEMMA SilentPromise ==
  ASSUME IInv, OrderInv, Silent PROVE [Promise!Next]_Promise!vars
<1>0. UNCHANGED <<order, lateSlot>> BY DEF Silent
<1>1. ASSUME NEW c, NEW v, pc = "idle", StartWrite(c, v)
      PROVE  UNCHANGED Promise!vars
  BY <1>0, <1>1, QuietPromise DEF StartWrite, queueVars
<1>2. ASSUME NEW x, NEW y, NEW v, pc = "idle", IgnoreWrite(x, y, v)
      PROVE  UNCHANGED Promise!vars
  BY <1>0, <1>2, QuietPromise DEF IgnoreWrite, queueVars
<1>3. CASE \E a \in TileArgs, v \in Values : SetTile(a[1], a[2], v)
  BY <1>1, <1>2, <1>3 DEF SetTile
<1>4. CASE \E a \in AttributeArgs, v \in Values : SetAttribute(a[1], a[2], v)
  BY <1>1, <1>2, <1>4 DEF SetAttribute
<1>5. CASE SlotFree \/ SlotBusy \/ FillHigh \/ FillLow \/ FillValue \/ Reject
  BY <1>0, <1>5, CallPromise
<1>6. CASE ClearOverflow
  BY <1>0, <1>6, OverflowPromise DEF Promise!Next
<1>7. CASE ClearSlot \/ UnlockQueue
  <2>1. UNCHANGED <<high, low, value, ppu, overflow>>
    BY <1>7 DEF ClearSlot, UnlockQueue, queueVars
  <2>2. pc # "reject" /\ pc' # "reject" BY <1>7 DEF ClearSlot, UnlockQueue
  <2> QED BY <1>0, <2>1, <2>2, QuietPromise
<1> QED BY <1>3, <1>4, <1>5, <1>6, <1>7 DEF Silent

LEMMA StepPromise ==
  IInv /\ OrderInv /\ [HistoryNext]_historyVars => [Promise!Next]_Promise!vars
<1> SUFFICES ASSUME IInv, OrderInv, [HistoryNext]_historyVars
             PROVE  [Promise!Next]_Promise!vars
  OBVIOUS
<1>1. CASE UNCHANGED historyVars
  <2>1. UNCHANGED <<order, lateSlot, high, low, value, ppu, overflow, pc>>
    BY <1>1 DEF historyVars, history, vars
  <2>2. UNCHANGED <<PendingWrites, LateWrites>> BY <2>1, PendingKept
  <2> QED BY <2>1, <2>2, PromiseStutters
<1>2. CASE Silent BY <1>2, SilentPromise
<1>3. CASE HistoryPublish BY <1>3, PublishPromise DEF Promise!Next
<1>4. CASE HistoryLock BY <1>4, LockPromise DEF Promise!Next
<1>5. CASE HistoryNmi
  <2>1. CASE cancelLock
    <3>1. UNCHANGED <<order, lateSlot, high, low, value, ppu, overflow, pc>>
      BY <1>5, <2>1 DEF HistoryNmi, Nmi, history
    <3>2. UNCHANGED <<PendingWrites, LateWrites>> BY <3>1, PendingKept
    <3> QED BY <3>1, <3>2, PromiseStutters
  <2>2. CASE ~cancelLock BY <1>5, <2>2, ConfirmPromise DEF Promise!Next
  <2> QED BY <2>1, <2>2
<1> QED BY <1>1, <1>2, <1>3, <1>4, <1>5 DEF HistoryNext

-----------------------------------------------------------------------------

(***************************************************************************)
(* The queue, slot by slot and store by store, implements the promise of   *)
(* the background-update API: at most NumSlots pending writes, a write     *)
(* rejected only by a full queue and without any other effect, an upload   *)
(* of all pending writes at once in the order of the calls except for the  *)
(* one an NMI overtook, and an atomic cancellation                         *)
(* (runtime_queue_background_write, runtime_upload_queued_background).     *)
(***************************************************************************)
THEOREM QueueImplementsWrites == HistorySpec => ImplementsBackgroundWrites
<1>1. HistoryInit => Promise!Init BY InitPromise
<1>2. IInv /\ OrderInv /\ [HistoryNext]_historyVars
        => [Promise!Next]_Promise!vars
  BY StepPromise
<1> QED
  BY <1>1, <1>2, HistoryInvariance, PTL
     DEF HistorySpec, ImplementsBackgroundWrites, Promise!Spec

=============================================================================
