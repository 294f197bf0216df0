--------------------------- MODULE BackgroundWrites ---------------------------
(***************************************************************************)
(* What the background-update API promises the program, without slots,     *)
(* flags or program counters: a bounded list of pending writes that an NMI *)
(* applies to the nametable all at once, a sticky overflow flag, and a     *)
(* cancellation that discards every pending write at one instant.          *)
(*                                                                         *)
(* Writes are applied in the order of the calls, with one exception: a     *)
(* write that was still being queued when an NMI emptied the list is       *)
(* "late", and may be applied before writes accepted after it.             *)
(***************************************************************************)
EXTENDS Integers, Sequences

CONSTANTS
  Capacity,   \* most writes pending at once
  Addresses,  \* cells of the nametable
  Bytes       \* values of a cell

VARIABLES
  pending,   \* writes accepted since the last NMI, oldest first
  late,      \* the accepted write that an NMI overtook, if there is one
  overflow,  \* a write was rejected since the flag was last cleared
  nametable  \* what the PPU shows

vars == <<pending, late, overflow, nametable>>

Write == [addr : Addresses, byte : Bytes]

Full == Len(pending) + (IF late = {} THEN 0 ELSE 1) = Capacity

Init ==
  /\ pending = <<>>
  /\ late = {}
  /\ overflow = FALSE
  /\ nametable \in [Addresses -> Bytes]

Accept(w) ==
  /\ ~Full
  /\ pending' = Append(pending, w)
  /\ UNCHANGED <<late, overflow, nametable>>

AcceptLate(w) ==
  /\ ~Full
  /\ late = {}
  /\ late' = {w}
  /\ UNCHANGED <<pending, overflow, nametable>>

Reject ==
  /\ Full
  /\ overflow' = TRUE
  /\ UNCHANGED <<pending, late, nametable>>

ClearOverflow ==
  /\ overflow' = FALSE
  /\ UNCHANGED <<pending, late, nametable>>

Cancel ==
  /\ pending' = <<>>
  /\ late' = {}
  /\ UNCHANGED <<overflow, nametable>>

\* The nametable after the writes of s, in order.
Applied(s) ==
  [a \in Addresses |->
     LET hits == {k \in 1 .. Len(s) : s[k].addr = a}
     IN IF hits = {} THEN nametable[a]
        ELSE s[CHOOSE k \in hits : \A l \in hits : l <= k].byte]

\* The list with w inserted before its k-th element.
Inserted(w, k) ==
  SubSeq(pending, 1, k - 1) \o <<w>> \o SubSeq(pending, k, Len(pending))

Confirm ==
  /\ \/ late = {} /\ nametable' = Applied(pending)
     \/ \E w \in late, k \in 1 .. Len(pending) + 1 :
          nametable' = Applied(Inserted(w, k))
  /\ pending' = <<>>
  /\ late' = {}
  /\ UNCHANGED overflow

Next ==
  \/ \E w \in Write : Accept(w) \/ AcceptLate(w)
  \/ Reject \/ ClearOverflow \/ Cancel \/ Confirm

Spec == Init /\ [][Next]_vars

=============================================================================
