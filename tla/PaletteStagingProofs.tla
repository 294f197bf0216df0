------------------------- MODULE PaletteStagingProofs -------------------------
(***************************************************************************)
(* Proofs about PaletteStaging for all palettes, numbers of entries and    *)
(* colors.                                                                 *)
(*                                                                         *)
(* A queued call enters the proofs only through WellFormed: what it        *)
(* withdraws, stores and publishes, and in which order.  StagingInv then   *)
(* says what every byte of the shadow is worth: unless some other code     *)
(* stored over it, it is what the call in progress has stored there, or    *)
(* else what the bank was last promised.                                   *)
(***************************************************************************)
EXTENDS PaletteStaging, SequenceTheorems, TLAPS

Touches(s, b, e) == s.op = "store" /\ s.bank = b /\ s.entry = e

WellFormed(call) ==
  /\ Len(call) \in Nat \ {0}
  /\ \A i \in 1 .. Len(call) :
       /\ call[i].bank \in Banks
       /\ \/ call[i] = Withdraw(call[i].bank)
          \/ call[i] = Publish(call[i].bank)
          \/ /\ call[i].op = "store"
             /\ call[i].entry \in EntriesOf(call[i].bank)
             /\ call[i].color \in Bytes
  \* Every entry is stored at most once, after its bank was withdrawn.
  /\ \A i, j \in 1 .. Len(call) :
       /\ call[i].op = "store" /\ Touches(call[j], call[i].bank, call[i].entry)
       => i = j
  /\ \A i \in 1 .. Len(call) :
       call[i].op = "store" => \E j \in 1 .. i - 1 : call[j] = Withdraw(call[i].bank)
  \* Every bank is published, and nothing happens to it afterwards.
  /\ \A i \in 1 .. Len(call) :
       \E j \in 1 .. Len(call) : call[j] = Publish(call[i].bank)
  /\ \A i, j \in 1 .. Len(call) :
       call[i].op = "publish" /\ call[j].bank = call[i].bank => j <= i
  /\ call[Len(call)].op = "publish"

-----------------------------------------------------------------------------
(***************************************************************************)
(* The calls.                                                              *)
(***************************************************************************)
LEMMA SetColorIsWellFormed ==
  ASSUME NEW b \in Banks, NEW e \in EntriesOf(b), NEW color \in Bytes
  PROVE  WellFormed(SetColor(b, e, color)) /\ Len(SetColor(b, e, color)) = 3
<1> DEFINE call == SetColor(b, e, color)
<1>1. /\ Len(call) = 3
      /\ call[1] = Withdraw(b) /\ call[2] = Store(b, e, color) /\ call[3] = Publish(b)
  BY DEF SetColor
<1> HIDE DEF call
<1>2. \A i \in 1 .. 3 : i = 1 \/ i = 2 \/ i = 3 OBVIOUS
<1>3. /\ call[1].op = "withdraw" /\ call[1].bank = b
      /\ call[2].op = "store" /\ call[2].bank = b
      /\ call[2].entry = e /\ call[2].color = color
      /\ call[3].op = "publish" /\ call[3].bank = b
  BY <1>1 DEF Withdraw, Store, Publish
<1> QED BY <1>1, <1>2, <1>3 DEF WellFormed, Touches, call

LEMMA SetPaletteIndexed ==
  ASSUME NEW p \in Palettes, NEW color0 \in Bytes,
         NEW colors \in [1 .. NumEntries -> Bytes]
  PROVE  /\ Len(SetPalette(p, color0, colors)) = NumEntries + 5
         /\ SetPalette(p, color0, colors)[1] = Withdraw(p)
         /\ SetPalette(p, color0, colors)[2] = Withdraw(Universal)
         /\ SetPalette(p, color0, colors)[3] = Store(Universal, 0, color0)
         /\ \A e \in 1 .. NumEntries :
              SetPalette(p, color0, colors)[3 + e] = Store(p, e, colors[e])
         /\ SetPalette(p, color0, colors)[NumEntries + 4] = Publish(Universal)
         /\ SetPalette(p, color0, colors)[NumEntries + 5] = Publish(p)
<1> USE EntriesAssumption
<1> DEFINE head == <<Withdraw(p), Withdraw(Universal), Store(Universal, 0, color0)>>
           middle == [e \in 1 .. NumEntries |-> Store(p, e, colors[e])]
           tail == <<Publish(Universal), Publish(p)>>
           S == {head[1], head[2], head[3], tail[1], tail[2]}
                  \union {middle[e] : e \in 1 .. NumEntries}
<1>1. head \in Seq(S) /\ middle \in Seq(S) /\ tail \in Seq(S) OBVIOUS
<1>2. Len(head) = 3 /\ Len(middle) = NumEntries /\ Len(tail) = 2 OBVIOUS
<1>4. SetPalette(p, color0, colors) = head \o middle \o tail BY DEF SetPalette
<1>5. /\ head[1] = Withdraw(p) /\ head[2] = Withdraw(Universal)
      /\ head[3] = Store(Universal, 0, color0)
      /\ tail[1] = Publish(Universal) /\ tail[2] = Publish(p)
  OBVIOUS
<1>6. \A e \in 1 .. NumEntries : middle[e] = Store(p, e, colors[e]) OBVIOUS
<1> DEFINE call == SetPalette(p, color0, colors)
<1> HIDE DEF head, middle, tail, S
<1>7. /\ Len(call) = Len(head) + Len(middle) + Len(tail)
      /\ \A i \in 1 .. Len(head) : call[i] = head[i]
      /\ \A i \in 1 .. Len(middle) : call[Len(head) + i] = middle[i]
      /\ \A i \in 1 .. Len(tail) : call[Len(head) + Len(middle) + i] = tail[i]
  <2>1. Len(head \o middle \o tail) = Len(head) + Len(middle) + Len(tail)
    BY <1>1
  <2>2. \A i \in 1 .. Len(head) : (head \o middle \o tail)[i] = head[i]
    BY <1>1
  <2>3. \A i \in 1 .. Len(middle) : (head \o middle \o tail)[Len(head) + i] = middle[i]
    BY <1>1
  <2>4. \A i \in 1 .. Len(tail) :
          (head \o middle \o tail)[Len(head) + Len(middle) + i] = tail[i]
    BY <1>1
  <2> QED BY <1>4, <2>1, <2>2, <2>3, <2>4
<1>8. call[1] = Withdraw(p) /\ call[2] = Withdraw(Universal)
        /\ call[3] = Store(Universal, 0, color0)
  BY <1>2, <1>5, <1>7
<1>9. \A e \in 1 .. NumEntries : call[3 + e] = Store(p, e, colors[e])
  BY <1>2, <1>6, <1>7
<1>10. call[NumEntries + 4] = Publish(Universal) /\ call[NumEntries + 5] = Publish(p)
  <2>1. 3 + NumEntries + 1 = NumEntries + 4 /\ 3 + NumEntries + 2 = NumEntries + 5
    OBVIOUS
  <2> QED BY <1>2, <1>5, <1>7, <2>1
<1>11. Len(call) = NumEntries + 5 BY <1>2, <1>7
<1> QED BY <1>11, <1>8, <1>9, <1>10 DEF call

LEMMA SetPaletteIsWellFormed ==
  ASSUME NEW p \in Palettes, NEW color0 \in Bytes,
         NEW colors \in [1 .. NumEntries -> Bytes]
  PROVE  /\ WellFormed(SetPalette(p, color0, colors))
         /\ Len(SetPalette(p, color0, colors)) = NumEntries + 5
<1> USE EntriesAssumption
<1> DEFINE call == SetPalette(p, color0, colors)
           n == NumEntries
<1>1. /\ Len(call) = n + 5
      /\ call[1] = Withdraw(p) /\ call[2] = Withdraw(Universal)
      /\ call[3] = Store(Universal, 0, color0)
      /\ \A e \in 1 .. n : call[3 + e] = Store(p, e, colors[e])
      /\ call[n + 4] = Publish(Universal) /\ call[n + 5] = Publish(p)
  BY SetPaletteIndexed
<1>2. p \in Banks /\ Universal \in Banks /\ p # Universal
  BY UniversalAssumption DEF Banks, Palettes
<1>3. 0 \in EntriesOf(Universal) /\ EntriesOf(p) = 1 .. n BY <1>2 DEF EntriesOf
<1> HIDE DEF call
<1>4. /\ call[1].op = "withdraw" /\ call[1].bank = p
      /\ call[2].op = "withdraw" /\ call[2].bank = Universal
      /\ call[3].op = "store" /\ call[3].bank = Universal
      /\ call[3].entry = 0 /\ call[3].color = color0
      /\ call[n + 4].op = "publish" /\ call[n + 4].bank = Universal
      /\ call[n + 5].op = "publish" /\ call[n + 5].bank = p
  BY <1>1 DEF Withdraw, Store, Publish
<1>5. \A i \in 4 .. n + 3 : /\ call[i].op = "store" /\ call[i].bank = p
                            /\ call[i].entry = i - 3 /\ call[i].entry \in 1 .. n
                            /\ call[i].color \in Bytes
  <2> TAKE i \in 4 .. n + 3
  <2>1. i - 3 \in 1 .. n /\ 3 + (i - 3) = i OBVIOUS
  <2>2. call[i] = Store(p, i - 3, colors[i - 3]) BY <1>1, <2>1
  <2>3. colors[i - 3] \in Bytes BY <2>1
  <2> QED BY <2>1, <2>2, <2>3 DEF Store
<1>6. \A i \in 1 .. n + 5 :
        i = 1 \/ i = 2 \/ i = 3 \/ i \in 4 .. n + 3 \/ i = n + 4 \/ i = n + 5
  OBVIOUS
<1>7. \A i \in 1 .. Len(call) :
        /\ call[i].bank \in Banks
        /\ \/ call[i] = Withdraw(call[i].bank)
           \/ call[i] = Publish(call[i].bank)
           \/ /\ call[i].op = "store"
              /\ call[i].entry \in EntriesOf(call[i].bank)
              /\ call[i].color \in Bytes
  BY <1>1, <1>2, <1>3, <1>4, <1>5, <1>6
<1>8. \A i, j \in 1 .. Len(call) :
        /\ call[i].op = "store" /\ Touches(call[j], call[i].bank, call[i].entry)
        => i = j
  <2> SUFFICES ASSUME NEW i \in 1 .. n + 5, NEW j \in 1 .. n + 5,
                      call[i].op = "store",
                      Touches(call[j], call[i].bank, call[i].entry)
               PROVE  i = j
    BY <1>1
  <2>1. i = 3 \/ i \in 4 .. n + 3 BY <1>4, <1>6
  <2>2. j = 3 \/ j \in 4 .. n + 3 BY <1>4, <1>6 DEF Touches
  <2>3. call[j].bank = call[i].bank /\ call[j].entry = call[i].entry BY DEF Touches
  <2>4. CASE i \in 4 .. n + 3 /\ j \in 4 .. n + 3
    BY <1>5, <2>3, <2>4
  <2> QED BY <1>2, <1>4, <1>5, <2>1, <2>2, <2>3, <2>4
<1>9. \A i \in 1 .. Len(call) :
        call[i].op = "store" => \E j \in 1 .. i - 1 : call[j] = Withdraw(call[i].bank)
  <2> SUFFICES ASSUME NEW i \in 1 .. Len(call), call[i].op = "store"
               PROVE  \E j \in 1 .. i - 1 : call[j] = Withdraw(call[i].bank)
    OBVIOUS
  <2>1. CASE i = 3
    <3>1. 2 \in 1 .. i - 1 BY <2>1
    <3> QED BY <1>1, <1>4, <2>1, <3>1
  <2>2. CASE i \in 4 .. n + 3
    <3>1. 1 \in 1 .. i - 1 BY <2>2
    <3> QED BY <1>1, <1>5, <2>2, <3>1
  <2> QED BY <1>1, <1>4, <1>6, <2>1, <2>2
<1>10. \A i \in 1 .. Len(call) : call[i].bank = p \/ call[i].bank = Universal
  BY <1>1, <1>4, <1>5, <1>6
<1>11. \A i, j \in 1 .. Len(call) :
        call[i].op = "publish" /\ call[j].bank = call[i].bank => j <= i
  BY <1>1, <1>2, <1>4, <1>5, <1>6
<1>12. n + 4 \in 1 .. Len(call) /\ n + 5 \in 1 .. Len(call) BY <1>1
<1>13. \A i \in 1 .. Len(call) :
         \E j \in 1 .. Len(call) : call[j] = Publish(call[i].bank)
  BY <1>1, <1>10, <1>12
<1>14. Len(call) \in Nat \ {0} /\ call[Len(call)].op = "publish" BY <1>1, <1>4
<1>15. WellFormed(call)
  BY <1>7, <1>8, <1>9, <1>11, <1>13, <1>14 DEF WellFormed
<1> QED BY <1>1, <1>15 DEF call

LEMMA QueuedCallsAreWellFormed ==
  ASSUME NEW call \in QueuedCalls
  PROVE  WellFormed(call) /\ Len(call) \in 1 .. NumEntries + 5
<1> USE EntriesAssumption
<1>1. ASSUME NEW p \in Palettes, NEW color0 \in Colors,
             NEW colors \in [1 .. NumEntries -> Colors],
             call = SetPalette(p, color0, colors)
      PROVE  WellFormed(call) /\ Len(call) \in 1 .. NumEntries + 5
  <2>1. color0 \in Bytes /\ colors \in [1 .. NumEntries -> Bytes] BY DEF Bytes
  <2> QED BY <1>1, <2>1, SetPaletteIsWellFormed
<1>2. ASSUME NEW b \in Banks, NEW e \in EntriesOf(b), NEW color \in Colors,
             call = SetColor(b, e, color)
      PROVE  WellFormed(call) /\ Len(call) \in 1 .. NumEntries + 5
  <2>1. color \in Bytes BY DEF Bytes
  <2>2. WellFormed(call) /\ Len(call) = 3 BY <1>2, <2>1, SetColorIsWellFormed, Zenon
  <2> QED BY <2>2
<1>3. CASE call \in {SetPalette(p, color0, colors) : p \in Palettes, color0 \in Colors,
                      colors \in [1 .. NumEntries -> Colors]}
  <2>1. PICK p \in Palettes, color0 \in Colors, colors \in [1 .. NumEntries -> Colors] :
          call = SetPalette(p, color0, colors)
    BY <1>3
  <2> QED BY <1>1, <2>1
<1>4. CASE \E b \in Banks :
             call \in {SetColor(b, e, color) : e \in EntriesOf(b), color \in Colors}
  BY <1>2, <1>4
<1>5. \/ call \in {SetPalette(p, color0, colors) : p \in Palettes, color0 \in Colors,
                   colors \in [1 .. NumEntries -> Colors]}
      \/ \E b \in Banks :
           call \in {SetColor(b, e, color) : e \in EntriesOf(b), color \in Colors}
  BY DEF QueuedCalls
<1> QED BY <1>3, <1>4, <1>5

-----------------------------------------------------------------------------
(***************************************************************************)
(* The contents of a memory after a call.                                  *)
(***************************************************************************)
Memory(f) ==
  /\ f = [b \in Banks |-> f[b]]
  /\ \A b \in Banks : f[b] \in [EntriesOf(b) -> Bytes \union {PowerOn}]

LEMMA MemoryInContents == ASSUME NEW f, Memory(f) PROVE f \in Contents
<1> DEFINE Range0 == UNION {[EntriesOf(b) -> Bytes \union {PowerOn}] : b \in Banks}
<1>1. \A b \in Banks : f[b] \in Range0 BY DEF Memory
<1> HIDE DEF Range0
<1>2. f \in [Banks -> Range0] BY <1>1 DEF Memory
<1> QED BY <1>2 DEF Contents, Range0

LEMMA StoreFacts ==
  ASSUME NEW call, WellFormed(call), NEW i \in 1 .. Len(call), call[i].op = "store"
  PROVE  call[i].entry \in EntriesOf(call[i].bank) /\ call[i].color \in Bytes
<1>1. \A b : Withdraw(b).op = "withdraw" /\ Publish(b).op = "publish"
  BY DEF Withdraw, Publish
<1>2. \/ call[i] = Withdraw(call[i].bank)
      \/ call[i] = Publish(call[i].bank)
      \/ /\ call[i].entry \in EntriesOf(call[i].bank)
         /\ call[i].color \in Bytes
  BY DEF WellFormed
<1>3. call[i] # Withdraw(call[i].bank) /\ call[i] # Publish(call[i].bank)
  BY <1>1
<1> QED BY <1>2, <1>3

LEMMA OverlayFacts ==
  ASSUME NEW call, WellFormed(call), NEW b \in Banks, NEW old,
         old \in [EntriesOf(b) -> Bytes \union {PowerOn}]
  PROVE  /\ Overlay(old, call, b) \in [EntriesOf(b) -> Bytes \union {PowerOn}]
         /\ \A e \in EntriesOf(b) :
              /\ \A i \in 1 .. Len(call) :
                   Touches(call[i], b, e) => Overlay(old, call, b)[e] = call[i].color
              /\ (\A i \in 1 .. Len(call) : ~Touches(call[i], b, e))
                   => Overlay(old, call, b)[e] = old[e]
<1> DEFINE hits(e) == {i \in 1 .. Len(call) : call[i].op = "store" /\ call[i].bank = b
                                               /\ call[i].entry = e}
           byte(e) == IF hits(e) = {} THEN old[e]
                      ELSE call[CHOOSE i \in hits(e) : TRUE].color
<1>1. Overlay(old, call, b) = [e \in EntriesOf(b) |-> byte(e)] BY DEF Overlay, OverlayFirst
<1>2. ASSUME NEW e \in EntriesOf(b)
      PROVE  /\ byte(e) \in Bytes \union {PowerOn}
             /\ \A i \in 1 .. Len(call) : Touches(call[i], b, e) => byte(e) = call[i].color
             /\ (\A i \in 1 .. Len(call) : ~Touches(call[i], b, e)) => byte(e) = old[e]
  <2>1. CASE hits(e) = {}
    <3>1. byte(e) = old[e] BY <2>1
    <3>2. \A i \in 1 .. Len(call) : ~Touches(call[i], b, e) BY <2>1 DEF Touches
    <3> QED BY <3>1, <3>2
  <2>2. CASE hits(e) # {}
    <3> DEFINE hit == CHOOSE i \in hits(e) : TRUE
    <3>1. hit \in hits(e) BY <2>2
    <3>2. byte(e) = call[hit].color BY <2>2
    <3> HIDE DEF hit
    <3>3. /\ hit \in 1 .. Len(call) /\ call[hit].op = "store"
          /\ call[hit].bank = b /\ call[hit].entry = e
      BY <3>1
    <3>4. call[hit].color \in Bytes BY <3>3, StoreFacts
    <3>5. ASSUME NEW i \in 1 .. Len(call), Touches(call[i], b, e) PROVE i = hit
      BY <3>3, <3>5 DEF WellFormed
    <3>6. ~(\A i \in 1 .. Len(call) : ~Touches(call[i], b, e)) BY <3>3 DEF Touches
    <3> HIDE DEF byte
    <3> QED BY <3>2, <3>4, <3>5, <3>6
  <2> QED BY <2>1, <2>2
<1> HIDE DEF byte
<1> QED BY <1>1, <1>2

LEMMA OverlaidMemory ==
  ASSUME NEW call, WellFormed(call), NEW f, Memory(f)
  PROVE  Memory([b \in Banks |-> Overlay(f[b], call, b)])
<1>1. \A b \in Banks :
        Overlay(f[b], call, b) \in [EntriesOf(b) -> Bytes \union {PowerOn}]
  BY OverlayFacts DEF Memory
<1> QED BY <1>1 DEF Memory

LEMMA ClearedFacts ==
  ASSUME NEW f, Memory(f), NEW b \in Banks
  PROVE  /\ Cleared(f[b]) \in [EntriesOf(b) -> Bytes]
         /\ \A e \in EntriesOf(b) :
              Cleared(f[b])[e] = IF f[b][e] = PowerOn THEN 0 ELSE f[b][e]
BY ColorsAssumption DEF Memory, Cleared, Bytes

LEMMA PromiseFacts ==
  ASSUME NEW call, WellFormed(call), Memory(promised), NEW b \in Banks
  PROVE  /\ Promise(call, b) \in [EntriesOf(b) -> Bytes \union {PowerOn}]
         /\ \A e \in EntriesOf(b) :
              /\ Promise(call, b)[e] # PowerOn
              /\ \A i \in 1 .. Len(call) :
                   Touches(call[i], b, e) => Promise(call, b)[e] = call[i].color
              /\ (\A i \in 1 .. Len(call) : ~Touches(call[i], b, e))
                   => Promise(call, b)[e] = Cleared(promised[b])[e]
<1> DEFINE old == Cleared(promised[b])
<1>1. old \in [EntriesOf(b) -> Bytes] BY ClearedFacts
<1>2. old \in [EntriesOf(b) -> Bytes \union {PowerOn}] BY <1>1
<1>3. Promise(call, b) = Overlay(old, call, b) BY DEF Promise
<1> HIDE DEF old
<1>4. /\ Promise(call, b) \in [EntriesOf(b) -> Bytes \union {PowerOn}]
      /\ \A e \in EntriesOf(b) :
           /\ \A i \in 1 .. Len(call) :
                Touches(call[i], b, e) => Promise(call, b)[e] = call[i].color
           /\ (\A i \in 1 .. Len(call) : ~Touches(call[i], b, e))
                => Promise(call, b)[e] = old[e]
  BY <1>2, <1>3, OverlayFacts
<1>5. ASSUME NEW e \in EntriesOf(b) PROVE Promise(call, b)[e] # PowerOn
  <2>1. CASE \E i \in 1 .. Len(call) : Touches(call[i], b, e)
    <3>1. PICK i \in 1 .. Len(call) : Touches(call[i], b, e) BY <2>1
    <3>2. call[i].color \in Bytes BY <3>1, StoreFacts DEF Touches
    <3> QED BY <1>4, <3>1, <3>2, ColorsAssumption
  <2>2. CASE \A i \in 1 .. Len(call) : ~Touches(call[i], b, e)
    BY <1>1, <1>4, <2>2, ColorsAssumption
  <2> QED BY <2>1, <2>2
<1> QED BY <1>4, <1>5 DEF old

-----------------------------------------------------------------------------
(***************************************************************************)
(* Types: every bank of a memory has its own entries, and a call in        *)
(* progress has a next store.                                              *)
(***************************************************************************)
TypeInv ==
  /\ started \in BOOLEAN
  /\ Memory(shadow) /\ Memory(ppu) /\ Memory(promised)
  /\ dirty \in [Banks -> BOOLEAN]
  /\ spoiled \subseteq Entries
  /\ overtaken \subseteq Banks
  /\ \/ script = <<>> /\ at = 1
     \/ script \in QueuedCalls /\ at \in 1 .. Len(script)

LEMMA EmptyScript ==
  ASSUME TypeInv, script # <<>>
  PROVE  /\ WellFormed(script) /\ at \in 1 .. Len(script)
         /\ Len(script) \in Nat /\ script \in QueuedCalls
BY QueuedCallsAreWellFormed DEF TypeInv, WellFormed

\* The next store of the call in progress.
LEMMA StepKinds ==
  ASSUME TypeInv, script # <<>>
  PROVE  LET s == script[at]
         IN /\ s.bank \in Banks
            /\ s.op \in {"withdraw", "publish", "store"}
            /\ s.op = "withdraw" <=> s = Withdraw(s.bank)
            /\ s.op = "publish" <=> s = Publish(s.bank)
            /\ s.op = "store" => s.entry \in EntriesOf(s.bank) /\ s.color \in Bytes
            /\ at = Len(script) => s.op = "publish"
<1>1. WellFormed(script) /\ at \in 1 .. Len(script) BY EmptyScript
<1>2. \A b : Withdraw(b).op = "withdraw" /\ Publish(b).op = "publish"
  BY DEF Withdraw, Publish
<1>3. /\ script[at].bank \in Banks
      /\ \/ script[at] = Withdraw(script[at].bank)
         \/ script[at] = Publish(script[at].bank)
         \/ script[at].op = "store"
  BY <1>1 DEF WellFormed
<1>4. script[at].op = "store" =>
        script[at].entry \in EntriesOf(script[at].bank) /\ script[at].color \in Bytes
  BY <1>1, StoreFacts
<1>5. at = Len(script) => script[at].op = "publish" BY <1>1 DEF WellFormed
<1> QED BY <1>2, <1>3, <1>4, <1>5

LEMMA EntryPairs ==
  /\ \A b \in Banks : \A e \in EntriesOf(b) : <<b, e>> \in Entries
  /\ \A call \in QueuedCalls : \A n \in 1 .. Len(call) : Written(call, n) \subseteq Entries
<1>1. \A b \in Banks : \A e \in EntriesOf(b) : <<b, e>> \in Entries BY DEF Entries
<1>2. ASSUME NEW call \in QueuedCalls, NEW n \in 1 .. Len(call), NEW x \in Written(call, n)
      PROVE  x \in Entries
  <2>1. WellFormed(call) /\ Len(call) \in Nat
    BY QueuedCallsAreWellFormed DEF WellFormed
  <2>2. PICK i \in 1 .. n : call[i].op = "store" /\ x = <<call[i].bank, call[i].entry>>
    BY DEF Written
  <2>3. i \in 1 .. Len(call) BY <2>1
  <2>4. call[i].bank \in Banks BY <2>1, <2>3 DEF WellFormed
  <2>5. call[i].entry \in EntriesOf(call[i].bank) BY <2>1, <2>2, <2>3, StoreFacts
  <2> QED BY <1>1, <2>2, <2>4, <2>5
<1> QED BY <1>1, <1>2

LEMMA FilledMemory ==
  ASSUME NEW color \in Bytes \union {PowerOn} PROVE Memory(Filled(color))
BY DEF Memory, Filled

LEMMA StoredMemory ==
  ASSUME NEW f, Memory(f), NEW b \in Banks, NEW e \in EntriesOf(b), NEW color \in Bytes,
         NEW g, g = [f EXCEPT ![b][e] = color]
  PROVE  /\ Memory(g)
         /\ g[b][e] = color
         /\ \A x \in Banks : \A y \in EntriesOf(x) : x # b \/ y # e => g[x][y] = f[x][y]
<1>1. f = [x \in Banks |-> f[x]] BY DEF Memory
<1>2. g = [x \in Banks |-> IF x = b THEN [f[b] EXCEPT ![e] = color] ELSE f[x]]
  BY <1>1
<1>3. f[b] \in [EntriesOf(b) -> Bytes \union {PowerOn}] BY DEF Memory
<1>4. g[b] = [f[b] EXCEPT ![e] = color] /\ \A x \in Banks \ {b} : g[x] = f[x]
  BY <1>2
<1>5. g[b] \in [EntriesOf(b) -> Bytes \union {PowerOn}] BY <1>3, <1>4
<1>6. Memory(g) BY <1>2, <1>4, <1>5 DEF Memory
<1>7. g[b][e] = color /\ \A y \in EntriesOf(b) \ {e} : g[b][y] = f[b][y]
  BY <1>3, <1>4
<1> QED BY <1>4, <1>6, <1>7

LEMMA UpdatedMemory ==
  ASSUME NEW f, Memory(f), NEW b \in Banks,
         NEW m \in [EntriesOf(b) -> Bytes \union {PowerOn}]
  PROVE  /\ Memory([f EXCEPT ![b] = m])
         /\ [f EXCEPT ![b] = m][b] = m
         /\ \A x \in Banks \ {b} : [f EXCEPT ![b] = m][x] = f[x]
<1>1. f = [x \in Banks |-> f[x]] BY DEF Memory
<1>2. [f EXCEPT ![b] = m] = [x \in Banks |-> IF x = b THEN m ELSE f[x]] BY <1>1
<1> QED BY <1>2 DEF Memory

LEMMA ChosenMemory ==
  ASSUME NEW f, Memory(f), NEW g, Memory(g), NEW chosen \in [Banks -> BOOLEAN]
  PROVE  Memory([b \in Banks |-> IF chosen[b] THEN f[b] ELSE g[b]])
BY DEF Memory

LEMMA DefaultMemory ==
  ASSUME NEW f, Memory(f)
  PROVE  Memory([b \in Banks |-> IF b \in DefaultPalettes
                                 THEN [e \in EntriesOf(b) |-> DefaultColor] ELSE f[b]])
<1>1. DefaultColor \in Bytes BY DEF Bytes
<1> QED BY <1>1 DEF Memory

LEMMA TypeStep == TypeInv /\ [Next]_vars => TypeInv'
<1> SUFFICES ASSUME TypeInv, [Next]_vars PROVE TypeInv' OBVIOUS
<1>0. /\ started \in BOOLEAN
      /\ Memory(shadow) /\ Memory(ppu) /\ Memory(promised)
      /\ dirty \in [Banks -> BOOLEAN]
      /\ spoiled \subseteq Entries
      /\ overtaken \subseteq Banks
      /\ \/ script = <<>> /\ at = 1
         \/ script \in QueuedCalls /\ at \in 1 .. Len(script)
  BY DEF TypeInv
<1>1. CASE UNCHANGED vars
  <2>1. /\ started' = started /\ shadow' = shadow /\ ppu' = ppu /\ promised' = promised
        /\ dirty' = dirty /\ spoiled' = spoiled /\ script' = script /\ at' = at
        /\ overtaken' = overtaken
    BY <1>1 DEF vars
  <2> QED BY <1>0, <2>1 DEF TypeInv, Memory
<1>2. ASSUME NEW call \in QueuedCalls, Begin(call) PROVE TypeInv'
  <2>1. /\ script' = call /\ at' = 1 /\ started' = started /\ shadow' = shadow
        /\ dirty' = dirty /\ ppu' = ppu /\ promised' = promised /\ spoiled' = spoiled
        /\ overtaken' = overtaken
    BY <1>2 DEF Begin
  <2>2. 1 \in 1 .. Len(call) BY QueuedCallsAreWellFormed DEF WellFormed
  <2> QED BY <1>0, <2>1, <2>2 DEF TypeInv, Memory
<1>3. ASSUME NEW call \in QueuedCalls, WriteDirectly(call) PROVE TypeInv'
  <2>1. /\ script' = script /\ at' = at /\ started' = started
        /\ dirty' = dirty /\ spoiled' = spoiled /\ overtaken' = overtaken
        /\ ppu' = [b \in Banks |-> Overlay(ppu[b], call, b)]
        /\ shadow' = [b \in Banks |-> Overlay(shadow[b], call, b)]
        /\ promised' = [b \in Banks |-> Overlay(promised[b], call, b)]
    BY <1>3 DEF WriteDirectly
  <2>2. Memory(ppu') /\ Memory(shadow') /\ Memory(promised')
    BY <1>0, <2>1, OverlaidMemory, QueuedCallsAreWellFormed
  <2> QED BY <1>0, <2>1, <2>2 DEF TypeInv, Memory
<1>4. CASE Step
  <2> DEFINE s == script[at]
  <2>1. script # <<>> /\ Perform(s) /\ started' = started /\ ppu' = ppu
    BY <1>4 DEF Step
  <2>2. WellFormed(script) /\ at \in 1 .. Len(script) /\ Len(script) \in Nat
        /\ script \in QueuedCalls
    BY <2>1, EmptyScript
  <2>3. \/ script' = <<>> /\ at' = 1
        \/ script' \in QueuedCalls /\ at' \in 1 .. Len(script')
    BY <1>4, <2>2 DEF Step
  <2>4. /\ s.bank \in Banks
        /\ s.op = "store" => s.entry \in EntriesOf(s.bank) /\ s.color \in Bytes
    BY <2>1, StepKinds
  <2> HIDE DEF s
  <2>5. dirty' \in [Banks -> BOOLEAN]
    <3>1. (s.op = "publish") \in BOOLEAN OBVIOUS
    <3> QED BY <1>0, <2>1, <3>1 DEF Perform
  <2>6. Memory(shadow')
    <3>1. CASE s.op = "store"
      <4>1. shadow' = [shadow EXCEPT ![s.bank][s.entry] = s.color]
        BY <2>1, <3>1 DEF Perform
      <4> QED BY <1>0, <2>4, <3>1, <4>1, StoredMemory
    <3>2. CASE s.op # "store" BY <1>0, <2>1, <3>2 DEF Perform
    <3> QED BY <3>1, <3>2
  <2>7. Memory(promised')
    <3>1. CASE s.op = "publish"
      <4>1. promised' = [promised EXCEPT ![s.bank] = Promise(script, s.bank)]
        BY <2>1, <3>1 DEF Perform
      <4>2. Promise(script, s.bank) \in [EntriesOf(s.bank) -> Bytes \union {PowerOn}]
        BY <1>0, <2>2, <2>4, PromiseFacts
      <4>3. Memory([promised EXCEPT ![s.bank] = Promise(script, s.bank)])
        BY <1>0, <2>4, <4>2, UpdatedMemory
      <4> QED BY <4>1, <4>3
    <3>2. CASE s.op # "publish" BY <1>0, <2>1, <3>2 DEF Perform
    <3> QED BY <3>1, <3>2
  <2>8. spoiled' \subseteq Entries /\ overtaken' \subseteq Banks
    BY <1>0, <2>1 DEF Perform
  <2> QED BY <1>0, <2>1, <2>3, <2>5, <2>6, <2>7, <2>8 DEF TypeInv, Memory
<1>5. CASE Run
  <2> DEFINE Defaulted(f) == [b \in Banks |-> IF b \in DefaultPalettes
                                              THEN [e \in EntriesOf(b) |-> DefaultColor]
                                              ELSE f[b]]
  <2>1. /\ started' = TRUE /\ dirty' = dirty /\ script' = script /\ at' = at
        /\ ppu' = Defaulted(ppu) /\ shadow' = Defaulted(shadow)
        /\ promised' = [b \in Banks |-> IF dirty[b] THEN promised[b]
                                        ELSE Defaulted(promised)[b]]
        /\ spoiled' \subseteq Entries /\ overtaken' = overtaken
    BY <1>5 DEF Run
  <2>2. /\ Memory(Defaulted(ppu)) /\ Memory(Defaulted(shadow))
        /\ Memory(Defaulted(promised))
    BY <1>0, DefaultMemory
  <2> HIDE DEF Defaulted
  <2>3. Memory(ppu') /\ Memory(shadow') BY <2>1, <2>2
  <2>4. Memory(promised') BY <1>0, <2>1, <2>2, ChosenMemory
  <2> QED BY <1>0, <2>1, <2>3, <2>4 DEF TypeInv
<1>6. ASSUME Upload PROVE Memory(ppu')
  BY <1>0, <1>6, ChosenMemory DEF Upload
<1>7. CASE NmiAlone
  <2>1. Upload /\ started' = started /\ shadow' = shadow /\ script' = script /\ at' = at
        /\ promised' = promised /\ spoiled' = spoiled
        /\ dirty' = [b \in Banks |-> FALSE] /\ overtaken' = {}
    BY <1>7 DEF NmiAlone
  <2> QED BY <1>0, <1>6, <2>1 DEF TypeInv, Memory
<1>8. ASSUME NEW call \in QueuedCalls, NmiWithCallback(call) PROVE TypeInv'
  <2>1. /\ Upload /\ started' = started /\ script' = script /\ at' = at
        /\ dirty' = [b \in Banks |-> b \in BanksOf(call)]
        /\ shadow' = [b \in Banks |-> Overlay(shadow[b], call, b)]
        /\ promised' = [b \in Banks |-> IF b \in BanksOf(call) THEN Promise(call, b)
                                        ELSE promised[b]]
        /\ spoiled' = (spoiled \ Written(call, Len(call)))
                        \union (Written(call, Len(call)) \intersect Staged)
        /\ overtaken' = BanksOf(call) \intersect Staging
    BY <1>8 DEF NmiWithCallback
  <2>2. WellFormed(call) /\ Len(call) \in 1 .. Len(call)
    <3>1. WellFormed(call) BY QueuedCallsAreWellFormed
    <3>2. Len(call) \in Nat \ {0} BY <3>1 DEF WellFormed
    <3> QED BY <3>1, <3>2
  <2>3. Memory(shadow') BY <1>0, <2>1, <2>2, OverlaidMemory
  <2>4. Memory(promised')
    <3>1. \A b \in Banks : Promise(call, b) \in [EntriesOf(b) -> Bytes \union {PowerOn}]
      BY <1>0, <2>2, PromiseFacts
    <3> QED BY <1>0, <2>1, <3>1 DEF Memory
  <2>5. spoiled' \subseteq Entries
    <3>1. Written(call, Len(call)) \subseteq Entries BY <2>2, EntryPairs
    <3> QED BY <1>0, <2>1, <3>1
  <2>6. dirty' \in [Banks -> BOOLEAN] BY <2>1
  <2>7. overtaken' \subseteq Banks BY <2>1, <2>2 DEF BanksOf, WellFormed
  <2> QED BY <1>0, <1>6, <2>1, <2>3, <2>4, <2>5, <2>6, <2>7 DEF TypeInv
<1> QED BY <1>1, <1>2, <1>3, <1>4, <1>5, <1>7, <1>8 DEF Next, Call, Nmi

LEMMA TypeInvariance == Spec => []TypeInv
<1>1. Init => TypeInv
  <2> SUFFICES ASSUME Init PROVE TypeInv OBVIOUS
  <2>1. /\ started = FALSE /\ shadow = Filled(0) /\ ppu = Filled(PowerOn)
        /\ promised = Filled(PowerOn) /\ dirty = [b \in Banks |-> FALSE]
        /\ script = <<>> /\ at = 1 /\ spoiled = {} /\ overtaken = {}
    BY DEF Init
  <2>2. Memory(shadow) /\ Memory(ppu) /\ Memory(promised)
    BY <2>1, FilledMemory DEF Bytes
  <2> QED BY <2>1, <2>2 DEF TypeInv
<1> QED BY <1>1, TypeStep, PTL DEF Spec

(***************************************************************************)
(* Every bank keeps its own entries in the shadow, in palette memory and   *)
(* in the history, every flag is set or not, and a call in progress is one *)
(* of the queued calls (runtime_palette_shadow and the palette routines).  *)
(***************************************************************************)
THEOREM PaletteTypeCorrectness == Spec => []TypeOK
<1>1. TypeInv => TypeOK
  <2> SUFFICES ASSUME TypeInv PROVE TypeOK OBVIOUS
  <2>1. {shadow, ppu, promised} \subseteq Contents
    BY MemoryInContents DEF TypeInv
  <2>2. script \in QueuedCalls \union {<<>>} BY DEF TypeInv
  <2>3. at \in 1 .. NumEntries + 5
    <3>1. CASE script = <<>> BY <3>1, EntriesAssumption, EmptyScript DEF TypeInv
    <3>2. CASE script # <<>>
      BY <3>2, EntriesAssumption, EmptyScript, QueuedCallsAreWellFormed
    <3> QED BY <3>1, <3>2
  <2> QED BY <2>1, <2>2, <2>3 DEF TypeInv, TypeOK
<1> QED BY <1>1, TypeInvariance, PTL

-----------------------------------------------------------------------------
(***************************************************************************)
(* The inductive invariant.  Performed are the stores the call in progress *)
(* has made.                                                               *)
(***************************************************************************)
Performed == 1 .. at - 1
Withdrawn(b) == \E i \in Performed : script[i] = Withdraw(b)
Published(b) == \E i \in Performed : script[i] = Publish(b)

\* A byte of the shadow is what the call in progress stored there, or else what
\* the bank was last promised, unless some other code stored over it.
ShadowHolds ==
  \A b \in Banks : \A e \in EntriesOf(b) : <<b, e>> \notin spoiled =>
    /\ \A i \in Performed :
         Touches(script[i], b, e) => shadow[b][e] = script[i].color
    /\ (\A i \in Performed : ~Touches(script[i], b, e))
         => shadow[b][e] = Cleared(promised[b])[e]

\* Once it has published a bank, a call has promised what it stored there.
PublishedIsPromised ==
  \A b \in Banks : Published(b) =>
    \A e \in EntriesOf(b) : \A i \in Performed :
      Touches(script[i], b, e) /\ <<b, e>> \notin spoiled
        => promised[b][e] = script[i].color

\* A published bank has a color for every entry.
DirtyIsPromised ==
  \A b \in Banks : dirty[b] => \A e \in EntriesOf(b) : promised[b][e] # PowerOn

\* Before nes.run no other code has run.
NothingSpoiledBeforeRun == ~started => spoiled = {}

StagingInv ==
  /\ ShadowHolds
  /\ PublishedIsPromised
  /\ DirtyIsPromised
  /\ NothingSpoiledBeforeRun
  /\ OnlySpoiledUpdatesAreLost

StagingIsUnpublished == \A b \in Banks : b \in Staging <=> Withdrawn(b) /\ ~Published(b)

LEMMA StagingMeaning == TypeInv => StagingIsUnpublished
<1> SUFFICES ASSUME TypeInv, NEW b \in Banks
             PROVE  b \in Staging <=> Withdrawn(b) /\ ~Published(b)
  BY DEF StagingIsUnpublished
<1>1. CASE script = <<>>
  <2>1. BanksOf(script) = {} /\ Performed = {}
    BY <1>1, EmptyScript DEF BanksOf, Performed, TypeInv
  <2> QED BY <2>1 DEF Staging, Withdrawn
<1>2. CASE script # <<>>
  <2>1. at \in 1 .. Len(script) /\ Len(script) \in Nat BY <1>2, EmptyScript
  <2>2. Withdrawn(b) => b \in BanksOf(script)
    <3> SUFFICES ASSUME NEW i \in 1 .. at - 1, script[i] = Withdraw(b)
                 PROVE  b \in BanksOf(script)
      BY DEF Withdrawn, Performed
    <3>1. script[i].bank = b BY DEF Withdraw
    <3>2. i \in 1 .. Len(script) BY <2>1
    <3> QED BY <3>1, <3>2 DEF BanksOf
  <2> QED BY <2>2 DEF Staging, Withdrawn, Published, Performed
<1> QED BY <1>1, <1>2

LEMMA StagingMeaningPrime ==
  ASSUME TypeInv', NEW b \in Banks
  PROVE  b \in Staging' <=> Withdrawn(b)' /\ ~Published(b)'
<1>1. TypeInv' => StagingIsUnpublished' BY StagingMeaning, PTL
<1> QED BY <1>1 DEF StagingIsUnpublished

(***************************************************************************)
(* The heart of the matter: a published bank that is not being staged has  *)
(* in the shadow what its latest complete update promised.                 *)
(***************************************************************************)
LEMMA DirtyShadowIsFaithful ==
  ASSUME TypeInv, StagingInv, NEW b \in Banks, dirty[b], b \notin Staging
  PROVE  Faithful(shadow, b)
<1> SUFFICES ASSUME NEW e \in EntriesOf(b), <<b, e>> \notin spoiled
             PROVE  shadow[b][e] = promised[b][e]
  BY DEF Faithful
<1>1. CASE \E i \in Performed : Touches(script[i], b, e)
  <2>1. PICK i \in Performed : Touches(script[i], b, e) BY <1>1
  <2>2. script # <<>> BY <2>1 DEF TypeInv, Performed
  <2>3. WellFormed(script) /\ at \in 1 .. Len(script) /\ Len(script) \in Nat
    BY <2>2, EmptyScript
  <2>4. i \in 1 .. Len(script) /\ i \in 1 .. at - 1 BY <2>1, <2>3 DEF Performed
  <2>5. PICK j \in 1 .. i - 1 : script[j] = Withdraw(b)
    BY <2>1, <2>3, <2>4 DEF WellFormed, Touches
  <2>6. j \in Performed BY <2>3, <2>4 DEF Performed
  <2>7. Published(b)
    BY <2>5, <2>6, StagingMeaning DEF StagingIsUnpublished, Withdrawn
  <2> QED BY <2>1, <2>7 DEF StagingInv, ShadowHolds, PublishedIsPromised
<1>2. CASE \A i \in Performed : ~Touches(script[i], b, e)
  <2>1. shadow[b][e] = Cleared(promised[b])[e]
    BY <1>2 DEF StagingInv, ShadowHolds
  <2>2. promised[b][e] # PowerOn BY DEF StagingInv, DirtyIsPromised
  <2> QED BY <2>1, <2>2, ClearedFacts DEF TypeInv
<1> QED BY <1>1, <1>2

-----------------------------------------------------------------------------
(***************************************************************************)
(* The steps of a call.                                                    *)
(***************************************************************************)

\* A step that is not the last leaves the call in place.
LEMMA StepFacts ==
  ASSUME TypeInv, Step
  PROVE  /\ WellFormed(script) /\ at \in 1 .. Len(script) /\ Len(script) \in Nat
         /\ script # <<>> /\ Perform(script[at])
         /\ started' = started /\ ppu' = ppu
         /\ \/ at < Len(script) /\ script' = script /\ Performed' = Performed \union {at}
            \/ at = Len(script) /\ script' = <<>> /\ Performed' = {}
         /\ Performed \subseteq 1 .. Len(script) /\ at \notin Performed
<1>1. /\ script # <<>> /\ Perform(script[at]) /\ started' = started /\ ppu' = ppu
      /\ \/ at < Len(script) /\ at' = at + 1 /\ script' = script
         \/ at = Len(script) /\ at' = 1 /\ script' = <<>>
  BY DEF Step
<1>2. WellFormed(script) /\ at \in 1 .. Len(script) /\ Len(script) \in Nat
  BY <1>1, EmptyScript
<1>3. Performed \subseteq 1 .. Len(script) /\ at \notin Performed
  BY <1>2 DEF Performed
<1>4. \/ at < Len(script) /\ script' = script /\ Performed' = Performed \union {at}
      \/ at = Len(script) /\ script' = <<>> /\ Performed' = {}
  BY <1>1, <1>2 DEF Performed
<1> QED BY <1>1, <1>2, <1>3, <1>4

LEMMA WithdrawStep ==
  ASSUME TypeInv, TypeInv', StagingInv, Step, script[at].op = "withdraw"
  PROVE  StagingInv'
<1> DEFINE b == script[at].bank
<1>1. /\ WellFormed(script) /\ at \in 1 .. Len(script) /\ Len(script) \in Nat
      /\ script # <<>> /\ Perform(script[at])
      /\ started' = started /\ ppu' = ppu
      /\ Performed \subseteq 1 .. Len(script) /\ at \notin Performed
  BY StepFacts
<1>2. /\ script[at] = Withdraw(b) /\ b \in Banks /\ at # Len(script)
  BY <1>1, StepKinds
<1>3. script' = script /\ Performed' = Performed \union {at} BY <1>2, StepFacts
<1>4. /\ dirty' = [dirty EXCEPT ![b] = FALSE] /\ shadow' = shadow
      /\ promised' = promised /\ spoiled' = spoiled
  BY <1>1 DEF Perform
<1>5. /\ dirty \in [Banks -> BOOLEAN] BY DEF TypeInv
<1>6. /\ ~dirty'[b] /\ \A x \in Banks \ {b} : dirty'[x] = dirty[x]
  BY <1>2, <1>4, <1>5
<1>7. \A x \in Banks : \A e \in EntriesOf(x) : ~Touches(script[at], x, e)
  BY DEF Touches
<1>8. \A x \in Banks : Published(x)' <=> Published(x)
  <2>1. \A x : script[at] # Publish(x) BY DEF Publish
  <2> QED BY <1>3, <2>1 DEF Published
<1>9. ShadowHolds' BY <1>3, <1>4, <1>7 DEF ShadowHolds, StagingInv
<1>10. PublishedIsPromised'
  BY <1>3, <1>4, <1>7, <1>8 DEF PublishedIsPromised, StagingInv
<1>11. DirtyIsPromised' BY <1>4, <1>6 DEF DirtyIsPromised, StagingInv
<1>12. NothingSpoiledBeforeRun'
  BY <1>1, <1>4 DEF NothingSpoiledBeforeRun, StagingInv
<1>13. OnlySpoiledUpdatesAreLost'
  <2> SUFFICES ASSUME NEW x \in Banks, ~dirty'[x], x \notin Staging'
               PROVE  Faithful(ppu, x)'
    BY DEF OnlySpoiledUpdatesAreLost
  <2>1. Withdrawn(x)' => Published(x)' BY StagingMeaningPrime
  <2>2. x # b
    <3> SUFFICES ASSUME x = b PROVE FALSE OBVIOUS
    <3>1. Withdrawn(x)' BY <1>2, <1>3 DEF Withdrawn
    <3>2. Published(x) BY <1>8, <2>1, <3>1
    <3>3. PICK j \in Performed : script[j] = Publish(x) BY <3>2 DEF Published
    <3>4. script[j].op = "publish" /\ script[j].bank = x BY <3>3 DEF Publish
    <3>5. at <= j BY <1>1, <3>4 DEF WellFormed
    <3> QED BY <3>5 , <1>1 DEF Performed
  <2>3. Withdrawn(x) => Published(x)
    BY <1>3, <1>8, <2>1 DEF Withdrawn
  <2>4. Faithful(ppu, x)
    BY <1>6, <2>2, <2>3, StagingMeaning DEF StagingIsUnpublished, StagingInv, OnlySpoiledUpdatesAreLost
  <2> QED BY <1>1, <1>4, <2>4 DEF Faithful
<1> QED BY <1>9, <1>10, <1>11, <1>12, <1>13 DEF StagingInv

LEMMA StoreStep ==
  ASSUME TypeInv, TypeInv', StagingInv, Step, script[at].op = "store"
  PROVE  StagingInv'
<1> DEFINE b == script[at].bank
           e == script[at].entry
<1>1. /\ WellFormed(script) /\ at \in 1 .. Len(script) /\ Len(script) \in Nat
      /\ script # <<>> /\ Perform(script[at])
      /\ started' = started /\ ppu' = ppu
      /\ Performed \subseteq 1 .. Len(script) /\ at \notin Performed
  BY StepFacts
<1>2. /\ b \in Banks /\ e \in EntriesOf(b) /\ script[at].color \in Bytes
      /\ at # Len(script)
  BY <1>1, StepKinds
<1>3. script' = script /\ Performed' = Performed \union {at} BY <1>2, StepFacts
<1>4. /\ dirty' = dirty /\ promised' = promised /\ spoiled' = spoiled \ {<<b, e>>}
      /\ shadow' = [shadow EXCEPT ![b][e] = script[at].color]
  BY <1>1 DEF Perform
<1>5. /\ shadow'[b][e] = script[at].color
      /\ \A x \in Banks : \A y \in EntriesOf(x) :
           x # b \/ y # e => shadow'[x][y] = shadow[x][y]
  <2> DEFINE c == script[at].color
  <2>1. c \in Bytes /\ shadow' = [shadow EXCEPT ![b][e] = c] BY <1>2, <1>4
  <2>2. Memory(shadow) BY DEF TypeInv
  <2> HIDE DEF b, e, c
  <2>3. /\ shadow'[b][e] = c
        /\ \A x \in Banks : \A y \in EntriesOf(x) :
             x # b \/ y # e => shadow'[x][y] = shadow[x][y]
    <3>1. b \in Banks /\ e \in EntriesOf(b) BY <1>2
    <3>3. shadow'[b][e] = c BY <2>1, <2>2, <3>1 DEF Memory
    <3>4. ASSUME NEW x \in Banks, NEW y \in EntriesOf(x), x # b \/ y # e
          PROVE shadow'[x][y] = shadow[x][y] BY <2>1, <2>2, <3>1, <3>4, StoredMemory
    <3> QED BY <3>3, <3>4
  <2> QED BY <2>3 DEF c
<1>6. \A i \in Performed : ~Touches(script[i], b, e)
  <2> SUFFICES ASSUME NEW i \in Performed, Touches(script[i], b, e) PROVE FALSE
    OBVIOUS
  <2>1. i = at BY <1>1 DEF WellFormed
  <2> QED BY <1>1, <2>1
<1>7. \A x \in Banks : \A y \in EntriesOf(x) :
        Touches(script[at], x, y) <=> x = b /\ y = e
  BY DEF Touches
<1>8. \A x \in Banks : Published(x)' <=> Published(x)
  <2>1. \A x : script[at] # Publish(x) BY DEF Publish
  <2> QED BY <1>3, <2>1 DEF Published
<1>9. \A x \in Banks : Withdrawn(x) => Withdrawn(x)' BY <1>3 DEF Withdrawn
<1>10. Withdrawn(b) /\ ~Published(b)
  <2>1. PICK j \in 1 .. at - 1 : script[j] = Withdraw(b) BY <1>1 DEF WellFormed
  <2>2. Withdrawn(b) BY <2>1 DEF Withdrawn, Performed
  <2>3. ASSUME NEW i \in Performed, script[i] = Publish(b) PROVE FALSE
    <3>1. script[i].op = "publish" /\ script[i].bank = b BY <2>3 DEF Publish
    <3>2. at <= i BY <1>1, <3>1 DEF WellFormed
    <3> QED BY <1>1, <3>2 DEF Performed
  <2> QED BY <2>2, <2>3 DEF Published
<1> HIDE DEF b, e
<1>11. \A x \in Banks : \A y \in EntriesOf(x) :
         <<x, y>> \notin spoiled' => (x = b /\ y = e) \/ <<x, y>> \notin spoiled
  BY <1>4
<1>12. ShadowHolds'
  <2> SUFFICES ASSUME NEW x \in Banks, NEW y \in EntriesOf(x), <<x, y>> \notin spoiled'
               PROVE  /\ \A i \in Performed' :
                           Touches(script[i], x, y) => shadow'[x][y] = script[i].color
                      /\ (\A i \in Performed' : ~Touches(script[i], x, y))
                           => shadow'[x][y] = Cleared(promised[x])[y]
    BY <1>3, <1>4 DEF ShadowHolds
  <2>1. CASE x = b /\ y = e BY <1>3, <1>5, <1>6, <1>7, <2>1
  <2>2. CASE x # b \/ y # e
    BY <1>3, <1>5, <1>7, <1>11, <2>2 DEF StagingInv, ShadowHolds
  <2> QED BY <2>1, <2>2
<1>13. PublishedIsPromised'
  <2> SUFFICES ASSUME NEW x \in Banks, Published(x), NEW y \in EntriesOf(x),
                      NEW i \in Performed', Touches(script[i], x, y),
                      <<x, y>> \notin spoiled'
               PROVE  promised[x][y] = script[i].color
    BY <1>3, <1>4, <1>8 DEF PublishedIsPromised
  <2>1. x # b BY <1>10
  <2>2. i \in Performed BY <1>3, <1>7, <2>1
  <2> QED BY <1>11, <2>1, <2>2 DEF StagingInv, PublishedIsPromised
<1>14. DirtyIsPromised' BY <1>4 DEF DirtyIsPromised, StagingInv
<1>15. NothingSpoiledBeforeRun'
  BY <1>1, <1>4 DEF NothingSpoiledBeforeRun, StagingInv
<1>16. OnlySpoiledUpdatesAreLost'
  <2> SUFFICES ASSUME NEW x \in Banks, ~dirty[x], x \notin Staging'
               PROVE  Faithful(ppu, x)'
    BY <1>4 DEF OnlySpoiledUpdatesAreLost
  <2>1. Withdrawn(x) => Published(x)
    BY <1>8, <1>9, StagingMeaningPrime
  <2>2. x # b BY <1>10, <2>1
  <2>3. Faithful(ppu, x)
    BY <2>1, StagingMeaning
       DEF StagingIsUnpublished, StagingInv, OnlySpoiledUpdatesAreLost
  <2>4. \A y \in EntriesOf(x) : <<x, y>> \notin spoiled' => <<x, y>> \notin spoiled
    BY <1>11, <2>2
  <2> QED BY <1>1, <1>4, <2>3, <2>4 DEF Faithful
<1> QED BY <1>12, <1>13, <1>14, <1>15, <1>16 DEF StagingInv

\* The last step of a call publishes its last bank.
LEMMA PublishStep ==
  ASSUME TypeInv, TypeInv', StagingInv, Step, script[at].op = "publish"
  PROVE  StagingInv'
<1> DEFINE b == script[at].bank
<1>1. /\ WellFormed(script) /\ at \in 1 .. Len(script) /\ Len(script) \in Nat
      /\ script # <<>> /\ Perform(script[at])
      /\ started' = started /\ ppu' = ppu
      /\ \/ at < Len(script) /\ script' = script /\ Performed' = Performed \union {at}
         \/ at = Len(script) /\ script' = <<>> /\ Performed' = {}
      /\ Performed \subseteq 1 .. Len(script) /\ at \notin Performed
  BY StepFacts
<1>2. script[at] = Publish(b) /\ b \in Banks BY <1>1, StepKinds
<1>3. /\ dirty' = [dirty EXCEPT ![b] = TRUE] /\ shadow' = shadow /\ spoiled' = spoiled
      /\ promised' = [promised EXCEPT ![b] = Promise(script, b)]
  BY <1>1 DEF Perform
<1>4. dirty'[b] /\ \A x \in Banks \ {b} : dirty'[x] <=> dirty[x]
  BY <1>2, <1>3 DEF TypeInv
<1>5. /\ promised'[b] = Promise(script, b)
      /\ \A x \in Banks \ {b} : promised'[x] = promised[x]
  <2>1. Promise(script, b) \in [EntriesOf(b) -> Bytes \union {PowerOn}]
    BY <1>1, <1>2, PromiseFacts DEF TypeInv
  <2> QED BY <1>2, <1>3, <2>1, UpdatedMemory DEF TypeInv
<1>6. \A y \in EntriesOf(b) :
        /\ promised'[b][y] # PowerOn
        /\ \A i \in 1 .. Len(script) :
             Touches(script[i], b, y) => promised'[b][y] = script[i].color
        /\ (\A i \in 1 .. Len(script) : ~Touches(script[i], b, y))
             => promised'[b][y] = Cleared(promised[b])[y]
  BY <1>1, <1>2, <1>5, PromiseFacts DEF TypeInv
<1>7. \A x \in Banks : \A y \in EntriesOf(x) : ~Touches(script[at], x, y)
  BY DEF Touches
<1>8. \A i \in 1 .. Len(script) : i \notin Performed =>
        \A y \in EntriesOf(b) : ~Touches(script[i], b, y)
  <2> SUFFICES ASSUME NEW i \in 1 .. Len(script), i \notin Performed,
                      NEW y \in EntriesOf(b), Touches(script[i], b, y)
               PROVE  FALSE
    OBVIOUS
  <2>1. i <= at BY <1>1 DEF WellFormed, Touches
  <2>2. i = at BY <1>1, <2>1 DEF Performed
  <2> QED BY <1>7, <1>2, <2>2
<1>9. \A x \in Banks \ {b} : script[at] # Publish(x) BY DEF Publish
<1> HIDE DEF b
\* What a bank has been promised, cleared, is the promise itself here.
<1>10. \A y \in EntriesOf(b) :
         /\ Cleared(promised'[b])[y] = promised'[b][y]
         /\ (\A i \in Performed : ~Touches(script[i], b, y))
              => promised'[b][y] = Cleared(promised[b])[y]
  BY <1>2, <1>6, <1>8, ClearedFacts DEF TypeInv
<1>11. \A x \in Banks : \A y \in EntriesOf(x) : <<x, y>> \notin spoiled =>
         /\ \A i \in Performed :
              Touches(script[i], x, y) => shadow[x][y] = script[i].color
         /\ (\A i \in Performed : ~Touches(script[i], x, y))
              => shadow[x][y] = Cleared(promised'[x])[y]
  <2> TAKE x \in Banks
  <2> TAKE y \in EntriesOf(x)
  <2>1. CASE x = b BY <1>10, <2>1 DEF StagingInv, ShadowHolds
  <2>2. CASE x # b BY <1>5, <2>2 DEF StagingInv, ShadowHolds
  <2> QED BY <2>1, <2>2
<1>12. DirtyIsPromised'
  <2> SUFFICES ASSUME NEW x \in Banks, dirty'[x], NEW y \in EntriesOf(x)
               PROVE  promised'[x][y] # PowerOn
    BY DEF DirtyIsPromised
  <2>1. CASE x = b BY <1>6, <2>1
  <2>2. CASE x # b BY <1>4, <1>5, <2>2 DEF StagingInv, DirtyIsPromised
  <2> QED BY <2>1, <2>2
<1>13. NothingSpoiledBeforeRun'
  BY <1>1, <1>3 DEF NothingSpoiledBeforeRun, StagingInv
\* Other banks of the call are published before its last step.
<1>14. ASSUME at = Len(script), NEW x \in Banks \ {b},
              NEW i \in 1 .. Len(script), script[i].bank = x
       PROVE  Published(x)
  <2>1. PICK j \in 1 .. Len(script) : script[j] = Publish(x)
    BY <1>1, <1>14 DEF WellFormed
  <2>2. j # at BY <1>9, <2>1
  <2> QED BY <1>1, <1>14, <2>1, <2>2 DEF Published, Performed
<1>15. OnlySpoiledUpdatesAreLost'
  <2> SUFFICES ASSUME NEW x \in Banks, ~dirty'[x], x \notin Staging'
               PROVE  Faithful(ppu, x)'
    BY DEF OnlySpoiledUpdatesAreLost
  <2>1. x # b /\ ~dirty[x] BY <1>4
  <2>2. Withdrawn(x) => Published(x)
    <3> SUFFICES ASSUME Withdrawn(x) PROVE Published(x) OBVIOUS
    <3>1. CASE at < Len(script)
      <4>1. script' = script /\ Performed' = Performed \union {at} BY <1>1, <3>1
      <4>2. Withdrawn(x)' BY <4>1 DEF Withdrawn
      <4>3. Published(x)' BY <4>2, StagingMeaningPrime
      <4> QED BY <1>9, <2>1, <4>1, <4>3 DEF Published
    <3>2. CASE at = Len(script)
      <4>1. PICK i \in Performed : script[i] = Withdraw(x) BY DEF Withdrawn
      <4>2. i \in 1 .. Len(script) /\ script[i].bank = x BY <1>1, <4>1 DEF Withdraw
      <4> QED BY <1>14, <2>1, <3>2, <4>2
    <3> QED BY <1>1, <3>1, <3>2
  <2>3. Faithful(ppu, x)
    BY <2>1, <2>2, StagingMeaning
       DEF StagingIsUnpublished, StagingInv, OnlySpoiledUpdatesAreLost
  <2> QED BY <1>1, <1>3, <1>5, <2>1, <2>3 DEF Faithful
<1>16. CASE at < Len(script)
  <2>1. script' = script /\ Performed' = Performed \union {at} BY <1>1, <1>16
  <2>2. ShadowHolds' BY <1>3, <1>7, <1>11, <2>1 DEF ShadowHolds
  <2>3. PublishedIsPromised'
    <3> SUFFICES ASSUME NEW x \in Banks, Published(x)', NEW y \in EntriesOf(x),
                        NEW i \in Performed', Touches(script[i], x, y),
                        <<x, y>> \notin spoiled
                 PROVE  promised'[x][y] = script[i].color
      BY <1>3, <2>1 DEF PublishedIsPromised
    <3>1. i \in Performed BY <1>7, <2>1
    <3>2. CASE x = b BY <1>1, <1>6, <3>1, <3>2
    <3>3. CASE x # b
      <4>1. Published(x) BY <1>9, <2>1, <3>3 DEF Published
      <4> QED BY <1>5, <3>1, <3>3, <4>1 DEF StagingInv, PublishedIsPromised
    <3> QED BY <3>2, <3>3
  <2> QED BY <1>12, <1>13, <1>15, <2>2, <2>3 DEF StagingInv
<1>17. CASE at = Len(script)
  <2>1. script' = <<>> /\ Performed' = {} BY <1>1, <1>17
  <2>2. PublishedIsPromised' BY <2>1 DEF PublishedIsPromised
  <2>3. ShadowHolds'
    <3> SUFFICES ASSUME NEW x \in Banks, NEW y \in EntriesOf(x), <<x, y>> \notin spoiled
                 PROVE  shadow[x][y] = Cleared(promised'[x])[y]
      BY <1>3, <2>1 DEF ShadowHolds
    <3>1. CASE \A i \in Performed : ~Touches(script[i], x, y) BY <1>11, <3>1
    <3>2. CASE \E i \in Performed : Touches(script[i], x, y)
      <4>1. PICK i \in Performed : Touches(script[i], x, y) BY <3>2
      <4>2. i \in 1 .. Len(script) BY <1>1
      <4>3. shadow[x][y] = script[i].color BY <1>11, <4>1
      <4>4. script[i].color # PowerOn
        BY <1>1, <4>1, <4>2, StoreFacts, ColorsAssumption DEF Touches
      <4>5. promised'[x][y] = script[i].color
        <5>1. CASE x = b BY <1>6, <4>1, <4>2, <5>1
        <5>2. CASE x # b
          <6>1. Published(x) BY <1>14, <1>17, <4>1, <4>2, <5>2 DEF Touches
          <6> QED BY <1>5, <4>1, <5>2, <6>1 DEF StagingInv, PublishedIsPromised
        <5> QED BY <5>1, <5>2
      <4> QED BY <4>3, <4>4, <4>5, ClearedFacts DEF TypeInv
    <3> QED BY <3>1, <3>2
  <2> QED BY <1>12, <1>13, <1>15, <2>2, <2>3 DEF StagingInv
<1> QED BY <1>1, <1>16, <1>17

-----------------------------------------------------------------------------
(***************************************************************************)
(* The other steps.                                                        *)
(***************************************************************************)
LEMMA BeginStep ==
  ASSUME TypeInv, TypeInv', StagingInv, NEW call \in QueuedCalls, Begin(call)
  PROVE  StagingInv'
<1>1. /\ script = <<>> /\ script' = call /\ at' = 1
      /\ started' = started /\ shadow' = shadow /\ dirty' = dirty /\ ppu' = ppu
      /\ promised' = promised /\ spoiled' = spoiled
  BY DEF Begin
<1>2. Performed = {} /\ Performed' = {}
  BY <1>1, EmptyScript DEF Performed, TypeInv
<1>3. ShadowHolds' BY <1>1, <1>2 DEF ShadowHolds, StagingInv
<1>4. PublishedIsPromised' BY <1>2 DEF PublishedIsPromised
<1>5. DirtyIsPromised' BY <1>1 DEF DirtyIsPromised, StagingInv
<1>6. NothingSpoiledBeforeRun' BY <1>1 DEF NothingSpoiledBeforeRun, StagingInv
<1>7. \A b \in Banks : b \notin Staging /\ b \notin Staging'
  BY <1>2, StagingMeaning, StagingMeaningPrime DEF StagingIsUnpublished, Withdrawn
<1>8. OnlySpoiledUpdatesAreLost'
  BY <1>1, <1>7 DEF StagingInv, OnlySpoiledUpdatesAreLost, Faithful
<1> QED BY <1>3, <1>4, <1>5, <1>6, <1>8 DEF StagingInv

LEMMA DirectStep ==
  ASSUME TypeInv, TypeInv', StagingInv, NEW call \in QueuedCalls, WriteDirectly(call)
  PROVE  StagingInv'
<1>1. /\ script = <<>> /\ ~started /\ started' = started
      /\ script' = script /\ at' = at /\ dirty' = dirty /\ spoiled' = spoiled
      /\ ppu' = [b \in Banks |-> Overlay(ppu[b], call, b)]
      /\ shadow' = [b \in Banks |-> Overlay(shadow[b], call, b)]
      /\ promised' = [b \in Banks |-> Overlay(promised[b], call, b)]
  BY DEF WriteDirectly
<1>2. WellFormed(call) BY QueuedCallsAreWellFormed
<1>3. Performed = {} /\ Performed' = {}
  BY <1>1, EmptyScript DEF Performed, TypeInv
<1> DEFINE Hit(b, e) == \E i \in 1 .. Len(call) : Touches(call[i], b, e)
\* The three memories get the same color where the call stores one.
<1>4. \A b \in Banks : \A e \in EntriesOf(b) :
        \/ /\ shadow'[b][e] = promised'[b][e] /\ ppu'[b][e] = promised'[b][e]
           /\ promised'[b][e] # PowerOn
        \/ /\ shadow'[b][e] = shadow[b][e] /\ ppu'[b][e] = ppu[b][e]
           /\ promised'[b][e] = promised[b][e]
  <2> TAKE b \in Banks
  <2> TAKE e \in EntriesOf(b)
  <2>1. /\ shadow[b] \in [EntriesOf(b) -> Bytes \union {PowerOn}]
        /\ ppu[b] \in [EntriesOf(b) -> Bytes \union {PowerOn}]
        /\ promised[b] \in [EntriesOf(b) -> Bytes \union {PowerOn}]
    BY DEF TypeInv, Memory
  <2>2. /\ shadow'[b] = Overlay(shadow[b], call, b)
        /\ ppu'[b] = Overlay(ppu[b], call, b)
        /\ promised'[b] = Overlay(promised[b], call, b)
    BY <1>1
  <2>3. CASE Hit(b, e)
    <3>1. PICK i \in 1 .. Len(call) : Touches(call[i], b, e) BY <2>3
    <3>2. call[i].color # PowerOn
      BY <1>2, <3>1, StoreFacts, ColorsAssumption DEF Touches
    <3>3. /\ shadow'[b][e] = call[i].color /\ ppu'[b][e] = call[i].color
          /\ promised'[b][e] = call[i].color
      BY <1>2, <2>1, <2>2, <3>1, OverlayFacts
    <3> QED BY <3>2, <3>3
  <2>4. CASE ~Hit(b, e) BY <1>2, <2>1, <2>2, <2>4, OverlayFacts
  <2> QED BY <2>3, <2>4
<1>5. \A b \in Banks : \A e \in EntriesOf(b) :
        /\ Cleared(promised[b])[e] = IF promised[b][e] = PowerOn THEN 0 ELSE promised[b][e]
        /\ Cleared(promised'[b])[e]
             = IF promised'[b][e] = PowerOn THEN 0 ELSE promised'[b][e]
  BY ClearedFacts DEF TypeInv
<1>6. ShadowHolds' BY <1>1, <1>3, <1>4, <1>5 DEF ShadowHolds, StagingInv
<1>7. PublishedIsPromised' BY <1>3 DEF PublishedIsPromised
<1>8. DirtyIsPromised' BY <1>1, <1>4 DEF DirtyIsPromised, StagingInv
<1>9. NothingSpoiledBeforeRun' BY <1>1 DEF NothingSpoiledBeforeRun, StagingInv
<1>10. \A b \in Banks : b \notin Staging /\ b \notin Staging'
  BY <1>3, StagingMeaning, StagingMeaningPrime DEF StagingIsUnpublished, Withdrawn
<1>11. OnlySpoiledUpdatesAreLost'
  BY <1>1, <1>4, <1>10 DEF StagingInv, OnlySpoiledUpdatesAreLost, Faithful
<1> QED BY <1>6, <1>7, <1>8, <1>9, <1>11 DEF StagingInv

\* nes.run: the default palettes, except where a call has been staged.
LEMMA RunStep ==
  ASSUME TypeInv, TypeInv', StagingInv, Run
  PROVE  StagingInv'
<1> DEFINE Defaulted(f) == [b \in Banks |-> IF b \in DefaultPalettes
                                            THEN [e \in EntriesOf(b) |-> DefaultColor]
                                            ELSE f[b]]
<1>1. /\ script = <<>> /\ ~started /\ started' = TRUE
      /\ dirty' = dirty /\ script' = script /\ at' = at
      /\ ppu' = Defaulted(ppu) /\ shadow' = Defaulted(shadow)
      /\ promised' = [b \in Banks |-> IF dirty[b] THEN promised[b]
                                      ELSE Defaulted(promised)[b]]
      /\ spoiled' = {x \in Entries : x[1] \in DefaultPalettes /\ dirty[x[1]]}
  BY DEF Run
<1>2. Performed = {} /\ Performed' = {}
  BY <1>1, EmptyScript DEF Performed, TypeInv
<1>3. spoiled = {} BY <1>1 DEF StagingInv, NothingSpoiledBeforeRun
<1>4. \A b \in Banks : \A e \in EntriesOf(b) :
        \/ /\ b \in DefaultPalettes /\ dirty[b]
           /\ <<b, e>> \in spoiled' /\ promised'[b] = promised[b]
        \/ /\ b \in DefaultPalettes /\ ~dirty[b]
           /\ shadow'[b][e] = DefaultColor /\ ppu'[b][e] = DefaultColor
           /\ promised'[b][e] = DefaultColor
        \/ /\ b \notin DefaultPalettes
           /\ shadow'[b][e] = shadow[b][e] /\ ppu'[b][e] = ppu[b][e]
           /\ promised'[b][e] = promised[b][e]
  <2> TAKE b \in Banks
  <2> TAKE e \in EntriesOf(b)
  <2>1. <<b, e>> \in Entries /\ <<b, e>>[1] = b BY EntryPairs
  <2>2. CASE b \in DefaultPalettes /\ dirty[b] BY <1>1, <2>1, <2>2
  <2>3. CASE b \in DefaultPalettes /\ ~dirty[b] BY <1>1, <2>3
  <2>4. CASE b \notin DefaultPalettes BY <1>1, <2>4
  <2> QED BY <2>2, <2>3, <2>4
<1>5. DefaultColor \in Bytes BY DEF Bytes
<1>6. DefaultColor # PowerOn BY <1>5, ColorsAssumption
<1>7. \A b \in Banks : \A e \in EntriesOf(b) :
        /\ Cleared(promised[b])[e] = IF promised[b][e] = PowerOn THEN 0 ELSE promised[b][e]
        /\ Cleared(promised'[b])[e]
             = IF promised'[b][e] = PowerOn THEN 0 ELSE promised'[b][e]
  BY ClearedFacts DEF TypeInv
<1> HIDE DEF Defaulted
<1>8. ShadowHolds'
  <2> SUFFICES ASSUME NEW b \in Banks, NEW e \in EntriesOf(b), <<b, e>> \notin spoiled'
               PROVE  shadow'[b][e] = Cleared(promised'[b])[e]
    BY <1>2 DEF ShadowHolds
  <2>1. shadow[b][e] = Cleared(promised[b])[e]
    BY <1>2, <1>3 DEF ShadowHolds, StagingInv
  <2> QED BY <1>4, <1>6, <1>7, <2>1
<1>9. PublishedIsPromised' BY <1>2 DEF PublishedIsPromised
<1>10. DirtyIsPromised' BY <1>1, <1>4 DEF DirtyIsPromised, StagingInv
<1>11. NothingSpoiledBeforeRun' BY <1>1 DEF NothingSpoiledBeforeRun
<1>12. \A b \in Banks : b \notin Staging /\ b \notin Staging'
  BY <1>2, StagingMeaning, StagingMeaningPrime DEF StagingIsUnpublished, Withdrawn
<1>13. OnlySpoiledUpdatesAreLost'
  <2> SUFFICES ASSUME NEW b \in Banks, ~dirty[b], NEW e \in EntriesOf(b)
               PROVE  ppu'[b][e] = promised'[b][e]
    BY <1>1 DEF OnlySpoiledUpdatesAreLost, Faithful
  <2>1. ppu[b][e] = promised[b][e]
    BY <1>3, <1>12 DEF StagingInv, OnlySpoiledUpdatesAreLost, Faithful
  <2> QED BY <1>4, <2>1
<1> QED BY <1>8, <1>9, <1>10, <1>11, <1>13 DEF StagingInv

\* What NMI shows of a bank that is not being staged.
LEMMA UploadIsFaithful ==
  ASSUME TypeInv, StagingInv, Upload, NEW b \in Banks, b \notin Staging,
         NEW e \in EntriesOf(b), <<b, e>> \notin spoiled
  PROVE  ppu'[b][e] = promised[b][e]
<1>1. ppu'[b] = IF dirty[b] THEN shadow[b] ELSE ppu[b] BY DEF Upload
<1>2. CASE dirty[b] BY <1>1, <1>2, DirtyShadowIsFaithful DEF Faithful
<1>3. CASE ~dirty[b]
  BY <1>1, <1>3 DEF StagingInv, OnlySpoiledUpdatesAreLost, Faithful
<1> QED BY <1>2, <1>3

LEMMA NmiAloneStep ==
  ASSUME TypeInv, TypeInv', StagingInv, NmiAlone
  PROVE  StagingInv'
<1>1. /\ Upload /\ started' = started /\ shadow' = shadow
      /\ script' = script /\ at' = at /\ promised' = promised /\ spoiled' = spoiled
      /\ dirty' = [b \in Banks |-> FALSE]
  BY DEF NmiAlone
<1>2. Performed' = Performed BY <1>1 DEF Performed
<1>3. ShadowHolds' BY <1>1, <1>2 DEF ShadowHolds, StagingInv
<1>4. \A b \in Banks : Published(b)' <=> Published(b) BY <1>1, <1>2 DEF Published
<1>5. PublishedIsPromised'
  BY <1>1, <1>2, <1>4 DEF PublishedIsPromised, StagingInv
<1>6. DirtyIsPromised' BY <1>1 DEF DirtyIsPromised
<1>7. NothingSpoiledBeforeRun' BY <1>1 DEF NothingSpoiledBeforeRun, StagingInv
<1>8. Staging' = Staging BY <1>1 DEF Staging
<1>9. OnlySpoiledUpdatesAreLost'
  BY <1>1, <1>8, UploadIsFaithful DEF OnlySpoiledUpdatesAreLost, Faithful
<1> QED BY <1>3, <1>5, <1>6, <1>7, <1>9 DEF StagingInv

LEMMA WrittenEntries ==
  ASSUME NEW call, NEW n, NEW b, NEW e
  PROVE  <<b, e>> \in Written(call, n) <=> \E i \in 1 .. n : Touches(call[i], b, e)
<1>1. ASSUME NEW i \in 1 .. n, Touches(call[i], b, e) PROVE <<b, e>> \in Written(call, n)
  BY <1>1 DEF Written, Touches
<1>2. ASSUME <<b, e>> \in Written(call, n)
      PROVE  \E i \in 1 .. n : Touches(call[i], b, e)
  <2>1. PICK i \in 1 .. n :
          call[i].op = "store" /\ <<b, e>> = <<call[i].bank, call[i].entry>>
    BY <1>2 DEF Written
  <2> QED BY <2>1 DEF Touches
<1> QED BY <1>1, <1>2

LEMMA CallbackStep ==
  ASSUME TypeInv, TypeInv', StagingInv, NEW call \in QueuedCalls, NmiWithCallback(call)
  PROVE  StagingInv'
<1> DEFINE W == Written(call, Len(call))
<1>1. /\ started /\ Upload /\ started' = started /\ script' = script /\ at' = at
      /\ dirty' = [b \in Banks |-> b \in BanksOf(call)]
      /\ shadow' = [b \in Banks |-> Overlay(shadow[b], call, b)]
      /\ promised' = [b \in Banks |-> IF b \in BanksOf(call) THEN Promise(call, b)
                                      ELSE promised[b]]
      /\ spoiled' = (spoiled \ W) \union (W \intersect Staged)
  BY DEF NmiWithCallback
<1>2. WellFormed(call) /\ Len(call) \in Nat
  BY QueuedCallsAreWellFormed DEF WellFormed
<1>3. Performed' = Performed BY <1>1 DEF Performed
<1>4. \A b, e : <<b, e>> \in Staged <=> \E i \in Performed : Touches(script[i], b, e)
  BY WrittenEntries DEF Staged, Performed
<1>5. \A b, e : <<b, e>> \in W <=> \E i \in 1 .. Len(call) : Touches(call[i], b, e)
  BY WrittenEntries
<1>6. \A b \in Banks : \A e \in EntriesOf(b) :
        Cleared(promised'[b])[e] = IF promised'[b][e] = PowerOn THEN 0 ELSE promised'[b][e]
  BY ClearedFacts DEF TypeInv
<1> HIDE DEF W
\* An entry the callback stores.
<1>7. ASSUME NEW b \in Banks, NEW e \in EntriesOf(b), <<b, e>> \in W
      PROVE  /\ shadow'[b][e] = promised'[b][e] /\ promised'[b][e] # PowerOn
             /\ b \in BanksOf(call)
  <2>1. PICK i \in 1 .. Len(call) : Touches(call[i], b, e) BY <1>5, <1>7
  <2>2. b \in BanksOf(call) BY <2>1 DEF BanksOf, Touches
  <2>3. promised'[b] = Promise(call, b) BY <1>1, <2>2
  <2>4. promised'[b][e] = call[i].color /\ promised'[b][e] # PowerOn
    BY <1>2, <2>1, <2>3, PromiseFacts DEF TypeInv
  <2>5. shadow[b] \in [EntriesOf(b) -> Bytes \union {PowerOn}]
    BY DEF TypeInv, Memory
  <2>6. shadow'[b] = Overlay(shadow[b], call, b) BY <1>1
  <2>7. shadow'[b][e] = call[i].color BY <1>2, <2>1, <2>5, <2>6, OverlayFacts
  <2> QED BY <2>2, <2>4, <2>7
\* An entry it does not store.
<1>8. ASSUME NEW b \in Banks, NEW e \in EntriesOf(b), <<b, e>> \notin W
      PROVE  /\ shadow'[b][e] = shadow[b][e]
             /\ b \notin BanksOf(call) => promised'[b][e] = promised[b][e]
             /\ b \in BanksOf(call) => /\ promised'[b][e] = Cleared(promised[b])[e]
                                       /\ promised'[b][e] # PowerOn
             /\ Cleared(promised'[b])[e] = Cleared(promised[b])[e]
  <2>1. \A i \in 1 .. Len(call) : ~Touches(call[i], b, e) BY <1>5, <1>8
  <2>2. shadow[b] \in [EntriesOf(b) -> Bytes \union {PowerOn}]
    BY DEF TypeInv, Memory
  <2>3. shadow'[b] = Overlay(shadow[b], call, b) BY <1>1
  <2>4. shadow'[b][e] = shadow[b][e] BY <1>2, <2>1, <2>2, <2>3, OverlayFacts
  <2>5. b \notin BanksOf(call) => promised'[b] = promised[b] BY <1>1
  <2>6. b \in BanksOf(call) => /\ promised'[b][e] = Cleared(promised[b])[e]
                               /\ promised'[b][e] # PowerOn
    <3> SUFFICES ASSUME b \in BanksOf(call)
                 PROVE  /\ promised'[b][e] = Cleared(promised[b])[e]
                        /\ promised'[b][e] # PowerOn
      OBVIOUS
    <3>1. promised'[b] = Promise(call, b) BY <1>1
    <3> QED BY <1>2, <2>1, <3>1, PromiseFacts DEF TypeInv
  <2> QED BY <1>6, <2>4, <2>5, <2>6
<1>9. \A b, e : <<b, e>> \notin spoiled' =>
        (<<b, e>> \in W /\ <<b, e>> \notin Staged)
          \/ (<<b, e>> \notin W /\ <<b, e>> \notin spoiled)
  BY <1>1
<1>10. ShadowHolds'
  <2> SUFFICES ASSUME NEW b \in Banks, NEW e \in EntriesOf(b), <<b, e>> \notin spoiled'
               PROVE  /\ \A i \in Performed :
                           Touches(script[i], b, e) => shadow'[b][e] = script[i].color
                      /\ (\A i \in Performed : ~Touches(script[i], b, e))
                           => shadow'[b][e] = Cleared(promised'[b])[e]
    BY <1>1, <1>3 DEF ShadowHolds
  <2>1. CASE <<b, e>> \in W BY <1>4, <1>6, <1>7, <1>9, <2>1
  <2>2. CASE <<b, e>> \notin W BY <1>8, <1>9, <2>2 DEF StagingInv, ShadowHolds
  <2> QED BY <2>1, <2>2
<1>11. PublishedIsPromised'
  <2> SUFFICES ASSUME NEW b \in Banks, Published(b), NEW e \in EntriesOf(b),
                      NEW i \in Performed, Touches(script[i], b, e),
                      <<b, e>> \notin spoiled'
               PROVE  promised'[b][e] = script[i].color
    BY <1>1, <1>3 DEF PublishedIsPromised, Published
  <2>1. <<b, e>> \notin W /\ <<b, e>> \notin spoiled BY <1>4, <1>9
  <2>2. promised[b][e] = script[i].color
    BY <2>1 DEF StagingInv, PublishedIsPromised
  <2>3. script # <<>> BY DEF TypeInv, Performed
  <2>4. i \in 1 .. Len(script) /\ WellFormed(script)
    BY <2>3, EmptyScript DEF Performed
  <2>5. script[i].color # PowerOn
    BY <2>4, StoreFacts, ColorsAssumption DEF Touches
  <2>6. Cleared(promised[b])[e] = promised[b][e]
    BY <2>2, <2>5, ClearedFacts DEF TypeInv
  <2> QED BY <1>8, <2>1, <2>2, <2>6
<1>12. DirtyIsPromised' BY <1>1, <1>7, <1>8 DEF DirtyIsPromised
<1>13. NothingSpoiledBeforeRun' BY <1>1 DEF NothingSpoiledBeforeRun
<1>14. OnlySpoiledUpdatesAreLost'
  <2> SUFFICES ASSUME NEW b \in Banks, ~dirty'[b], b \notin Staging,
                      NEW e \in EntriesOf(b), <<b, e>> \notin spoiled'
               PROVE  ppu'[b][e] = promised'[b][e]
    <3>1. Staging' = Staging BY <1>1 DEF Staging
    <3> QED BY <3>1 DEF OnlySpoiledUpdatesAreLost, Faithful
  <2>1. b \notin BanksOf(call) BY <1>1
  <2>2. <<b, e>> \notin W BY <1>7, <2>1
  <2>3. <<b, e>> \notin spoiled BY <1>9, <2>2
  <2> QED BY <1>1, <1>8, <2>1, <2>2, <2>3, UploadIsFaithful
<1> QED BY <1>10, <1>11, <1>12, <1>13, <1>14 DEF StagingInv

-----------------------------------------------------------------------------
LEMMA StagingStep ==
  TypeInv /\ TypeInv' /\ StagingInv /\ [Next]_vars => StagingInv'
<1> SUFFICES ASSUME TypeInv, TypeInv', StagingInv, [Next]_vars PROVE StagingInv'
  OBVIOUS
<1>1. CASE UNCHANGED vars
  <2>1. /\ started' = started /\ shadow' = shadow /\ ppu' = ppu /\ promised' = promised
        /\ dirty' = dirty /\ spoiled' = spoiled /\ script' = script /\ at' = at
    BY <1>1 DEF vars
  <2>2. Staging' = Staging BY <2>1 DEF Staging
  <2> QED BY <2>1, <2>2
          DEF StagingInv, ShadowHolds, PublishedIsPromised, Published, Performed,
              DirtyIsPromised, NothingSpoiledBeforeRun, OnlySpoiledUpdatesAreLost,
              Faithful
<1>2. CASE Step
  <2>1. script # <<>> BY <1>2 DEF Step
  <2>2. script[at].op \in {"withdraw", "publish", "store"} BY <2>1, StepKinds
  <2> QED BY <1>2, <2>2, WithdrawStep, PublishStep, StoreStep
<1> QED BY <1>1, <1>2, BeginStep, DirectStep, RunStep, NmiAloneStep, CallbackStep
        DEF Next, Call, Nmi

LEMMA StagingInvariance == Spec => []StagingInv
<1>1. Init => StagingInv
  <2> SUFFICES ASSUME Init PROVE StagingInv OBVIOUS
  <2>1. /\ started = FALSE /\ shadow = Filled(0) /\ ppu = Filled(PowerOn)
        /\ promised = Filled(PowerOn) /\ dirty = [b \in Banks |-> FALSE]
        /\ script = <<>> /\ at = 1 /\ spoiled = {}
    BY DEF Init
  <2>2. Performed = {} BY <2>1 DEF Performed
  <2>3. \A b \in Banks : \A e \in EntriesOf(b) :
          /\ shadow[b][e] = 0 /\ promised[b][e] = PowerOn /\ ppu[b][e] = PowerOn
          /\ Cleared(promised[b])[e] = 0
    BY <2>1 DEF Filled, Cleared
  <2>4. ShadowHolds BY <2>2, <2>3 DEF ShadowHolds
  <2>5. PublishedIsPromised BY <2>2 DEF PublishedIsPromised
  <2>6. DirtyIsPromised BY <2>1 DEF DirtyIsPromised
  <2>7. NothingSpoiledBeforeRun BY <2>1 DEF NothingSpoiledBeforeRun
  <2>8. OnlySpoiledUpdatesAreLost BY <2>3 DEF OnlySpoiledUpdatesAreLost, Faithful
  <2> QED BY <2>4, <2>5, <2>6, <2>7, <2>8 DEF StagingInv
<1> QED BY <1>1, StagingStep, TypeInvariance, PTL DEF Spec

-----------------------------------------------------------------------------
(***************************************************************************)
(* Uploads in the middle of a call.  A call withdraws a bank before it     *)
(* stages anything there, so a flag set meanwhile is the callback's.       *)
(***************************************************************************)
DirtyIsOvertaken == \A b \in Banks : b \in Staging /\ dirty[b] => b \in overtaken

LEMMA NothingStaged == ASSUME TypeInv, script = <<>>, NEW b \in Banks PROVE b \notin Staging
<1>1. at - 1 = 0 BY EmptyScript DEF TypeInv
<1> QED BY <1>1 DEF Staging

LEMMA OvertakenByStep ==
  ASSUME TypeInv, TypeInv', DirtyIsOvertaken, Step
  PROVE  DirtyIsOvertaken'
<1> DEFINE s == script[at]
<1>1. /\ script # <<>> /\ Perform(s) /\ s.bank \in Banks
      /\ s.op \in {"withdraw", "publish", "store"}
      /\ s.op = "withdraw" <=> s = Withdraw(s.bank)
      /\ s.op = "publish" <=> s = Publish(s.bank)
      /\ \/ script' = script /\ Performed' = Performed \union {at}
         \/ Performed' = {}
  BY StepFacts, StepKinds
<1> HIDE DEF s
<1>2. /\ dirty' = IF s.op = "store" THEN dirty
                  ELSE [dirty EXCEPT ![s.bank] = (s.op = "publish")]
      /\ overtaken' = IF s.op = "store" THEN overtaken ELSE overtaken \ {s.bank}
      /\ dirty \in [Banks -> BOOLEAN]
  BY <1>1 DEF Perform, TypeInv
<1> SUFFICES ASSUME NEW b \in Banks, b \in Staging', dirty'[b]
             PROVE  b \in overtaken'
  BY DEF DirtyIsOvertaken
<1>3. Withdrawn(b)' /\ ~Published(b)' BY StagingMeaningPrime
<1>4. script' = script /\ Performed' = Performed \union {at}
  BY <1>1, <1>3 DEF Withdrawn
<1>5. ~Published(b) /\ s # Publish(b) BY <1>3, <1>4 DEF Published, s
<1>6. s # Withdraw(b)
  <2> SUFFICES ASSUME s = Withdraw(b) PROVE FALSE OBVIOUS
  <2>1. s.op = "withdraw" /\ s.bank = b BY DEF Withdraw
  <2> QED BY <1>2, <2>1
<1>7. Withdrawn(b) BY <1>3, <1>4, <1>6 DEF Withdrawn, s
<1>8. b \in Staging BY <1>5, <1>7, StagingMeaning DEF StagingIsUnpublished
<1>9. s.op = "store" \/ s.bank # b BY <1>1, <1>5, <1>6
<1> QED BY <1>2, <1>8, <1>9 DEF DirtyIsOvertaken

LEMMA OvertakenInvariance == Spec => []DirtyIsOvertaken
<1>1. Init => DirtyIsOvertaken BY DEF Init, DirtyIsOvertaken
<1>2. TypeInv /\ TypeInv' /\ DirtyIsOvertaken /\ [Next]_vars => DirtyIsOvertaken'
  <2> SUFFICES ASSUME TypeInv, TypeInv', DirtyIsOvertaken, [Next]_vars
               PROVE  DirtyIsOvertaken'
    OBVIOUS
  <2>1. CASE UNCHANGED vars BY <2>1 DEF vars, DirtyIsOvertaken, Staging
  <2>2. CASE Step BY <2>2, OvertakenByStep
  <2>3. ASSUME NEW call \in QueuedCalls, Begin(call) PROVE DirtyIsOvertaken'
    <3>1. Performed' = {} BY <2>3 DEF Begin, Performed
    <3>2. \A b \in Banks : ~(b \in Staging')
      BY <3>1, StagingMeaningPrime DEF Withdrawn
    <3> QED BY <3>2 DEF DirtyIsOvertaken
  <2>4. ASSUME \/ Run
               \/ \E call \in QueuedCalls : WriteDirectly(call)
        PROVE  DirtyIsOvertaken'
    <3>1. script = <<>> /\ script' = script /\ at' = at
      BY <2>4 DEF Run, WriteDirectly
    <3>2. \A b \in Banks : b \notin Staging BY <3>1, NothingStaged
    <3>3. Staging' = Staging BY <3>1 DEF Staging
    <3> QED BY <3>2, <3>3 DEF DirtyIsOvertaken
  <2>5. CASE NmiAlone BY <2>5 DEF NmiAlone, DirtyIsOvertaken
  <2>6. ASSUME NEW call \in QueuedCalls, NmiWithCallback(call)
        PROVE  DirtyIsOvertaken'
    <3>1. /\ Staging' = Staging
          /\ \A b \in Banks : dirty'[b] => b \in BanksOf(call)
          /\ overtaken' = BanksOf(call) \intersect Staging
      BY <2>6 DEF NmiWithCallback, Staging
    <3> QED BY <3>1 DEF DirtyIsOvertaken
  <2> QED BY <2>1, <2>2, <2>3, <2>4, <2>5, <2>6 DEF Next, Call, Nmi
<1> QED BY <1>1, <1>2, TypeInvariance, PTL DEF Spec

\* A published bank that is being staged has in the shadow what the call has
\* stored so far, over what the bank was promised.
LEMMA DirtyShadowIsPartOfCall ==
  ASSUME TypeInv, StagingInv, NEW b \in Banks, dirty[b]
  PROVE  PartOfCall(shadow, b)
<1> SUFFICES ASSUME NEW e \in EntriesOf(b), <<b, e>> \notin spoiled
             PROVE  shadow[b][e] = OverlayFirst(at - 1, promised[b], script, b)[e]
  BY DEF PartOfCall
<1> DEFINE hits == {i \in 1 .. at - 1 : script[i].op = "store" /\ script[i].bank = b
                                         /\ script[i].entry = e}
<1>1. OverlayFirst(at - 1, promised[b], script, b)[e]
        = IF hits = {} THEN promised[b][e]
          ELSE script[CHOOSE i \in hits : TRUE].color
  BY DEF OverlayFirst
<1>2. CASE hits = {}
  <2>1. \A i \in Performed : ~Touches(script[i], b, e)
    BY <1>2 DEF Performed, Touches
  <2>2. shadow[b][e] = Cleared(promised[b])[e]
    BY <2>1 DEF StagingInv, ShadowHolds
  <2>3. promised[b][e] # PowerOn BY DEF StagingInv, DirtyIsPromised
  <2> QED BY <1>1, <1>2, <2>2, <2>3, ClearedFacts DEF TypeInv
<1>3. CASE hits # {}
  <2> DEFINE hit == CHOOSE i \in hits : TRUE
  <2>1. hit \in hits BY <1>3
  <2>2. OverlayFirst(at - 1, promised[b], script, b)[e] = script[hit].color
    BY <1>1, <1>3
  <2> HIDE DEF hit
  <2>3. hit \in Performed /\ Touches(script[hit], b, e)
    BY <2>1 DEF Performed, Touches
  <2> QED BY <2>2, <2>3 DEF StagingInv, ShadowHolds
<1> QED BY <1>2, <1>3

(***************************************************************************)
(* A bank that is neither staged nor published shows its latest complete   *)
(* update, except for entries that the callback or nes.run stored over     *)
(* (the dirty flags of the palette routines and the NMI uploader).         *)
(***************************************************************************)
THEOREM PaletteUpdatesAreKept == Spec => []OnlySpoiledUpdatesAreLost
<1>1. StagingInv => OnlySpoiledUpdatesAreLost BY DEF StagingInv
<1> QED BY <1>1, StagingInvariance, PTL

(***************************************************************************)
(* Wherever NMI interrupts the main thread, a bank it changes shows a      *)
(* whole update, except for spoiled entries; and if the main thread is     *)
(* staging that bank, the callback of the previous NMI has published it,   *)
(* and it shows the stores of the call so far over what the callback       *)
(* promised (runtime_upload_queued_palettes).                              *)
(***************************************************************************)
THEOREM PaletteUploadsAreWhole == Spec => UnspoiledUploadsAreWhole
<1> DEFINE Whole == Nmi => \A b \in Banks : ppu'[b] # ppu[b] =>
                      IF b \in Staging THEN b \in overtaken /\ PartOfCall(ppu', b)
                      ELSE Faithful(ppu', b)
<1>1. TypeInv /\ StagingInv /\ DirtyIsOvertaken /\ [Next]_vars => [Whole]_vars
  <2> SUFFICES ASSUME TypeInv, StagingInv, DirtyIsOvertaken, Nmi,
                      NEW b \in Banks, ppu'[b] # ppu[b]
               PROVE  IF b \in Staging THEN b \in overtaken /\ PartOfCall(ppu', b)
                      ELSE Faithful(ppu', b)
    OBVIOUS
  <2>1. Upload BY DEF Nmi, NmiAlone, NmiWithCallback
  <2>2. dirty[b] /\ ppu'[b] = shadow[b] BY <2>1 DEF Upload
  <2>3. CASE b \in Staging
    <3>1. b \in overtaken BY <2>2, <2>3 DEF DirtyIsOvertaken
    <3>2. PartOfCall(shadow, b) BY <2>2, DirtyShadowIsPartOfCall
    <3> QED BY <2>2, <2>3, <3>1, <3>2 DEF PartOfCall
  <2>4. CASE b \notin Staging BY <2>1, <2>4, UploadIsFaithful DEF Faithful
  <2> QED BY <2>3, <2>4
<1> QED BY <1>1, TypeInvariance, StagingInvariance, OvertakenInvariance, PTL
        DEF Spec, UnspoiledUploadsAreWhole

=============================================================================
