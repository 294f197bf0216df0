------------------------- MODULE RuntimeQueriesProofs -------------------------
(***************************************************************************)
(* Proofs that the eight-bit routines of the runtime are exact: for every  *)
(* pair of coordinates, every box, every range and every generator state,  *)
(* not only for those a run asks about.                                    *)
(***************************************************************************)
EXTENDS RuntimeQueries, FiniteSetTheorems, FunctionTheorems, TLAPS

-----------------------------------------------------------------------------
(***************************************************************************)
(* Division.                                                               *)
(***************************************************************************)

LEMMA Quotient ==
  ASSUME NEW n \in Int, NEW s \in Nat \ {0}
  PROVE  /\ n = s * (n \div s) + (n % s)
         /\ n % s \in 0 .. s - 1
         /\ n \div s \in Int
OBVIOUS

LEMMA Remainder ==
  ASSUME NEW s \in Nat \ {0}, NEW k \in Int, NEW d \in 0 .. s - 1
  PROVE  (s * k + d) % s = d /\ (s * k + d) \div s = k
OBVIOUS

\* Adding a multiple of 256 keeps the low byte.
LEMMA LowByte ==
  ASSUME NEW n \in Int, NEW m \in Int
  PROVE  (n + 256 * m) % 256 = n % 256
<1> DEFINE q == n \div 256
           r == n % 256
<1>1. n = 256 * q + r /\ r \in 0 .. 256 - 1 /\ q \in Int BY Quotient
<1>2. n + 256 * m = 256 * (q + m) + r BY <1>1
<1>3. (256 * (q + m) + r) % 256 = r
  <2> HIDE DEF q, r
  <2> QED BY <1>1, Remainder
<1> QED BY <1>2, <1>3

-----------------------------------------------------------------------------
(***************************************************************************)
(* The generator.                                                          *)
(***************************************************************************)

LEMMA ActiveFacts ==
  \A n : n \in ActiveStates <=> n \in Int /\ n >= 1 /\ n <= 65535
<1>1. LargestState \in Int /\ LargestState >= 65535 /\ LargestState <= 65535
  BY DEF LargestState
<1> QED BY <1>1 DEF ActiveStates

\* Toggling one of the upper six bits of a word keeps it a word, moves it by
\* the weight of the bit and keeps the low byte.
ToggledWord(n, bit) ==
  LET t == Toggle(n, bit)
  IN t \in Int /\ t >= 0 /\ t <= 65535 /\ t >= n - bit /\ t % 256 = n % 256

LEMMA ToggleWord ==
  ASSUME NEW n \in Int, n >= 0, n <= 65535
  PROVE  ToggledWord(n, 8192) /\ ToggledWord(n, 4096) /\ ToggledWord(n, 1024)
<1>1. ToggledWord(n, 8192)
  <2>1. (n + 256 * 32) % 256 = n % 256 /\ (n + 256 * (-32)) % 256 = n % 256
    BY LowByte
  <2>2. (n \div 8192) % 2 = 1 => n >= 8192 OBVIOUS
  <2>3. (n \div 8192) % 2 # 1 => n <= 65535 - 8192 OBVIOUS
  <2> QED BY <2>1, <2>2, <2>3 DEF ToggledWord, Toggle
<1>2. ToggledWord(n, 4096)
  <2>1. (n + 256 * 16) % 256 = n % 256 /\ (n + 256 * (-16)) % 256 = n % 256
    BY LowByte
  <2>2. (n \div 4096) % 2 = 1 => n >= 4096 OBVIOUS
  <2>3. (n \div 4096) % 2 # 1 => n <= 65535 - 4096 OBVIOUS
  <2> QED BY <2>1, <2>2, <2>3 DEF ToggledWord, Toggle
<1>3. ToggledWord(n, 1024)
  <2>1. (n + 256 * 4) % 256 = n % 256 /\ (n + 256 * (-4)) % 256 = n % 256
    BY LowByte
  <2>2. (n \div 1024) % 2 = 1 => n >= 1024 OBVIOUS
  <2>3. (n \div 1024) % 2 # 1 => n <= 65535 - 1024 OBVIOUS
  <2> QED BY <2>1, <2>2, <2>3 DEF ToggledWord, Toggle
<1> QED BY <1>1, <1>2, <1>3

\* Applying the mask to a shifted state sets bit 15 and keeps the low byte.
LEMMA MaskedWord ==
  ASSUME NEW n \in Int, n >= 0, n <= 32767
  PROVE  /\ Masked(n) \in ActiveStates
         /\ Masked(n) % 256 = n % 256
<1> DEFINE a == Toggle(n, 32768)
           b == Toggle(a, 8192)
           c == Toggle(b, 4096)
           d == Toggle(c, 1024)
<1>1. a = n + 32768
  <2>1. n \div 32768 = 0 OBVIOUS
  <2> QED BY <2>1 DEF Toggle
<1>2. a % 256 = n % 256
  <2>1. (n + 256 * 128) % 256 = n % 256 BY LowByte
  <2> QED BY <1>1, <2>1
<1>3. Masked(n) = d BY DEF Masked
<1>4. a \in Int /\ a >= 32768 /\ a <= 65535 BY <1>1
<1> HIDE DEF a
<1>5. ToggledWord(a, 8192) BY <1>4, ToggleWord
<1>6. b \in Int /\ b >= a - 8192 /\ b >= 0 /\ b <= 65535
  BY <1>5 DEF ToggledWord
<1>7. b % 256 = a % 256 BY <1>5 DEF ToggledWord
<1> HIDE DEF b
<1>8. ToggledWord(b, 4096) BY <1>6, ToggleWord
<1>9. c \in Int /\ c >= b - 4096 /\ c >= 0 /\ c <= 65535
  BY <1>8 DEF ToggledWord
<1>10. c % 256 = b % 256 BY <1>8 DEF ToggledWord
<1> HIDE DEF c
<1>11. ToggledWord(c, 1024) BY <1>9, ToggleWord
<1>12. d \in Int /\ d >= c - 1024 /\ d <= 65535
  BY <1>11 DEF ToggledWord
<1>13. d % 256 = c % 256 BY <1>11 DEF ToggledWord
<1> HIDE DEF d
<1>14. d >= 1 BY <1>4, <1>6, <1>9, <1>12
<1>15. d \in ActiveStates BY <1>12, <1>14, ActiveFacts
<1>16. d % 256 = n % 256 BY <1>2, <1>7, <1>10, <1>13
<1> QED BY <1>3, <1>15, <1>16

LEMMA StepFacts ==
  ASSUME NEW s \in ActiveStates
  PROVE  /\ Step(s) \in ActiveStates
         /\ OutputByte(Step(s)) = (s \div 2) % 256
         /\ s % 2 = 0 => Step(s) = s \div 2
<1>1. s \in Int /\ s >= 1 /\ s <= 65535 BY ActiveFacts
<1>2. s \div 2 \in Int /\ s \div 2 >= 0 /\ s \div 2 <= 32767 BY <1>1
<1>3. CASE s % 2 = 1
  <2>1. Step(s) = Masked(s \div 2) BY <1>3 DEF Step
  <2>2. Masked(s \div 2) \in ActiveStates
        /\ Masked(s \div 2) % 256 = (s \div 2) % 256
    BY <1>2, MaskedWord
  <2> QED BY <1>3, <2>1, <2>2 DEF OutputByte
<1>4. CASE s % 2 = 0
  <2>1. Step(s) = s \div 2 BY <1>4 DEF Step
  <2>2. s \div 2 >= 1 BY <1>1, <1>4
  <2>3. s \div 2 \in ActiveStates BY <1>2, <2>2, ActiveFacts
  <2> QED BY <2>1, <2>3 DEF OutputByte
<1>5. s % 2 \in {0, 1} BY <1>1
<1> QED BY <1>3, <1>4, <1>5

\* A draw below 128 shifts a zero into the low byte.
LEMMA LowDraw ==
  ASSUME NEW s \in ActiveStates, ~AcceptsIn1(Step(s))
  PROVE  /\ Step(s) \in ActiveStates
         /\ OutputByte(Step(s)) = OutputByte(s) \div 2
         /\ s % 2 = 0 => Step(s) = s \div 2
<1>1. s \in Int /\ s >= 1 /\ s <= 65535 BY ActiveFacts
<1>2. (s \div 2) % 256 < 128 => (s \div 2) % 256 = (s % 256) \div 2
  <2> DEFINE h == s \div 256
             l == s % 256
  <2>1. s = 256 * h + l /\ l \in 0 .. 256 - 1 /\ h \in Int BY <1>1, Quotient
  <2> DEFINE g == h \div 2
             e == h % 2
             k == l \div 2
  <2>2. h = 2 * g + e /\ e \in 0 .. 1 /\ g \in Int
    <3> HIDE DEF h
    <3> QED BY <2>1
  <2>3. k \in 0 .. 127 /\ (l = 2 * k \/ l = 2 * k + 1) BY <2>1
  <2> HIDE DEF h, l, g, e, k
  <2>4. s \div 2 = 256 * g + (128 * e + k) BY <2>1, <2>2, <2>3
  <2>5. 128 * e + k \in 0 .. 256 - 1 BY <2>2, <2>3
  <2>6. (256 * g + (128 * e + k)) % 256 = 128 * e + k
    <3> DEFINE d == 128 * e + k
    <3>1. d \in 0 .. 256 - 1 BY <2>5
    <3> HIDE DEF d
    <3>2. (256 * g + d) % 256 = d BY <2>2, <3>1, Remainder
    <3> QED BY <3>2 DEF d
  <2>7. 128 * e + k < 128 => 128 * e + k = k BY <2>2, <2>3
  <2> QED BY <2>4, <2>6, <2>7 DEF k, l
<1>3. (s \div 2) % 256 \in Int BY <1>1
<1> QED BY <1>2, <1>3, StepFacts DEF AcceptsIn1, OutputByte

\* Two, four and eight low draws in a row halve the low byte as often and,
\* while it is even, the state.
LEMMA TwoLowDraws ==
  ASSUME NEW s \in ActiveStates,
         ~AcceptsIn1(Step(s)), ~AcceptsIn1(Step(Step(s)))
  PROVE  /\ Step(Step(s)) \in ActiveStates
         /\ OutputByte(Step(Step(s))) = OutputByte(s) \div 4
         /\ OutputByte(s) = 0 => Step(Step(s)) = s \div 4
<1> DEFINE t == Step(s)
           u == Step(t)
<1>1. /\ t \in ActiveStates
      /\ OutputByte(t) = OutputByte(s) \div 2
      /\ s % 2 = 0 => t = s \div 2
  BY LowDraw
<1>2. /\ u \in ActiveStates
      /\ OutputByte(u) = OutputByte(t) \div 2
      /\ t % 2 = 0 => u = t \div 2
  BY <1>1, LowDraw
<1>3. s \in Int /\ t \in Int BY <1>1, ActiveFacts
<1> HIDE DEF t, u
<1>4. OutputByte(s) \in Int BY <1>3 DEF OutputByte
<1>5. OutputByte(u) = OutputByte(s) \div 4 BY <1>1, <1>2, <1>4
<1>6. OutputByte(s) = 0 => s % 2 = 0 BY <1>3 DEF OutputByte
<1>7. OutputByte(t) = 0 => t % 2 = 0 BY <1>3 DEF OutputByte
<1>8. OutputByte(s) = 0 => OutputByte(t) = 0 BY <1>1
<1>9. OutputByte(s) = 0 => t = s \div 2 /\ u = t \div 2
  BY <1>1, <1>2, <1>6, <1>7, <1>8
<1>10. (s \div 2) \div 2 = s \div 4 BY <1>3
<1> QED BY <1>2, <1>5, <1>9, <1>10 DEF u, t

LEMMA FourLowDraws ==
  ASSUME NEW s \in ActiveStates, ~AcceptsIn4(Step(s))
  PROVE  /\ Step4(s) \in ActiveStates
         /\ OutputByte(Step4(s)) = OutputByte(s) \div 16
         /\ OutputByte(s) = 0 => Step4(s) = s \div 16
<1> DEFINE t == Step(Step(s))
           u == Step(Step(t))
<1>1. /\ ~AcceptsIn1(Step(s)) /\ ~AcceptsIn1(Step(Step(s)))
      /\ ~AcceptsIn1(Step(t)) /\ ~AcceptsIn1(Step(Step(t)))
      /\ Step4(s) = u
  BY DEF AcceptsIn4, AcceptsIn2, Step4, Step2
<1>2. /\ t \in ActiveStates
      /\ OutputByte(t) = OutputByte(s) \div 4
      /\ OutputByte(s) = 0 => t = s \div 4
  BY <1>1, TwoLowDraws
<1> HIDE DEF t
<1>3. /\ u \in ActiveStates
      /\ OutputByte(u) = OutputByte(t) \div 4
      /\ OutputByte(t) = 0 => u = t \div 4
  BY <1>1, <1>2, TwoLowDraws
<1> HIDE DEF u
<1>4. s \in Int /\ t \in Int BY <1>2, ActiveFacts
<1>5. OutputByte(s) \in Int BY <1>4 DEF OutputByte
<1>6. (OutputByte(s) \div 4) \div 4 = OutputByte(s) \div 16 BY <1>5
<1>7. (s \div 4) \div 4 = s \div 16 BY <1>4
<1>8. OutputByte(s) = 0 => OutputByte(t) = 0 BY <1>2
<1> QED BY <1>1, <1>2, <1>3, <1>6, <1>7, <1>8

LEMMA EightLowDraws ==
  ASSUME NEW s \in ActiveStates, ~AcceptsIn8(Step(s))
  PROVE  /\ Step8(s) \in ActiveStates
         /\ OutputByte(Step8(s)) = OutputByte(s) \div 256
         /\ OutputByte(s) = 0 => Step8(s) = s \div 256
<1> DEFINE t == Step4(s)
           u == Step4(t)
<1>1. ~AcceptsIn4(Step(s)) /\ ~AcceptsIn4(Step(t)) /\ Step8(s) = u
  BY DEF AcceptsIn8, Step8, Step4, Step2
<1>2. /\ t \in ActiveStates
      /\ OutputByte(t) = OutputByte(s) \div 16
      /\ OutputByte(s) = 0 => t = s \div 16
  BY <1>1, FourLowDraws
<1> HIDE DEF t
<1>3. /\ u \in ActiveStates
      /\ OutputByte(u) = OutputByte(t) \div 16
      /\ OutputByte(t) = 0 => u = t \div 16
  BY <1>1, <1>2, FourLowDraws
<1> HIDE DEF u
<1>4. s \in Int /\ t \in Int BY <1>2, ActiveFacts
<1>5. OutputByte(s) \in Int BY <1>4 DEF OutputByte
<1>6. (OutputByte(s) \div 16) \div 16 = OutputByte(s) \div 256 BY <1>5
<1>7. (s \div 16) \div 16 = s \div 256 BY <1>4
<1>8. OutputByte(s) = 0 => OutputByte(t) = 0 BY <1>2
<1> QED BY <1>1, <1>2, <1>3, <1>6, <1>7, <1>8

\* Sixteen draws in a row contain one that every request accepts: seven low
\* draws would empty the low byte, and eight more shift the whole state out.
LEMMA SixteenDraws ==
  ASSUME NEW s \in ActiveStates
  PROVE  AcceptsIn16(s)
<1> SUFFICES ASSUME ~AcceptsIn16(s) PROVE FALSE OBVIOUS
<1> DEFINE t == Step4(s)
           u == Step(Step(t))
           v == Step(u)
           w == Step8(v)
<1>1. /\ ~AcceptsIn1(s) /\ ~AcceptsIn4(Step(s))
      /\ ~AcceptsIn1(Step(t)) /\ ~AcceptsIn1(Step(Step(t)))
      /\ ~AcceptsIn1(Step(u)) /\ ~AcceptsIn8(Step(v))
  BY DEF AcceptsIn16, AcceptsIn8, AcceptsIn4, AcceptsIn2, Step8, Step4, Step2
<1>2. t \in ActiveStates /\ OutputByte(t) = OutputByte(s) \div 16
  BY <1>1, FourLowDraws
<1> HIDE DEF t
<1>3. u \in ActiveStates /\ OutputByte(u) = OutputByte(t) \div 4
  BY <1>1, <1>2, TwoLowDraws
<1> HIDE DEF u
<1>4. v \in ActiveStates /\ OutputByte(v) = OutputByte(u) \div 2
  BY <1>1, <1>3, LowDraw
<1> HIDE DEF v
<1>5. s \in Int /\ v \in Int /\ v >= 1 /\ v <= 65535 BY <1>4, ActiveFacts
<1>6. OutputByte(s) \in Int /\ OutputByte(s) >= 0 BY <1>5 DEF OutputByte
<1>7. OutputByte(s) < 128 BY <1>1, <1>6 DEF AcceptsIn1
<1>8. OutputByte(v) = 0 BY <1>2, <1>3, <1>4, <1>6, <1>7
<1>9. /\ w \in ActiveStates
      /\ OutputByte(w) = OutputByte(v) \div 256
      /\ w = v \div 256
  BY <1>1, <1>4, <1>8, EightLowDraws
<1> HIDE DEF w
<1>10. OutputByte(w) = 0 BY <1>8, <1>9
<1>11. w \in Int /\ w >= 1 /\ w <= 255 BY <1>5, <1>9, ActiveFacts
<1> QED BY <1>10, <1>11 DEF OutputByte

LEMMA ByteFacts == \A b : b \in Bytes <=> b \in Int /\ b >= 0 /\ b <= 255
BY DEF Bytes

\* Every seed gives a state the generator runs on.
LEMMA SeedFacts ==
  ASSUME NEW seed \in Bytes
  PROVE  SeedState(seed) \in ActiveStates
<1>1. seed \in Int /\ seed >= 0 /\ seed <= 255 BY ByteFacts
<1>2. /\ SeedState(seed) \in Int
      /\ SeedState(seed) >= 1
      /\ SeedState(seed) <= 65535
  BY <1>1 DEF SeedState
<1> QED BY <1>2, ActiveFacts

ByteOfParity(b, parity) ==
  b \in Int /\ b >= 0 /\ b <= 255 /\ b % 2 = parity

\* Toggling a bit of a byte gives a byte; only bit 0 changes its parity.
LEMMA ToggleByte ==
  ASSUME NEW b, NEW parity, ByteOfParity(b, parity)
  PROVE  /\ ByteOfParity(Toggle(b, 1), 1 - parity)
         /\ \A bit \in {4, 8, 32, 64, 128} : ByteOfParity(Toggle(b, bit), parity)
<1>1. b \in Int /\ b >= 0 /\ b <= 255 /\ b % 2 = parity BY DEF ByteOfParity
<1>2. ByteOfParity(Toggle(b, 1), 1 - parity) BY <1>1 DEF Toggle, ByteOfParity
<1>3. ByteOfParity(Toggle(b, 4), parity) BY <1>1 DEF Toggle, ByteOfParity
<1>4. ByteOfParity(Toggle(b, 8), parity) BY <1>1 DEF Toggle, ByteOfParity
<1>5. ByteOfParity(Toggle(b, 32), parity) BY <1>1 DEF Toggle, ByteOfParity
<1>6. ByteOfParity(Toggle(b, 64), parity) BY <1>1 DEF Toggle, ByteOfParity
<1>7. ByteOfParity(Toggle(b, 128), parity) BY <1>1 DEF Toggle, ByteOfParity
<1> QED BY <1>2, <1>3, <1>4, <1>5, <1>6, <1>7

\* Automatic seeding: the two masks differ in bit 0, so one byte is odd.
LEMMA AutomaticFacts ==
  ASSUME NEW mixed \in Bytes
  PROVE  AutomaticState(mixed) \in ActiveStates
<1>1. ByteOfParity(mixed, mixed % 2) BY ByteFacts DEF ByteOfParity
<1>2. ByteOfParity(EorAC(mixed), mixed % 2) BY <1>1, ToggleByte DEF EorAC
<1>3. ByteOfParity(EorE1(mixed), 1 - (mixed % 2)) BY <1>1, ToggleByte DEF EorE1
<1> DEFINE e == EorAC(mixed)
           f == EorE1(mixed)
<1>4. ~(e = 0 /\ f = 0) BY <1>2, <1>3 DEF ByteOfParity
<1>5. AutomaticState(mixed) = e * 256 + f BY DEF AutomaticState
<1> HIDE DEF e, f
<1>6. e \in Int /\ e >= 0 /\ e <= 255 /\ f \in Int /\ f >= 0 /\ f <= 255
  BY <1>2, <1>3 DEF ByteOfParity, e, f
<1>7. e * 256 + f \in Int /\ e * 256 + f >= 1 /\ e * 256 + f <= 65535
  BY <1>4, <1>6
<1> QED BY <1>5, <1>7, ActiveFacts

-----------------------------------------------------------------------------
(***************************************************************************)
(* Every routine answers its own query once, and changes nothing else.     *)
(***************************************************************************)

LEMMA Handlers ==
  ASSUME RuntimeNext
  PROVE  /\ answer = Unanswered
         /\ kind' = kind /\ query' = query
         /\ kind = "tile" => SetTile
         /\ kind = "attribute" => SetAttribute
         /\ kind = "componentX" => RenderX
         /\ kind = "componentY" => RenderY
         /\ kind = "point" => TestPoint
         /\ kind = "boxes" => TestBoxes
         /\ kind = "spriteBounds" => FindSpriteBounds
         /\ kind = "frameBounds" => FindFrameBounds
         /\ kind = "map" => TestMap
         /\ kind = "range" => DrawRange
         /\ kind = "step" => DrawByte
         /\ kind = "seed" => Seed
<1>1. /\ SetTile => kind = "tile"
      /\ SetAttribute => kind = "attribute"
      /\ RenderX => kind = "componentX"
      /\ RenderY => kind = "componentY"
      /\ TestPoint => kind = "point"
      /\ TestBoxes => kind = "boxes"
      /\ FindSpriteBounds => kind = "spriteBounds"
      /\ FindFrameBounds => kind = "frameBounds"
      /\ TestMap => kind = "map"
      /\ DrawRange => kind = "range"
      /\ DrawByte => kind = "step"
      /\ Seed => kind = "seed"
  BY DEF Answers, SetTile, SetAttribute, RenderX, RenderY, TestPoint,
         TestBoxes, FindSpriteBounds, FindFrameBounds, TestMap, DrawRange,
         DrawByte, Seed
<1>2. answer = Unanswered /\ kind' = kind /\ query' = query
  BY DEF RuntimeNext, Answers, SetTile, SetAttribute, RenderX, RenderY,
         TestPoint, TestBoxes, FindSpriteBounds, FindFrameBounds, TestMap,
         DrawRange, DrawByte, Seed
<1> QED BY <1>1, <1>2 DEF RuntimeNext

\* The arguments of a call do not change.
LEMMA QueryInvariance ==
  ASSUME RuntimeQuery, [RuntimeNext]_vars
  PROVE  RuntimeQuery' /\ kind' = kind /\ query' = query
<1>1. kind' = kind /\ query' = query
  <2>1. CASE RuntimeNext BY <2>1, Handlers
  <2>2. CASE UNCHANGED vars BY <2>2 DEF vars
  <2> QED BY <2>1, <2>2
<1> QED BY <1>1 DEF RuntimeQuery

\* Nothing is claimed before the answer.
LEMMA BeforeTheAnswer ==
  ASSUME RuntimeInit
  PROVE  RuntimeQuery /\ \A k : ~Answered(k)
BY DEF RuntimeInit, Answered

(***************************************************************************)
(* The generator runs on from every seed, and a rejection loop ends.       *)
(***************************************************************************)
THEOREM RejectionEnds == RuntimeSpec => []GeneratorNeverSticks
<1>1. RuntimeInit => RuntimeQuery /\ GeneratorNeverSticks
  BY BeforeTheAnswer DEF GeneratorNeverSticks
<1>2. RuntimeQuery /\ GeneratorNeverSticks /\ [RuntimeNext]_vars
        => (RuntimeQuery /\ GeneratorNeverSticks)'
  <2> SUFFICES ASSUME RuntimeQuery, GeneratorNeverSticks, [RuntimeNext]_vars
               PROVE  RuntimeQuery' /\ GeneratorNeverSticks'
    OBVIOUS
  <2>1. RuntimeQuery' /\ kind' = kind /\ query' = query BY QueryInvariance
  <2>2. CASE UNCHANGED vars
    BY <2>1, <2>2 DEF vars, GeneratorNeverSticks, Answered, Result
  <2>3. CASE RuntimeNext
    <3>1. CASE kind = "seed"
      <4>1. query \in Bytes BY <3>1 DEF RuntimeQuery
      <4>2. answer' = <<<<SeedState(query), AutomaticState(query)>>>>
        BY <2>3, <3>1, Handlers DEF Seed, Answers
      <4>3. Result'[1] = SeedState(query) /\ Result'[2] = AutomaticState(query)
        BY <4>2 DEF Result
      <4>4. ~Answered("step")' BY <2>1, <3>1 DEF Answered
      <4> QED BY <2>1, <4>1, <4>3, <4>4, SeedFacts, AutomaticFacts
               DEF GeneratorNeverSticks
    <3>2. CASE kind = "step"
      <4>1. query \in ActiveStates BY <3>2 DEF RuntimeQuery
      <4>2. answer' = <<Step(query)>>
        BY <2>3, <3>2, Handlers DEF DrawByte, Answers
      <4>3. Result' = Step(query) BY <4>2 DEF Result
      <4>4. Step(query) \in ActiveStates BY <4>1, StepFacts
      <4>5. ~Answered("seed")' BY <2>1, <3>2 DEF Answered
      <4>6. AcceptsIn16(Result)'
        BY <4>3, <4>4, SixteenDraws
      <4> QED BY <2>1, <4>3, <4>4, <4>5, <4>6 DEF GeneratorNeverSticks
    <3>3. CASE kind # "seed" /\ kind # "step"
      BY <2>1, <3>3 DEF GeneratorNeverSticks, Answered
    <3> QED BY <3>1, <3>2, <3>3
  <2> QED BY <2>2, <2>3
<1> QED BY <1>1, <1>2, PTL DEF RuntimeSpec

-----------------------------------------------------------------------------
(***************************************************************************)
(* Background addresses.                                                   *)
(***************************************************************************)

LEMMA TileFacts ==
  ASSUME NEW x \in Int, x >= 0, NEW y \in Int, y >= 0, TileInRange(x, y)
  PROVE  /\ TileIndexPage(y) \in 0 .. 3
         /\ TileIndexLow(x, y) \in 0 .. 255
         /\ 256 * TileIndexPage(y) + TileIndexLow(x, y) = 32 * y + x
<1> DEFINE p == y \div 8
           d == y % 8
<1>1. x <= 31 /\ y <= 29 BY DEF TileInRange
<1>2. y = 8 * p + d /\ p \in 0 .. 3 /\ d \in 0 .. 7 BY <1>1
<1> HIDE DEF p, d
<1>3. d * 32 + x \in 0 .. 255 BY <1>1, <1>2
<1>4. (d * 32 + x) % 256 = d * 32 + x BY <1>3
<1>5. TileIndexPage(y) = p /\ TileIndexLow(x, y) = d * 32 + x
  BY <1>4 DEF TileIndexPage, TileIndexLow, p, d
<1> QED BY <1>2, <1>3, <1>5

LEMMA AttributeFacts ==
  ASSUME NEW x \in Int, x >= 0, NEW y \in Int, y >= 0, AttributeInRange(x, y)
  PROVE  AttributeAddress(x, y) = <<35, 8 * y + x + 192>>
<1>1. x <= 7 /\ y <= 7 BY DEF AttributeInRange
<1>2. (y * 8) % 256 = 8 * y BY <1>1
<1>3. (8 * y + x + 192) % 256 = 8 * y + x + 192 BY <1>1
<1> QED BY <1>2, <1>3 DEF AttributeAddress

\* The two queries about the background and what a step answers to them.
LEMMA BackgroundAnswers ==
  ASSUME RuntimeQuery, RuntimeNext
  PROVE  /\ kind' = kind /\ query' = query
         /\ kind \in {"tile", "attribute"} =>
              /\ query.x \in Int /\ query.x >= 0
              /\ query.y \in Int /\ query.y >= 0
         /\ kind = "tile" =>
              Result' = IF TileInRange(query.x, query.y)
                        THEN TileAddress(query.x, query.y) ELSE <<>>
         /\ kind = "attribute" =>
              Result' = IF AttributeInRange(query.x, query.y)
                        THEN AttributeAddress(query.x, query.y) ELSE <<>>
<1>1. kind \in {"tile", "attribute"} => query \in [x : Byte, y : Byte]
  BY DEF RuntimeQuery
<1>2. kind \in {"tile", "attribute"} => query.x \in Byte /\ query.y \in Byte
  BY <1>1
<1>3. kind = "tile" =>
        answer' = <<IF TileInRange(query.x, query.y)
                    THEN TileAddress(query.x, query.y) ELSE <<>>>>
  BY Handlers DEF SetTile, Answers
<1>4. kind = "attribute" =>
        answer' = <<IF AttributeInRange(query.x, query.y)
                    THEN AttributeAddress(query.x, query.y) ELSE <<>>>>
  BY Handlers DEF SetAttribute, Answers
<1>5. kind = "tile" =>
        Result' = IF TileInRange(query.x, query.y)
                  THEN TileAddress(query.x, query.y) ELSE <<>>
  BY <1>3 DEF Result
<1>6. kind = "attribute" =>
        Result' = IF AttributeInRange(query.x, query.y)
                  THEN AttributeAddress(query.x, query.y) ELSE <<>>
  BY <1>4 DEF Result
<1>7. \A b \in Byte : b \in Int /\ b >= 0 BY DEF Byte
<1>8. kind' = kind /\ query' = query BY Handlers
<1> QED BY <1>2, <1>5, <1>6, <1>7, <1>8

(***************************************************************************)
(* Every accepted coordinate reaches its own byte of the nametable, and    *)
(* every other pair of bytes reaches none.                                 *)
(***************************************************************************)
THEOREM AddressesAreExact == RuntimeSpec => []BackgroundCallsReachTheirAddress
<1>1. RuntimeInit => RuntimeQuery /\ BackgroundCallsReachTheirAddress
  BY BeforeTheAnswer DEF BackgroundCallsReachTheirAddress
<1>2. RuntimeQuery /\ BackgroundCallsReachTheirAddress /\ [RuntimeNext]_vars
        => (RuntimeQuery /\ BackgroundCallsReachTheirAddress)'
  <2> SUFFICES ASSUME RuntimeQuery, BackgroundCallsReachTheirAddress,
                      [RuntimeNext]_vars
               PROVE  RuntimeQuery' /\ BackgroundCallsReachTheirAddress'
    OBVIOUS
  <2>1. RuntimeQuery' /\ kind' = kind /\ query' = query BY QueryInvariance
  <2>2. CASE UNCHANGED vars
    BY <2>1, <2>2 DEF vars, BackgroundCallsReachTheirAddress, Answered, Result
  <2>3. CASE RuntimeNext
    <3>1. CASE kind = "tile"
      <4> DEFINE x == query.x
                 y == query.y
      <4>1. x \in Int /\ x >= 0 /\ y \in Int /\ y >= 0
        BY <2>3, <3>1, BackgroundAnswers
      <4>2. Result' = IF TileInRange(x, y) THEN TileAddress(x, y) ELSE <<>>
        BY <2>3, <3>1, BackgroundAnswers
      <4> HIDE DEF x, y
      <4>3. TileInRange(x, y) <=> x \in TileColumns /\ y \in TileRows
        BY <4>1 DEF TileInRange, TileColumns, TileRows
      <4>4. TileInRange(x, y) =>
              LinearAddress(TileAddress(x, y)) = 8192 + 32 * y + x
        <5> SUFFICES ASSUME TileInRange(x, y)
                     PROVE  LinearAddress(TileAddress(x, y)) = 8192 + 32 * y + x
          OBVIOUS
        <5>1. LinearAddress(TileAddress(x, y)) =
                (TileIndexPage(y) + 32) * 256 + TileIndexLow(x, y)
          BY DEF LinearAddress, TileAddress
        <5> DEFINE p == TileIndexPage(y)
                   low == TileIndexLow(x, y)
        <5>2. p \in 0 .. 3 /\ low \in 0 .. 255 /\ 256 * p + low = 32 * y + x
          BY <4>1, TileFacts
        <5>3. LinearAddress(TileAddress(x, y)) = (p + 32) * 256 + low BY <5>1
        <5> HIDE DEF p, low
        <5> QED BY <4>1, <5>2, <5>3
      <4>5. Answered("tile")' =>
              (IF x \in TileColumns /\ y \in TileRows
               THEN LinearAddress(Result') = 8192 + 32 * y + x
               ELSE Result' = <<>>)
        BY <4>2, <4>3, <4>4
      <4>6. ~Answered("attribute")' BY <2>1, <3>1 DEF Answered
      <4> QED BY <2>1, <4>5, <4>6
               DEF BackgroundCallsReachTheirAddress, LinearAddress, x, y
    <3>2. CASE kind = "attribute"
      <4> DEFINE x == query.x
                 y == query.y
      <4>1. x \in Int /\ x >= 0 /\ y \in Int /\ y >= 0
        BY <2>3, <3>2, BackgroundAnswers
      <4>2. Result' = IF AttributeInRange(x, y)
                      THEN AttributeAddress(x, y) ELSE <<>>
        BY <2>3, <3>2, BackgroundAnswers
      <4> HIDE DEF x, y
      <4>3. AttributeInRange(x, y) <=>
              x \in AttributeColumns /\ y \in AttributeRows
        BY <4>1 DEF AttributeInRange, AttributeColumns, AttributeRows
      <4>4. AttributeInRange(x, y) =>
              LinearAddress(AttributeAddress(x, y)) = 9152 + 8 * y + x
        BY <4>1, AttributeFacts DEF LinearAddress
      <4>5. Answered("attribute")' =>
              (IF x \in AttributeColumns /\ y \in AttributeRows
               THEN LinearAddress(Result') = 9152 + 8 * y + x
               ELSE Result' = <<>>)
        BY <4>2, <4>3, <4>4
      <4>6. ~Answered("tile")' BY <2>1, <3>2 DEF Answered
      <4> QED BY <2>1, <4>5, <4>6
               DEF BackgroundCallsReachTheirAddress, LinearAddress, x, y
    <3>3. CASE kind # "tile" /\ kind # "attribute"
      BY <2>1, <3>3 DEF BackgroundCallsReachTheirAddress, Answered
    <3> QED BY <3>1, <3>2, <3>3
  <2> QED BY <2>2, <2>3
<1> QED BY <1>1, <1>2, PTL DEF RuntimeSpec

(***************************************************************************)
(* An uploaded tile is confirmed in the byte that a query of its           *)
(* coordinate reads; an attribute byte is confirmed nowhere.               *)
(***************************************************************************)
THEOREM ConfirmedTilesAreFound == RuntimeSpec => []ConfirmationMeetsQuery
<1>1. RuntimeInit => RuntimeQuery /\ ConfirmationMeetsQuery
  BY BeforeTheAnswer DEF ConfirmationMeetsQuery
<1>2. RuntimeQuery /\ ConfirmationMeetsQuery /\ [RuntimeNext]_vars
        => (RuntimeQuery /\ ConfirmationMeetsQuery)'
  <2> SUFFICES ASSUME RuntimeQuery, ConfirmationMeetsQuery,
                      [RuntimeNext]_vars
               PROVE  RuntimeQuery' /\ ConfirmationMeetsQuery'
    OBVIOUS
  <2>1. RuntimeQuery' /\ kind' = kind /\ query' = query BY QueryInvariance
  <2>2. CASE UNCHANGED vars
    BY <2>1, <2>2 DEF vars, ConfirmationMeetsQuery, Answered, Result
  <2>3. CASE RuntimeNext
    <3>1. CASE kind = "tile"
      <4> DEFINE x == query.x
                 y == query.y
                 p == TileIndexPage(y)
                 low == TileIndexLow(x, y)
      <4>1. x \in Int /\ x >= 0 /\ y \in Int /\ y >= 0
        BY <2>3, <3>1, BackgroundAnswers
      <4>2. Result' = IF TileInRange(x, y) THEN TileAddress(x, y) ELSE <<>>
        BY <2>3, <3>1, BackgroundAnswers
      <4> HIDE DEF x, y
      <4>3. ASSUME TileInRange(x, y)
            PROVE  /\ Confirms(TileAddress(x, y))
                   /\ ConfirmedIndex(TileAddress(x, y)) = QueriedIndex(x, y)
                   /\ QueriedIndex(x, y) \in ShadowIndexes
        <5>1. p \in 0 .. 3 /\ low \in 0 .. 255 /\ 256 * p + low = 32 * y + x
          BY <4>1, <4>3, TileFacts
        <5>2. x <= 31 /\ y <= 29 BY <4>1, <4>3 DEF TileInRange
        <5>3. TileAddress(x, y) = <<p + 32, low>> BY DEF TileAddress
        <5>4. QueriedIndex(x, y) = (IF p \in {0, 1, 2} THEN p ELSE 3) * 256 + low
          BY DEF QueriedIndex
        <5>5. ConfirmedIndex(<<p + 32, low>>) = ConfirmedPage(p + 32) * 256 + low
          BY DEF ConfirmedIndex
        <5>6. Confirms(<<p + 32, low>>)
                <=> p + 32 < 35 \/ (p + 32 = 35 /\ low < 192)
          BY DEF Confirms
        <5> HIDE DEF p, low
        <5>7. ConfirmedPage(p + 32) = p BY <5>1 DEF ConfirmedPage
        <5>8. QueriedIndex(x, y) = p * 256 + low BY <5>1, <5>4
        <5>9. Confirms(TileAddress(x, y)) BY <4>1, <5>1, <5>2, <5>3, <5>6
        <5>10. QueriedIndex(x, y) \in ShadowIndexes
          BY <4>1, <5>1, <5>2, <5>8 DEF ShadowIndexes
        <5> QED BY <5>3, <5>5, <5>7, <5>8, <5>9, <5>10
      <4>4. Result' # <<>> => /\ TileInRange(x, y)
                              /\ Result' = TileAddress(x, y)
        BY <4>2
      <4>5. Result' # <<>> =>
              /\ Confirms(Result')
              /\ ConfirmedIndex(Result') = QueriedIndex(x, y)
              /\ QueriedIndex(x, y) \in ShadowIndexes
        BY <4>3, <4>4
      <4>6. ~Answered("attribute")' BY <2>1, <3>1 DEF Answered
      <4> QED BY <2>1, <4>5, <4>6
               DEF ConfirmationMeetsQuery, Confirms, ConfirmedIndex, x, y
    <3>2. CASE kind = "attribute"
      <4> DEFINE x == query.x
                 y == query.y
      <4>1. x \in Int /\ x >= 0 /\ y \in Int /\ y >= 0
        BY <2>3, <3>2, BackgroundAnswers
      <4>2. Result' = IF AttributeInRange(x, y)
                      THEN AttributeAddress(x, y) ELSE <<>>
        BY <2>3, <3>2, BackgroundAnswers
      <4> HIDE DEF x, y
      <4>3. AttributeInRange(x, y) => ~Confirms(AttributeAddress(x, y))
        BY <4>1, AttributeFacts DEF Confirms
      <4>4. Result' # <<>> => ~Confirms(Result')
        BY <4>2, <4>3
      <4>5. ~Answered("tile")' BY <2>1, <3>2 DEF Answered
      <4> QED BY <2>1, <4>4, <4>5 DEF ConfirmationMeetsQuery, Confirms
    <3>3. CASE kind # "tile" /\ kind # "attribute"
      BY <2>1, <3>3 DEF ConfirmationMeetsQuery, Answered
    <3> QED BY <3>1, <3>2, <3>3
  <2> QED BY <2>2, <2>3
<1> QED BY <1>1, <1>2, PTL DEF RuntimeSpec

-----------------------------------------------------------------------------
(***************************************************************************)
(* Signed offsets.                                                         *)
(***************************************************************************)

IsByte(b) == b \in Int /\ b >= 0 /\ b <= 255

\* The place of a sum if it is on the plane, else Clipped.
Place(n) == IF n >= 0 /\ n <= 255 THEN n ELSE Clipped

\* Adding a signed byte in two's complement is exact or clips.
LEMMA SignedSum ==
  ASSUME NEW a, IsByte(a), NEW d \in Int, d >= -128, d <= 127
  PROVE  Shifted(a, d % 256) = Place(a + d)
<1>0. a \in Int /\ a >= 0 /\ a <= 255 BY DEF IsByte
<1>1. CASE d >= 0
  <2>1. d % 256 = d BY <1>1
  <2>2. ~IsNegative(d) BY <1>1 DEF IsNegative
  <2> QED BY <1>0, <1>1, <2>1, <2>2 DEF Shifted, Place
<1>2. CASE d < 0
  <2>1. d % 256 = d + 256 BY <1>2
  <2>2. IsNegative(d + 256) BY DEF IsNegative
  <2>3. Magnitude(d + 256) = -d
    <3>1. (255 - (d + 256)) + 1 = -d OBVIOUS
    <3>2. (-d) % 256 = -d BY <1>2
    <3> QED BY <3>1, <3>2 DEF Magnitude
  <2> QED BY <1>0, <1>2, <2>1, <2>2, <2>3 DEF Shifted, Place
<1> QED BY <1>1, <1>2

\* Mirroring an encoded offset encodes the mirrored offset.
LEMMA MirroredTile ==
  ASSUME NEW d \in Int
  PROVE  FlippedTile(d % 256) = (-d - 8) % 256
<1> DEFINE q == d \div 256
           r == d % 256
<1>1. d = 256 * q + r /\ r \in Int /\ q \in Int BY Quotient
<1> HIDE DEF q, r
<1>2. (255 - r) - 7 = (-d - 8) + 256 * (1 + q) BY <1>1
<1>3. ((-d - 8) + 256 * (1 + q)) % 256 = (-d - 8) % 256 BY <1>1, LowByte
<1>4. FlippedTile(r) = (-d - 8) % 256 BY <1>2, <1>3 DEF FlippedTile
<1> QED BY <1>4 DEF r

LEMMA MirroredBox ==
  ASSUME NEW d \in Int, NEW size \in Int
  PROVE  FlippedBox(d % 256, size) = (-d - size) % 256
<1> DEFINE q == d \div 256
           r == d % 256
           m == Magnitude(r)
           k == ((255 - r) + 1) \div 256
<1>1. d = 256 * q + r /\ r \in Int /\ q \in Int BY Quotient
<1>2. (255 - r) + 1 = 256 * k + m /\ k \in Int /\ m \in Int
  <2> HIDE DEF r
  <2> QED BY <1>1, Quotient DEF Magnitude
<1>3. FlippedBox(r, size) = (m - size) % 256 BY DEF FlippedBox
<1> HIDE DEF m, k
<1>4. FlippedBox(r, size) = (-d - size) % 256
  <2> HIDE DEF q, r
  <2>1. m - size = (-d - size) + 256 * (1 + q - k) BY <1>1, <1>2
  <2>2. ((-d - size) + 256 * (1 + q - k)) % 256 = (-d - size) % 256
    BY <1>1, <1>2, LowByte
  <2> QED BY <1>3, <2>1, <2>2
<1> QED BY <1>4 DEF r

LEMMA ComponentFacts ==
  ASSUME NEW a, IsByte(a), NEW d \in ComponentOffsets, NEW flipped \in BOOLEAN,
         NEW exact, exact = a + Mirrored(d, 8, flipped)
  PROVE  /\ ComponentX(a, Encoded(d), flipped) =
              IF exact \in 0 .. 248 THEN exact ELSE Clipped
         /\ ComponentY(a, Encoded(d), flipped) =
              IF exact \in 1 .. 232 THEN exact - 1 ELSE Clipped
<1> DEFINE m == Mirrored(d, 8, flipped)
           x == Shifted(a, TileOffset(Encoded(d), flipped))
<1>1. /\ d \in Int /\ d >= -128 /\ d <= 127
      /\ -d - 8 >= -128 /\ -d - 8 <= 127
  BY DEF ComponentOffsets
<1>2. m \in Int /\ m >= -128 /\ m <= 127 BY <1>1 DEF Mirrored
<1>3. TileOffset(Encoded(d), flipped) = m % 256
  BY <1>1, MirroredTile DEF TileOffset, Encoded, Mirrored
<1>4. ComponentX(a, Encoded(d), flipped) = IF x >= 249 THEN Clipped ELSE x
  BY DEF ComponentX
<1>5. ComponentY(a, Encoded(d), flipped) =
        IF x \in 1 .. 232 THEN x - 1 ELSE Clipped
  BY DEF ComponentY
<1>6. a \in Int BY DEF IsByte
<1> HIDE DEF m
<1>7. x = Place(a + m) BY <1>2, <1>3, SignedSum
<1> HIDE DEF x
<1>8. exact = a + m BY DEF m
<1> QED BY <1>2, <1>4, <1>5, <1>6, <1>7, <1>8 DEF Place, Clipped

(***************************************************************************)
(* No component wraps to the opposite edge, whatever the anchor, the       *)
(* offset and the flips.                                                   *)
(***************************************************************************)
THEOREM ClippingIsExact == RuntimeSpec => []ComponentsAreClippedExactly
<1>1. RuntimeInit => RuntimeQuery /\ ComponentsAreClippedExactly
  BY BeforeTheAnswer DEF ComponentsAreClippedExactly
<1>2. RuntimeQuery /\ ComponentsAreClippedExactly /\ [RuntimeNext]_vars
        => (RuntimeQuery /\ ComponentsAreClippedExactly)'
  <2> SUFFICES ASSUME RuntimeQuery, ComponentsAreClippedExactly,
                      [RuntimeNext]_vars
               PROVE  RuntimeQuery' /\ ComponentsAreClippedExactly'
    OBVIOUS
  <2>1. RuntimeQuery' /\ kind' = kind /\ query' = query BY QueryInvariance
  <2>2. CASE UNCHANGED vars
    BY <2>1, <2>2 DEF vars, ComponentsAreClippedExactly, Answered, Result
  <2>3. CASE RuntimeNext /\ kind \in {"componentX", "componentY"}
    <3> DEFINE a == query.anchor
               d == query.offset
               f == query.flipped
               exact == a + Mirrored(d, 8, f)
    <3>1. query \in [anchor : AnchorBytes, offset : ComponentOffsets,
                     flipped : BOOLEAN]
      BY <2>3 DEF RuntimeQuery
    <3>2. IsByte(a) /\ d \in ComponentOffsets /\ f \in BOOLEAN
      BY <3>1 DEF AnchorBytes, IsByte
    <3>3. kind = "componentX" => answer' = <<ComponentX(a, Encoded(d), f)>>
      BY <2>3, Handlers DEF RenderX, Answers
    <3>4. kind = "componentY" => answer' = <<ComponentY(a, Encoded(d), f)>>
      BY <2>3, Handlers DEF RenderY, Answers
    <3>5. /\ kind = "componentX" => Result' = ComponentX(a, Encoded(d), f)
          /\ kind = "componentY" => Result' = ComponentY(a, Encoded(d), f)
      BY <3>3, <3>4 DEF Result
    <3> HIDE DEF a, d, f
    <3>6. /\ ComponentX(a, Encoded(d), f) =
               IF exact \in 0 .. 248 THEN exact ELSE Clipped
          /\ ComponentY(a, Encoded(d), f) =
               IF exact \in 1 .. 232 THEN exact - 1 ELSE Clipped
      BY <3>2, ComponentFacts
    <3> HIDE DEF exact
    <3>7. /\ Answered("componentX")' =>
               Result' = IF exact \in 0 .. 248 THEN exact ELSE Clipped
          /\ Answered("componentY")' =>
               Result' = IF exact \in 1 .. 232 THEN exact - 1 ELSE Clipped
      BY <2>1, <3>5, <3>6 DEF Answered
    <3> QED BY <2>1, <3>7 DEF ComponentsAreClippedExactly, exact, a, d, f
  <2>4. CASE RuntimeNext /\ kind \notin {"componentX", "componentY"}
    BY <2>1, <2>4 DEF ComponentsAreClippedExactly, Answered
  <2> QED BY <2>2, <2>3, <2>4
<1> QED BY <1>1, <1>2, PTL DEF RuntimeSpec

-----------------------------------------------------------------------------
(***************************************************************************)
(* Boxes.                                                                  *)
(***************************************************************************)

\* The carry test of one axis accepts the spans that do not leave the plane.
LEMMA ValidIsFits ==
  ASSUME NEW start, IsByte(start), NEW size, IsByte(size)
  PROVE  ValidSpan(start, size) <=> Fits(start, size)
<1>1. /\ start \in Int /\ start >= 0 /\ start <= 255
      /\ size \in Int /\ size >= 0 /\ size <= 255
  BY DEF IsByte
<1>2. start + size > 255 => ((start + size) % 256 = 0 <=> start + size = 256)
  BY <1>1
<1> QED BY <1>1, <1>2 DEF ValidSpan, Fits

LEMMA InSpanIsMembership ==
  ASSUME NEW point, IsByte(point), NEW start, IsByte(start),
         NEW size, IsByte(size)
  PROVE  InSpan(point, start, size) <=> point \in Along(start, size)
BY DEF InSpan, Along, IsByte

\* The comparison of starts finds a common pixel.
LEMMA MeetIsIntersection ==
  ASSUME NEW s1, IsByte(s1), NEW n1, IsByte(n1),
         NEW s2, IsByte(s2), NEW n2, IsByte(n2), n1 > 0, n2 > 0
  PROVE  SpansMeet(s1, n1, s2, n2) <=> Along(s1, n1) \cap Along(s2, n2) # {}
<1>1. /\ s1 \in Int /\ n1 \in Int /\ s2 \in Int /\ n2 \in Int
  BY DEF IsByte
<1>2. ASSUME SpansMeet(s1, n1, s2, n2)
      PROVE  Along(s1, n1) \cap Along(s2, n2) # {}
  <2>1. CASE s1 < s2
    <3>1. s2 \in Along(s1, n1) /\ s2 \in Along(s2, n2)
      BY <1>1, <1>2, <2>1 DEF SpansMeet, Along
    <3> QED BY <3>1
  <2>2. CASE ~(s1 < s2)
    <3>1. s1 \in Along(s1, n1) /\ s1 \in Along(s2, n2)
      BY <1>1, <1>2, <2>2 DEF SpansMeet, Along
    <3> QED BY <3>1
  <2> QED BY <2>1, <2>2
<1>3. ASSUME Along(s1, n1) \cap Along(s2, n2) # {}
      PROVE  SpansMeet(s1, n1, s2, n2)
  <2>1. PICK p : p \in Along(s1, n1) /\ p \in Along(s2, n2) BY <1>3
  <2> QED BY <1>1, <2>1 DEF SpansMeet, Along
<1> QED BY <1>2, <1>3

IsBox(box) ==
  IsByte(box.x) /\ IsByte(box.y) /\ IsByte(box.width) /\ IsByte(box.height)

LEMMA BoxFacts == \A box \in Box : IsBox(box)
BY DEF Box, IsBox, IsByte, Byte

LEMMA ValidBoxIsFits ==
  ASSUME NEW box, IsBox(box)
  PROVE  ValidBox(box) <=> BoxFitsPlane(box)
BY ValidIsFits DEF IsBox, ValidBox, BoxFitsPlane

LEMMA PointFacts ==
  ASSUME NEW px, IsByte(px), NEW py, IsByte(py), NEW box, IsBox(box)
  PROVE  PointInRect(px, py, box)
           <=> /\ BoxFitsPlane(box)
               /\ px \in Along(box.x, box.width)
               /\ py \in Along(box.y, box.height)
BY ValidBoxIsFits, InSpanIsMembership DEF PointInRect, IsBox

LEMMA CollidesFacts ==
  ASSUME NEW b1, IsBox(b1), NEW b2, IsBox(b2)
  PROVE  Collides(b1, b2)
           <=> /\ BoxFitsPlane(b1) /\ BoxFitsPlane(b2)
               /\ CommonPixels(b1, b2)
<1>1. /\ ValidBox(b1) <=> BoxFitsPlane(b1)
      /\ ValidBox(b2) <=> BoxFitsPlane(b2)
  BY ValidBoxIsFits
<1>2. ASSUME BoxFitsPlane(b1), BoxFitsPlane(b2)
      PROVE  /\ SpansMeet(b1.x, b1.width, b2.x, b2.width)
             /\ SpansMeet(b1.y, b1.height, b2.y, b2.height)
             <=> CommonPixels(b1, b2)
  <2>1. b1.width > 0 /\ b1.height > 0 /\ b2.width > 0 /\ b2.height > 0
    BY <1>2 DEF BoxFitsPlane, Fits
  <2>2. SpansMeet(b1.x, b1.width, b2.x, b2.width)
          <=> Along(b1.x, b1.width) \cap Along(b2.x, b2.width) # {}
    BY <2>1, MeetIsIntersection DEF IsBox
  <2>3. SpansMeet(b1.y, b1.height, b2.y, b2.height)
          <=> Along(b1.y, b1.height) \cap Along(b2.y, b2.height) # {}
    BY <2>1, MeetIsIntersection DEF IsBox
  <2> QED BY <2>2, <2>3 DEF CommonPixels
<1> QED BY <1>1, <1>2 DEF Collides

\* The tested bit is the one that the loader packed for the tile.
LEMMA FlagFacts ==
  ASSUME NEW px, IsByte(px), NEW py, IsByte(py)
  PROVE  TestedFlag(px, py) =
           IF py < 240 THEN PackedFlag(32 * (py \div 8) + px \div 8) ELSE NoTile
<1>1. px \in Int /\ px >= 0 /\ px <= 255 /\ py \in Int /\ py >= 0 /\ py <= 255
  BY DEF IsByte
<1>2. CASE py >= 240 BY <1>1, <1>2 DEF TestedFlag
<1>3. CASE py < 240
  <2> DEFINE p == py \div 8
             c == px \div 8
             g == c \div 8
             b == c % 8
  <2>1. p \in 0 .. 29 /\ py - (py % 8) = 8 * p BY <1>1, <1>3
  <2>2. c \in 0 .. 31 BY <1>1
  <2>3. px \div 64 = g BY <1>1
  <2>4. c = 8 * g + b /\ g \in 0 .. 3 /\ b \in 0 .. 8 - 1
    <3> HIDE DEF c
    <3> QED BY <2>2
  <2> HIDE DEF p
  <2>5. (8 * p) \div 2 = 4 * p BY <2>1
  <2>6. TestedFlag(px, py) = <<(4 * p + g) % 256, b>>
    BY <1>1, <1>3, <2>1, <2>3, <2>5 DEF TestedFlag
  <2>7. (4 * p + g) % 256 = 4 * p + g
    <3> HIDE DEF g
    <3> QED BY <2>1, <2>4
  <2>8. 32 * p + c = 8 * (4 * p + g) + b
    <3> HIDE DEF c, g, b
    <3> QED BY <2>1, <2>2, <2>4
  <2>9. /\ (8 * (4 * p + g) + b) \div 8 = 4 * p + g
        /\ (8 * (4 * p + g) + b) % 8 = b
    <3> HIDE DEF c, g, b
    <3> QED BY <2>1, <2>4
  <2>10. PackedFlag(32 * p + c) = <<4 * p + g, b>>
    <3> HIDE DEF c, g, b
    <3> QED BY <2>8, <2>9 DEF PackedFlag
  <2> QED BY <1>1, <1>3, <2>6, <2>7, <2>10 DEF p
<1> QED BY <1>1, <1>2, <1>3

(***************************************************************************)
(* The collision routines answer membership and intersection exactly, for  *)
(* every point and box that may be asked.                                  *)
(***************************************************************************)
THEOREM CollisionsAreExact == RuntimeSpec => []CollisionAnswersAreExact
<1>1. RuntimeInit => RuntimeQuery /\ CollisionAnswersAreExact
  BY BeforeTheAnswer DEF CollisionAnswersAreExact
<1>2. RuntimeQuery /\ CollisionAnswersAreExact /\ [RuntimeNext]_vars
        => (RuntimeQuery /\ CollisionAnswersAreExact)'
  <2> SUFFICES ASSUME RuntimeQuery, CollisionAnswersAreExact,
                      [RuntimeNext]_vars
               PROVE  RuntimeQuery' /\ CollisionAnswersAreExact'
    OBVIOUS
  <2>1. RuntimeQuery' /\ kind' = kind /\ query' = query BY QueryInvariance
  <2>2. CASE UNCHANGED vars
    BY <2>1, <2>2 DEF vars, CollisionAnswersAreExact, Answered, Result
  <2>3. CASE RuntimeNext /\ kind = "point"
    <3>1. query \in [x : Byte, y : Byte, box : Box]
      BY <2>3, PointsAssumption DEF RuntimeQuery
    <3>2. IsByte(query.x) /\ IsByte(query.y) /\ IsBox(query.box)
      BY <3>1, BoxFacts DEF Byte, IsByte
    <3>3. answer' = <<PointInRect(query.x, query.y, query.box)>>
      BY <2>3, Handlers DEF TestPoint, Answers
    <3>4. Result' = PointInRect(query.x, query.y, query.box)
      BY <3>3 DEF Result
    <3>5. Result' <=> /\ BoxFitsPlane(query.box)
                      /\ query.x \in Along(query.box.x, query.box.width)
                      /\ query.y \in Along(query.box.y, query.box.height)
      BY <3>2, <3>4, PointFacts
    <3>6. ~Answered("boxes")' /\ ~Answered("map")'
      BY <2>1, <2>3 DEF Answered
    <3> QED BY <2>1, <3>5, <3>6
             DEF CollisionAnswersAreExact, BoxFitsPlane, Fits, Along
  <2>4. CASE RuntimeNext /\ kind = "boxes"
    <3>1. query \in [left : Box, right : Box]
      BY <2>4, BoxesAssumption DEF RuntimeQuery
    <3>2. IsBox(query.left) /\ IsBox(query.right) BY <3>1, BoxFacts
    <3>3. answer' = <<Collides(query.left, query.right)>>
      BY <2>4, Handlers DEF TestBoxes, Answers
    <3>4. Result' = Collides(query.left, query.right) BY <3>3 DEF Result
    <3>5. Result' <=> /\ BoxFitsPlane(query.left) /\ BoxFitsPlane(query.right)
                      /\ CommonPixels(query.left, query.right)
      BY <3>2, <3>4, CollidesFacts
    <3>6. ~Answered("point")' /\ ~Answered("map")'
      BY <2>1, <2>4 DEF Answered
    <3> QED BY <2>1, <3>5, <3>6 DEF CollisionAnswersAreExact
  <2>5. CASE RuntimeNext /\ kind = "map"
    <3>1. query \in [x : Byte, y : Byte] BY <2>5 DEF RuntimeQuery
    <3>2. IsByte(query.x) /\ IsByte(query.y) BY <3>1 DEF Byte, IsByte
    <3>3. answer' = <<TestedFlag(query.x, query.y)>>
      BY <2>5, Handlers DEF TestMap, Answers
    <3>4. Result' = TestedFlag(query.x, query.y) BY <3>3 DEF Result
    <3>5. ~Answered("point")' /\ ~Answered("boxes")'
      BY <2>1, <2>5 DEF Answered
    <3> QED BY <2>1, <3>2, <3>4, <3>5, FlagFacts DEF CollisionAnswersAreExact
  <2>6. CASE RuntimeNext /\ kind \notin {"point", "boxes", "map"}
    BY <2>1, <2>6 DEF CollisionAnswersAreExact, Answered
  <2> QED BY <2>2, <2>3, <2>4, <2>5, <2>6
<1> QED BY <1>1, <1>2, PTL DEF RuntimeSpec

\* Clipping both places and then testing the box stores the exact box.
LEMMA StoredIsExact ==
  ASSUME NEW ex \in Int, NEW ey \in Int,
         NEW width, IsByte(width), NEW height, IsByte(height)
  PROVE  StoredBox(Place(ex), Place(ey), width, height) =
           ExactBox(ex, ey, width, height)
<1>1. width \in Int /\ height \in Int BY DEF IsByte
<1>2. CASE IsByte(ex) /\ IsByte(ey)
  <2>1. Place(ex) = ex /\ Place(ey) = ey /\ ex # Clipped /\ ey # Clipped
    BY <1>2 DEF Place, IsByte, Clipped
  <2>2. /\ ValidSpan(ex, width) <=> Fits(ex, width)
        /\ ValidSpan(ey, height) <=> Fits(ey, height)
    BY <1>2, ValidIsFits
  <2> DEFINE box == [x |-> ex, y |-> ey, width |-> width, height |-> height]
  <2>3. /\ box.x = ex /\ box.y = ey
        /\ box.width = width /\ box.height = height
    OBVIOUS
  <2> HIDE DEF box
  <2>4. ValidBox(box) <=> Fits(ex, width) /\ Fits(ey, height)
    BY <2>2, <2>3 DEF ValidBox
  <2>5. StoredBox(ex, ey, width, height) = IF ValidBox(box) THEN box ELSE InvalidBox
    BY <2>1 DEF StoredBox, box
  <2> QED BY <2>1, <2>4, <2>5 DEF ExactBox, box
<1>3. CASE ~(IsByte(ex) /\ IsByte(ey))
  <2>1. Place(ex) = Clipped \/ Place(ey) = Clipped
    BY <1>3 DEF Place, IsByte
  <2>2. StoredBox(Place(ex), Place(ey), width, height) = InvalidBox
    BY <2>1 DEF StoredBox
  <2>3. ~(Fits(ex, width) /\ Fits(ey, height))
    BY <1>1, <1>3 DEF Fits, IsByte
  <2> QED BY <2>2, <2>3 DEF ExactBox
<1> QED BY <1>2, <1>3

LEMMA SpriteBoundsFacts ==
  ASSUME NEW sprite \in Nat, sprite < 64,
         NEW px, IsByte(px), NEW py, IsByte(py), NEW box, IsBox(box)
  PROVE  SpriteBounds(sprite, px, py, box) =
           ExactBox(px + box.x, py + box.y, box.width, box.height)
<1> DEFINE bx == box.x
           by == box.y
<1>1. IsByte(bx) /\ IsByte(by) /\ IsByte(box.width) /\ IsByte(box.height)
  BY DEF IsBox
<1>2. SpriteBounds(sprite, px, py, box) =
        StoredBox(Advanced(px, bx), Advanced(py, by), box.width, box.height)
  BY DEF SpriteBounds
<1> HIDE DEF bx, by
<1>3. /\ px + bx \in Int /\ py + by \in Int
      /\ Advanced(px, bx) = Place(px + bx)
      /\ Advanced(py, by) = Place(py + by)
  BY <1>1 DEF IsByte, Advanced, Place
<1> QED BY <1>1, <1>2, <1>3, StoredIsExact DEF bx, by

\* The offset of one axis of a frame, both of whose orientations are signed
\* bytes, is added exactly or clipped.
LEMMA OrientedPlace ==
  ASSUME NEW a, IsByte(a), NEW d \in Int, NEW size \in Int,
         BoxFits(d, size), NEW flipped \in BOOLEAN
  PROVE  /\ a + Mirrored(d, size, flipped) \in Int
         /\ Shifted(a, BoxOffset(Encoded(d), size, flipped)) =
              Place(a + Mirrored(d, size, flipped))
<1> DEFINE m == Mirrored(d, size, flipped)
<1>1. m \in Int /\ m >= -128 /\ m <= 127 BY DEF BoxFits, Mirrored
<1>2. BoxOffset(Encoded(d), size, flipped) = m % 256
  BY MirroredBox DEF BoxOffset, Encoded, Mirrored
<1>3. a \in Int BY DEF IsByte
<1> HIDE DEF m
<1>4. Shifted(a, m % 256) = Place(a + m) BY <1>1, SignedSum
<1> QED BY <1>1, <1>2, <1>3, <1>4 DEF m

\* Which bytes name an instance; 256 instances need no test.
LEMMA InstanceRange ==
  ASSUME NEW i \in 0 .. 255, NEW n \in 1 .. 256
  PROVE  /\ i < n <=> i \in 0 .. n - 1
         /\ ~(i < n) => n # 256 /\ i >= n /\ i \notin 0 .. n - 1
OBVIOUS

LEMMA FrameBoundsFacts ==
  ASSUME NEW instance \in Nat, NEW instances \in Nat, instance < instances,
         NEW ax, IsByte(ax), NEW ay, IsByte(ay), NEW box \in FrameBox,
         NEW fx \in BOOLEAN, NEW fy \in BOOLEAN
  PROVE  MetaspriteBounds(instance, instances, ax, ay,
                          [x |-> Encoded(box.x), y |-> Encoded(box.y),
                           width |-> box.width, height |-> box.height],
                          fx, fy) =
           ExactBox(ax + Mirrored(box.x, box.width, fx),
                    ay + Mirrored(box.y, box.height, fy),
                    box.width, box.height)
<1> DEFINE dx == box.x
           dy == box.y
           w == box.width
           h == box.height
<1>1. /\ box \in [x : -128 .. 127, y : -128 .. 127, width : Byte, height : Byte]
      /\ BoxFits(dx, w) /\ BoxFits(dy, h)
  BY DEF FrameBox
<1>2. dx \in Int /\ dy \in Int /\ IsByte(w) /\ IsByte(h)
  BY <1>1 DEF Byte, IsByte
<1>3. MetaspriteBounds(instance, instances, ax, ay,
                       [x |-> Encoded(dx), y |-> Encoded(dy),
                        width |-> w, height |-> h], fx, fy) =
        StoredBox(Shifted(ax, BoxOffset(Encoded(dx), w, fx)),
                  Shifted(ay, BoxOffset(Encoded(dy), h, fy)), w, h)
  BY DEF MetaspriteBounds
<1> HIDE DEF dx, dy, w, h
<1>4. w \in Int /\ h \in Int BY <1>2 DEF IsByte
<1>5. /\ ax + Mirrored(dx, w, fx) \in Int
      /\ Shifted(ax, BoxOffset(Encoded(dx), w, fx)) =
           Place(ax + Mirrored(dx, w, fx))
  BY <1>1, <1>2, <1>4, OrientedPlace
<1>6. /\ ay + Mirrored(dy, h, fy) \in Int
      /\ Shifted(ay, BoxOffset(Encoded(dy), h, fy)) =
           Place(ay + Mirrored(dy, h, fy))
  BY <1>1, <1>2, <1>4, OrientedPlace
<1>7. StoredBox(Place(ax + Mirrored(dx, w, fx)),
                Place(ay + Mirrored(dy, h, fy)), w, h) =
        ExactBox(ax + Mirrored(dx, w, fx), ay + Mirrored(dy, h, fy), w, h)
  BY <1>2, <1>5, <1>6, StoredIsExact
<1> QED BY <1>3, <1>5, <1>6, <1>7 DEF dx, dy, w, h

(***************************************************************************)
(* The box of a sprite or metasprite is at its exact place or empty, in    *)
(* every orientation.                                                      *)
(***************************************************************************)
THEOREM BoundsAreExact == RuntimeSpec => []BoundsFollowTheObject
<1>1. RuntimeInit => RuntimeQuery /\ BoundsFollowTheObject
  BY BeforeTheAnswer DEF BoundsFollowTheObject
<1>2. RuntimeQuery /\ BoundsFollowTheObject /\ [RuntimeNext]_vars
        => (RuntimeQuery /\ BoundsFollowTheObject)'
  <2> SUFFICES ASSUME RuntimeQuery, BoundsFollowTheObject,
                      [RuntimeNext]_vars
               PROVE  RuntimeQuery' /\ BoundsFollowTheObject'
    OBVIOUS
  <2>1. RuntimeQuery' /\ kind' = kind /\ query' = query BY QueryInvariance
  <2>2. CASE UNCHANGED vars
    BY <2>1, <2>2 DEF vars, BoundsFollowTheObject, Answered, Result
  <2>3. CASE RuntimeNext /\ kind = "spriteBounds"
    <3>1. query \in [sprite : Byte, x : Byte, y : Byte, box : Box]
      BY <2>3, SpritesAssumption DEF RuntimeQuery
    <3>2. IsByte(query.x) /\ IsByte(query.y) /\ IsBox(query.box) /\ query.sprite \in Nat
      BY <3>1, BoxFacts DEF Byte, IsByte
    <3>3. answer' = <<SpriteBounds(query.sprite, query.x, query.y, query.box)>>
      BY <2>3, Handlers DEF FindSpriteBounds, Answers
    <3>4. Result' = SpriteBounds(query.sprite, query.x, query.y, query.box)
      BY <3>3 DEF Result
    <3>5. Result' = IF query.sprite \notin 0 .. 63 THEN InvalidBox
                    ELSE ExactBox(query.x + query.box.x, query.y + query.box.y,
                                  query.box.width, query.box.height)
      <4>1. CASE query.sprite < 64
        <5>1. Result' = ExactBox(query.x + query.box.x, query.y + query.box.y,
                                 query.box.width, query.box.height)
          BY <3>2, <3>4, <4>1, SpriteBoundsFacts
        <5>2. query.sprite \in 0 .. 63 BY <3>2, <4>1
        <5> QED BY <5>1, <5>2
      <4>2. CASE ~(query.sprite < 64)
        <5>1. query.sprite >= 64 /\ query.sprite \notin 0 .. 63 BY <3>2, <4>2
        <5> QED BY <3>4, <5>1 DEF SpriteBounds
      <4> QED BY <4>1, <4>2
    <3>6. ~Answered("frameBounds")' BY <2>1, <2>3 DEF Answered
    <3> QED BY <2>1, <3>5, <3>6 DEF BoundsFollowTheObject
  <2>4. CASE RuntimeNext /\ kind = "frameBounds"
    <3>1. query \in [instance : Byte, instances : 1 .. 256, x : Byte, y : Byte,
                     box : FrameBox, flippedX : BOOLEAN, flippedY : BOOLEAN]
      BY <2>4, FramesAssumption DEF RuntimeQuery
    <3>2. /\ IsByte(query.x) /\ IsByte(query.y) /\ query.box \in FrameBox
          /\ query.flippedX \in BOOLEAN /\ query.flippedY \in BOOLEAN
          /\ query.instance \in 0 .. 255 /\ query.instances \in 1 .. 256
      BY <3>1 DEF Byte, IsByte
    <3> DEFINE box == [x |-> Encoded(query.box.x), y |-> Encoded(query.box.y),
                       width |-> query.box.width, height |-> query.box.height]
               exact == ExactBox(
                 query.x + Mirrored(query.box.x, query.box.width, query.flippedX),
                 query.y + Mirrored(query.box.y, query.box.height, query.flippedY),
                 query.box.width, query.box.height)
    <3>3. answer' =
            <<MetaspriteBounds(query.instance, query.instances, query.x, query.y,
                box, query.flippedX, query.flippedY)>>
      BY <2>4, Handlers DEF FindFrameBounds, Answers
    <3>4. Result' =
            MetaspriteBounds(query.instance, query.instances, query.x, query.y,
              box, query.flippedX, query.flippedY)
      BY <3>3 DEF Result
    <3>5. Result' = IF query.instance \notin 0 .. query.instances - 1 THEN InvalidBox
                    ELSE exact
      <4>1. CASE query.instance < query.instances
        <5>1. query.instance \in Nat /\ query.instances \in Nat BY <3>2
        <5>2. Result' = exact BY <3>2, <3>4, <4>1, <5>1, FrameBoundsFacts
        <5>3. query.instance \in 0 .. query.instances - 1
          BY <3>2, <4>1, InstanceRange, Zenon
        <5> HIDE DEF box, exact
        <5> QED BY <5>2, <5>3, Zenon
      <4>2. CASE ~(query.instance < query.instances)
        <5>1. /\ query.instances # 256 /\ query.instance >= query.instances
              /\ query.instance \notin 0 .. query.instances - 1
          BY <3>2, <4>2, InstanceRange, Zenon
        <5> HIDE DEF box, exact
        <5> QED BY <3>4, <5>1 DEF MetaspriteBounds
      <4> QED BY <4>1, <4>2
    <3>6. ~Answered("spriteBounds")' BY <2>1, <2>4 DEF Answered
    <3> QED BY <2>1, <3>5, <3>6 DEF BoundsFollowTheObject
  <2>5. CASE RuntimeNext /\ kind \notin {"spriteBounds", "frameBounds"}
    BY <2>1, <2>5 DEF BoundsFollowTheObject, Answered
  <2> QED BY <2>2, <2>3, <2>4, <2>5
<1> QED BY <1>1, <1>2, PTL DEF RuntimeSpec

-----------------------------------------------------------------------------
(***************************************************************************)
(* Bounded draws.                                                          *)
(***************************************************************************)

\* The source bytes that give result r.
Sources(min, max, r) ==
  {b \in Bytes : ~Rejected(min, max, b) /\ Reduced(min, max, b) = r}

\* The bytes from the cutoff on are a whole number of spans.
WholeSpans(s, c) ==
  /\ c \in Int /\ c >= 0 /\ c < s
  /\ \E k \in Int : 256 = c + s * k

LEMMA CutoffFacts ==
  ASSUME NEW s \in Int, s >= 1
  PROVE  WholeSpans(s, Cutoff(s))
<1> DEFINE q == 255 \div s
           m == 255 % s
<1>1. 255 = s * q + m /\ m \in 0 .. s - 1 /\ q \in Int BY Quotient
<1>2. Cutoff(s) = IF m + 1 < s THEN m + 1 ELSE 0 BY DEF Cutoff
<1> HIDE DEF q, m
<1>3. CASE m + 1 < s
  <2>1. 256 = (m + 1) + s * q BY <1>1
  <2> QED BY <1>1, <1>2, <1>3, <2>1 DEF WholeSpans
<1>4. CASE ~(m + 1 < s)
  <2>1. m = s - 1 BY <1>1, <1>4
  <2>2. s * (q + 1) = s * q + s BY <1>1
  <2>3. 256 = 0 + s * (q + 1) BY <1>1, <2>1, <2>2
  <2>4. Cutoff(s) = 0 BY <1>2, <1>4
  <2> QED BY <1>1, <2>3, <2>4 DEF WholeSpans
<1> QED BY <1>3, <1>4

\* A smaller multiple is smaller by at least the factor.
LEMMA Multiples ==
  ASSUME NEW s \in Int, s >= 1, NEW j \in Int, NEW k \in Int, s * j < s * k
  PROVE  s * j + s <= s * k
<1>1. j < k
  <2>1. SUFFICES ASSUME j >= k PROVE FALSE OBVIOUS
  <2>2. s * (j - k) >= 0 BY <2>1
  <2>3. s * (j - k) = s * j - s * k OBVIOUS
  <2> QED BY <2>2, <2>3
<1>2. s * (k - j - 1) >= 0 BY <1>1
<1>3. s * (k - j - 1) = s * k - s * j - s OBVIOUS
<1> QED BY <1>2, <1>3

\* Counting up from the cutoff, byte by byte within a span.
LEMMA SpanWalk ==
  ASSUME NEW s \in Int, s >= 1, NEW c, WholeSpans(s, c),
         NEW d \in 0 .. s - 1, NEW b \in Int, NEW e \in Int, e = b + d
  PROVE  /\ b >= c /\ b <= 255 /\ (b - c) % s = 0 => e <= 255 /\ (e - c) % s = d
         /\ e >= c /\ (e - c) % s = d => b >= c /\ (b - c) % s = 0
<1>1. c \in Int /\ c >= 0 BY DEF WholeSpans
<1>2. PICK k \in Int : 256 = c + s * k BY DEF WholeSpans
<1>3. s \in Nat \ {0} OBVIOUS
<1> DEFINE m == b - c
           n == e - c
<1>4. m \in Int /\ n \in Int /\ n = m + d BY <1>1
<1>5. b = m + c /\ e = n + c BY <1>1
<1> HIDE DEF m, n
<1>6. ASSUME m >= 0, b <= 255, m % s = 0
      PROVE  e <= 255 /\ n % s = d
  <2> DEFINE j == m \div s
  <2>1. m = s * j + 0 /\ j \in Int BY <1>3, <1>4, <1>6, Quotient
  <2> HIDE DEF j
  <2>2. s * j < s * k BY <1>1, <1>2, <1>5, <1>6, <2>1
  <2>3. s * j + s <= s * k BY <1>2, <2>1, <2>2, Multiples
  <2>4. e <= 255 BY <1>1, <1>2, <1>4, <1>5, <2>1, <2>3
  <2>5. n = s * j + d BY <1>4, <2>1
  <2>6. (s * j + d) % s = d BY <1>3, <2>1, Remainder
  <2> QED BY <2>4, <2>5, <2>6
<1>7. ASSUME n >= 0, n % s = d
      PROVE  m >= 0 /\ m % s = 0
  <2> DEFINE j == n \div s
  <2>1. n = s * j + d /\ j \in Int BY <1>3, <1>4, <1>7, Quotient
  <2> HIDE DEF j
  <2>2. s * j >= 0
    <3>1. SUFFICES ASSUME s * j < 0 PROVE FALSE BY <2>1
    <3>2. s * j < s * 0 BY <3>1
    <3>3. s * j + s <= s * 0 BY <2>1, <3>2, Multiples
    <3> QED BY <1>7, <2>1, <3>3
  <2>3. m = s * j + 0 BY <1>4, <2>1
  <2>4. (s * j + 0) % s = 0
    <3>1. 0 \in 0 .. s - 1 OBVIOUS
    <3> QED BY <1>3, <2>1, <3>1, Remainder
  <2>5. m >= 0 BY <1>4, <2>1, <2>2, <2>3
  <2> QED BY <2>3, <2>4, <2>5
<1>8. (b >= c <=> m >= 0) /\ (e >= c <=> n >= 0) BY <1>1, <1>4, <1>5
<1> QED BY <1>6, <1>7, <1>8 DEF m, n

LEMMA SourcesFinite ==
  ASSUME NEW min, NEW max, NEW r
  PROVE  IsFiniteSet(Sources(min, max, r))
<1>1. IsFiniteSet(0 .. 255)
  <2>1. 0 \in Int /\ 255 \in Int OBVIOUS
  <2> QED BY <2>1, FS_Interval, Zenon
<1>2. Sources(min, max, r) \in SUBSET (0 .. 255) BY DEF Sources, Bytes
<1> QED BY <1>1, <1>2, FS_Subset

\* The sources of a value are those of the minimum, moved by the difference.
LEMMA MovedSources ==
  ASSUME NEW min \in Bytes, NEW max \in Bytes, min < max,
         NEW d \in 0 .. max - min
  PROVE  /\ \A b \in Sources(min, max, min) : b + d \in Sources(min, max, min + d)
         /\ \A b \in Sources(min, max, min + d) : b - d \in Sources(min, max, min)
<1> DEFINE s == Span(min, max)
           c == Cutoff(s)
<1>1. /\ min \in Int /\ min >= 0 /\ min <= 255
      /\ max \in Int /\ max >= 0 /\ max <= 255
  BY ByteFacts
<1>2. s \in Int /\ s >= 2 /\ s <= 256 /\ s = max - min + 1
  BY <1>1 DEF Span
<1>3. WholeSpans(s, c) BY <1>2, CutoffFacts
<1>4. d \in 0 .. s - 1 BY <1>1, <1>2
<1>5. \A b : Rejected(min, max, b) <=> s < 256 /\ b < c
  BY DEF Rejected, Consumes
<1>6. \A b : Reduced(min, max, b) = IF s = 256 THEN b ELSE min + ((b - c) % s)
  BY <1>1 DEF Reduced, Consumes
<1>7. c \in Int /\ c >= 0 BY <1>3 DEF WholeSpans
<1> HIDE DEF c, s
<1>8. CASE s = 256
  <2>1. min = 0 BY <1>1, <1>2, <1>8
  <2>2. \A b \in Bytes : b \in Int BY ByteFacts
  <2>3. \A r : Sources(min, max, r) = {b \in Bytes : b = r}
    BY <1>5, <1>6, <1>8 DEF Sources
  <2>4. 0 \in Bytes /\ 0 + d \in Bytes BY <1>4, <1>8, ByteFacts
  <2>5. d - d = 0 /\ 0 + d = d BY <1>4
  <2> QED BY <2>1, <2>3, <2>4, <2>5
<1>9. CASE s # 256
  <2>1. s < 256 /\ s >= 1 BY <1>2, <1>9
  <2>2. ASSUME NEW r, NEW b \in Sources(min, max, r)
        PROVE  /\ b \in Int /\ b >= c /\ b <= 255 /\ b >= 0
               /\ min + ((b - c) % s) = r
    <3>1. b \in Bytes /\ ~Rejected(min, max, b) /\ Reduced(min, max, b) = r
      BY <2>2 DEF Sources
    <3>2. b \in Int /\ b >= 0 /\ b <= 255 BY <3>1, ByteFacts
    <3> QED BY <1>5, <1>6, <1>7, <1>9, <2>1, <3>1, <3>2
  <2>3. ASSUME NEW r, NEW b \in Int, b >= c, b <= 255, min + ((b - c) % s) = r
        PROVE  b \in Sources(min, max, r)
    <3>1. b \in Bytes BY <1>7, <2>3, ByteFacts
    <3>2. ~Rejected(min, max, b) BY <1>5, <1>7, <2>3
    <3>3. Reduced(min, max, b) = r BY <1>6, <1>9, <2>3
    <3> QED BY <3>1, <3>2, <3>3 DEF Sources
  <2>4. \A b \in Int : (b - c) % s \in Int
    <3>1. s \in Nat \ {0} BY <1>2
    <3>2. \A n \in Int : n % s \in 0 .. s - 1 BY <3>1, Quotient
    <3> QED BY <1>2, <1>7, <3>2
  <2>5. ASSUME NEW b \in Sources(min, max, min)
        PROVE  b + d \in Sources(min, max, min + d)
    <3>1. b \in Int /\ b >= c /\ b <= 255 /\ min + ((b - c) % s) = min
      BY <2>2, <2>5
    <3>2. (b - c) % s = 0 BY <1>1, <2>4, <3>1
    <3> DEFINE e == b + d
    <3>3. e \in Int /\ e >= c /\ e = b + d BY <1>4, <1>7, <3>1
    <3> HIDE DEF e
    <3>4. e <= 255 /\ (e - c) % s = d
      BY <1>2, <1>3, <1>4, <2>1, <3>1, <3>2, <3>3, SpanWalk
    <3>5. e \in Sources(min, max, min + d) BY <2>3, <3>3, <3>4
    <3> QED BY <3>3, <3>5
  <2>6. ASSUME NEW e \in Sources(min, max, min + d)
        PROVE  e - d \in Sources(min, max, min)
    <3>1. e \in Int /\ e >= c /\ e <= 255 /\ min + ((e - c) % s) = min + d
      BY <2>2, <2>6
    <3>2. (e - c) % s = d BY <1>1, <1>4, <2>4, <3>1
    <3> DEFINE b == e - d
    <3>3. b \in Int /\ b <= 255 /\ e = b + d /\ b = e - d BY <1>4, <3>1
    <3> HIDE DEF b
    <3>4. b >= c /\ (b - c) % s = 0
      BY <1>2, <1>3, <1>4, <2>1, <3>1, <3>2, <3>3, SpanWalk
    <3>5. min + ((b - c) % s) = min BY <1>1, <3>4
    <3>6. b \in Sources(min, max, min) BY <2>3, <3>3, <3>4, <3>5
    <3> QED BY <3>3, <3>6
  <2> QED BY <2>5, <2>6
<1> QED BY <1>8, <1>9

\* Every value of the range has as many sources as the minimum.
LEMMA EquallyManySources ==
  ASSUME NEW min \in Bytes, NEW max \in Bytes, min < max,
         NEW d \in 0 .. max - min
  PROVE  Cardinality(Sources(min, max, min + d)) =
           Cardinality(Sources(min, max, min))
<1> DEFINE S == Sources(min, max, min)
           T == Sources(min, max, min + d)
           F == [b \in S |-> b + d]
<1>1. /\ \A b \in S : b + d \in T
      /\ \A b \in T : b - d \in S
  BY MovedSources
<1>2. /\ \A b \in S : b \in Int
      /\ \A b \in T : b \in Int
  BY ByteFacts DEF Sources
<1>3. d \in Int OBVIOUS
<1>4. IsFiniteSet(S) BY SourcesFinite
<1> HIDE DEF S, T
<1>5. F \in [S -> T] BY <1>1
<1>6. \A a, b \in S : F[a] = F[b] => a = b
  <2> SUFFICES ASSUME NEW a \in S, NEW b \in S, F[a] = F[b] PROVE a = b
    OBVIOUS
  <2>1. a + d = b + d OBVIOUS
  <2>2. a \in Int /\ b \in Int BY <1>2
  <2> HIDE DEF F
  <2> QED BY <1>3, <2>1, <2>2
<1>7. \A t \in T : \E a \in S : F[a] = t
  <2> SUFFICES ASSUME NEW t \in T PROVE \E a \in S : F[a] = t OBVIOUS
  <2>1. t - d \in S /\ F[t - d] = t BY <1>1, <1>2, <1>3
  <2> QED BY <2>1
<1>8. ExistsBijection(S, T)
  <2> HIDE DEF F
  <2>1. F \in Bijection(S, T) BY <1>5, <1>6, <1>7, Fun_IsBij
  <2> QED BY <2>1, Fun_ExistsBij
<1> QED BY <1>4, <1>8, FS_Bijection DEF S, T

LEMMA MinimumHasSource ==
  ASSUME NEW min \in Bytes, NEW max \in Bytes
  PROVE  Cardinality(Sources(min, max, min)) > 0
<1>1. /\ min \in Int /\ min >= 0 /\ min <= 255
      /\ max \in Int /\ max >= 0 /\ max <= 255
  BY ByteFacts
<1>2. \E b : b \in Sources(min, max, min)
  <2>1. CASE min >= max
    <3>1. min \in Bytes /\ ~Rejected(min, max, min) /\ Reduced(min, max, min) = min
      BY <1>1, <2>1 DEF Rejected, Reduced, Consumes
    <3> QED BY <3>1 DEF Sources
  <2>2. CASE min < max
    <3> DEFINE s == Span(min, max)
               c == Cutoff(s)
    <3>1. s \in Int /\ s >= 2 /\ s <= 256 /\ s = max - min + 1
      BY <1>1, <2>2 DEF Span
    <3>2. WholeSpans(s, c) BY <3>1, CutoffFacts
    <3>3. c \in Int /\ c >= 0 /\ c <= 255 /\ c < s
      BY <3>1, <3>2 DEF WholeSpans
    <3>4. /\ Rejected(min, max, c) <=> s < 256 /\ c < c
          /\ Reduced(min, max, c) = IF s = 256 THEN c ELSE min + ((c - c) % s)
      BY <1>1, <2>2 DEF Rejected, Reduced, Consumes
    <3>5. s = 256 => \E k \in Int : 256 = c + 256 * k
      BY <3>2 DEF WholeSpans
    <3> HIDE DEF s, c
    <3>6. s = 256 => c = 0 /\ min = 0 BY <1>1, <3>1, <3>3, <3>5
    <3>7. (c - c) % s = 0
      <4>1. c - c = s * 0 + 0 BY <3>1, <3>3
      <4>2. s \in Nat \ {0} /\ 0 \in 0 .. s - 1 BY <3>1
      <4>3. (s * 0 + 0) % s = 0 BY <4>2, Remainder
      <4> QED BY <4>1, <4>3
    <3>8. Reduced(min, max, c) = min BY <1>1, <3>4, <3>6, <3>7
    <3>9. ~Rejected(min, max, c) BY <3>3, <3>4
    <3>10. c \in Bytes BY <3>3, ByteFacts
    <3> QED BY <3>8, <3>9, <3>10 DEF Sources
  <2> QED BY <1>1, <2>1, <2>2
<1>3. IsFiniteSet(Sources(min, max, min)) BY SourcesFinite
<1>4. Cardinality(Sources(min, max, min)) \in Nat BY <1>3, FS_CardinalityType
<1>5. Cardinality(Sources(min, max, min)) # 0 BY <1>2, <1>3, FS_EmptySet
<1> QED BY <1>4, <1>5

\* No byte gives a value outside the range.
LEMMA NoOtherSources ==
  ASSUME NEW min \in Bytes, NEW max \in Bytes, NEW r,
         r \notin (IF min < max THEN min .. max ELSE {min})
  PROVE  Sources(min, max, r) = {}
<1>1. /\ min \in Int /\ min >= 0 /\ min <= 255
      /\ max \in Int /\ max >= 0 /\ max <= 255
  BY ByteFacts
<1> SUFFICES ASSUME NEW b \in Sources(min, max, r) PROVE FALSE OBVIOUS
<1>2. b \in Int /\ b >= 0 /\ b <= 255 /\ Reduced(min, max, b) = r
  BY ByteFacts DEF Sources
<1>3. CASE min >= max
  BY <1>1, <1>2, <1>3 DEF Reduced, Consumes
<1>4. CASE min < max
  <2> DEFINE s == Span(min, max)
             c == Cutoff(s)
  <2>1. s \in Int /\ s >= 2 /\ s <= 256 /\ s = max - min + 1
    BY <1>1, <1>4 DEF Span
  <2>2. c \in Int BY <2>1, CutoffFacts DEF WholeSpans
  <2>3. r = IF s = 256 THEN b ELSE min + ((b - c) % s)
    BY <1>1, <1>2, <1>4 DEF Reduced, Consumes
  <2> HIDE DEF s, c
  <2>4. (b - c) % s \in 0 .. s - 1
    <3> DEFINE n == b - c
    <3>1. n \in Int /\ s \in Nat \ {0} BY <1>2, <2>1, <2>2
    <3> HIDE DEF n
    <3>2. n % s \in 0 .. s - 1 BY <3>1, Quotient
    <3> QED BY <3>2 DEF n
  <2> DEFINE e == (b - c) % s
  <2>5. r = IF s = 256 THEN b ELSE min + e BY <2>3
  <2>6. e \in 0 .. s - 1 BY <2>4
  <2> HIDE DEF e
  <2>7. r \in min .. max BY <1>1, <1>2, <2>1, <2>5, <2>6
  <2> QED BY <1>4, <2>7
<1> QED BY <1>1, <1>3, <1>4

LEMMA DrawFacts ==
  ASSUME NEW min \in Bytes, NEW max \in Bytes, NEW count,
         count = [r \in Bytes |-> Cardinality(Sources(min, max, r))]
  PROVE  LET results == IF min < max THEN min .. max ELSE {min}
         IN /\ \A r \in Bytes \ results : count[r] = 0
            /\ \A r \in results : count[r] > 0 /\ count[r] = count[min]
<1> DEFINE results == IF min < max THEN min .. max ELSE {min}
<1>1. /\ min \in Int /\ min >= 0 /\ min <= 255
      /\ max \in Int /\ max >= 0 /\ max <= 255
  BY ByteFacts
<1>2. \A r \in Bytes \ results : count[r] = 0
  BY NoOtherSources, FS_EmptySet
<1>3. ASSUME NEW r \in results
      PROVE  count[r] > 0 /\ count[r] = count[min]
  <2>1. r \in Bytes
    <3>1. r \in Int /\ r >= 0 /\ r <= 255 BY <1>1, <1>3
    <3> QED BY <3>1, ByteFacts
  <2>2. Cardinality(Sources(min, max, r)) = Cardinality(Sources(min, max, min))
    <3>1. CASE min < max
      <4> DEFINE d == r - min
      <4>1. d \in 0 .. max - min /\ min + d = r BY <1>1, <1>3, <3>1
      <4> HIDE DEF d
      <4> QED BY <3>1, <4>1, EquallyManySources
    <3>2. CASE ~(min < max) BY <1>3, <3>2
    <3> QED BY <3>1, <3>2
  <2> QED BY <2>1, <2>2, MinimumHasSource
<1> QED BY <1>2, <1>3

(***************************************************************************)
(* Every range is drawn from uniformly.                                    *)
(***************************************************************************)
THEOREM DrawsAreUniform == RuntimeSpec => []BoundedDrawsAreUniform
<1>1. RuntimeInit => RuntimeQuery /\ BoundedDrawsAreUniform
  BY BeforeTheAnswer DEF BoundedDrawsAreUniform
<1>2. RuntimeQuery /\ BoundedDrawsAreUniform /\ [RuntimeNext]_vars
        => (RuntimeQuery /\ BoundedDrawsAreUniform)'
  <2> SUFFICES ASSUME RuntimeQuery, BoundedDrawsAreUniform,
                      [RuntimeNext]_vars
               PROVE  RuntimeQuery' /\ BoundedDrawsAreUniform'
    OBVIOUS
  <2>1. RuntimeQuery' /\ kind' = kind /\ query' = query BY QueryInvariance
  <2>2. CASE UNCHANGED vars
    BY <2>1, <2>2 DEF vars, BoundedDrawsAreUniform, Answered, Result
  <2>3. CASE RuntimeNext /\ kind = "range"
    <3>1. query \in [min : Bytes, max : Bytes]
      BY <2>3, RangesAssumption DEF RuntimeQuery
    <3>2. query.min \in Bytes /\ query.max \in Bytes BY <3>1
    <3>3. answer' =
            <<[r \in Bytes |-> Cardinality(Sources(query.min, query.max, r))]>>
      BY <2>3, Handlers DEF DrawRange, Answers, Sources
    <3>4. Result' = [r \in Bytes |-> Cardinality(Sources(query.min, query.max, r))]
      BY <3>3 DEF Result
    <3>5. LET results == IF query.min < query.max THEN query.min .. query.max
                         ELSE {query.min}
          IN /\ \A r \in Bytes \ results : Result'[r] = 0
             /\ \A r \in results : Result'[r] > 0 /\ Result'[r] = Result'[query.min]
      BY <3>2, <3>4, DrawFacts
    <3> QED BY <2>1, <3>5 DEF BoundedDrawsAreUniform
  <2>4. CASE RuntimeNext /\ kind # "range"
    BY <2>1, <2>4 DEF BoundedDrawsAreUniform, Answered
  <2> QED BY <2>2, <2>3, <2>4
<1> QED BY <1>1, <1>2, PTL DEF RuntimeSpec

=============================================================================
