--------------------------- MODULE PlannerProofs ---------------------------
(***************************************************************************)
(* Proofs about the two planners of the compiler, the partition of the     *)
(* hardware sprites and the memory layout, for every program, every number *)
(* of sprites and every setting of the layout.                             *)
(***************************************************************************)
EXTENDS SpriteAllocation, MemoryLayout, FiniteSetTheorems, WellFoundedInduction, TLAPS

(***************************************************************************)
(* Induction over the positions of a sequence, from the maximum of a       *)
(* finite set of numbers.                                                  *)
(***************************************************************************)

\* A finite set of numbers has a greatest one.
LEMMA Maximum ==
  ASSUME NEW S \in SUBSET Int, IsFiniteSet(S), S # {}
  PROVE  \E i \in S : \A j \in S : j <= i
<1> DEFINE Above(i) == {j \in S : j > i}
           T == {Above(i) : i \in S}
<1>1. T \subseteq FiniteSubsetsOf(S) /\ T # {}
  <2>1. \A i \in S : Above(i) \in SUBSET S OBVIOUS
  <2>2. FiniteSubsetsOf(S) = SUBSET S BY FS_FiniteSubsetsOfFinite
  <2>3. \A x \in T : x \in SUBSET S BY <2>1
  <2>4. T # {} OBVIOUS
  <2> HIDE DEF T
  <2> QED BY <2>2, <2>3, <2>4
<1>2. IsWellFoundedOn(StrictSubsetOrdering(S), FiniteSubsetsOf(S))
  BY FS_StrictSubsetOrderingWellFounded
<1>3. PICK x \in T : \A y \in T : ~(<<y, x>> \in StrictSubsetOrdering(S))
  <2> HIDE DEF T
  <2> QED BY <1>1, <1>2, WFMin
<1>4. PICK i \in S : x = Above(i) OBVIOUS
<1>5. ASSUME NEW j \in S, ~(j <= i) PROVE FALSE
  <2>1. j \in x /\ j \notin Above(j) BY <1>4, <1>5
  <2>2. Above(j) \subseteq x
    <3>1. j > i BY <1>5
    <3>2. \A k \in S : k > j => k > i BY <3>1
    <3> QED BY <1>4, <3>2
  <2>3. x \in SUBSET S /\ Above(j) \in SUBSET S /\ Above(j) \in T BY <1>4
  <2>4. <<Above(j), x>> \in StrictSubsetOrdering(S)
    <3> HIDE DEF Above
    <3> QED BY <2>1, <2>2, <2>3 DEF StrictSubsetOrdering
  <2> QED BY <2>3, <2>4, <1>3
<1> QED BY <1>5


\* A property that holds at 0 and carries over to the next number holds up
\* to n; it is given as the set of the numbers that have it.
LEMMA UpTo ==
  ASSUME NEW n \in Nat, NEW S, 0 \in S,
         \A k \in 0 .. n - 1 : k \in S => k + 1 \in S
  PROVE  \A k \in 0 .. n : k \in S
<1> SUFFICES ASSUME NEW m \in 0 .. n, m \notin S PROVE FALSE OBVIOUS
<1> DEFINE T == {k \in 0 .. m : \A j \in 0 .. k : j \in S}
<1>1. T \in SUBSET Int /\ 0 \in T OBVIOUS
<1>2. IsFiniteSet(T)
  <2>1. IsFiniteSet(0 .. m) BY FS_Interval
  <2> QED BY <2>1, FS_Subset
<1>3. PICK k \in T : \A j \in T : j <= k
  <2> HIDE DEF T
  <2> QED BY <1>1, <1>2, Maximum
<1>4. k \in 0 .. m /\ k \in S /\ \A j \in 0 .. k : j \in S OBVIOUS
<1>5. k < m BY <1>4
<1>6. k + 1 \in S BY <1>4, <1>5
<1>7. k + 1 \in T BY <1>4, <1>5, <1>6
<1> QED BY <1>3, <1>4, <1>7

\* CHOOSE of a least slot finds one.
LEMMA Minimum ==
  ASSUME NEW S \in SUBSET Nat, S # {}
  PROVE  Lowest(S) \in S /\ \A t \in S : Lowest(S) <= t
<1> DEFINE T == {k \in Nat : \A j \in 0 .. k : j \notin S}
<1>1. SUFFICES \E s \in S : \A t \in S : s <= t BY DEF Lowest
<1>2. SUFFICES ASSUME \A s \in S : \E t \in S : ~(s <= t) PROVE FALSE OBVIOUS
<1>3. PICK m \in S : TRUE OBVIOUS
<1>4. m \in Nat OBVIOUS
<1>5. 0 \in T
  <2>1. 0 \notin S BY <1>2
  <2> QED BY <2>1
<1>6. ASSUME NEW k \in 0 .. m - 1, k \in T PROVE k + 1 \in T
  <2>1. \A j \in 0 .. k : j \notin S BY <1>6
  <2>2. k + 1 \notin S
    <3> SUFFICES ASSUME k + 1 \in S PROVE FALSE OBVIOUS
    <3>1. PICK t \in S : ~(k + 1 <= t) BY <1>2
    <3>2. t \in 0 .. k BY <3>1
    <3> QED BY <2>1, <3>2
  <2>3. \A j \in 0 .. k + 1 : j \in 0 .. k \/ j = k + 1 OBVIOUS
  <2> QED BY <2>1, <2>2, <2>3
<1>7. m \in T
  <2> HIDE DEF T
  <2> QED BY <1>4, <1>5, <1>6, UpTo
<1> QED BY <1>3, <1>4, <1>7

-----------------------------------------------------------------------------
(***************************************************************************)
(* Partition of the sprites.  The claims that have a slot, and those left. *)
(***************************************************************************)
Served(reserved) == {r.claim : r \in reserved}
Left(program, reserved) ==
  (CreatedClaims(program) \cup ComponentClaims(program)) \ Served(reserved)

\* Slots and served claims correspond, and everything else is free.
Matched(program, free, reserved) ==
  /\ free \subseteq OamSlots
  /\ reserved \subseteq [slot : OamSlots, claim : Claims(program)]
  /\ {r.slot : r \in reserved} = OamSlots \ free
  /\ \A r, s \in reserved : r.slot = s.slot <=> r.claim = s.claim
  /\ \A r \in reserved : r.claim[1] = "explicit" => r.slot = r.claim[2]
  /\ {<<"explicit", s, 0>> : s \in NamedSprites(program)} \subseteq Served(reserved)

\* Claims are served in their order.
InOrder(program, reserved) ==
  \A c \in Served(reserved), d \in Left(program, reserved) :
    c[1] = "explicit" \/ Before(c, d)

\* An instance that has its first component finds room for the others.
Room(program, free, reserved) ==
  \A c \in Left(program, reserved) :
    c[1] = "component" /\ c[3] > 1 /\ <<"component", c[2], c[3] - 1>> \in Served(reserved)
      => program[c[2]].value - c[3] + 1 <= Cardinality(free)

Distribution(program, free, reserved) ==
  /\ Matched(program, free, reserved)
  /\ InOrder(program, reserved)
  /\ Room(program, free, reserved)

SpriteInv ==
  /\ kind = "sprites" /\ query \in SpritePrograms
  /\ progress # NotStarted => Distribution(query, Plan.free, Plan.reserved)
  /\ EverySpriteHasOneOwner

\* Sets of slots are finite, and their sizes add up.
LEMMA FiniteSlots ==
  ASSUME NEW free \in SUBSET OamSlots
  PROVE  /\ IsFiniteSet(OamSlots) /\ IsFiniteSet(free) /\ IsFiniteSet(OamSlots \ free)
         /\ Cardinality(free) \in Nat
         /\ Cardinality(OamSlots \ free) = HardwareSprites - Cardinality(free)
<1>1. HardwareSprites \in Nat BY SpriteLimits
<1>2. IsFiniteSet(OamSlots) /\ Cardinality(OamSlots) = HardwareSprites
  BY <1>1, FS_Interval DEF OamSlots
<1>3. IsFiniteSet(free) BY <1>2, FS_Subset
<1>4. Cardinality(free) \in Nat BY <1>3, FS_CardinalityType
<1>5. OamSlots \cap free = free OBVIOUS
<1> QED BY <1>2, <1>3, <1>4, <1>5, FS_Difference

\* As many claims are served as slots are taken.
LEMMA ServedCount ==
  ASSUME NEW program, NEW free, NEW reserved, Matched(program, free, reserved)
  PROVE  /\ IsFiniteSet(Served(reserved))
         /\ Cardinality(Served(reserved)) = HardwareSprites - Cardinality(free)
<1> DEFINE Taken == OamSlots \ free
           At(s) == CHOOSE r \in reserved : r.slot = s
           f == [s \in Taken |-> At(s).claim]
<1>1. free \in SUBSET OamSlots BY DEF Matched
<1>2. ASSUME NEW s \in Taken PROVE At(s) \in reserved /\ At(s).slot = s
  <2>1. \E r \in reserved : r.slot = s BY DEF Matched
  <2> QED BY <2>1
<1>3. f \in [Taken -> Served(reserved)] BY <1>2 DEF Served
<1>4. ASSUME NEW c \in Served(reserved) PROVE \E s \in Taken : f[s] = c
  <2>1. PICK r \in reserved : r.claim = c BY DEF Served
  <2>2. r.slot \in Taken BY DEF Matched
  <2>3. At(r.slot) \in reserved /\ At(r.slot).slot = r.slot BY <1>2, <2>2
  <2>4. At(r.slot).claim = r.claim BY <2>3 DEF Matched
  <2> QED BY <2>1, <2>2, <2>4
<1>5. ASSUME NEW s \in Taken, NEW t \in Taken, f[s] = f[t] PROVE s = t
  <2>1. At(s) \in reserved /\ At(s).slot = s /\ At(t) \in reserved /\ At(t).slot = t
    BY <1>2
  <2>2. At(s).claim = At(t).claim BY <1>5
  <2> QED BY <2>1, <2>2 DEF Matched
<1>6. ExistsBijection(Taken, Served(reserved))
  <2> HIDE DEF f
  <2>1. f \in Injection(Taken, Served(reserved)) BY <1>3, <1>5 DEF Injection, IsInjective
  <2>2. f \in Surjection(Taken, Served(reserved)) BY <1>3, <1>4 DEF Surjection
  <2> QED BY <2>1, <2>2 DEF ExistsBijection, Bijection
<1> QED BY <1>1, <1>6, FiniteSlots, FS_Bijection

\* A program names the sprites that the planner reserves for it.
LEMMA NamedAreExplicit ==
  ASSUME NEW program \in Seq(Site)
  PROVE  /\ ExplicitSlots(program) = NamedSprites(program)
         /\ NamedSprites(program) \subseteq OamSlots
<1>1. 0 \in OamSlots BY SpriteLimits DEF OamSlots
<1>2. ASSUME NEW i \in Sites(program, NamingKinds) PROVE program[i].value \in OamSlots
  <2>1. i \in DOMAIN program /\ program[i].kind \in NamingKinds BY DEF Sites
  <2>2. program[i] \in Site BY <2>1
  <2> QED BY <2>1, <2>2 DEF Site, NamingKinds
<1>3. ASSUME NEW s \in ExplicitSlots(program) PROVE s \in NamedSprites(program)
  <2>1. CASE \E i \in Sites(program, NamingKinds) : s = program[i].value
    BY <1>2, <2>1 DEF NamedSprites, Sites, NamingKinds
  <2>2. CASE \E i \in Sites(program, {"zero"}) : s = 0
    BY <1>1, <2>2 DEF NamedSprites, Sites
  <2> QED BY <1>3, <2>1, <2>2 DEF ExplicitSlots
<1>4. ASSUME NEW s \in NamedSprites(program) PROVE s \in ExplicitSlots(program)
  <2>1. PICK i \in DOMAIN program :
          (program[i].kind = "zero" /\ s = 0)
            \/ (program[i].kind \in NamingKinds /\ s = program[i].value)
    BY DEF NamedSprites, NamingKinds
  <2> QED BY <2>1 DEF ExplicitSlots, Sites
<1>5. NamedSprites(program) \subseteq OamSlots BY DEF NamedSprites
<1> QED BY <1>3, <1>4, <1>5

\* The components of one instance.
Components(program, i) == {<<"component", i, k>> : k \in 1 .. program[i].value}

\* An instance has as many component claims as its asset has components.
LEMMA ComponentCount ==
  ASSUME NEW program \in Seq(Site), NEW i \in Sites(program, {"instance"})
  PROVE  /\ program[i].value \in Nat
         /\ IsFiniteSet(Components(program, i))
         /\ Cardinality(Components(program, i)) = program[i].value
<1>1. program[i].value \in Nat
  <2>1. i \in DOMAIN program /\ program[i].kind = "instance" BY DEF Sites
  <2>2. program[i] \in Site BY <2>1
  <2> QED BY <2>1, <2>2 DEF Site, NamingKinds
<1> DEFINE n == program[i].value
           f == [k \in 1 .. n |-> <<"component", i, k>>]
<1>2. ExistsBijection(1 .. n, Components(program, i))
  <2>1. f \in [1 .. n -> Components(program, i)] BY DEF Components
  <2>2. \A c \in Components(program, i) : \E k \in 1 .. n : f[k] = c BY DEF Components
  <2>3. \A k, l \in 1 .. n : f[k] = f[l] => k = l OBVIOUS
  <2> HIDE DEF f
  <2>4. f \in Injection(1 .. n, Components(program, i)) BY <2>1, <2>3 DEF Injection, IsInjective
  <2>5. f \in Surjection(1 .. n, Components(program, i)) BY <2>1, <2>2 DEF Surjection
  <2> QED BY <2>4, <2>5 DEF ExistsBijection, Bijection
<1> HIDE DEF n
<1>3. n \in Nat BY <1>1 DEF n
<1>4. IsFiniteSet(1 .. n) /\ Cardinality(1 .. n) = n BY <1>3, FS_Interval
<1> QED BY <1>1, <1>2, <1>4, FS_Bijection DEF n

\* Component claims are those of the single instances.
LEMMA ComponentsOfInstances ==
  ASSUME NEW program
  PROVE  ComponentClaims(program) =
           UNION {Components(program, i) : i \in Sites(program, {"instance"})}
BY DEF ComponentClaims, Components

\* A program claims finitely many sprites.
LEMMA FiniteClaims ==
  ASSUME NEW program \in Seq(Site)
  PROVE  IsFiniteSet(Claims(program))
<1>1. IsFiniteSet(DOMAIN program)
  <2>1. DOMAIN program = 1 .. Len(program) /\ Len(program) \in Nat OBVIOUS
  <2> QED BY <2>1, FS_Interval
<1>2. IsFiniteSet(Sites(program, {"create"})) /\ IsFiniteSet(Sites(program, {"instance"}))
  BY <1>1, FS_Subset DEF Sites
<1>3. IsFiniteSet({<<"explicit", s, 0>> : s \in NamedSprites(program)})
  <2> DEFINE N == NamedSprites(program)
             T == {<<"explicit", s, 0>> : s \in N}
             f == [s \in N |-> <<"explicit", s, 0>>]
  <2>1. f \in Surjection(N, T) BY DEF Surjection
  <2>2. IsFiniteSet(N) BY NamedAreExplicit, FiniteSlots, FS_Subset
  <2> HIDE DEF N, T, f
  <2>3. IsFiniteSet(T) BY <2>1, <2>2, FS_Surjection
  <2> QED BY <2>3 DEF T, N
<1>4. IsFiniteSet(CreatedClaims(program))
  <2> DEFINE N == Sites(program, {"create"})
             T == {<<"created", i, 0>> : i \in N}
             f == [i \in N |-> <<"created", i, 0>>]
  <2>1. f \in Surjection(N, T) BY DEF Surjection
  <2>2. IsFiniteSet(N) BY <1>2
  <2> HIDE DEF N, T, f
  <2>3. IsFiniteSet(T) BY <2>1, <2>2, FS_Surjection
  <2> QED BY <2>3 DEF T, N, CreatedClaims
<1>5. IsFiniteSet(ComponentClaims(program))
  <2> DEFINE N == Sites(program, {"instance"})
             T == {Components(program, i) : i \in N}
             f == [i \in N |-> Components(program, i)]
  <2>1. f \in Surjection(N, T) BY DEF Surjection
  <2>2. ASSUME NEW C \in T PROVE IsFiniteSet(C)
    <3>1. PICK i \in N : C = Components(program, i) OBVIOUS
    <3> QED BY <3>1, ComponentCount
  <2>3. IsFiniteSet(N) BY <1>2
  <2>4. ComponentClaims(program) = UNION T BY ComponentsOfInstances
  <2> HIDE DEF N, T, f
  <2>5. IsFiniteSet(T) BY <2>1, <2>3, FS_Surjection
  <2> QED BY <2>2, <2>4, <2>5, FS_UNION
<1> QED BY <1>3, <1>4, <1>5, FS_Union DEF Claims

\* Claims of different kinds are different.
LEMMA ClaimForms ==
  ASSUME NEW program, NEW c
  PROVE  /\ c \in CreatedClaims(program) =>
              c[1] = "created" /\ c = <<"created", c[2], 0>> /\ c[2] \in Sites(program, {"create"})
         /\ c \in ComponentClaims(program) <=>
              /\ c[1] = "component" /\ c = <<"component", c[2], c[3]>>
              /\ c[2] \in Sites(program, {"instance"}) /\ c[3] \in 1 .. program[c[2]].value
         /\ c \in Claims(program) /\ c[1] = "explicit" => c = <<"explicit", c[2], 0>>
<1>1. c \in CreatedClaims(program) =>
        c[1] = "created" /\ c = <<"created", c[2], 0>> /\ c[2] \in Sites(program, {"create"})
  BY DEF CreatedClaims
<1>2. c \in ComponentClaims(program) <=>
        \E i \in Sites(program, {"instance"}) :
          \E k \in 1 .. program[i].value : c = <<"component", i, k>>
  BY DEF ComponentClaims
<1>3. c \in ComponentClaims(program) <=>
              /\ c[1] = "component" /\ c = <<"component", c[2], c[3]>>
              /\ c[2] \in Sites(program, {"instance"}) /\ c[3] \in 1 .. program[c[2]].value
  BY <1>2
<1>4. c \in Claims(program) /\ c[1] = "explicit" => c = <<"explicit", c[2], 0>>
  BY <1>1, <1>3 DEF Claims
<1> QED BY <1>1, <1>3, <1>4

\* A reservation of the lowest free slot keeps the distribution, if the
\* instance of the claim has room for its other components.
LEMMA ReserveKeeps ==
  ASSUME NEW program \in Seq(Site), NEW free, NEW reserved, NEW claim, NEW slot \in free,
         Distribution(program, free, reserved),
         claim \in Left(program, reserved),
         \A c \in Left(program, reserved) \ {claim} : Before(claim, c),
         claim \in ComponentClaims(program) =>
           program[claim[2]].value - claim[3] + 1 <= Cardinality(free)
  PROVE  Distribution(program, free \ {slot},
                      reserved \cup {[slot |-> slot, claim |-> claim]})
<1> DEFINE free1 == free \ {slot}
           new == [slot |-> slot, claim |-> claim]
           reserved1 == reserved \cup {new}
<1>0. new.slot = slot /\ new.claim = claim OBVIOUS
<1> HIDE DEF new
<1>1. Matched(program, free, reserved) BY DEF Distribution
<1>2. claim \notin Served(reserved) /\ claim \in CreatedClaims(program) \cup ComponentClaims(program)
  BY DEF Left
<1>3. claim[1] # "explicit" /\ claim \in Claims(program) BY <1>2, ClaimForms DEF Claims
<1>4. Served(reserved1) = Served(reserved) \cup {claim} BY <1>0 DEF Served
<1>5. Left(program, reserved1) = Left(program, reserved) \ {claim} BY <1>4 DEF Left
<1>6. Matched(program, free1, reserved1)
  <2>1. free1 \subseteq OamSlots /\ slot \in OamSlots BY <1>1 DEF Matched
  <2>2. new \in [slot : OamSlots, claim : Claims(program)] BY <1>3, <2>1 DEF new
  <2>3. reserved1 \subseteq [slot : OamSlots, claim : Claims(program)] BY <1>1, <2>2 DEF Matched
  <2>4. {r.slot : r \in reserved1} = OamSlots \ free1
    <3>1. {r.slot : r \in reserved1} = {r.slot : r \in reserved} \cup {slot} BY <1>0
    <3>2. {r.slot : r \in reserved} = OamSlots \ free BY <1>1 DEF Matched
    <3> HIDE DEF reserved1
    <3> QED BY <2>1, <3>1, <3>2
  <2>5. ASSUME NEW r \in reserved PROVE r.slot # slot /\ r.claim # claim
    <3>1. r.slot \in OamSlots \ free BY <1>1 DEF Matched
    <3>2. r.claim \in Served(reserved) BY DEF Served
    <3> QED BY <1>2, <3>1, <3>2
  <2>6. \A r, s \in reserved1 : r.slot = s.slot <=> r.claim = s.claim
    BY <1>0, <1>1, <2>5 DEF Matched
  <2>7. \A r \in reserved1 : r.claim[1] = "explicit" => r.slot = r.claim[2]
    BY <1>0, <1>1, <1>3 DEF Matched
  <2>8. {<<"explicit", s, 0>> : s \in NamedSprites(program)} \subseteq Served(reserved1)
    BY <1>1, <1>4 DEF Matched
  <2> HIDE DEF free1, reserved1
  <2> QED BY <2>1, <2>3, <2>4, <2>6, <2>7, <2>8 DEF Matched
<1>7. InOrder(program, reserved1)
  <2> SUFFICES ASSUME NEW c \in Served(reserved1), NEW d \in Left(program, reserved1)
               PROVE  c[1] = "explicit" \/ Before(c, d)
    BY DEF InOrder
  <2>1. d \in Left(program, reserved) /\ d # claim BY <1>5
  <2>2. CASE c = claim BY <2>1, <2>2
  <2>3. CASE c \in Served(reserved) BY <2>1, <2>3 DEF Distribution, InOrder
  <2> QED BY <1>4, <2>2, <2>3
<1>8. Room(program, free1, reserved1)
  <2> SUFFICES ASSUME NEW c \in Left(program, reserved1), c[1] = "component", c[3] > 1,
                      <<"component", c[2], c[3] - 1>> \in Served(reserved1)
               PROVE  program[c[2]].value - c[3] + 1 <= Cardinality(free1)
    BY DEF Room
  <2> DEFINE previous == <<"component", c[2], c[3] - 1>>
  <2>1. c \in Left(program, reserved) /\ c # claim /\ Before(claim, c) BY <1>5
  <2>2. c = <<"component", c[2], c[3]>> /\ c[2] \in Sites(program, {"instance"})
        /\ c[3] \in 1 .. program[c[2]].value
    <3>1. c \in CreatedClaims(program) \/ c \in ComponentClaims(program) BY <2>1 DEF Left
    <3> QED BY <3>1, ClaimForms
  <2>3. previous = claim
    <3> SUFFICES ASSUME previous \in Served(reserved) PROVE FALSE BY <1>4
    <3>1. previous[1] = "component" /\ previous[2] = c[2] /\ previous[3] = c[3] - 1 OBVIOUS
    <3>2. Before(previous, claim) BY <3>1 DEF Distribution, InOrder
    <3>3. claim[1] = "component" BY <3>1, <3>2 DEF Before
    <3>4. claim[2] \in Sites(program, {"instance"}) /\ claim[3] \in 1 .. program[claim[2]].value
      BY <1>2, <3>3, ClaimForms
    <3>5. claim[2] \in Int /\ claim[3] \in Int /\ c[2] \in Int /\ c[3] \in Int
      <4>1. Sites(program, {"instance"}) \subseteq Int BY DEF Sites
      <4> QED BY <2>2, <3>4, <4>1
    <3> HIDE DEF previous
    <3>6. previous[2] < claim[2] \/ (previous[2] = claim[2] /\ previous[3] < claim[3])
      BY <3>1, <3>2, <3>3 DEF Before
    <3>7. claim[2] < c[2] \/ (claim[2] = c[2] /\ claim[3] < c[3])
      BY <2>1, <3>3, <2>2 DEF Before
    <3> QED BY <3>1, <3>5, <3>6, <3>7
  <2>4. claim \in ComponentClaims(program) /\ claim[2] = c[2] /\ claim[3] = c[3] - 1
    <3>1. claim[1] = "component" /\ claim[2] = c[2] /\ claim[3] = c[3] - 1 BY <2>3
    <3> QED BY <1>2, <3>1, ClaimForms
  <2>5. program[c[2]].value \in Nat BY <2>2, ComponentCount
  <2>6. Cardinality(free) \in Nat /\ Cardinality(free1) = Cardinality(free) - 1
    <3>1. free \in SUBSET OamSlots BY <1>1 DEF Matched
    <3>2. IsFiniteSet(free) /\ Cardinality(free) \in Nat BY <3>1, FiniteSlots
    <3> QED BY <3>2, FS_RemoveElement
  <2>7. program[c[2]].value - (c[3] - 1) + 1 <= Cardinality(free) BY <2>4
  <2> HIDE DEF free1
  <2> QED BY <2>2, <2>5, <2>6, <2>7
<1> HIDE DEF free1, reserved1
<1>9. Distribution(program, free1, reserved1) BY <1>6, <1>7, <1>8 DEF Distribution
<1> QED BY <1>9 DEF free1, reserved1, new

\* The first reservations are those of the named sprites.
LEMMA FirstDistribution ==
  ASSUME NEW program \in Seq(Site)
  PROVE  Distribution(program, OamSlots \ ExplicitSlots(program),
                      {[slot |-> s, claim |-> <<"explicit", s, 0>>] : s \in ExplicitSlots(program)})
<1> DEFINE E == NamedSprites(program)
           reserved == {[slot |-> s, claim |-> <<"explicit", s, 0>>] : s \in E}
<1>1. ExplicitSlots(program) = E /\ E \subseteq OamSlots BY NamedAreExplicit
<1> HIDE DEF E
<1>2. \A s \in E : <<"explicit", s, 0>> \in Claims(program) BY DEF Claims, E
<1>3. ASSUME NEW r \in reserved
      PROVE  r.slot \in E /\ r.claim = <<"explicit", r.slot, 0>>
             /\ r \in [slot : OamSlots, claim : Claims(program)]
  BY <1>1, <1>2
<1>4. ASSUME NEW s \in E PROVE \E r \in reserved : r.slot = s /\ r.claim = <<"explicit", s, 0>>
  <2>1. [slot |-> s, claim |-> <<"explicit", s, 0>>] \in reserved OBVIOUS
  <2> QED BY <2>1
<1> HIDE DEF reserved
<1>5. {r.slot : r \in reserved} = E BY <1>3, <1>4
<1>6. \A r, s \in reserved : r.slot = s.slot <=> r.claim = s.claim
  <2> SUFFICES ASSUME NEW r \in reserved, NEW s \in reserved
               PROVE  r.slot = s.slot <=> r.claim = s.claim
    OBVIOUS
  <2>1. r.claim = <<"explicit", r.slot, 0>> /\ s.claim = <<"explicit", s.slot, 0>> BY <1>3
  <2> QED BY <2>1
<1>7. \A r \in reserved : r.claim[1] = "explicit" /\ r.slot = r.claim[2] BY <1>3
<1>8. {<<"explicit", s, 0>> : s \in E} \subseteq Served(reserved) BY <1>4 DEF Served
<1>9. Matched(program, OamSlots \ E, reserved)
  BY <1>1, <1>3, <1>5, <1>6, <1>7, <1>8 DEF Matched, E
<1>10. \A c \in Served(reserved) : c[1] = "explicit" BY <1>7 DEF Served
<1>11. InOrder(program, reserved) BY <1>10 DEF InOrder
<1>12. Room(program, OamSlots \ E, reserved) BY <1>10 DEF Room
<1>13. Distribution(program, OamSlots \ E, reserved) BY <1>9, <1>11, <1>12 DEF Distribution
<1> QED BY <1>1, <1>13 DEF reserved

\* With every claim served, the reservations are what the property asks for.
LEMMA AllServed ==
  ASSUME NEW program \in Seq(Site), NEW free, NEW reserved,
         Distribution(program, free, reserved), Left(program, reserved) = {}
  PROVE  /\ Served(reserved) = Claims(program)
         /\ Cardinality(Claims(program)) <= HardwareSprites
<1>1. Matched(program, free, reserved) BY DEF Distribution
<1>2. Served(reserved) = Claims(program)
  <2>1. Served(reserved) \subseteq Claims(program) BY <1>1 DEF Matched, Served
  <2>2. CreatedClaims(program) \cup ComponentClaims(program) \subseteq Served(reserved) BY DEF Left
  <2> QED BY <1>1, <2>1, <2>2 DEF Claims, Matched
<1>3. Cardinality(free) \in Nat BY <1>1, FiniteSlots DEF Matched
<1>4. Cardinality(Claims(program)) = HardwareSprites - Cardinality(free) BY <1>1, <1>2, ServedCount
<1> QED BY <1>2, <1>3, <1>4, SpriteLimits

\* More claims are left than slots: some set of them is larger.
LEMMA NotEnough ==
  ASSUME NEW program \in Seq(Site), NEW free, NEW reserved,
         Distribution(program, free, reserved),
         NEW C \in SUBSET Left(program, reserved), IsFiniteSet(C),
         Cardinality(C) > Cardinality(free)
  PROVE  Cardinality(Claims(program)) > HardwareSprites
<1>1. Matched(program, free, reserved) BY DEF Distribution
<1>2. Cardinality(free) \in Nat BY <1>1, FiniteSlots DEF Matched
<1>3. IsFiniteSet(Served(reserved))
      /\ Cardinality(Served(reserved)) = HardwareSprites - Cardinality(free)
  BY <1>1, ServedCount
<1>4. Served(reserved) \cap C = {} BY DEF Left
<1>5. Cardinality(Served(reserved) \cup C)
        = Cardinality(Served(reserved)) + Cardinality(C) - Cardinality(Served(reserved) \cap C)
  BY <1>3, FS_Union
<1>6. Cardinality(Served(reserved) \cap C) = 0 BY <1>4, FS_EmptySet
<1>7. Served(reserved) \cup C \subseteq Claims(program)
  <2>1. Served(reserved) \subseteq Claims(program) BY <1>1 DEF Matched, Served
  <2> QED BY <2>1 DEF Left, Claims
<1>8. Cardinality(Served(reserved) \cup C) <= Cardinality(Claims(program))
      /\ Cardinality(Claims(program)) \in Nat
  BY <1>7, FiniteClaims, FS_Subset, FS_CardinalityType
<1>9. Cardinality(C) \in Nat BY FS_CardinalityType
<1>10. HardwareSprites \in Nat BY SpriteLimits
<1> QED BY <1>2, <1>3, <1>5, <1>6, <1>8, <1>9, <1>10

\* Giving the next claim a free slot preserves the invariant.
LEMMA ReserveStep ==
  ASSUME SpriteInv, InLoop("sprites"), NEW claim, IsNext(claim), Reserve(claim), Plan.free # {},
         claim \in ComponentClaims(query) =>
           query[claim[2]].value - claim[3] + 1 <= Cardinality(Plan.free)
  PROVE  SpriteInv'
<1> DEFINE slot == Lowest(Plan.free)
<1>1. query \in Seq(Site) BY SpriteProgramsAssumption DEF SpriteInv
<1>2. Distribution(query, Plan.free, Plan.reserved) BY DEF SpriteInv, InLoop
<1>3. slot \in Plan.free
  <2>1. Plan.free \in SUBSET Nat
    BY <1>2, SpriteLimits DEF Distribution, Matched, OamSlots
  <2> QED BY <2>1, Minimum
<1>4. Unserved = Left(query, Plan.reserved) BY DEF Unserved, Left, Served
<1>5. claim \in Left(query, Plan.reserved)
      /\ \A c \in Left(query, Plan.reserved) \ {claim} : Before(claim, c)
  BY <1>4 DEF IsNext
<1> HIDE DEF slot
<1>6. Distribution(query, Plan.free \ {slot},
                   Plan.reserved \cup {[slot |-> slot, claim |-> claim]})
  BY <1>1, <1>2, <1>3, <1>5, ReserveKeeps
<1>7. progress' = <<[free |-> Plan.free \ {slot},
                     reserved |-> Plan.reserved \cup {[slot |-> slot, claim |-> claim]}]>>
      /\ UNCHANGED <<kind, query, answer>>
  BY DEF Reserve, Continues, vars, slot
<1>8. Plan'.free = Plan.free \ {slot}
      /\ Plan'.reserved = Plan.reserved \cup {[slot |-> slot, claim |-> claim]}
  BY <1>7 DEF Plan
<1>9. Distribution(query', Plan'.free, Plan'.reserved) BY <1>6, <1>7, <1>8
<1>10. EverySpriteHasOneOwner'
  BY <1>7 DEF EverySpriteHasOneOwner, Answered, InLoop, Unanswered
<1> QED BY <1>7, <1>9, <1>10 DEF SpriteInv

\* A refusal is right if there are more claims than sprites or too many instances.
LEMMA RefuseStep ==
  ASSUME SpriteInv, InLoop("sprites"), Refuse,
         Cardinality(Claims(query)) > HardwareSprites
           \/ Cardinality(Sites(query, {"instance"})) > MaxInstances
  PROVE  SpriteInv'
<1>1. answer' = <<[accepted |-> FALSE, reserved |-> {}]>> /\ UNCHANGED <<kind, query, progress>>
  BY DEF Refuse, Ends, Answers
<1>2. Result'.accepted = FALSE BY <1>1 DEF Result
<1>3. query \in Seq(Site) BY SpriteProgramsAssumption DEF SpriteInv
<1>4. Cardinality(Claims(query)) \in Nat BY <1>3, FiniteClaims, FS_CardinalityType
<1>5. Cardinality(Sites(query, {"instance"})) \in Nat
  <2>1. DOMAIN query = 1 .. Len(query) /\ Len(query) \in Nat BY <1>3
  <2>2. IsFiniteSet(DOMAIN query) BY <2>1, FS_Interval
  <2>3. IsFiniteSet(Sites(query, {"instance"})) BY <2>2, FS_Subset DEF Sites
  <2> QED BY <2>3, FS_CardinalityType
<1>6. ~(/\ Cardinality(Claims(query)) <= HardwareSprites
        /\ Cardinality(Sites(query, {"instance"})) <= MaxInstances)
  BY <1>4, <1>5, SpriteLimits
<1>7. EverySpriteHasOneOwner' BY <1>1, <1>2, <1>6 DEF EverySpriteHasOneOwner
<1>8. (progress # NotStarted => Distribution(query, Plan.free, Plan.reserved))'
  BY <1>1 DEF SpriteInv, Plan
<1> QED BY <1>1, <1>7, <1>8 DEF SpriteInv

\* Reserving the named sprites establishes the distribution.
LEMMA ReserveExplicitStep ==
  ASSUME SpriteInv, ReserveExplicit
  PROVE  SpriteInv'
<1> DEFINE free1 == OamSlots \ ExplicitSlots(query)
           reserved1 == {[slot |-> s, claim |-> <<"explicit", s, 0>>] : s \in ExplicitSlots(query)}
<1>1. query \in Seq(Site) BY SpriteProgramsAssumption DEF SpriteInv
<1>2. Distribution(query, free1, reserved1) BY <1>1, FirstDistribution
<1> HIDE DEF free1, reserved1
<1>3. progress' = <<[free |-> free1, reserved |-> reserved1]>>
      /\ answer = Unanswered /\ UNCHANGED <<kind, query, answer>>
  BY DEF ReserveExplicit, Starts, vars, free1, reserved1
<1>4. Plan'.free = free1 /\ Plan'.reserved = reserved1 BY <1>3 DEF Plan
<1>5. EverySpriteHasOneOwner' BY <1>3 DEF EverySpriteHasOneOwner, Answered, Unanswered
<1> QED BY <1>2, <1>3, <1>4, <1>5 DEF SpriteInv

\* One turn of the loop over the calls of sprite_create.
LEMMA CreateSpriteStep ==
  ASSUME SpriteInv, CreateSprite
  PROVE  SpriteInv'
<1>1. PICK claim \in CreatedClaims(query) :
        IsNext(claim) /\ IF Plan.free = {} THEN Refuse ELSE Reserve(claim)
  BY DEF CreateSprite
<1>2. InLoop("sprites") BY DEF CreateSprite
<1>3. query \in Seq(Site) BY SpriteProgramsAssumption DEF SpriteInv
<1>4. Distribution(query, Plan.free, Plan.reserved) BY <1>2 DEF SpriteInv, InLoop
<1>5. CASE Plan.free = {}
  <2>1. claim \in Left(query, Plan.reserved) BY <1>1 DEF IsNext, Unserved, Left, Served
  <2>2. IsFiniteSet({claim}) /\ Cardinality({claim}) = 1 BY FS_Singleton
  <2>3. Cardinality(Plan.free) = 0 BY <1>5, FS_EmptySet
  <2>4. Cardinality(Claims(query)) > HardwareSprites
    <3>1. {claim} \in SUBSET Left(query, Plan.reserved) BY <2>1
    <3>2. Cardinality({claim}) > Cardinality(Plan.free) BY <2>2, <2>3
    <3> QED BY <1>3, <1>4, <2>2, <3>1, <3>2, NotEnough
  <2> QED BY <1>1, <1>2, <1>5, <2>4, RefuseStep
<1>6. CASE Plan.free # {}
  <2>1. claim \notin ComponentClaims(query) BY ClaimForms
  <2> QED BY <1>1, <1>2, <1>6, <2>1, ReserveStep
<1> QED BY <1>5, <1>6

\* One component in the loop over the metasprite instances.
LEMMA CreateComponentStep ==
  ASSUME SpriteInv, CreateComponent
  PROVE  SpriteInv'
<1>1. PICK claim \in ComponentClaims(query) :
        /\ IsNext(claim)
        /\ IF claim[3] = 1 /\ Cardinality(Plan.free) < query[claim[2]].value
           THEN Refuse ELSE Reserve(claim)
  BY DEF CreateComponent
<1>2. InLoop("sprites") BY DEF CreateComponent
<1>3. query \in Seq(Site) BY SpriteProgramsAssumption DEF SpriteInv
<1>4. Distribution(query, Plan.free, Plan.reserved) BY <1>2 DEF SpriteInv, InLoop
<1>5. Unserved = Left(query, Plan.reserved) BY DEF Unserved, Left, Served
<1>6. claim = <<"component", claim[2], claim[3]>> /\ claim[2] \in Sites(query, {"instance"})
      /\ claim[1] = "component" /\ claim[3] \in 1 .. query[claim[2]].value
  BY ClaimForms
<1>7. query[claim[2]].value \in Nat BY <1>3, <1>6, ComponentCount
<1>8. Plan.free \in SUBSET OamSlots BY <1>4 DEF Distribution, Matched
<1>9. Cardinality(Plan.free) \in Nat /\ (Plan.free = {} => Cardinality(Plan.free) = 0)
  BY <1>8, FiniteSlots, FS_EmptySet
<1>10. claim \in Left(query, Plan.reserved)
       /\ \A c \in Left(query, Plan.reserved) \ {claim} : Before(claim, c)
  BY <1>1, <1>5 DEF IsNext
<1>11. CASE claim[3] = 1 /\ Cardinality(Plan.free) < query[claim[2]].value
  <2> DEFINE C == Components(query, claim[2])
  <2>1. IsFiniteSet(C) /\ Cardinality(C) = query[claim[2]].value BY <1>3, <1>6, ComponentCount
  <2>2. ASSUME NEW c \in C PROVE c \in Left(query, Plan.reserved)
    <3>1. PICK k \in 1 .. query[claim[2]].value : c = <<"component", claim[2], k>>
      BY DEF Components
    <3>2. c[1] = "component" /\ c[2] = claim[2] /\ c[3] = k BY <3>1
    <3>3. c \in ComponentClaims(query) BY <1>6, <3>1, <3>2, ClaimForms
    <3>4. ASSUME c \in Served(Plan.reserved) PROVE FALSE
      <4>1. Before(c, claim) BY <1>4, <1>10, <3>2, <3>4 DEF Distribution, InOrder
      <4>2. claim[2] \in Int
        <5>1. DOMAIN query \subseteq Int BY <1>3
        <5> QED BY <1>6, <5>1 DEF Sites
      <4> QED BY <1>6, <1>7, <1>11, <3>2, <4>1, <4>2 DEF Before
    <3> QED BY <3>3, <3>4 DEF Left
  <2>3. Cardinality(C) > Cardinality(Plan.free) BY <1>7, <1>9, <1>11, <2>1
  <2> HIDE DEF C
  <2>4. Cardinality(Claims(query)) > HardwareSprites
    <3>1. C \in SUBSET Left(query, Plan.reserved) BY <2>2
    <3> QED BY <1>3, <1>4, <2>1, <2>3, <3>1, NotEnough
  <2> QED BY <1>1, <1>2, <1>11, <2>4, RefuseStep
<1>12. CASE ~(claim[3] = 1 /\ Cardinality(Plan.free) < query[claim[2]].value)
  <2>1. query[claim[2]].value - claim[3] + 1 <= Cardinality(Plan.free)
    <3>1. CASE claim[3] = 1 BY <1>7, <1>9, <1>12, <3>1
    <3>2. CASE claim[3] # 1
      <4> DEFINE previous == <<"component", claim[2], claim[3] - 1>>
      <4>1. previous[1] = "component" /\ previous[2] = claim[2] /\ previous[3] = claim[3] - 1
        OBVIOUS
      <4>2. claim[3] > 1 BY <1>6, <1>7, <3>2
      <4>3. previous \in ComponentClaims(query)
        <5>1. previous[3] \in 1 .. query[claim[2]].value BY <1>6, <1>7, <4>1, <4>2
        <5> HIDE DEF previous
        <5>2. previous = <<"component", previous[2], previous[3]>> BY <4>1 DEF previous
        <5> QED BY <1>6, <4>1, <5>1, <5>2, ClaimForms
      <4>4. previous \in Served(Plan.reserved)
        <5> SUFFICES ASSUME previous \notin Served(Plan.reserved) PROVE FALSE OBVIOUS
        <5>1. previous \in Left(query, Plan.reserved) BY <4>3 DEF Left
        <5>2. previous # claim BY <1>6, <1>7, <4>1
        <5>3. Before(claim, previous) BY <1>10, <5>1, <5>2
        <5>4. claim[2] \in Int
          <6>1. DOMAIN query \subseteq Int BY <1>3
          <6> QED BY <1>6, <6>1 DEF Sites
        <5> HIDE DEF previous
        <5> QED BY <1>6, <1>7, <4>1, <5>3, <5>4 DEF Before
      <4> QED BY <1>4, <1>6, <1>10, <4>2, <4>4 DEF Distribution, Room
    <3> QED BY <3>1, <3>2
  <2>2. Plan.free # {} BY <1>6, <1>7, <1>9, <2>1
  <2> QED BY <1>1, <1>2, <1>12, <2>1, <2>2, ReserveStep
<1> QED BY <1>11, <1>12

\* When nothing is unserved, the plan has what the program asks for.
LEMMA AcceptSpritesStep ==
  ASSUME SpriteInv, AcceptSprites
  PROVE  SpriteInv'
<1>1. InLoop("sprites") /\ Unserved = {} /\ ~TooManyInstances BY DEF AcceptSprites
<1>2. answer' = <<[accepted |-> TRUE, reserved |-> Plan.reserved]>>
      /\ UNCHANGED <<kind, query, progress>>
  BY DEF AcceptSprites, Ends, Answers
<1>3. query \in Seq(Site) BY SpriteProgramsAssumption DEF SpriteInv
<1>4. Distribution(query, Plan.free, Plan.reserved) BY <1>1 DEF SpriteInv, InLoop
<1>5. Left(query, Plan.reserved) = {} BY <1>1 DEF Unserved, Left, Served
<1>6. Served(Plan.reserved) = Claims(query) /\ Cardinality(Claims(query)) <= HardwareSprites
  BY <1>3, <1>4, <1>5, AllServed
<1>7. Cardinality(Sites(query, {"instance"})) <= MaxInstances
  <2>1. DOMAIN query = 1 .. Len(query) /\ Len(query) \in Nat BY <1>3
  <2>2. IsFiniteSet(DOMAIN query) BY <2>1, FS_Interval
  <2>3. IsFiniteSet(Sites(query, {"instance"})) BY <2>2, FS_Subset DEF Sites
  <2>4. Cardinality(Sites(query, {"instance"})) \in Nat BY <2>3, FS_CardinalityType
  <2> QED BY <1>1, <2>4, SpriteLimits DEF TooManyInstances
<1>8. Result'.accepted = TRUE /\ Result'.reserved = Plan.reserved BY <1>2 DEF Result
<1> DEFINE reserved == Plan.reserved
<1>9. /\ {r.claim : r \in reserved} = Claims(query)
      /\ \A r \in reserved : r.slot \in OamSlots /\ (r.claim[1] = "explicit" => r.slot = r.claim[2])
      /\ \A r, s \in reserved : r.slot = s.slot <=> r.claim = s.claim
  BY <1>4, <1>6 DEF Distribution, Matched, Served
<1> HIDE DEF reserved
<1>10. Result'.reserved = reserved BY <1>8 DEF reserved
<1>11. EverySpriteHasOneOwner'
  BY <1>2, <1>6, <1>7, <1>8, <1>9, <1>10 DEF EverySpriteHasOneOwner
<1>12. (progress # NotStarted => Distribution(query, Plan.free, Plan.reserved))'
  BY <1>2 DEF SpriteInv, Plan
<1> QED BY <1>2, <1>11, <1>12 DEF SpriteInv

(***************************************************************************)
(* _plan_sprite_ownership: in every accepted program each named sprite,    *)
(* created sprite and metasprite component has a slot of its own, and a    *)
(* program is refused exactly if it asks for more than there is.           *)
(***************************************************************************)
THEOREM SpritesAreShared == SpriteSpec => []EverySpriteHasOneOwner
<1>1. SpriteInit => SpriteInv
  BY DEF SpriteInit, SpriteInv, EverySpriteHasOneOwner, Answered
<1>2. SpriteInv /\ [SpriteNext]_planVars => SpriteInv'
  <2> SUFFICES ASSUME SpriteInv, [SpriteNext]_planVars PROVE SpriteInv' OBVIOUS
  <2>1. CASE ReserveExplicit BY <2>1, ReserveExplicitStep
  <2>2. CASE CreateSprite BY <2>2, CreateSpriteStep
  <2>3. CASE RefuseInstances
    <3>1. InLoop("sprites") /\ Refuse /\ Cardinality(Sites(query, {"instance"})) > MaxInstances
      BY <2>3 DEF RefuseInstances, TooManyInstances
    <3> QED BY <3>1, RefuseStep
  <2>4. CASE CreateComponent BY <2>4, CreateComponentStep
  <2>5. CASE AcceptSprites BY <2>5, AcceptSpritesStep
  <2>6. CASE UNCHANGED planVars
    BY <2>6 DEF planVars, SpriteInv, EverySpriteHasOneOwner, Answered, Result, Plan
  <2> QED BY <2>1, <2>2, <2>3, <2>4, <2>5, <2>6 DEF SpriteNext
<1>3. SpriteInv => EverySpriteHasOneOwner BY DEF SpriteInv
<1> QED BY <1>1, <1>2, <1>3, PTL DEF SpriteSpec

-----------------------------------------------------------------------------
(***************************************************************************)
(* Memory layout.  Sums of sizes.                                          *)
(***************************************************************************)

\* The recursion of PartialSums defines a function.
LEMMA Sums ==
  ASSUME NEW q \in Seq(Nat)
  PROVE  /\ PartialSums(q) \in [0 .. Len(q) -> Nat]
         /\ PartialSums(q)[0] = 0
         /\ \A k \in 0 .. Len(q) - 1 : PartialSums(q)[k + 1] = PartialSums(q)[k] + q[k + 1]
<1> DEFINE n == Len(q)
           IsSum(g, m) == /\ g \in [0 .. m -> Nat] /\ g[0] = 0
                          /\ \A k \in 1 .. m : g[k] = g[k - 1] + q[k]
           S == {m \in 0 .. n : \E g : IsSum(g, m)}
<1>1. n \in Nat OBVIOUS
<1>2. 0 \in S
  <2>1. IsSum([k \in 0 .. 0 |-> 0], 0) OBVIOUS
  <2> HIDE DEF IsSum
  <2>2. \E g : IsSum(g, 0) BY <2>1
  <2> QED BY <1>1, <2>2
<1>3. ASSUME NEW m \in 0 .. n - 1, m \in S PROVE m + 1 \in S
  <2>1. PICK g : IsSum(g, m) BY <1>3
  <2> DEFINE h == [k \in 0 .. m + 1 |-> IF k = m + 1 THEN g[m] + q[m + 1] ELSE g[k]]
  <2>2. q[m + 1] \in Nat /\ g[m] \in Nat BY <2>1
  <2>3. h \in [0 .. m + 1 -> Nat] BY <2>1, <2>2
  <2>4. h[0] = 0 BY <2>1
  <2>5. ASSUME NEW k \in 1 .. m + 1 PROVE h[k] = h[k - 1] + q[k]
    <3>1. CASE k = m + 1 BY <3>1
    <3>2. CASE k # m + 1
      <4>1. k \in 1 .. m /\ k - 1 # m + 1 /\ k - 1 \in 0 .. m + 1 BY <3>2
      <4> QED BY <2>1, <3>2, <4>1
    <3> QED BY <3>1, <3>2
  <2> HIDE DEF h
  <2>6. IsSum(h, m + 1) BY <2>3, <2>4, <2>5
  <2>7. m + 1 \in 0 .. n BY <1>1
  <2> HIDE DEF IsSum, n
  <2>8. \E f : IsSum(f, m + 1) BY <2>6
  <2> QED BY <2>7, <2>8
<1>4. n \in S
  <2> HIDE DEF S, n
  <2>1. \A k \in 0 .. n : k \in S BY <1>1, <1>2, <1>3, UpTo
  <2> QED BY <1>1, <2>1
<1>5. PICK g : IsSum(g, n) BY <1>4
<1> DEFINE F == [k \in 0 .. n |-> IF k = 0 THEN 0 ELSE g[k - 1] + q[k]]
<1>6. g = F
  <2>1. \A k \in 0 .. n : g[k] = F[k] BY <1>5
  <2> QED BY <1>5, <2>1
<1>7. PartialSums(q) = CHOOSE s : s = [k \in 0 .. n |-> IF k = 0 THEN 0 ELSE s[k - 1] + q[k]]
  BY DEF PartialSums
<1> DEFINE f == PartialSums(q)
<1>8. f = [k \in 0 .. n |-> IF k = 0 THEN 0 ELSE f[k - 1] + q[k]] BY <1>6, <1>7
<1> HIDE DEF f
<1> DEFINE T == {k \in 0 .. n : f[k] = g[k]}
<1>9. 0 \in T BY <1>1, <1>5, <1>8
<1>10. ASSUME NEW m \in 0 .. n - 1, m \in T PROVE m + 1 \in T
  <2>1. f[m + 1] = f[m] + q[m + 1] BY <1>8
  <2>2. g[m + 1] = g[m] + q[m + 1] BY <1>5
  <2> QED BY <1>10, <2>1, <2>2
<1>11. \A k \in 0 .. n : k \in T
  <2> HIDE DEF T
  <2> QED BY <1>1, <1>9, <1>10, UpTo
<1>12. f \in [0 .. n -> Nat]
  <2>1. \A k \in 0 .. n : f[k] \in Nat BY <1>5, <1>11
  <2> QED BY <1>8, <2>1
<1>13. f[0] = 0 BY <1>8
<1>14. \A k \in 0 .. n - 1 : f[k + 1] = f[k] + q[k + 1] BY <1>8
<1> QED BY <1>12, <1>13, <1>14 DEF f

\* Equal parts of two sequences add the same to their sums.
SamePart(q, a, r, b, m) ==
  /\ a \in Nat /\ b \in Nat /\ m \in Nat /\ a + m <= Len(q) /\ b + m <= Len(r)
  /\ \A k \in 1 .. m : q[a + k] = r[b + k]

SameSums(q, a, r, b, m) ==
  \A k \in 0 .. m :
    PartialSums(q)[a + k] - PartialSums(q)[a] = PartialSums(r)[b + k] - PartialSums(r)[b]

\* Equal stretches of two sequences add the same to their sums.
LEMMA SumsAgree ==
  ASSUME NEW q \in Seq(Nat), NEW r \in Seq(Nat), NEW a, NEW b, NEW m,
         SamePart(q, a, r, b, m)
  PROVE  SameSums(q, a, r, b, m)
<1> USE DEF SamePart
<1> DEFINE Q == PartialSums(q)
           R == PartialSums(r)
           S == {k \in 0 .. m : Q[a + k] - Q[a] = R[b + k] - R[b]}
<1>1. Q \in [0 .. Len(q) -> Nat] /\ \A k \in 0 .. Len(q) - 1 : Q[k + 1] = Q[k] + q[k + 1]
  BY Sums
<1>2. R \in [0 .. Len(r) -> Nat] /\ \A k \in 0 .. Len(r) - 1 : R[k + 1] = R[k] + r[k + 1]
  BY Sums
<1> HIDE DEF Q, R
<1>0. Len(q) \in Nat /\ Len(r) \in Nat OBVIOUS
<1>3. 0 \in S
  <2>1. a + 0 = a /\ b + 0 = b OBVIOUS
  <2>2. Q[a] \in Nat /\ R[b] \in Nat
    <3>1. a \in 0 .. Len(q) /\ b \in 0 .. Len(r) BY <1>0
    <3> QED BY <1>1, <1>2, <3>1
  <2>3. Q[a + 0] - Q[a] = R[b + 0] - R[b] BY <2>1, <2>2
  <2> QED BY <2>3
<1>4. ASSUME NEW k \in 0 .. m - 1, k \in S PROVE k + 1 \in S
  <2>1. a + k \in 0 .. Len(q) - 1 /\ b + k \in 0 .. Len(r) - 1 BY <1>0
  <2>2. q[a + (k + 1)] = r[b + (k + 1)]
    <3>1. k + 1 \in 1 .. m OBVIOUS
    <3> QED BY <3>1
  <2>3. Q[(a + k) + 1] = Q[a + k] + q[(a + k) + 1] BY <1>1, <2>1
  <2>4. R[(b + k) + 1] = R[b + k] + r[(b + k) + 1] BY <1>2, <2>1
  <2>5. (a + k) + 1 = a + (k + 1) /\ (b + k) + 1 = b + (k + 1) OBVIOUS
  <2>6. Q[a + k] - Q[a] = R[b + k] - R[b] BY <1>4
  <2> HIDE DEF S
  <2>7. Q[a] \in Nat /\ Q[a + k] \in Nat /\ R[b] \in Nat /\ R[b + k] \in Nat
        /\ q[(a + k) + 1] \in Nat /\ r[(b + k) + 1] \in Nat
    <3>1. /\ a \in 0 .. Len(q) /\ a + k \in 0 .. Len(q)
          /\ b \in 0 .. Len(r) /\ b + k \in 0 .. Len(r)
      BY <1>0
    <3>2. (a + k) + 1 \in 1 .. Len(q) /\ (b + k) + 1 \in 1 .. Len(r)
      <4>1. a \in Nat /\ b \in Nat /\ m \in Nat /\ k \in Nat /\ k + 1 <= m OBVIOUS
      <4> QED BY <1>0, <4>1
    <3>3. Q[a] \in Nat /\ Q[a + k] \in Nat BY <1>1, <3>1
    <3>4. R[b] \in Nat /\ R[b + k] \in Nat BY <1>2, <3>1
    <3>5. q[(a + k) + 1] \in Nat /\ r[(b + k) + 1] \in Nat BY <3>2
    <3> QED BY <3>3, <3>4, <3>5
  <2>8. Q[a + (k + 1)] - Q[a] = R[b + (k + 1)] - R[b]
    <3> DEFINE x == Q[a + (k + 1)]
               y == R[b + (k + 1)]
               u == Q[a + k]
               v == R[b + k]
               d == q[(a + k) + 1]
               i == Q[a]
               j == R[b]
    <3>1. x = u + d /\ y = v + d BY <2>2, <2>3, <2>4, <2>5
    <3>2. u \in Nat /\ v \in Nat /\ d \in Nat /\ i \in Nat /\ j \in Nat BY <2>7
    <3>3. u - i = v - j BY <2>6
    <3> HIDE DEF x, y, u, v, d, i, j
    <3>4. x - i = y - j BY <3>1, <3>2, <3>3
    <3> QED BY <3>4 DEF x, y, i, j
  <2> QED BY <2>8 DEF S
<1>5. \A k \in 0 .. m : k \in S
  <2> HIDE DEF S
  <2> QED BY <1>3, <1>4, UpTo
<1> QED BY <1>5 DEF Q, R, SameSums

\* The total of a concatenation is that of its parts.
LEMMA TotalOfConcatenation ==
  ASSUME NEW q \in Seq(Nat), NEW r \in Seq(Nat)
  PROVE  /\ \A k \in 0 .. Len(q) : PartialSums(q \o r)[k] = PartialSums(q)[k]
         /\ \A k \in 0 .. Len(r) : PartialSums(q \o r)[Len(q) + k] = Total(q) + PartialSums(r)[k]
         /\ Total(q \o r) = Total(q) + Total(r)
<1>1. q \o r \in Seq(Nat) /\ Len(q \o r) = Len(q) + Len(r) /\ Len(q) \in Nat /\ Len(r) \in Nat
  OBVIOUS
<1> DEFINE Q == PartialSums(q)
           R == PartialSums(r)
           P == PartialSums(q \o r)
<1>2. Q \in [0 .. Len(q) -> Nat] /\ Q[0] = 0 BY Sums
<1>3. R \in [0 .. Len(r) -> Nat] /\ R[0] = 0 BY Sums
<1>4. P \in [0 .. Len(q) + Len(r) -> Nat] /\ P[0] = 0 BY <1>1, Sums
<1>5. \A k \in 0 .. Len(q) : P[0 + k] - P[0] = Q[0 + k] - Q[0]
  <2> DEFINE p == q \o r
             z == 0
             m == Len(q)
  <2>1. \A k \in 1 .. m : p[z + k] = q[z + k] BY <1>1
  <2>2. p \in Seq(Nat) /\ z \in Nat /\ m \in Nat
        /\ z + m <= Len(p) /\ z + m <= Len(q)
    BY <1>1
  <2> HIDE DEF p, z, m
  <2>3. SamePart(p, z, q, z, m) BY <2>1, <2>2 DEF SamePart
  <2>4. SameSums(p, z, q, z, m) BY <2>2, <2>3, SumsAgree
  <2> QED BY <2>4 DEF p, z, m, SameSums
<1>6. \A k \in 0 .. Len(r) : P[Len(q) + k] - P[Len(q)] = R[0 + k] - R[0]
  <2> DEFINE p == q \o r
             z == 0
             a == Len(q)
             m == Len(r)
  <2>1. \A k \in 1 .. m : p[a + k] = r[z + k] BY <1>1
  <2>2. p \in Seq(Nat) /\ z \in Nat /\ m \in Nat /\ a \in Nat
        /\ a + m <= Len(p) /\ z + m <= Len(r)
    BY <1>1
  <2> HIDE DEF p, z, a, m
  <2>3. SamePart(p, a, r, z, m) BY <2>1, <2>2 DEF SamePart
  <2>4. SameSums(p, a, r, z, m) BY <2>2, <2>3, SumsAgree
  <2> QED BY <2>4 DEF p, z, a, m, SameSums
<1> HIDE DEF P, Q, R
<1>7. ASSUME NEW k \in 0 .. Len(q) PROVE P[k] = Q[k]
  <2>1. P[0 + k] - P[0] = Q[0 + k] - Q[0] BY <1>5
  <2>2. 0 + k = k /\ k \in 0 .. Len(q) + Len(r) BY <1>1
  <2>3. P[k] \in Nat /\ Q[k] \in Nat BY <1>2, <1>4, <2>2
  <2> QED BY <1>2, <1>4, <2>1, <2>2, <2>3
<1>8. ASSUME NEW k \in 0 .. Len(r) PROVE P[Len(q) + k] = Q[Len(q)] + R[k]
  <2>1. P[Len(q) + k] - P[Len(q)] = R[0 + k] - R[0] BY <1>6
  <2>2. P[Len(q)] = Q[Len(q)] BY <1>1, <1>7
  <2>3. P[Len(q) + k] \in Nat /\ Q[Len(q)] \in Nat /\ R[k] \in Nat
    <3>1. Len(q) + k \in 0 .. Len(q) + Len(r) /\ Len(q) \in 0 .. Len(q) BY <1>1
    <3> QED BY <1>2, <1>3, <1>4, <3>1
  <2> QED BY <1>3, <2>1, <2>2, <2>3
<1>9. Total(q) = Q[Len(q)] /\ Total(r) = R[Len(r)] /\ Total(q \o r) = P[Len(q) + Len(r)]
  BY <1>1 DEF Total, P, Q, R
<1>10. P[Len(q) + Len(r)] = Q[Len(q)] + R[Len(r)] BY <1>1, <1>8
<1> QED BY <1>7, <1>8, <1>9, <1>10 DEF P, Q, R

(***************************************************************************)
(* Symbols and fields.  Symbols fill n bytes from a if each starts where   *)
(* the one before it ends; they own a set of bytes if they lie apart in it *)
(* and leave none of it out.                                               *)
(***************************************************************************)
\* The names of the symbols that may lie outside of Zero Page.
Name ==
  {"frame_counter", "frame_ready", "last_processed_frame",
   "controller_1_current", "controller_1_previous", "controller_2_current",
   "controller_2_previous", "controller_polled_frame", "controller_poll_valid",
   "zero_x", "zero_y", "zero_tile", "zero_attributes", "zero_ready",
   "logical_y", "value", "secondary_value", "x", "y", "frame", "flags",
   "animation", "animation_frame", "animation_timer", "animation_flags",
   "current_instance", "frame_remaining", "slots_remaining", "oam_offset",
   "offset_x", "offset_y", "tile", "attributes", "palette_shadow",
   "background_dirty", "sprite_dirty", "universal_dirty", "ppuctrl", "ppumask",
   "scroll_x", "scroll_y", "pending_x", "pending_y", "scroll_ready",
   "background_shadow", "ready", "high", "low", "queued", "overflow",
   "cancel_lock", "background_x", "background_y", "pending_value", "index_low",
   "index_page", "left_x", "left_y", "left_width", "left_height", "right_x",
   "right_y", "right_width", "right_height", "point_x", "point_y", "state_low",
   "state_high", "span", "cutoff", "results", "oam_shadow", "user"}

PlainSymbol == Name \X Nat \X (Nat \ {0})
Symbol == (Name \cup ZeroPageNames) \X Nat \X (Nat \ {0})
Field == Name \X (Nat \ {0})

Sizes(s) == [i \in DOMAIN s |-> s[i][3]]
FieldSizes(f) == [i \in DOMAIN f |-> f[i][2]]

Take(f, n) == f \in Seq(Field) /\ Total(FieldSizes(f)) = n

Fills(s, a, n) ==
  /\ s \in Seq(PlainSymbol) /\ a \in Nat /\ SizeOf(s) = n
  /\ \A i \in 1 .. Len(s) : s[i][2] = a + PartialSums(Sizes(s))[i - 1]

Bytes(symbol) == symbol[2] .. symbol[2] + symbol[3] - 1

Owns(s, B) ==
  /\ s \in Seq(Symbol) /\ SymbolBytes(s) = B
  /\ \A i, j \in DOMAIN s : i # j => Apart(s[i], s[j])

\* The three parts of a symbol.
LEMMA SymbolIsTriple ==
  ASSUME NEW name \in Name, NEW a \in Nat, NEW n \in Nat \ {0}
  PROVE  /\ <<name, a, n>> \in PlainSymbol
         /\ <<name, a, n>>[1] = name /\ <<name, a, n>>[2] = a /\ <<name, a, n>>[3] = n
  BY DEF PlainSymbol

\* Sequences of one length with equal elements are equal.
LEMMA SameElements ==
  ASSUME NEW S, NEW s \in Seq(S), NEW t \in Seq(S), Len(s) = Len(t),
         \A i \in 1 .. Len(s) : s[i] = t[i]
  PROVE  s = t
OBVIOUS

\* Literal sequences as joins.
LEMMA Two ==
  ASSUME NEW a, NEW b
  PROVE  <<a>> \o <<b>> = <<a, b>>
<1> DEFINE S == {a, b}
<1>1. /\ <<a>> \o <<b>> \in Seq(S) /\ Len(<<a>> \o <<b>>) = 2
      /\ <<a, b>> \in Seq(S) /\ Len(<<a, b>>) = 2
  OBVIOUS
<1>2. \A i \in 1 .. 2 : (<<a>> \o <<b>>)[i] = <<a, b>>[i] OBVIOUS
<1> HIDE DEF S
<1> QED BY <1>1, <1>2, SameElements

\* The same for three elements.
LEMMA Three ==
  ASSUME NEW a, NEW b, NEW c
  PROVE  <<a, b>> \o <<c>> = <<a, b, c>>
<1> DEFINE S == {a, b, c}
<1>1. /\ <<a, b>> \o <<c>> \in Seq(S) /\ Len(<<a, b>> \o <<c>>) = 3
      /\ <<a, b, c>> \in Seq(S) /\ Len(<<a, b, c>>) = 3
  OBVIOUS
<1>2. \A i \in 1 .. 3 : (<<a, b>> \o <<c>>)[i] = <<a, b, c>>[i] OBVIOUS
<1> HIDE DEF S
<1> QED BY <1>1, <1>2, SameElements

\* The same for four elements.
LEMMA Four ==
  ASSUME NEW a, NEW b, NEW c, NEW d
  PROVE  <<a, b, c>> \o <<d>> = <<a, b, c, d>>
<1> DEFINE S == {a, b, c, d}
<1>1. /\ <<a, b, c>> \o <<d>> \in Seq(S) /\ Len(<<a, b, c>> \o <<d>>) = 4
      /\ <<a, b, c, d>> \in Seq(S) /\ Len(<<a, b, c, d>>) = 4
  OBVIOUS
<1>2. \A i \in 1 .. 4 : (<<a, b, c>> \o <<d>>)[i] = <<a, b, c, d>>[i] OBVIOUS
<1> HIDE DEF S
<1> QED BY <1>1, <1>2, SameElements

\* The sizes of symbols are a sequence of numbers.
LEMMA SymbolSizes ==
  ASSUME NEW s \in Seq(PlainSymbol)
  PROVE  /\ Sizes(s) \in Seq(Nat) /\ Len(Sizes(s)) = Len(s)
         /\ SizeOf(s) = Total(Sizes(s)) /\ SizeOf(s) \in Nat
<1>1. \A i \in 1 .. Len(s) : s[i] \in PlainSymbol OBVIOUS
<1>2. \A i \in 1 .. Len(s) : s[i][3] \in Nat BY <1>1 DEF PlainSymbol
<1>3. Sizes(s) \in Seq(Nat) /\ Len(Sizes(s)) = Len(s) BY <1>2 DEF Sizes
<1>4. Total(Sizes(s)) \in Nat
  <2>1. PartialSums(Sizes(s)) \in [0 .. Len(Sizes(s)) -> Nat] BY <1>3, Sums
  <2> QED BY <1>3, <2>1 DEF Total
<1> QED BY <1>3, <1>4 DEF SizeOf, Sizes

\* The sizes of fields are a sequence of numbers.
LEMMA FieldSizesAreSizes ==
  ASSUME NEW f \in Seq(Field)
  PROVE  FieldSizes(f) \in Seq(Nat) /\ Len(FieldSizes(f)) = Len(f) /\ Total(FieldSizes(f)) \in Nat
<1>1. \A i \in 1 .. Len(f) : f[i] \in Field OBVIOUS
<1>2. \A i \in 1 .. Len(f) : f[i][2] \in Nat BY <1>1 DEF Field
<1>3. FieldSizes(f) \in Seq(Nat) /\ Len(FieldSizes(f)) = Len(f) BY <1>2 DEF FieldSizes
<1>4. Total(FieldSizes(f)) \in Nat
  <2>1. PartialSums(FieldSizes(f)) \in [0 .. Len(FieldSizes(f)) -> Nat] BY <1>3, Sums
  <2> QED BY <1>3, <2>1 DEF Total
<1> QED BY <1>3, <1>4

\* Two lists of fields, one after the other, take what each takes.
LEMMA TakeBoth ==
  ASSUME NEW f, NEW g, NEW m, NEW n, Take(f, m), Take(g, n)
  PROVE  Take(f \o g, m + n)
<1>1. f \in Seq(Field) /\ g \in Seq(Field) BY DEF Take
<1>2. FieldSizes(f \o g) = FieldSizes(f) \o FieldSizes(g)
  <2> DEFINE u == FieldSizes(f \o g)
             v == FieldSizes(f) \o FieldSizes(g)
  <2>1. Len(f) \in Nat /\ Len(g) \in Nat /\ DOMAIN f = 1 .. Len(f) /\ DOMAIN g = 1 .. Len(g)
    BY <1>1
  <2>2. FieldSizes(f) \in Seq(Nat) /\ Len(FieldSizes(f)) = Len(f) /\ FieldSizes(g) \in Seq(Nat)
        /\ Len(FieldSizes(g)) = Len(g)
    BY <1>1, FieldSizesAreSizes
  <2>3. u = [i \in 1 .. Len(f) + Len(g) |-> (f \o g)[i][2]] BY <1>1, <2>1 DEF FieldSizes
  <2>4. v \in Seq(Nat) /\ Len(v) = Len(f) + Len(g) BY <2>1, <2>2
  <2>5. ASSUME NEW i \in 1 .. Len(f) + Len(g) PROVE v[i] = (f \o g)[i][2]
    <3>1. CASE i <= Len(f)
      <4>1. v[i] = FieldSizes(f)[i] /\ (f \o g)[i] = f[i] BY <1>1, <2>1, <2>2, <3>1
      <4> QED BY <2>1, <3>1, <4>1 DEF FieldSizes
    <3>2. CASE i > Len(f)
      <4>1. v[i] = FieldSizes(g)[i - Len(f)] /\ (f \o g)[i] = g[i - Len(f)]
        BY <1>1, <2>1, <2>2, <3>2
      <4>2. i - Len(f) \in 1 .. Len(g) BY <2>1, <3>2
      <4> QED BY <2>1, <4>1, <4>2 DEF FieldSizes
    <3> HIDE DEF v
    <3> QED BY <2>1, <3>1, <3>2
  <2> HIDE DEF u, v
  <2>6. v = [i \in 1 .. Len(v) |-> v[i]] BY <2>4
  <2>7. u = v BY <2>3, <2>4, <2>5, <2>6
  <2> QED BY <2>7 DEF u, v
<1>3. Total(FieldSizes(f) \o FieldSizes(g)) = Total(FieldSizes(f)) + Total(FieldSizes(g))
  BY <1>1, FieldSizesAreSizes, TotalOfConcatenation
<1> QED BY <1>1, <1>2, <1>3 DEF Take

\* No size adds up to nothing.
LEMMA TotalOfNone ==
  Total(<<>>) = 0
<1>1. <<>> \in Seq(Nat) /\ Len(<<>>) = 0 OBVIOUS
<1> QED BY <1>1, Sums DEF Total

\* Optional fields take their size exactly if they are there.
LEMMA TakeIf ==
  ASSUME NEW f, NEW n, NEW b \in BOOLEAN, b => Take(f, n)
  PROVE  Take(If(b, f), Needed(n, b))
<1>1. Take(<<>>, 0)
  <2>1. FieldSizes(<<>>) = <<>> BY DEF FieldSizes
  <2> QED BY <2>1, TotalOfNone DEF Take
<1> QED BY <1>1 DEF If, Needed

\* Symbols that fill two adjoining intervals fill their union.
LEMMA FillBoth ==
  ASSUME NEW s, NEW t, NEW a, NEW m, NEW n, Fills(s, a, m), Fills(t, a + m, n)
  PROVE  Fills(s \o t, a, m + n)
<1>1. s \in Seq(PlainSymbol) /\ t \in Seq(PlainSymbol) /\ s \o t \in Seq(PlainSymbol) /\ a \in Nat BY DEF Fills
<1>2. Sizes(s \o t) = Sizes(s) \o Sizes(t)
  <2> DEFINE u == Sizes(s \o t)
             v == Sizes(s) \o Sizes(t)
  <2>1. Len(s) \in Nat /\ Len(t) \in Nat /\ DOMAIN s = 1 .. Len(s) /\ DOMAIN t = 1 .. Len(t)
    BY <1>1
  <2>2. Sizes(s) \in Seq(Nat) /\ Len(Sizes(s)) = Len(s) /\ Sizes(t) \in Seq(Nat)
        /\ Len(Sizes(t)) = Len(t)
    BY <1>1, SymbolSizes
  <2>3. u = [i \in 1 .. Len(s) + Len(t) |-> (s \o t)[i][3]] BY <1>1, <2>1 DEF Sizes
  <2>4. v \in Seq(Nat) /\ Len(v) = Len(s) + Len(t) BY <2>1, <2>2
  <2>5. ASSUME NEW i \in 1 .. Len(s) + Len(t) PROVE v[i] = (s \o t)[i][3]
    <3>1. CASE i <= Len(s)
      <4>1. v[i] = Sizes(s)[i] /\ (s \o t)[i] = s[i] BY <1>1, <2>1, <2>2, <3>1
      <4> QED BY <2>1, <3>1, <4>1 DEF Sizes
    <3>2. CASE i > Len(s)
      <4>1. v[i] = Sizes(t)[i - Len(s)] /\ (s \o t)[i] = t[i - Len(s)]
        BY <1>1, <2>1, <2>2, <3>2
      <4>2. i - Len(s) \in 1 .. Len(t) BY <2>1, <3>2
      <4> QED BY <2>1, <4>1, <4>2 DEF Sizes
    <3> HIDE DEF v
    <3> QED BY <2>1, <3>1, <3>2
  <2> HIDE DEF u, v
  <2>6. v = [i \in 1 .. Len(v) |-> v[i]] BY <2>4
  <2>7. u = v BY <2>3, <2>4, <2>5, <2>6
  <2> QED BY <2>7 DEF u, v
<1>3. /\ \A k \in 0 .. Len(s) :
           PartialSums(Sizes(s \o t))[k] = PartialSums(Sizes(s))[k]
      /\ \A k \in 0 .. Len(t) :
           PartialSums(Sizes(s \o t))[Len(s) + k] = Total(Sizes(s)) + PartialSums(Sizes(t))[k]
      /\ Total(Sizes(s \o t)) = Total(Sizes(s)) + Total(Sizes(t))
  BY <1>1, <1>2, SymbolSizes, TotalOfConcatenation
<1>4. SizeOf(s \o t) = m + n /\ m = Total(Sizes(s)) /\ m \in Nat
  BY <1>1, <1>3, SymbolSizes DEF Fills
<1>5. PartialSums(Sizes(t)) \in [0 .. Len(t) -> Nat] BY <1>1, SymbolSizes, Sums
<1>6. ASSUME NEW i \in 1 .. Len(s \o t)
      PROVE  (s \o t)[i][2] = a + PartialSums(Sizes(s \o t))[i - 1]
  <2>1. Len(s) \in Nat /\ Len(t) \in Nat /\ Len(s \o t) = Len(s) + Len(t) BY <1>1
  <2>2. CASE i <= Len(s)
    <3>1. i \in 1 .. Len(s) /\ i - 1 \in 0 .. Len(s) BY <2>1, <2>2
    <3>2. (s \o t)[i] = s[i] BY <1>1, <3>1
    <3> QED BY <1>3, <3>1, <3>2 DEF Fills
  <2>3. CASE i > Len(s)
    <3> DEFINE j == i - Len(s)
    <3>1. j \in 1 .. Len(t) /\ j - 1 \in 0 .. Len(t) /\ Len(s) + (j - 1) = i - 1 BY <2>1, <2>3
    <3>2. (s \o t)[i] = t[j] BY <1>1, <2>1, <2>3
    <3> HIDE DEF j
    <3>3. t[j][2] = (a + m) + PartialSums(Sizes(t))[j - 1] BY <3>1 DEF Fills
    <3>4. PartialSums(Sizes(s \o t))[i - 1] = m + PartialSums(Sizes(t))[j - 1] BY <1>3, <1>4, <3>1
    <3>5. PartialSums(Sizes(t))[j - 1] \in Nat BY <1>5, <3>1
    <3> QED BY <1>1, <1>4, <3>2, <3>3, <3>4, <3>5
  <2> QED BY <2>1, <2>2, <2>3
<1> QED BY <1>1, <1>4, <1>6 DEF Fills

\* Optional symbols fill their interval exactly if they are there.
LEMMA FillIf ==
  ASSUME NEW s, NEW a \in Nat, NEW n, NEW b \in BOOLEAN, b => Fills(s, a, n)
  PROVE  Fills(If(b, s), a, Needed(n, b))
<1>1. Fills(<<>>, a, 0)
  <2>1. [i \in DOMAIN <<>> |-> <<>>[i][3]] = <<>> OBVIOUS
  <2>2. SizeOf(<<>>) = 0 BY <2>1, TotalOfNone DEF SizeOf
  <2> QED BY <2>2 DEF Fills
<1> QED BY <1>1 DEF If, Needed

\* One symbol fills its own bytes.
LEMMA FillOne ==
  ASSUME NEW s \in PlainSymbol
  PROVE  Fills(<<s>>, s[2], s[3])
<1>1. <<s>> \in Seq(PlainSymbol) /\ Len(<<s>>) = 1 OBVIOUS
<1>2. Sizes(<<s>>)[1] = s[3] /\ s[2] \in Nat /\ s[3] \in Nat BY DEF Sizes, PlainSymbol
<1>3. PartialSums(Sizes(<<s>>))[0] = 0 /\ PartialSums(Sizes(<<s>>))[1] = s[3]
  <2>1. Sizes(<<s>>) \in Seq(Nat) /\ Len(Sizes(<<s>>)) = 1 BY <1>1, SymbolSizes
  <2>2. /\ PartialSums(Sizes(<<s>>))[0] = 0
        /\ PartialSums(Sizes(<<s>>))[0 + 1] = PartialSums(Sizes(<<s>>))[0] + Sizes(<<s>>)[0 + 1]
    BY <2>1, Sums
  <2> QED BY <1>2, <2>2
<1>4. SizeOf(<<s>>) = s[3]
  <2>1. Len(Sizes(<<s>>)) = 1 BY <1>1, SymbolSizes
  <2> QED BY <1>1, <1>3, <2>1, SymbolSizes DEF Total
<1> QED BY <1>1, <1>2, <1>3, <1>4 DEF Fills

\* Consecutive fields fill the interval of their total size.
LEMMA FillConsecutive ==
  ASSUME NEW f, NEW a \in Nat, NEW n, Take(f, n)
  PROVE  Fills(Consecutive(f, a), a, n)
<1> DEFINE s == Consecutive(f, a)
           sums == PartialSums(FieldSizes(f))
<1>1. f \in Seq(Field) /\ Len(f) \in Nat /\ DOMAIN f = 1 .. Len(f) BY DEF Take
<1>2. FieldSizes(f) \in Seq(Nat) /\ Len(FieldSizes(f)) = Len(f) BY <1>1, FieldSizesAreSizes
<1>3. sums \in [0 .. Len(f) -> Nat] BY <1>2, Sums
<1>4. s = [i \in 1 .. Len(f) |-> <<f[i][1], a + sums[i - 1], f[i][2]>>]
  BY <1>1 DEF Consecutive, FieldSizes
<1> HIDE DEF s, sums
<1>5. ASSUME NEW i \in 1 .. Len(f)
      PROVE  s[i] \in PlainSymbol /\ s[i][2] = a + sums[i - 1] /\ s[i][3] = f[i][2]
  <2>1. f[i] \in Field /\ sums[i - 1] \in Nat BY <1>1, <1>3
  <2>2. f[i][1] \in Name /\ f[i][2] \in Nat \ {0} BY <2>1 DEF Field
  <2> QED BY <1>4, <2>1, <2>2 DEF PlainSymbol
<1>6. s \in Seq(PlainSymbol) /\ Len(s) = Len(f) BY <1>1, <1>4, <1>5
<1>7. Sizes(s) = FieldSizes(f) BY <1>1, <1>5, <1>6 DEF Sizes, FieldSizes
<1>8. SizeOf(s) = n BY <1>6, <1>7, SymbolSizes DEF Take
<1> QED BY <1>5, <1>6, <1>7, <1>8 DEF Fills, s, sums

\* What never falls from one position to the next never falls.
LEMMA NeverFalls ==
  ASSUME NEW n \in Nat, NEW f, \A k \in 0 .. n : f[k] \in Int,
         \A k \in 0 .. n - 1 : f[k] <= f[k + 1]
  PROVE  \A i \in 0 .. n : \A j \in i .. n : f[i] <= f[j]
<1> SUFFICES ASSUME NEW i \in 0 .. n PROVE \A j \in i .. n : f[i] <= f[j] OBVIOUS
<1> DEFINE m == n - i
           S == {k \in 0 .. m : f[i] <= f[i + k]}
<1>1. m \in Nat /\ i + m = n OBVIOUS
<1>2. 0 \in S
  <2>1. i + 0 = i /\ f[i] \in Int OBVIOUS
  <2> QED BY <1>1, <2>1
<1>3. ASSUME NEW k \in 0 .. m - 1, k \in S PROVE k + 1 \in S
  <2>1. i + k \in 0 .. n - 1 /\ i + k \in 0 .. n /\ (i + k) + 1 \in 0 .. n BY <1>1
  <2>2. (i + k) + 1 = i + (k + 1) /\ k + 1 \in 0 .. m BY <1>1
  <2>3. f[i + k] <= f[(i + k) + 1] /\ f[i + k] \in Int /\ f[(i + k) + 1] \in Int BY <2>1
  <2>4. f[i] \in Int /\ f[i] <= f[i + k] BY <1>3
  <2>5. f[i] <= f[i + (k + 1)] BY <2>2, <2>3, <2>4
  <2> HIDE DEF m
  <2> QED BY <2>2, <2>5
<1>4. \A k \in 0 .. m : k \in S
  <2> HIDE DEF S, m
  <2> QED BY <1>1, <1>2, <1>3, UpTo
<1>5. ASSUME NEW j \in i .. n PROVE f[i] <= f[j]
  <2>1. j - i \in 0 .. m /\ i + (j - i) = j OBVIOUS
  <2> HIDE DEF m
  <2> QED BY <1>4, <2>1
<1> QED BY <1>5

\* Partial sums never fall.
LEMMA SumsGrow ==
  ASSUME NEW q \in Seq(Nat)
  PROVE  \A i \in 0 .. Len(q) : \A j \in i .. Len(q) : PartialSums(q)[i] <= PartialSums(q)[j]
<1> DEFINE P == PartialSums(q)
           n == Len(q)
<1>1. n \in Nat OBVIOUS
<1>2. P \in [0 .. n -> Nat] /\ \A k \in 0 .. n - 1 : P[k + 1] = P[k] + q[k + 1] BY Sums
<1> HIDE DEF P
<1>3. ASSUME NEW k \in 0 .. n - 1 PROVE P[k] <= P[k + 1]
  <2>1. k \in 0 .. n /\ k + 1 \in 1 .. n BY <1>1
  <2>2. P[k] \in Nat /\ q[k + 1] \in Nat BY <1>2, <2>1
  <2> QED BY <1>2, <2>2
<1>4. \A k \in 0 .. n : P[k] \in Int BY <1>2
<1> HIDE DEF n
<1>5. \A i \in 0 .. n : \A j \in i .. n : P[i] <= P[j] BY <1>1, <1>3, <1>4, NeverFalls
<1> QED BY <1>5 DEF P, n

\* Fields of one size.
LEMMA TakeEqual ==
  ASSUME NEW names \in Seq(Name), NEW size \in Nat \ {0}
  PROVE  Take([i \in DOMAIN names |-> <<names[i], size>>], Len(names) * size)
<1> DEFINE n == Len(names)
           f == [i \in DOMAIN names |-> <<names[i], size>>]
           P == PartialSums(FieldSizes(f))
           S == {k \in 0 .. n : P[k] = k * size}
<1>1. n \in Nat /\ DOMAIN names = 1 .. n OBVIOUS
<1>2. f \in Seq(Field) /\ Len(f) = n
  <2>1. \A i \in 1 .. n : f[i] \in Field BY <1>1 DEF Field
  <2> QED BY <1>1, <2>1
<1>3. \A i \in 1 .. n : FieldSizes(f)[i] = size BY <1>1 DEF FieldSizes
<1>4. FieldSizes(f) \in Seq(Nat) /\ Len(FieldSizes(f)) = n BY <1>2, FieldSizesAreSizes
<1>5. P[0] = 0 /\ \A k \in 0 .. n - 1 : P[k + 1] = P[k] + FieldSizes(f)[k + 1] BY <1>4, Sums
<1> HIDE DEF P, f
<1>6. 0 \in S BY <1>1, <1>5
<1>7. ASSUME NEW k \in 0 .. n - 1, k \in S PROVE k + 1 \in S
  <2>1. P[k + 1] = P[k] + size
    <3>1. k + 1 \in 1 .. n BY <1>1
    <3> QED BY <1>3, <1>5, <3>1
  <2>2. P[k] = k * size BY <1>7
  <2>3. (k + 1) * size = k * size + size OBVIOUS
  <2> QED BY <1>1, <2>1, <2>2, <2>3
<1>8. n \in S
  <2> HIDE DEF S, n
  <2>1. \A k \in 0 .. n : k \in S BY <1>1, <1>6, <1>7, UpTo
  <2> QED BY <1>1, <2>1
<1>9. Total(FieldSizes(f)) = n * size BY <1>4, <1>8 DEF Total, P
<1> QED BY <1>2, <1>9 DEF Take, f

\* Cells take one byte for each name.
LEMMA TakeCells ==
  ASSUME NEW names \in Seq(Name)
  PROVE  Take(Cells(names), Len(names))
<1>1. Take([i \in DOMAIN names |-> <<names[i], 1>>], Len(names) * 1)
  <2>1. 1 \in Nat \ {0} OBVIOUS
  <2> QED BY <2>1, TakeEqual
<1>2. Len(names) * 1 = Len(names) OBVIOUS
<1> QED BY <1>1, <1>2 DEF Cells

\* Symbols without a common byte lie apart.
LEMMA DisjointIsApart ==
  ASSUME NEW x \in Symbol, NEW y \in Symbol, Bytes(x) \cap Bytes(y) = {}
  PROVE  Apart(x, y)
<1>1. x[2] \in Nat /\ x[3] \in Nat \ {0} /\ y[2] \in Nat /\ y[3] \in Nat \ {0} BY DEF Symbol
<1> DEFINE a == x[2]
           m == x[3]
           b == y[2]
           n == y[3]
<1> HIDE DEF a, m, b, n
<1>2. (a .. a + m - 1) \cap (b .. b + n - 1) = {} BY DEF Bytes, a, m, b, n
<1>3. a \in Nat /\ m \in Nat \ {0} /\ b \in Nat /\ n \in Nat \ {0} BY <1>1 DEF a, m, b, n
<1>4. CASE a <= b
  <2>1. b \in b .. b + n - 1 BY <1>3
  <2>2. b \notin a .. a + m - 1 BY <1>2, <2>1
  <2>3. a + m <= b BY <1>3, <1>4, <2>2
  <2> QED BY <2>3 DEF Apart, a, m, b, n
<1>5. CASE b <= a
  <2>1. a \in a .. a + m - 1 BY <1>3
  <2>2. a \notin b .. b + n - 1 BY <1>2, <2>1
  <2>3. b + n <= a BY <1>3, <1>5, <2>2
  <2> QED BY <2>3 DEF Apart, a, m, b, n
<1> QED BY <1>3, <1>4, <1>5

\* A byte belongs to a sequence of symbols if it belongs to one of them.
LEMMA BytesOfSymbols ==
  ASSUME NEW s
  PROVE  /\ \A x : x \in SymbolBytes(s) <=> \E i \in DOMAIN s : x \in Bytes(s[i])
         /\ \A i \in DOMAIN s : Bytes(s[i]) \subseteq SymbolBytes(s)
  BY DEF SymbolBytes, Bytes

\* Owners of disjoint sets of bytes do not conflict.
LEMMA OwnBoth ==
  ASSUME NEW s, NEW t, NEW A, NEW B, Owns(s, A), Owns(t, B), A \cap B = {}
  PROVE  Owns(s \o t, A \cup B)
<1> DEFINE u == s \o t
<1>1. s \in Seq(Symbol) /\ t \in Seq(Symbol) /\ u \in Seq(Symbol) BY DEF Owns
<1>2. Len(s) \in Nat /\ Len(t) \in Nat /\ DOMAIN s = 1 .. Len(s) /\ DOMAIN t = 1 .. Len(t)
      /\ DOMAIN u = 1 .. Len(s) + Len(t)
  BY <1>1
<1>3. \A i \in DOMAIN s : i \in DOMAIN u /\ u[i] = s[i] BY <1>1, <1>2
<1>4. \A i \in DOMAIN t : Len(s) + i \in DOMAIN u /\ u[Len(s) + i] = t[i] BY <1>1, <1>2
<1>5. ASSUME NEW i \in DOMAIN u
      PROVE  \/ i \in DOMAIN s /\ u[i] = s[i]
             \/ i - Len(s) \in DOMAIN t /\ u[i] = t[i - Len(s)]
  <2>1. CASE i <= Len(s) BY <1>2, <1>3, <2>1
  <2>2. CASE i > Len(s)
    <3>1. i - Len(s) \in DOMAIN t /\ Len(s) + (i - Len(s)) = i BY <1>2, <2>2
    <3> QED BY <1>4, <3>1
  <2> QED BY <1>2, <2>1, <2>2
<1> HIDE DEF u
<1>6. SymbolBytes(u) = A \cup B
  <2>1. \A x : x \in A <=> \E i \in DOMAIN s : x \in Bytes(s[i]) BY BytesOfSymbols DEF Owns
  <2>2. \A x : x \in B <=> \E i \in DOMAIN t : x \in Bytes(t[i]) BY BytesOfSymbols DEF Owns
  <2>3. \A x : x \in SymbolBytes(u) <=> \E i \in DOMAIN u : x \in Bytes(u[i]) BY BytesOfSymbols
  <2>4. ASSUME NEW x \in SymbolBytes(u) PROVE x \in A \cup B
    <3>1. PICK i \in DOMAIN u : x \in Bytes(u[i]) BY <2>3
    <3> QED BY <1>5, <2>1, <2>2, <3>1
  <2>5. ASSUME NEW x \in A PROVE x \in SymbolBytes(u)
    <3>1. PICK i \in DOMAIN s : x \in Bytes(s[i]) BY <2>1
    <3> QED BY <1>3, <2>3, <3>1
  <2>6. ASSUME NEW x \in B PROVE x \in SymbolBytes(u)
    <3>1. PICK i \in DOMAIN t : x \in Bytes(t[i]) BY <2>2
    <3> QED BY <1>4, <2>3, <3>1
  <2> QED BY <2>4, <2>5, <2>6
<1>7. ASSUME NEW i \in DOMAIN s, NEW j \in DOMAIN t PROVE Apart(s[i], t[j]) /\ Apart(t[j], s[i])
  <2>1. s[i] \in Symbol /\ t[j] \in Symbol BY <1>1
  <2>2. Bytes(s[i]) \subseteq A /\ Bytes(t[j]) \subseteq B BY BytesOfSymbols DEF Owns
  <2>3. Apart(s[i], t[j]) BY <2>1, <2>2, DisjointIsApart
  <2> QED BY <2>3 DEF Apart
<1>8. ASSUME NEW i \in DOMAIN u, NEW j \in DOMAIN u, i # j PROVE Apart(u[i], u[j])
  <2>1. CASE i \in DOMAIN s /\ u[i] = s[i] /\ j \in DOMAIN s /\ u[j] = s[j]
    BY <1>8, <2>1 DEF Owns
  <2>2. CASE i \in DOMAIN s /\ u[i] = s[i] /\ j - Len(s) \in DOMAIN t /\ u[j] = t[j - Len(s)]
    BY <1>7, <2>2
  <2>3. CASE i - Len(s) \in DOMAIN t /\ u[i] = t[i - Len(s)] /\ j \in DOMAIN s /\ u[j] = s[j]
    BY <1>7, <2>3
  <2>4. CASE i - Len(s) \in DOMAIN t /\ u[i] = t[i - Len(s)]
             /\ j - Len(s) \in DOMAIN t /\ u[j] = t[j - Len(s)]
    <3>1. i - Len(s) # j - Len(s) BY <1>2, <1>8
    <3> QED BY <2>4, <3>1 DEF Owns
  <2> QED BY <1>5, <2>1, <2>2, <2>3, <2>4
<1> QED BY <1>1, <1>6, <1>8 DEF Owns, u

\* What fills n bytes from a owns them.
LEMMA FillIsOwn ==
  ASSUME NEW s, NEW a, NEW n, Fills(s, a, n)
  PROVE  Owns(s, a .. a + n - 1)
<1> DEFINE P == PartialSums(Sizes(s))
           Upto(k) == UNION {Bytes(s[i]) : i \in 1 .. k}
           S == {k \in 0 .. Len(s) : Upto(k) = a .. a + P[k] - 1}
<1>1. s \in Seq(PlainSymbol) /\ a \in Nat /\ DOMAIN s = 1 .. Len(s) /\ Len(s) \in Nat BY DEF Fills
<1>2. Sizes(s) \in Seq(Nat) /\ Len(Sizes(s)) = Len(s) BY <1>1, SymbolSizes
<1>3. /\ P \in [0 .. Len(s) -> Nat] /\ P[0] = 0
      /\ \A k \in 0 .. Len(s) - 1 : P[k + 1] = P[k] + s[k + 1][3]
  <2>1. \A k \in 0 .. Len(s) - 1 : P[k + 1] = P[k] + Sizes(s)[k + 1] BY <1>2, Sums
  <2>2. \A k \in 0 .. Len(s) - 1 : Sizes(s)[k + 1] = s[k + 1][3] BY <1>1 DEF Sizes
  <2> QED BY <1>2, <2>1, <2>2, Sums
<1>4. \A i \in 1 .. Len(s) : s[i][2] = a + P[i - 1] BY DEF Fills
<1>5. n = P[Len(s)] BY <1>1, <1>2, SymbolSizes DEF Fills, Total
<1>6. \A i \in 0 .. Len(s) : \A j \in i .. Len(s) : P[i] <= P[j] BY <1>2, SumsGrow
<1> HIDE DEF P
<1>7. ASSUME NEW i \in 1 .. Len(s)
      PROVE  s[i][2] = a + P[i - 1] /\ s[i][2] + s[i][3] = a + P[i] /\ s[i][3] \in Nat \ {0}
             /\ P[i] \in Nat /\ P[i - 1] \in Nat /\ Bytes(s[i]) = a + P[i - 1] .. a + P[i] - 1
  <2>1. i - 1 \in 0 .. Len(s) - 1 /\ (i - 1) + 1 = i /\ i - 1 \in 0 .. Len(s) /\ i \in 0 .. Len(s)
    BY <1>1
  <2>2. P[i] = P[i - 1] + s[i][3] BY <1>3, <2>1
  <2>3. P[i] \in Nat /\ P[i - 1] \in Nat BY <1>3, <2>1
  <2>4. s[i][3] \in Nat \ {0}
    <3>1. s[i] \in PlainSymbol BY <1>1
    <3> QED BY <3>1 DEF PlainSymbol
  <2>5. s[i][2] = a + P[i - 1] BY <1>4
  <2>6. s[i][2] + s[i][3] = a + P[i] BY <1>1, <2>2, <2>3, <2>4, <2>5
  <2>7. Bytes(s[i]) = a + P[i - 1] .. a + P[i] - 1
    <3> DEFINE first == s[i][2]
               size == s[i][3]
               low == P[i - 1]
               high == P[i]
    <3>1. first = a + low /\ high = low + size BY <2>2, <2>5
    <3>2. low \in Nat /\ high \in Nat /\ size \in Nat BY <2>3, <2>4
    <3>3. Bytes(s[i]) = first .. first + size - 1 BY DEF Bytes
    <3> HIDE DEF first, size, low, high
    <3>4. first .. first + size - 1 = a + low .. a + high - 1 BY <1>1, <3>1, <3>2
    <3> QED BY <3>3, <3>4 DEF low, high
  <2> QED BY <2>3, <2>4, <2>5, <2>6, <2>7
<1>8. 0 \in S
  <2>1. Upto(0) = {} OBVIOUS
  <2>2. a .. a + P[0] - 1 = {} BY <1>1, <1>3
  <2>3. 0 \in 0 .. Len(s) BY <1>1
  <2> HIDE DEF Upto
  <2>4. Upto(0) = a .. a + P[0] - 1 BY <2>1, <2>2
  <2> QED BY <2>3, <2>4
<1>9. ASSUME NEW k \in 0 .. Len(s) - 1, k \in S PROVE k + 1 \in S
  <2>1. Upto(k + 1) = Upto(k) \cup Bytes(s[k + 1])
    <3>1. 1 .. k + 1 = (1 .. k) \cup {k + 1} OBVIOUS
    <3> QED BY <3>1
  <2>2. k + 1 \in 1 .. Len(s) /\ k + 1 \in 0 .. Len(s) /\ (k + 1) - 1 = k BY <1>1
  <2>3. Bytes(s[k + 1]) = a + P[k] .. a + P[k + 1] - 1 /\ P[k] \in Nat /\ P[k + 1] \in Nat
    BY <1>7, <2>2
  <2>4. P[k] <= P[k + 1]
    <3>1. k \in 0 .. Len(s) /\ k + 1 \in k .. Len(s) BY <1>1
    <3> QED BY <1>6, <3>1
  <2>5. Upto(k) = a .. a + P[k] - 1 BY <1>9
  <2>6. (a .. a + P[k] - 1) \cup (a + P[k] .. a + P[k + 1] - 1) = a .. a + P[k + 1] - 1
    BY <1>1, <2>3, <2>4
  <2> HIDE DEF Upto
  <2>7. Upto(k + 1) = a .. a + P[k + 1] - 1 BY <2>1, <2>3, <2>5, <2>6
  <2> QED BY <2>2, <2>7
<1>10. Len(s) \in S
  <2> HIDE DEF S
  <2>1. \A k \in 0 .. Len(s) : k \in S BY <1>1, <1>8, <1>9, UpTo
  <2> QED BY <1>1, <2>1
<1>11. SymbolBytes(s) = a .. a + n - 1
  <2>1. SymbolBytes(s) = Upto(Len(s)) BY <1>1 DEF SymbolBytes, Bytes
  <2> HIDE DEF Upto
  <2> QED BY <1>5, <1>10, <2>1
<1>12. ASSUME NEW i \in 1 .. Len(s), NEW j \in 1 .. Len(s), i < j
       PROVE  Apart(s[i], s[j]) /\ Apart(s[j], s[i])
  <2>1. P[i] <= P[j - 1]
    <3>1. i \in 0 .. Len(s) /\ j - 1 \in i .. Len(s) BY <1>1, <1>12
    <3> QED BY <1>6, <3>1
  <2>2. s[i][2] + s[i][3] <= s[j][2] BY <1>1, <1>7, <2>1
  <2> QED BY <2>2 DEF Apart
<1>13. \A i, j \in 1 .. Len(s) : i # j => i < j \/ j < i BY <1>1
<1>14. s \in Seq(Symbol)
  <2>1. \A i \in 1 .. Len(s) : s[i] \in PlainSymbol BY <1>1
  <2>2. PlainSymbol \subseteq Symbol BY DEF PlainSymbol, Symbol
  <2> QED BY <1>1, <2>1, <2>2
<1> QED BY <1>1, <1>11, <1>12, <1>13, <1>14 DEF Owns

(***************************************************************************)
(* The symbols of the runtime fill its data region.                        *)
(***************************************************************************)
LEMMA ProgramTypes ==
  ASSUME NEW p \in LayoutPrograms
  PROVE  /\ p.instances \in Nat /\ p.temporaries \in Nat /\ p.limits \in Nat
         /\ p.depth \in Nat /\ p.functions \in Nat /\ p.created \in BOOLEAN
         /\ p.variables \in Seq(UserVariable)
         /\ "position" \in p.features => "sprite" \in p.features
         /\ "random_range" \in p.features => "random" \in p.features
  BY LayoutProgramsAssumption

\* Starts and sizes of the parts of the runtime data are numbers.
LEMMA PartTypes ==
  ASSUME NEW p \in LayoutPrograms
  PROVE  /\ RuntimeStart(p) \in {512, 768}
         /\ ZeroSize(p) \in Nat /\ IndividualSize(p) \in Nat /\ InstanceSize(p) \in Nat
         /\ SpriteSize(p) \in Nat /\ PaletteSize(p) \in Nat /\ ScrollSize(p) \in Nat
         /\ ShadowSize(p) \in Nat /\ BeforeBackground(p) \in Nat
<1>1. RuntimeStart(p) \in {512, 768} BY DEF RuntimeStart, GeneralRamStart, OamShadowStart
<1>2. ZeroSize(p) \in Nat /\ IndividualSize(p) \in Nat BY DEF ZeroSize, IndividualSize, Needed
<1>3. InstanceSize(p) \in Nat BY ProgramTypes DEF InstanceSize
<1>4. SpriteSize(p) \in Nat BY <1>2, <1>3 DEF SpriteSize, Needed
<1>5. PaletteSize(p) \in Nat /\ ScrollSize(p) \in Nat /\ ShadowSize(p) \in Nat
  BY DEF PaletteSize, ScrollSize, ShadowSize, Needed
<1>6. BeforeBackground(p) \in Nat BY <1>4, <1>5 DEF BeforeBackground, PpuStateSize
<1> QED BY <1>1, <1>2, <1>3, <1>4, <1>5, <1>6

\* Offsets of individual sprite bytes agree with their summed size.
LEMMA SpritesFill ==
  ASSUME NEW p \in LayoutPrograms
  PROVE  Fills(SpriteSymbols(p), RuntimeStart(p), IndividualSize(p))
<1> DEFINE start == RuntimeStart(p)
           zero == Uses(p, "zero")
           position == Uses(p, "position")
           api == SpriteApi(p)
           next == start + ZeroSize(p)
           names == <<"zero_x", "zero_y", "zero_tile", "zero_attributes", "zero_ready">>
           first == Consecutive(Cells(names), start)
           logical == <<"logical_y", next, 64>>
           value == <<"value", start + ZeroSize(p) + 64, 1>>
           secondary == <<"secondary_value", start + ZeroSize(p) + 65, 1>>
<1>1. start \in Nat /\ next \in Nat /\ ZeroSize(p) \in Nat BY PartTypes
<1>2. zero \in BOOLEAN /\ position \in BOOLEAN /\ api \in BOOLEAN /\ (position => api)
  BY ProgramTypes DEF Uses, SpriteApi
<1>3. Fills(first, start, 5)
  <2>1. names \in Seq(Name) /\ Len(names) = 5 BY DEF Name
  <2> HIDE DEF names
  <2>2. Take(Cells(names), 5) BY <2>1, TakeCells
  <2> QED BY <1>1, <2>2, FillConsecutive
<1>4. Fills(<<logical>>, next, 64)
  <2>1. logical \in PlainSymbol /\ logical[2] = next /\ logical[3] = 64
    <3>1. "logical_y" \in Name BY DEF Name
    <3>2. logical[2] \in Nat /\ logical[3] \in Nat \ {0} BY <1>1
    <3> QED BY <1>1, <3>1, <3>2, SymbolIsTriple
  <2> HIDE DEF logical
  <2> QED BY <2>1, FillOne
<1>5. Fills(<<value>>, next + 64, 1)
  <2>1. value \in PlainSymbol /\ value[2] = next + 64 /\ value[3] = 1
    <3>1. "value" \in Name BY DEF Name
    <3>2. value[2] \in Nat /\ value[3] \in Nat \ {0} BY <1>1
    <3> QED BY <1>1, <3>1, <3>2, SymbolIsTriple
  <2> HIDE DEF value
  <2> QED BY <2>1, FillOne
<1>6. Fills(<<secondary>>, next + 65, 1)
  <2>1. secondary \in PlainSymbol /\ secondary[2] = next + 65 /\ secondary[3] = 1
    <3>1. "secondary_value" \in Name BY DEF Name
    <3>2. secondary[2] \in Nat /\ secondary[3] \in Nat \ {0} BY <1>1
    <3> QED BY <1>1, <3>1, <3>2, SymbolIsTriple
  <2> HIDE DEF secondary
  <2> QED BY <2>1, FillOne
<1>7. SpriteSymbols(p) = If(zero, first) \o If(api, <<logical, value>> \o If(position, <<secondary>>))
  BY DEF SpriteSymbols
<1>8. IndividualSize(p) = Needed(5, zero) + Needed(65 + Needed(1, position), api)
      /\ Needed(5, zero) = ZeroSize(p)
  BY <1>2 DEF IndividualSize, ZeroSize, Needed
<1> HIDE DEF first, logical, value, secondary, zero, position, api
<1>9. Fills(<<logical>> \o <<value>>, next, 64 + 1) BY <1>4, <1>5, FillBoth
<1>10. <<logical>> \o <<value>> = <<logical, value>> BY Two
<1>11. Fills(<<logical, value>>, next, 65)
  <2>1. 64 + 1 = 65 OBVIOUS
  <2> QED BY <1>9, <1>10, <2>1
<1>12. Fills(If(position, <<secondary>>), next + 65, Needed(1, position))
  <2>1. next + 65 \in Nat BY <1>1
  <2> QED BY <1>2, <1>6, <2>1, FillIf
<1>13. Fills(<<logical, value>> \o If(position, <<secondary>>), next, 65 + Needed(1, position))
  BY <1>11, <1>12, FillBoth
<1>14. Fills(If(api, <<logical, value>> \o If(position, <<secondary>>)), next,
             Needed(65 + Needed(1, position), api))
  BY <1>1, <1>2, <1>13, FillIf
<1>15. Fills(If(zero, first), start, Needed(5, zero)) BY <1>1, <1>2, <1>3, FillIf
<1>16. next = start + Needed(5, zero) BY <1>8
<1> HIDE DEF start, next
<1> QED BY <1>7, <1>8, <1>14, <1>15, <1>16, FillBoth DEF start

\* The arrays and scratch bytes of metasprites fill what is reserved for them.
LEMMA MetaspritesFill ==
  ASSUME NEW p \in LayoutPrograms
  PROVE  Fills(MetaspriteSymbols(p), RuntimeStart(p) + IndividualSize(p),
               Needed(InstanceSize(p) + 8, p.instances > 0))
<1> DEFINE base == RuntimeStart(p) + IndividualSize(p)
           n == p.instances
           animation == Uses(p, "animation")
           arrays(names) == [i \in DOMAIN names |-> <<names[i], n>>]
           place == <<"x", "y", "frame", "flags">>
           motion == <<"animation", "animation_frame", "animation_timer", "animation_flags">>
           scratch == <<"current_instance", "frame_remaining", "slots_remaining",
                        "oam_offset", "offset_x", "offset_y", "tile", "attributes">>
           A == Consecutive(arrays(place), base)
           B == Consecutive(arrays(motion), base + 4 * n)
           C == Consecutive(Cells(scratch), MetaspriteScratch(p))
<1>1. base \in Nat /\ n \in Nat /\ InstanceSize(p) \in Nat BY PartTypes, ProgramTypes
<1>2. animation \in BOOLEAN /\ (n > 0) \in BOOLEAN BY <1>1 DEF Uses
<1>3. InstanceSize(p) = 4 * n + Needed(4 * n, animation)
  BY <1>1 DEF InstanceSize, Needed
<1>4. MetaspriteScratch(p) = base + InstanceSize(p) BY DEF MetaspriteScratch
<1>5. MetaspriteSymbols(p) = If(n > 0, A \o If(animation, B) \o C) BY DEF MetaspriteSymbols
<1>6. place \in Seq(Name) /\ Len(place) = 4 /\ motion \in Seq(Name) /\ Len(motion) = 4
  BY DEF Name
<1>7. scratch \in Seq(Name) /\ Len(scratch) = 8 BY DEF Name
<1> HIDE DEF base, animation, place, motion, scratch
<1>8. ASSUME n > 0 PROVE Fills(A \o If(animation, B) \o C, base, InstanceSize(p) + 8)
  <2>1. n \in Nat \ {0} BY <1>1, <1>8
  <2>2. Take(arrays(place), 4 * n) BY <1>6, <2>1, TakeEqual
  <2>3. Take(arrays(motion), 4 * n) BY <1>6, <2>1, TakeEqual
  <2>4. Take(Cells(scratch), 8) BY <1>7, TakeCells
  <2> HIDE DEF arrays, n
  <2>5. Fills(A, base, 4 * n) BY <1>1, <2>2, FillConsecutive
  <2>6. base + 4 * n \in Nat /\ base + InstanceSize(p) \in Nat BY <1>1
  <2>7. Fills(B, base + 4 * n, 4 * n) BY <2>3, <2>6, FillConsecutive
  <2>8. Fills(C, base + InstanceSize(p), 8) BY <1>4, <2>4, <2>6, FillConsecutive
  <2> HIDE DEF A, B, C
  <2>9. Fills(If(animation, B), base + 4 * n, Needed(4 * n, animation)) BY <1>2, <2>6, <2>7, FillIf
  <2>10. Fills(A \o If(animation, B), base, InstanceSize(p)) BY <1>3, <2>5, <2>9, FillBoth
  <2> QED BY <2>8, <2>10, FillBoth
<1> HIDE DEF A, B, C, n
<1>9. Fills(If(n > 0, A \o If(animation, B) \o C), base, Needed(InstanceSize(p) + 8, n > 0))
  BY <1>1, <1>2, <1>8, FillIf
<1> QED BY <1>5, <1>9 DEF base, n

\* Palette, PPU state, scroll and shadow bytes adjoin and fill their sizes.
LEMMA PpuFills ==
  ASSUME NEW p \in LayoutPrograms
  PROVE  Fills(PpuSymbols(p), RuntimeStart(p) + SpriteSize(p),
               PaletteSize(p) + PpuStateSize + ScrollSize(p) + ShadowSize(p))
<1> DEFINE palette == RuntimeStart(p) + SpriteSize(p)
           ppu == palette + PaletteSize(p)
           scroll == ppu + PpuStateSize
           usesPalette == Uses(p, "palette")
           usesScroll == Uses(p, "scroll")
           usesShadow == Uses(p, "get_tile")
           a == <<"palette_shadow", palette, 32>>
           b == <<"background_dirty", palette + 32, 4>>
           c == <<"sprite_dirty", palette + 36, 4>>
           d == <<"universal_dirty", palette + 40, 1>>
           state == <<"ppuctrl", "ppumask", "scroll_x", "scroll_y">>
           pending == <<"pending_x", "pending_y", "scroll_ready">>
           shadow == <<"background_shadow", scroll + ScrollSize(p), 960>>
           A == <<a, b, c, d>>
           B == Consecutive(Cells(state), ppu)
           C == Consecutive(Cells(pending), scroll)
           D == <<shadow>>
<1>1. palette \in Nat /\ PaletteSize(p) \in Nat /\ ScrollSize(p) \in Nat /\ ShadowSize(p) \in Nat
      /\ ppu \in Nat /\ PpuStateSize = 4 /\ scroll \in Nat
  BY PartTypes DEF PpuStateSize
<1>2. usesPalette \in BOOLEAN /\ usesScroll \in BOOLEAN /\ usesShadow \in BOOLEAN BY DEF Uses
<1>3. PaletteSize(p) = Needed(41, usesPalette) /\ ScrollSize(p) = Needed(3, usesScroll)
      /\ ShadowSize(p) = Needed(960, usesShadow)
  BY DEF PaletteSize, ScrollSize, ShadowSize
<1>4. PpuSymbols(p) = If(usesPalette, A) \o B \o If(usesScroll, C) \o If(usesShadow, D)
  BY DEF PpuSymbols
<1>5. state \in Seq(Name) /\ Len(state) = 4 /\ pending \in Seq(Name) /\ Len(pending) = 3
  BY DEF Name
<1> HIDE DEF usesPalette, usesScroll, usesShadow, state, pending
<1>6. Fills(A, palette, 41)
  <2>1. a \in PlainSymbol /\ b \in PlainSymbol /\ c \in PlainSymbol /\ d \in PlainSymbol
    <3>1. {"palette_shadow", "background_dirty", "sprite_dirty", "universal_dirty"} \subseteq Name
      BY DEF Name
    <3>2. palette \in Nat /\ palette + 32 \in Nat /\ palette + 36 \in Nat /\ palette + 40 \in Nat
      BY <1>1
    <3> QED BY <3>1, <3>2, SymbolIsTriple
  <2>2. a[2] = palette /\ a[3] = 32 /\ b[2] = palette + 32 /\ b[3] = 4
        /\ c[2] = palette + 36 /\ c[3] = 4 /\ d[2] = palette + 40 /\ d[3] = 1
    OBVIOUS
  <2>3. palette + 32 + 4 = palette + 36 /\ palette + 36 + 4 = palette + 40 BY <1>1
  <2> HIDE DEF a, b, c, d, palette
  <2>4. Fills(<<a>>, palette, 32) /\ Fills(<<b>>, palette + 32, 4) /\ Fills(<<c>>, palette + 36, 4)
        /\ Fills(<<d>>, palette + 40, 1)
    BY <2>1, <2>2, FillOne
  <2>5. Fills(<<a>> \o <<b>>, palette, 36) BY <2>4, FillBoth
  <2>6. Fills(<<a>> \o <<b>> \o <<c>>, palette, 40) BY <2>4, <2>5, FillBoth
  <2>7. Fills(<<a>> \o <<b>> \o <<c>> \o <<d>>, palette, 41) BY <2>4, <2>6, FillBoth
  <2>8. <<a>> \o <<b>> \o <<c>> \o <<d>> = <<a, b, c, d>>
    <3>1. <<a>> \o <<b>> = <<a, b>> BY Two
    <3>2. <<a, b>> \o <<c>> = <<a, b, c>> BY Three
    <3>3. <<a, b, c>> \o <<d>> = <<a, b, c, d>> BY Four
    <3> QED BY <3>1, <3>2, <3>3
  <2> QED BY <2>7, <2>8
<1>7. Fills(B, ppu, 4) BY <1>1, <1>5, TakeCells, FillConsecutive
<1>8. Fills(C, scroll, 3) BY <1>1, <1>5, TakeCells, FillConsecutive
<1>9. Fills(D, scroll + ScrollSize(p), 960)
  <2>1. shadow \in PlainSymbol /\ shadow[2] = scroll + ScrollSize(p) /\ shadow[3] = 960
    <3>1. "background_shadow" \in Name BY DEF Name
    <3>2. scroll + ScrollSize(p) \in Nat BY <1>1
    <3> QED BY <3>1, <3>2, SymbolIsTriple
  <2> HIDE DEF shadow
  <2> QED BY <2>1, FillOne
<1> HIDE DEF A, B, C, D
<1>10. Fills(If(usesPalette, A), palette, PaletteSize(p)) BY <1>1, <1>2, <1>3, <1>6, FillIf
<1>11. Fills(If(usesScroll, C), scroll, ScrollSize(p)) BY <1>1, <1>2, <1>3, <1>8, FillIf
<1>12. Fills(If(usesShadow, D), scroll + ScrollSize(p), ShadowSize(p))
  <2>1. scroll + ScrollSize(p) \in Nat BY <1>1
  <2> QED BY <1>2, <1>3, <1>9, <2>1, FillIf
<1>13. Fills(If(usesPalette, A) \o B, palette, PaletteSize(p) + 4) BY <1>7, <1>10, FillBoth
<1>14. scroll = palette + (PaletteSize(p) + 4) BY <1>1
<1>15. Fills(If(usesPalette, A) \o B \o If(usesScroll, C), palette, PaletteSize(p) + 4 + ScrollSize(p))
  <2> HIDE DEF scroll
  <2> QED BY <1>11, <1>13, <1>14, FillBoth
<1>16. scroll + ScrollSize(p) = palette + (PaletteSize(p) + 4 + ScrollSize(p)) BY <1>1
<1>17. Fills(If(usesPalette, A) \o B \o If(usesScroll, C) \o If(usesShadow, D), palette,
             PaletteSize(p) + 4 + ScrollSize(p) + ShadowSize(p))
  <2> DEFINE at == scroll + ScrollSize(p)
  <2> HIDE DEF at
  <2>1. at = palette + (PaletteSize(p) + 4 + ScrollSize(p)) BY <1>16 DEF at
  <2>2. Fills(If(usesShadow, D), at, ShadowSize(p)) BY <1>12 DEF at
  <2> QED BY <1>15, <2>1, <2>2, FillBoth
<1> QED BY <1>1, <1>4, <1>17

\* One field takes its size.
LEMMA TakeOne ==
  ASSUME NEW name \in Name, NEW n \in Nat \ {0}
  PROVE  Take(<<<<name, n>>>>, n)
<1> DEFINE f == <<<<name, n>>>>
<1>1. f \in Seq(Field) /\ Len(f) = 1 /\ f[1][2] = n
  <2>1. <<name, n>> \in Field /\ <<name, n>>[2] = n BY DEF Field
  <2> QED BY <2>1
<1>2. FieldSizes(f) \in Seq(Nat) /\ Len(FieldSizes(f)) = 1 BY <1>1, FieldSizesAreSizes
<1>3. FieldSizes(f)[1] = n BY <1>1 DEF FieldSizes
<1> HIDE DEF f
<1>4. /\ PartialSums(FieldSizes(f))[0] = 0
      /\ PartialSums(FieldSizes(f))[0 + 1] = PartialSums(FieldSizes(f))[0] + FieldSizes(f)[0 + 1]
  BY <1>2, Sums
<1>5. Total(FieldSizes(f)) = n BY <1>2, <1>3, <1>4 DEF Total
<1> QED BY <1>1, <1>5 DEF Take, f

\* The fields of the queue, the overflow flag and the helpers.
LEMMA HelpersFill ==
  ASSUME NEW p \in LayoutPrograms
  PROVE  Fills(HelperSymbols(p), RuntimeStart(p) + BeforeBackground(p),
               BackgroundSize(p) + CollisionSize(p) + RandomSize(p))
<1> DEFINE queue == Queue(p)
           flag == OverflowFlag(p)
           clears == Uses(p, "clear_updates")
           coordinates == CoordinateInputs(p)
           writer == QueueWriter(p)
           index == TileIndex(p)
           geometry == Geometry(p)
           collision == Collision(p)
           random == Uses(p, "random")
           range == Uses(p, "random_range")
           n1 == <<"overflow">>
           n2 == <<"cancel_lock">>
           n3 == <<"background_x", "background_y">>
           n4 == <<"pending_value">>
           n5 == <<"index_low", "index_page">>
           n6 == <<"left_x", "left_y", "left_width", "left_height", "right_x", "right_y", "right_width", "right_height">>
           n7 == <<"point_x", "point_y">>
           n8 == <<"state_low", "state_high">>
           n9 == <<"span", "cutoff">>
           r == <<"ready", 4>>
           h == <<"high", 4>>
           l == <<"low", 4>>
           q == <<"queued", 4>>
           f0 == <<r, h, l, q>>
           f1 == Cells(n1)
           f2 == Cells(n2)
           f3 == Cells(n3)
           f4 == Cells(n4)
           f5 == Cells(n5)
           f6 == Cells(n6)
           f7 == Cells(n7)
           f8 == Cells(n8)
           f9 == Cells(n9)
<1>1. /\ queue \in BOOLEAN
      /\ flag \in BOOLEAN
      /\ clears \in BOOLEAN
      /\ coordinates \in BOOLEAN
      /\ writer \in BOOLEAN
      /\ index \in BOOLEAN
      /\ geometry \in BOOLEAN
      /\ collision \in BOOLEAN
      /\ random \in BOOLEAN
      /\ range \in BOOLEAN
      /\ range => random
  BY ProgramTypes
     DEF Uses, UsesAny, Queue, QueueWriter, OverflowFlag, CoordinateInputs, TileIndex, Geometry, Collision
<1>2. HelperSymbols(p) =
        Consecutive(If(queue, f0) \o If(flag, f1) \o If(clears, f2) \o If(coordinates, f3)
                    \o If(writer, f4) \o If(index, f5) \o If(geometry, f6)
                    \o If(collision, f7) \o If(random, f8) \o If(range, f9),
                    RuntimeStart(p) + BeforeBackground(p))
  BY DEF HelperSymbols
<1>3. /\ n1 \in Seq(Name) /\ Len(n1) = 1
      /\ n2 \in Seq(Name) /\ Len(n2) = 1
      /\ n3 \in Seq(Name) /\ Len(n3) = 2
      /\ n4 \in Seq(Name) /\ Len(n4) = 1
      /\ n5 \in Seq(Name) /\ Len(n5) = 2
      /\ n6 \in Seq(Name) /\ Len(n6) = 8
      /\ n7 \in Seq(Name) /\ Len(n7) = 2
      /\ n8 \in Seq(Name) /\ Len(n8) = 2
      /\ n9 \in Seq(Name) /\ Len(n9) = 2
  BY DEF Name
<1>4. Take(f0, 16)
  <2>1. {"ready", "high", "low", "queued"} \subseteq Name BY DEF Name
  <2>2. Take(<<r>>, 4) /\ Take(<<h>>, 4) /\ Take(<<l>>, 4) /\ Take(<<q>>, 4) BY <2>1, TakeOne
  <2> HIDE DEF r, h, l, q
  <2>3. Take(<<r>> \o <<h>>, 4 + 4) BY <2>2, TakeBoth
  <2>4. Take(<<r>> \o <<h>> \o <<l>>, 4 + 4 + 4) BY <2>2, <2>3, TakeBoth
  <2>5. Take(<<r>> \o <<h>> \o <<l>> \o <<q>>, 4 + 4 + 4 + 4) BY <2>2, <2>4, TakeBoth
  <2>6. <<r>> \o <<h>> \o <<l>> \o <<q>> = <<r, h, l, q>>
    <3>1. <<r>> \o <<h>> = <<r, h>> BY Two
    <3>2. <<r, h>> \o <<l>> = <<r, h, l>> BY Three
    <3>3. <<r, h, l>> \o <<q>> = <<r, h, l, q>> BY Four
    <3> QED BY <3>1, <3>2, <3>3
  <2>7. 4 + 4 + 4 + 4 = 16 OBVIOUS
  <2> QED BY <2>5, <2>6, <2>7
<1> HIDE DEF n1, n2, n3, n4, n5, n6, n7, n8, n9
<1>5. /\ Take(f1, 1)
      /\ Take(f2, 1)
      /\ Take(f3, 2)
      /\ Take(f4, 1)
      /\ Take(f5, 2)
      /\ Take(f6, 8)
      /\ Take(f7, 2)
      /\ Take(f8, 2)
      /\ Take(f9, 2)
  BY <1>3, TakeCells
<1>6. BackgroundSize(p) = Needed(16, queue) + Needed(1, flag) + Needed(1, clears)
        + Needed(2, coordinates) + Needed(1, writer) + Needed(2, index)
  BY DEF BackgroundSize
<1>7. CollisionSize(p) = Needed(8, geometry) + Needed(2, collision) BY <1>1 DEF CollisionSize, Collision, Needed
<1>8. RandomSize(p) = Needed(2, random) + Needed(2, range) BY <1>1 DEF RandomSize, Needed
<1> HIDE DEF queue, flag, clears, coordinates, writer, index, geometry, collision, random, range, f0, f1, f2, f3, f4, f5, f6, f7, f8, f9
<1>9. /\ Take(If(queue, f0), Needed(16, queue)) /\ Needed(16, queue) \in Nat
      /\ Take(If(flag, f1), Needed(1, flag)) /\ Needed(1, flag) \in Nat
      /\ Take(If(clears, f2), Needed(1, clears)) /\ Needed(1, clears) \in Nat
      /\ Take(If(coordinates, f3), Needed(2, coordinates)) /\ Needed(2, coordinates) \in Nat
      /\ Take(If(writer, f4), Needed(1, writer)) /\ Needed(1, writer) \in Nat
      /\ Take(If(index, f5), Needed(2, index)) /\ Needed(2, index) \in Nat
      /\ Take(If(geometry, f6), Needed(8, geometry)) /\ Needed(8, geometry) \in Nat
      /\ Take(If(collision, f7), Needed(2, collision)) /\ Needed(2, collision) \in Nat
      /\ Take(If(random, f8), Needed(2, random)) /\ Needed(2, random) \in Nat
      /\ Take(If(range, f9), Needed(2, range)) /\ Needed(2, range) \in Nat
  <2>1. \A n \in Nat, b \in BOOLEAN : Needed(n, b) \in Nat BY DEF Needed
  <2> QED BY <1>1, <1>4, <1>5, <2>1, TakeIf
<1> DEFINE g0 == If(queue, f0)
           s0 == Needed(16, queue)
           g1 == g0 \o If(flag, f1)
           s1 == s0 + Needed(1, flag)
           g2 == g1 \o If(clears, f2)
           s2 == s1 + Needed(1, clears)
           g3 == g2 \o If(coordinates, f3)
           s3 == s2 + Needed(2, coordinates)
           g4 == g3 \o If(writer, f4)
           s4 == s3 + Needed(1, writer)
           g5 == g4 \o If(index, f5)
           s5 == s4 + Needed(2, index)
           g6 == g5 \o If(geometry, f6)
           s6 == s5 + Needed(8, geometry)
           g7 == g6 \o If(collision, f7)
           s7 == s6 + Needed(2, collision)
           g8 == g7 \o If(random, f8)
           s8 == s7 + Needed(2, random)
           g9 == g8 \o If(range, f9)
           s9 == s8 + Needed(2, range)
<1> HIDE DEF g0, g1, g2, g3, g4, g5, g6, g7, g8, g9
<1>10. Take(g0, s0) BY <1>9 DEF g0
<1>11. Take(g1, s1) BY <1>9, <1>10, TakeBoth DEF g1
<1>12. Take(g2, s2) BY <1>9, <1>11, TakeBoth DEF g2
<1>13. Take(g3, s3) BY <1>9, <1>12, TakeBoth DEF g3
<1>14. Take(g4, s4) BY <1>9, <1>13, TakeBoth DEF g4
<1>15. Take(g5, s5) BY <1>9, <1>14, TakeBoth DEF g5
<1>16. Take(g6, s6) BY <1>9, <1>15, TakeBoth DEF g6
<1>17. Take(g7, s7) BY <1>9, <1>16, TakeBoth DEF g7
<1>18. Take(g8, s8) BY <1>9, <1>17, TakeBoth DEF g8
<1>19. Take(g9, s9) BY <1>9, <1>18, TakeBoth DEF g9
<1>20. s9 = BackgroundSize(p) + CollisionSize(p) + RandomSize(p) BY <1>6, <1>7, <1>8, <1>9
<1>21. RuntimeStart(p) + BeforeBackground(p) \in Nat BY PartTypes
<1>22. HelperSymbols(p) = Consecutive(g9, RuntimeStart(p) + BeforeBackground(p))
  BY <1>2 DEF g0, g1, g2, g3, g4, g5, g6, g7, g8, g9
<1> HIDE DEF s9
<1> QED BY <1>19, <1>20, <1>21, <1>22, FillConsecutive

\* The symbols of the runtime data fill it.
LEMMA GeneralFills ==
  ASSUME NEW p \in LayoutPrograms
  PROVE  Fills(GeneralSymbols(p), RuntimeStart(p), RuntimeDataSize(p)) /\ RuntimeDataSize(p) \in Nat
<1> DEFINE start == RuntimeStart(p)
           meta == Needed(InstanceSize(p) + 8, p.instances > 0)
           ppu == PaletteSize(p) + PpuStateSize + ScrollSize(p) + ShadowSize(p)
           helper == BackgroundSize(p) + CollisionSize(p) + RandomSize(p)
<1>1. start \in Nat /\ IndividualSize(p) \in Nat /\ meta \in Nat /\ ppu \in Nat /\ helper \in Nat
  <2>1. meta \in Nat BY PartTypes DEF Needed
  <2>2. ppu \in Nat BY PartTypes DEF PpuStateSize
  <2>3. helper \in Nat BY DEF BackgroundSize, CollisionSize, RandomSize, Needed
  <2> QED BY <2>1, <2>2, <2>3, PartTypes
<1>2. SpriteSize(p) = IndividualSize(p) + meta BY DEF SpriteSize
<1>3. BeforeBackground(p) = IndividualSize(p) + meta + ppu
  BY <1>1, <1>2, PartTypes DEF BeforeBackground, PpuStateSize
<1>4. RuntimeDataSize(p) = IndividualSize(p) + meta + ppu + helper
  <2>1. BackgroundSize(p) \in Nat /\ CollisionSize(p) \in Nat /\ RandomSize(p) \in Nat
    BY DEF BackgroundSize, CollisionSize, RandomSize, Needed
  <2> HIDE DEF meta, ppu
  <2> QED BY <1>1, <1>3, <2>1 DEF RuntimeDataSize
<1>5. Fills(SpriteSymbols(p), start, IndividualSize(p)) BY SpritesFill
<1>6. Fills(MetaspriteSymbols(p), start + IndividualSize(p), meta) BY MetaspritesFill
<1>7. Fills(PpuSymbols(p), start + SpriteSize(p), ppu) BY PpuFills
<1>8. Fills(HelperSymbols(p), start + BeforeBackground(p), helper) BY HelpersFill
<1> HIDE DEF start, meta, ppu, helper
<1>9. Fills(SpriteSymbols(p) \o MetaspriteSymbols(p), start, IndividualSize(p) + meta)
  BY <1>5, <1>6, FillBoth
<1>10. Fills(SpriteSymbols(p) \o MetaspriteSymbols(p) \o PpuSymbols(p), start,
             IndividualSize(p) + meta + ppu)
  BY <1>2, <1>7, <1>9, FillBoth
<1>11. Fills(SpriteSymbols(p) \o MetaspriteSymbols(p) \o PpuSymbols(p) \o HelperSymbols(p), start,
             IndividualSize(p) + meta + ppu + helper)
  BY <1>3, <1>8, <1>10, FillBoth
<1> QED BY <1>1, <1>4, <1>11 DEF GeneralSymbols, start

-----------------------------------------------------------------------------
(***************************************************************************)
(* The owners of the other regions.                                        *)
(***************************************************************************)
LEMMA OwnOne ==
  ASSUME NEW name \in Name \cup ZeroPageNames, NEW a \in Nat, NEW n \in Nat \ {0},
         NEW b \in Int, b = a + n - 1
  PROVE  Owns(<<<<name, a, n>>>>, a .. b)
<1> DEFINE x == <<name, a, n>>
<1>1. x \in Symbol /\ Bytes(x) = a .. b BY DEF Symbol, Bytes
<1> HIDE DEF x
<1>2. <<x>> \in Seq(Symbol) /\ DOMAIN <<x>> = {1} /\ <<x>>[1] = x BY <1>1
<1>3. SymbolBytes(<<x>>) = Bytes(x)
  <2>1. \A y : y \in SymbolBytes(<<x>>) <=> \E i \in DOMAIN <<x>> : y \in Bytes(<<x>>[i])
    BY BytesOfSymbols
  <2> QED BY <1>2, <2>1
<1> QED BY <1>1, <1>2, <1>3 DEF Owns, x

\* Optional symbols own their bytes exactly if they are there.
LEMMA OwnIf ==
  ASSUME NEW s, NEW B, NEW b \in BOOLEAN, b => Owns(s, B)
  PROVE  Owns(If(b, s), IF b THEN B ELSE {})
<1>1. Owns(<<>>, {}) BY DEF Owns, SymbolBytes
<1> QED BY <1>1 DEF If

\* The bytes of a region hold symbols that own some of them.
LEMMA OwnersFit ==
  ASSUME NEW s, NEW B, Owns(s, B), NEW a \in Nat, NEW n \in Nat, NEW at \in SUBSET DOMAIN s,
         \A i \in at : Bytes(s[i]) \subseteq a .. a + n - 1
  PROVE  Holds(<<a, n>>, s, at)
<1>1. ASSUME NEW i \in at PROVE Inside(s[i], <<a, n>>)
  <2> DEFINE b == s[i][2]
             m == s[i][3]
  <2>1. s[i] \in Symbol BY DEF Owns
  <2>2. b \in Nat /\ m \in Nat \ {0} BY <2>1 DEF Symbol
  <2> HIDE DEF b, m
  <2>3. b .. b + m - 1 \subseteq a .. a + n - 1 BY DEF Bytes, b, m
  <2>4. b \in b .. b + m - 1 /\ b + m - 1 \in b .. b + m - 1 BY <2>2
  <2>5. b \in a .. a + n - 1 /\ b + m - 1 \in a .. a + n - 1 BY <2>3, <2>4
  <2>6. m > 0 /\ b >= a /\ b + m <= a + n BY <2>2, <2>5
  <2> QED BY <2>6 DEF Inside, b, m
<1>2. \A i, j \in at : i # j => Apart(s[i], s[j]) BY DEF Owns
<1> QED BY <1>1, <1>2 DEF Holds

\* Owners within a region pass the check of the segment.
LEMMA OwnersFitAll ==
  ASSUME NEW s, NEW B, Owns(s, B), NEW a \in Nat, NEW n \in Nat, B \subseteq a .. a + n - 1
  PROVE  HoldsAll(<<a, n>>, s)
<1>1. \A i \in DOMAIN s : Bytes(s[i]) \subseteq a .. a + n - 1 BY BytesOfSymbols DEF Owns
<1> QED BY <1>1, OwnersFit DEF HoldsAll

\* The bytes that the layout uses of the first fifteen.
FixedBytes(p) ==
  (0 .. 8) \cup (IF p.instances > 0 THEN 9 .. 12 ELSE {})
    \cup (IF Collision(p) THEN 13 .. 14 ELSE {})

\* The fixed bytes of the runtime in Zero Page.
LEMMA FixedOwned ==
  ASSUME NEW p \in LayoutPrograms
  PROVE  Owns(ZeroPageSymbols(p), FixedBytes(p))
<1> DEFINE instances == p.instances > 0
           collision == Collision(p)
           names == <<"frame_counter", "frame_ready", "last_processed_frame",
                      "controller_1_current", "controller_1_previous",
                      "controller_2_current", "controller_2_previous",
                      "controller_polled_frame", "controller_poll_valid">>
           frame == <<<<"frame_pointer", 9, 2>>>>
           slot == <<<<"slot_pointer", 11, 2>>>>
           pointer == <<<<"collision_pointer", 13, 2>>>>
           first == Consecutive(Cells(names), 0)
<1>1. instances \in BOOLEAN /\ collision \in BOOLEAN
  BY ProgramTypes DEF Collision, Geometry, Uses, UsesAny
<1>2. ZeroPageSymbols(p) = first \o If(instances, <<<<"frame_pointer", 9, 2>>, <<"slot_pointer", 11, 2>>>>)
                                 \o If(collision, pointer)
  BY DEF ZeroPageSymbols
<1>3. Owns(first, 0 .. 8)
  <2>1. names \in Seq(Name) /\ Len(names) = 9 BY DEF Name
  <2> HIDE DEF names
  <2>2. Fills(first, 0, 9) BY <2>1, TakeCells, FillConsecutive
  <2>3. 0 + 9 - 1 = 8 OBVIOUS
  <2> HIDE DEF first
  <2> QED BY <2>2, <2>3, FillIsOwn
<1>4. Owns(frame, 9 .. 10) /\ Owns(slot, 11 .. 12) /\ Owns(pointer, 13 .. 14)
  <2>1. {"frame_pointer", "slot_pointer", "collision_pointer"} \subseteq ZeroPageNames
    BY DEF ZeroPageNames
  <2>2. 10 = 9 + 2 - 1 /\ 12 = 11 + 2 - 1 /\ 14 = 13 + 2 - 1 OBVIOUS
  <2>3. 9 \in Nat /\ 11 \in Nat /\ 13 \in Nat /\ 2 \in Nat \ {0} /\ 10 \in Int /\ 12 \in Int /\ 14 \in Int
    OBVIOUS
  <2>4. Owns(frame, 9 .. 10) BY <2>1, <2>2, <2>3, OwnOne, Zenon
  <2>5. Owns(slot, 11 .. 12) BY <2>1, <2>2, <2>3, OwnOne, Zenon
  <2>6. Owns(pointer, 13 .. 14) BY <2>1, <2>2, <2>3, OwnOne, Zenon
  <2> QED BY <2>4, <2>5, <2>6
<1>5. frame \o slot = <<<<"frame_pointer", 9, 2>>, <<"slot_pointer", 11, 2>>>> BY Two
<1> HIDE DEF instances, collision, names, frame, slot, pointer, first
<1>6. Owns(frame \o slot, 9 .. 12)
  <2>1. (9 .. 10) \cap (11 .. 12) = {} /\ (9 .. 10) \cup (11 .. 12) = 9 .. 12 OBVIOUS
  <2>2. Owns(frame \o slot, (9 .. 10) \cup (11 .. 12)) BY <1>4, <2>1, OwnBoth
  <2> QED BY <2>1, <2>2
<1>7. Owns(If(instances, frame \o slot), IF instances THEN 9 .. 12 ELSE {}) BY <1>1, <1>6, OwnIf
<1>8. Owns(If(collision, pointer), IF collision THEN 13 .. 14 ELSE {}) BY <1>1, <1>4, OwnIf
<1>9. (0 .. 8) \cap (IF instances THEN 9 .. 12 ELSE {}) = {} OBVIOUS
<1>10. ((0 .. 8) \cup (IF instances THEN 9 .. 12 ELSE {}))
          \cap (IF collision THEN 13 .. 14 ELSE {}) = {}
  OBVIOUS
<1>11. Owns(first \o If(instances, frame \o slot), (0 .. 8) \cup (IF instances THEN 9 .. 12 ELSE {}))
  BY <1>3, <1>7, <1>9, OwnBoth
<1>12. Owns(first \o If(instances, frame \o slot) \o If(collision, pointer),
            (0 .. 8) \cup (IF instances THEN 9 .. 12 ELSE {})
              \cup (IF collision THEN 13 .. 14 ELSE {}))
  BY <1>8, <1>10, <1>11, OwnBoth
<1> QED BY <1>2, <1>5, <1>12 DEF FixedBytes, instances, collision

\* What it means that they fit in their region.
LEMMA FixedFits ==
  ASSUME NEW p \in LayoutPrograms
  PROVE  RuntimeFits(p) <=> FixedBytes(p) \subseteq 0 .. ZeroPageRuntimeSize - 1
<1>1. SymbolBytes(ZeroPageSymbols(p)) = FixedBytes(p) BY FixedOwned DEF Owns
<1>2. RegionBytes(ZeroPageRuntime) = 0 .. ZeroPageRuntimeSize - 1
  <2>1. 0 + ZeroPageRuntimeSize - 1 = ZeroPageRuntimeSize - 1 BY LayoutSettings
  <2> QED BY <2>1 DEF RegionBytes, ZeroPageRuntime
<1> QED BY <1>1, <1>2 DEF RuntimeFits

\* Temporaries and loop limits, one byte each.
LEMMA TemporariesOwned ==
  ASSUME NEW p \in LayoutPrograms
  PROVE  Owns(CompilerSymbols(p),
              ZeroPageRuntimeSize .. ZeroPageRuntimeSize + (p.temporaries + p.limits) - 1)
<1> DEFINE s == CompilerSymbols(p)
           n == p.temporaries + p.limits
           z == ZeroPageRuntimeSize
<1>1. n \in Nat /\ z \in Nat BY ProgramTypes, LayoutSettings
<1>2. s = [i \in 1 .. n |-> <<"temporary", z + i - 1, 1>>] BY DEF CompilerSymbols
<1> HIDE DEF s, n, z
<1>3. ASSUME NEW i \in 1 .. n
      PROVE  s[i] \in Symbol /\ s[i][2] = z + i - 1 /\ s[i][3] = 1 /\ Bytes(s[i]) = {z + i - 1}
  <2>1. "temporary" \in Name \cup ZeroPageNames BY DEF ZeroPageNames
  <2>2. z + i - 1 \in Nat BY <1>1
  <2>3. s[i] = <<"temporary", z + i - 1, 1>> BY <1>2
  <2> DEFINE a == z + i - 1
  <2> HIDE DEF a
  <2>4. s[i] = <<"temporary", a, 1>> /\ a \in Nat BY <2>2, <2>3 DEF a
  <2>5. Bytes(<<"temporary", a, 1>>) = {a}
    <3>1. a .. a + 1 - 1 = {a} BY <2>4
    <3> QED BY <3>1 DEF Bytes
  <2>6. s[i] \in Symbol /\ s[i][2] = a /\ s[i][3] = 1 BY <2>1, <2>4 DEF Symbol
  <2> QED BY <2>4, <2>5, <2>6 DEF a
<1>4. s \in Seq(Symbol) /\ DOMAIN s = 1 .. n
  <2>1. s = [i \in 1 .. n |-> s[i]] BY <1>2
  <2> QED BY <1>1, <1>3, <2>1
<1>5. SymbolBytes(s) = z .. z + n - 1
  <2>1. \A y : y \in SymbolBytes(s) <=> \E i \in 1 .. n : y \in Bytes(s[i])
    BY <1>4, BytesOfSymbols
  <2>2. ASSUME NEW y \in SymbolBytes(s) PROVE y \in z .. z + n - 1
    <3>1. PICK i \in 1 .. n : y \in Bytes(s[i]) BY <2>1
    <3>2. y = z + i - 1 BY <1>3, <3>1
    <3> QED BY <1>1, <3>2
  <2>3. ASSUME NEW y \in z .. z + n - 1 PROVE y \in SymbolBytes(s)
    <3> DEFINE i == y - z + 1
    <3>1. i \in 1 .. n /\ z + i - 1 = y BY <1>1
    <3> HIDE DEF i
    <3>2. y \in Bytes(s[i]) BY <1>3, <3>1
    <3> QED BY <2>1, <3>1, <3>2
  <2> QED BY <2>2, <2>3
<1>6. ASSUME NEW i \in 1 .. n, NEW j \in 1 .. n, i # j PROVE Apart(s[i], s[j])
  <2>1. z + i - 1 + 1 <= z + j - 1 \/ z + j - 1 + 1 <= z + i - 1 BY <1>1, <1>6
  <2>2. s[i][2] = z + i - 1 /\ s[i][3] = 1 /\ s[j][2] = z + j - 1 /\ s[j][3] = 1 BY <1>3
  <2> QED BY <2>1, <2>2 DEF Apart
<1> QED BY <1>4, <1>5, <1>6 DEF Owns, s, n, z

\* The results of functions.
LEMMA ResultsOwned ==
  ASSUME NEW p \in LayoutPrograms
  PROVE  Owns(ResultSymbols(p), ResultStart(p) .. ResultStart(p) + p.functions - 1)
<1> DEFINE a == ResultStart(p)
           n == p.functions
<1>1. a \in Nat /\ n \in Nat BY GeneralFills, PartTypes, ProgramTypes DEF ResultStart
<1>2. ResultSymbols(p) = If(n > 0, <<<<"results", a, n>>>>) BY DEF ResultSymbols
<1> HIDE DEF a, n
<1>3. "results" \in Name \cup ZeroPageNames BY DEF Name
<1>4. n > 0 => Owns(<<<<"results", a, n>>>>, a .. a + n - 1)
  <2> DEFINE b == a + n - 1
  <2>1. b \in Int BY <1>1
  <2>2. b = a + n - 1 OBVIOUS
  <2> HIDE DEF b
  <2>3. n > 0 => Owns(<<<<"results", a, n>>>>, a .. b) BY <1>1, <1>3, <2>1, <2>2, OwnOne
  <2> QED BY <2>3 DEF b
<1>5. (n > 0) \in BOOLEAN /\ (~(n > 0) => a .. a + n - 1 = {}) BY <1>1
<1>6. Owns(If(n > 0, <<<<"results", a, n>>>>), IF n > 0 THEN a .. a + n - 1 ELSE {})
  BY <1>4, <1>5, OwnIf
<1> QED BY <1>2, <1>5, <1>6 DEF a, n

\* The OAM shadow.
LEMMA OamOwned ==
  ASSUME NEW p \in LayoutPrograms
  PROVE  Owns(OamSymbols(p), IF OamShadow(p) THEN 512 .. 767 ELSE {})
<1>1. OamSymbols(p) = If(OamShadow(p), <<<<"oam_shadow", 512, 256>>>>)
  BY DEF OamSymbols, OamShadowStart
<1>2. "oam_shadow" \in Name \cup ZeroPageNames BY DEF Name
<1>3. Owns(<<<<"oam_shadow", 512, 256>>>>, 512 .. 767)
  <2> DEFINE a == 512
             n == 256
             b == 767
  <2>1. b = a + n - 1 /\ a \in Nat /\ n \in Nat \ {0} /\ b \in Int OBVIOUS
  <2> HIDE DEF a, n, b
  <2>2. Owns(<<<<"oam_shadow", a, n>>>>, a .. b) BY <1>2, <2>1, OwnOne
  <2> QED BY <2>2 DEF a, n, b
<1>4. OamShadow(p) \in BOOLEAN BY ProgramTypes DEF OamShadow, SpriteApi, Uses
<1> QED BY <1>1, <1>3, <1>4, OwnIf

\* The symbols of the four parts of RAM have names of their own.
LEMMA NamesOutsideZeroPage ==
  ASSUME NEW p \in LayoutPrograms
  PROVE  /\ \A i \in DOMAIN OamSymbols(p) : OamSymbols(p)[i][1] \notin ZeroPageNames
         /\ \A i \in DOMAIN GeneralSymbols(p) : GeneralSymbols(p)[i][1] \notin ZeroPageNames
         /\ \A i \in DOMAIN ResultSymbols(p) : ResultSymbols(p)[i][1] \notin ZeroPageNames
<1>1. Name \cap ZeroPageNames = {} BY DEF Name, ZeroPageNames
<1>2. ASSUME NEW i \in DOMAIN GeneralSymbols(p)
      PROVE  GeneralSymbols(p)[i][1] \notin ZeroPageNames
  <2>1. GeneralSymbols(p) \in Seq(PlainSymbol) BY GeneralFills DEF Fills
  <2>2. GeneralSymbols(p)[i] \in PlainSymbol BY <2>1
  <2>3. GeneralSymbols(p)[i][1] \in Name BY <2>2 DEF PlainSymbol
  <2> QED BY <1>1, <2>3
<1>3. \A i \in DOMAIN OamSymbols(p) : OamSymbols(p)[i][1] \notin ZeroPageNames
  BY DEF OamSymbols, If, ZeroPageNames
<1>4. \A i \in DOMAIN ResultSymbols(p) : ResultSymbols(p)[i][1] \notin ZeroPageNames
  BY DEF ResultSymbols, If, ZeroPageNames
<1> QED BY <1>2, <1>3, <1>4

-----------------------------------------------------------------------------
(***************************************************************************)
(* The loop over the user variables.  RegularUpTo is what the first k      *)
(* variables take of general RAM.                                          *)
(***************************************************************************)
Least(m, n) == IF m <= n THEN m ELSE n

VariableSizes(p) == [i \in DOMAIN p.variables |-> p.variables[i].size]
PromotableUpTo(p, k) == Cardinality({i \in 1 .. k : Promotable(p.variables[i])})
RegularUpTo(p, k) ==
  PartialSums(VariableSizes(p))[k] - Least(PromotableUpTo(p, k), AutomaticSize)

\* Starts and sizes of the regions are numbers.
LEMMA RegionTypes ==
  ASSUME NEW p \in LayoutPrograms
  PROVE  /\ ZeroPageRuntimeSize \in Nat /\ TemporaryCapacity \in Nat
         /\ ExplicitReserveSize \in Nat /\ AutomaticSize \in Nat
         /\ AutomaticStart = ZeroPageRuntimeSize + TemporaryCapacity + ExplicitReserveSize
         /\ AutomaticStart \in Nat /\ AutomaticStart + AutomaticSize <= 256
         /\ ResultStart(p) = RuntimeStart(p) + RuntimeDataSize(p)
         /\ UserStart(p) = ResultStart(p) + p.functions
         /\ RuntimeStart(p) \in Nat /\ RuntimeDataSize(p) \in Nat /\ p.functions \in Nat
         /\ RuntimeStart(p) >= 512 /\ ResultStart(p) \in Nat /\ UserStart(p) \in Nat
         /\ RuntimeStart(p) <= ResultStart(p) /\ ResultStart(p) <= UserStart(p)
<1>1. RuntimeDataSize(p) \in Nat BY GeneralFills
<1>2. RuntimeStart(p) \in Nat /\ RuntimeStart(p) >= 512 BY PartTypes
<1>3. p.functions \in Nat BY ProgramTypes
<1>4. AutomaticStart \in Nat /\ AutomaticStart + AutomaticSize <= 256
  BY LayoutSettings DEF AutomaticStart
<1> QED BY <1>1, <1>2, <1>3, <1>4, LayoutSettings DEF AutomaticStart, ResultStart, UserStart

\* The variables of a program and their sizes.
LEMMA VariableTypes ==
  ASSUME NEW p \in LayoutPrograms
  PROVE  /\ Len(p.variables) \in Nat
         /\ PartialSums(VariableSizes(p)) \in [0 .. Len(p.variables) -> Nat]
         /\ PartialSums(VariableSizes(p))[0] = 0
         /\ \A k \in 0 .. Len(p.variables) - 1 :
              /\ PartialSums(VariableSizes(p))[k + 1]
                   = PartialSums(VariableSizes(p))[k] + p.variables[k + 1].size
              /\ p.variables[k + 1].size \in Nat \ {0}
              /\ Promotable(p.variables[k + 1]) \in BOOLEAN
              /\ Promotable(p.variables[k + 1]) => p.variables[k + 1].size = 1
<1> DEFINE vs == p.variables
           n == Len(vs)
<1>1. vs \in Seq(UserVariable) BY ProgramTypes
<1> HIDE DEF vs
<1>2. n \in Nat /\ DOMAIN vs = 1 .. n BY <1>1
<1>3. ASSUME NEW i \in 1 .. n
      PROVE  vs[i].size \in Nat \ {0} /\ Promotable(vs[i]) \in BOOLEAN
             /\ (Promotable(vs[i]) => vs[i].size = 1)
  <2>1. vs[i] \in UserVariable BY <1>1
  <2> QED BY <2>1 DEF UserVariable, Promotable
<1>4. VariableSizes(p) = [i \in 1 .. n |-> vs[i].size] BY <1>2 DEF VariableSizes, vs
<1>5. VariableSizes(p) \in Seq(Nat) /\ Len(VariableSizes(p)) = n
  <2>1. \A i \in 1 .. n : vs[i].size \in Nat BY <1>3
  <2> QED BY <1>2, <1>4, <2>1
<1>6. /\ PartialSums(VariableSizes(p)) \in [0 .. n -> Nat]
      /\ PartialSums(VariableSizes(p))[0] = 0
      /\ \A k \in 0 .. n - 1 : PartialSums(VariableSizes(p))[k + 1]
           = PartialSums(VariableSizes(p))[k] + VariableSizes(p)[k + 1]
  BY <1>5, Sums
<1>7. ASSUME NEW k \in 0 .. n - 1
      PROVE  k + 1 \in 1 .. n /\ VariableSizes(p)[k + 1] = vs[k + 1].size
  BY <1>2, <1>4
<1> HIDE DEF n
<1>8. \A k \in 0 .. n - 1 :
        /\ PartialSums(VariableSizes(p))[k + 1] = PartialSums(VariableSizes(p))[k] + vs[k + 1].size
        /\ vs[k + 1].size \in Nat \ {0}
        /\ Promotable(vs[k + 1]) \in BOOLEAN
        /\ Promotable(vs[k + 1]) => vs[k + 1].size = 1
  BY <1>3, <1>6, <1>7
<1> QED BY <1>2, <1>6, <1>8 DEF n, vs

\* Counting the promotable variables one by one.
LEMMA PromotableCounts ==
  ASSUME NEW p \in LayoutPrograms
  PROVE  /\ PromotableUpTo(p, 0) = 0
         /\ \A k \in 0 .. Len(p.variables) : PromotableUpTo(p, k) \in Nat
         /\ \A k \in 0 .. Len(p.variables) - 1 :
              PromotableUpTo(p, k + 1)
                = PromotableUpTo(p, k) + (IF Promotable(p.variables[k + 1]) THEN 1 ELSE 0)
<1> DEFINE V(k) == {i \in 1 .. k : Promotable(p.variables[i])}
<1>1. V(0) = {} OBVIOUS
<1>2. ASSUME NEW k \in Nat PROVE IsFiniteSet(V(k)) /\ Cardinality(V(k)) \in Nat
  <2>1. IsFiniteSet(1 .. k) BY FS_Interval
  <2>2. V(k) \subseteq 1 .. k OBVIOUS
  <2> HIDE DEF V
  <2>3. IsFiniteSet(V(k)) BY <2>1, <2>2, FS_Subset
  <2> QED BY <2>3, FS_CardinalityType
<1>3. ASSUME NEW k \in 0 .. Len(p.variables) - 1
      PROVE  Cardinality(V(k + 1))
               = Cardinality(V(k)) + (IF Promotable(p.variables[k + 1]) THEN 1 ELSE 0)
  <2>1. k \in Nat BY VariableTypes
  <2>2. CASE Promotable(p.variables[k + 1])
    <3>1. V(k + 1) = V(k) \cup {k + 1} /\ k + 1 \notin V(k) BY <2>1, <2>2
    <3> HIDE DEF V
    <3> QED BY <1>2, <2>1, <2>2, <3>1, FS_AddElement
  <2>3. CASE ~Promotable(p.variables[k + 1])
    <3>1. V(k + 1) = V(k) BY <2>1, <2>3
    <3> HIDE DEF V
    <3> QED BY <1>2, <2>1, <2>3, <3>1
  <2> QED BY <2>2, <2>3
<1>4. Cardinality(V(0)) = 0
  <2> HIDE DEF V
  <2> QED BY <1>1, FS_EmptySet
<1>5. \A k : PromotableUpTo(p, k) = Cardinality(V(k)) BY DEF PromotableUpTo
<1> HIDE DEF V
<1>6. \A k \in 0 .. Len(p.variables) : k \in Nat BY VariableTypes
<1> QED BY <1>2, <1>3, <1>4, <1>5, <1>6

\* One more variable never takes less of general RAM; if it is not promoted
\* it takes its size.
LEMMA RegularStep ==
  ASSUME NEW p \in LayoutPrograms, NEW k \in 0 .. Len(p.variables) - 1
  PROVE  /\ RegularUpTo(p, k) \in Int /\ RegularUpTo(p, k + 1) \in Int
         /\ RegularUpTo(p, k) <= RegularUpTo(p, k + 1)
         /\ ~Promotable(p.variables[k + 1]) \/ PromotableUpTo(p, k) >= AutomaticSize
              => /\ RegularUpTo(p, k + 1) = RegularUpTo(p, k) + p.variables[k + 1].size
                 /\ Least(PromotableUpTo(p, k + 1), AutomaticSize)
                      = Least(PromotableUpTo(p, k), AutomaticSize)
         /\ Promotable(p.variables[k + 1]) /\ PromotableUpTo(p, k) < AutomaticSize
              => Least(PromotableUpTo(p, k + 1), AutomaticSize)
                   = Least(PromotableUpTo(p, k), AutomaticSize) + 1
<1> DEFINE a == PartialSums(VariableSizes(p))[k]
           b == PartialSums(VariableSizes(p))[k + 1]
           size == p.variables[k + 1].size
           m == PromotableUpTo(p, k)
           n == PromotableUpTo(p, k + 1)
           promotable == Promotable(p.variables[k + 1])
<1>1. k \in 0 .. Len(p.variables) /\ k + 1 \in 0 .. Len(p.variables) BY VariableTypes
<1>2. a \in Nat /\ b = a + size /\ size \in Nat \ {0} /\ promotable \in BOOLEAN
      /\ (promotable => size = 1)
  BY <1>1, VariableTypes
<1>3. m \in Nat /\ n = m + (IF promotable THEN 1 ELSE 0) BY <1>1, PromotableCounts
<1>4. RegularUpTo(p, k) = a - Least(m, AutomaticSize)
      /\ RegularUpTo(p, k + 1) = b - Least(n, AutomaticSize)
  BY DEF RegularUpTo
<1> HIDE DEF a, b, size, m, n, promotable
<1>5. AutomaticSize \in Nat BY LayoutSettings
<1>6. Least(m, AutomaticSize) \in Nat /\ Least(n, AutomaticSize) \in Nat
  BY <1>3, <1>5 DEF Least
<1>7. ~promotable \/ m >= AutomaticSize => Least(n, AutomaticSize) = Least(m, AutomaticSize)
  BY <1>2, <1>3, <1>5 DEF Least
<1>8. promotable /\ m < AutomaticSize => Least(n, AutomaticSize) = Least(m, AutomaticSize) + 1
  BY <1>2, <1>3, <1>5 DEF Least
<1>9. ~promotable \/ m >= AutomaticSize
        => b - Least(n, AutomaticSize) = (a - Least(m, AutomaticSize)) + size
  BY <1>2, <1>6, <1>7
<1>10. a - Least(m, AutomaticSize) <= b - Least(n, AutomaticSize)
  BY <1>2, <1>3, <1>5, <1>6, <1>7, <1>8
<1>11. a - Least(m, AutomaticSize) \in Int /\ b - Least(n, AutomaticSize) \in Int
  BY <1>2, <1>6
<1>12. /\ RegularUpTo(p, k) \in Int /\ RegularUpTo(p, k + 1) \in Int
       /\ RegularUpTo(p, k) <= RegularUpTo(p, k + 1)
  BY <1>4, <1>10, <1>11
<1>13. ~promotable \/ m >= AutomaticSize => RegularUpTo(p, k + 1) = RegularUpTo(p, k) + size
  BY <1>4, <1>9
<1> QED BY <1>7, <1>8, <1>12, <1>13 DEF m, n, size, promotable

\* What the variables take of general RAM never falls.
LEMMA RegularGrows ==
  ASSUME NEW p \in LayoutPrograms
  PROVE  /\ RegularBytes(p) \in Nat
         /\ RegularUpTo(p, Len(p.variables)) = RegularBytes(p)
         /\ \A k \in 0 .. Len(p.variables) :
              RegularUpTo(p, k) \in Nat /\ RegularUpTo(p, k) <= RegularBytes(p)
<1> DEFINE n == Len(p.variables)
           f == [k \in 0 .. n |-> RegularUpTo(p, k)]
<1>1. n \in Nat /\ PartialSums(VariableSizes(p)) \in [0 .. n -> Nat] BY VariableTypes
<1>2. f[0] = 0
  <2>1. PartialSums(VariableSizes(p))[0] = 0 BY VariableTypes
  <2>2. Least(PromotableUpTo(p, 0), AutomaticSize) = 0
    BY PromotableCounts, LayoutSettings DEF Least
  <2> QED BY <1>1, <2>1, <2>2 DEF RegularUpTo
<1>3. \A k \in 0 .. n : f[k] \in Int
  <2>1. ASSUME NEW k \in 0 .. n PROVE RegularUpTo(p, k) \in Int
    <3>1. PartialSums(VariableSizes(p))[k] \in Nat BY <1>1
    <3>2. Least(PromotableUpTo(p, k), AutomaticSize) \in Nat
      BY PromotableCounts, LayoutSettings DEF Least
    <3> QED BY <3>1, <3>2 DEF RegularUpTo
  <2> QED BY <2>1
<1>4. \A k \in 0 .. n - 1 : f[k] <= f[k + 1]
  <2>1. ASSUME NEW k \in 0 .. n - 1 PROVE f[k] <= f[k + 1]
    <3>1. k \in 0 .. n /\ k + 1 \in 0 .. n BY <1>1
    <3>2. RegularUpTo(p, k) <= RegularUpTo(p, k + 1) BY RegularStep
    <3> QED BY <3>1, <3>2
  <2> QED BY <2>1
<1>5. f[n] = RegularBytes(p)
  <2>1. DOMAIN p.variables = 1 .. n
    <3>1. p.variables \in Seq(UserVariable) BY ProgramTypes
    <3> QED BY <3>1
  <2>2. Promoted(p) = PromotableUpTo(p, n) BY <2>1 DEF Promoted, PromotableUpTo
  <2>3. Len(VariableSizes(p)) = n BY <1>1, <2>1 DEF VariableSizes
  <2>4. Total(VariableSizes(p)) = PartialSums(VariableSizes(p))[n] BY <2>3 DEF Total
  <2>5. RegularBytes(p) = Total(VariableSizes(p)) - Least(Promoted(p), AutomaticSize)
    BY DEF RegularBytes, VariableSizes, Least
  <2>6. f[n] = RegularUpTo(p, n) BY <1>1
  <2> QED BY <2>2, <2>4, <2>5, <2>6 DEF RegularUpTo
<1>6. \A k \in 0 .. n : f[k] = RegularUpTo(p, k) OBVIOUS
<1> HIDE DEF f
<1>7. \A i \in 0 .. n : \A j \in i .. n : f[i] <= f[j]
  <2> HIDE DEF n
  <2> QED BY <1>1, <1>3, <1>4, NeverFalls
<1>8. ASSUME NEW k \in 0 .. n PROVE f[k] \in Nat /\ f[k] <= f[n]
  <2>1. 0 \in 0 .. n /\ k \in 0 .. n /\ n \in k .. n BY <1>1
  <2>2. f[0] <= f[k] /\ f[k] <= f[n] BY <1>7, <2>1
  <2>3. f[k] \in Int BY <1>3
  <2> QED BY <1>2, <2>2, <2>3
<1>9. n \in 0 .. n BY <1>1
<1> HIDE DEF n
<1>10. RegularBytes(p) \in Nat /\ RegularUpTo(p, n) = RegularBytes(p)
  BY <1>5, <1>6, <1>8, <1>9
<1>11. \A k \in 0 .. n : RegularUpTo(p, k) \in Nat /\ RegularUpTo(p, k) <= RegularBytes(p)
  BY <1>5, <1>6, <1>8
<1> QED BY <1>10, <1>11 DEF n

\* The variables placed so far tile the two regions from their starts, and
\* promotion has taken all that it could.
Laid(p, plan) ==
  /\ Len(plan.symbols) <= Len(p.variables)
  /\ plan.automatic \in AutomaticStart .. AutomaticStart + AutomaticSize
  /\ plan.next \in UserStart(p) .. RamSize
  /\ Owns(plan.symbols, (AutomaticStart .. plan.automatic - 1) \cup (UserStart(p) .. plan.next - 1))
  /\ \A i \in DOMAIN plan.symbols :
       LET s == plan.symbols[i] IN
       \/ s[1] = "promoted" /\ Bytes(s) \subseteq AutomaticStart .. plan.automatic - 1
       \/ s[1] = "user" /\ Bytes(s) \subseteq UserStart(p) .. plan.next - 1
  /\ plan.automatic - AutomaticStart
       = Least(PromotableUpTo(p, Len(plan.symbols)), AutomaticSize)
  /\ plan.next - UserStart(p) = RegularUpTo(p, Len(plan.symbols))

LayoutInv ==
  /\ kind = "layout" /\ query \in LayoutPrograms
  /\ progress # NotStarted => RegionDiagnostic(query) = "none" /\ Laid(query, Plan)
  /\ EveryByteHasOneOwner

\* Append as a join.
LEMMA AppendIsJoin ==
  ASSUME NEW S, NEW s \in Seq(S), NEW x \in S
  PROVE  Append(s, x) = s \o <<x>>
<1>1. Append(s, x) \in Seq(S) /\ s \o <<x>> \in Seq(S) OBVIOUS
<1>2. Len(Append(s, x)) = Len(s \o <<x>>) OBVIOUS
<1>3. \A i \in 1 .. Len(Append(s, x)) : Append(s, x)[i] = (s \o <<x>>)[i] OBVIOUS
<1> QED BY <1>1, <1>2, <1>3, SameElements

\* One more symbol, at bytes from a to b that nothing owned.
Fresh(B, name, a, n, b) ==
  /\ name \in Name \cup ZeroPageNames /\ a \in Nat /\ n \in Nat \ {0} /\ b \in Int
  /\ b = a + n - 1 /\ B \cap (a .. b) = {}

Extended(s, x, t) ==
  /\ DOMAIN s = 1 .. Len(s) /\ Len(t) = Len(s) + 1 /\ DOMAIN t = 1 .. Len(s) + 1
  /\ t[Len(s) + 1] = x
  /\ \A i \in 1 .. Len(s) : t[i] = s[i]

\* A symbol on fresh bytes conflicts with no earlier one.
LEMMA OwnMore ==
  ASSUME NEW s, NEW B, Owns(s, B), NEW name, NEW a, NEW n, NEW b, Fresh(B, name, a, n, b)
  PROVE  /\ Owns(Append(s, <<name, a, n>>), B \cup (a .. b))
         /\ Extended(s, <<name, a, n>>, Append(s, <<name, a, n>>))
<1> DEFINE x == <<name, a, n>>
<1>1. x \in Symbol /\ Bytes(x) = a .. b BY DEF Symbol, Bytes, Fresh
<1>2. s \in Seq(Symbol) BY DEF Owns
<1>3. Owns(<<x>>, a .. b) BY OwnOne DEF Fresh
<1> HIDE DEF x
<1>4. Owns(s \o <<x>>, B \cup (a .. b)) BY <1>3, OwnBoth DEF Fresh
<1>5. Append(s, x) = s \o <<x>> BY <1>1, <1>2, AppendIsJoin
<1>6. Extended(s, x, Append(s, x)) BY <1>1, <1>2 DEF Extended
<1> QED BY <1>1, <1>4, <1>5, <1>6 DEF x

\* Promoting a variable keeps the tiling of both regions.
LEMMA PromotedStays ==
  ASSUME NEW p \in LayoutPrograms, NEW plan, Laid(p, plan),
         Len(plan.symbols) < Len(p.variables),
         Promotable(p.variables[Len(plan.symbols) + 1]),
         plan.automatic < AutomaticStart + AutomaticSize,
         NEW new, new.symbols = Append(plan.symbols, <<"promoted", plan.automatic,
                                                       p.variables[Len(plan.symbols) + 1].size>>),
         new.automatic = plan.automatic + p.variables[Len(plan.symbols) + 1].size,
         new.next = plan.next
  PROVE  Laid(p, new)
<1> DEFINE k == Len(plan.symbols)
           size == p.variables[k + 1].size
           a == plan.automatic
           low == AutomaticStart
           first == UserStart(p)
           next == plan.next
           x == <<"promoted", a, size>>
           end == new.automatic
           B == (low .. a - 1) \cup (first .. next - 1)
<1>1. Owns(plan.symbols, B) BY DEF Laid
<1>2. k \in Nat /\ k \in 0 .. Len(p.variables) - 1
  <2>1. plan.symbols \in Seq(Symbol) BY <1>1 DEF Owns
  <2>2. Len(plan.symbols) \in Nat BY <2>1
  <2> QED BY <2>2, VariableTypes
<1>3. size = 1 BY <1>2, VariableTypes
<1>4. low \in Nat /\ AutomaticSize \in Nat /\ low + AutomaticSize <= 256 /\ first \in Nat /\ first >= 512
  BY RegionTypes
<1>5. a \in low .. low + AutomaticSize - 1 /\ next \in first .. RamSize /\ a \in Nat /\ next \in Nat
  BY <1>4 DEF Laid, RamSize
<1>6. "promoted" \in Name \cup ZeroPageNames BY DEF ZeroPageNames
<1>7. B \cap (a .. a) = {} BY <1>4, <1>5
<1>8. a - low = Least(PromotableUpTo(p, k), AutomaticSize)
      /\ next - first = RegularUpTo(p, k)
  BY DEF Laid
<1>9. new.symbols = Append(plan.symbols, x) /\ end = a + 1 /\ new.next = next BY <1>3
<1>10. \A i \in DOMAIN plan.symbols :
         \/ plan.symbols[i][1] = "promoted" /\ Bytes(plan.symbols[i]) \subseteq low .. a - 1
         \/ plan.symbols[i][1] = "user" /\ Bytes(plan.symbols[i]) \subseteq first .. next - 1
  BY DEF Laid
<1>11. /\ Owns(Append(plan.symbols, x), B \cup (a .. a))
       /\ DOMAIN plan.symbols = 1 .. k /\ Len(Append(plan.symbols, x)) = k + 1
       /\ DOMAIN Append(plan.symbols, x) = 1 .. k + 1
       /\ \A i \in 1 .. k : Append(plan.symbols, x)[i] = plan.symbols[i]
       /\ Append(plan.symbols, x)[k + 1] = x /\ Bytes(x) = a .. a
  <2> DEFINE s == plan.symbols
             name == "promoted"
             last == a
  <2>1. size \in Nat \ {0} /\ last \in Int /\ last = a + size - 1 BY <1>3, <1>5
  <2>2. Owns(s, B) /\ name \in Name \cup ZeroPageNames /\ B \cap (a .. last) = {}
    BY <1>1, <1>6, <1>7
  <2> HIDE DEF a, B, size, s, name, last
  <2>3. Fresh(B, name, a, size, last) BY <1>5, <2>1, <2>2 DEF Fresh
  <2>4. /\ Owns(Append(s, <<name, a, size>>), B \cup (a .. last))
        /\ Extended(s, <<name, a, size>>, Append(s, <<name, a, size>>))
        /\ Bytes(<<name, a, size>>) = a .. last
    <3>1. Owns(Append(s, <<name, a, size>>), B \cup (a .. last)) BY <2>2, <2>3, OwnMore
    <3>2. Extended(s, <<name, a, size>>, Append(s, <<name, a, size>>)) BY <2>2, <2>3, OwnMore
    <3>3. Bytes(<<name, a, size>>) = a .. last BY <2>1 DEF Bytes
    <3> QED BY <3>1, <3>2, <3>3
  <2> QED BY <2>4 DEF s, name, last, Extended
<1>12. PromotableUpTo(p, k) < AutomaticSize
  <2>1. PromotableUpTo(p, k) \in Nat BY <1>2, PromotableCounts
  <2> HIDE DEF a, k
  <2> QED BY <1>4, <1>5, <1>8, <2>1 DEF Least
<1>13. /\ Least(PromotableUpTo(p, k + 1), AutomaticSize)
            = Least(PromotableUpTo(p, k), AutomaticSize) + 1
       /\ RegularUpTo(p, k + 1) = RegularUpTo(p, k)
  <2>1. Promotable(p.variables[k + 1]) OBVIOUS
  <2>2. Least(PromotableUpTo(p, k + 1), AutomaticSize)
          = Least(PromotableUpTo(p, k), AutomaticSize) + 1
    BY <1>2, <1>12, <2>1, RegularStep
  <2>3. PartialSums(VariableSizes(p))[k + 1] = PartialSums(VariableSizes(p))[k] + size
        /\ PartialSums(VariableSizes(p))[k] \in Nat
    <3>1. k \in 0 .. Len(p.variables) BY <1>2, VariableTypes
    <3> HIDE DEF k
    <3> QED BY <1>2, <3>1, VariableTypes
  <2>4. Least(PromotableUpTo(p, k), AutomaticSize) \in Int
    <3> HIDE DEF a, low, k
    <3> QED BY <1>4, <1>5, <1>8
  <2> HIDE DEF k, size
  <2> QED BY <1>3, <2>2, <2>3, <2>4 DEF RegularUpTo
<1>14. B \cup (a .. a) = (low .. end - 1) \cup (first .. next - 1)
  <2> HIDE DEF a, low, first, next, end
  <2>1. (low .. a - 1) \cup (a .. a) = low .. end - 1 BY <1>4, <1>5, <1>9
  <2> QED BY <2>1
<1>15. low .. a - 1 \subseteq low .. end - 1 /\ a .. a \subseteq low .. end - 1
  <2> HIDE DEF a, low, end
  <2> QED BY <1>4, <1>5, <1>9
<1>16. a + 1 \in low .. low + AutomaticSize /\ (a + 1) - low = (a - low) + 1
       /\ k + 1 <= Len(p.variables)
  <2>1. k + 1 <= Len(p.variables) BY <1>2, VariableTypes
  <2> HIDE DEF a, low
  <2> QED BY <1>4, <1>5, <2>1
<1> HIDE DEF B, k, a, low, first, next, end
<1>17. x[1] = "promoted" OBVIOUS
<1> HIDE DEF x
<1>18. ASSUME NEW i \in DOMAIN new.symbols
       PROVE  \/ /\ new.symbols[i][1] = "promoted"
                 /\ Bytes(new.symbols[i]) \subseteq low .. end - 1
              \/ /\ new.symbols[i][1] = "user"
                 /\ Bytes(new.symbols[i]) \subseteq first .. new.next - 1
  <2>1. CASE i = k + 1 BY <1>9, <1>11, <1>15, <1>17, <2>1
  <2>2. CASE i # k + 1
    <3>1. i \in 1 .. k BY <1>2, <1>9, <1>11, <2>2
    <3>2. new.symbols[i] = plan.symbols[i] /\ i \in DOMAIN plan.symbols BY <1>9, <1>11, <3>1
    <3> QED BY <1>9, <1>10, <1>15, <3>2
  <2> QED BY <2>1, <2>2
<1>19. Owns(new.symbols, (low .. end - 1) \cup (first .. new.next - 1))
  BY <1>9, <1>11, <1>14
<1>20. Len(new.symbols) = k + 1 BY <1>9, <1>11
<1>21. end - low = Least(PromotableUpTo(p, Len(new.symbols)), AutomaticSize)
       /\ new.next - first = RegularUpTo(p, Len(new.symbols))
  BY <1>8, <1>9, <1>13, <1>16, <1>20
<1>22. Len(new.symbols) <= Len(p.variables)
       /\ end \in low .. low + AutomaticSize /\ new.next \in first .. RamSize
  BY <1>5, <1>9, <1>16, <1>20
<1> QED BY <1>18, <1>19, <1>21, <1>22 DEF Laid, low, first, end

\* Placing a variable in user RAM keeps the tiling of both regions.
LEMMA PlacedStays ==
  ASSUME NEW p \in LayoutPrograms, NEW plan, Laid(p, plan),
         Len(plan.symbols) < Len(p.variables),
         \/ ~Promotable(p.variables[Len(plan.symbols) + 1])
         \/ ~(plan.automatic < AutomaticStart + AutomaticSize),
         p.variables[Len(plan.symbols) + 1].size <= RamSize - plan.next,
         NEW new, new.symbols = Append(plan.symbols, <<"user", plan.next,
                                                       p.variables[Len(plan.symbols) + 1].size>>),
         new.automatic = plan.automatic,
         new.next = plan.next + p.variables[Len(plan.symbols) + 1].size
  PROVE  Laid(p, new)
<1> DEFINE k == Len(plan.symbols)
           size == p.variables[k + 1].size
           a == plan.automatic
           low == AutomaticStart
           first == UserStart(p)
           next == plan.next
           last == next + size - 1
           x == <<"user", next, size>>
           end == new.next
           B == (low .. a - 1) \cup (first .. next - 1)
<1>1. Owns(plan.symbols, B) BY DEF Laid
<1>2. k \in Nat /\ k \in 0 .. Len(p.variables) - 1
  <2>1. plan.symbols \in Seq(Symbol) BY <1>1 DEF Owns
  <2>2. Len(plan.symbols) \in Nat BY <2>1
  <2> QED BY <2>2, VariableTypes
<1>3. size \in Nat \ {0} BY <1>2, VariableTypes
<1>4. low \in Nat /\ AutomaticSize \in Nat /\ low + AutomaticSize <= 256 /\ first \in Nat /\ first >= 512
  BY RegionTypes
<1>5. a \in low .. low + AutomaticSize /\ next \in first .. RamSize /\ a \in Nat /\ next \in Nat
  BY <1>4 DEF Laid, RamSize
<1>6. "user" \in Name \cup ZeroPageNames BY DEF Name
<1>7. B \cap (next .. last) = {} BY <1>3, <1>4, <1>5
<1>8. a - low = Least(PromotableUpTo(p, k), AutomaticSize)
      /\ next - first = RegularUpTo(p, k)
  BY DEF Laid
<1>9. new.symbols = Append(plan.symbols, x) /\ new.automatic = a /\ end = next + size OBVIOUS
<1>10. \A i \in DOMAIN plan.symbols :
         \/ plan.symbols[i][1] = "promoted" /\ Bytes(plan.symbols[i]) \subseteq low .. a - 1
         \/ plan.symbols[i][1] = "user" /\ Bytes(plan.symbols[i]) \subseteq first .. next - 1
  BY DEF Laid
<1>11. /\ Owns(Append(plan.symbols, x), B \cup (next .. last))
       /\ DOMAIN plan.symbols = 1 .. k /\ Len(Append(plan.symbols, x)) = k + 1
       /\ DOMAIN Append(plan.symbols, x) = 1 .. k + 1
       /\ \A i \in 1 .. k : Append(plan.symbols, x)[i] = plan.symbols[i]
       /\ Append(plan.symbols, x)[k + 1] = x /\ Bytes(x) = next .. last
  <2>1. last \in Int /\ last = next + size - 1 BY <1>3, <1>5
  <2> DEFINE s == plan.symbols
             name == "user"
  <2>2. Owns(s, B) /\ name \in Name \cup ZeroPageNames BY <1>1, <1>6
  <2> HIDE DEF next, last, B, size, s, name
  <2>3. Fresh(B, name, next, size, last) BY <1>3, <1>5, <1>7, <2>1, <2>2 DEF Fresh
  <2>4. /\ Owns(Append(s, <<name, next, size>>), B \cup (next .. last))
        /\ Extended(s, <<name, next, size>>, Append(s, <<name, next, size>>))
        /\ Bytes(<<name, next, size>>) = next .. last
    <3>1. Owns(Append(s, <<name, next, size>>), B \cup (next .. last)) BY <2>2, <2>3, OwnMore
    <3>2. Extended(s, <<name, next, size>>, Append(s, <<name, next, size>>)) BY <2>2, <2>3, OwnMore
    <3>3. Bytes(<<name, next, size>>) = next .. last BY <2>1 DEF Bytes
    <3> QED BY <3>1, <3>2, <3>3
  <2> QED BY <2>4 DEF s, name, Extended
<1>12. ~Promotable(p.variables[k + 1]) \/ PromotableUpTo(p, k) >= AutomaticSize
  <2>1. PromotableUpTo(p, k) \in Nat BY <1>2, PromotableCounts
  <2>2. ~Promotable(p.variables[k + 1]) \/ ~(a < low + AutomaticSize) OBVIOUS
  <2> HIDE DEF a, k, low
  <2>3. ~(a < low + AutomaticSize) => PromotableUpTo(p, k) >= AutomaticSize
    BY <1>4, <1>5, <1>8, <2>1 DEF Least
  <2> QED BY <2>2, <2>3
<1>13. /\ Least(PromotableUpTo(p, k + 1), AutomaticSize) = Least(PromotableUpTo(p, k), AutomaticSize)
       /\ RegularUpTo(p, k + 1) = RegularUpTo(p, k) + size
  BY <1>2, <1>12, RegularStep
<1>14. /\ B \cup (next .. last) = (low .. a - 1) \cup (first .. end - 1)
       /\ first .. next - 1 \subseteq first .. end - 1
       /\ next .. last \subseteq first .. end - 1
  <2> HIDE DEF low, a, first, next, size, end
  <2>1. (first .. next - 1) \cup (next .. last) = first .. end - 1 BY <1>3, <1>4, <1>5, <1>9
  <2>2. first .. next - 1 \subseteq first .. end - 1 BY <1>3, <1>4, <1>5, <1>9
  <2> QED BY <2>1, <2>2
<1>15. next + size \in first .. RamSize /\ (next + size) - first = (next - first) + size
       /\ k + 1 <= Len(p.variables)
  <2>1. k + 1 <= Len(p.variables) BY <1>2, VariableTypes
  <2>2. size <= RamSize - next OBVIOUS
  <2> HIDE DEF first, next, size, k
  <2> QED BY <1>3, <1>4, <1>5, <2>1, <2>2 DEF RamSize
<1> HIDE DEF B, k, a, low, first, next, last, size, end
<1>16. x[1] = "user" OBVIOUS
<1> HIDE DEF x
<1>17. ASSUME NEW i \in DOMAIN new.symbols
       PROVE  \/ /\ new.symbols[i][1] = "promoted"
                 /\ Bytes(new.symbols[i]) \subseteq low .. new.automatic - 1
              \/ /\ new.symbols[i][1] = "user"
                 /\ Bytes(new.symbols[i]) \subseteq first .. end - 1
  <2>1. CASE i = k + 1 BY <1>9, <1>11, <1>14, <1>16, <2>1
  <2>2. CASE i # k + 1
    <3>1. i \in 1 .. k BY <1>2, <1>9, <1>11, <2>2
    <3>2. new.symbols[i] = plan.symbols[i] /\ i \in DOMAIN plan.symbols BY <1>9, <1>11, <3>1
    <3> QED BY <1>9, <1>10, <1>14, <3>2
  <2> QED BY <2>1, <2>2
<1>18. Owns(new.symbols, (low .. new.automatic - 1) \cup (first .. end - 1))
  BY <1>9, <1>11, <1>14
<1>19. Len(new.symbols) = k + 1 BY <1>9, <1>11
<1>20. new.automatic - low = Least(PromotableUpTo(p, Len(new.symbols)), AutomaticSize)
       /\ end - first = RegularUpTo(p, Len(new.symbols))
  BY <1>8, <1>9, <1>13, <1>15, <1>19
<1>21. Len(new.symbols) <= Len(p.variables)
       /\ new.automatic \in low .. low + AutomaticSize /\ end \in first .. RamSize
  BY <1>5, <1>9, <1>15, <1>19
<1> QED BY <1>17, <1>18, <1>20, <1>21 DEF Laid, low, first, end

-----------------------------------------------------------------------------
(***************************************************************************)
(* The answers.                                                            *)
(***************************************************************************)
LEMMA NoDiagnostic ==
  ASSUME NEW p \in LayoutPrograms
  PROVE  RegionDiagnostic(p) = "none"
           <=> /\ p.temporaries + p.limits <= TemporaryCapacity
               /\ p.depth <= MaxCallableDepth /\ UserStart(p) <= RamSize
<1>1. /\ p.temporaries + p.limits \in Nat /\ TemporaryCapacity \in Nat
      /\ p.depth \in Nat /\ MaxCallableDepth \in Nat
      /\ UserStart(p) \in Nat /\ RamSize \in Nat
  BY ProgramTypes, RegionTypes DEF MaxCallableDepth, RamSize
<1> QED BY <1>1 DEF RegionDiagnostic

\* The bytes of the symbols fit exactly if the regions do.
LEMMA GeneralBytesAre ==
  ASSUME NEW p \in LayoutPrograms
  PROVE  GeneralBytes(p) <= RamSize - RuntimeStart(p)
           <=> UserStart(p) + RegularBytes(p) <= RamSize
<1>1. SizeOf(GeneralSymbols(p)) = RuntimeDataSize(p) BY GeneralFills DEF Fills
<1>2. RegularBytes(p) \in Nat BY RegularGrows
<1>3. GeneralBytes(p) = RuntimeDataSize(p) + p.functions + RegularBytes(p)
  BY <1>1 DEF GeneralBytes
<1>4. /\ RuntimeStart(p) \in Nat /\ RuntimeDataSize(p) \in Nat /\ p.functions \in Nat
      /\ ResultStart(p) = RuntimeStart(p) + RuntimeDataSize(p)
      /\ UserStart(p) = ResultStart(p) + p.functions
  BY RegionTypes
<1> QED BY <1>2, <1>3, <1>4 DEF RamSize

\* A program suffices exactly if its regions do and its variables fit.
LEMMA SufficesIf ==
  ASSUME NEW p \in LayoutPrograms
  PROVE  Suffices(p) <=> /\ RegionDiagnostic(p) = "none"
                         /\ UserStart(p) + RegularBytes(p) <= RamSize
<1>1. RegularBytes(p) \in Nat BY RegularGrows
<1>2. UserStart(p) \in Nat /\ RamSize \in Nat BY RegionTypes DEF RamSize
<1>3. UserStart(p) + RegularBytes(p) <= RamSize => UserStart(p) <= RamSize BY <1>1, <1>2
<1> QED BY <1>3, NoDiagnostic, GeneralBytesAre DEF Suffices

\* The last check before linking refuses a layout whose fixed symbols do not
\* fit their region.
LEMMA SegmentsHoldFixed ==
  ASSUME NEW p \in LayoutPrograms, NEW plan, SegmentsHold(p, plan.symbols)
  PROVE  RuntimeFits(p)
<1> DEFINE s == ZeroPageSymbols(p)
           z == ZeroPageRuntimeSize
<1>1. HoldsAll(<<0, z>>, s) BY DEF SegmentsHold, ZeroPageRuntime
<1>2. s \in Seq(Symbol) /\ z \in Nat BY FixedOwned, LayoutSettings DEF Owns
<1> HIDE DEF s, z
<1>3. ASSUME NEW i \in DOMAIN s
      PROVE  s[i][2] .. s[i][2] + s[i][3] - 1 \subseteq 0 .. 0 + z - 1
  <2> DEFINE a == s[i][2]
             n == s[i][3]
  <2>1. Inside(s[i], <<0, z>>) BY <1>1 DEF HoldsAll, Holds
  <2>2. a >= 0 /\ a + n <= 0 + z BY <2>1 DEF Inside
  <2>3. s[i] \in Symbol BY <1>2
  <2>4. a \in Nat /\ n \in Nat BY <2>3 DEF Symbol
  <2> HIDE DEF a, n
  <2>5. a .. a + n - 1 \subseteq 0 .. 0 + z - 1 BY <1>2, <2>2, <2>4
  <2> QED BY <2>5 DEF a, n
<1>4. SymbolBytes(s) \subseteq 0 .. 0 + z - 1 BY <1>3 DEF SymbolBytes
<1>5. RegionBytes(ZeroPageRuntime) = 0 .. 0 + z - 1 BY DEF RegionBytes, ZeroPageRuntime, z
<1> QED BY <1>4, <1>5 DEF RuntimeFits, s

\* It refuses no other.
LEMMA SegmentsHoldIf ==
  ASSUME NEW p \in LayoutPrograms, NEW plan, RegionDiagnostic(p) = "none", Laid(p, plan),
         RuntimeFits(p)
  PROVE  SegmentsHold(p, plan.symbols)
<1>1. HoldsAll(ZeroPageRuntime, ZeroPageSymbols(p))
  <2>1. 0 \in Nat /\ ZeroPageRuntimeSize \in Nat
        /\ FixedBytes(p) \subseteq 0 .. 0 + ZeroPageRuntimeSize - 1
    <3>1. 0 + ZeroPageRuntimeSize - 1 = ZeroPageRuntimeSize - 1 BY RegionTypes
    <3> QED BY <3>1, RegionTypes, FixedFits
  <2>2. HoldsAll(<<0, ZeroPageRuntimeSize>>, ZeroPageSymbols(p))
    BY <2>1, FixedOwned, OwnersFitAll
  <2> QED BY <2>2 DEF ZeroPageRuntime
<1>2. HoldsAll(TemporaryStorage(p), CompilerSymbols(p))
  <2> DEFINE a == ZeroPageRuntimeSize
             n == p.temporaries + p.limits
  <2>1. a \in Nat /\ n \in Nat BY RegionTypes, ProgramTypes
  <2>2. Owns(CompilerSymbols(p), a .. a + n - 1) BY TemporariesOwned
  <2> HIDE DEF a, n
  <2>3. HoldsAll(<<a, n>>, CompilerSymbols(p)) BY <2>1, <2>2, OwnersFitAll
  <2> QED BY <2>3 DEF TemporaryStorage, a, n
<1>3. HoldsAll(OamRegion(p), OamSymbols(p))
  <2> DEFINE a == 512
             n == Needed(256, OamShadow(p))
             B == IF OamShadow(p) THEN 512 .. 767 ELSE {}
  <2>1. a \in Nat /\ n \in Nat /\ B \subseteq a .. a + n - 1 BY DEF Needed
  <2>2. Owns(OamSymbols(p), B) BY OamOwned
  <2> HIDE DEF a, n, B
  <2>3. HoldsAll(<<a, n>>, OamSymbols(p)) BY <2>1, <2>2, OwnersFitAll
  <2> QED BY <2>3 DEF OamRegion, OamShadowStart, a, n
<1>4. HoldsAll(RuntimeData(p), GeneralSymbols(p))
  <2> DEFINE a == RuntimeStart(p)
             n == RuntimeDataSize(p)
  <2>1. a \in Nat /\ n \in Nat BY RegionTypes
  <2>2. Owns(GeneralSymbols(p), a .. a + n - 1) BY GeneralFills, FillIsOwn
  <2> HIDE DEF a, n
  <2>3. HoldsAll(<<a, n>>, GeneralSymbols(p)) BY <2>1, <2>2, OwnersFitAll
  <2> QED BY <2>3 DEF RuntimeData, a, n
<1>5. HoldsAll(FunctionResults(p), ResultSymbols(p))
  <2> DEFINE a == ResultStart(p)
             n == p.functions
  <2>1. a \in Nat /\ n \in Nat BY RegionTypes
  <2>2. Owns(ResultSymbols(p), a .. a + n - 1) BY ResultsOwned
  <2> HIDE DEF a, n
  <2>3. HoldsAll(<<a, n>>, ResultSymbols(p)) BY <2>1, <2>2, OwnersFitAll
  <2> QED BY <2>3 DEF FunctionResults, a, n
<1> DEFINE s == plan.symbols
           low == AutomaticStart
           first == UserStart(p)
           B == (low .. plan.automatic - 1) \cup (first .. plan.next - 1)
<1>6. Owns(s, B) BY DEF Laid
<1>7. \A i \in DOMAIN s :
        \/ s[i][1] = "promoted" /\ Bytes(s[i]) \subseteq low .. plan.automatic - 1
        \/ s[i][1] = "user" /\ Bytes(s[i]) \subseteq first .. plan.next - 1
  BY DEF Laid
<1>8. Holds(AutomaticRegion, s, WithName(s, "promoted"))
  <2> DEFINE at == WithName(s, "promoted")
  <2>1. at \in SUBSET DOMAIN s BY DEF WithName
  <2>2. low \in Nat /\ AutomaticSize \in Nat BY RegionTypes
  <2>3. low .. plan.automatic - 1 \subseteq low .. low + AutomaticSize - 1
    BY <2>2 DEF Laid
  <2>4. \A i \in at : Bytes(s[i]) \subseteq low .. plan.automatic - 1 BY <1>7 DEF WithName
  <2> HIDE DEF s, B, at, low
  <2>5. \A i \in at : Bytes(s[i]) \subseteq low .. low + AutomaticSize - 1 BY <2>3, <2>4
  <2>6. Holds(<<low, AutomaticSize>>, s, at) BY <1>6, <2>1, <2>2, <2>5, OwnersFit
  <2> QED BY <2>6 DEF AutomaticRegion, at, low
<1>9. Holds(UserRam(p), s, WithName(s, "user"))
  <2> DEFINE at == WithName(s, "user")
             n == RamSize - first
  <2>1. at \in SUBSET DOMAIN s BY DEF WithName
  <2>2. first \in Nat /\ n \in Nat /\ RamSize \in Nat
    BY NoDiagnostic, RegionTypes DEF RamSize
  <2>3. first .. plan.next - 1 \subseteq first .. first + n - 1
    BY <2>2 DEF Laid
  <2>4. \A i \in at : Bytes(s[i]) \subseteq first .. plan.next - 1 BY <1>7 DEF WithName
  <2> HIDE DEF s, B, at, first, n
  <2>5. \A i \in at : Bytes(s[i]) \subseteq first .. first + n - 1 BY <2>3, <2>4
  <2>6. Holds(<<first, n>>, s, at) BY <1>6, <2>1, <2>2, <2>5, OwnersFit
  <2> QED BY <2>6 DEF UserRam, at, first, n
<1> QED BY <1>1, <1>2, <1>3, <1>4, <1>5, <1>8, <1>9 DEF SegmentsHold

\* Symbols that are addressed as Zero Page end in it.
InZeroPage(s) ==
  \A i \in DOMAIN s : s[i][1] \in ZeroPageNames => s[i][2] + s[i][3] <= 256

\* A symbol with all bytes below 256 ends there.
LEMMA LowBytes ==
  ASSUME NEW x \in Symbol, Bytes(x) \subseteq 0 .. 255
  PROVE  x[2] + x[3] <= 256
<1> DEFINE a == x[2]
           n == x[3]
<1>1. a \in Nat /\ n \in Nat \ {0} BY DEF Symbol
<1>2. a .. a + n - 1 \subseteq 0 .. 255 BY DEF Bytes
<1> HIDE DEF a, n
<1>3. a + n - 1 \in 0 .. 255
  <2>1. a + n - 1 \in a .. a + n - 1 BY <1>1
  <2> QED BY <1>2, <2>1
<1>4. a + n <= 256 BY <1>1, <1>3
<1> QED BY <1>4 DEF a, n

\* Owners of bytes below 256 lie in Zero Page.
LEMMA LowOwners ==
  ASSUME NEW s, NEW B, Owns(s, B), B \subseteq 0 .. 255
  PROVE  InZeroPage(s)
<1>1. ASSUME NEW i \in DOMAIN s PROVE s[i][2] + s[i][3] <= 256
  <2>1. s[i] \in Symbol BY DEF Owns
  <2>2. Bytes(s[i]) \subseteq 0 .. 255 BY BytesOfSymbols DEF Owns
  <2> QED BY <2>1, <2>2, LowBytes
<1> QED BY <1>1 DEF InZeroPage

\* Zero Page placement of joined symbols.
LEMMA LowBoth ==
  ASSUME NEW s \in Seq(Symbol), NEW t \in Seq(Symbol), InZeroPage(s), InZeroPage(t)
  PROVE  InZeroPage(s \o t)
<1> DEFINE u == s \o t
<1>1. Len(s) \in Nat /\ Len(t) \in Nat /\ DOMAIN s = 1 .. Len(s) /\ DOMAIN t = 1 .. Len(t)
      /\ DOMAIN u = 1 .. Len(s) + Len(t)
  OBVIOUS
<1>2. ASSUME NEW i \in DOMAIN u
      PROVE  \/ i \in DOMAIN s /\ u[i] = s[i]
             \/ i - Len(s) \in DOMAIN t /\ u[i] = t[i - Len(s)]
  <2>1. CASE i <= Len(s)
    <3>1. i \in DOMAIN s BY <1>1, <2>1
    <3>2. u[i] = s[i] BY <1>1, <2>1
    <3> QED BY <3>1, <3>2
  <2>2. CASE i > Len(s)
    <3>1. i - Len(s) \in DOMAIN t BY <1>1, <2>2
    <3>2. u[i] = t[i - Len(s)] BY <1>1, <2>2
    <3> QED BY <3>1, <3>2
  <2> HIDE DEF u
  <2> QED BY <1>1, <2>1, <2>2
<1> HIDE DEF u
<1>3. \A i \in DOMAIN u : u[i][1] \in ZeroPageNames => u[i][2] + u[i][3] <= 256
  BY <1>2 DEF InZeroPage
<1> QED BY <1>3 DEF InZeroPage, u

\* The size of an interval.
LEMMA FiniteInterval ==
  ASSUME NEW a \in Int, NEW b \in Int, b + 1 >= a
  PROVE  IsFiniteSet(a .. b) /\ Cardinality(a .. b) = b - a + 1
<1>1. IsFiniteSet(a .. b) /\ Cardinality(a .. b) = IF a > b THEN 0 ELSE b - a + 1
  BY FS_Interval
<1>2. a > b => b - a + 1 = 0 OBVIOUS
<1> QED BY <1>1, <1>2

\* The size of a disjoint union.
LEMMA DisjointSum ==
  ASSUME NEW A, NEW B, IsFiniteSet(A), IsFiniteSet(B), A \cap B = {}
  PROVE  IsFiniteSet(A \cup B) /\ Cardinality(A \cup B) = Cardinality(A) + Cardinality(B)
<1>1. IsFiniteSet(A \cup B) BY FS_Union
<1>2. Cardinality(A \cup B) = Cardinality(A) + Cardinality(B) - Cardinality(A \cap B) BY FS_Union
<1>3. Cardinality(A \cap B) = 0 BY FS_EmptySet
<1>4. Cardinality(A) \in Nat /\ Cardinality(B) \in Nat BY FS_CardinalityType
<1> QED BY <1>1, <1>2, <1>3, <1>4

TemporaryBytes(p) ==
  ZeroPageRuntimeSize .. ZeroPageRuntimeSize + (p.temporaries + p.limits) - 1
OamBytes(p) == IF OamShadow(p) THEN 512 .. 767 ELSE {}
DataBytes(p) == RuntimeStart(p) .. RuntimeStart(p) + RuntimeDataSize(p) - 1
ResultBytes(p) == ResultStart(p) .. ResultStart(p) + p.functions - 1
RuntimeBytes(p) ==
  FixedBytes(p) \cup OamBytes(p) \cup DataBytes(p) \cup TemporaryBytes(p) \cup ResultBytes(p)
UserBytes(p, plan) ==
  (AutomaticStart .. plan.automatic - 1) \cup (UserStart(p) .. plan.next - 1)

\* Where the parts lie.
LEMMA PartsLie ==
  ASSUME NEW p \in LayoutPrograms, RegionDiagnostic(p) = "none", RuntimeFits(p)
  PROVE  /\ FixedBytes(p) \subseteq 0 .. ZeroPageRuntimeSize - 1
         /\ TemporaryBytes(p)
              \subseteq ZeroPageRuntimeSize .. ZeroPageRuntimeSize + TemporaryCapacity - 1
         /\ OamBytes(p) \subseteq 512 .. RuntimeStart(p) - 1
         /\ DataBytes(p) = RuntimeStart(p) .. ResultStart(p) - 1
         /\ ResultBytes(p) = ResultStart(p) .. UserStart(p) - 1
         /\ \A x \in 512 .. RuntimeStart(p) - 1 : x \in OamBytes(p)
<1>1. p.temporaries + p.limits <= TemporaryCapacity /\ p.temporaries + p.limits \in Nat
  BY NoDiagnostic, ProgramTypes
<1>2. TemporaryBytes(p)
        \subseteq ZeroPageRuntimeSize .. ZeroPageRuntimeSize + TemporaryCapacity - 1
  BY <1>1, RegionTypes DEF TemporaryBytes
<1>3. OamBytes(p) = 512 .. RuntimeStart(p) - 1
  <2>1. CASE OamShadow(p)
    <3>1. OamBytes(p) = 512 .. 767 BY <2>1 DEF OamBytes
    <3>2. RuntimeStart(p) = 768 BY <2>1 DEF RuntimeStart, GeneralRamStart
    <3> QED BY <3>1, <3>2
  <2>2. CASE ~OamShadow(p)
    <3>1. OamBytes(p) = {} BY <2>2 DEF OamBytes
    <3>2. RuntimeStart(p) = 512 BY <2>2 DEF RuntimeStart, OamShadowStart
    <3>3. 512 .. 512 - 1 = {} OBVIOUS
    <3> QED BY <3>1, <3>2, <3>3
  <2> QED BY <2>1, <2>2
<1>4. DataBytes(p) = RuntimeStart(p) .. ResultStart(p) - 1 BY RegionTypes DEF DataBytes
<1>5. ResultBytes(p) = ResultStart(p) .. UserStart(p) - 1 BY RegionTypes DEF ResultBytes
<1> QED BY <1>2, <1>3, <1>4, <1>5, FixedFits

\* The symbols of the runtime and the compiler share no byte.
LEMMA RuntimeOwned ==
  ASSUME NEW p \in LayoutPrograms, RegionDiagnostic(p) = "none", RuntimeFits(p)
  PROVE  Owns(RuntimeSymbols(p), RuntimeBytes(p)) /\ InZeroPage(RuntimeSymbols(p))
<1> DEFINE Z == ZeroPageSymbols(p)
           O == OamSymbols(p)
           G == GeneralSymbols(p)
           C == CompilerSymbols(p)
           R == ResultSymbols(p)
<1>1. Owns(Z, FixedBytes(p)) BY FixedOwned
<1>2. Owns(O, OamBytes(p)) BY OamOwned DEF OamBytes
<1>3. Owns(G, DataBytes(p)) BY GeneralFills, FillIsOwn DEF DataBytes
<1>4. Owns(C, TemporaryBytes(p)) BY TemporariesOwned DEF TemporaryBytes
<1>5. Owns(R, ResultBytes(p)) BY ResultsOwned DEF ResultBytes
<1>6. RuntimeSymbols(p) = Z \o O \o G \o C \o R BY DEF RuntimeSymbols
<1>7. /\ ZeroPageRuntimeSize \in Nat /\ TemporaryCapacity \in Nat
      /\ ZeroPageRuntimeSize + TemporaryCapacity <= 256
      /\ RuntimeStart(p) \in Nat /\ ResultStart(p) \in Nat /\ UserStart(p) \in Nat
      /\ RuntimeStart(p) >= 512 /\ RuntimeStart(p) <= ResultStart(p)
      /\ ResultStart(p) <= UserStart(p)
  BY RegionTypes
<1>8. /\ FixedBytes(p) \cap OamBytes(p) = {}
      /\ (FixedBytes(p) \cup OamBytes(p)) \cap DataBytes(p) = {}
  BY <1>7, PartsLie
<1>9. (FixedBytes(p) \cup OamBytes(p) \cup DataBytes(p)) \cap TemporaryBytes(p) = {}
  BY <1>7, PartsLie
<1>10. (FixedBytes(p) \cup OamBytes(p) \cup DataBytes(p) \cup TemporaryBytes(p))
          \cap ResultBytes(p) = {}
  BY <1>7, PartsLie
<1>11. InZeroPage(Z)
  <2>1. FixedBytes(p) \subseteq 0 .. 255
    <3>1. 0 .. ZeroPageRuntimeSize - 1 \subseteq 0 .. 255 BY <1>7
    <3> QED BY <3>1, PartsLie
  <2> QED BY <1>1, <2>1, LowOwners
<1>12. InZeroPage(C)
  <2>1. TemporaryBytes(p) \subseteq 0 .. 255
    <3>1. ZeroPageRuntimeSize .. ZeroPageRuntimeSize + TemporaryCapacity - 1 \subseteq 0 .. 255
      BY <1>7
    <3> QED BY <3>1, PartsLie
  <2> QED BY <1>4, <2>1, LowOwners
<1>13. InZeroPage(O) /\ InZeroPage(G) /\ InZeroPage(R) BY NamesOutsideZeroPage DEF InZeroPage
<1> HIDE DEF Z, O, G, C, R
<1>14. Owns(Z \o O, FixedBytes(p) \cup OamBytes(p)) BY <1>1, <1>2, <1>8, OwnBoth
<1>15. Owns(Z \o O \o G, FixedBytes(p) \cup OamBytes(p) \cup DataBytes(p))
  BY <1>3, <1>8, <1>14, OwnBoth
<1>16. Owns(Z \o O \o G \o C,
            FixedBytes(p) \cup OamBytes(p) \cup DataBytes(p) \cup TemporaryBytes(p))
  BY <1>4, <1>9, <1>15, OwnBoth
<1>17. Owns(Z \o O \o G \o C \o R, RuntimeBytes(p))
  BY <1>5, <1>10, <1>16, OwnBoth DEF RuntimeBytes
<1>18. Z \in Seq(Symbol) /\ O \in Seq(Symbol) /\ G \in Seq(Symbol) /\ C \in Seq(Symbol)
       /\ R \in Seq(Symbol) /\ Z \o O \in Seq(Symbol) /\ Z \o O \o G \in Seq(Symbol)
       /\ Z \o O \o G \o C \in Seq(Symbol)
  BY <1>1, <1>2, <1>3, <1>4, <1>5, <1>14, <1>15, <1>16 DEF Owns
<1>19. InZeroPage(Z \o O) BY <1>11, <1>13, <1>18, LowBoth
<1>20. InZeroPage(Z \o O \o G) BY <1>13, <1>18, <1>19, LowBoth
<1>21. InZeroPage(Z \o O \o G \o C) BY <1>12, <1>18, <1>20, LowBoth
<1>22. InZeroPage(Z \o O \o G \o C \o R) BY <1>13, <1>18, <1>21, LowBoth
<1> QED BY <1>6, <1>17, <1>22

\* Neither do they with the variables.
LEMMA AllOwned ==
  ASSUME NEW p \in LayoutPrograms, NEW plan, RegionDiagnostic(p) = "none", Laid(p, plan),
         RuntimeFits(p)
  PROVE  /\ Owns(RuntimeSymbols(p) \o plan.symbols, RuntimeBytes(p) \cup UserBytes(p, plan))
         /\ InZeroPage(RuntimeSymbols(p) \o plan.symbols)
<1> DEFINE low == AutomaticStart
           first == UserStart(p)
           a == plan.automatic
           next == plan.next
           s == plan.symbols
<1>1. Owns(s, UserBytes(p, plan)) BY DEF Laid, UserBytes
<1>2. /\ ZeroPageRuntimeSize \in Nat /\ TemporaryCapacity \in Nat /\ ExplicitReserveSize \in Nat
      /\ low = ZeroPageRuntimeSize + TemporaryCapacity + ExplicitReserveSize
      /\ low \in Nat /\ AutomaticSize \in Nat /\ low + AutomaticSize <= 256
      /\ RuntimeStart(p) \in Nat /\ ResultStart(p) \in Nat /\ first \in Nat
      /\ RuntimeStart(p) >= 512 /\ RuntimeStart(p) <= ResultStart(p)
      /\ ResultStart(p) <= first
  BY RegionTypes
<1>3. a \in low .. low + AutomaticSize /\ next \in first .. RamSize BY DEF Laid
<1>4. RuntimeBytes(p) \cap UserBytes(p, plan) = {}
  <2>1. UserBytes(p, plan) = (low .. a - 1) \cup (first .. next - 1) BY DEF UserBytes
  <2>2. RuntimeBytes(p) \subseteq (0 .. ZeroPageRuntimeSize + TemporaryCapacity - 1)
                                   \cup (512 .. first - 1)
    BY <1>2, PartsLie DEF RuntimeBytes
  <2> HIDE DEF low, a, first, next
  <2> QED BY <1>2, <1>3, <2>1, <2>2 DEF RamSize
<1>5. Owns(RuntimeSymbols(p) \o s, RuntimeBytes(p) \cup UserBytes(p, plan))
  <2> HIDE DEF s
  <2> QED BY <1>1, <1>4, RuntimeOwned, OwnBoth
<1>6. InZeroPage(s)
  <2>1. ASSUME NEW i \in DOMAIN s, s[i][1] \in ZeroPageNames PROVE s[i][2] + s[i][3] <= 256
    <3>1. s[i][1] # "user" BY <2>1 DEF ZeroPageNames
    <3>2. Bytes(s[i]) \subseteq low .. a - 1 BY <3>1 DEF Laid
    <3>3. s[i] \in Symbol BY <1>1 DEF Owns
    <3> HIDE DEF s, low, a
    <3>4. low .. a - 1 \subseteq 0 .. 255 BY <1>2, <1>3
    <3> QED BY <3>2, <3>3, <3>4, LowBytes
  <2> QED BY <2>1 DEF InZeroPage
<1>7. RuntimeSymbols(p) \in Seq(Symbol) /\ s \in Seq(Symbol) BY <1>1, RuntimeOwned DEF Owns
<1>8. InZeroPage(RuntimeSymbols(p) \o s)
  <2> HIDE DEF s
  <2> QED BY <1>6, <1>7, RuntimeOwned, LowBoth
<1> QED BY <1>5, <1>8

Kept ==
  RegionBytes(ZeroPageRuntime) \cup RegionBytes(ExplicitReserve) \cup RegionBytes(HardwareStack)

\* The bytes without an owner are those reported as available.
LEMMA WhatIsLeft ==
  ASSUME NEW p \in LayoutPrograms, NEW plan, RegionDiagnostic(p) = "none", Laid(p, plan),
         RuntimeFits(p)
  PROVE  /\ RuntimeBytes(p) \cup UserBytes(p, plan) \subseteq 0 .. RamSize - 1
         /\ (RuntimeBytes(p) \cup UserBytes(p, plan))
              \cap (RegionBytes(HardwareStack) \cup RegionBytes(ExplicitReserve)) = {}
         /\ Cardinality((0 .. RamSize - 1) \ (RuntimeBytes(p) \cup UserBytes(p, plan) \cup Kept))
              = AvailableBytes(p, plan)
<1> DEFINE z == ZeroPageRuntimeSize
           c == TemporaryCapacity
           e == ExplicitReserveSize
           A == AutomaticSize
           t == p.temporaries + p.limits
           a == plan.automatic
           r == RuntimeStart(p)
           f == UserStart(p)
           n == plan.next
           fixed == FixedBytes(p)
           low == AutomaticStart
<1>1. /\ z \in Nat /\ c \in Nat /\ e \in Nat /\ A \in Nat /\ low = z + c + e /\ low + A <= 256
      /\ t \in Nat /\ t <= c /\ low \in Nat
  BY RegionTypes, ProgramTypes, NoDiagnostic
<1>2. /\ r \in Nat /\ r >= 512 /\ f \in Nat /\ r <= f
      /\ ResultStart(p) \in Nat /\ r <= ResultStart(p) /\ ResultStart(p) <= f
  BY RegionTypes
<1>3. a \in low .. low + A /\ n \in f .. RamSize /\ a \in Nat /\ n \in Nat
  BY <1>1, <1>2 DEF Laid, RamSize
<1>4. fixed \subseteq 0 .. z - 1 BY FixedFits
<1>5. OamBytes(p) = 512 .. r - 1
  BY PartsLie
<1>6. RuntimeBytes(p) = fixed \cup (z .. z + t - 1) \cup (512 .. f - 1)
  <2>1. DataBytes(p) \cup ResultBytes(p) = r .. f - 1 BY <1>2, PartsLie
  <2>2. OamBytes(p) \cup (r .. f - 1) = 512 .. f - 1 BY <1>2, <1>5
  <2>3. TemporaryBytes(p) = z .. z + t - 1 BY DEF TemporaryBytes
  <2> HIDE DEF z, t, r, f, fixed
  <2> QED BY <2>1, <2>2, <2>3 DEF RuntimeBytes, fixed
<1>7. UserBytes(p, plan) = (low .. a - 1) \cup (f .. n - 1) BY DEF UserBytes
<1>8. RegionBytes(ZeroPageRuntime) = 0 .. z - 1
  BY <1>1 DEF RegionBytes, ZeroPageRuntime
<1>9. RegionBytes(ExplicitReserve) = z + c .. low - 1
  <2>1. RegionBytes(ExplicitReserve) = z + c .. z + c + e - 1 BY DEF RegionBytes, ExplicitReserve
  <2> HIDE DEF z, c, e, low
  <2>2. z + c + e - 1 = low - 1 BY <1>1
  <2> QED BY <2>1, <2>2
<1>10. RegionBytes(HardwareStack) = 256 .. 511 BY DEF RegionBytes, HardwareStack
<1>11. AvailableBytes(p, plan) = (2048 - n) + (A - (a - low)) + (c - t) + (256 - low - A)
  BY DEF AvailableBytes, RamSize, RecoveredTemporaries, UnallocatedZeroPage
<1> DEFINE owned == RuntimeBytes(p) \cup UserBytes(p, plan)
           F1 == z + t .. z + c - 1
           F2 == a .. low + A - 1
           F3 == low + A .. 255
           F4 == n .. 2047
<1>12. owned = fixed \cup (z .. z + t - 1) \cup (512 .. f - 1) \cup (low .. a - 1) \cup (f .. n - 1)
       /\ Kept = (0 .. z - 1) \cup (z + c .. low - 1) \cup (256 .. 511)
  BY <1>6, <1>7, <1>8, <1>9, <1>10 DEF Kept
<1>13. n <= 2048 /\ 0 .. RamSize - 1 = 0 .. 2047 BY <1>3 DEF RamSize
<1> HIDE DEF z, c, e, A, t, a, r, f, n, fixed, low, owned
<1>14. owned \subseteq 0 .. 2047 BY <1>1, <1>2, <1>3, <1>4, <1>12, <1>13
<1>15. owned \cap ((256 .. 511) \cup (z + c .. low - 1)) = {}
  BY <1>1, <1>2, <1>3, <1>4, <1>12, <1>13
<1>16. (0 .. 2047) \ (owned \cup Kept) = F1 \cup F2 \cup F3 \cup F4
  <2>1. ASSUME NEW x \in (0 .. 2047) \ (owned \cup Kept) PROVE x \in F1 \cup F2 \cup F3 \cup F4
    BY <1>1, <1>2, <1>3, <1>12, <1>13
  <2>2. ASSUME NEW x \in F1 PROVE x \in (0 .. 2047) \ (owned \cup Kept)
    BY <1>1, <1>2, <1>3, <1>4, <1>12, <1>13
  <2>3. ASSUME NEW x \in F2 PROVE x \in (0 .. 2047) \ (owned \cup Kept)
    BY <1>1, <1>2, <1>3, <1>4, <1>12, <1>13
  <2>4. ASSUME NEW x \in F3 PROVE x \in (0 .. 2047) \ (owned \cup Kept)
    BY <1>1, <1>2, <1>3, <1>4, <1>12, <1>13
  <2>5. ASSUME NEW x \in F4 PROVE x \in (0 .. 2047) \ (owned \cup Kept)
    BY <1>1, <1>2, <1>3, <1>4, <1>12, <1>13
  <2> DEFINE free == (0 .. 2047) \ (owned \cup Kept)
  <2> HIDE DEF F1, F2, F3, F4, free
  <2>6. free = F1 \cup F2 \cup F3 \cup F4
    <3>1. \A x \in free : x \in F1 \cup F2 \cup F3 \cup F4 BY <2>1 DEF free
    <3>2. \A x \in F1 \cup F2 \cup F3 \cup F4 : x \in free
      BY <2>2, <2>3, <2>4, <2>5 DEF free
    <3> QED BY <3>1, <3>2
  <2> QED BY <2>6 DEF free
<1>17. F1 \cap F2 = {} /\ (F1 \cup F2) \cap F3 = {} /\ (F1 \cup F2 \cup F3) \cap F4 = {}
  BY <1>1, <1>2, <1>3, <1>13
<1>18. /\ IsFiniteSet(F1) /\ Cardinality(F1) = c - t
       /\ IsFiniteSet(F2) /\ Cardinality(F2) = A - (a - low)
       /\ IsFiniteSet(F3) /\ Cardinality(F3) = 256 - low - A
       /\ IsFiniteSet(F4) /\ Cardinality(F4) = 2048 - n
  <2>1. IsFiniteSet(F1) /\ Cardinality(F1) = c - t
    <3>1. z + t \in Int /\ z + c - 1 \in Int /\ z + c - 1 + 1 >= z + t
          /\ (z + c - 1) - (z + t) + 1 = c - t
      BY <1>1
    <3> QED BY <3>1, FiniteInterval
  <2>2. IsFiniteSet(F2) /\ Cardinality(F2) = A - (a - low)
    <3>1. a \in Int /\ low + A - 1 \in Int /\ low + A - 1 + 1 >= a
          /\ (low + A - 1) - a + 1 = A - (a - low)
      BY <1>1, <1>3
    <3> QED BY <3>1, FiniteInterval
  <2>3. IsFiniteSet(F3) /\ Cardinality(F3) = 256 - low - A
    <3>1. low + A \in Int /\ 255 \in Int /\ 255 + 1 >= low + A /\ 255 - (low + A) + 1 = 256 - low - A
      BY <1>1
    <3> QED BY <3>1, FiniteInterval
  <2>4. IsFiniteSet(F4) /\ Cardinality(F4) = 2048 - n
    <3>1. n \in Int /\ 2047 \in Int /\ 2047 + 1 >= n /\ 2047 - n + 1 = 2048 - n BY <1>3, <1>13
    <3> QED BY <3>1, FiniteInterval
  <2> QED BY <2>1, <2>2, <2>3, <2>4
<1> HIDE DEF F1, F2, F3, F4
<1>19. Cardinality(F1 \cup F2 \cup F3 \cup F4)
         = Cardinality(F1) + Cardinality(F2) + Cardinality(F3) + Cardinality(F4)
  <2>1. IsFiniteSet(F1 \cup F2) /\ Cardinality(F1 \cup F2) = Cardinality(F1) + Cardinality(F2)
    BY <1>17, <1>18, DisjointSum
  <2>2. IsFiniteSet(F1 \cup F2 \cup F3)
        /\ Cardinality(F1 \cup F2 \cup F3) = Cardinality(F1 \cup F2) + Cardinality(F3)
    BY <1>17, <1>18, <2>1, DisjointSum
  <2>3. Cardinality(F1 \cup F2 \cup F3 \cup F4) = Cardinality(F1 \cup F2 \cup F3) + Cardinality(F4)
    BY <1>17, <1>18, <2>2, DisjointSum
  <2> QED BY <2>1, <2>2, <2>3
<1>20. Cardinality(F1 \cup F2 \cup F3 \cup F4) = AvailableBytes(p, plan)
  BY <1>1, <1>3, <1>11, <1>18, <1>19
<1>21. owned \cap (RegionBytes(HardwareStack) \cup RegionBytes(ExplicitReserve)) = {}
  BY <1>9, <1>10, <1>15
<1>22. owned \subseteq 0 .. RamSize - 1 BY <1>13, <1>14
<1>23. Cardinality((0 .. RamSize - 1) \ (owned \cup Kept)) = AvailableBytes(p, plan)
  <2> DEFINE ram == 0 .. RamSize - 1
  <2>1. ram = 0 .. 2047 BY <1>13
  <2> HIDE DEF ram
  <2>2. ram \ (owned \cup Kept) = F1 \cup F2 \cup F3 \cup F4 BY <1>16, <2>1
  <2> QED BY <1>20, <2>2 DEF ram
<1> QED BY <1>21, <1>22, <1>23 DEF owned

\* A refusal is right if something does not suffice.
LEMMA RefuseLayoutStep ==
  ASSUME LayoutInv, NEW d, RefuseLayout(d), d \notin {"none", "segment"}, ~Suffices(query)
  PROVE  LayoutInv'
<1>1. answer' = <<[diagnostic |-> d, symbols |-> <<>>, available |-> 0]>>
      /\ UNCHANGED <<kind, query, progress>>
  BY DEF RefuseLayout, Ends, Answers
<1>2. Result'.diagnostic = d BY <1>1 DEF Result
<1>3. EveryByteHasOneOwner'
  <2>1. Suffices(query)' = Suffices(query) BY <1>1
  <2> QED BY <1>2, <2>1 DEF EveryByteHasOneOwner
<1> QED BY <1>1, <1>3 DEF LayoutInv, Plan

\* The checks before the loop.
LEMMA RefuseRegionsStep ==
  ASSUME LayoutInv, RefuseRegions
  PROVE  LayoutInv'
<1>1. query \in LayoutPrograms BY DEF LayoutInv
<1>2. RegionDiagnostic(query) # "none" /\ RefuseLayout(RegionDiagnostic(query))
  BY DEF RefuseRegions
<1>3. RegionDiagnostic(query) \notin {"none", "segment"} BY <1>2 DEF RegionDiagnostic
<1>4. ~Suffices(query) BY <1>1, <1>2, SufficesIf
<1> QED BY <1>2, <1>3, <1>4, RefuseLayoutStep

\* Nothing placed is laid out.
LEMMA PlaceRegionsStep ==
  ASSUME LayoutInv, PlaceRegions
  PROVE  LayoutInv'
<1> DEFINE plan == [symbols |-> <<>>, automatic |-> AutomaticStart, next |-> UserStart(query)]
<1>1. query \in LayoutPrograms BY DEF LayoutInv
<1>2. RegionDiagnostic(query) = "none" /\ answer = Unanswered /\ progress' = <<plan>>
      /\ UNCHANGED vars
  BY DEF PlaceRegions, Starts
<1>3. UNCHANGED <<kind, query, answer>> BY <1>2 DEF vars
<1>4. AutomaticStart \in Nat /\ AutomaticSize \in Nat /\ UserStart(query) \in Nat
      /\ UserStart(query) <= RamSize /\ RamSize \in Nat
  BY <1>1, <1>2, RegionTypes, NoDiagnostic DEF RamSize
<1>5. Laid(query, plan)
  <2>1. plan.symbols = <<>> /\ plan.automatic = AutomaticStart /\ plan.next = UserStart(query)
    OBVIOUS
  <2> HIDE DEF plan
  <2>2. Len(plan.symbols) = 0 /\ DOMAIN plan.symbols = {} BY <2>1
  <2>3. 0 \in 0 .. Len(query.variables) /\ 0 <= Len(query.variables) BY <1>1, VariableTypes
  <2>4. Owns(plan.symbols,
             (AutomaticStart .. plan.automatic - 1) \cup (UserStart(query) .. plan.next - 1))
    <3>1. (AutomaticStart .. plan.automatic - 1) \cup (UserStart(query) .. plan.next - 1) = {}
      BY <1>4, <2>1
    <3>2. Owns(<<>>, {}) BY DEF Owns, SymbolBytes
    <3> QED BY <2>1, <3>1, <3>2
  <2>5. plan.automatic - AutomaticStart = 0 /\ plan.next - UserStart(query) = 0 BY <1>4, <2>1
  <2>6. Least(PromotableUpTo(query, 0), AutomaticSize) = 0
    BY <1>1, <1>4, PromotableCounts DEF Least
  <2>7. RegularUpTo(query, 0) = 0
    <3>1. PartialSums(VariableSizes(query))[0] = 0 BY <1>1, VariableTypes
    <3> QED BY <2>6, <3>1 DEF RegularUpTo
  <2>8. plan.automatic \in AutomaticStart .. AutomaticStart + AutomaticSize
        /\ plan.next \in UserStart(query) .. RamSize
    BY <1>4, <2>1
  <2> QED BY <2>2, <2>3, <2>4, <2>5, <2>6, <2>7, <2>8 DEF Laid
<1>6. Plan' = plan BY <1>2 DEF Plan
<1> HIDE DEF plan
<1>7. Laid(query, Plan)' BY <1>3, <1>5, <1>6 DEF Laid
<1>8. EveryByteHasOneOwner' BY <1>2, <1>3 DEF EveryByteHasOneOwner, Answered
<1>9. (RegionDiagnostic(query) = "none")' BY <1>2, <1>3
<1> QED BY <1>3, <1>7, <1>8, <1>9 DEF LayoutInv

\* A turn of the loop keeps the invariant if it keeps the tiling.
LEMMA ContinuesStep ==
  ASSUME LayoutInv, NEW plan, Continues(plan), InLoop("layout"), Laid(query, plan)
  PROVE  LayoutInv'
<1>1. answer = Unanswered /\ progress # NotStarted BY DEF InLoop
<1>2. progress' = <<plan>> /\ UNCHANGED <<kind, query, answer>> BY DEF Continues, vars
<1>3. Plan' = plan BY <1>2 DEF Plan
<1>4. Laid(query, Plan)' BY <1>2, <1>3 DEF Laid
<1>5. (RegionDiagnostic(query) = "none")' BY <1>1, <1>2 DEF LayoutInv
<1>6. EveryByteHasOneOwner' BY <1>1, <1>2 DEF EveryByteHasOneOwner, Answered
<1> QED BY <1>2, <1>4, <1>5, <1>6 DEF LayoutInv

\* A turn of the loop that promotes.
LEMMA PromoteVariableStep ==
  ASSUME LayoutInv, PromoteVariable
  PROVE  LayoutInv'
<1>1. query \in LayoutPrograms /\ Laid(query, Plan) /\ InLoop("layout")
      /\ Len(Plan.symbols) < Len(query.variables)
  BY DEF LayoutInv, PromoteVariable, Unplaced, InLoop
<1> DEFINE new == [symbols |-> Append(Plan.symbols, <<"promoted", Plan.automatic, Current.size>>),
                   automatic |-> Plan.automatic + Current.size, next |-> Plan.next]
<1>2. Continues(new) /\ Promotable(Current) /\ Plan.automatic < AutomaticStart + AutomaticSize
  BY DEF PromoteVariable, Promotes
<1>3. /\ new.symbols = Append(Plan.symbols, <<"promoted", Plan.automatic, Current.size>>)
      /\ new.automatic = Plan.automatic + Current.size /\ new.next = Plan.next
  OBVIOUS
<1> HIDE DEF new
<1>4. Laid(query, new) BY <1>1, <1>2, <1>3, PromotedStays DEF Current
<1> QED BY <1>1, <1>2, <1>4, ContinuesStep

\* A turn of the loop that places in user RAM.
LEMMA PlaceVariableStep ==
  ASSUME LayoutInv, PlaceVariable
  PROVE  LayoutInv'
<1>1. query \in LayoutPrograms /\ Laid(query, Plan) /\ InLoop("layout")
      /\ Len(Plan.symbols) < Len(query.variables)
  BY DEF LayoutInv, PlaceVariable, Unplaced, InLoop
<1> DEFINE new == [symbols |-> Append(Plan.symbols, <<"user", Plan.next, Current.size>>),
                   automatic |-> Plan.automatic, next |-> Plan.next + Current.size]
<1>2. /\ Continues(new) /\ Current.size <= RamSize - Plan.next
      /\ ~Promotable(Current) \/ ~(Plan.automatic < AutomaticStart + AutomaticSize)
  BY DEF PlaceVariable, Promotes
<1>3. /\ new.symbols = Append(Plan.symbols, <<"user", Plan.next, Current.size>>)
      /\ new.automatic = Plan.automatic /\ new.next = Plan.next + Current.size
  OBVIOUS
<1> HIDE DEF new
<1>4. Laid(query, new) BY <1>1, <1>2, <1>3, PlacedStays DEF Current
<1> QED BY <1>1, <1>2, <1>4, ContinuesStep

\* The variable that finds no room is one that general RAM has to hold, and
\* those after it never take less.
LEMMA ExhaustUserRamStep ==
  ASSUME LayoutInv, ExhaustUserRam
  PROVE  LayoutInv'
<1> DEFINE k == Len(Plan.symbols)
           size == query.variables[k + 1].size
           first == UserStart(query)
           next == Plan.next
<1>1. query \in LayoutPrograms /\ Laid(query, Plan) /\ Len(Plan.symbols) < Len(query.variables)
  BY DEF LayoutInv, ExhaustUserRam, Unplaced, InLoop
<1>2. /\ RefuseLayout("user") /\ size > RamSize - next
      /\ \/ ~Promotable(query.variables[k + 1])
         \/ ~(Plan.automatic < AutomaticStart + AutomaticSize)
  BY DEF ExhaustUserRam, Promotes, Current
<1>3. k \in 0 .. Len(query.variables) - 1 /\ k \in Nat
  <2>1. Plan.symbols \in Seq(Symbol) BY <1>1 DEF Laid, Owns
  <2>2. k \in Nat BY <2>1
  <2> QED BY <1>1, <2>2, VariableTypes
<1>4. ~Promotable(query.variables[k + 1]) \/ PromotableUpTo(query, k) >= AutomaticSize
  <2> DEFINE a == Plan.automatic
             low == AutomaticStart
             m == PromotableUpTo(query, k)
  <2>1. m \in Nat
    <3>1. k \in 0 .. Len(query.variables) BY <1>1, <1>3, VariableTypes
    <3> QED BY <1>1, <3>1, PromotableCounts
  <2>2. a \in low .. low + AutomaticSize /\ a - low = Least(m, AutomaticSize)
        /\ low \in Nat /\ AutomaticSize \in Nat
    BY <1>1, RegionTypes DEF Laid
  <2>3. ~Promotable(query.variables[k + 1]) \/ ~(a < low + AutomaticSize) BY <1>2
  <2> HIDE DEF a, low, m
  <2>4. ~(a < low + AutomaticSize) => m >= AutomaticSize BY <2>1, <2>2 DEF Least
  <2> QED BY <2>3, <2>4 DEF m
<1>5. RegularUpTo(query, k + 1) = RegularUpTo(query, k) + size BY <1>1, <1>3, <1>4, RegularStep
<1>6. RegularUpTo(query, k) \in Nat /\ RegularUpTo(query, k + 1) \in Nat
      /\ RegularUpTo(query, k + 1) <= RegularBytes(query) /\ RegularBytes(query) \in Nat
  <2>1. k \in 0 .. Len(query.variables) /\ k + 1 \in 0 .. Len(query.variables)
    BY <1>1, <1>3, VariableTypes
  <2> QED BY <1>1, <2>1, RegularGrows
<1>7. next - first = RegularUpTo(query, k) /\ first \in Nat /\ next \in Nat /\ size \in Nat
  <2>1. next - first = RegularUpTo(query, k) /\ next \in first .. RamSize BY <1>1 DEF Laid
  <2>2. first \in Nat BY <1>1, RegionTypes
  <2>3. size \in Nat BY <1>1, <1>3, VariableTypes
  <2> HIDE DEF k, size, first, next
  <2>4. next \in Nat BY <2>1, <2>2 DEF RamSize
  <2> QED BY <2>1, <2>2, <2>3, <2>4
<1> HIDE DEF k, size, first, next
<1>8. first + RegularBytes(query) > RamSize BY <1>2, <1>5, <1>6, <1>7 DEF RamSize
<1>9. ~(first + RegularBytes(query) <= RamSize) BY <1>6, <1>7, <1>8 DEF RamSize
<1>10. ~Suffices(query) BY <1>1, <1>9, SufficesIf DEF first
<1> QED BY <1>2, <1>10, RefuseLayoutStep

\* At the end everything is placed, if the fixed symbols fit.
LEMMA AcceptFittingStep ==
  ASSUME LayoutInv, AcceptLayout, Suffices(query), RuntimeFits(query)
  PROVE  LayoutInv'
<1>1. query \in LayoutPrograms /\ Laid(query, Plan) /\ RegionDiagnostic(query) = "none"
      /\ Len(Plan.symbols) = Len(query.variables)
  BY DEF LayoutInv, AcceptLayout, InLoop
<1> DEFINE symbols == RuntimeSymbols(query) \o Plan.symbols
           owned == RuntimeBytes(query) \cup UserBytes(query, Plan)
<1>2. Ends("layout", [diagnostic |-> "none", symbols |-> symbols,
                      available |-> AvailableBytes(query, Plan)])
  BY <1>1, SegmentsHoldIf DEF AcceptLayout
<1>3. answer' = <<[diagnostic |-> "none", symbols |-> symbols,
                   available |-> AvailableBytes(query, Plan)]>>
      /\ UNCHANGED <<kind, query, progress>>
  BY <1>2 DEF Ends, Answers
<1>4. Owns(symbols, owned) /\ InZeroPage(symbols) BY <1>1, AllOwned
<1>5. /\ owned \subseteq 0 .. RamSize - 1
      /\ owned \cap (RegionBytes(HardwareStack) \cup RegionBytes(ExplicitReserve)) = {}
      /\ Cardinality((0 .. RamSize - 1) \ (owned \cup Kept)) = AvailableBytes(query, Plan)
  BY <1>1, WhatIsLeft
<1>6. /\ \A i, j \in DOMAIN symbols : i < j => Apart(symbols[i], symbols[j])
      /\ \A i \in DOMAIN symbols :
           symbols[i][1] \in ZeroPageNames => symbols[i][2] + symbols[i][3] <= 256
      /\ SymbolBytes(symbols) = owned
  <2> HIDE DEF symbols, owned
  <2>1. DOMAIN symbols \subseteq Int
    <3>1. symbols \in Seq(Symbol) BY <1>4 DEF Owns
    <3> QED BY <3>1
  <2>2. \A i, j \in DOMAIN symbols : i < j => i # j BY <2>1
  <2> QED BY <1>4, <2>2 DEF Owns, InZeroPage
<1>7. Result'.diagnostic = "none" /\ Result'.symbols = symbols
      /\ Result'.available = AvailableBytes(query, Plan)
  BY <1>3 DEF Result
<1> DEFINE available == AvailableBytes(query, Plan)
<1> HIDE DEF symbols, owned, available
<1>8. EveryByteHasOneOwner'
  <2>1. Suffices(query)' /\ RuntimeFits(query)' BY <1>3
  <2>2. Result'.diagnostic = "none" /\ Result'.symbols = symbols /\ Result'.available = available
    BY <1>7 DEF available
  <2>3. Cardinality((0 .. RamSize - 1) \ (SymbolBytes(symbols) \cup Kept)) = available
    BY <1>5, <1>6 DEF available
  <2>4. /\ SymbolBytes(symbols) \subseteq 0 .. RamSize - 1
        /\ SymbolBytes(symbols) \cap (RegionBytes(HardwareStack) \cup RegionBytes(ExplicitReserve)) = {}
    BY <1>5, <1>6
  <2> QED BY <1>6, <2>1, <2>2, <2>3, <2>4 DEF EveryByteHasOneOwner, Kept
<1>9. (progress # NotStarted => RegionDiagnostic(query) = "none" /\ Laid(query, Plan))'
  BY <1>1, <1>3 DEF Plan
<1> QED BY <1>3, <1>8, <1>9 DEF LayoutInv

\* At the end everything is placed, or the check of the segments refuses it.
LEMMA AcceptLayoutStep ==
  ASSUME LayoutInv, AcceptLayout
  PROVE  LayoutInv'
<1>1. query \in LayoutPrograms /\ Laid(query, Plan) /\ RegionDiagnostic(query) = "none"
      /\ Len(Plan.symbols) = Len(query.variables)
  BY DEF LayoutInv, AcceptLayout, InLoop
<1>2. Suffices(query)
  <2>1. Plan.next - UserStart(query) = RegularBytes(query) /\ Plan.next \in UserStart(query) .. RamSize
    BY <1>1, RegularGrows DEF Laid
  <2>2. UserStart(query) \in Nat /\ RegularBytes(query) \in Nat
    BY <1>1, RegionTypes, RegularGrows
  <2>3. UserStart(query) + RegularBytes(query) <= RamSize BY <2>1, <2>2 DEF RamSize
  <2> QED BY <1>1, <2>3, SufficesIf
<1>3. CASE RuntimeFits(query) BY <1>1, <1>2, <1>3, AcceptFittingStep
<1>4. CASE ~RuntimeFits(query)
  <2>1. RefuseLayout("segment") BY <1>1, <1>4, SegmentsHoldFixed DEF AcceptLayout
  <2>2. answer' = <<[diagnostic |-> "segment", symbols |-> <<>>, available |-> 0]>>
        /\ UNCHANGED <<kind, query, progress>>
    BY <2>1 DEF RefuseLayout, Ends, Answers
  <2>3. Result'.diagnostic = "segment" BY <2>2 DEF Result
  <2>4. EveryByteHasOneOwner'
    <3>1. Suffices(query)' /\ ~RuntimeFits(query)' BY <1>2, <1>4, <2>2
    <3> QED BY <2>3, <3>1 DEF EveryByteHasOneOwner
  <2> QED BY <2>2, <2>4 DEF LayoutInv, Plan
<1> QED BY <1>3, <1>4

(***************************************************************************)
(* build_memory_layout: in every accepted layout each byte has one owner   *)
(* and the reported number of free bytes is right; a program is refused    *)
(* exactly if it needs more than there is, and by the check of the         *)
(* segments exactly if only its fixed symbols of Zero Page do not fit.     *)
(***************************************************************************)
THEOREM BytesAreShared == LayoutSpec => []EveryByteHasOneOwner
<1>1. LayoutInit => LayoutInv
  BY DEF LayoutInit, LayoutInv, EveryByteHasOneOwner, Answered
<1>2. LayoutInv /\ [LayoutNext]_planVars => LayoutInv'
  <2> SUFFICES ASSUME LayoutInv, [LayoutNext]_planVars PROVE LayoutInv' OBVIOUS
  <2>1. CASE RefuseRegions BY <2>1, RefuseRegionsStep
  <2>2. CASE PlaceRegions BY <2>2, PlaceRegionsStep
  <2>3. CASE PromoteVariable BY <2>3, PromoteVariableStep
  <2>4. CASE PlaceVariable BY <2>4, PlaceVariableStep
  <2>5. CASE ExhaustUserRam BY <2>5, ExhaustUserRamStep
  <2>6. CASE AcceptLayout BY <2>6, AcceptLayoutStep
  <2>7. CASE UNCHANGED planVars
    BY <2>7 DEF planVars, LayoutInv, EveryByteHasOneOwner, Answered, Result, Plan
  <2> QED BY <2>1, <2>2, <2>3, <2>4, <2>5, <2>6, <2>7 DEF LayoutNext
<1>3. LayoutInv => EveryByteHasOneOwner BY DEF LayoutInv
<1> QED BY <1>1, <1>2, <1>3, PTL DEF LayoutSpec
=============================================================================
