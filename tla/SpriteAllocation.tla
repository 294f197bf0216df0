-------------------------- MODULE SpriteAllocation --------------------------
(***************************************************************************)
(* _plan_sprite_ownership: the hardware sprites are shared out at compile  *)
(* time.  A program is the sequence, in source order, of its places that   *)
(* name or create a sprite.  What names or creates claims sprites: a claim *)
(* is <<"explicit", slot, 0>>, <<"created", site, 0>> or <<"component",    *)
(* site, k>>, and a reservation gives a slot to a claim.                   *)
(***************************************************************************)
EXTENDS Plans, Integers, FiniteSets, Sequences

CONSTANTS
  HardwareSprites,   \* entries of OAM, 64
  MaxInstances,      \* metasprite creation sites, 256
  SpritePrograms     \* the programs that are planned

ASSUME SpriteLimits == HardwareSprites \in Nat \ {0} /\ MaxInstances \in Nat

OamSlots == 0 .. HardwareSprites - 1

NamingKinds == {"const", "operate", "assign"}

\* "const": a sprite constant; "operate", "assign": a literal or constant as
\* the first argument of an operation or assigned to a sprite variable;
\* "zero": set_sprite_zero; "create": nes.sprite_create; "instance":
\* nes.metasprite_create of an asset whose largest frame has value components.
Site ==
  [kind : NamingKinds, value : OamSlots] \cup [kind : {"zero", "create"}]
    \cup [kind : {"instance"}, value : Nat]

ASSUME SpriteProgramsAssumption == SpritePrograms \subseteq Seq(Site)

Sites(program, kinds) == {i \in DOMAIN program : program[i].kind \in kinds}

\* Fault: only sprites that the new calls name are explicit.
NamedByCalls(program) == {program[i].value : i \in Sites(program, NamingKinds)}

\* Every index the program names, wherever it names it.
ExplicitSlots(program) ==
  {program[i].value : i \in Sites(program, NamingKinds)}
    \cup {0 : i \in Sites(program, {"zero"})}

CreatedClaims(program) == {<<"created", i, 0>> : i \in Sites(program, {"create"})}

ComponentClaims(program) ==
  UNION {{<<"component", i, k>> : k \in 1 .. program[i].value} :
           i \in Sites(program, {"instance"})}

\* Created sprites come first, each kind in source order.
Before(c, d) ==
  \/ c[1] = "created" /\ d[1] = "component"
  \/ c[1] = d[1] /\ c[2] < d[2]
  \/ c[1] = d[1] /\ c[2] = d[2] /\ c[3] < d[3]

Unserved ==
  (CreatedClaims(query) \cup ComponentClaims(query)) \ {r.claim : r \in Plan.reserved}

IsNext(claim) == claim \in Unserved /\ \A c \in Unserved \ {claim} : Before(claim, c)

Lowest(slots) == CHOOSE s \in slots : \A t \in slots : s <= t

SpriteInit ==
  /\ kind = "sprites" /\ query \in SpritePrograms
  /\ answer = Unanswered /\ progress = NotStarted

ReserveExplicit ==
  Starts("sprites",
         [free |-> OamSlots \ ExplicitSlots(query),
          reserved |-> {[slot |-> s, claim |-> <<"explicit", s, 0>>] : s \in ExplicitSlots(query)}])

\* Every other claim takes the lowest slot that is left.
Reserve(claim) ==
  LET slot == Lowest(Plan.free)
  IN Continues([free |-> Plan.free \ {slot},
                reserved |-> Plan.reserved \cup {[slot |-> slot, claim |-> claim]}])

\* The program is refused with a diagnostic.
Refuse == Ends("sprites", [accepted |-> FALSE, reserved |-> {}])

CreateSprite ==
  /\ InLoop("sprites")
  /\ \E claim \in CreatedClaims(query) :
       /\ IsNext(claim)
       /\ IF Plan.free = {} THEN Refuse ELSE Reserve(claim)

TooManyInstances == Cardinality(Sites(query, {"instance"})) > MaxInstances

RefuseInstances ==
  /\ InLoop("sprites") /\ Unserved \cap CreatedClaims(query) = {}
  /\ TooManyInstances
  /\ Refuse

\* The first component of an instance waits for room for all of them.
CreateComponent ==
  /\ InLoop("sprites") /\ ~TooManyInstances
  /\ \E claim \in ComponentClaims(query) :
       /\ IsNext(claim)
       /\ IF claim[3] = 1 /\ Cardinality(Plan.free) < query[claim[2]].value
          THEN Refuse ELSE Reserve(claim)

AcceptSprites ==
  /\ InLoop("sprites") /\ Unserved = {} /\ ~TooManyInstances
  /\ Ends("sprites", [accepted |-> TRUE, reserved |-> Plan.reserved])

SpriteNext ==
  ReserveExplicit \/ CreateSprite \/ RefuseInstances \/ CreateComponent \/ AcceptSprites

SpriteSpec == SpriteInit /\ [][SpriteNext]_planVars

-----------------------------------------------------------------------------
NamedSprites(program) ==
  {s \in OamSlots :
     \E i \in DOMAIN program :
       \/ program[i].kind = "zero" /\ s = 0
       \/ program[i].kind \in {"const", "operate", "assign"} /\ s = program[i].value}

\* Everything the program asks for.
Claims(program) ==
  {<<"explicit", s, 0>> : s \in NamedSprites(program)}
    \cup CreatedClaims(program) \cup ComponentClaims(program)

(***************************************************************************)
(* Whatever mixture of constants, assignments, calls and creation sites a  *)
(* program has, and in whatever order: every sprite it names, every call   *)
(* of sprite_create and every component of every metasprite gets a slot of *)
(* its own, a named sprite the slot it names, and a program is refused     *)
(* exactly if the hardware sprites, or the metasprite instances, do not    *)
(* suffice for everything it asks for.                                     *)
(***************************************************************************)
EverySpriteHasOneOwner ==
  Answered("sprites") =>
    /\ Result.accepted <=>
         /\ Cardinality(Claims(query)) <= HardwareSprites
         /\ Cardinality(Sites(query, {"instance"})) <= MaxInstances
    /\ Result.accepted =>
         /\ {r.claim : r \in Result.reserved} = Claims(query)
         /\ \A r \in Result.reserved :
              r.slot \in OamSlots /\ (r.claim[1] = "explicit" => r.slot = r.claim[2])
         /\ \A r, s \in Result.reserved : r.slot = s.slot <=> r.claim = s.claim
=============================================================================
