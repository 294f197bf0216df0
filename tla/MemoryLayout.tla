---------------------------- MODULE MemoryLayout ----------------------------
(***************************************************************************)
(* memory_layout: where every byte of a program lives in the 2048 bytes of *)
(* RAM.  A program is described by what the layout reads of it:            *)
(*   features     the runtime features its builtins declare                *)
(*   instances    how many metasprites it creates                          *)
(*   created      whether it creates an individual sprite                  *)
(*   temporaries, limits, depth    its temporary requirements              *)
(*   functions    how many functions it declares                           *)
(*   variables    globals, then parameters, each with its size, its number *)
(*                of references and whether it is a global scalar          *)
(* A symbol is <<name, address, size>>, a region <<first byte, size>>.     *)
(***************************************************************************)
EXTENDS Plans, Integers, FiniteSets, Sequences

CONSTANTS
  ZeroPageRuntimeSize,   \* settings of the layout: sizes in Zero Page
  TemporaryCapacity,
  ExplicitReserveSize,
  AutomaticSize,
  PromotionThreshold,    \* references that make a scalar worth promoting
  LayoutPrograms         \* the programs that are laid out

\* What _validated_regions demands of the settings.
ASSUME LayoutSettings ==
  /\ ZeroPageRuntimeSize \in Nat /\ TemporaryCapacity \in Nat
  /\ ExplicitReserveSize \in Nat /\ AutomaticSize \in Nat
  /\ ZeroPageRuntimeSize + TemporaryCapacity + ExplicitReserveSize + AutomaticSize <= 256
  /\ PromotionThreshold \in Nat \ {0}

Features ==
  {"zero", "sprite", "position", "animation", "palette", "scroll", "set_tile", "get_tile",
   "set_attribute", "clear_updates", "inspect_overflow", "clear_overflow", "point_in_rect",
   "collides", "sprite_bounds", "metasprite_bounds", "background_collision", "random",
   "random_range"}

\* Every type takes a byte at least, and a scalar takes one.
UserVariable ==
  {v \in [size : Nat \ {0}, references : Nat, scalar : BOOLEAN] : v.scalar => v.size = 1}

\* A builtin that declares "position" or "random_range" also declares the
\* feature that it extends.
ASSUME LayoutProgramsAssumption ==
  \A p \in LayoutPrograms :
    /\ p \in [features : SUBSET Features, instances : Nat, created : BOOLEAN,
              temporaries : Nat, limits : Nat, depth : Nat, functions : Nat,
              variables : Seq(UserVariable)]
    /\ "position" \in p.features => "sprite" \in p.features
    /\ "random_range" \in p.features => "random" \in p.features

RamSize == 2048
OamShadowStart == 512
GeneralRamStart == 768
MaxCallableDepth == 123

Uses(p, feature) == feature \in p.features
UsesAny(p, features) == p.features \cap features # {}
Needed(size, needed) == IF needed THEN size ELSE 0

(***************************************************************************)
(* Runtime features and the bytes that they need.                          *)
(***************************************************************************)

\* SpriteRuntimeFeatures; detect_sprite_runtime_features
SpriteApi(p) == Uses(p, "sprite") \/ p.created
OamShadow(p) == Uses(p, "zero") \/ SpriteApi(p) \/ p.instances > 0
ZeroSize(p) == Needed(5, Uses(p, "zero"))
IndividualSize(p) == ZeroSize(p) + Needed(65, SpriteApi(p)) + Needed(1, Uses(p, "position"))
InstanceSize(p) == p.instances * (IF Uses(p, "animation") THEN 8 ELSE 4)
SpriteSize(p) == IndividualSize(p) + Needed(InstanceSize(p) + 8, p.instances > 0)

PaletteSize(p) == Needed(41, Uses(p, "palette"))
PpuStateSize == 4
ScrollSize(p) == Needed(3, Uses(p, "scroll"))
ShadowSize(p) == Needed(960, Uses(p, "get_tile"))

\* BackgroundRuntimeFeatures
QueueWriter(p) == UsesAny(p, {"set_tile", "set_attribute"})
Queue(p) == QueueWriter(p) \/ Uses(p, "clear_updates")
OverflowFlag(p) == QueueWriter(p) \/ UsesAny(p, {"inspect_overflow", "clear_overflow"})
CoordinateInputs(p) == UsesAny(p, {"set_tile", "get_tile", "set_attribute"})
TileIndex(p) == UsesAny(p, {"set_tile", "get_tile"})

BackgroundSize(p) ==
  Needed(16, Queue(p)) + Needed(1, OverflowFlag(p)) + Needed(1, Uses(p, "clear_updates"))
    + Needed(2, CoordinateInputs(p)) + Needed(1, QueueWriter(p)) + Needed(2, TileIndex(p))

\* CollisionRuntimeFeatures
Geometry(p) == UsesAny(p, {"point_in_rect", "collides", "sprite_bounds", "metasprite_bounds"})
Collision(p) == Geometry(p) \/ Uses(p, "background_collision")
CollisionSize(p) == IF Geometry(p) THEN 10 ELSE Needed(2, Uses(p, "background_collision"))

\* RandomRuntimeFeatures
RandomSize(p) == Needed(2 + Needed(2, Uses(p, "random_range")), Uses(p, "random"))

BeforeBackground(p) ==
  SpriteSize(p) + PaletteSize(p) + PpuStateSize + ScrollSize(p) + ShadowSize(p)

RuntimeDataSize(p) == BeforeBackground(p) + BackgroundSize(p) + CollisionSize(p) + RandomSize(p)

(***************************************************************************)
(* Regions: _validated_regions.                                            *)
(***************************************************************************)
ZeroPageRuntime == <<0, ZeroPageRuntimeSize>>
TemporaryStorage(p) == <<ZeroPageRuntimeSize, p.temporaries + p.limits>>
RecoveredTemporaries(p) ==
  <<ZeroPageRuntimeSize + p.temporaries + p.limits,
    TemporaryCapacity - (p.temporaries + p.limits)>>
ExplicitReserve == <<ZeroPageRuntimeSize + TemporaryCapacity, ExplicitReserveSize>>
AutomaticStart == ZeroPageRuntimeSize + TemporaryCapacity + ExplicitReserveSize
AutomaticRegion == <<AutomaticStart, AutomaticSize>>
UnallocatedZeroPage == <<AutomaticStart + AutomaticSize, 256 - AutomaticStart - AutomaticSize>>
HardwareStack == <<256, 256>>
OamRegion(p) == <<OamShadowStart, Needed(256, OamShadow(p))>>
RuntimeStart(p) == IF OamShadow(p) THEN GeneralRamStart ELSE OamShadowStart
RuntimeData(p) == <<RuntimeStart(p), RuntimeDataSize(p)>>
ResultStart(p) == RuntimeStart(p) + RuntimeDataSize(p)
FunctionResults(p) == <<ResultStart(p), p.functions>>
UserStart(p) == ResultStart(p) + p.functions
UserRam(p) == <<UserStart(p), RamSize - UserStart(p)>>

(***************************************************************************)
(* Symbols.                                                                *)
(***************************************************************************)

\* The sums of the first 0, 1, ... sizes.
PartialSums(sizes) ==
  LET sum[k \in 0 .. Len(sizes)] == IF k = 0 THEN 0 ELSE sum[k - 1] + sizes[k]
  IN sum

\* Symbols of the given names and sizes, one after the other.
Consecutive(fields, start) ==
  LET offset == PartialSums([i \in DOMAIN fields |-> fields[i][2]])
  IN [i \in DOMAIN fields |-> <<fields[i][1], start + offset[i - 1], fields[i][2]>>]

Cells(names) == [i \in DOMAIN names |-> <<names[i], 1>>]
If(needed, symbols) == IF needed THEN symbols ELSE <<>>

ZeroPageSymbols(p) ==
  Consecutive(Cells(<<"frame_counter", "frame_ready", "last_processed_frame",
                      "controller_1_current", "controller_1_previous",
                      "controller_2_current", "controller_2_previous",
                      "controller_polled_frame", "controller_poll_valid">>), 0)
    \o If(p.instances > 0, <<<<"frame_pointer", 9, 2>>, <<"slot_pointer", 11, 2>>>>)
    \o If(Collision(p), <<<<"collision_pointer", 13, 2>>>>)

\* The individual sprites start the runtime data.
SpriteSymbols(p) ==
  LET start == RuntimeStart(p) IN
  If(Uses(p, "zero"),
     Consecutive(Cells(<<"zero_x", "zero_y", "zero_tile", "zero_attributes", "zero_ready">>), start))
    \o If(SpriteApi(p),
          <<<<"logical_y", start + ZeroSize(p), 64>>, <<"value", start + ZeroSize(p) + 64, 1>>>>
            \o If(Uses(p, "position"), <<<<"secondary_value", start + ZeroSize(p) + 65, 1>>>>))

\* Fault: the scratch bytes follow the animation arrays only in the sizes.
ScratchAfterInstances(p) == RuntimeStart(p) + IndividualSize(p) + 4 * p.instances

MetaspriteScratch(p) == RuntimeStart(p) + IndividualSize(p) + InstanceSize(p)

MetaspriteSymbols(p) ==
  LET base == RuntimeStart(p) + IndividualSize(p)
      arrays(names) == [i \in DOMAIN names |-> <<names[i], p.instances>>]
  IN If(p.instances > 0,
        Consecutive(arrays(<<"x", "y", "frame", "flags">>), base)
          \o If(Uses(p, "animation"),
                Consecutive(arrays(<<"animation", "animation_frame", "animation_timer",
                                     "animation_flags">>), base + 4 * p.instances))
          \o Consecutive(Cells(<<"current_instance", "frame_remaining", "slots_remaining",
                                 "oam_offset", "offset_x", "offset_y", "tile", "attributes">>),
                         MetaspriteScratch(p)))

PpuSymbols(p) ==
  LET palette == RuntimeStart(p) + SpriteSize(p)
      ppu == palette + PaletteSize(p)
      scroll == ppu + PpuStateSize
  IN If(Uses(p, "palette"),
        <<<<"palette_shadow", palette, 32>>, <<"background_dirty", palette + 32, 4>>,
          <<"sprite_dirty", palette + 36, 4>>, <<"universal_dirty", palette + 40, 1>>>>)
       \o Consecutive(Cells(<<"ppuctrl", "ppumask", "scroll_x", "scroll_y">>), ppu)
       \o If(Uses(p, "scroll"),
             Consecutive(Cells(<<"pending_x", "pending_y", "scroll_ready">>), scroll))
       \o If(Uses(p, "get_tile"), <<<<"background_shadow", scroll + ScrollSize(p), 960>>>>)

\* add_background_symbol, add_collision_symbol and add_random_symbol each
\* continue at the next free address.
HelperSymbols(p) ==
  Consecutive(
    If(Queue(p), <<<<"ready", 4>>, <<"high", 4>>, <<"low", 4>>, <<"queued", 4>>>>)
      \o If(OverflowFlag(p), Cells(<<"overflow">>))
      \o If(Uses(p, "clear_updates"), Cells(<<"cancel_lock">>))
      \o If(CoordinateInputs(p), Cells(<<"background_x", "background_y">>))
      \o If(QueueWriter(p), Cells(<<"pending_value">>))
      \o If(TileIndex(p), Cells(<<"index_low", "index_page">>))
      \o If(Geometry(p),
            Cells(<<"left_x", "left_y", "left_width", "left_height",
                    "right_x", "right_y", "right_width", "right_height">>))
      \o If(Collision(p), Cells(<<"point_x", "point_y">>))
      \o If(Uses(p, "random"), Cells(<<"state_low", "state_high">>))
      \o If(Uses(p, "random_range"), Cells(<<"span", "cutoff">>)),
    RuntimeStart(p) + BeforeBackground(p))

GeneralSymbols(p) ==
  SpriteSymbols(p) \o MetaspriteSymbols(p) \o PpuSymbols(p) \o HelperSymbols(p)

CompilerSymbols(p) ==
  [i \in 1 .. p.temporaries + p.limits |-> <<"temporary", ZeroPageRuntimeSize + i - 1, 1>>]

\* One byte for each function, in declaration order, as one symbol here.
ResultSymbols(p) == If(p.functions > 0, <<<<"results", ResultStart(p), p.functions>>>>)

OamSymbols(p) == If(OamShadow(p), <<<<"oam_shadow", OamShadowStart, 256>>>>)

RuntimeSymbols(p) ==
  ZeroPageSymbols(p) \o OamSymbols(p) \o GeneralSymbols(p) \o CompilerSymbols(p)
    \o ResultSymbols(p)

(***************************************************************************)
(* validate_segment_capacities: the last check before a program is linked. *)
(***************************************************************************)
Inside(symbol, region) ==
  symbol[3] > 0 /\ symbol[2] >= region[1] /\ symbol[2] + symbol[3] <= region[1] + region[2]

Apart(s, t) == s[2] + s[3] <= t[2] \/ t[2] + t[3] <= s[2]

Holds(region, symbols, at) ==
  /\ \A i \in at : Inside(symbols[i], region)
  /\ \A i, j \in at : i # j => Apart(symbols[i], symbols[j])

HoldsAll(region, symbols) == Holds(region, symbols, DOMAIN symbols)

WithName(symbols, name) == {i \in DOMAIN symbols : symbols[i][1] = name}

SegmentsHold(p, userSymbols) ==
  /\ HoldsAll(ZeroPageRuntime, ZeroPageSymbols(p))
  /\ HoldsAll(TemporaryStorage(p), CompilerSymbols(p))
  /\ HoldsAll(OamRegion(p), OamSymbols(p))
  /\ HoldsAll(RuntimeData(p), GeneralSymbols(p))
  /\ HoldsAll(FunctionResults(p), ResultSymbols(p))
  /\ Holds(AutomaticRegion, userSymbols, WithName(userSymbols, "promoted"))
  /\ Holds(UserRam(p), userSymbols, WithName(userSymbols, "user"))

(***************************************************************************)
(* build_memory_layout: the checks, then the loop over the user variables  *)
(* in declaration order.                                                   *)
(***************************************************************************)
LayoutInit ==
  /\ kind = "layout" /\ query \in LayoutPrograms
  /\ answer = Unanswered /\ progress = NotStarted

\* The program is refused with a diagnostic.
RefuseLayout(diagnostic) ==
  Ends("layout", [diagnostic |-> diagnostic, symbols |-> <<>>, available |-> 0])

RegionDiagnostic(p) ==
  IF p.temporaries + p.limits > TemporaryCapacity THEN "temporaries"
  ELSE IF p.depth > MaxCallableDepth THEN "depth"
  ELSE IF UserStart(p) > RamSize THEN "layout"
  ELSE "none"

RefuseRegions ==
  /\ kind = "layout" /\ progress = NotStarted
  /\ RegionDiagnostic(query) # "none"
  /\ RefuseLayout(RegionDiagnostic(query))

PlaceRegions ==
  /\ kind = "layout" /\ RegionDiagnostic(query) = "none"
  /\ Starts("layout",
            [symbols |-> <<>>, automatic |-> AutomaticStart, next |-> UserStart(query)])

Promotable(v) == v.scalar /\ v.references >= PromotionThreshold

Unplaced == InLoop("layout") /\ Len(Plan.symbols) < Len(query.variables)
Current == query.variables[Len(Plan.symbols) + 1]
Promotes == Promotable(Current) /\ Plan.automatic < AutomaticStart + AutomaticSize

PromoteVariable ==
  /\ Unplaced /\ Promotes
  /\ Continues([symbols |-> Append(Plan.symbols, <<"promoted", Plan.automatic, Current.size>>),
                automatic |-> Plan.automatic + Current.size,
                next |-> Plan.next])

PlaceVariable ==
  /\ Unplaced /\ ~Promotes /\ Current.size <= RamSize - Plan.next
  /\ Continues([symbols |-> Append(Plan.symbols, <<"user", Plan.next, Current.size>>),
                automatic |-> Plan.automatic,
                next |-> Plan.next + Current.size])

ExhaustUserRam ==
  /\ Unplaced /\ ~Promotes /\ Current.size > RamSize - Plan.next
  /\ RefuseLayout("user")

\* available_bytes, as the memory map reports it.
AvailableBytes(p, plan) ==
  (RamSize - plan.next) + (AutomaticSize - (plan.automatic - AutomaticStart))
    + RecoveredTemporaries(p)[2] + UnallocatedZeroPage[2]

AcceptLayout ==
  /\ InLoop("layout") /\ Len(Plan.symbols) = Len(query.variables)
  /\ IF SegmentsHold(query, Plan.symbols)
     THEN Ends("layout", [diagnostic |-> "none",
                          symbols |-> RuntimeSymbols(query) \o Plan.symbols,
                          available |-> AvailableBytes(query, Plan)])
     ELSE RefuseLayout("segment")

LayoutNext ==
  RefuseRegions \/ PlaceRegions \/ PromoteVariable \/ PlaceVariable \/ ExhaustUserRam
    \/ AcceptLayout

LayoutSpec == LayoutInit /\ [][LayoutNext]_planVars

-----------------------------------------------------------------------------
SymbolBytes(symbols) ==
  UNION {symbols[i][2] .. symbols[i][2] + symbols[i][3] - 1 : i \in DOMAIN symbols}

RegionBytes(region) == region[1] .. region[1] + region[2] - 1

Total(sizes) == PartialSums(sizes)[Len(sizes)]
SizeOf(symbols) == Total([i \in DOMAIN symbols |-> symbols[i][3]])

\* Bytes needed in general RAM, from the symbols and variables themselves.
Promoted(p) == Cardinality({i \in DOMAIN p.variables : Promotable(p.variables[i])})
RegularBytes(p) ==
  Total([i \in DOMAIN p.variables |-> p.variables[i].size])
    - (IF Promoted(p) <= AutomaticSize THEN Promoted(p) ELSE AutomaticSize)
GeneralBytes(p) == SizeOf(GeneralSymbols(p)) + p.functions + RegularBytes(p)

\* Pointers for indirect addressing, and what is addressed as Zero Page.
ZeroPageNames == {"frame_pointer", "slot_pointer", "collision_pointer", "temporary", "promoted"}

Suffices(p) ==
  /\ p.temporaries + p.limits <= TemporaryCapacity
  /\ p.depth <= MaxCallableDepth
  /\ GeneralBytes(p) <= RamSize - RuntimeStart(p)

\* The fixed symbols of Zero Page do not grow with the setting of its size.
RuntimeFits(p) == SymbolBytes(ZeroPageSymbols(p)) \subseteq RegionBytes(ZeroPageRuntime)

(***************************************************************************)
(* The sizes of the regions and the addresses of the symbols are computed  *)
(* apart from each other.  Still, in every layout no two symbols share a   *)
(* byte, none lies in the hardware stack or the explicit reserve, pointers *)
(* and temporaries lie in Zero Page, and the bytes reported as available   *)
(* are exactly those that nothing owns.  A program is refused exactly if   *)
(* its temporaries, its call depth or the bytes of its symbols exceed what *)
(* there is, or the setting of the runtime region leaves no room for its   *)
(* fixed symbols, which is all that the last check before linking finds.   *)
(***************************************************************************)
EveryByteHasOneOwner ==
  Answered("layout") =>
    LET symbols == Result.symbols
        owned == SymbolBytes(symbols)
        kept == RegionBytes(ZeroPageRuntime) \cup RegionBytes(ExplicitReserve)
                  \cup RegionBytes(HardwareStack)
    IN IF ~Suffices(query) THEN Result.diagnostic \notin {"none", "segment"}
       ELSE IF ~RuntimeFits(query) THEN Result.diagnostic = "segment"
       ELSE /\ Result.diagnostic = "none"
            /\ \A i, j \in DOMAIN symbols : i < j => Apart(symbols[i], symbols[j])
            /\ owned \subseteq 0 .. RamSize - 1
            /\ owned \cap (RegionBytes(HardwareStack) \cup RegionBytes(ExplicitReserve)) = {}
            /\ \A i \in DOMAIN symbols :
                 symbols[i][1] \in ZeroPageNames => symbols[i][2] + symbols[i][3] <= 256
            /\ Result.available = Cardinality((0 .. RamSize - 1) \ (owned \cup kept))
=============================================================================
