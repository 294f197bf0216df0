# A verification project for NES Pascal

NES Pascal compiles a small Pascal dialect to 6502 assembly for the NES. A
compiled program is two threads that share memory without locks: the *main
thread* (the program's main block, then an implicit loop) and the *NMI handler*,
which the PPU raises once per VBlank and which interrupts the main thread
between any two instructions. Almost everything a program shows on screen is
staged by the main thread in RAM and carried to the PPU by NMI. The protocols
between the two are emitted by `nes_pascal/backend_ca65.py`; they are the first
half of this project, because tests run a compiler and an emulator on chosen
schedules, and a schedule is exactly what can go wrong. The second half is the
compiler itself: the code it emits for mixtures of expressions, calls, loops and
callbacks against the meaning of the source, and the planners that share out
temporaries, sprites and memory.

All paths below are relative to the repository (`src/`), line numbers refer to
`nes_pascal/backend_ca65.py` unless another file is named.

## 1. Inventory

| Component | State | Operations | Interacts through | Hard behaviour |
|---|---|---|---|---|
| Background update queue (3177-3387) | four slots (ready, high, low, value), overflow flag, cancellation lock, 960-byte confirmed shadow | `set_tile`, `set_attribute`, `get_tile`, cancellation, clearing the overflow, NMI uploader | ready flags shared with NMI | NMI between search, fill and publication; a full queue; cancellation flag by flag |
| Scroll staging (1327, 402-429) | pending pair and flag, active pair | `set_scroll`, commit, restore | one flag; the VBlank callback calls `set_scroll` too | torn and withdrawn pairs |
| Palette staging (2935-3174) | 32-byte shadow, nine dirty flags | eight palette calls direct or queued, `nes.run` default palette, uploader | dirty flags; VBlank callback | split publication, overwritten staging |
| Frame loop and controllers (302-337, 576-615, 1080) | eight-bit frame counter, latch, last processed frame, poll record, button bytes | `wait_frame`, the implicit loops, the poll | counter written by NMI | wrap-around, missed frames, double or suppressed polls |
| NMI handler (339-433, 523-539) | - | sprite-zero commit, OAM DMA, palettes, background, callback, scroll, PPU restore, in this order | all of the above | order of the parts |
| Sprites (1462-1766, 1118-1142) | OAM shadow, logical Y cache, sprite-zero staging, scratch values | sprite calls, hide cache, sprite-zero commit | OAM DMA | DMA between two stores, nested calls |
| Metasprites and animation (1891-2523) | per instance: frame, position, flags, animation, entry, timer; rendered OAM slots | position, frame, flips, visibility, select, restart, advance, render | frame loop, OAM shadow | offsets at the edges, table index, stale rendering, cross-asset identities |
| Random numbers (1769-1888, `random_runtime.py`) | 16-bit LFSR, ready flag | seed, step, bounded request | frame counter, controllers | zero state, rejection loop |
| Collisions (2525-2908) | scratch | box and background queries | collision map | eight-bit edges |
| Expressions, calls, loops (628-1034, 3482-3753, 3982-4506) | hardware stack, temporaries, loop limits, parameter and result bytes | code generation | the temporary pool; NMI | values held across calls, loops at byte limits |
| Temporaries (`codegen_analysis.py`) | slots in use, call depth | replay of a program, pool | layout, code generation | a replay smaller than the code |
| Sprite ownership (`semantic.py` 920-1108) | partition of 64 sprites | planning | declarations | overlap, limits |
| Callbacks and call graph (`semantic.py` 1602-1930, 2132-2206) | call graph | registration, transitive validation, resolution order | all procedures | recursion, reachability |
| Definite assignment (`semantic.py` 538-655, 1178-1409, 3155-3380) | assigned names, summaries of callables | demand, provide, join | resolution order, `nes.run` | order of resolution against order of execution |
| Memory layout (`memory_layout.py`) | regions and symbols | placement, Zero Page promotion, capacity checks | every component's storage | overlap, exhaustion |
| Parser (`parser.py`) | position in the tokens | recursive descent | lexer, names declared so far | precedence, dangling else, separators |
| Lexer, types, asset loaders, diagnostics, command line | - | sequential translation | files | - |

What makes each correct: the *staging protocols* must be atomic, must not lose
or reorder calls, must eventually reach the PPU, and what a query answers must
agree with the PPU; the *frame loop* must neither overlook nor replay a frame
and must poll once per frame; the *compile-time planners* must hand out
disjoint resources within the limits of the machine and reject what the runtime
protocols do not support; the *code generator* must preserve the meaning of
every program the analyzer accepts, under interrupts.

## 2. Modules

| Module | What it is |
|---|---|
| `BackgroundAddress` | eight-bit addressing: coordinate to PPU address, uploaded address to shadow byte, query to shadow byte |
| `MetaspriteGeometry` | place, mirroring and clipping of a metasprite component |
| `CollisionQueries` | boxes, bounds and the background collision map |
| `RandomGenerator` | seeding, stepping and bounded reduction |
| `Queries` | a behaviour that is one question and its answer |
| `Plans` | such a question answered by a loop, with the variables of the loop in progress |
| `MemoryLayout` | sizes, regions, symbols, promotion, placement and capacity checks of the 2 KiB of RAM |
| `SpriteAllocation` | the partition of the hardware sprites |
| `PlannerProofs` | TLAPS proofs about these two planners |
| `SourceGrammar` | the parser of expressions, statements and the main block |
| `CompilerQueries` | inputs of the planners and the parser, and the source text of a tree |
| `RuntimeQueries` | one call of a runtime routine and its answer per behaviour, with the exact definitions the answers are compared with |
| `RuntimeQueriesProofs` | TLAPS proofs that all of these answers are exact |
| `RuntimeArithmeticMC` | instances of `RuntimeQueries` and of the planners for TLC, and the parser in the same form |
| `SourceProgram` | resolved programs as data; call and side-effect tests on values |
| `SourceMeaning` | abstract specification: an evaluator of the source |
| `ProgramAnalysis` | resolution order, definite assignment, VBlank rules: which programs are accepted |
| `TemporaryPool` | the pool of temporaries and its replay before layout |
| `ValueCode`, `SpriteCode`, `StatementCode` | the code generator: values and conditions, sprites, statements and programs |
| `CompiledProgram` | the assembled program on a reduced 6502 with NMI, compared with `SourceMeaning` |
| `CompiledProgramMC` | the families of programs that are compiled and run |
| `BackgroundQueue` | the queue protocol, main thread step by step against NMI |
| `BackgroundWrites` | what the queue promises, without slots: a bounded list of writes, one of which may be late |
| `BackgroundQueueOrder` | history of publications, ordering properties, refinement to `BackgroundWrites` |
| `BackgroundQueueOrderMC` | instances for TLC |
| `BackgroundQueueProofs`, `BackgroundQueueOrderProofs` | TLAPS proofs about the two |
| `ScrollStaging`, `ScrollStagingMC`, `ScrollStagingProofs` | scroll pairs with and without a staging VBlank callback |
| `PaletteStaging`, `PaletteStagingMC`, `PaletteStagingProofs` | palette calls as lists of stores |
| `MetaspritePlayback`, `MetaspritePlaybackMC`, `MetaspritePlaybackProofs` | metasprite instances, their animation and what their slots show |
| `FrameScheduler` | what the frame loop promises, without counters |
| `FrameLoop`, `FrameLoopMC`, `FrameLoopProofs` | `wait_frame`, the update loop and the poll on a wrapping counter |

### How they correspond to the code

*Threads.* The main thread is a program counter `pc` (a script and an index in
`PaletteStaging`). One step is one access to a byte that the other thread
reads or writes; instructions between two such accesses touch registers and
main-only scratch and are part of the neighbouring step. NMI runs to
completion while the main thread is suspended, so it is one action, enabled
between any two main steps. Variables carry the names of the assembly symbols
without the `runtime_` prefix; each declaration names its symbol.

*BackgroundQueue.* `SetTile`/`SetAttribute` are the emitted call, the range
check and the address computation (3286-3355; arguments and scratch are not
visible to NMI). `SlotFree`, `SlotBusy`, `FillHigh`, `FillLow`, `FillValue`,
`Publish` and `Reject` are the instructions of `runtime_queue_background_write`
(3230-3252). `LockQueue`, `ClearSlot`, `UnlockQueue` are the cancellation
(1357-1368). `Nmi` is `runtime_upload_queued_background` (3260-3278): the loop
over the slots is written as its effect on each cell, the byte of the last
published slot that addresses it. `nes.get_tile` only reads; it is the property
`QueriesReturnConfirmedTiles` through `QueriedIndex`.

*ScrollStaging.* `Invalidate`, `StageX`, `StageY`, `Publish` are the stores of
`_emit_set_scroll` with the evaluation of the arguments between them. In NMI
the callback precedes the commit (430-433), so a pair the callback stages is
committed in the same NMI (`NmiWithCallback`). `callX`, `callY`, `newest` and
`overtaken` are history.

*PaletteStaging.* A bank is what one dirty flag publishes. A queued call is the
list of its stores (3020-3045, 3102-3113, 2955-2970), performed one per step.
`WriteDirectly` is a call before `nes.run` at top level (rendering and NMI are
off, so it is one step), `Run` the part of `nes.run` that installs the default
sprite palette (747-777). In NMI the uploader precedes the callback. `promised`
records what the calls have asked for, `spoiled` the entries that other code
stored over, `overtaken` the banks that the callback of the latest NMI published
while the main thread was staging them.

*MetaspritePlayback.* Everything here runs on the main thread, so an action is a
whole runtime routine including the `runtime_metasprite_render` it ends with:
`SetPose` (position and flips), `SetFrame`, `SetVisible`, `SetAnimation`,
`RestartAnimation` (2113-2247), and `UpdateAnimations` (2261-2279), which the
frame loop calls once per accepted frame. `Tick`, `Advance`, `Select`, `Complete`
are the labels of the advance routine (2305-2339), `TableEntry` its eight-bit
pair offset. `shown` is what the slots show: nothing or a frame in a pose.
`elapsed` is history, `Starts` the running sums of the durations it is compared
with. The names of animations and frames are the loader's dense identities; the
limits on tables and durations are the loader's, stated as assumptions.

*The pure modules* are one operator per routine, on bytes, in the routine's
order of tests; `Clipped` stands for the branch that hides or rejects.
`MetaspriteGeometry` is 2403-2482, `CollisionQueries` 2573-2906,
`RandomGenerator` 1791-1885. `ComponentOffsets` and `BoxFits` are the loader's
tests: an offset and its mirror image must both be signed bytes.

*The planners* run one loop on a description of the program (`query`), an iteration
per action; `progress` holds the loop's variables and `answer` what the planner
returns. In `MemoryLayout`, `RefuseRegions` and `PlaceRegions` are the checks of
`build_memory_layout` in their order (501-545) and the start of its loop,
`PromoteVariable`, `PlaceVariable` and `ExhaustUserRam` one variable of it (1205-1259),
and `AcceptLayout` the end with `validate_segment_capacities`, whose refusal is the
diagnostic "segment". The symbols are computed as the code computes them: region
sizes from the features (206-288, 478-500), addresses of sprite and metasprite bytes
from offsets of their own, helper symbols from a running address. In
`SpriteAllocation` the actions are the parts of `_plan_sprite_ownership`
(`semantic.py` 934-1108): `ReserveExplicit` collects what the program names,
`CreateSprite` is one turn of the loop over creation sites, `RefuseInstances` the
limit on instances, `CreateComponent` one component of the loop over metasprites,
whose first waits for room for all. The code serves its lists in source order;
here `IsNext` tells which claim that is.

*The parser.* In `SourceGrammar` a parsing operator maps tokens and a
position to a tree and the position after it; after a syntax error the position
is `Stopped`.

*ProgramAnalysis.* A state of the analysis is the set of assigned names, or
the diagnostic that ended it. `Resolution` is the depth-first order of
`_callable_resolution_order`, `Summary` what a resolved callable demands and
provides, `ResolveValue` and `ResolveStatement` the walk, with the joins of `if`,
loops and short circuits; `ResolveStart` is `nes.run`, before which the demands of the VBlank
callback must be met.
`Accepted` conjoins it with the registration and VBlank rules.

*TemporaryPool, ValueCode, SpriteCode, StatementCode.* `ReplayProgram` is
`analyze_program_temporaries` as a set of events (a lease, an entry into a
callable). The code operators carry the names of the emitters without the
prefix (`LoadBinary` is `_load_binary_expression`); they take the slots that are
live and a path that makes labels unique, and return a sequence of
instructions. Parameters, results, temporaries and loop limits are cells named as the
emitter names their labels.

*CompiledProgram.* `Execute` is one instruction; `Routine` is a call of a helper that
has no module here (`point_in_rect`, `get_tile`, `set_tile`), by its effect and with
every register spoiled; the sprite routines are emitted and executed. `Nmi` commits
sprite zero, copies OAM and enters the callback; `ReturnFromNmi` restores the
registers. `written` and `unsafe` are history. `SourceMeaning` follows the documented
order of evaluation and knows nothing of temporaries, stack or flags.

*FrameLoop.* `WaitSample` ... `WaitAccept` are `_emit_wait_frame` (1080-1100),
`ReadBaseline` ... `Return` the update-callback loop (322-337),
`UpdateControllers` the poll (576-594); the serial read of both ports returns
any pair of readings. Before the loop the program calls `wait_frame` as often as
it likes. `unseen`, `since` and `fresh` are history.

## 3. Runs

| Run | Bounds | Shows |
|---|---|---|
| `runtime_arithmetic` | all pairs of bytes for background coordinates and the collision map; all anchors, admitted offsets and flips for components; the bytes where carries and signs change for boxes and bounds; 15 spans (powers of two, their neighbours, 3, 5, 6, 10, 171, full) at 4 minima and all reversed ranges; all generator states and seeds; every step of the layouts of some 8,000 mixtures of features and of variables around every limit, with an automatic region of 20 bytes in place of the default 128; every program of up to 4 sprite sites on 5 sprites and 2 instances; every block of expressions of depth 2 and statements of depth 2 | exact addresses, clipping, intersections, mirrored bounds; uniform draws; a generator that never sticks; a layout, a partition and a parser without surprises |
| `compiled_programs` | the families below; 2 update frames; 1 NMI for programs with a VBlank callback, 2 for those that show sprites | compiled code computes the source; no unassigned reads; reserved temporaries suffice; whole sprites; programs finish |
| `compiled_stack` | a chain of 40 functions, each called inside two pushed operands and three more | violation: the depth limit does not keep the hardware stack within 256 bytes |
| `background_queue` | 3 slots, a tile ($22BF), the first attribute byte ($23C0), a coordinate out of range of each kind, 2 values | safety of publication, shadow agreement, order up to one late write, drain, refinement |
| `background_queue_race` | 4 slots, one tile, 2 values | violation: the last call does not always win |
| `scroll` | 3 bytes per axis, callback stages | atomic and lossless unless overtaken; settles |
| `scroll_torn` | 2 bytes per axis, callback stages | violation: torn pair |
| `palette` | one palette of 2 own colors and the universal color, 2 colors, callback stages, default palette | atomic and lossless unless spoiled; settles |
| `palette_default` | one sprite palette of 1 own color and the universal color, calls that set color 2, default color 1, no callback | violation: a staged color 2 is replaced by the default color 1 |
| `metasprite_playback` | 2 assets with one instance each, 5 frames, a loop, a one-shot and a one-entry animation, durations 1 to 3, 2 poses | exact playback, rendered slots, no cross-asset frame |
| `metasprite_long` | one looping animation of 255 frames of one logical frame | violation: the table index wraps at entry 128 |
| `frame_loop` | counter of 4 values, at most 3 frames between two accepted ones | frame detection, polling, waits, refinement with liveness |

*Why the bounds are enough.* Slots are interchangeable except for their order,
and the interesting interleavings need a slot that is overtaken, one before and
one after it: three slots have them, and the proofs cover every number. Two
values tell an old byte from a new one. The two cells, $22BF and $23C0, differ in
both bytes of the address, and the high byte of one with the low byte of the other
($22C0, $23BF) addresses neither, so that no mixture of two writes passes for a
write; the ends of the shadow and of the tables are covered by `runtime_arithmetic`,
which has every coordinate. The palette
flags are independent, so one palette and the universal color show every
interaction of two banks. The frame counter is used only for equality and
increment: a counter of four values wraps in four NMIs, and the code's 256 are
covered by the proofs. Instances do not interact, so two of different assets show
every mixture of calls; the three animations have every combination of next
entry, wrap and completion, and the proofs cover every table. In the boxes only
the order of sums and bytes matters, which changes at the chosen bytes; the
other routines are run on every input they accept, except that the bounded
draws take a set of spans.

*Families of programs.* `pair`: every pair of 13 values (constants, variables,
elements, fields of records of 3 and 4 bytes, nested subtraction, functions that
change a global, nested calls) as operands, arguments, indexes, stored values,
amounts and coordinates. `condition`: every pair of 13 conditions under `and` and
`or`, branched on and stored. `compare`: every comparison at 0, 1, 3, 254, 255, direct
and through a temporary. `for`: both directions between these bounds and 252, at
most four turns, with `continue` and `break`. `loop`: nested loops with jumps and conditions with side
effects. `calls`: three functions that call each other in every combination of
four shapes and in both declaration orders; recursive ones are rejected and not
run. `assign`: statements over two names, two before and one after `nes.run`, with a
callback that reads. `callback`: 14 callback bodies (the rules reject
some) that interrupt two main blocks at every instruction. `sprite`: every pair of
sprite operations, on a constant and on a variable sprite, one with a nested call.
`frame`: a hidden sprite moved and shown, and `set_sprite_zero` twice, with two NMIs
anywhere. The values are chosen so that a lost, swapped or stale byte changes the
result; the interplay of two constructs needs two of them, and the replay of
temporaries three nested calls. A run of the update callback is `UpdateFrames`
calls, since the loop of `FrameLoop` is verified apart.

*Fairness.* `WF(Busy)`/`WF(Wait \/ Loop)`: the CPU runs, so a call or loop
iteration that has begun continues; the program is never obliged to make
another call. `WF(Nmi)`: once `nes.run` has enabled it, the PPU raises NMI in
every VBlank. In `ScrollStaging` and `PaletteStaging` the fairness is about
NMIs without a callback call: a callback that stages in every NMI commits in
every NMI as well, and is not required to stop. In
`CompiledProgram`, `WF(Execute \/ Start \/ ReturnFromNmi)`: the processor does not
stop on its own; NMI is an input without fairness, and does not interrupt its own
handler. No fairness is assumed of the
program's own choices. `MaxBacklog` bounds how many frames one update may take
and is named wherever it is assumed.

*Deadlock* is checked except in `runtime_arithmetic`, where each behaviour is
one call or one plan.

### What the violation runs found

1. **Queue order** (`docs/runtime/background-updates.md:63-65`). A write chooses
   its slot before it is published. If an NMI empties the queue in between, the
   next write takes slot 0, and the uploader applies the newer write first.
   `OnlyLateWritesAreMisplaced` and the refinement show that this one write is
   the only thing that can be out of place.
2. **Torn scroll** (`docs/runtime/scrolling-and-ppu-state.md:13`). The main
   thread and the VBlank callback stage in the same bytes.
   `OnlyOvertakenCallsAreTorn` shows that this is the only cause.
3. **Default sprite palette** (`docs/runtime/palettes.md:39-43`). `nes.run`
   overwrites a sprite palette staged by a procedure: in the run the procedure asks for
   color 2 and the screen shows the default color 1. Compiling a program whose
   procedure `Setup` calls `nes.set_sprite_palette`, called before
   `nes.set_sprite_zero` and `nes.run`, shows the stores to
   `runtime_palette_shadow + 17` to `+ 19` after the call with the flag set.

4. **Long animations** (`docs/runtime/sprite-animation.md:47,96`). The loader
   admits 255 frames, the advance routine doubles the entry index in eight bits
   (2323). A looping animation of 130 frames compiles to the count byte `$82`
   and the same shift. `PlaybackIsExact` shows that up to 128 entries are exact.
5. **Hardware stack** (`nes_pascal/memory_layout.py:141-159`). The limit of 123
   nested calls counts two bytes for each and argues that the bytes pushed by
   `set_tile`, `set_attribute` and indexed stores are pulled before the next call.
   They are pushed before the value is evaluated (1277-1299, 695-709), and the value
   may call a function: a level takes four bytes, and one more for each `get_tile`
   around the call (3858-3873), which the argument does not mention.

Observations without a run of their own:

- A function called in a later argument of a sprite or metasprite call can
  overwrite the first one, which waits in shared scratch (1479;
  `docs/runtime/sprites.md:104` calls `sprite_set_position` equivalent to the separate
  setters). `CompiledCodeComputesSource` holds for every other
  program; without its exception `NestsSpriteCalls` it is violated.
- A procedure call without arguments directly before `else` is refused
  (`parser.py:566-569`), although `docs/language/conditionals.md:13-15` allows any single
  statement; it is the one exception in `ParserRecoversTheProgram`. A call statement
  with empty parentheses is accepted for functions declared above it only (688).
- The protection of a for-control variable is lexical: a procedure called in the
  body may assign it (`semantic.py:2322-2336`).
- A VBlank callback that calls procedures needs stack beyond the ten bytes the depth
  limit sets aside.
- A callback's palette call over a main-thread call in progress tears the palette as
  it tears the scroll (`spoiled`); a full palette call publishes its two flags one
  after the other; `set_scroll` called in a tight loop can withdraw its pair at every
  NMI.
- With `MaxBacklog` = `FrameModulus` in `FrameLoop` an update that takes exactly 256
  frames is taken for no frame at all, or its poll is skipped.

## 4. Proofs

Constants are arbitrary within the assumptions of the modules (number of slots, of
palettes and of colors, argument sets, values, sets of queries, programs, settings of the layout). `FrameLoopProofs`
additionally assumes `MaxBacklog < FrameModulus`, that is, fewer than 256 frames
between two accepted frames, and `PlaybackIsExact` tables of at most 128 entries;
each theorem that needs one of them says so. A property is inductive by itself
only rarely; what has to be added is told here for each component.

*BackgroundQueueProofs.* `IInv` strengthens `TypeOK` with what each program
counter implies for the slot being filled: it is not published (only the main
thread sets flags), its high and low byte are the accepted call's as far as
they have been stored, and published slots hold whole addresses of program
cells. The free slot stays free because NMI only clears flags - the reason why
a decision several steps old is still good. From `IInv` follow type correctness
(`TypeCorrectness`), `WholeAddresses`, `QueriesAreConfirmed` (the uploader
updates cell and shadow byte from the same last slot, because confirmation
addresses of different cells differ) and `PendingStability`.

*BackgroundQueueOrderProofs.* `OrderInv` adds to `IInv` at which slot every pending
write sits: the calls fill the slots upwards from 0, around the slot of the one
write that an NMI overtook, which is then the first of the batch (`Position`,
`FilledUpwards`, `LateIsFirst`). It is needed because the search of a call only
tells that lower slots were busy when it looked at them; `SearchedSlots` says
that they still are unless the queue was emptied meanwhile, and then nothing has
been published since. From it follow `OneMisplacedWrite`, `LastCallDecides` (the
last slot that addresses a cell is the last call to it, by a maximum over the slots
that address it, whatever the batch holds for other cells; only a late write to the
very cell is excepted) and `QueueImplementsWrites`, the refinement of `BackgroundWrites`: a
publication inserts its write where the abstract list puts it, an upload applies
the abstract list, and every other step leaves it alone. `BackgroundWrites!Spec`
states no fairness, so this is the whole of `ImplementsBackgroundWrites`; that
writes leave the queue is `EveryWriteLeavesTheQueue`, which only TLC checks.

*PaletteStagingProofs.* A queued call enters only through `WellFormed`: each bank is
withdrawn before its stores, each entry stored at most once, each bank published
last. `StagingInv` then says what every byte of the shadow is worth: unless other
code stored over it, it is what the call in progress has stored there, or else
what the bank was last promised. A flag that is set on a bank in the middle of its call
was set by the callback of the latest NMI (`DirtyIsOvertaken`), and what is then
uploaded is what the call has stored so far (`DirtyShadowIsPartOfCall`). It gives `PaletteTypeCorrectness`,
`PaletteUpdatesAreKept` and `PaletteUploadsAreWhole`, with and without a callback.

*RuntimeQueriesProofs.* The properties of `RuntimeQueries` are inductive by
themselves, since a query is answered once; the work is in the arithmetic. Each
routine has a lemma that equates its eight-bit computation with the exact one
(`TileFacts`, `SignedSum`, `MirroredTile`, `ValidIsFits`, `MeetIsIntersection`,
`FlagFacts`, `StoredIsExact`), from `Quotient`, `Remainder` and `LowByte`. Draws are
uniform (`DrawsAreUniform`) because the sources of a value are those of the minimum
moved by the difference, within the whole spans above the cutoff. A rejection
loop ends (`RejectionEnds`) because a draw below 128 shifts a zero into the low
byte: seven of them empty it, and eight more would shift out a state that is not
zero. The theorems are about `RuntimeSpec`, all of whose behaviours the run
`runtime_arithmetic` has, and hold for every set of queries within the assumptions:
every box, every range, every frame whose box the loader admits.

*ScrollStagingProofs.* `StagingInv`: unless overtaken, the pending bytes are
those the call in progress has stored, or the newest pair once published. It
gives `TearingIsOvertaking` and `CallsAreNotLost` for every program, and
`AtomicPublication`, the documentation's unconditional claim, for programs whose
callback does not stage.

*FrameLoopProofs.* The invariant relates the counter to the last frame read plus
the NMIs since (`unseen`, `since`) modulo the counter size; with fewer NMIs than
counter values, inequality means "a frame is pending"
(`PendingFramesAreSeen`), and an accepted frame never has the number of the one
polled before (`AcceptedFramesArePolled`). `ReadingsFollowFrames` needs only that an
accepted frame is unread until its poll, and no bound. `LoopImplementsScheduler` is the
safety part of the refinement to `FrameScheduler`.

*MetaspritePlaybackProofs.* `BaseInv` (types, asset membership, rendered slots)
is inductive for every table, wrapped index or not, since a wrapped entry is an
entry of the same table: it gives `TypeCorrectness`, `ShadowIsCurrent` and
`SlotsSuffice`. `PlaybackInv` adds the clock: timer plus elapsed time is the end
of the current entry. With tables of at most 128 entries (`ShortTables`) it is
inductive and gives `PlaybackIsExact`.

*PlannerProofs.* The planners are loops, so their proofs are by invariants over the
iterations; their specifications `SpriteSpec` and `LayoutSpec` are part of the run
`runtime_arithmetic`. `SpritesAreShared`: `SpriteInv` says that the reservations made
so far are a bijection between the slots that are no longer free and the claims
served, with every named sprite in its own slot (`Matched`); that claims are served in source order, so what is unserved is a
final part (`InOrder`); and that the components an instance still lacks fit in the
free slots once its first has been served (`Room`), which is why a program is never
refused in the middle of an instance. A refusal therefore happens only when the
claims outnumber the slots, and an acceptance serves all of them.

`BytesAreShared`: `LayoutInv` says that the variables placed so far tile the automatic
region and the user RAM from their starts without gaps, and that promotion has taken
all it could (`Laid`); `RegularUpTo`, the bytes the first k variables need in general
RAM, never falls, so the loop is exhausted exactly if the total does not fit. The
rest is about the runtime's symbols: for every set of features and any number of
instances `SpritesFill`, `MetaspritesFill`, `PpuFills` and `HelpersFill` show that chained
addresses and summed sizes agree, byte by byte, so that the symbols of the runtime
fill its region exactly; `AllOwned` joins them with the other regions, and
`WhatIsLeft` counts the bytes that remain. `SegmentsHoldFixed` and `SegmentsHoldIf` show
what `validate_segment_capacities` finds at the end: exactly the programs whose fixed
Zero Page symbols (up to 15 bytes) exceed the setting of their region, as in
`tests/test_memory_layout.py:148`; with the default of 16 bytes, which the run has, it
never refuses. The assumptions are those that `_validated_regions` makes of the settings
(`LayoutSettings`) and that the table of built-ins makes of the features
(`LayoutProgramsAssumption`). Sums over sequences are functions on 0 .. n; their
lemmas (`Sums`, `SumsAgree`, `TotalOfConcatenation`) rest on `UpTo`, induction to a
given number stated with a set, which follows from the greatest member of a finite
set of numbers (`Maximum`).

*Only model-checked:* liveness and fairness (outside what the prover handles); the
parser (`ParserRecoversTheProgram`), which is recursive; and everything about
`CompiledProgram` (`CompiledCodeComputesSource`, `AcceptedProgramsReadOnlyAssigned`,
`TemporariesStayReserved`, `FramesShowWholeSprites`): its compiler and its evaluator
are recursive over programs, and their agreement is an induction over data.

## 5. Not modelled

- *Lexer, diagnostics, command line, benchmark tool*: sequential text processing and
  I/O; a lexer is a single pass with no state beyond its position.
- *Scopes, types, constants and built-in signatures* (`semantic.py`): a table-driven
  translation whose product is diagnostics. The programs of `CompiledProgramMC` are
  chosen well typed, with `true` and `false` as 1 and 0; of name resolution only
  definite assignment is modelled.
- *Declarations* in the parser, and the texts of its errors.
- *Texts of the backend and of the layout*: header, segments, data tables, linker
  configuration, memory map, reports.
- *The walk over the components of a metasprite* store by store, with OAM DMA in the
  middle: `MetaspritePlayback` renders in one step. The runtime helpers that have a
  module (`CollisionQueries`, `RandomGenerator`, `BackgroundAddress`) are not
  executed by `CompiledProgram`, which calls one of each shape by its effect.
- *One module with the whole NMI handler*: the parts share no byte except through
  the callback, and each is modelled with the callback.
- *Reading of assets*: of the loaders only the limits the runtime relies on and the
  packing of the collision map.
- *Cycle timing*: that VBlank work fits in a VBlank is an assumption of every module
  (NMI is not interrupted by the next NMI). PPU and controller hardware appear only
  through the writes and reads the code makes.

## 6. Plan

1. *Metasprite rendering* store by store against OAM DMA.
2. *One step of the hardware sprites* in a module without recursion, to prove
   `FramesShowWholeSprites` for every sequence of sprite calls.
