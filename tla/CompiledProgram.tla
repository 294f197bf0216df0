-------------------------- MODULE CompiledProgram --------------------------
(***************************************************************************)
(* The assembled program at run time: a 6502 reduced to what the emitted   *)
(* code uses, interrupted by NMI at any instruction once nes.run has been  *)
(* executed.  Programs that the analyzer rejects are never run.            *)
(***************************************************************************)
EXTENDS StatementCode, ProgramAnalysis, SourceMeaning

CONSTANTS
  Ids,         \* names of the programs
  Program(_),  \* the program of a name
  Initial(_),  \* contents of memory that the program finds at reset
  Wholes(_),   \* the whole sprites <<x, y, tile, attributes>> it asks for
  Frames(_)    \* a bound: how many NMIs interrupt a run

\* A function as a table: the union with the empty function.
Tabulated(f) == f @@ <<>>

\* The programs that are accepted, assembled.
Compiled ==
  Tabulated([i \in {j \in Ids : Accepted(Program(j)) /\ WithinLimits(Program(j))} |->
               Tabulated(Assembled(ProgramCode(Program(i))))])

VARIABLES
  id,        \* the program that runs
  rom,       \* its instructions
  cpu,       \* registers, flags and the program counter
  stack,     \* the hardware stack, newest entry last: a byte or a return address
  mem,       \* cells written so far; the others hold zero
  started,   \* nes.run has been executed
  saved,     \* what NMI pushed: <<>>, or the registers of the main thread
  frames,    \* NMIs so far
  ppu,       \* the OAM of the PPU, as of the last DMA
  written,   \* ghost: names the program has assigned
  unsafe     \* ghost: a name was read before it was assigned

vars == <<id, rom, cpu, stack, mem, started, saved, frames, ppu, written, unsafe>>

Halted == cpu.pc # 0 /\ rom[cpu.pc] = <<"halt">>

\* Labels of the runtime: not names of the program.
Internal ==
  {"temporary", "for_limit", "controller", "oam", "logical_y", "sprite_value",
   "sprite_secondary", "zero_ready", "zero_pending", "point_x", "point_y",
   "background_x", "background_y", "background_value", "tiles"}

\* Names whose reads are checked: globals, and the results of functions.
Tracked(cell) ==
  /\ cell[1] \notin Internal
  /\ cell[1] \in Callables(Program(id)) => cell[2] = 0

Shadow(m) == [k \in 0 .. 7 |-> Content(m, <<"oam", k>>)]

Init ==
  /\ id \in DOMAIN Compiled
  /\ rom = Compiled[id]
  /\ cpu = [pc |-> 1, a |-> 0, x |-> 0, y |-> 0, z |-> FALSE, c |-> FALSE]
  /\ stack = <<>>
  /\ mem = Initial(id)
  /\ started = FALSE
  /\ saved = <<>>
  /\ frames = 0
  /\ ppu = Shadow(Initial(id))
  /\ written = {}
  /\ unsafe = FALSE

\* Registers after an instruction, at the next one.
Advance(registers) == cpu' = [registers EXCEPT !.pc = cpu.pc + 1]
Accumulate(v) == Advance([cpu EXCEPT !.a = v, !.z = (v = 0)])

Reads(cells) == unsafe' = (unsafe \/ \E c \in cells : Tracked(c) /\ c[1] \notin written)
Writes(cell) == written' = written \cup {cell[1]}

\* What an instruction's operand stands for.
Value(operand) == IF operand[1] = "imm" THEN operand[2] ELSE Content(mem, operand)
ReadOperand(operand) == Reads(IF operand[1] = "imm" THEN {} ELSE {operand})

KeepMemory == UNCHANGED <<mem, written>>
KeepContext == UNCHANGED <<id, rom, started, saved, frames, ppu>>

Load(i) ==
  /\ i[1] = "lda"
  /\ Accumulate(Value(i[2])) /\ ReadOperand(i[2])
  /\ KeepMemory /\ UNCHANGED stack

Store(i) ==
  /\ i[1] = "sta"
  /\ mem' = Bind(mem, i[2], cpu.a) /\ Writes(i[2])
  /\ Advance(cpu) /\ UNCHANGED <<stack, unsafe>>

\* The cell of an indexed instruction.
Indexed(i) == IF i[1] \in {"ldax", "stax"} THEN <<i[2], i[3] + cpu.x>>
              ELSE <<i[2], cpu.y>>

LoadIndexed(i) ==
  /\ i[1] \in {"ldax", "lday"}
  /\ Accumulate(Content(mem, Indexed(i))) /\ Reads({Indexed(i)})
  /\ KeepMemory /\ UNCHANGED stack

StoreIndexed(i) ==
  /\ i[1] \in {"stax", "stay"}
  /\ mem' = Bind(mem, Indexed(i), cpu.a) /\ Writes(Indexed(i))
  /\ Advance(cpu) /\ UNCHANGED <<stack, unsafe>>

\* The carry is the ninth bit of an addition; SBC adds the complement.
Sum(v) == cpu.a + v + Truth(cpu.c)

Add(i) ==
  /\ i[1] \in {"adc", "sbc"}
  /\ LET sum == Sum(IF i[1] = "adc" THEN Value(i[2]) ELSE 255 - Value(i[2]))
     IN Advance([cpu EXCEPT !.a = sum % 256, !.z = (sum % 256 = 0), !.c = (sum > 255)])
  /\ ReadOperand(i[2]) /\ KeepMemory /\ UNCHANGED stack

CompareA(i) ==
  /\ i[1] = "cmp"
  /\ Advance([cpu EXCEPT !.z = (cpu.a = Value(i[2])), !.c = (cpu.a >= Value(i[2]))])
  /\ ReadOperand(i[2]) /\ KeepMemory /\ UNCHANGED stack

BitOf(v, k) == (v \div 2 ^ k) % 2
Bitwise(v, w, keep(_, _)) ==
  LET bit(k) == IF keep(BitOf(v, k), BitOf(w, k)) THEN 2 ^ k ELSE 0
  IN bit(0) + bit(1) + bit(2) + bit(3) + bit(4) + bit(5) + bit(6) + bit(7)

Logic(i) ==
  /\ \/ i[1] = "and" /\ Accumulate(Bitwise(cpu.a, Value(i[2]), LAMBDA b, d : b = 1 /\ d = 1))
     \/ i[1] = "ora" /\ Accumulate(Bitwise(cpu.a, Value(i[2]), LAMBDA b, d : b = 1 \/ d = 1))
  /\ ReadOperand(i[2]) /\ KeepMemory /\ UNCHANGED stack

\* Instructions on registers only.
Register(i) ==
  /\ \/ i[1] = "clc" /\ Advance([cpu EXCEPT !.c = FALSE])
     \/ i[1] = "sec" /\ Advance([cpu EXCEPT !.c = TRUE])
     \/ i[1] = "eor" /\ Accumulate(255 - cpu.a)
     \/ i[1] = "asl" /\ Advance([cpu EXCEPT !.a = (2 * @) % 256, !.c = (cpu.a > 127),
                                         !.z = ((2 * cpu.a) % 256 = 0)])
     \/ i[1] = "tax" /\ Advance([cpu EXCEPT !.x = cpu.a, !.z = (cpu.a = 0)])
     \/ i[1] = "tay" /\ Advance([cpu EXCEPT !.y = cpu.a, !.z = (cpu.a = 0)])
     \/ i[1] = "tya" /\ Accumulate(cpu.y)
     \/ i[1] = "cpx0" /\ Advance([cpu EXCEPT !.z = (cpu.x = 0), !.c = TRUE])
     \/ i[1] = "dex" /\ Advance([cpu EXCEPT !.x = (@ - 1) % 256, !.z = (cpu.x = 1)])
     \/ i[1] \in {"label", "entry"} /\ Advance(cpu)
  /\ UNCHANGED <<stack, unsafe>> /\ KeepMemory

\* INC and DEC of a byte in memory wrap around.
StepByte(i) ==
  /\ i[1] \in {"inc", "dec"}
  /\ LET old == Content(mem, i[2])
         new == (old + (IF i[1] = "inc" THEN 1 ELSE -1)) % 256
     IN mem' = Bind(mem, i[2], new) /\ Advance([cpu EXCEPT !.z = (new = 0)])
  /\ ReadOperand(i[2]) /\ Writes(i[2]) /\ UNCHANGED stack

Taken(op) ==
  CASE op = "beq" -> cpu.z
    [] op = "bne" -> ~cpu.z
    [] op = "bcc" -> ~cpu.c
    [] op = "bcs" -> cpu.c
    [] op = "jmp" -> TRUE

Branch(i) ==
  /\ i[1] \in Branching
  /\ cpu' = [cpu EXCEPT !.pc = IF Taken(i[1]) THEN i[2] ELSE @ + 1]
  /\ UNCHANGED <<stack, unsafe>> /\ KeepMemory

Push(i) ==
  /\ i[1] = "pha"
  /\ stack' = Append(stack, <<"byte", cpu.a>>) /\ Advance(cpu)
  /\ UNCHANGED unsafe /\ KeepMemory

Pull(i) ==
  /\ i[1] = "pla"
  /\ Last(stack)[1] = "byte" /\ Accumulate(Last(stack)[2]) /\ stack' = Front(stack)
  /\ UNCHANGED unsafe /\ KeepMemory

\* A call; the result of a function counts as unassigned in its body.
Call(i) ==
  /\ i[1] = "jsr"
  /\ stack' = Append(stack, <<"return", cpu.pc + 1>>)
  /\ cpu' = [cpu EXCEPT !.pc = i[2]]
  /\ written' = written \ ({rom[i[2]][2]} \cap Program(id).functions)
  /\ UNCHANGED <<mem, unsafe>>

Return(i) ==
  /\ i[1] = "rts"
  /\ Last(stack)[1] = "return"
  /\ cpu' = [cpu EXCEPT !.pc = Last(stack)[2]] /\ stack' = Front(stack)
  /\ UNCHANGED unsafe /\ KeepMemory

\* Runtime helpers, by what they leave behind: no register survives.
Routine(i) ==
  /\ i[1] = "routine"
  /\ LET inputs(a, b) == <<Content(mem, Cell(a)), Content(mem, Cell(b))>>
         tile == inputs("background_x", "background_y")
         point == inputs("point_x", "point_y")
         answer(v, z) == Advance([cpu EXCEPT !.a = v, !.x = 255, !.y = 255, !.z = z,
                                             !.c = ~cpu.c])
     IN \/ /\ i[2] = "point"
           /\ LET in == Truth(InBox(point[1], point[2])) IN answer(in, in = 0)
           /\ UNCHANGED mem
        \/ /\ i[2] = "getTile"
           /\ LET v == Content(mem, TileCell(tile[1], tile[2])) IN answer(v, v # 0)
           /\ UNCHANGED mem
        \/ /\ i[2] = "setTile"
           /\ mem' = Bind(mem, TileCell(tile[1], tile[2]),
                          Content(mem, Cell("background_value")))
           /\ answer(0, TRUE)
  /\ UNCHANGED <<stack, written, unsafe>>

\* nes.run enables NMI.
Start ==
  /\ cpu.pc # 0 /\ rom[cpu.pc] = <<"run">>
  /\ started' = TRUE
  /\ Advance(cpu)
  /\ UNCHANGED <<id, rom, stack, saved, frames, ppu, unsafe>> /\ KeepMemory

\* The legacy sprite-zero pair is committed as a whole, or not at all.
CommitSpriteZero(m) ==
  LET pending(i) == Content(m, <<"zero_pending", i>>)
      new == [k \in 0 .. 3 |-> CASE k = 0 -> pending(2) [] k = 1 -> pending(3)
                                 [] k = 2 -> pending(4) [] k = 3 -> pending(1)]
  IN IF Content(m, Cell("zero_ready")) = 0 THEN m
     ELSE (Cell("zero_ready") :> 0)
            @@ [cell \in {<<"oam", k>> : k \in 0 .. 3} |-> new[cell[2]]] @@ m

\* The address of a callable.
Entry(f) == CHOOSE i \in DOMAIN rom : rom[i] = <<"entry", f>>

\* NMI: commit, OAM DMA, then the VBlank callback over the saved registers.
\* Its own return address is 0.
Nmi ==
  /\ started /\ saved = <<>> /\ cpu.pc # 0 /\ frames < Frames(id)
  /\ mem' = CommitSpriteZero(mem)
  /\ ppu' = Shadow(mem')
  /\ saved' = <<cpu>>
  /\ frames' = frames + 1
  /\ \/ /\ Program(id).vblank = ""
        /\ cpu' = [cpu EXCEPT !.pc = 0]
        /\ UNCHANGED stack
     \/ /\ Program(id).vblank # ""
        /\ cpu' = [cpu EXCEPT !.pc = Entry(Program(id).vblank)]
        /\ stack' = Append(stack, <<"return", 0>>)
  /\ UNCHANGED <<id, rom, started, written, unsafe>>

\* Fault: Y is not among the registers that the handler pushes.
ForgetY(registers) == [registers EXCEPT !.y = cpu.y]

\* pla / tay / pla / tax / pla / rti: the main thread goes on.
Restored(registers) == registers

ReturnFromNmi ==
  /\ cpu.pc = 0
  /\ cpu' = Restored(saved[1])
  /\ saved' = <<>>
  /\ UNCHANGED <<id, rom, stack, mem, started, frames, ppu, written, unsafe>>

Perform(i) ==
  \/ Load(i) \/ Store(i) \/ LoadIndexed(i) \/ StoreIndexed(i) \/ Add(i) \/ CompareA(i)
  \/ Logic(i) \/ Register(i) \/ StepByte(i) \/ Branch(i) \/ Push(i) \/ Pull(i)
  \/ Call(i) \/ Return(i) \/ Routine(i)

Execute == cpu.pc # 0 /\ Perform(rom[cpu.pc]) /\ KeepContext

\* runtime_idle_loop
Idle == Halted /\ UNCHANGED vars

Next == Execute \/ Start \/ Nmi \/ ReturnFromNmi \/ Idle

\* The processor never stops on its own; NMI is an input.
Fairness == WF_vars(Execute \/ Start \/ ReturnFromNmi)

Spec == Init /\ [][Next]_vars /\ Fairness

(***************************************************************************)
(* Properties.                                                             *)
(***************************************************************************)

\* Run f, a callback, n times over an environment.
RECURSIVE Times(_, _, _)
Times(f, n, env) ==
  IF n = 0 \/ f = "" THEN env
  ELSE Times(f, n - 1, RunBlock(Program(id), Program(id).bodies[f], env).env)

\* What the program leaves behind: main, then its callbacks.  The programs
\* checked keep the cells of the VBlank callback apart from the others.
Meaning ==
  LET main == RunBlock(Program(id), Program(id).main, Initial(id)).env
  IN Times(Program(id).vblank, frames, Times(Program(id).update, UpdateFrames, main))

\* Cells of the runtime that the source cannot observe.
Scratch == Internal \ {"oam", "logical_y", "tiles"}

Observed(cells) ==
  {c \in cells : c[1] \notin Scratch \cup (IF <<"zero_ready", 0>> \in cells THEN {"oam"} ELSE {})}

RECURSIVE DrawsSprite(_)
\* A callable that performs, or calls one that performs, a sprite operation.
DrawsSprite(block) ==
  \/ \E k \in DOMAIN block :
       \/ block[k][1] = "sprite"
       \/ \E i \in DOMAIN Branches(block[k]) : DrawsSprite(Branches(block[k])[i])
  \/ \E f \in ToSet(StatementCalls(block)) : DrawsSprite(Program(id).bodies[f])

\* A sprite statement of main whose first value is still in the scratch
\* byte of the runtime when the second value draws a sprite itself.
NestsSpriteCalls ==
  \E k \in DOMAIN Program(id).main :
    LET s == Program(id).main[k]
    IN /\ s[1] = "sprite" /\ Len(s[3]) = 3
       /\ \E f \in ToSet(ValueCalls(s[3][3])) : DrawsSprite(Program(id).bodies[f])

\* Whatever a program mixes of operands held in temporaries, staged
\* arguments, indexed stores, short circuits, loops at the limits of a byte
\* and interrupts, the compiled code leaves in every variable, result,
\* sprite and tile what the source means, and an empty hardware stack.  The
\* only exception is a sprite operation nested in the second value of another.
CompiledCodeComputesSource ==
  Halted /\ saved = <<>> /\ ~NestsSpriteCalls =>
    /\ stack = <<>>
    /\ LET meaning == Meaning
       IN \A c \in Observed(DOMAIN mem \cup DOMAIN meaning) :
            Content(mem, c) = Content(meaning, c)

\* The analyzer resolves values in an order of its own and joins paths,
\* callables and callbacks; no program it accepts reads a variable, an array,
\* a record or a function's result before something assigned it.
AcceptedProgramsReadOnlyAssigned == ~unsafe

\* A frame never shows a sprite torn between two stores of one call: the
\* pair of set_sprite_zero is shown whole, and a sprite that is moved while
\* it is hidden appears only where it was moved to.
FramesShowWholeSprites ==
  frames > 0 /\ Wholes(id) # {} =>
    ppu[0] = 255 \/ <<ppu[3], ppu[0], ppu[1], ppu[2]>> \in Wholes(id)

\* The 256 bytes of the hardware stack hold every chain of calls that the
\* layout admits, with two bytes for each return address.
StackNeverOverflows ==
  Len(stack) + Cardinality({k \in DOMAIN stack : stack[k][1] = "return"}) <= 256

\* The slots that the pre-layout replay reserves cover every temporary that
\* the code has touched by its end, at whatever depth of calls and leases.
TemporariesStayReserved ==
  Halted =>
    LET reserved == ReservedSlots(ReplayProgram(Program(id)))
    IN \A c \in DOMAIN mem : c[1] = "temporary" => c[2] < reserved

\* Every accepted program without an endless loop in its source comes to
\* rest: loops end at the limits of a byte, and calls return.
ProgramsFinish == <>Halted
=============================================================================
