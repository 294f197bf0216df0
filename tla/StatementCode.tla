--------------------------- MODULE StatementCode ---------------------------
(***************************************************************************)
(* The code of statements and callables, and a program's complete code.    *)
(***************************************************************************)
EXTENDS SpriteCode

RECURSIVE BlockCode(_, _, _, _)

Limit(path) == <<"for_limit", path>>

\* Index first, kept on the hardware stack while the value is evaluated.
IndexedStore(base, index, scale, value, live, path) ==
  LoadValue(index, live, Append(path, 1)) \o scale \o <<<<"pha">>>>
    \o LoadValue(value, live, Append(path, 2))
    \o << <<"tay">>, <<"pla">>, <<"tax">>, <<"tya">>, <<"stax", base, 0>> >>

StoreElement(s, live, path) ==
  IF s[3][1] = "imm"
  THEN LoadValue(s[4], live, Append(path, 2)) \o <<<<"sta", <<s[2], s[3][2]>>>>>>
  ELSE IndexedStore(s[2], s[3], <<>>, s[4], live, path)

StoreField(s, live, path) ==
  IF s[4][1] = "imm"
  THEN LoadValue(s[5], live, Append(path, 2))
         \o <<<<"sta", OperandCell(<<"field", s[2], s[3], s[4]>>)>>>>
  ELSE IndexedStore(s[2], s[4], ScaleIndex(s[3][1], path) \o AddOffset(s[3][2]),
                    s[5], live, path)

\* _generate_increment and _generate_decrement
IncrementCode(s, live, path) ==
  IF Len(s) = 2 THEN <<<<"inc", Cell(s[2])>>>>
  ELSE LoadValue(s[3], live, Append(path, 1))
         \o << <<"clc">>, <<"adc", Cell(s[2])>>, <<"sta", Cell(s[2])>> >>

DecrementCode(s, live, path) ==
  LET target == Cell(s[2])
      Subtract(amount) == << <<"lda", target>>, <<"sec">>, <<"sbc", amount>>, <<"sta", target>> >>
      slot == Temporary(LowestFree(live))
  IN IF Len(s) = 2 THEN <<<<"dec", target>>>>
     ELSE IF DirectOperand(<<"var", s[2]>>, s[3]) THEN Subtract(OperandCell(s[3]))
     ELSE LoadValue(s[3], live, Append(path, 1)) \o <<<<"sta", slot>>>> \o Subtract(slot)

IfCode(s, live, path, loops) ==
  LET else == IF Len(s) = 4 THEN "else" ELSE "end"
  IN BranchOn(s[2], <<path, "then">>, <<path, else>>, live, Append(path, 1))
       \o <<Label(path, "then")>> \o BlockCode(s[3], live, Append(path, 2), loops)
       \o (IF Len(s) = 4
           THEN << Jump("jmp", path, "end"), Label(path, "else") >>
                  \o BlockCode(s[4], live, Append(path, 3), loops)
           ELSE <<>>)
       \o <<Label(path, "end")>>

\* Fault: continue skips the step of a for loop.
WithoutStep(path, continue) == [break |-> <<path, "end">>, continue |-> <<path, "condition">>]

\* The targets of break and continue in the loop at path.
Targets(path, continue) == [break |-> <<path, "end">>, continue |-> <<path, continue>>]

WhileCode(s, live, path) ==
  <<Label(path, "condition")>>
    \o BranchOn(s[2], <<path, "body">>, <<path, "end">>, live, Append(path, 1))
    \o <<Label(path, "body")>>
    \o BlockCode(s[3], live, Append(path, 2), Targets(path, "condition"))
    \o << Jump("jmp", path, "condition"), Label(path, "end") >>

RepeatCode(s, live, path) ==
  <<Label(path, "body")>>
    \o BlockCode(s[2], live, Append(path, 2), Targets(path, "condition"))
    \o <<Label(path, "condition")>>
    \o BranchOn(s[3], <<path, "end">>, <<path, "body">>, live, Append(path, 1))
    \o <<Label(path, "end")>>

\* Fault: the control variable steps before it is compared with the limit.
StepAlways(s, path) ==
  << Label(path, "step"), <<IF s[5] = "to" THEN "inc" ELSE "dec", Cell(s[2])>>,
     Jump("jmp", path, "condition") >>

\* The loop stops at its limit, before the byte can wrap around.
StepCode(s, path) ==
  << Label(path, "step"), <<"lda", Cell(s[2])>>, <<"cmp", Limit(path)>>,
     Jump("beq", path, "end"), <<IF s[5] = "to" THEN "inc" ELSE "dec", Cell(s[2])>>,
     Jump("jmp", path, "condition") >>

ForCode(s, live, path) ==
  LoadValue(s[3], live, Append(path, 1)) \o <<<<"sta", Cell(s[2])>>>>
    \o LoadValue(s[4], live, Append(path, 2))
    \o << <<"sta", Limit(path)>>, Label(path, "condition"),
          <<"lda", Cell(s[2])>>, <<"cmp", Limit(path)>> >>
    \o (IF s[5] = "to" THEN <<Jump("bcc", path, "body"), Jump("beq", path, "body")>>
        ELSE <<Jump("bcs", path, "body")>>)
    \o << Jump("jmp", path, "end"), Label(path, "body") >>
    \o BlockCode(s[6], live, Append(path, 3), Targets(path, "step"))
    \o StepCode(s, path) \o <<Label(path, "end")>>

\* _emit_set_tile: both coordinates wait on the hardware stack.
SetTileCode(args, live, path) ==
  LoadValue(args[1], live, Append(path, 1)) \o <<<<"pha">>>>
    \o LoadValue(args[2], live, Append(path, 2)) \o <<<<"pha">>>>
    \o LoadValue(args[3], live, Append(path, 3))
    \o << <<"sta", Cell("background_value")>>, <<"pla">>, <<"sta", Cell("background_y")>>,
          <<"pla">>, <<"sta", Cell("background_x")>>, <<"routine", "setTile">> >>

\* _generate_statements, one statement.
StatementCode1(s, live, path, loops) ==
  CASE s[1] = "assign" -> LoadValue(s[3], live, Append(path, 1)) \o <<<<"sta", Cell(s[2])>>>>
    [] s[1] = "store" -> StoreElement(s, live, path)
    [] s[1] = "setField" -> StoreField(s, live, path)
    [] s[1] = "inc" -> IncrementCode(s, live, path)
    [] s[1] = "dec" -> DecrementCode(s, live, path)
    [] s[1] = "if" -> IfCode(s, live, path, loops)
    [] s[1] = "while" -> WhileCode(s, live, path)
    [] s[1] = "repeat" -> RepeatCode(s, live, path)
    [] s[1] = "for" -> ForCode(s, live, path)
    [] s[1] = "break" -> <<<<"jmp", loops.break>>>>
    [] s[1] = "continue" -> <<<<"jmp", loops.continue>>>>
    [] s[1] = "proc" ->
         StagedArguments(s[3], Parameters(s[2], s[3]), live, path) \o <<<<"jsr", s[2]>>>>
    [] s[1] = "run" -> <<<<"run">>>>
    [] s[1] = "setTile" -> SetTileCode(s[2], live, path)
    [] s[1] = "sprite" -> SpriteStatement(s[2], s[3], live, path)
    [] s[1] = "spriteZero" -> SpriteZeroStatement(s[2], live, path)

BlockCode(block, live, path, loops) ==
  FlattenSeq([k \in DOMAIN block |-> StatementCode1(block[k], live, Append(path, k), loops)])

NoLoop == [break |-> <<>>, continue |-> <<>>]

\* The slots below the base of a callable stay leased in its body.
BaseSlots(n) == 0 .. n - 1

\* _generate_procedures and _generate_functions
CallableCode(prog, replay, k) ==
  LET f == prog.order[k]
  IN <<<<"entry", f>>>>
       \o BlockCode(prog.bodies[f], BaseSlots(CallableBase(replay, f)), <<k>>, NoLoop)
       \o (IF f \in prog.functions THEN <<<<"lda", Cell(f)>>>> ELSE <<>>)
       \o <<<<"rts">>>>

\* The main block, then frames of the update callback: the loop that never
\* ends is cut after UpdateFrames turns.
UpdateFrames == 2

MainCode(prog) ==
  BlockCode(prog.main, {}, <<0>>, NoLoop)
    \o (IF prog.update = "" THEN <<>>
        ELSE [k \in 1 .. UpdateFrames |-> <<"jsr", prog.update>>])
    \o <<<<"halt">>>>

SpritesUsed(code) ==
  {op \in SpriteOperations : \E i \in DOMAIN code : code[i] = <<"jsr", op>>}

\* The routines that the code calls follow it, each once.
WithRoutines(code, operations) ==
  code \o FlattenSeq([k \in DOMAIN operations |-> SpriteRoutine(operations[k], <<-k>>)])

Linked(code) == WithRoutines(code, SetToSeq(SpritesUsed(code)))

ProgramCode(prog) ==
  LET replay == ReplayProgram(prog)
  IN Linked(MainCode(prog)
              \o FlattenSeq([k \in DOMAIN prog.order |-> CallableCode(prog, replay, k)]))

Branching == {"beq", "bne", "bcc", "bcs", "jmp"}

\* Assembly: labels take no bytes; a target becomes the place of its label.
Assembled(code) ==
  LET Place(mark, name) ==
        CHOOSE i \in DOMAIN code : code[i][1] = mark /\ code[i][2] = name
  IN [i \in DOMAIN code |->
        CASE code[i][1] \in Branching -> <<code[i][1], Place("label", code[i][2])>>
          [] code[i][1] = "jsr" -> <<"jsr", Place("entry", code[i][2])>>
          [] OTHER -> code[i]]
=============================================================================
