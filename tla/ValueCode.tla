----------------------------- MODULE ValueCode -----------------------------
(***************************************************************************)
(* The code the ca65 backend emits for values.  An instruction is a tuple  *)
(* of its mnemonic and operand; memory is addressed by <<label, offset>>,  *)
(* an immediate operand is <<"imm", v>>.  A label is <<path, role>>, where *)
(* path leads from the root of the program to the node that makes it.      *)
(* "live" is the set of temporary slots leased while the code is emitted.  *)
(***************************************************************************)
EXTENDS TemporaryPool

Cell(label) == <<label, 0>>
Temporary(slot) == <<"temporary", slot>>
Immediate(v) == <<"imm", v>>

Label(path, role) == <<"label", <<path, role>>>>
Jump(op, path, role) == <<op, <<path, role>>>>

RECURSIVE LoadValue(_, _, _), BranchOn(_, _, _, _, _)

\* runtime_collision_point_x and the other one-byte inputs of the helpers.
PointInputs == <<Cell("point_x"), Cell("point_y")>>

\* Fault: every argument is stored where the callee expects it at once.
DirectArguments(args, targets, live, path) ==
  FlattenSeq([i \in DOMAIN args |->
    LoadValue(args[i], live, Append(path, i)) \o <<<<"sta", targets[i]>>>>])

\* _generate_call_arguments and _load_collision_arguments.
StagedArguments(args, targets, live, path) ==
  LET Slot(i) == Temporary(LowestFree(LiveAtArgument(args, i, live)))
  IN FlattenSeq([i \in DOMAIN args |->
         LoadValue(args[i], LiveAtArgument(args, i, live), Append(path, i))
           \o <<<<"sta", IF HeldAcrossCall(args, i) THEN Slot(i) ELSE targets[i]>>>>])
       \o FlattenSeq([i \in DOMAIN args |->
            IF HeldAcrossCall(args, i)
            THEN <<<<"lda", Slot(i)>>, <<"sta", targets[i]>>>> ELSE <<>>])

\* Parameters are the cells <<callee, position>>; its result is <<callee, 0>>.
Parameters(callee, args) == [i \in DOMAIN args |-> <<callee, i>>]

\* _load_function_call
LoadCall(e, live, path) ==
  StagedArguments(e[3], Parameters(e[2], e[3]), live, path) \o <<<<"jsr", e[2]>>>>

\* _direct_rhs_operand
OperandCell(right) ==
  CASE right[1] = "imm" -> right
    [] right[1] = "var" -> Cell(right[2])
    [] right[1] = "param" -> <<right[2], right[3]>>
    [] right[1] = "elem" -> <<right[2], right[3][2]>>
    [] right[1] = "field" -> <<right[2], right[4][2] * right[3][1] + right[3][2]>>

\* The left operand in A and the right one in the operand of the last
\* instruction: _load_binary_expression and _comparison_setup.
WithRightOperand(e, live, path, consume(_)) ==
  IF DirectOperand(e[2], e[3])
  THEN LoadValue(e[2], live, Append(path, 1)) \o consume(OperandCell(e[3]))
  ELSE LET slot == Temporary(LowestFree(live))
       IN LoadValue(e[3], live, Append(path, 2))
            \o <<<<"sta", slot>>>>
            \o LoadValue(e[2], Leased(live), Append(path, 1))
            \o consume(slot)

LoadBinary(e, live, path) ==
  WithRightOperand(e, live, path,
    LAMBDA operand : IF e[1] = "add" THEN <<<<"clc">>, <<"adc", operand>>>>
                     ELSE <<<<"sec">>, <<"sbc", operand>>>>)

ComparisonSetup(e, live, path) ==
  WithRightOperand(e, live, path, LAMBDA operand : <<<<"cmp", operand>>>>)

\* The branches taken when a comparison holds; a greater-than leaves on Z.
ComparisonBranches(op, true, false) ==
  CASE op = "eq" -> <<<<"beq", true>>>>
    [] op = "ne" -> <<<<"bne", true>>>>
    [] op = "lt" -> <<<<"bcc", true>>>>
    [] op = "gt" -> <<<<"beq", false>>, <<"bcs", true>>>>
    [] op = "le" -> <<<<"bcc", true>>, <<"beq", true>>>>
    [] op = "ge" -> <<<<"bcs", true>>>>

\* The common tail of every Boolean that becomes a byte.
Materialized(path) ==
  << Label(path, "false"), <<"lda", Immediate(0)>>, Jump("jmp", path, "end"),
     Label(path, "true"), <<"lda", Immediate(1)>>, Label(path, "end") >>

LoadComparison(e, live, path) ==
  ComparisonSetup(e, live, path)
    \o ComparisonBranches(e[1], <<path, "true">>, <<path, "false">>)
    \o Materialized(path)

\* _zero_flag_is_valid: the last instruction of the load sets Z.
ZeroFlagValid(e) == e[1] \notin Arithmetic \cup {"neg", "tile"}

TestZero(e) == IF ZeroFlagValid(e) THEN <<>> ELSE <<<<"cmp", Immediate(0)>>>>

LoadNot(e, live, path) ==
  LoadValue(e[2], live, Append(path, 1)) \o TestZero(e[2])
    \o <<Jump("beq", path, "true")>> \o Materialized(path)

\* _load_boolean_binary_expression: short circuit from left to right.
LoadBoolean(e, live, path) ==
  LoadValue(e[2], live, Append(path, 1)) \o TestZero(e[2])
    \o (IF e[1] = "and"
        THEN <<Jump("bne", path, "right"), Jump("jmp", path, "false")>>
        ELSE <<Jump("beq", path, "right"), Jump("jmp", path, "true")>>)
    \o <<Label(path, "right")>>
    \o LoadValue(e[3], live, Append(path, 2)) \o TestZero(e[3])
    \o <<Jump("bne", path, "true")>> \o Materialized(path)

\* Current and previous button bits of one controller, one button's mask.
PadCurrent == <<"controller", 0>>
PadPrevious == <<"controller", 1>>
Button == <<"and", Immediate(1)>>

\* The tests of _load_controller_query and of _emit_controller_branch.
PadTests(query, true, false) ==
  CASE query = "down" -> <<<<"lda", PadCurrent>>, Button, <<"bne", true>>>>
    [] query = "pressed" ->
         << <<"lda", PadCurrent>>, Button, <<"beq", false>>,
            <<"lda", PadPrevious>>, Button, <<"beq", true>> >>
    [] query = "released" ->
         << <<"lda", PadCurrent>>, Button, <<"bne", false>>,
            <<"lda", PadPrevious>>, Button, <<"bne", true>> >>

LoadPad(e, path) ==
  PadTests(e[2], <<path, "true">>, <<path, "false">>) \o Materialized(path)

\* _load_point_in_rect: one box; the routine is that of CollisionQueries.
LoadPoint(e, live, path) ==
  StagedArguments(e[2], PointInputs, live, path) \o <<<<"routine", "point">>>>

\* _load_get_tile: the first coordinate waits on the hardware stack.
LoadTile(e, live, path) ==
  LoadValue(e[2][1], live, Append(path, 1)) \o <<<<"pha">>>>
    \o LoadValue(e[2][2], live, Append(path, 2))
    \o << <<"sta", Cell("background_y")>>, <<"pla">>,
          <<"sta", Cell("background_x")>>, <<"routine", "getTile">> >>

\* _scale_record_index: nothing, shifts, or a loop of additions.
ScaleIndex(size, path) ==
  CASE size = 1 -> <<>>
    [] size = 2 -> <<<<"asl">>>>
    [] size = 4 -> <<<<"asl">>, <<"asl">>>>
    [] OTHER ->
         << <<"tax">>, <<"lda", Immediate(0)>>, <<"cpx0">>,
            Jump("beq", path, "scaled"), Label(path, "scale"),
            <<"clc">>, <<"adc", Immediate(size)>>, <<"dex">>,
            Jump("bne", path, "scale"), Label(path, "scaled") >>

\* _add_record_field_offset
AddOffset(offset) ==
  IF offset = 0 THEN <<>> ELSE <<<<"clc">>, <<"adc", Immediate(offset)>>>>

\* _load_array_element and _load_record_field with a computed index.
LoadElement(e, live, path) ==
  LoadValue(e[3], live, Append(path, 1)) \o <<<<"tax">>, <<"ldax", e[2], 0>>>>

LoadField(e, live, path) ==
  LoadValue(e[4], live, Append(path, 1))
    \o ScaleIndex(e[3][1], path) \o AddOffset(e[3][2])
    \o <<<<"tax">>, <<"ldax", e[2], 0>>>>

\* _load_value
LoadValue(e, live, path) ==
  CASE e[1] \in {"imm", "var", "param"} -> <<<<"lda", OperandCell(e)>>>>
    [] e[1] = "elem" -> IF e[3][1] = "imm" THEN <<<<"lda", OperandCell(e)>>>>
                        ELSE LoadElement(e, live, path)
    [] e[1] = "field" -> IF e[4][1] = "imm" THEN <<<<"lda", OperandCell(e)>>>>
                         ELSE LoadField(e, live, path)
    [] e[1] = "neg" -> LoadValue(e[2], live, Append(path, 1))
                         \o <<<<"eor">>, <<"clc">>, <<"adc", Immediate(1)>>>>
    [] e[1] \in Arithmetic -> LoadBinary(e, live, path)
    [] e[1] \in Comparisons -> LoadComparison(e, live, path)
    [] e[1] \in Booleans -> LoadBoolean(e, live, path)
    [] e[1] = "not" -> LoadNot(e, live, path)
    [] e[1] = "call" -> LoadCall(e, live, path)
    [] e[1] = "pad" -> LoadPad(e, path)
    [] e[1] = "point" -> LoadPoint(e, live, path)
    [] e[1] = "tile" -> LoadTile(e, live, path)

\* _emit_comparison_branch: the true label follows the code.
BranchOnComparison(e, true, false, live, path) ==
  ComparisonSetup(e, live, path)
    \o ComparisonBranches(e[1], true, <<path, "false">>)
    \o << Label(path, "false"), <<"jmp", false>> >>

\* _emit_boolean_branch
BranchOn(e, true, false, live, path) ==
  CASE e[1] \in Comparisons -> BranchOnComparison(e, true, false, live, path)
    [] e[1] = "not" ->
         BranchOn(e[2], <<path, "operand">>, true, live, Append(path, 1))
           \o << Label(path, "operand"), <<"jmp", false>> >>
    [] e[1] = "and" ->
         BranchOn(e[2], <<path, "right">>, false, live, Append(path, 1))
           \o <<Label(path, "right")>>
           \o BranchOn(e[3], true, false, live, Append(path, 2))
    [] e[1] = "or" ->
         BranchOn(e[2], <<path, "short">>, <<path, "right">>, live, Append(path, 1))
           \o << Label(path, "short"), <<"jmp", true>>, Label(path, "right") >>
           \o BranchOn(e[3], true, false, live, Append(path, 2))
    [] e[1] = "pad" ->
         PadTests(e[2], true, <<path, "false">>)
           \o << Label(path, "false"), <<"jmp", false>> >>
    [] OTHER -> LoadValue(e, live, path) \o TestZero(e)
                  \o << <<"bne", true>>, <<"jmp", false>> >>
=============================================================================
