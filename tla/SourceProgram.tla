--------------------------- MODULE SourceProgram ---------------------------
(***************************************************************************)
(* Resolved programs as data.  An expression or a statement is a tuple     *)
(* whose first element names its node class.  A program is a record:       *)
(* main, the main block; order, its callables in declaration order;        *)
(* bodies, the block of each; functions, those that return a value; update *)
(* and vblank, the registered callbacks ("" for none).                     *)
(*                                                                         *)
(*   <<"imm", v>>              ImmediateValue                              *)
(*   <<"var", x>>              VariableValue                               *)
(*   <<"param", f, i>>         VariableValue of parameter i of callable f  *)
(*   <<"elem", a, i>>          ResolvedArrayElement                        *)
(*   <<"field", r, f, i>>      ResolvedRecordField of record i, offset f   *)
(*   <<"neg" | "not", e>>      unary nodes                                 *)
(*   <<op, l, r>>              arithmetic, comparison and Boolean nodes    *)
(*   <<"call", f, args>>       ResolvedFunctionCall                        *)
(*   <<"pad", b>>              a controller query                          *)
(*   <<"point", args>>         nes.point_in_rect on a fixed box            *)
(*   <<"tile", args>>          nes.get_tile                                *)
(*                                                                         *)
(*   <<"assign", x, e>>        a variable or the result of a function      *)
(*   <<"store", a, i, e>>      ResolvedArrayElementAssignment              *)
(*   <<"setField", r, f, i, e>>  ResolvedRecordFieldAssignment             *)
(*   <<"inc" | "dec", x>> and <<"inc" | "dec", x, amount>>                 *)
(*   <<"if", c, then>> and <<"if", c, then, else>>                         *)
(*   <<"while", c, body>>, <<"repeat", body, c>>                           *)
(*   <<"for", x, initial, final, direction, body>>                         *)
(*   <<"break">>, <<"continue">>, <<"run">>, <<"proc", p, args>>           *)
(*   <<"setTile", args>>, <<"spriteZero", args>>, <<"sprite", op, args>>   *)
(*                                                                         *)
(* f of a field is <<size of the record, offset of the field>>.            *)
(***************************************************************************)
EXTENDS Integers, SequencesExt

Arithmetic == {"add", "sub"}
Comparisons == {"eq", "ne", "lt", "gt", "le", "ge"}
Booleans == {"and", "or"}

\* The value nodes directly below a value, in source order.
Operands(e) ==
  CASE e[1] \in Arithmetic \cup Comparisons \cup Booleans -> <<e[2], e[3]>>
    [] e[1] \in {"neg", "not"} -> <<e[2]>>
    [] e[1] \in {"point", "tile"} -> e[2]
    [] e[1] = "elem" -> <<e[3]>>
    [] e[1] = "field" -> <<e[4]>>
    [] e[1] = "call" -> e[3]
    [] OTHER -> <<>>

RECURSIVE ContainsCall(_)
\* value_contains_function_call
ContainsCall(e) ==
  e[1] = "call" \/ \E i \in DOMAIN Operands(e) : ContainsCall(Operands(e)[i])

RECURSIVE SideEffectFree(_)
\* is_side_effect_free_value: no builtin and no function is called.
SideEffectFree(e) ==
  /\ e[1] \notin {"call", "pad", "point", "tile"}
  /\ \A i \in DOMAIN Operands(e) : SideEffectFree(Operands(e)[i])

\* Fault: whatever sits at a fixed address may be consumed after the left side.
DirectMemory(left, right) ==
  \/ right[1] \in {"imm", "var", "param"}
  \/ right[1] = "elem" /\ right[3][1] = "imm"
  \/ right[1] = "field" /\ right[4][1] = "imm"

\* can_use_direct_rhs_operand
DirectOperand(left, right) ==
  \/ right[1] = "imm"
  \/ SideEffectFree(left) /\ DirectMemory(left, right)

\* An earlier argument waits in a slot while a later one may call a function.
HeldAcrossCall(args, i) ==
  \E j \in i + 1 .. Len(args) : ContainsCall(args[j])

\* The arithmetic of one byte; Booleans are 0 and 1.
Truth(condition) == IF condition THEN 1 ELSE 0

Compare(op, l, r) ==
  CASE op = "eq" -> l = r
    [] op = "ne" -> l # r
    [] op = "lt" -> l < r
    [] op = "gt" -> l > r
    [] op = "le" -> l <= r
    [] op = "ge" -> l >= r

\* The statements directly below a statement, and its values.
Branches(s) ==
  CASE s[1] = "if" -> IF Len(s) = 4 THEN <<s[3], s[4]>> ELSE <<s[3]>>
    [] s[1] = "while" -> <<s[3]>>
    [] s[1] = "repeat" -> <<s[2]>>
    [] s[1] = "for" -> <<s[6]>>
    [] OTHER -> <<>>

StatementValues(s) ==
  CASE s[1] \in {"assign", "inc", "dec", "repeat"} ->
         IF Len(s) = 3 THEN <<s[3]>> ELSE <<>>
    [] s[1] = "store" -> <<s[3], s[4]>>
    [] s[1] = "setField" -> <<s[4], s[5]>>
    [] s[1] \in {"if", "while"} -> <<s[2]>>
    [] s[1] = "for" -> <<s[3], s[4]>>
    [] s[1] \in {"proc", "sprite", "spriteZero", "setTile"} -> s[Len(s)]
    [] OTHER -> <<>>

RECURSIVE ValueCalls(_), StatementCalls(_)
\* _callable_calls: the names called, in the order of _walk_ast_nodes.
ValueCalls(e) ==
  (IF e[1] = "call" THEN <<e[2]>> ELSE <<>>)
    \o FlattenSeq([i \in DOMAIN Operands(e) |-> ValueCalls(Operands(e)[i])])

StatementCalls(block) ==
  FlattenSeq([k \in DOMAIN block |->
    LET s == block[k] IN
    (IF s[1] = "proc" THEN <<s[2]>> ELSE <<>>)
      \o FlattenSeq([i \in DOMAIN StatementValues(s) |-> ValueCalls(StatementValues(s)[i])])
      \o FlattenSeq([i \in DOMAIN Branches(s) |-> StatementCalls(Branches(s)[i])])])
=============================================================================
