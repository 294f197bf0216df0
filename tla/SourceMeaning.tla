--------------------------- MODULE SourceMeaning ---------------------------
(***************************************************************************)
(* What a program means, independently of any code: an evaluator over an   *)
(* environment that maps cells to bytes.  It follows the documented order  *)
(* of evaluation: arguments from left to right and bound only when all of  *)
(* them are known; the right operand of arithmetic and comparisons first;  *)
(* Boolean operators from left to right with short circuit; the values of  *)
(* a sprite operation before its sprite.                                   *)
(***************************************************************************)
EXTENDS SourceProgram

\* RAM is cleared at reset; cells that were never written hold zero.
Content(env, cell) == IF cell \in DOMAIN env THEN env[cell] ELSE 0
Bind(env, cell, v) == (cell :> v) @@ env

RECURSIVE Eval(_, _, _), RunBlock(_, _, _)

\* The values of a sequence of expressions, evaluated from left to right.
OneMore(values, last) == [values |-> Append(values, last.value), env |-> last.env]

EvalAll(prog, exprs, env) ==
  FoldLeft(LAMBDA given, e : OneMore(given.values, Eval(prog, e, given.env)),
           [values |-> <<>>, env |-> env], exprs)

\* Enter a callable: arguments are bound together, then the body runs.
Enter(prog, f, given) ==
  RunBlock(prog, prog.bodies[f],
           [cell \in {<<f, i>> : i \in DOMAIN given.values} |-> given.values[cell[2]]]
             @@ given.env).env

Invoke(prog, f, args, env) == Enter(prog, f, EvalAll(prog, args, env))

InBox(x, y) == x \in 2 .. 5 /\ y \in 2 .. 5

TileCell(x, y) == <<"tiles", 32 * y + x>>

Calculate(op, l, r) == IF op = "add" THEN (l + r) % 256 ELSE (l - r) % 256

PadAnswer(query, now, before) ==
  CASE query = "down" -> now = 1
    [] query = "pressed" -> now = 1 /\ before = 0
    [] query = "released" -> now = 0 /\ before = 1

FieldCell(r, f, i) == <<r, f[1] * i + f[2]>>

Result(v, env) == [value |-> v, env |-> env]
At(cell, env) == Result(Content(env, cell), env)

Element(a, index) == At(<<a, index.value>>, index.env)
Field(r, f, index) == At(FieldCell(r, f, index.value), index.env)
Negated(r) == Result((-r.value) % 256, r.env)
Inverted(r) == Result(1 - r.value, r.env)

\* The left operand, after the right one.
Combine(op, left, right) ==
  Result(IF op \in Arithmetic THEN Calculate(op, left.value, right.value)
         ELSE Truth(Compare(op, left.value, right.value)),
         left.env)
AfterRight(prog, e, right) == Combine(e[1], Eval(prog, e[2], right.env), right)
AfterLeft(prog, e, left) ==
  IF left.value = Truth(e[1] = "or") THEN left ELSE Eval(prog, e[3], left.env)

PointAnswer(given) == Result(Truth(InBox(given.values[1], given.values[2])), given.env)
TileAnswer(given) == At(TileCell(given.values[1], given.values[2]), given.env)

Eval(prog, e, env) ==
  CASE e[1] = "imm" -> Result(e[2], env)
    [] e[1] = "var" -> At(<<e[2], 0>>, env)
    [] e[1] = "param" -> At(<<e[2], e[3]>>, env)
    [] e[1] = "pad" -> Result(Truth(PadAnswer(e[2], Content(env, <<"controller", 0>>),
                                              Content(env, <<"controller", 1>>))), env)
    [] e[1] = "elem" -> Element(e[2], Eval(prog, e[3], env))
    [] e[1] = "field" -> Field(e[2], e[3], Eval(prog, e[4], env))
    [] e[1] = "neg" -> Negated(Eval(prog, e[2], env))
    [] e[1] = "not" -> Inverted(Eval(prog, e[2], env))
    [] e[1] \in Arithmetic \cup Comparisons -> AfterRight(prog, e, Eval(prog, e[3], env))
    [] e[1] \in Booleans -> AfterLeft(prog, e, Eval(prog, e[2], env))
    [] e[1] = "call" -> At(<<e[2], 0>>, Invoke(prog, e[2], e[3], env))
    [] e[1] = "point" -> PointAnswer(EvalAll(prog, e[2], env))
    [] e[1] = "tile" -> TileAnswer(EvalAll(prog, e[2], env))

\* The individual-sprite API on the shadow: 255 is the hidden Y coordinate.
SetY(env, s, v) ==
  LET cached == Bind(env, <<"logical_y", s>>, v)
  IN IF Content(env, <<"oam", 4 * s>>) = 255 THEN cached ELSE Bind(cached, <<"oam", 4 * s>>, v)

SetX(env, s, v) == Bind(env, <<"oam", 4 * s + 3>>, v)

Attributes(env, s) == Content(env, <<"oam", 4 * s + 2>>)
SetAttributes(env, s, v) == Bind(env, <<"oam", 4 * s + 2>>, v)

\* Bits of the attribute byte that are equal to mask, replaced or kept.
WithBit(byte, mask, on) ==
  byte - mask * ((byte \div mask) % 2) + (IF on = 0 THEN 0 ELSE mask)

SpriteBit(op) ==
  CASE op = "set_flip_vertical" -> 128
    [] op = "set_flip_horizontal" -> 64
    [] op = "set_behind_background" -> 32

ApplySprite(op, s, v, env) ==
  CASE op = "set_x" -> SetX(env, s, v[1])
    [] op = "set_y" -> SetY(env, s, v[1])
    [] op = "set_position" -> SetY(SetX(env, s, v[1]), s, v[2])
    [] op = "set_tile" -> Bind(env, <<"oam", 4 * s + 1>>, v[1])
    [] op = "set_attributes" -> SetAttributes(env, s, v[1])
    [] op = "set_palette" ->
         IF v[1] > 3 THEN env
         ELSE SetAttributes(env, s, 4 * (Attributes(env, s) \div 4) + v[1])
    [] op = "hide" ->
         IF Content(env, <<"oam", 4 * s>>) = 255 THEN env
         ELSE Bind(Bind(env, <<"logical_y", s>>, Content(env, <<"oam", 4 * s>>)),
                   <<"oam", 4 * s>>, 255)
    [] op = "show" -> Bind(env, <<"oam", 4 * s>>, Content(env, <<"logical_y", s>>))
    [] OTHER -> SetAttributes(env, s, WithBit(Attributes(env, s), SpriteBit(op), v[1]))

\* A block and a statement yield the environment and how control leaves.
Through(env) == [env |-> env, exit |-> "next"]

\* A while loop runs its body and is met again; a repeat loop likewise.
AgainUnless(prog, s, turn) ==
  IF turn.exit = "break" THEN Through(turn.env) ELSE RunBlock(prog, <<s>>, turn.env)

AfterTest(prog, s, test) ==
  IF test.value = 0 THEN Through(test.env)
  ELSE AgainUnless(prog, s, RunBlock(prog, s[3], test.env))

Until(prog, s, test) ==
  IF test.value = 1 THEN Through(test.env) ELSE RunBlock(prog, <<s>>, test.env)

AfterBody(prog, s, turn) ==
  IF turn.exit = "break" THEN Through(turn.env) ELSE Until(prog, s, Eval(prog, s[3], turn.env))

\* One turn for each value up to the limit, none beyond it: what is left of
\* the loop is a loop from the next value.
AfterTurn(prog, s, v, limit, turn) ==
  LET next == IF s[5] = "to" THEN v + 1 ELSE v - 1
  IN IF turn.exit = "break" \/ v = limit THEN Through(turn.env)
     ELSE RunBlock(prog, <<<<"for", s[2], <<"imm", next>>, <<"imm", limit>>, s[5], s[6]>>>>,
                   turn.env)

FromTo(prog, s, v, limit) ==
  IF IF s[5] = "to" THEN v > limit.value ELSE v < limit.value THEN Through(limit.env)
  ELSE AfterTurn(prog, s, v, limit.value, RunBlock(prog, s[6], Bind(limit.env, <<s[2], 0>>, v)))

AfterInitial(prog, s, initial) ==
  FromTo(prog, s, initial.value,
         Eval(prog, s[4], Bind(initial.env, <<s[2], 0>>, initial.value)))

\* An assignment to an indexed cell fixes the cell before the value.
Stored(s, given) ==
  Through(Bind(given.env,
               IF s[1] = "store" THEN <<s[2], given.values[1]>>
               ELSE FieldCell(s[2], s[3], given.values[1]),
               given.values[2]))

Stepped(s, amount) ==
  LET cell == <<s[2], 0>>
  IN Through(Bind(amount.env, cell,
                  Calculate(IF s[1] = "inc" THEN "add" ELSE "sub",
                            Content(amount.env, cell), amount.value)))

OnSprite(op, values, sprite) == Through(ApplySprite(op, sprite.value, values, sprite.env))
ForSprite(prog, s, given) == OnSprite(s[2], given.values, Eval(prog, s[3][1], given.env))

TileSet(given) ==
  Through(Bind(given.env, TileCell(given.values[1], given.values[2]), given.values[3]))

Branched(prog, s, test) ==
  IF test.value = 1 THEN RunBlock(prog, s[3], test.env)
  ELSE IF Len(s) = 4 THEN RunBlock(prog, s[4], test.env) ELSE Through(test.env)

Updated(x, r) == Through(Bind(r.env, <<x, 0>>, r.value))

Run(prog, s, env) ==
  CASE s[1] = "assign" -> Updated(s[2], Eval(prog, s[3], env))
    [] s[1] \in {"store", "setField"} -> Stored(s, EvalAll(prog, StatementValues(s), env))
    [] s[1] \in {"inc", "dec"} ->
         Stepped(s, IF Len(s) = 2 THEN Result(1, env) ELSE Eval(prog, s[3], env))
    [] s[1] = "if" -> Branched(prog, s, Eval(prog, s[2], env))
    [] s[1] = "while" -> AfterTest(prog, s, Eval(prog, s[2], env))
    [] s[1] = "repeat" -> AfterBody(prog, s, RunBlock(prog, s[2], env))
    [] s[1] = "for" -> AfterInitial(prog, s, Eval(prog, s[3], env))
    [] s[1] \in {"break", "continue"} -> [env |-> env, exit |-> s[1]]
    [] s[1] = "proc" -> Through(Invoke(prog, s[2], s[3], env))
    [] s[1] = "sprite" -> ForSprite(prog, s, EvalAll(prog, Tail(s[3]), env))
    [] s[1] = "setTile" -> TileSet(EvalAll(prog, s[2], env))
    [] OTHER -> Through(env)

Continue(prog, rest, first) ==
  IF first.exit = "next" THEN RunBlock(prog, rest, first.env) ELSE first

RunBlock(prog, block, env) ==
  IF block = <<>> THEN Through(env)
  ELSE Continue(prog, Tail(block), Run(prog, Head(block), env))
=============================================================================
