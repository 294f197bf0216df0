------------------------- MODULE CompiledProgramMC -------------------------
(***************************************************************************)
(* Families of small programs for CompiledProgram.  A program is named by  *)
(* its family and its parameters.                                          *)
(***************************************************************************)
EXTENDS CompiledProgram

I(v) == <<"imm", v>>
V(x) == <<"var", x>>
P(f, i) == <<"param", f, i>>
Let(x, e) == <<"assign", x, e>>
CallOf(f, args) == <<"call", f, args>>
Empty == <<>>

Base ==
  [order |-> <<"H", "F", "G", "K", "N">>,
   functions |-> {"F", "G", "H", "K"},
   update |-> "", vblank |-> "",
   bodies |->
     ("F" :> << <<"inc", "X">>, Let("F", V("X")) >>)
     @@ ("G" :> << Let("G", <<"sub", P("G", 1), <<"sub", P("G", 2), V("Y")>>>>) >>)
     @@ ("H" :> << Let("H", CallOf("G", <<V("Z"), CallOf("F", <<>>)>>)) >>)
     @@ ("K" :> << <<"inc", "Y">>, Let("K", <<"lt", V("Y"), I(5)>>) >>)
     @@ ("N" :> << Let("M", P("N", 1)) >>)]

F == CallOf("F", <<>>)
H == CallOf("H", <<>>)
K == CallOf("K", <<>>)
G(a, b) == CallOf("G", <<a, b>>)

\* X, Y, Z, an array, and records of two, three and four bytes.
Scalars ==
  << Let("X", I(2)), Let("Y", I(3)), Let("Z", I(1)), Let("W", I(250)), Let("B", I(1)) >>

Aggregates ==
  << <<"store", "A", I(1), I(17)>>, <<"store", "A", I(3), I(200)>>,
     <<"setField", "R", <<3, 1>>, I(1), I(40)>>, <<"setField", "S", <<2, 1>>, V("Z"), I(41)>>,
     <<"setField", "Q", <<4, 2>>, F, I(42)>>, <<"setTile", <<I(3), V("Z"), I(9)>>>> >>

Main(statements) == Scalars \o Aggregates \o <<<<"run">>>> \o statements
Short(statements) == Scalars \o <<<<"run">>>> \o statements
Simple(main) == Base @@ [main |-> main]

(***************************************************************************)
(* Values: every pair of expressions as operands, arguments and indexes.   *)
(***************************************************************************)
Values ==
  << I(7), V("X"), <<"elem", "A", I(1)>>, <<"elem", "A", F>>, <<"field", "R", <<3, 1>>, V("Z")>>,
     <<"field", "Q", <<4, 2>>, F>>, <<"neg", V("X")>>,
     <<"sub", V("Y"), <<"sub", V("W"), V("X")>>>>, <<"add", F, V("X")>>, F,
     G(G(V("W"), F), H), <<"neg", <<"sub", F, H>>>>,
     <<"tile", <<I(3), <<"sub", F, I(2)>>>>>> >>

PairMain(i, j) ==
  LET l == Values[i] r == Values[j] IN
  Main(<< Let("D", <<"sub", l, r>>), Let("E", G(l, r)),
          <<"proc", "N", <<l>>>>, <<"store", "A", F, r>>, <<"setField", "R", <<3, 2>>, F, l>>,
          <<"inc", "M", r>>, <<"dec", "M", l>>, <<"setTile", <<F, V("Z"), <<"add", l, r>>>>>>,
          <<"if", <<"lt", l, r>>, <<Let("C", I(1))>>, <<Let("C", I(2))>>>> >>)

(***************************************************************************)
(* Conditions: every pair under both operators, branched on and stored.    *)
(***************************************************************************)
Conditions ==
  << <<"eq", V("X"), V("Y")>>, <<"lt", F, V("Y")>>, <<"not", K>>,
     <<"and", K, <<"ge", V("Y"), F>>>>, <<"or", <<"gt", V("X"), V("Y")>>, K>>,
     <<"pad", "down">>, <<"pad", "pressed">>, <<"pad", "released">>, V("B"),
     <<"point", <<V("X"), F>>>>, <<"not", <<"le", V("X"), <<"sub", V("Y"), F>>>>>>,
     <<"not", <<"or", <<"pad", "down">>, K>>>>,
     <<"ne", <<"tile", <<I(3), V("Z")>>>>, I(0)>> >>

Test(c) == << Let("D", c), <<"if", c, <<Let("C", I(1))>>>>,
              <<"if", c, <<Let("E", I(1))>>, <<Let("E", I(2))>>>> >>

(***************************************************************************)
(* Loops.                                                                  *)
(***************************************************************************)
Edges == {0, 1, 3, 254, 255}
LoopEnds == Edges \cup {252}
MaxTurns == 4
Turns(a, b, direction) == IF direction = "to" THEN b - a + 1 ELSE a - b + 1
ForLoop(x, a, b, direction, body) == <<"for", x, a, b, direction, body>>

ForMain(a, b, direction, k) ==
  Short(<< Let("D", I(0)), Let("E", I(0)), Let("L", I(b)),
          ForLoop("C", I(a), <<"add", V("L"), I(0)>>, direction,
              << <<"inc", "D">>,
                 <<"if", <<"eq", V("C"), I(k)>>,
                   <<IF k % 2 = 0 THEN <<"continue">> ELSE <<"break">>>>>>,
                 <<"inc", "E">> >>) >>)

Leave(x, v, how) == <<"if", <<"eq", V(x), I(v)>>, <<how>>>>

\* Nested loops, loops in callables, conditions with side effects.
LoopMains ==
  << << <<"while", <<"lt", F, I(9)>>, << <<"inc", "W">>, Leave("X", 6, <<"continue">>), <<"inc", "Z">> >>>> >>,
     << <<"repeat", << <<"inc", "W">>, Leave("X", 5, <<"continue">>), <<"inc", "Z">> >>, <<"gt", F, I(7)>>>> >>,
     << <<"repeat", << <<"inc", "W">>, Leave("W", 252, <<"break">>) >>, <<"not", V("B")>>>> >>,
     << <<"while", V("B"), << <<"inc", "Y">>, Leave("Y", 6, <<"break">>) >>>> >>,
     << ForLoop("C", I(1), I(3), "to",
          << ForLoop("D", V("C"), I(3), "to", << <<"inc", "W">>, Leave("D", 2, <<"continue">>), <<"inc", "Z">> >>),
             ForLoop("D", I(3), V("C"), "downto", << Leave("D", 2, <<"break">>), <<"inc", "Y">> >>) >>) >>,
     << ForLoop("C", F, G(V("C"), F), "downto", << <<"inc", "W">> >>) >>,
     << ForLoop("C", F, <<"sub", I(20), <<"add", V("C"), F>>>>, "to",
          << <<"while", <<"lt", V("Z"), V("C")>>, << <<"inc", "Z">> >>>> >>) >> >>

(***************************************************************************)
(* Calls: three functions that call each other, in two declaration orders. *)
(***************************************************************************)
Names == <<"F1", "F2", "F3">>
Shape(i, shape) ==
  LET f == Names[i]
      next(e) == CallOf(Names[(i % 3) + 1], <<e>>)
      held == <<"add", V("X"), P(f, 1)>>
  IN CASE shape = 1 -> << Let("X", P(f, 1)), Let(f, P(f, 1)), Let(f, <<"add", V(f), I(1)>>) >>
       [] shape = 2 -> << Let(f, <<"sub", next(P(f, 1)), held>>) >>
       [] shape = 3 -> << Let(f, G(held, next(P(f, 1)))) >>
       [] shape = 4 -> << Let(f, <<"sub", next(I(1)), <<"sub", next(V("X")), held>>>>) >>

CallProgram(a, b, c, reversed) ==
  [order |-> LET all == Names \o <<"G">> IN IF reversed = 1 THEN Reverse(all) ELSE all,
   functions |-> {"F1", "F2", "F3", "G"}, update |-> "", vblank |-> "",
   bodies |-> ("F1" :> Shape(1, a)) @@ ("F2" :> Shape(2, b)) @@ ("F3" :> Shape(3, c))
              @@ ("G" :> << Let("G", <<"sub", P("G", 1), P("G", 2)>>) >>),
   main |-> << Let("X", I(5)), Let("Y", I(9)), <<"run">>,
               Let("D", <<"sub", CallOf("F1", <<I(1)>>),
                          <<"sub", CallOf("F2", <<V("Y")>>), CallOf("F3", <<V("X")>>)>>>>) >>]

(***************************************************************************)
(* Assignments: every sequence of three statements over a few names.       *)
(***************************************************************************)
SetsP == CallOf("SetsP", <<>>)   \* assigns P, returns a Boolean
PutsP == CallOf("PutsP", <<>>)   \* assigns P, returns a byte
NeedsP == CallOf("NeedsP", <<>>) \* reads P on one path
Statements ==
  << Let("P", I(1)), Let("Q", V("P")), <<"inc", "P">>,
     <<"if", V("T"), <<Let("P", I(1))>>>>,
     <<"if", V("T"), <<Let("P", I(1))>>, <<Let("P", I(2)), Let("Q", I(2))>>>>,
     <<"if", <<"and", V("T"), SetsP>>, <<Let("P", V("P"))>>>>,
     <<"while", SetsP, <<Let("Q", I(1))>>>>,
     <<"repeat", <<Let("Q", I(1))>>, <<"or", <<"not", SetsP>>, V("T")>>>>,
     ForLoop("P", I(2), V("P"), "to", <<Let("Q", V("P"))>>),
     ForLoop("C", I(2), I(1), "to", <<Let("P", I(3))>>),
     Let("Q", <<"sub", V("P"), PutsP>>), Let("Q", <<"add", PutsP, V("P")>>),
     <<"proc", "Copy", <<PutsP>>>>, <<"store", "A", PutsP, V("P")>>,
     Let("Q", NeedsP), Let("Q", <<"elem", "A", I(0)>>) >>

AssignProgram(i, j, k, t) ==
  [order |-> <<"Copy", "NeedsP", "PutsP", "SetsP", "Read">>,
   functions |-> {"NeedsP", "PutsP", "SetsP"},
   update |-> IF t = 0 THEN "Read" ELSE "", vblank |-> IF t = 1 THEN "Read" ELSE "",
   bodies |->
     ("SetsP" :> << Let("P", I(6)), Let("SetsP", I(0)) >>)
     @@ ("PutsP" :> << Let("P", I(6)), Let("PutsP", I(0)) >>)
     @@ ("NeedsP" :> << <<"if", V("T"), <<Let("NeedsP", V("P"))>>, <<Let("NeedsP", I(0))>>>> >>)
     @@ ("Copy" :> << Let("Q", P("Copy", 1)) >>)
     @@ ("Read" :> << Let("O", V("Q")) >>),
   main |-> << Let("T", I(t)), Statements[i], Statements[j], <<"run">>, Statements[k] >>]

(***************************************************************************)
(* Callbacks: the VBlank callback interrupts expressions and stores.       *)
(***************************************************************************)
CallbackBodies ==
  << << <<"inc", "O">> >>, << Let("O", <<"elem", "U", V("O")>>) >>,
     << <<"store", "U", V("O"), <<"neg", V("O")>>>> >>,
     << <<"setField", "J", <<3, 1>>, V("O"), V("O")>> >>,
     << <<"if", <<"or", <<"not", V("L")>>, V("L")>>, << <<"dec", "O">> >>>> >>,
     << <<"proc", "Tick", <<>>>>, Let("L", <<"and", V("L"), V("L")>>) >>,
     << <<"inc", "O", V("O")>> >>, << <<"dec", "O", <<"neg", V("O")>>>> >>,
     << Let("O", <<"sub", I(3), <<"neg", V("O")>>>>) >>,
     << Let("L", <<"lt", V("O"), <<"neg", V("O")>>>>) >>,
     << Let("O", G(V("O"), I(1))) >>, << <<"proc", "N", <<V("O")>>>> >>,
     << ForLoop("O", I(0), I(1), "to", <<>>) >>, << <<"proc", "Twice", <<>>>> >> >>

CallbackMains ==
  << << Let("D", <<"sub", H, <<"sub", V("X"), F>>>>), <<"store", "A", F, G(V("W"), F)>> >>,
     << <<"setField", "R", <<3, 1>>, V("Z"), <<"neg", V("W")>>>>, <<"dec", "W", <<"neg", V("X")>>>>,
        ForLoop("C", I(254), I(255), "to", << <<"inc", "D", V("C")>> >>) >> >>

CallbackProgram(i, j) ==
  [Base EXCEPT
     !.order = @ \o <<"Tick", "Twice", "Wait">>,
     !.vblank = "Wait",
     !.bodies = ("Tick" :> << <<"inc", "O">> >>)
                @@ ("Twice" :> << <<"proc", "Tick", <<>>>>, <<"inc", "M", I(2)>> >>)
                @@ ("Wait" :> CallbackBodies[i]) @@ @]
  @@ [main |-> << Let("O", I(1)), Let("L", I(1)), Let("M", I(0)), Let("D", I(0)),
                  <<"store", "U", I(1), I(4)>>, <<"setField", "J", <<3, 1>>, I(0), I(4)>> >>
                 \o Main(CallbackMains[j])]

(***************************************************************************)
(* Sprites.                                                                *)
(***************************************************************************)
SpriteCalls(s) ==
  << <<"sprite", "set_position", <<s, V("X"), F>>>>, <<"sprite", "set_x", <<s, <<"sub", V("W"), F>>>>>>,
     <<"sprite", "set_y", <<s, F>>>>, <<"sprite", "set_y", <<s, I(255)>>>>,
     <<"sprite", "set_tile", <<s, H>>>>, <<"sprite", "set_attributes", <<s, V("W")>>>>,
     <<"sprite", "set_palette", <<s, I(2)>>>>, <<"sprite", "set_palette", <<s, V("W")>>>>,
     <<"sprite", "hide", <<s>>>>, <<"sprite", "show", <<s>>>>,
     <<"sprite", "set_flip_horizontal", <<s, V("B")>>>>, <<"sprite", "set_flip_vertical", <<s, I(0)>>>>,
     <<"sprite", "set_behind_background", <<s, K>>>>,
     <<"sprite", "set_position", <<s, I(1), CallOf("Draw", <<>>)>>>> >>

Sprite(i, dynamic) == SpriteCalls(IF dynamic = 1 THEN V("One") ELSE I(1))[i]

SpriteProgram(i, j, dynamic) ==
  [Base EXCEPT !.order = @ \o <<"Draw">>, !.functions = @ \cup {"Draw"},
     !.bodies = ("Draw" :> << <<"sprite", "set_x", <<V("One"), I(77)>>>>, Let("Draw", I(5)) >>) @@ @]
  @@ [main |-> << Let("One", I(1)) >> \o Short(<< Sprite(i, dynamic), Sprite(j, 1 - dynamic),
                 <<"sprite", "show", <<I(1)>>>>, Sprite(j, dynamic), Sprite(i, 1 - dynamic) >>)]

Move(s, x, y, tile) ==
  << <<"sprite", "hide", <<s>>>>, <<"sprite", "set_position", <<s, I(x), I(y)>>>>,
     <<"sprite", "set_tile", <<s, I(tile)>>>>, <<"sprite", "show", <<s>>>> >>

FrameProgram(kind) ==
  Simple(<< Let("One", I(0)), <<"run">> >>
    \o CASE kind = 1 -> Move(I(0), 10, 20, 1) \o Move(V("One"), 30, 40, 2)
         [] kind = 2 -> << <<"spriteZero", <<I(10), I(20), I(1), I(0)>>>>,
                           <<"spriteZero", <<I(30), I(40), I(2), I(0)>>>> >>)

(***************************************************************************)
(* The families.                                                           *)
(***************************************************************************)
PassingIds ==
  [family : {"pair"}, i : DOMAIN Values, j : DOMAIN Values]
  \cup [family : {"condition"}, i : DOMAIN Conditions, j : DOMAIN Conditions, op : Booleans]
  \cup [family : {"compare"}, op : Comparisons, l : Edges, r : Edges]
  \cup {p \in [family : {"for"}, a : LoopEnds, b : LoopEnds, direction : {"to", "downto"}, k : {2, 254, 255}] :
          Turns(p.a, p.b, p.direction) <= MaxTurns}
  \cup [family : {"loop"}, i : DOMAIN LoopMains]
  \cup [family : {"calls"}, a : 1 .. 4, b : 1 .. 4, c : 1 .. 4, reversed : {0, 1}]
  \cup [family : {"assign"}, i : DOMAIN Statements, j : DOMAIN Statements,
        k : {2, 6, 11, 14, 15}, t : {0, 1}]
  \cup [family : {"callback"}, i : DOMAIN CallbackBodies, j : DOMAIN CallbackMains]
  \cup [family : {"sprite"}, i : DOMAIN SpriteCalls(I(1)), j : DOMAIN SpriteCalls(I(1)), dynamic : {0, 1}]
  \cup [family : {"frame"}, i : 1 .. 2]

\* A chain of functions, each called while set_tile keeps two coordinates
\* on the hardware stack and three get_tile calls around it one each.
ChainLength == 40
ChainIds == [family : {"chain"}]
Around(e) == <<"tile", <<I(3), e>>>>

Link(n) == "L" \o ToString(n)
ChainProgram ==
  [order |-> [n \in 1 .. ChainLength |-> Link(ChainLength + 1 - n)],
   functions |-> {Link(n) : n \in 1 .. ChainLength}, update |-> "", vblank |-> "",
   bodies |-> [f \in {Link(n) : n \in 1 .. ChainLength} |->
     LET n == CHOOSE k \in 1 .. ChainLength : Link(k) = f
     IN (IF n = ChainLength THEN <<>>
         ELSE << <<"setTile", <<I(3), I(4), Around(Around(Around(CallOf(Link(n + 1), <<>>))))>>>> >>)
          \o << Let(f, I(1)) >>],
   main |-> << <<"run">>, Let("D", CallOf(Link(1), <<>>)) >>]

ProgramOf(p) ==
  CASE p.family = "pair" -> Simple(PairMain(p.i, p.j))
    [] p.family = "condition" ->
         Simple(Short(Test(<<p.op, Conditions[p.i], Conditions[p.j]>>)))
    [] p.family = "compare" ->
         Simple(Short(<<Let("X", I(p.l)), Let("Y", I(p.r))>>
                       \o Test(<<p.op, V("X"), V("Y")>>)
                       \o Test(<<p.op, V("X"), <<"neg", <<"neg", V("Y")>>>>>>)))
    [] p.family = "for" -> Simple(ForMain(p.a, p.b, p.direction, p.k))
    [] p.family = "loop" -> Simple(Short(LoopMains[p.i]))
    [] p.family = "calls" -> CallProgram(p.a, p.b, p.c, p.reversed)
    [] p.family = "assign" -> AssignProgram(p.i, p.j, p.k, p.t)
    [] p.family = "callback" -> CallbackProgram(p.i, p.j)
    [] p.family = "sprite" -> SpriteProgram(p.i, p.j, p.dynamic)
    [] p.family = "frame" -> FrameProgram(p.i)
    [] p.family = "chain" -> ChainProgram

\* All sprites start hidden; buttons are down now and before, by program.
InitialOf(p) ==
  [c \in {<<"oam", 0>>, <<"oam", 4>>} |-> 255]
    @@ (IF p.family = "condition"
        THEN (<<"controller", 0>> :> p.i % 2) @@ (<<"controller", 1>> :> p.j % 2)
        ELSE <<>>)

WholesOf(p) == IF p.family = "frame" THEN {<<10, 20, 1, 0>>, <<30, 40, 2, 0>>} ELSE {}

FramesOf(p) ==
  CASE p.family = "callback" -> 1
    [] p.family = "frame" -> 2
    [] OTHER -> 0
=============================================================================
