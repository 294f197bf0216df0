-------------------------- MODULE CompilerQueries --------------------------
(***************************************************************************)
(* Inputs of the planners and of the parser of the compiler.               *)
(***************************************************************************)
EXTENDS MemoryLayout, SpriteAllocation, SourceGrammar

(***************************************************************************)
(* Memory layout.                                                          *)
(***************************************************************************)
Plain == [features |-> {}, instances |-> 0, created |-> FALSE, temporaries |-> 0,
          limits |-> 0, depth |-> 0, functions |-> 0, variables |-> <<>>]

\* Features that builtins declare together.
SpriteFeatures ==
  {{}, {"zero"}, {"sprite"}, {"sprite", "position"}, {"zero", "sprite", "position"}}
BackgroundFeatures ==
  {{}, {"set_tile"}, {"get_tile"}, {"set_attribute"}, {"clear_updates"}, {"inspect_overflow"},
   {"set_tile", "get_tile"}, {"set_attribute", "clear_updates", "clear_overflow"},
   {"set_tile", "get_tile", "set_attribute", "clear_updates", "inspect_overflow"}}
CollisionFeatures ==
  {{}, {"background_collision"}, {"collides"}, {"point_in_rect", "background_collision"}}
RandomFeatures == {{}, {"random"}, {"random", "random_range"}}

FeatureQueries ==
  {[Plain EXCEPT !.features = s \cup b \cup c \cup r \cup ppu \cup (IF n = 0 THEN {} ELSE a),
                 !.instances = n, !.created = (n = 1), !.functions = 2] :
     s \in SpriteFeatures, b \in BackgroundFeatures, c \in CollisionFeatures,
     r \in RandomFeatures, ppu \in {{}, {"palette"}, {"scroll"}},
     n \in {0, 1, 64}, a \in {{}, {"animation"}}}

Variable(size, references) ==
  [size |-> size, references |-> references, scalar |-> (size = 1)]
Several(n, v) == [i \in 1 .. n |-> v]
OneByteArray == [size |-> 1, references |-> 9, scalar |-> FALSE]

\* Around the ends of the automatic region and of RAM, and of every other limit.
RamAfter(features) == RamSize - UserStart([Plain EXCEPT !.features = features])
Fillers(left) == Several(left \div 200, Variable(200, 5)) \o <<Variable(left % 200, 0)>>

VariableQueries ==
  {[Plain EXCEPT !.features = f,
      !.variables = Several(hot, Variable(1, PromotionThreshold)) \o <<OneByteArray>>
                      \o Fillers(RamAfter(f) - 1 + more)] :
     f \in {{}, {"zero"}, {"get_tile", "palette"}}, hot \in {0, 3, AutomaticSize - 1, AutomaticSize,
     AutomaticSize + 1}, more \in {-2, -1, 0, 1}}

LimitQueries ==
  {[Plain EXCEPT !.temporaries = t, !.limits = l, !.depth = d, !.functions = 1] :
     t \in {0, 1, TemporaryCapacity}, l \in {0, 1, TemporaryCapacity - 1},
     d \in {0, MaxCallableDepth, MaxCallableDepth + 1}}
  \cup {[Plain EXCEPT !.functions = RamSize - GeneralRamStart + k, !.features = f] :
          k \in {-5, -4, 0, 250, 256}, f \in {{}, {"zero"}}}

LayoutQueries == FeatureQueries \cup VariableQueries \cup LimitQueries

(***************************************************************************)
(* Sprite allocation.                                                      *)
(***************************************************************************)
SpriteSites ==
  [kind : {"const", "operate", "assign"}, value : {0, 2}] \cup [kind : {"zero", "create"}]
    \cup [kind : {"instance"}, value : 0 .. 3]

SiteQueries == UNION {[1 .. n -> SpriteSites] : n \in 0 .. 4}

(***************************************************************************)
(* Grammar: trees, and their text by the precedence of the language.       *)
(***************************************************************************)
A == <<"variable", "A">>
One == <<"literal", "$01">>
SomeBinary == {"or", "and", "=", "<", "+", "-"}
BinaryTrees(ls, rs) == {<<op, l, r>> : op \in SomeBinary, l \in ls, r \in rs}
UnaryTrees(xs) == {<<op, x>> : op \in {"not", "-"}, x \in xs}

Leaves ==
  {A, One, <<"constant", "C">>, <<"constant", "Color", "Red">>, <<"field", "R", "x", <<>>>>,
   <<"call", "F", <<>>>>, <<"call", "F", <<A, One>>>>, <<"builtin", "random_byte", <<>>>>,
   <<"element", "T", <<"+", A, One>>>>, <<"field", "T", "x", <<<<"=", A, One>>>>>>}
Shallow == {A, One} \cup BinaryTrees({A, One}, {A, One}) \cup UnaryTrees({A, One})
Expressions ==
  Leaves \cup BinaryTrees(Shallow, Shallow) \cup UnaryTrees(Shallow \cup UnaryTrees(Shallow))
    \cup BinaryTrees(Leaves, Leaves)
    \cup {<<"call", "F", <<e, A>>>> : e \in Shallow}

\* How tightly a tree binds, by the levels of the language.
Rank(e) ==
  CASE e[1] = "or" -> 1 [] e[1] = "and" -> 2
    [] e[1] \in {"=", "<"} -> 3
    [] e[1] \in {"+", "-"} /\ Len(e) = 3 -> 4
    [] e[1] \in {"not", "-"} /\ Len(e) = 2 -> 5
    [] OTHER -> 6

RECURSIVE Text(_, _), Texts(_)
\* Parentheses only where the tree binds less tightly than its place asks.
Text(e, level) ==
  LET plain ==
        CASE Rank(e) \in 1 .. 4 ->
               Text(e[2], IF Rank(e) = 3 THEN 4 ELSE Rank(e)) \o <<e[1]>> \o Text(e[3], Rank(e) + 1)
          [] Rank(e) = 5 -> <<e[1]>> \o Text(e[2], 5)
          [] e[1] = "call" -> <<e[2], "(">> \o Texts(e[3]) \o <<")">>
          [] e[1] = "builtin" -> <<"nes", ".", e[2], "(">> \o Texts(e[3]) \o <<")">>
          [] e[1] = "element" -> <<e[2], "[">> \o Text(e[3], 1) \o <<"]">>
          [] e[1] = "field" ->
               <<e[2]>> \o If(e[4] # <<>>, <<"[">> \o Texts(e[4]) \o <<"]">>) \o <<".", e[3]>>
          [] e[1] = "constant" /\ Len(e) = 3 -> <<e[2], ".", e[3]>>
          [] OTHER -> <<e[2]>>
  IN IF Rank(e) < level THEN <<"(">> \o plain \o <<")">> ELSE plain

Texts(list) ==
  FlattenSeq([i \in DOMAIN list |-> If(i > 1, <<",">>) \o Text(list[i], 1)])

Store(e) == <<"assign", "A", <<>>, <<>>, e>>
Simple ==
  {Store(A), <<"assign", "T", <<A>>, <<>>, One>>, <<"assign", "T", <<A>>, <<"x">>, One>>,
   <<"assign", "R", <<>>, <<"x">>, One>>, <<"call", "P", <<>>>>, <<"call", "P", <<A>>>>,
   <<"call", "F", <<>>>>, <<"inc", "A", <<>>>>, <<"dec", "A", <<One>>>>, <<"break">>,
   <<"builtin", "set_scroll", <<A, One>>>>, <<"builtin", "wait_frame", <<>>>>,
   <<"builtin", "load_background", <<>>>>, <<"builtin", "run", <<>>>>, <<"builtin", "on_update", <<"P">>>>}

Compounds(bodies) ==
  {<<"if", A, b>> : b \in bodies} \cup {<<"if", A, b, c>> : b, c \in bodies}
    \cup {<<"while", A, b>> : b \in bodies} \cup {<<"repeat", b, A>> : b \in bodies}
    \cup {<<"for", "A", One, A, "to", b>> : b \in bodies}

Nested ==
  Compounds({<<s>> : s \in Simple} \cup {<<>>, <<Store(A), <<"call", "P", <<>>>>>>})
Kernel == Compounds({<<Store(A)>>, <<<<"call", "P", <<>>>>>>, <<Store(A), Store(A)>>})
Blocks ==
  {<<s, Store(e)>> : s \in Simple, e \in {A, One}}
    \cup {<<s>> : s \in Nested \cup Compounds({<<s>> : s \in Kernel})}

RECURSIVE StatementText(_, _), BlockText(_, _), OpenIf(_, _)

\* Without begin and end, would an else after the statement be its own?
OpenIf(s, bare) ==
  CASE s[1] = "if" /\ Len(s) = 3 -> TRUE
    [] s[1] \in {"if", "while", "for"} ->
         bare /\ Len(s[Len(s)]) = 1 /\ OpenIf(s[Len(s)][1], bare)
    [] OTHER -> FALSE

BranchText(b, bare, beforeElse) ==
  IF bare /\ Len(b) = 1 /\ ~(beforeElse /\ OpenIf(b[1], bare)) THEN StatementText(b[1], bare)
  ELSE <<"begin">> \o BlockText(b, bare) \o <<"end">>

StatementText(s, bare) ==
  CASE s[1] = "assign" ->
         <<s[2]>> \o If(s[3] # <<>>, <<"[">> \o Texts(s[3]) \o <<"]">>)
           \o If(s[4] # <<>>, <<".">> \o s[4]) \o <<":=">> \o Text(s[5], 1)
    [] s[1] = "call" ->
         <<s[2]>> \o If(s[3] # <<>> \/ s[2] \in FunctionNames, <<"(">> \o Texts(s[3]) \o <<")">>)
    [] s[1] \in {"inc", "dec"} ->
         <<s[1], "(", s[2]>> \o If(s[3] # <<>>, <<",">> \o Texts(s[3])) \o <<")">>
    [] s[1] = "builtin" /\ s[2] \in {"wait_frame", "run"} -> <<"nes", ".", s[2]>>
    [] s[1] = "builtin" /\ s[2] = "on_update" -> <<"nes", ".", s[2], "(">> \o s[3] \o <<")">>
    [] s[1] = "builtin" /\ s[2] \in {"set_scroll", "load_background"} ->
         <<"nes", ".", s[2], "(">> \o Texts(s[3]) \o <<")">>
    [] s[1] = "if" ->
         <<"if">> \o Text(s[2], 1) \o <<"then">> \o BranchText(s[3], bare, Len(s) = 4)
           \o If(Len(s) = 4, <<"else">> \o BranchText(s[4], bare, FALSE))
    [] s[1] = "while" -> <<"while">> \o Text(s[2], 1) \o <<"do">> \o BranchText(s[3], bare, FALSE)
    [] s[1] = "repeat" -> <<"repeat">> \o BlockText(s[2], bare) \o <<"until">> \o Text(s[3], 1)
    [] s[1] = "for" ->
         <<"for", s[2], ":=">> \o Text(s[3], 1) \o <<s[5]>> \o Text(s[4], 1) \o <<"do">>
           \o BranchText(s[6], bare, FALSE)
    [] OTHER -> <<s[1]>>

BlockText(block, bare) ==
  FlattenSeq([k \in DOMAIN block |-> StatementText(block[k], bare) \o <<";">>])

ProgramText(block, bare) == <<"begin">> \o BlockText(block, bare) \o <<"end", ".">>

SourceQueries ==
  [block : {<<Store(e)>> : e \in Expressions}, bare : {TRUE}]
    \cup [block : Blocks, bare : BOOLEAN]
=============================================================================
