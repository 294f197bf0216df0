--------------------------- MODULE SourceGrammar ---------------------------
(***************************************************************************)
(* The recursive-descent parser on the tokens of a block.  Every parsing   *)
(* operator takes the tokens and a position and returns a tree and the     *)
(* position after it.  A syntax error leaves the position at Stopped,      *)
(* where no token matches: what was parsed before is never reported.       *)
(* Trees are tuples that begin with the kind of their node.                *)
(***************************************************************************)
EXTENDS Integers, SequencesExt

CONSTANTS
  VariableNames,   \* declared variables, and the parameters in scope; none of
                   \* them a metasprite, which has no fields
  FunctionNames    \* functions declared so far

Keywords ==
  {"begin", "end", "if", "then", "else", "while", "do", "repeat", "until", "for",
   "to", "downto", "inc", "dec", "break", "continue", "and", "or", "not"}
Punctuation ==
  {"(", ")", "[", "]", ",", ";", ".", ":=", "=", "<>", "<", ">", "<=", ">=", "+", "-"}
Literals == {"$00", "$01", "true", "false"}
\* Some of the builtins of the registry; one takes no parentheses.
BuiltinNames == {"wait_frame", "set_scroll", "random_byte", "random_range"}
BareBuiltins == {"wait_frame"}
Loaders == {"load_background", "import_metasprite"}

Stopped == 0
Token(ts, i) ==
  IF i \in DOMAIN ts THEN ts[i] ELSE IF i = Stopped THEN "stop" ELSE "eof"
IsName(t) == t \notin Keywords \cup Punctuation \cup Literals \cup {"stop", "eof"}

\* _expect
Expect(ts, i, t) == IF Token(ts, i) = t THEN i + 1 ELSE Stopped
ExpectName(ts, i) == IF IsName(Token(ts, i)) THEN i + 1 ELSE Stopped

Failed == <<<<"error">>, Stopped>>

(***************************************************************************)
(* Expressions: the levels of binary operators, weakest first.             *)
(***************************************************************************)
BinaryLevels == <<{"or"}, {"and"}, {"=", "<>", "<", ">", "<=", ">="}, {"+", "-"}>>
ComparisonLevel == 3
UnaryLevel == 5

RECURSIVE Level(_, _, _), More(_, _, _), Unary(_, _), ListFrom(_, _, _)

Expression(ts, i) == Level(ts, i, 1)

\* _parse_or_expression down to _parse_unary_expression
Level(ts, i, n) ==
  IF n = UnaryLevel THEN Unary(ts, i) ELSE More(ts, Level(ts, i, n + 1), n)

\* Fault: an operator groups with everything on its right.
MoreToTheRight(ts, left, n) ==
  LET op == Token(ts, left[2])
      right == Level(ts, left[2] + 1, n)
  IN IF op \in BinaryLevels[n] THEN <<<<op, left[1], right[1]>>, right[2]>> ELSE left

\* Operators of one level group to the left; comparisons do not chain.
More(ts, left, n) ==
  LET op == Token(ts, left[2])
      right == Level(ts, left[2] + 1, n + 1)
      whole == <<<<op, left[1], right[1]>>, right[2]>>
  IN IF op \notin BinaryLevels[n] THEN left
     ELSE IF n = ComparisonLevel THEN whole ELSE More(ts, whole, n)

\* One or more expressions with commas.
ListFrom(ts, i, found) ==
  LET e == Expression(ts, i)
      all == Append(found, e[1])
  IN IF Token(ts, e[2]) = "," THEN ListFrom(ts, e[2] + 1, all) ELSE <<all, e[2]>>

\* _parse_expression_arguments: also the arguments of a function.
Arguments(ts, i) ==
  LET start == Expect(ts, i, "(")
      list == IF Token(ts, start) = ")" THEN <<<<>>, start>> ELSE ListFrom(ts, start, <<>>)
  IN <<list[1], Expect(ts, list[2], ")")>>

\* An optional index in brackets.
Index(ts, i) ==
  IF Token(ts, i) # "[" THEN <<<<>>, i>>
  ELSE LET e == Expression(ts, i + 1) IN <<<<e[1]>>, Expect(ts, e[2], "]")>>

Named(ts, i) ==
  LET name == Token(ts, i)
      index == Index(ts, i + 1)
      next == Token(ts, index[2])
      member == Token(ts, index[2] + 1)
      after == ExpectName(ts, index[2] + 1)
  IN IF Token(ts, i + 1) = "("
     THEN LET args == Arguments(ts, i + 1) IN <<<<"call", name, args[1]>>, args[2]>>
     ELSE IF name \in VariableNames /\ next = "."
     THEN <<<<"field", name, member, index[1]>>, after>>
     ELSE IF index[1] # <<>> THEN <<<<"element", name, index[1][1]>>, index[2]>>
     ELSE IF next = "." /\ name = "nes" /\ member \in BuiltinNames
     THEN LET args == Arguments(ts, after) IN <<<<"builtin", member, args[1]>>, args[2]>>
     ELSE IF next = "." THEN <<<<"constant", name, member>>, after>>
     ELSE <<<<IF name \in VariableNames THEN "variable" ELSE "constant", name>>, index[2]>>

\* _parse_primary_expression
Primary(ts, i) ==
  LET t == Token(ts, i)
  IN CASE t \in Literals -> <<<<"literal", t>>, i + 1>>
       [] IsName(t) -> Named(ts, i)
       [] t = "(" -> LET e == Expression(ts, i + 1) IN <<e[1], Expect(ts, e[2], ")")>>
       [] OTHER -> Failed

Unary(ts, i) ==
  IF Token(ts, i) \notin {"not", "+", "-"} THEN Primary(ts, i)
  ELSE LET e == Unary(ts, i + 1) IN <<<<Token(ts, i), e[1]>>, e[2]>>

(***************************************************************************)
(* Statements.  "terminated" says whether the statement consumes its       *)
(* semicolon; the single statement of a branch does not.                   *)
(***************************************************************************)
RECURSIVE Statement(_, _, _), StatementsTo(_, _, _, _)

\* Statements up to the closing keyword, after those found and one more.
MoreStatements(ts, closing, found, one) ==
  StatementsTo(ts, one[2], closing, Append(found, one[1]))

StatementsTo(ts, i, closing, found) ==
  IF Token(ts, i) \in {closing, "eof", "stop"} THEN <<found, Expect(ts, i, closing)>>
  ELSE MoreStatements(ts, closing, found, Statement(ts, i, TRUE))

\* _parse_conditional_branch
Single(parsed) == <<<<parsed[1]>>, parsed[2]>>

BranchAt(ts, i) ==
  IF Token(ts, i) = "begin" THEN StatementsTo(ts, i + 1, "end", <<>>)
  ELSE Single(Statement(ts, i, FALSE))

\* A compound statement is read part by part: each operator below takes the
\* parts before it and reads the next one.
WithElse(test, then, else) == <<<<"if", test[1], then[1], else[1]>>, else[2]>>

\* An else belongs to the nearest if that can still take it.
AfterThen(ts, test, then) ==
  IF Token(ts, then[2]) # "else" THEN <<<<"if", test[1], then[1]>>, then[2]>>
  ELSE WithElse(test, then, BranchAt(ts, then[2] + 1))

AfterIf(ts, test) == AfterThen(ts, test, BranchAt(ts, Expect(ts, test[2], "then")))

WhileLoop(test, body) == <<<<"while", test[1], body[1]>>, body[2]>>
AfterWhile(ts, test) == WhileLoop(test, BranchAt(ts, Expect(ts, test[2], "do")))

RepeatLoop(body, test) == <<<<"repeat", body[1], test[1]>>, test[2]>>
AfterRepeat(ts, body) == RepeatLoop(body, Expression(ts, body[2]))

ForLoop(variable, initial, direction, final, body) ==
  <<<<"for", variable, initial[1], final[1], direction, body[1]>>, body[2]>>

AfterFinal(ts, variable, initial, direction, final) ==
  ForLoop(variable, initial, direction, final, BranchAt(ts, Expect(ts, final[2], "do")))

AfterInitial(ts, variable, initial, direction) ==
  AfterFinal(ts, variable, initial, direction,
    Expression(ts, IF direction \in {"to", "downto"} THEN initial[2] + 1 ELSE Stopped))

AfterFor(ts, variable, initial) ==
  AfterInitial(ts, variable, initial, Token(ts, initial[2]))

ParseIf(ts, i) == AfterIf(ts, Expression(ts, i + 1))
ParseWhile(ts, i) == AfterWhile(ts, Expression(ts, i + 1))
ParseRepeat(ts, i) == AfterRepeat(ts, StatementsTo(ts, i + 1, "until", <<>>))
ParseFor(ts, i) ==
  AfterFor(ts, Token(ts, i + 1), Expression(ts, Expect(ts, ExpectName(ts, i + 1), ":=")))

\* inc and dec, with an optional amount.
ParseUpdate(ts, i) ==
  LET target == ExpectName(ts, Expect(ts, i + 1, "("))
      amount == IF Token(ts, target) # "," THEN <<<<>>, target>>
                ELSE LET e == Expression(ts, target + 1) IN <<<<e[1]>>, e[2]>>
  IN <<<<Token(ts, i), Token(ts, i + 2), amount[1]>>, Expect(ts, amount[2], ")")>>

\* _parse_assignment, of a variable, an element or a field.
ParseAssignment(ts, i) ==
  LET index == Index(ts, i + 1)
      field == IF Token(ts, index[2]) # "." THEN <<<<>>, index[2]>>
               ELSE <<<<Token(ts, index[2] + 1)>>, ExpectName(ts, index[2] + 1)>>
      value == Expression(ts, Expect(ts, field[2], ":="))
  IN <<<<"assign", Token(ts, i), index[1], field[1], value[1]>>, value[2]>>

\* Empty parentheses are for functions only.
ParseCall(ts, i) ==
  LET args == IF Token(ts, i + 1) # "(" THEN <<<<>>, i + 1>>
              ELSE IF Token(ts, i + 2) # ")" \/ Token(ts, i) \in FunctionNames
              THEN Arguments(ts, i + 1) ELSE <<<<>>, Stopped>>
  IN <<<<"call", Token(ts, i), args[1]>>, args[2]>>

\* nes.run, a callback registration, a loader or a builtin statement.
ParseCommand(ts, i) ==
  LET command == Token(ts, i + 2)
      after == ExpectName(ts, Expect(ts, i + 1, "."))
      args == IF command \in BareBuiltins \cup {"run"} THEN <<<<>>, after>>
              ELSE IF command \in {"on_update", "on_vblank"}
              THEN <<<<Token(ts, after + 1)>>,
                     Expect(ts, ExpectName(ts, Expect(ts, after, "(")), ")")>>
              ELSE IF command \in BuiltinNames \cup Loaders THEN Arguments(ts, after)
              ELSE <<<<>>, Stopped>>
  IN IF Token(ts, i) # "nes" THEN Failed ELSE <<<<"builtin", command, args[1]>>, args[2]>>

\* The statements that begin with a name are told apart by the next token.
ParseNamed(ts, i) ==
  LET next == Token(ts, i + 1)
  IN CASE next \in {":=", "["} \/ (next = "." /\ Token(ts, i) \in VariableNames) ->
            ParseAssignment(ts, i)
       [] next \in {"(", ";"} -> ParseCall(ts, i)
       [] OTHER -> ParseCommand(ts, i)

\* _parse_statement
Terminated(ts, parsed, terminated) ==
  IF terminated THEN <<parsed[1], Expect(ts, parsed[2], ";")>> ELSE parsed

Statement(ts, i, terminated) ==
  LET t == Token(ts, i)
  IN Terminated(ts,
       CASE t = "if" -> ParseIf(ts, i)
         [] t = "while" -> ParseWhile(ts, i)
         [] t = "repeat" -> ParseRepeat(ts, i)
         [] t = "for" -> ParseFor(ts, i)
         [] t \in {"inc", "dec"} -> ParseUpdate(ts, i)
         [] t \in {"break", "continue"} -> <<<<t>>, i + 1>>
         [] IsName(t) -> ParseNamed(ts, i)
         [] OTHER -> Failed,
       terminated)

\* The main block of a program, after its declarations.
Complete(ts, body) ==
  IF Token(ts, Expect(ts, body[2], ".")) = "eof" THEN <<body[1]>> ELSE <<>>

Parsed(ts) == Complete(ts, StatementsTo(ts, Expect(ts, 1, "begin"), "end", <<>>))
=============================================================================
