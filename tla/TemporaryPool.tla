--------------------------- MODULE TemporaryPool ---------------------------
(***************************************************************************)
(* codegen_analysis: the pool of Zero Page bytes that holds intermediate   *)
(* values, and the replay of a whole program that fixes, before layout,    *)
(* how many bytes are reserved and at which depth each callable starts.    *)
(* A replay is the set of its events: <<"lease", n>> when n slots are live *)
(* after an acquire and <<"enter", f, n, d>> when callable f is entered    *)
(* over n live slots at call depth d.                                      *)
(***************************************************************************)
EXTENDS SourceProgram

\* TemporaryPool.acquire: the lowest index that is not leased.
LowestFree(live) ==
  CHOOSE i \in 0 .. Cardinality(live) :
    i \notin live /\ \A j \in 0 .. i - 1 : j \in live

Leased(live) == live \cup {LowestFree(live)}

\* The leases held while argument i of a call is evaluated.
RECURSIVE LiveAtArgument(_, _, _)
LiveAtArgument(args, i, live) ==
  IF i = 1 THEN live
  ELSE LET before == LiveAtArgument(args, i - 1, live)
       IN IF HeldAcrossCall(args, i - 1) THEN Leased(before) ELSE before

LeaseEvents(args, live) ==
  {<<"lease", Cardinality(LiveAtArgument(args, i + 1, live))>> :
     i \in {k \in DOMAIN args : HeldAcrossCall(args, k)}}

RECURSIVE ReplayValue(_, _, _, _), ReplayBlock(_, _, _, _)

\* Fault: the slots of earlier arguments are not counted.
ArgumentsWithoutLeases(prog, args, live, depth) ==
  UNION {ReplayValue(prog, args[i], live, depth) : i \in DOMAIN args}

ReplayArguments(prog, args, live, depth) ==
  LeaseEvents(args, live)
    \cup UNION {ReplayValue(prog, args[i], LiveAtArgument(args, i, live), depth) :
                  i \in DOMAIN args}

\* _ProgramTemporaryAnalyzer._call: the leases of the arguments are over
\* when the body is entered; its replay runs over what the caller holds.
ReplayCall(prog, f, args, live, depth) ==
  ReplayArguments(prog, args, live, depth)
    \cup {<<"enter", f, Cardinality(live), depth + 1>>}
    \cup ReplayBlock(prog, prog.bodies[f], live, depth + 1)

\* _ProgramTemporaryAnalyzer._value, with analyze_expression_temporaries.
ReplayValue(prog, e, live, depth) ==
  CASE e[1] \in Arithmetic \cup Comparisons ->
         IF DirectOperand(e[2], e[3]) THEN ReplayValue(prog, e[2], live, depth)
         ELSE ReplayValue(prog, e[3], live, depth)
                \cup {<<"lease", Cardinality(Leased(live))>>}
                \cup ReplayValue(prog, e[2], Leased(live), depth)
    [] e[1] = "call" -> ReplayCall(prog, e[2], e[3], live, depth)
    [] e[1] = "point" -> ReplayArguments(prog, e[2], live, depth)
    [] OTHER -> UNION {ReplayValue(prog, Operands(e)[i], live, depth) :
                         i \in DOMAIN Operands(e)}

\* Only a decrement may need a slot of its own for the amount.
ReplayAmount(s, live) ==
  IF s[1] = "dec" /\ Len(s) = 3 /\ ~DirectOperand(<<"var", s[2]>>, s[3])
  THEN {<<"lease", Cardinality(Leased(live))>>} ELSE {}

\* _ProgramTemporaryAnalyzer._statements
ReplayStatement(prog, s, live, depth) ==
  IF s[1] = "proc" THEN ReplayCall(prog, s[2], s[3], live, depth)
  ELSE ReplayAmount(s, live)
         \cup UNION {ReplayValue(prog, StatementValues(s)[i], live, depth) :
                       i \in DOMAIN StatementValues(s)}
         \cup UNION {ReplayBlock(prog, Branches(s)[i], live, depth) :
                       i \in DOMAIN Branches(s)}

ReplayBlock(prog, block, live, depth) ==
  UNION {ReplayStatement(prog, block[k], live, depth) : k \in DOMAIN block}

\* Every callable is emitted, reachable or not, so each body is replayed.
ReplayProgram(prog) ==
  ReplayBlock(prog, prog.main, {}, 0)
    \cup UNION {ReplayBlock(prog, prog.bodies[prog.order[i]], {}, 1) :
                  i \in DOMAIN prog.order}

Peak(numbers) == CHOOSE n \in numbers \cup {0} : \A m \in numbers : m <= n

\* TemporaryRequirements of analyze_program_temporaries.
ReservedSlots(replay) == Peak({e[2] : e \in {e \in replay : e[1] = "lease"}})

CallableBase(replay, f) ==
  Peak({e[3] : e \in {e \in replay : e[1] = "enter" /\ e[2] = f}})

MaxCallDepth(replay) == Peak({e[4] : e \in {e \in replay : e[1] = "enter"}})

RECURSIVE ForLoops(_)
\* _count_for_statements: every for loop owns one byte for its limit.
ForLoops(block) ==
  FoldLeft(LAMBDA n, s : n + (IF s[1] = "for" THEN 1 ELSE 0)
                           + FoldLeft(LAMBDA m, b : m + ForLoops(b), 0, Branches(s)),
           0, block)

AllForLoops(prog) ==
  FoldLeft(LAMBDA n, f : n + ForLoops(prog.bodies[f]), ForLoops(prog.main), prog.order)

TemporaryStorageSize == 16  \* bytes for temporaries and limits together
MaxCallableDepth == 123     \* 2 * depth + 4 + 6 <= 256

\* The checks of plan_program_memory on these requirements.
WithinLimits(prog) ==
  LET replay == ReplayProgram(prog)
  IN /\ ReservedSlots(replay) + AllForLoops(prog) <= TemporaryStorageSize
     /\ MaxCallDepth(replay) <= MaxCallableDepth
=============================================================================
