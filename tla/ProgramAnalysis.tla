-------------------------- MODULE ProgramAnalysis --------------------------
(***************************************************************************)
(* The checks of the semantic analyzer that decide which programs are      *)
(* compiled at all: the order in which callables are resolved, definite    *)
(* assignment across calls and callbacks, the ownership of for-loop        *)
(* control variables and the transitive rules of the VBlank callback.      *)
(* Names and types are taken as resolved.                                  *)
(***************************************************************************)
EXTENDS SourceProgram

Callables(prog) == {prog.order[k] : k \in DOMAIN prog.order}

\* _callable_resolution_order: depth first, callees before their callers;
\* a callable met again on the current path is a cycle.
RECURSIVE Visit(_, _, _), VisitAll(_, _, _)

VisitAll(prog, names, found) ==
  IF names = <<>> THEN found
  ELSE LET name == Head(names)
           after == CASE name \in found.path -> [found EXCEPT !.cyclic = TRUE]
                      [] name \in ToSet(found.order) -> found
                      [] OTHER -> Visit(prog, name, found)
       IN IF after.cyclic THEN after ELSE VisitAll(prog, Tail(names), after)

Visit(prog, name, found) ==
  LET callees == VisitAll(prog, StatementCalls(prog.bodies[name]),
                          [found EXCEPT !.path = @ \cup {name}])
  IN [callees EXCEPT !.path = found.path, !.order = Append(@, name)]

Resolution(prog) ==
  VisitAll(prog, prog.order, [path |-> {}, order |-> <<>>, cyclic |-> FALSE])

(***************************************************************************)
(* Definite assignment.  A state holds the names assigned so far, the      *)
(* names a callable requires of its callers and whether an error was met.  *)
(* "context" says whether the main block is resolved, names the function   *)
(* whose body is resolved and holds the summaries of the callables         *)
(* resolved before.                                                        *)
(***************************************************************************)
Demand(st, names, main) ==
  LET missing == names \ st.assigned
  IN IF main /\ missing # {} THEN [st EXCEPT !.error = TRUE]
     ELSE [st EXCEPT !.assigned = @ \cup missing, !.required = @ \cup missing]

\* A function cannot demand its own result of its callers.
ReadVariable(x, st, context) ==
  IF x = context.function /\ x \notin st.assigned THEN [st EXCEPT !.error = TRUE]
  ELSE Demand(st, {x}, context.main)

Provide(st, names) == [st EXCEPT !.assigned = @ \cup names]

\* What a discarded copy of the state still leaves behind.
Discard(st, copy) == [st EXCEPT !.required = copy.required, !.error = copy.error]

RECURSIVE ResolveValue(_, _, _), ResolveValues(_, _, _), ResolveBlock(_, _, _, _)

ResolveValues(exprs, st, context) ==
  IF exprs = <<>> THEN st
  ELSE ResolveValues(Tail(exprs), ResolveValue(Head(exprs), st, context), context)

\* _resolve_function_call and the procedure call of _resolve_statements.
ResolveCall(f, args, st, context) ==
  LET given == ResolveValues(args, st, context)
      summary == context.summaries[f]
  IN Provide(Demand(given, summary.required, context.main), summary.assigned)

\* Fault: what the right side of a Boolean operator assigns is kept.
KeepRight(e, left, context) == ResolveValue(e[3], left, context)

\* The right operand may be skipped at run time.
ResolveRight(e, left, context) == Discard(left, ResolveValue(e[3], left, context))

\* _resolve_value: right before left where the code evaluates it first.
ResolveValue(e, st, context) ==
  CASE e[1] = "var" -> ReadVariable(e[2], st, context)
    [] e[1] = "elem" -> Demand(ResolveValue(e[3], st, context), {e[2]}, context.main)
    [] e[1] = "field" -> Demand(ResolveValue(e[4], st, context), {e[2]}, context.main)
    [] e[1] \in Arithmetic \cup Comparisons ->
         ResolveValue(e[2], ResolveValue(e[3], st, context), context)
    [] e[1] \in Booleans -> ResolveRight(e, ResolveValue(e[2], st, context), context)
    [] e[1] = "call" -> ResolveCall(e[2], e[3], st, context)
    [] OTHER -> ResolveValues(Operands(e), st, context)

\* The names a statement may not touch inside the loops that own them.
Target(s) == IF s[1] \in {"assign", "store", "setField", "inc", "dec", "for"}
             THEN {s[2]} ELSE {}

BothBranches(then, else) ==
  [Discard(then, else) EXCEPT !.assigned = then.assigned \cap else.assigned]

ResolveIf(s, st, context, owned) ==
  LET test == ResolveValue(s[2], st, context)
      then == ResolveBlock(s[3], test, context, owned)
      else == ResolveBlock(s[4], Discard(test, then), context, owned)
  IN IF Len(s) = 3 THEN Discard(test, then) ELSE BothBranches(then, else)

ResolveFor(s, st, context, owned) ==
  LET initial == ResolveValue(s[3], st, context)
      final == ResolveValue(s[4], Provide(initial, {s[2]}), context)
      body == ResolveBlock(s[6], final, context, owned \cup {s[2]})
  IN Provide(Discard(initial, body), {s[2]})

\* Before nes.run the requirements of the VBlank callback must be met.
ResolveStart(st, context) ==
  IF context.vblank = "" THEN st
  ELSE Demand(st, context.summaries[context.vblank].required, TRUE)

\* _resolve_statements, one statement; loop bodies may not run at all.
ResolveStatement(s, st, context, owned) ==
  CASE Target(s) \cap owned # {} -> [st EXCEPT !.error = TRUE]
    [] s[1] \in {"assign", "store", "setField"} ->
         Provide(ResolveValues(StatementValues(s), st, context), {s[2]})
    [] s[1] \in {"inc", "dec"} ->
         ResolveValues(StatementValues(s), Demand(st, {s[2]}, context.main), context)
    [] s[1] = "if" -> ResolveIf(s, st, context, owned)
    [] s[1] = "while" ->
         LET test == ResolveValue(s[2], st, context)
         IN Discard(test, ResolveBlock(s[3], test, context, owned))
    [] s[1] = "repeat" ->
         ResolveValue(s[3], Discard(st, ResolveBlock(s[2], st, context, owned)), context)
    [] s[1] = "for" -> ResolveFor(s, st, context, owned)
    [] s[1] = "proc" -> ResolveCall(s[2], s[3], st, context)
    [] s[1] = "run" -> ResolveStart(st, context)
    [] OTHER -> ResolveValues(StatementValues(s), st, context)

ResolveBlock(block, st, context, owned) ==
  IF block = <<>> THEN st
  ELSE LET after == ResolveStatement(Head(block), st, context, owned)
       IN IF after.error THEN after ELSE ResolveBlock(Tail(block), after, context, owned)

NothingKnown == [assigned |-> {}, required |-> {}, error |-> FALSE]

\* A callable's summary; globals only, and a function must set its result.
SummaryAt(prog, f, end) ==
  [required |-> end.required,
   assigned |-> (end.assigned \cup end.required) \ prog.functions,
   error |-> end.error \/ (f \in prog.functions /\ f \notin end.assigned)]

Summary(prog, f, summaries) ==
  SummaryAt(prog, f,
    ResolveBlock(prog.bodies[f], NothingKnown,
                 [main |-> FALSE, function |-> IF f \in prog.functions THEN f ELSE "",
                  summaries |-> summaries, vblank |-> ""], {}))

\* The callables in resolution order, each over the summaries before it.
Summaries(prog) ==
  FoldLeft(LAMBDA known, f : known @@ (f :> Summary(prog, f, known)),
           <<>>, Resolution(prog).order)

(***************************************************************************)
(* Callbacks.                                                              *)
(***************************************************************************)
RECURSIVE SafeValue(_), SafeBlock(_, _, _)

\* _vblank_expression_is_safe: nothing that needs shared expression storage.
SafeValue(e) ==
  /\ e[1] \notin Arithmetic \cup Comparisons \cup {"call", "pad", "point", "tile"}
  /\ \A i \in DOMAIN Operands(e) : SafeValue(Operands(e)[i])

SafeValues(s) == \A i \in DOMAIN StatementValues(s) : SafeValue(StatementValues(s)[i])

\* validate_statement of _validate_vblank_callback; procedures on the path
\* are not entered twice.  The palette and scroll calls, which it allows, are
\* not among the statements here.
SafeStatement(prog, s, seen) ==
  CASE s[1] \in {"assign", "store", "setField"} -> SafeValues(s)
    [] s[1] \in {"inc", "dec"} -> Len(s) = 2
    [] s[1] = "if" ->
         SafeValues(s) /\ \A i \in DOMAIN Branches(s) : SafeBlock(prog, Branches(s)[i], seen)
    [] s[1] = "proc" ->
         /\ s[2] # prog.update
         /\ s[3] = <<>>
         /\ s[2] \in seen \/ SafeBlock(prog, prog.bodies[s[2]], seen \cup {s[2]})
    [] OTHER -> FALSE

SafeBlock(prog, block, seen) ==
  \A k \in DOMAIN block : SafeStatement(prog, block[k], seen)

SafeVBlank(prog) ==
  prog.vblank = "" \/ SafeBlock(prog, prog.bodies[prog.vblank], {prog.vblank})

\* _validate_callback_registrations
ProperCallbacks(prog) ==
  /\ {prog.update, prog.vblank} \cap prog.functions = {}
  /\ prog.update # "" => prog.update # prog.vblank

\* _validate_program_structure: one nes.run, at the top level of main.
RunsOnce(prog) ==
  Cardinality({k \in DOMAIN prog.main : prog.main[k][1] = "run"}) = 1

\* The main block is resolved last, then the update callback is checked.
Assigned(prog, summaries, main) ==
  /\ \A f \in Callables(prog) : ~summaries[f].error
  /\ ~main.error
  /\ prog.update # "" => summaries[prog.update].required \subseteq main.assigned

ResolvedMain(prog, summaries) ==
  ResolveBlock(prog.main, NothingKnown,
               [main |-> TRUE, function |-> "", summaries |-> summaries,
                vblank |-> prog.vblank], {})

DefinitelyAssigned(prog, summaries) ==
  Assigned(prog, summaries, ResolvedMain(prog, summaries))

\* analyze: a program that is compiled.
Accepted(prog) ==
  /\ ProperCallbacks(prog)
  /\ ~Resolution(prog).cyclic
  /\ SafeVBlank(prog)
  /\ DefinitelyAssigned(prog, Summaries(prog))
  /\ RunsOnce(prog)
=============================================================================
