------------------------- MODULE RuntimeArithmeticMC -------------------------
(***************************************************************************)
(* Instances for TLC of RuntimeQueries and of the planners of the          *)
(* compiler, and the grammar of a block in the same form: one query and    *)
(* its answer per behaviour.                                               *)
(***************************************************************************)
EXTENDS RuntimeQueries, CompilerQueries

\* Byte values at which carries, signs and the ends of the screen change.
Anchors == {0, 7, 8, 127, 128, 248, 255}
EdgeBytes == {0, 1, 128, 255}
Boxes(bytes) == [x : bytes, y : bytes, width : bytes, height : bytes]

SampledPoints == [x : EdgeBytes \cup {127}, y : EdgeBytes, box : Boxes(EdgeBytes)]
SampledBoxes == [left : Boxes(EdgeBytes), right : Boxes(EdgeBytes)]
SampledSprites ==
  [sprite : {0, 63, 64}, x : Anchors, y : Anchors, box : Boxes({0, 1, 8, 247})]

FrameSpans ==
  {span \in {-128, -120, -9, -1, 0, 1, 112, 127} \X {1, 8, 16, 240, 255} :
     BoxFits(span[1], span[2])}
FrameBoxes ==
  {[x |-> h[1], width |-> h[2], y |-> v[1], height |-> v[2]] :
     h \in FrameSpans, v \in FrameSpans}
SampledFrames ==
  [instance : {1, 2}, instances : {2}, x : Anchors, y : {8, 128, 255},
   box : FrameBoxes, flippedX : BOOLEAN, flippedY : BOOLEAN]

Minima == {0, 1, 77, 255}
Spans == {1, 2, 3, 5, 6, 10, 100, 127, 128, 129, 171, 179, 254, 255, 256}
SampledRanges ==
  {range \in [min : Minima, max : Bytes] :
     range.max < range.min \/ range.max - range.min + 1 \in Spans}

Init ==
  /\ answer = Unanswered /\ progress = NotStarted
  /\ \/ RuntimeQuery
     \/ LayoutInit
     \/ SpriteInit
     \/ kind = "source" /\ query \in SourceQueries

Parse == Answers("source", Parsed(ProgramText(query.block, query.bare)))

Next ==
  \/ RuntimeNext /\ UNCHANGED progress
  \/ LayoutNext
  \/ SpriteNext
  \/ Parse /\ UNCHANGED progress

Spec == Init /\ [][Next]_planVars

-----------------------------------------------------------------------------
\* A procedure without arguments directly before an else.
CallBeforeElse(ts) == \E i \in 1 .. Len(ts) - 1 : ts[i] = "P" /\ ts[i + 1] = "else"

(***************************************************************************)
(* A block, written with parentheses only where the precedence of the      *)
(* language asks for them and with or without begin and end around single  *)
(* statements, is parsed back to the tree it was written from: operators   *)
(* group to the left, an else goes to the nearest open if, and separators  *)
(* never change what belongs to a branch.  The one text the parser refuses *)
(* is a procedure call without arguments directly before an else.          *)
(***************************************************************************)
ParserRecoversTheProgram ==
  Answered("source") =>
    Result = IF CallBeforeElse(ProgramText(query.block, query.bare)) THEN <<>>
             ELSE <<query.block>>

=============================================================================
