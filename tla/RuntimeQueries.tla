--------------------------- MODULE RuntimeQueries ---------------------------
(***************************************************************************)
(* The eight-bit routines of the runtime against exact definitions: each   *)
(* behaviour is one query and its answer.  Background coordinates, clipped *)
(* metasprite components, boxes, the collision map and random numbers.     *)
(***************************************************************************)
EXTENDS BackgroundAddress, CollisionQueries, RandomGenerator, Queries, FiniteSets

\* A box of four bytes, and the box of a metasprite frame.
Box == [x : Byte, y : Byte, width : Byte, height : Byte]
FrameBox == {box \in [x : -128 .. 127, y : -128 .. 127, width : Byte, height : Byte] :
               BoxFits(box.x, box.width) /\ BoxFits(box.y, box.height)}

CONSTANTS
  PointQueries,   \* points and boxes given to nes.point_in_rect
  BoxQueries,     \* pairs of boxes given to nes.collides
  SpriteQueries,  \* sprites, their positions and their boxes
  FrameQueries,   \* metasprite instances, one of so many, their anchors and
                  \* flips and the boxes of their frames
  RangeQueries    \* ranges given to nes.random_range

ASSUME PointsAssumption == PointQueries \subseteq [x : Byte, y : Byte, box : Box]
ASSUME BoxesAssumption == BoxQueries \subseteq [left : Box, right : Box]
ASSUME SpritesAssumption == SpriteQueries \subseteq [sprite : Byte, x : Byte, y : Byte, box : Box]
ASSUME FramesAssumption ==
  FrameQueries \subseteq [instance : Byte, instances : 1 .. 256, x : Byte, y : Byte,
                         box : FrameBox, flippedX : BOOLEAN, flippedY : BOOLEAN]
ASSUME RangesAssumption == RangeQueries \subseteq [min : Bytes, max : Bytes]

RuntimeQuery ==
  \/ kind \in {"tile", "attribute", "map"} /\ query \in [x : Byte, y : Byte]
  \/ /\ kind \in {"componentX", "componentY"}
     /\ query \in [anchor : AnchorBytes, offset : ComponentOffsets,
                   flipped : BOOLEAN]
  \/ kind = "point" /\ query \in PointQueries
  \/ kind = "boxes" /\ query \in BoxQueries
  \/ kind = "spriteBounds" /\ query \in SpriteQueries
  \/ kind = "frameBounds" /\ query \in FrameQueries
  \/ kind = "range" /\ query \in RangeQueries
  \/ kind = "step" /\ query \in ActiveStates
  \/ kind = "seed" /\ query \in Bytes

RuntimeInit == answer = Unanswered /\ RuntimeQuery

SetTile ==
  Answers("tile", IF TileInRange(query.x, query.y)
                  THEN TileAddress(query.x, query.y) ELSE <<>>)

SetAttribute ==
  Answers("attribute", IF AttributeInRange(query.x, query.y)
                       THEN AttributeAddress(query.x, query.y) ELSE <<>>)

RenderX ==
  Answers("componentX",
          ComponentX(query.anchor, Encoded(query.offset), query.flipped))

RenderY ==
  Answers("componentY",
          ComponentY(query.anchor, Encoded(query.offset), query.flipped))

TestPoint == Answers("point", PointInRect(query.x, query.y, query.box))

TestBoxes == Answers("boxes", Collides(query.left, query.right))

FindSpriteBounds ==
  Answers("spriteBounds", SpriteBounds(query.sprite, query.x, query.y, query.box))

FindFrameBounds ==
  Answers("frameBounds",
          MetaspriteBounds(query.instance, query.instances, query.x, query.y,
                           [x |-> Encoded(query.box.x), y |-> Encoded(query.box.y),
                            width |-> query.box.width,
                            height |-> query.box.height],
                           query.flippedX, query.flippedY))

TestMap == Answers("map", TestedFlag(query.x, query.y))

\* How many source bytes give each result; the others are rejected.
DrawRange ==
  Answers("range",
          [r \in Bytes |->
             Cardinality({b \in Bytes : /\ ~Rejected(query.min, query.max, b)
                                        /\ Reduced(query.min, query.max, b) = r})])

DrawByte == Answers("step", Step(query))

Seed == Answers("seed", <<SeedState(query), AutomaticState(query)>>)

RuntimeNext ==
  \/ SetTile \/ SetAttribute \/ RenderX \/ RenderY \/ TestPoint \/ TestBoxes
  \/ FindSpriteBounds \/ FindFrameBounds \/ TestMap
  \/ DrawRange \/ DrawByte \/ Seed

RuntimeSpec == RuntimeInit /\ [][RuntimeNext]_vars

-----------------------------------------------------------------------------
LinearAddress(addr) == addr[1] * 256 + addr[2]

(***************************************************************************)
(* nes.set_tile queues exactly $2000 + 32 y + x for the 32 x 30 visible    *)
(* tiles, nes.set_attribute exactly $23C0 + 8 y + x for the 8 x 8          *)
(* attribute bytes, and each nothing for any other pair of bytes, although *)
(* the index of a tile is computed in eight bits before its column is      *)
(* checked.                                                                *)
(***************************************************************************)
BackgroundCallsReachTheirAddress ==
  /\ Answered("tile") =>
       IF query.x \in TileColumns /\ query.y \in TileRows
       THEN LinearAddress(Result) = 8192 + 32 * query.y + query.x
       ELSE Result = <<>>
  /\ Answered("attribute") =>
       IF query.x \in AttributeColumns /\ query.y \in AttributeRows
       THEN LinearAddress(Result) = 9152 + 8 * query.y + query.x
       ELSE Result = <<>>

(***************************************************************************)
(* The uploader confirms a tile in the shadow byte that a later query of   *)
(* the same coordinate reads, the byte lies inside the 960-byte shadow,    *)
(* and an attribute write confirms nothing.                                *)
(***************************************************************************)
ConfirmationMeetsQuery ==
  /\ Answered("tile") /\ Result # <<>> =>
       /\ Confirms(Result)
       /\ ConfirmedIndex(Result) = QueriedIndex(query.x, query.y)
       /\ QueriedIndex(query.x, query.y) \in ShadowIndexes
  /\ Answered("attribute") /\ Result # <<>> => ~Confirms(Result)

\* The exact offset of a component of eight pixels, or of a box.
Mirrored(offset, size, flipped) == IF flipped THEN -offset - size ELSE offset

(***************************************************************************)
(* A component is shown exactly where its signed and possibly mirrored     *)
(* offset puts it, and exactly if the whole tile is on the screen: X       *)
(* 0..248, top line 1..232 (stored minus one).  No sum wraps to the        *)
(* opposite edge, for any anchor and any offset the loader admits.         *)
(***************************************************************************)
ComponentsAreClippedExactly ==
  LET exact == query.anchor + Mirrored(query.offset, 8, query.flipped) IN
  /\ Answered("componentX") =>
       Result = IF exact \in 0 .. 248 THEN exact ELSE Clipped
  /\ Answered("componentY") =>
       Result = IF exact \in 1 .. 232 THEN exact - 1 ELSE Clipped

\* The pixels of a box that does not leave the 256 x 256 plane, else none.
Along(start, size) == start .. start + size - 1
Fits(start, size) == start >= 0 /\ size > 0 /\ start + size <= 256
BoxFitsPlane(box) == Fits(box.x, box.width) /\ Fits(box.y, box.height)
CommonPixels(b1, b2) ==
  /\ Along(b1.x, b1.width) \cap Along(b2.x, b2.width) # {}
  /\ Along(b1.y, b1.height) \cap Along(b2.y, b2.height) # {}

(***************************************************************************)
(* nes.point_in_rect and nes.collides answer set membership and set        *)
(* intersection of half-open boxes, FALSE for a box that is empty or       *)
(* leaves the plane, and TRUE up to an end of exactly 256; and             *)
(* nes.background_collision tests the flag that the loader packed for the  *)
(* tile under the pixel, and none below the last row.                      *)
(***************************************************************************)
CollisionAnswersAreExact ==
  /\ Answered("point") =>
       (Result <=> /\ BoxFitsPlane(query.box)
                   /\ query.x \in Along(query.box.x, query.box.width)
                   /\ query.y \in Along(query.box.y, query.box.height))
  /\ Answered("boxes") =>
       (Result <=> /\ BoxFitsPlane(query.left) /\ BoxFitsPlane(query.right)
                   /\ CommonPixels(query.left, query.right))
  /\ Answered("map") =>
       Result = IF query.y < 240
                THEN PackedFlag(32 * (query.y \div 8) + query.x \div 8)
                ELSE NoTile

ExactBox(x, y, width, height) ==
  IF Fits(x, width) /\ Fits(y, height)
  THEN [x |-> x, y |-> y, width |-> width, height |-> height] ELSE InvalidBox

(***************************************************************************)
(* The bounds of a sprite or metasprite are its box at the exact signed    *)
(* place, mirrored around the anchor with its own size, or the empty box   *)
(* if any side leaves the plane or there is no such object.                *)
(***************************************************************************)
BoundsFollowTheObject ==
  /\ Answered("spriteBounds") =>
       Result = IF query.sprite \notin 0 .. 63 THEN InvalidBox
                ELSE ExactBox(query.x + query.box.x, query.y + query.box.y,
                              query.box.width, query.box.height)
  /\ Answered("frameBounds") =>
       Result = IF query.instance \notin 0 .. query.instances - 1 THEN InvalidBox
                ELSE ExactBox(
                  query.x + Mirrored(query.box.x, query.box.width, query.flippedX),
                  query.y + Mirrored(query.box.y, query.box.height, query.flippedY),
                  query.box.width, query.box.height)

(***************************************************************************)
(* A bounded draw returns every value of its range for equally many source *)
(* bytes and no other value; a reversed or singleton range gives its       *)
(* minimum for every byte.                                                 *)
(***************************************************************************)
BoundedDrawsAreUniform ==
  Answered("range") =>
    LET results == IF query.min < query.max THEN query.min .. query.max ELSE {query.min}
    IN /\ \A r \in Bytes \ results : Result[r] = 0
       /\ \A r \in results : Result[r] > 0 /\ Result[r] = Result[query.min]

\* Every span accepts 128 and above, so such a byte ends any bounded draw.
Step2(state) == Step(Step(state))
Step4(state) == Step2(Step2(state))
Step8(state) == Step4(Step4(state))
AcceptsIn1(state) == OutputByte(state) >= 128
AcceptsIn2(state) == AcceptsIn1(state) \/ AcceptsIn1(Step(state))
AcceptsIn4(state) == AcceptsIn2(state) \/ AcceptsIn2(Step2(state))
AcceptsIn8(state) == AcceptsIn4(state) \/ AcceptsIn4(Step4(state))
AcceptsIn16(state) == AcceptsIn8(state) \/ AcceptsIn8(Step8(state))

(***************************************************************************)
(* Every seed, and automatic seeding from any byte, gives a state the      *)
(* generator runs on; from there no step reaches the absorbing zero state, *)
(* and sixteen draws in a row always contain one that every bounded        *)
(* request accepts: a rejection loop ends.                                 *)
(***************************************************************************)
GeneratorNeverSticks ==
  /\ Answered("seed") => Result[1] \in ActiveStates /\ Result[2] \in ActiveStates
  /\ Answered("step") => Result \in ActiveStates /\ AcceptsIn16(Result)

=============================================================================
