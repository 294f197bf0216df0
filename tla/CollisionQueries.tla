-------------------------- MODULE CollisionQueries --------------------------
(***************************************************************************)
(* The collision helpers of _generate_collision_runtime_routines: boxes of *)
(* four bytes, half open, whose ends may reach but not exceed 256; bounds  *)
(* of sprites and metasprites; and the bit-packed background map.          *)
(***************************************************************************)
EXTENDS MetaspriteGeometry

InvalidBox == [x |-> 0, y |-> 0, width |-> 0, height |-> 0]

\* Fault: an end of exactly 256 is taken for a wrap.
ValidBelow256(start, size) == size # 0 /\ start + size < 256

\* One axis of runtime_collision_validate_*: a carry needs a zero low byte.
ValidSpan(start, size) ==
  /\ size # 0
  /\ start + size > 255 => (start + size) % 256 = 0

ValidBox(box) == ValidSpan(box.x, box.width) /\ ValidSpan(box.y, box.height)

InSpan(point, start, size) == point >= start /\ point - start < size

\* runtime_collision_point_in_rect.
PointInRect(px, py, box) ==
  ValidBox(box) /\ InSpan(px, box.x, box.width) /\ InSpan(py, box.y, box.height)

SpansMeet(start1, size1, start2, size2) ==
  IF start1 < start2 THEN start2 - start1 < size1 ELSE start1 - start2 < size2

\* runtime_collision_rects.
Collides(left, right) ==
  /\ ValidBox(left) /\ ValidBox(right)
  /\ SpansMeet(left.x, left.width, right.x, right.width)
  /\ SpansMeet(left.y, left.height, right.y, right.height)

\* Both runtime_collision_*_bounds end by storing a valid box or zeros.
StoredBox(x, y, width, height) ==
  LET box == [x |-> x, y |-> y, width |-> width, height |-> height]
  IN IF x # Clipped /\ y # Clipped /\ ValidBox(box) THEN box ELSE InvalidBox

\* Fault: a box is mirrored like a tile of eight pixels.
FlippedLikeTile(offset, size) == FlippedTile(offset)

\* Two's complement negation, then sbc of the size.
FlippedBox(offset, size) == (Magnitude(offset) - size) % 256

BoxOffset(offset, size, flipped) ==
  IF flipped THEN FlippedBox(offset, size) ELSE offset

\* runtime_collision_metasprite_bounds of an instance, one of so many: its
\* anchor and the box of its frame.
MetaspriteBounds(instance, instances, ax, ay, box, flippedX, flippedY) ==
  IF instances # 256 /\ instance >= instances THEN InvalidBox
  ELSE StoredBox(Shifted(ax, BoxOffset(box.x, box.width, flippedX)),
                 Shifted(ay, BoxOffset(box.y, box.height, flippedY)),
                 box.width, box.height)

\* runtime_collision_sprite_bounds: unsigned offsets, a carry is invalid.
Advanced(position, offset) ==
  IF position + offset > 255 THEN Clipped ELSE position + offset

SpriteBounds(sprite, x, y, box) ==
  IF sprite >= 64 THEN InvalidBox
  ELSE StoredBox(Advanced(x, box.x), Advanced(y, box.y), box.width, box.height)

\* _collision_box: both orientations of a box are signed bytes.
BoxFits(offset, size) == offset \in -128 .. 127 /\ -offset - size \in -128 .. 127

NoTile == <<>>

\* runtime_collision_background: the packed byte and the bit it tests.
TestedFlag(px, py) ==
  IF py >= 240 THEN NoTile
  ELSE <<(((py - (py % 8)) \div 2) + (px \div 64)) % 256, (px \div 8) % 8>>

\* load_collision_map: where the flag of a tile is packed.
PackedFlag(tile) == <<tile \div 8, tile % 8>>

=============================================================================
