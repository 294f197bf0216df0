------------------------- MODULE MetaspriteGeometry -------------------------
(***************************************************************************)
(* Where runtime_metasprite_render puts a component of a visible           *)
(* metasprite: signed eight-bit offsets from the anchor, mirrored by the   *)
(* whole-object flips, clipped to whole tiles on the screen.               *)
(***************************************************************************)
EXTENDS Integers

AnchorBytes == 0 .. 255

\* _component: an offset and its mirror image must both be signed bytes.
ComponentOffsets == {d \in -128 .. 127 : -d - 8 \in -128 .. 127}

\* _generate_metasprite_storage stores signed offsets in two's complement.
Encoded(d) == d % 256

Clipped == -1

\* eor #$FF, sec, sbc #$07.
FlippedTile(offset) == ((255 - offset) - 7) % 256

IsNegative(offset) == offset >= 128
Magnitude(offset) == ((255 - offset) + 1) % 256

(***************************************************************************)
(* The sum of an anchor and a signed offset; the carry or the borrow of    *)
(* either branch clips the component.                                      *)
(***************************************************************************)
Shifted(anchor, offset) ==
  IF IsNegative(offset)
  THEN IF anchor < Magnitude(offset) THEN Clipped ELSE anchor - Magnitude(offset)
  ELSE IF anchor + offset > 255 THEN Clipped ELSE anchor + offset

TileOffset(offset, flipped) == IF flipped THEN FlippedTile(offset) ELSE offset

\* Fault: the right edge is tested on the branch of positive offsets only.
UncheckedComponentX(anchor, offset, flipped) ==
  LET o == TileOffset(offset, flipped)
      x == Shifted(anchor, o)
  IN IF x >= 249 /\ ~IsNegative(o) THEN Clipped ELSE x

\* The X byte of a component, or Clipped.
ComponentX(anchor, offset, flipped) ==
  LET x == Shifted(anchor, TileOffset(offset, flipped))
  IN IF x >= 249 THEN Clipped ELSE x

\* The OAM Y byte of a component, one less than its top line, or Clipped.
ComponentY(anchor, offset, flipped) ==
  LET top == Shifted(anchor, TileOffset(offset, flipped))
  IN IF top \in 1 .. 232 THEN top - 1 ELSE Clipped

=============================================================================
