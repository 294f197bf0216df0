------------------------- MODULE BackgroundQueueOrderMC -------------------------
(***************************************************************************)
(* Instances of BackgroundQueueOrder for TLC.                              *)
(***************************************************************************)
EXTENDS BackgroundQueueOrder

\* A tile at $22BF and a coordinate below the last row.  The tile's address and
\* that of the attribute byte below differ in both bytes, so a slot with the
\* high byte of one write and the low byte of another ($22C0, $23BF), or with a
\* byte that nobody has stored yet, has the address of no cell.
TileAndBeyond == {<<31, 21>>, <<8, 30>>}
OneTile == {<<31, 29>>}

\* The first attribute byte, at $23C0, and a column out of range.
AttributeAndBeyond == {<<0, 0>>, <<8, 30>>}

=============================================================================
