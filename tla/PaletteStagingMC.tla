-------------------------- MODULE PaletteStagingMC --------------------------
(***************************************************************************)
(* Instances of PaletteStaging for TLC.                                    *)
(***************************************************************************)
EXTENDS PaletteStaging

\* The cleared byte as a color of its own, and the default color.
TwoColors == {0, 1}

\* A color that is neither: only a call that sets it can have asked for it.
OneColor == {2}

=============================================================================
