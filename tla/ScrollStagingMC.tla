--------------------------- MODULE ScrollStagingMC ---------------------------
(***************************************************************************)
(* Instances of ScrollStaging for TLC.                                     *)
(***************************************************************************)
EXTENDS ScrollStaging

\* The reset value and two values a call can combine wrongly.
ThreeBytes == {0, 1, 255}

=============================================================================
