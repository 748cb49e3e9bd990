--------------------------- MODULE FlagDetectorMC --------------------------
(* An instance of FlagDetector for TLC. *)
EXTENDS FlagDetector

CONSTANT tag
=============================================================================
