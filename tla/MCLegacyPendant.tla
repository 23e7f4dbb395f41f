--------------------------- MODULE MCLegacyPendant ---------------------------
(* A pendant that uses a few numbers and a bridge with a short queue.      *)
EXTENDS LegacyPendant, TLC
=============================================================================
