--------------------------- MODULE MC_NucaNetwork ---------------------------
(* NucaNetwork for TLC: every constant is a number, given in the cfg.      *)
EXTENDS NucaNetwork
=============================================================================
