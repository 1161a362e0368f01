--------------------------- MODULE MC_NucaTopology ---------------------------
(* NucaTopology for up to 2 cpus and 1..5 banks: 1 (no grid links), 2, 3 *)
(* (one row), 4 (2 x 2), and 5, where banks // rows leaves a router off   *)
(* the grid.                                                              *)
EXTENDS NucaTopology

=============================================================================
