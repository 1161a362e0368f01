---------------------------- MODULE MC_NucaSetup ----------------------------
(* NucaSetup with up to 2 cpus, 2 banks, a power-of-two line size and one *)
(* that is not, and up to 2 memory controllers.                            *)
EXTENDS NucaSetup

MCNucaLineSizes == {48, 64}

=============================================================================
