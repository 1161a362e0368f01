---------------------------- MODULE MC_RubySetup ----------------------------
(* RubySetup on small instances: up to 2 cpus, up to 4 L3 banks, a line   *)
(* size that is a power of two and one that is not, one or two memory      *)
(* controllers.  MaxSetups is set per run.                                 *)
EXTENDS RubySetup

MCLineSizes == {48, 64}

=============================================================================
