---------------------------- MODULE Reachability ----------------------------
(***************************************************************************)
(* Reachability over a set of directed links, each a record with at least  *)
(* the fields src and dst.  Used by the network models to state that the   *)
(* finished topology joins every node to every other.                      *)
(***************************************************************************)
EXTENDS Naturals, FiniteSets

\* The nodes of S that x reaches over links E whose ends lie in S: the
\* frontier grows one hop per step, and |S| steps reach them all.
ReachableFrom(x, S, E) ==
    LET hop[n \in Nat] ==
            IF n = 0 THEN {x}
            ELSE LET prev == hop[n - 1]
                 IN  prev \cup {l.dst : l \in {e \in E : e.src \in prev /\ e.dst \in S}}
    IN  hop[Cardinality(S)]

\* Every node of S reaches every node of S over E.
StronglyConnected(S, E) == \A x \in S : ReachableFrom(x, S, E) = S

=============================================================================
