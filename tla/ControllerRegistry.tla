------------------------- MODULE ControllerRegistry -------------------------
(***************************************************************************)
(* What the controller factory and registry promise (spec 3 and 4.2), as   *)
(* the later stages rely on it: each setup call either fails or registers  *)
(* the whole list [L1 x N, L2 x N, L3 x B, Directory] at once, the private *)
(* controllers in cpu order.  An entry is a level and the cpu it serves    *)
(* (NoCpu for the shared ones).  Versions are left out: spec 9 scopes them *)
(* to one run, which the code does not (see VersionsDense).                *)
(***************************************************************************)
EXTENDS Integers, Sequences

CONSTANTS
    Args,    \* the arguments a setup call may take (records with ncpu, nl3)
    NoCpu    \* the cpu of a shared controller

VARIABLES
    state,     \* "idle", "building", "registered" or "failed"
    args,      \* the arguments of the last call
    registry   \* the registered list, empty until it is complete

regVars == <<state, args, registry>>

\* The list the contract fixes for arguments a.
Contract(a) ==
    [p \in 1..(2 * a.ncpu + a.nl3 + 1) |->
        IF p <= a.ncpu THEN [level |-> "L1", cpu |-> p - 1]
        ELSE IF p <= 2 * a.ncpu THEN [level |-> "L2", cpu |-> p - 1 - a.ncpu]
        ELSE IF p <= 2 * a.ncpu + a.nl3 THEN [level |-> "L3", cpu |-> NoCpu]
        ELSE [level |-> "Dir", cpu |-> NoCpu]]

Init ==
    /\ state = "idle"
    /\ args \in Args
    /\ registry = <<>>

\* A setup call with arguments a, on a fresh system.
Call(a) ==
    /\ state \in {"idle", "registered"}
    /\ state' = "building"
    /\ args' = a
    /\ registry' = <<>>

\* The complete list is registered in one step.
Register ==
    /\ state = "building"
    /\ state' = "registered"
    /\ registry' = Contract(args)
    /\ UNCHANGED args

\* A configuration error ends the call with nothing registered.
Fail ==
    /\ state = "building"
    /\ state' = "failed"
    /\ UNCHANGED <<args, registry>>

Next == (\E a \in Args : Call(a)) \/ Register \/ Fail

Spec == Init /\ [][Next]_regVars

=============================================================================
