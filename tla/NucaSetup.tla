----------------------------- MODULE NucaSetup -----------------------------
(***************************************************************************)
(* MyCacheSystem.setup of the NUCA configuration                           *)
(* (config/NucaConfig/mesiCaches.py).  It builds self.controllers with the *)
(* same constructors, in the same order, as the base setup: the steps      *)
(* CreateL1 .. CreateDir of RubySetup.  It differs in two places:          *)
(*   - it first assigns an empty list to self.controllers, which gem5's    *)
(*     SimObject attribute handling (outside this repository) may reject;  *)
(*   - it wires each L1 to its L2 through self.controllers.l1_controllers  *)
(*     and l2_controllers, attributes that a list of controllers does not  *)
(*     have.                                                               *)
(* makeTopology (modelled by NucaTopology) changes no variable of this     *)
(* model; it runs between the sequencer binding and connectCpuPorts.       *)
(***************************************************************************)
EXTENDS RubySetup

\* network_options, SwitchedNUCA(self) and the virtual network counts, then
\* self.controllers = []: either the empty list is stored and the
\* constructors run, or the assignment raises AttributeError.
StartNucaSetup(c) ==
    \/ StartSetup(c)
    \/ /\ pc \in {"idle", "done"}
       /\ setups < MaxSetups
       /\ pc' = "panic"
       /\ cfg' = c
       /\ setups' = setups + 1
       /\ UNCHANGED <<version, controllers, bufferToL1, bufferFromL1,
                      sequencers, sequencerOf, cpuPort>>

\* The four list comprehensions and extends of lines 125-181.
BuildControllers == CreateL1 \/ CreateL2 \/ CreateL3 \/ CreateDir

\* for i in range(len(l1_controllers)):
\*     self.controllers.l1_controllers[i].bufferToL1 = ...
\* The list has no attribute l1_controllers: the first turn raises
\* AttributeError; with no cpus the body never runs.
WireByAttribute ==
    /\ pc = "wire"
    /\ pc' = IF N > 0 THEN "panic" ELSE "seq"
    /\ UNCHANGED <<cfg, version, controllers, bufferToL1, bufferFromL1,
                   sequencers, sequencerOf, cpuPort, setups>>

\* The sequencers on controllers[i], their binding, makeTopology, the port
\* proxy and connectCpuPorts: the same statements as the base setup.
NucaFrontEnd == CreateSequencers \/ BindSequencers \/ ConnectCpuPorts

NucaSetupStep == BuildControllers \/ WireByAttribute \/ NucaFrontEnd

NucaNext ==
    \/ \E c \in Configs : StartNucaSetup(c)
    \/ NucaSetupStep

\* As in the base setup, setup's own statements are weakly fair.
NucaFairSpec == Init /\ [][NucaNext]_vars /\ WF_vars(NucaSetupStep)

-----------------------------------------------------------------------------
\* Once setup has built the whole controller list for a valid configuration,
\* it returns (spec 4.4 and 7: the private L1/L2 pairs are wired and the
\* sequencers bound).  The base setup does; the attribute reads of
\* mesiCaches.py:184 decide it here.
ListBuiltSetupCompletes ==
    (pc = "wire" /\ ValidConfig(cfg)) ~> (pc = "done")

=============================================================================
