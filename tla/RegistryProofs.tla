--------------------------- MODULE RegistryProofs ---------------------------
(***************************************************************************)
(* Proof that RubySetup implements the registry contract                   *)
(* (ControllerRegistry) under the mapping of RubySetup: RegState, cfg and  *)
(* RegList.  Every step of setup is a stutter of the contract except       *)
(* StartSetup (Call), a panic (Fail) and the step that appends the         *)
(* directory (Register).  That step must produce Contract(cfg) at once, so *)
(* the proof rests on IInv of RubySetupProofs (the list has its full       *)
(* length and every entry its level and cpu) and on SharedNoCpu, which     *)
(* adds that the L3s and the directory serve no cpu.                       *)
(***************************************************************************)
EXTENDS RubySetupProofs

\* The shared controllers take no cpu's clock domain.
SharedNoCpu ==
    \A p \in 1..Len(controllers) :
        controllers[p].level \in {"L3", "Dir"} => controllers[p].clk = NoCpu

\* Appending a controller that is private or has no cpu keeps SharedNoCpu.
LEMMA AppendShared ==
    ASSUME SharedNoCpu, TypeOK, NEW e \in Controller,
           controllers' = Append(controllers, e),
           e.level \in {"L3", "Dir"} => e.clk = NoCpu
    PROVE  SharedNoCpu'
<1>1. /\ Len(controllers') = Len(controllers) + 1
      /\ \A p \in 1..Len(controllers) : controllers'[p] = controllers[p]
      /\ controllers'[Len(controllers) + 1] = e
  BY AppendKeeps DEF TypeOK
<1>2. Len(controllers) \in Nat
  BY DEF TypeOK
<1>3. QED
  BY <1>1, <1>2 DEF SharedNoCpu

LEMMA NextShared == IInv /\ SharedNoCpu /\ [Next]_vars => SharedNoCpu'
<1> SUFFICES ASSUME IInv, SharedNoCpu, [Next]_vars PROVE SharedNoCpu'
  OBVIOUS
<1>0. TypeOK
  BY DEF IInv
<1>1. ASSUME NEW c \in Configs, StartSetup(c) PROVE SharedNoCpu'
  BY <1>1 DEF StartSetup, SharedNoCpu
<1>2. CASE CreateL1
  <2>1. CASE BlockSizeIsPowerOfTwo(cfg.line)
    <3>1. controllers' = Append(controllers,
              Ctrl("L1", Len(controllers), getBlockSizeBits(cfg.line), 0))
      BY <1>2, <2>1 DEF CreateL1
    <3>2. Ctrl("L1", Len(controllers), getBlockSizeBits(cfg.line), 0) \in Controller
      BY <1>2, <2>1, NextIInv DEF CreateL1, IInv, TypeOK
    <3>3. QED
      BY <1>0, <3>1, <3>2, AppendShared DEF Ctrl
  <2>2. CASE ~BlockSizeIsPowerOfTwo(cfg.line)
    BY <1>2, <2>2 DEF CreateL1, SharedNoCpu
  <2>3. QED
    BY <2>1, <2>2
<1>3. CASE CreateL2
  <2>1. CASE BlockSizeIsPowerOfTwo(cfg.line)
    <3> DEFINE e == Ctrl("L2", Len(controllers) - N, getBlockSizeBits(cfg.line),
                         l2SelectNumBits(B))
    <3>1. controllers' = Append(controllers, e)
      BY <1>3, <2>1 DEF CreateL2
    <3>2. e \in Controller
      BY <1>3, <2>1, NextIInv DEF CreateL2, IInv, TypeOK
    <3>3. QED
      BY <1>0, <3>1, <3>2, AppendShared DEF Ctrl
  <2>2. CASE ~BlockSizeIsPowerOfTwo(cfg.line)
    BY <1>3, <2>2 DEF CreateL2, SharedNoCpu
  <2>3. QED
    BY <2>1, <2>2
<1>4. CASE CreateL3
  <2> DEFINE e == Ctrl("L3", NoCpu, getIndexBit(cfg.line, B), 0)
  <2>1. controllers' = Append(controllers, e)
    BY <1>4 DEF CreateL3
  <2>2. e \in Controller
    BY <1>4, NextIInv DEF CreateL3, IInv, TypeOK
  <2>3. QED
    BY <1>0, <2>1, <2>2, AppendShared DEF Ctrl
<1>5. CASE CreateDir
  <2>1. CASE ~(cfg.nmem > 1) /\ cfg.nmem # 0
    <3> DEFINE e == Ctrl("Dir", NoCpu, 0, 0)
    <3>1. controllers' = Append(controllers, e)
      BY <1>5, <2>1 DEF CreateDir
    <3>2. e \in Controller
      BY <1>5, <2>1, NextIInv DEF CreateDir, IInv, TypeOK
    <3>3. QED
      BY <1>0, <3>1, <3>2, AppendShared DEF Ctrl
  <2>2. CASE cfg.nmem > 1 \/ cfg.nmem = 0
    BY <1>5, <2>2 DEF CreateDir, SharedNoCpu
  <2>3. QED
    BY <2>1, <2>2
<1>6. CASE WireL1L2 \/ CreateSequencers \/ BindSequencers \/ ConnectCpuPorts
      \/ UNCHANGED vars
  BY <1>6 DEF WireL1L2, CreateSequencers, BindSequencers, ConnectCpuPorts,
              vars, SharedNoCpu
<1>7. QED
  BY <1>1, <1>2, <1>3, <1>4, <1>5, <1>6 DEF Next, SetupStep


\* A list whose entries have the levels and cpus the contract puts at each
\* position, and the contract's length, is the contract's list.
LEMMA ContractList ==
    ASSUME NEW s \in Seq(Controller), NEW c \in Configs,
           Len(s) = 2 * c.ncpu + c.nl3 + 1,
           \A p \in 1..Len(s) :
               /\ s[p].level = IF p <= c.ncpu THEN "L1"
                               ELSE IF p <= 2 * c.ncpu THEN "L2"
                               ELSE IF p <= 2 * c.ncpu + c.nl3 THEN "L3"
                               ELSE "Dir"
               /\ s[p].level \in {"L1", "L2"} =>
                      s[p].clk = IF p <= c.ncpu THEN p - 1 ELSE p - 1 - c.ncpu
               /\ s[p].level \in {"L3", "Dir"} => s[p].clk = NoCpu
    PROVE  [p \in 1..Len(s) |-> [level |-> s[p].level, cpu |-> s[p].clk]]
             = Registry!Contract(c)
<1>1. c.ncpu \in Nat /\ c.nl3 \in Nat
  BY DEF Configs
<1>2. ASSUME NEW p \in 1..Len(s)
      PROVE  [level |-> s[p].level, cpu |-> s[p].clk] = Registry!Contract(c)[p]
  <2>1. CASE p <= c.ncpu
    BY <1>1, <2>1 DEF Registry!Contract
  <2>2. CASE ~(p <= c.ncpu) /\ p <= 2 * c.ncpu
    BY <1>1, <2>2 DEF Registry!Contract
  <2>3. CASE ~(p <= 2 * c.ncpu) /\ p <= 2 * c.ncpu + c.nl3
    BY <1>1, <2>3 DEF Registry!Contract
  <2>4. CASE ~(p <= 2 * c.ncpu + c.nl3)
    BY <1>1, <2>4 DEF Registry!Contract
  <2>5. QED
    BY <1>1, <2>1, <2>2, <2>3, <2>4
<1>3. QED
  BY <1>1, <1>2 DEF Registry!Contract


-----------------------------------------------------------------------------
(* The steps of setup seen through the mapping. *)

LEMMA InitRefines == Init => Registry!Init
BY DEF Init, Registry!Init, RegState, RegList

\* A step between two building phases of one call is a stutter.
LEMMA StutterBuilding ==
    ASSUME pc \in {"l1", "l2", "l3", "dir"}, pc' \in {"l1", "l2", "l3", "dir"},
           cfg' = cfg
    PROVE  UNCHANGED Registry!regVars
BY DEF Registry!regVars, RegState, RegList

\* So is a step after the list is complete that leaves it alone.
LEMMA StutterRegistered ==
    ASSUME pc \in {"wire", "seq", "bind", "ports", "done"},
           pc' \in {"wire", "seq", "bind", "ports", "done"},
           cfg' = cfg, controllers' = controllers
    PROVE  UNCHANGED Registry!regVars
BY DEF Registry!regVars, RegState, RegList

\* A panic while the list is built is a failed call.
LEMMA FailStep ==
    ASSUME pc \in {"l1", "l2", "l3", "dir"}, pc' = "panic", cfg' = cfg
    PROVE  Registry!Next
<1>1. Registry!Fail
  BY DEF Registry!Fail, RegState, RegList
<1>2. QED
  BY <1>1 DEF Registry!Next

LEMMA NextRefines ==
    IInv /\ SharedNoCpu /\ [Next]_vars => [Registry!Next]_Registry!regVars
<1> SUFFICES ASSUME IInv, SharedNoCpu, [Next]_vars
             PROVE  [Registry!Next]_Registry!regVars
  OBVIOUS
<1>0. TypeOK
  BY DEF IInv
<1>1. ASSUME NEW c \in Configs, StartSetup(c) PROVE Registry!Next
  <2>1. Registry!Call(c)
    BY <1>1 DEF StartSetup, Registry!Call, RegState, RegList
  <2>2. QED
    BY <2>1 DEF Registry!Next
<1>2. CASE CreateL1
  <2>1. pc = "l1" /\ pc' \in {"l1", "l2", "panic"} /\ cfg' = cfg
    BY <1>2 DEF CreateL1
  <2>2. QED
    BY <2>1, FailStep, StutterBuilding
<1>3. CASE CreateL2
  <2>1. pc = "l2" /\ pc' \in {"l2", "l3", "panic"} /\ cfg' = cfg
    BY <1>3 DEF CreateL2
  <2>2. QED
    BY <2>1, FailStep, StutterBuilding
<1>4. CASE CreateL3
  <2>1. pc = "l3" /\ pc' \in {"l3", "dir"} /\ cfg' = cfg
    BY <1>4 DEF CreateL3
  <2>2. QED
    BY <2>1, StutterBuilding
<1>5. CASE CreateDir
  <2>1. CASE cfg.nmem > 1 \/ cfg.nmem = 0
    <3>1. pc = "dir" /\ pc' = "panic" /\ cfg' = cfg
      BY <1>5, <2>1 DEF CreateDir
    <3>2. QED
      BY <3>1, FailStep
  <2>2. CASE ~(cfg.nmem > 1) /\ cfg.nmem # 0
    <3>1. pc = "dir" /\ pc' = "wire" /\ cfg' = cfg
      BY <1>5, <2>2 DEF CreateDir
    <3>2. IInv' /\ SharedNoCpu'
      BY NextIInv, NextShared
    <3>3. Len(controllers') = 2 * cfg.ncpu + cfg.nl3 + 1
      BY <3>1, <3>2 DEF IInv, PhaseLen, Built, N, B
    <3>4. \A p \in 1..Len(controllers') :
             /\ controllers'[p].level = IF p <= cfg.ncpu THEN "L1"
                                        ELSE IF p <= 2 * cfg.ncpu THEN "L2"
                                        ELSE IF p <= 2 * cfg.ncpu + cfg.nl3 THEN "L3"
                                        ELSE "Dir"
             /\ controllers'[p].level \in {"L1", "L2"} =>
                    controllers'[p].clk = IF p <= cfg.ncpu THEN p - 1
                                          ELSE p - 1 - cfg.ncpu
             /\ controllers'[p].level \in {"L3", "Dir"} => controllers'[p].clk = NoCpu
      BY <3>1, <3>2 DEF IInv, RegistryOrder, SharedNoCpu, LevelAt, CpuAt, N, B
    <3>5. controllers' \in Seq(Controller) /\ cfg \in Configs
      BY <1>0, <3>2 DEF IInv, TypeOK
    <3>6. RegList' = Registry!Contract(cfg)
      BY <3>1, <3>3, <3>4, <3>5, ContractList DEF RegList
    <3>7. Registry!Register
      BY <3>1, <3>6 DEF Registry!Register, RegState
    <3>8. QED
      BY <3>7 DEF Registry!Next
  <2>3. QED
    BY <2>1, <2>2
<1>6. CASE WireL1L2 \/ CreateSequencers \/ BindSequencers \/ ConnectCpuPorts
  <2>1. /\ pc \in {"wire", "seq", "bind", "ports", "done"}
        /\ pc' \in {"wire", "seq", "bind", "ports", "done"}
        /\ cfg' = cfg /\ controllers' = controllers
    BY <1>6 DEF WireL1L2, CreateSequencers, BindSequencers, ConnectCpuPorts
  <2>2. QED
    BY <2>1, StutterRegistered
<1>7. CASE UNCHANGED vars
  BY <1>7 DEF vars, Registry!regVars, RegState, RegList
<1>8. QED
  BY <1>1, <1>2, <1>3, <1>4, <1>5, <1>6, <1>7 DEF Next, SetupStep

\* The base setup implements the registry contract for every number of
\* cpus, banks, line sizes, memory controllers and setup calls: each call
\* of MyCacheSystem.setup (msi_caches.py) fails, or registers exactly
\* [L1 x N, L2 x N, L3 x B, Dir] in one step, before anything uses it.
THEOREM RegistryImplementation == Spec => RegistryRefinement
<1>1. Init => IInv /\ SharedNoCpu
  BY InitIInv DEF Init, SharedNoCpu
<1>2. IInv /\ SharedNoCpu /\ [Next]_vars => IInv' /\ SharedNoCpu'
  BY NextIInv, NextShared
<1>3. Init => Registry!Init
  BY InitRefines
<1>4. IInv /\ SharedNoCpu /\ [Next]_vars => [Registry!Next]_Registry!regVars
  BY NextRefines
<1>5. QED
  BY <1>1, <1>2, <1>3, <1>4, PTL DEF Spec, RegistryRefinement, Registry!Spec

=============================================================================
