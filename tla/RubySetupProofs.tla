-------------------------- MODULE RubySetupProofs --------------------------
(***************************************************************************)
(* Proofs about RubySetup for every value of the constants: the type       *)
(* invariant, and the ordering contract with the positional L1-L2 wiring   *)
(* and sequencer binding that rest on it.                                  *)
(*                                                                         *)
(* None of RegistryOrder, PrivatePairing or FrontEndBinding is inductive   *)
(* alone: each needs to know how far setup has got.  IInv adds, for each   *)
(* phase, how many controllers exist and the exact value every later       *)
(* structure has (empty before its step, its built value after).           *)
(*                                                                         *)
(* The last part proves the configuration checks and the bit fields: it    *)
(* adds ValidSoFar (what the checks passed so far guarantee) and FieldsOK  *)
(* (the index and select bits of every L2 and L3) to IInv.                 *)
(***************************************************************************)
EXTENDS RubySetup, TLAPS

\* The value WireL1L2 gives both buffer maps.
Wiring == [p \in 1..N |-> p + N]

\* The value CreateSequencers gives self.sequencers once the L1s are in place.
BuiltSequencers == [s \in 1..N |-> [version |-> s - 1, dcache |-> s, clk |-> s - 1]]

Built == 2 * N + B + 1

\* How many controllers exist in each phase.
PhaseLen ==
    /\ pc = "idle" => controllers = <<>>
    /\ pc = "l1" => Len(controllers) < N
    /\ pc = "l2" => N <= Len(controllers) /\ Len(controllers) < 2 * N
    /\ pc = "l3" => 2 * N <= Len(controllers) /\ Len(controllers) < 2 * N + B
    /\ pc = "dir" => Len(controllers) = 2 * N + B
    /\ pc \in {"wire", "seq", "bind", "ports", "done"} => Len(controllers) = Built

\* What the steps after the controller list have built so far.
LaterBuilt ==
    /\ bufferToL1 = IF pc \in {"seq", "bind", "ports", "done"} THEN Wiring ELSE <<>>
    /\ bufferFromL1 = bufferToL1
    /\ sequencers = IF pc \in {"bind", "ports", "done"} THEN BuiltSequencers ELSE <<>>
    /\ sequencerOf = IF pc \in {"ports", "done"} THEN [p \in 1..N |-> p] ELSE <<>>
    /\ cpuPort = IF pc = "done" THEN [c \in 1..N |-> c] ELSE <<>>

IInv == TypeOK /\ RegistryOrder /\ PhaseLen /\ LaterBuilt

USE ConstAssumption

LEMMA InitIInv == Init => IInv
<1> SUFFICES ASSUME Init PROVE IInv
  OBVIOUS
<1>1. TypeOK
  BY DEF Init, TypeOK, Phases, Levels
<1>2. RegistryOrder
  BY DEF Init, RegistryOrder, Configs, N, B
<1>3. QED
  BY <1>1, <1>2 DEF Init, IInv, PhaseLen, LaterBuilt

\* The facts about the current setup's arguments every step uses.
LEMMA CfgFacts == TypeOK => N \in 1..MaxCpus /\ B \in 1..MaxL3 /\ cfg.line \in LineSizes
BY DEF TypeOK, Configs, N, B

\* A controller appended at the end keeps the earlier positions as they were.
LEMMA AppendKeeps ==
    ASSUME NEW s \in Seq(Controller), NEW e \in Controller
    PROVE  /\ Append(s, e) \in Seq(Controller)
           /\ Len(Append(s, e)) = Len(s) + 1
           /\ \A p \in 1..Len(s) : Append(s, e)[p] = s[p]
           /\ Append(s, e)[Len(s) + 1] = e
OBVIOUS

\* versionCount keeps every class counter a natural number.
LEMMA VersionCountType ==
    ASSUME NEW v \in [Levels -> Nat], NEW l \in Levels
    PROVE  [v EXCEPT ![l] = @ + 1] \in [Levels -> Nat]
OBVIOUS

\* Appending a controller the contract puts at the next position keeps the
\* ordering contract.
LEMMA AppendOrder ==
    ASSUME RegistryOrder, TypeOK, Len(controllers) \in Nat,
           NEW e \in Controller,
           cfg' = cfg,
           controllers' = Append(controllers, e),
           Len(controllers) + 1 <= 2 * N + B + 1,
           e.level = LevelAt(Len(controllers) + 1),
           e.level \in {"L1", "L2"} => e.clk = CpuAt(Len(controllers) + 1)
    PROVE  RegistryOrder'
<1>1. N' = N /\ B' = B
  BY DEF N, B
<1>2. controllers \in Seq(Controller)
  BY DEF TypeOK
<1>3. Len(controllers') = Len(controllers) + 1
  BY <1>2, AppendKeeps
<1>4. ASSUME NEW p \in 1..Len(controllers')
      PROVE  /\ controllers'[p].level = LevelAt(p)'
             /\ controllers'[p].level \in {"L1", "L2"} => controllers'[p].clk = CpuAt(p)'
  <2>1. LevelAt(p)' = LevelAt(p) /\ CpuAt(p)' = CpuAt(p)
    BY <1>1 DEF LevelAt, CpuAt
  <2>2. CASE p <= Len(controllers)
    <3>1. controllers'[p] = controllers[p]
      BY <2>2, <1>2, <1>3, AppendKeeps
    <3>2. QED
      BY <2>1, <2>2, <3>1 DEF RegistryOrder
  <2>3. CASE p = Len(controllers) + 1
    <3>1. controllers'[p] = e
      BY <2>3, <1>2, AppendKeeps
    <3>2. QED
      BY <2>1, <2>3, <3>1
  <2>4. QED
    BY <1>3, <2>2, <2>3
<1>5. QED
  BY <1>1, <1>3, <1>4 DEF RegistryOrder

\* The type of a step that appends a controller and bumps a class counter.
LEMMA AppendType ==
    ASSUME TypeOK, NEW e \in Controller,
           controllers' = Append(controllers, e),
           version' \in [Levels -> Nat],
           pc' \in Phases,
           UNCHANGED <<cfg, bufferToL1, bufferFromL1, sequencers, sequencerOf,
                       cpuPort, setups>>
    PROVE  TypeOK'
<1>1. controllers' \in Seq(Controller)
  BY AppendKeeps DEF TypeOK
<1>2. QED
  BY <1>1 DEF TypeOK

\* The positional maps the wiring steps build are sequences of indices.
LEMMA ShiftedSeq ==
    ASSUME NEW n \in Nat, NEW k \in Nat
    PROVE  /\ [p \in 1..n |-> p + k] \in Seq(Nat)
           /\ [p \in 1..n |-> p] \in Seq(Nat)
OBVIOUS

\* Once the controller list is complete, the steps that follow leave the
\* list, and so its order and length, as they are.
LEMMA FrozenList ==
    ASSUME IInv, controllers' = controllers, cfg' = cfg,
           pc \in {"wire", "seq", "bind", "ports", "done"},
           pc' \in {"wire", "seq", "bind", "ports", "done"}
    PROVE  RegistryOrder' /\ PhaseLen'
BY DEF IInv, RegistryOrder, PhaseLen, LevelAt, CpuAt, N, B, Built

LEMMA NextIInv == IInv /\ [Next]_vars => IInv'
<1> SUFFICES ASSUME IInv, [Next]_vars PROVE IInv'
  OBVIOUS
<1>0. /\ TypeOK
      /\ N \in 1..MaxCpus /\ B \in 1..MaxL3 /\ cfg.line \in LineSizes
      /\ Len(controllers) \in Nat
  BY CfgFacts DEF IInv, TypeOK
<1>1. ASSUME NEW c \in Configs, StartSetup(c) PROVE IInv'
  <2>1. TypeOK'
    BY <1>0, <1>1 DEF StartSetup, IInv, TypeOK, Phases
  <2>2. RegistryOrder'
    BY <1>1 DEF StartSetup, RegistryOrder, Configs, N, B
  <2>3. QED
    BY <1>1, <2>1, <2>2 DEF StartSetup, IInv, PhaseLen, LaterBuilt, N, Configs
<1>2. CASE CreateL1
  <2>1. CASE BlockSizeIsPowerOfTwo(cfg.line)
    <3> DEFINE e == Ctrl("L1", Len(controllers), getBlockSizeBits(cfg.line), 0)
    <3>1. Len(controllers) < N /\ pc = "l1"
      BY <1>2 DEF CreateL1, IInv, PhaseLen
    <3>2. e \in Controller
      <4>1. Len(controllers) \in Cpus
        BY <1>0, <3>1 DEF TypeOK, Cpus
      <4>2. getBlockSizeBits(cfg.line) \in IndexBits
        <5>1. getBlockSizeBits(cfg.line) \in {getBlockSizeBits(l) : l \in LineSizes}
          BY <1>0
        <5>2. QED
          BY <5>1, Zenon DEF IndexBits
      <4>3. version["L1"] \in Nat
        BY <1>0 DEF TypeOK, Levels
      <4>4. QED
        BY <4>1, <4>2, <4>3 DEF Ctrl, Controller, Levels, SelectBits
    <3>3. controllers' = Append(controllers, e) /\ cfg' = cfg
      BY <1>2, <2>1 DEF CreateL1
    <3>4. TypeOK'
      <4>1. version' \in [Levels -> Nat]
        BY <1>0, <1>2, VersionCountType DEF CreateL1, versionCount, TypeOK, Levels
      <4>2. pc' \in Phases /\ UNCHANGED <<cfg, bufferToL1, bufferFromL1, sequencers, sequencerOf,
                             cpuPort, setups>>
        BY <1>2, <2>1 DEF CreateL1, Phases
      <4>3. QED
        BY <1>0, <3>2, <3>3, <4>1, <4>2, AppendType DEF IInv
    <3>5. RegistryOrder'
      <4>1. LevelAt(Len(controllers) + 1) = "L1"
            /\ CpuAt(Len(controllers) + 1) = Len(controllers)
        BY <1>0, <3>1 DEF LevelAt, CpuAt
      <4>2. QED
        BY <1>0, <3>1, <3>2, <3>3, <4>1, AppendOrder DEF IInv, Ctrl
    <3>6. PhaseLen'
      <4>1. Len(controllers') = Len(controllers) + 1
        BY <1>0, <3>2, <3>3, AppendKeeps DEF TypeOK
      <4>2. pc' = IF Len(controllers) + 1 = N THEN "l2" ELSE "l1"
        BY <1>2, <2>1 DEF CreateL1
      <4>3. CASE Len(controllers) + 1 = N
        BY <1>0, <3>3, <4>1, <4>2, <4>3 DEF PhaseLen, N, B
      <4>4. CASE Len(controllers) + 1 # N
        <5>1. pc' = pc
          BY <3>1, <4>2, <4>4
        <5>2. Len(controllers') < N
          BY <1>0, <3>1, <4>1, <4>4
        <5>3. N' = N /\ B' = B
          BY <3>3 DEF N, B
        <5>4. QED
          BY <1>0, <3>1, <4>1, <5>1, <5>2, <5>3 DEF PhaseLen
      <4>5. QED
        BY <4>4, <4>3
    <3>7. LaterBuilt'
      BY <1>2, <2>1, <3>1, <3>3 DEF CreateL1, IInv, LaterBuilt, N, B
    <3>8. QED
      BY <3>4, <3>5, <3>6, <3>7 DEF IInv
  <2>2. CASE ~BlockSizeIsPowerOfTwo(cfg.line)
    <3>1. TypeOK'
      <4>1. version' \in [Levels -> Nat]
        BY <1>0, <1>2, VersionCountType DEF CreateL1, versionCount, TypeOK, Levels
      <4>2. QED
        BY <1>0, <1>2, <2>2, <4>1 DEF CreateL1, TypeOK, Phases
    <3>2. QED
      BY <1>2, <2>2, <3>1 DEF CreateL1, IInv, RegistryOrder, PhaseLen, LaterBuilt,
                              LevelAt, CpuAt, N, B
  <2>3. QED
    BY <2>1, <2>2
<1>3. CASE CreateL2
  <2>1. CASE BlockSizeIsPowerOfTwo(cfg.line)
    <3> DEFINE e == Ctrl("L2", Len(controllers) - N, getBlockSizeBits(cfg.line),
                         l2SelectNumBits(B))
    <3>1. N <= Len(controllers) /\ Len(controllers) < 2 * N /\ pc = "l2"
      BY <1>3 DEF CreateL2, IInv, PhaseLen
    <3>2. e \in Controller
      <4>1. Len(controllers) - N \in Cpus
        BY <1>0, <3>1 DEF Cpus
      <4>2. getBlockSizeBits(cfg.line) \in IndexBits
        <5>1. getBlockSizeBits(cfg.line) \in {getBlockSizeBits(l) : l \in LineSizes}
          BY <1>0
        <5>2. QED
          BY <5>1, Zenon DEF IndexBits
      <4>3. l2SelectNumBits(B) \in SelectBits
        <5>1. l2SelectNumBits(B) \in {l2SelectNumBits(n) : n \in 1..MaxL3}
          BY <1>0
        <5>2. QED
          BY <5>1, Zenon DEF SelectBits
      <4>4. version["L2"] \in Nat
        BY <1>0 DEF TypeOK, Levels
      <4>5. QED
        BY <4>1, <4>2, <4>3, <4>4 DEF Ctrl, Controller, Levels
    <3>3. controllers' = Append(controllers, e) /\ cfg' = cfg
      BY <1>3, <2>1 DEF CreateL2
    <3>4. TypeOK'
      <4>1. version' \in [Levels -> Nat]
        BY <1>0, <1>3, VersionCountType DEF CreateL2, versionCount, TypeOK, Levels
      <4>2. pc' \in Phases /\ UNCHANGED <<cfg, bufferToL1, bufferFromL1, sequencers, sequencerOf,
                             cpuPort, setups>>
        BY <1>3, <2>1 DEF CreateL2, Phases
      <4>3. QED
        BY <1>0, <3>2, <3>3, <4>1, <4>2, AppendType DEF IInv
    <3>5. RegistryOrder'
      <4>1. LevelAt(Len(controllers) + 1) = "L2"
            /\ CpuAt(Len(controllers) + 1) = Len(controllers) - N
        BY <1>0, <3>1 DEF LevelAt, CpuAt
      <4>2. QED
        BY <1>0, <3>1, <3>2, <3>3, <4>1, AppendOrder DEF IInv, Ctrl
    <3>6. PhaseLen'
      <4>1. Len(controllers') = Len(controllers) + 1
        BY <1>0, <3>2, <3>3, AppendKeeps DEF TypeOK
      <4>2. pc' = IF Len(controllers) + 1 = 2 * N THEN "l3" ELSE "l2"
        BY <1>3, <2>1 DEF CreateL2
      <4>3. CASE Len(controllers) + 1 = 2 * N
        BY <1>0, <3>3, <4>1, <4>2, <4>3 DEF PhaseLen, N, B
      <4>4. CASE Len(controllers) + 1 # 2 * N
        <5>1. pc' = pc
          BY <3>1, <4>2, <4>4
        <5>2. Len(controllers') < 2 * N
          BY <1>0, <3>1, <4>1, <4>4
        <5>3. N' = N /\ B' = B
          BY <3>3 DEF N, B
        <5>4. QED
          BY <1>0, <3>1, <4>1, <5>1, <5>2, <5>3 DEF PhaseLen
      <4>5. QED
        BY <4>4, <4>3
    <3>7. LaterBuilt'
      BY <1>3, <2>1, <3>1, <3>3 DEF CreateL2, IInv, LaterBuilt, N, B
    <3>8. QED
      BY <3>4, <3>5, <3>6, <3>7 DEF IInv
  <2>2. CASE ~BlockSizeIsPowerOfTwo(cfg.line)
    <3>1. TypeOK'
      <4>1. version' \in [Levels -> Nat]
        BY <1>0, <1>3, VersionCountType DEF CreateL2, versionCount, TypeOK, Levels
      <4>2. QED
        BY <1>0, <1>3, <2>2, <4>1 DEF CreateL2, TypeOK, Phases
    <3>2. QED
      BY <1>3, <2>2, <3>1 DEF CreateL2, IInv, RegistryOrder, PhaseLen, LaterBuilt,
                              LevelAt, CpuAt, N, B
  <2>3. QED
    BY <2>1, <2>2
<1>4. CASE CreateL3
  <3> DEFINE e == Ctrl("L3", NoCpu, getIndexBit(cfg.line, B), 0)
  <3>1. 2 * N <= Len(controllers) /\ Len(controllers) < 2 * N + B /\ pc = "l3"
    BY <1>4 DEF CreateL3, IInv, PhaseLen
  <3>2. e \in Controller
    <4>1. getIndexBit(cfg.line, B) \in IndexBits
      <5>1. getIndexBit(cfg.line, B) \in {getIndexBit(cfg.line, n) : n \in 1..MaxL3}
        BY <1>0
      <5>2. QED
        BY <5>1, <1>0, Zenon DEF IndexBits
    <4>2. version["L3"] \in Nat
      BY <1>0 DEF TypeOK, Levels
    <4>3. QED
      BY <4>1, <4>2 DEF Ctrl, Controller, Levels, SelectBits, NoCpu, IndexBits
  <3>3. controllers' = Append(controllers, e) /\ cfg' = cfg
    BY <1>4 DEF CreateL3
  <3>4. TypeOK'
    <4>1. version' \in [Levels -> Nat]
      BY <1>0, <1>4, VersionCountType DEF CreateL3, versionCount, TypeOK, Levels
    <4>2. pc' \in Phases /\ UNCHANGED <<cfg, bufferToL1, bufferFromL1, sequencers, sequencerOf,
                           cpuPort, setups>>
      BY <1>4 DEF CreateL3, Phases
    <4>3. QED
      BY <1>0, <3>2, <3>3, <4>1, <4>2, AppendType DEF IInv
  <3>5. RegistryOrder'
    <4>1. LevelAt(Len(controllers) + 1) = "L3"
      BY <1>0, <3>1 DEF LevelAt
    <4>2. QED
      BY <1>0, <3>1, <3>2, <3>3, <4>1, AppendOrder DEF IInv, Ctrl
  <3>6. PhaseLen'
    <4>1. Len(controllers') = Len(controllers) + 1
      BY <1>0, <3>2, <3>3, AppendKeeps DEF TypeOK
    <4>2. pc' = IF Len(controllers) + 1 = 2 * N + B THEN "dir" ELSE "l3"
      BY <1>4 DEF CreateL3
    <4>3. CASE Len(controllers) + 1 = 2 * N + B
      BY <3>3, <4>1, <4>2, <4>3 DEF PhaseLen, N, B
    <4>4. CASE Len(controllers) + 1 # 2 * N + B
      <5>1. pc' = pc
        BY <3>1, <4>2, <4>4
      <5>2. Len(controllers') < 2 * N + B
        BY <1>0, <3>1, <4>1, <4>4
      <5>3. N' = N /\ B' = B
        BY <3>3 DEF N, B
      <5>4. QED
        BY <1>0, <3>1, <4>1, <5>1, <5>2, <5>3 DEF PhaseLen
    <4>5. QED
      BY <4>3, <4>4
  <3>7. LaterBuilt'
    BY <1>4, <3>1, <3>3 DEF CreateL3, IInv, LaterBuilt, N, B
  <3>8. QED
    BY <3>4, <3>5, <3>6, <3>7 DEF IInv
<1>5. CASE CreateDir
  <2>1. CASE cfg.nmem > 1
    BY <1>0, <1>5, <2>1 DEF CreateDir, IInv, TypeOK, RegistryOrder, PhaseLen, LaterBuilt,
                            Phases, LevelAt, CpuAt, N, B
  <2>4. CASE cfg.nmem = 0
    <3>1. TypeOK'
      <4>1. version' \in [Levels -> Nat]
        <5>1. versionCount("Dir")
          BY <1>5, <2>4 DEF CreateDir
        <5>2. QED
          BY <1>0, <5>1, VersionCountType DEF versionCount, TypeOK, Levels
      <4>2. QED
        BY <1>0, <1>5, <2>4, <4>1 DEF CreateDir, TypeOK, Phases
    <3>2. QED
      BY <1>5, <2>4, <3>1 DEF CreateDir, IInv, RegistryOrder, PhaseLen, LaterBuilt,
                              LevelAt, CpuAt, N, B
  <2>2. CASE ~(cfg.nmem > 1) /\ cfg.nmem # 0
    <3> DEFINE e == Ctrl("Dir", NoCpu, 0, 0)
    <3>1. Len(controllers) = 2 * N + B /\ pc = "dir"
      BY <1>5 DEF CreateDir, IInv, PhaseLen
    <3>2. e \in Controller
      <4>1. version["Dir"] \in Nat
        BY <1>0 DEF TypeOK, Levels
      <4>2. QED
        BY <4>1 DEF Ctrl, Controller, Levels, SelectBits, NoCpu, IndexBits
    <3>3. controllers' = Append(controllers, e) /\ cfg' = cfg
      BY <1>5, <2>2 DEF CreateDir
    <3>4. TypeOK'
      <4>1. version' \in [Levels -> Nat]
        <5>1. versionCount("Dir")
          BY <1>5, <2>2 DEF CreateDir
        <5>2. QED
          BY <1>0, <5>1, VersionCountType DEF versionCount, TypeOK, Levels
      <4>2. pc' \in Phases /\ UNCHANGED <<cfg, bufferToL1, bufferFromL1, sequencers, sequencerOf,
                             cpuPort, setups>>
        BY <1>5, <2>2 DEF CreateDir, Phases
      <4>3. QED
        BY <1>0, <3>2, <3>3, <4>1, <4>2, AppendType DEF IInv
    <3>5. RegistryOrder'
      <4>1. LevelAt(Len(controllers) + 1) = "Dir"
        BY <1>0, <3>1 DEF LevelAt
      <4>2. QED
        BY <1>0, <3>1, <3>2, <3>3, <4>1, AppendOrder DEF IInv, Ctrl
    <3>6. PhaseLen'
      <4>1. Len(controllers') = Len(controllers) + 1
        BY <1>0, <3>2, <3>3, AppendKeeps DEF TypeOK
      <4>2. pc' = "wire"
        BY <1>5, <2>2 DEF CreateDir
      <4>3. QED
        BY <3>1, <3>3, <4>1, <4>2 DEF PhaseLen, Built, N, B
    <3>7. LaterBuilt'
      BY <1>5, <2>2, <3>1, <3>3 DEF CreateDir, IInv, LaterBuilt, N, B
    <3>8. QED
      BY <3>4, <3>5, <3>6, <3>7 DEF IInv
  <2>3. QED
    BY <2>1, <2>2, <2>4
<1>6. CASE WireL1L2
  <2>1. pc = "wire" /\ pc' = "seq" /\ controllers' = controllers /\ cfg' = cfg
    BY <1>6 DEF WireL1L2
  <2>2. TypeOK'
    <3>1. Wiring \in Seq(Nat)
      BY <1>0, ShiftedSeq DEF Wiring, N
    <3>2. bufferToL1' = Wiring /\ bufferFromL1' = Wiring
      BY <1>6 DEF WireL1L2, Wiring, N
    <3>3. QED
      BY <1>0, <1>6, <3>1, <3>2, Zenon DEF WireL1L2, TypeOK, Phases
  <2>3. RegistryOrder' /\ PhaseLen'
    BY <2>1, FrozenList
  <2>4. LaterBuilt'
    BY <1>6, <2>1 DEF WireL1L2, IInv, LaterBuilt, Wiring, N
  <2>5. QED
    BY <2>2, <2>3, <2>4 DEF IInv
<1>7. CASE CreateSequencers
  <2>1. pc = "seq" /\ pc' = "bind" /\ controllers' = controllers /\ cfg' = cfg
    BY <1>7 DEF CreateSequencers
  <2>2. Len(controllers) = Built
    BY <2>1 DEF IInv, PhaseLen
  <2>3. \A s \in 1..N : controllers[s].clk = s - 1
    <3>1. SUFFICES ASSUME NEW s \in 1..N PROVE controllers[s].clk = s - 1
      OBVIOUS
    <3>2. s \in 1..Len(controllers) /\ LevelAt(s) = "L1" /\ CpuAt(s) = s - 1
      BY <1>0, <2>2 DEF Built, LevelAt, CpuAt
    <3>3. QED
      BY <3>2 DEF IInv, RegistryOrder
  <2>4. sequencers' = BuiltSequencers
    BY <1>7, <2>3 DEF CreateSequencers, BuiltSequencers
  <2>5. BuiltSequencers \in Seq(Sequencer)
    BY <1>0 DEF BuiltSequencers, Sequencer, Cpus
  <2>6. TypeOK'
    BY <1>0, <1>7, <2>4, <2>5, Zenon DEF CreateSequencers, TypeOK, Phases
  <2>7. RegistryOrder' /\ PhaseLen'
    BY <2>1, FrozenList
  <2>8. LaterBuilt'
    BY <1>7, <2>1, <2>4 DEF CreateSequencers, IInv, LaterBuilt, Wiring, BuiltSequencers, N
  <2>9. QED
    BY <2>6, <2>7, <2>8 DEF IInv
<1>8. CASE BindSequencers
  <2>1. pc = "bind" /\ pc' = "ports" /\ controllers' = controllers /\ cfg' = cfg
    BY <1>8 DEF BindSequencers
  <2>2. Len(sequencers) = N
    <3>1. sequencers = BuiltSequencers
      BY <2>1 DEF IInv, LaterBuilt
    <3>2. QED
      BY <1>0, <3>1 DEF BuiltSequencers
  <2>3. sequencerOf' = [p \in 1..N |-> p]
    BY <1>8, <2>2 DEF BindSequencers
  <2>4. TypeOK'
    <3>1. [p \in 1..N |-> p] \in Seq(Nat)
      BY <1>0, ShiftedSeq DEF N
    <3>2. QED
      BY <1>0, <1>8, <2>3, <3>1, Zenon DEF BindSequencers, TypeOK, Phases
  <2>5. RegistryOrder' /\ PhaseLen'
    BY <2>1, FrozenList
  <2>6. LaterBuilt'
    BY <1>8, <2>1, <2>3 DEF BindSequencers, IInv, LaterBuilt, Wiring, BuiltSequencers, N
  <2>7. QED
    BY <2>4, <2>5, <2>6 DEF IInv
<1>9. CASE ConnectCpuPorts
  <2>1. pc = "ports" /\ pc' = "done" /\ controllers' = controllers /\ cfg' = cfg
    BY <1>9 DEF ConnectCpuPorts
  <2>2. TypeOK'
    <3>1. [c \in 1..N |-> c] \in Seq(Nat)
      BY <1>0, ShiftedSeq DEF N
    <3>2. cpuPort' = [c \in 1..N |-> c]
      BY <1>9 DEF ConnectCpuPorts
    <3>3. QED
      BY <1>0, <1>9, <3>1, <3>2, Zenon DEF ConnectCpuPorts, TypeOK, Phases
  <2>3. RegistryOrder' /\ PhaseLen'
    BY <2>1, FrozenList
  <2>4. LaterBuilt'
    BY <1>9, <2>1 DEF ConnectCpuPorts, IInv, LaterBuilt, Wiring, BuiltSequencers, N
  <2>5. QED
    BY <2>2, <2>3, <2>4 DEF IInv
<1>10. CASE UNCHANGED vars
  BY <1>10 DEF vars, IInv, TypeOK, RegistryOrder, PhaseLen, LaterBuilt, LevelAt, CpuAt,
               N, B, Wiring, BuiltSequencers, Built
<1>11. QED
  BY <1>1, <1>2, <1>3, <1>4, <1>5, <1>6, <1>7, <1>8, <1>9, <1>10 DEF Next, SetupStep

-----------------------------------------------------------------------------
\* The wiring built by msi_caches.py:142-144 pairs the right controllers:
\* given the invariant, every wired position holds an L1 whose buffers both
\* lead to the L2 of the same cpu.
LEMMA IInvPairing == IInv => PrivatePairing
<1> SUFFICES ASSUME IInv, NEW p \in DOMAIN bufferToL1
             PROVE  /\ p \in DOMAIN bufferFromL1
                    /\ bufferFromL1[p] = bufferToL1[p]
                    /\ controllers[p].level = "L1"
                    /\ controllers[bufferToL1[p]].level = "L2"
                    /\ controllers[bufferToL1[p]].clk = controllers[p].clk
  BY DEF PrivatePairing
<1>1. N \in 1..MaxCpus /\ B \in 1..MaxL3
  BY CfgFacts DEF IInv
<1>2. pc \in {"seq", "bind", "ports", "done"}
  BY DEF IInv, LaterBuilt
<1>3. bufferToL1 = Wiring /\ bufferFromL1 = Wiring /\ Len(controllers) = Built
  BY <1>2 DEF IInv, LaterBuilt, PhaseLen
<1>4. p \in 1..N /\ bufferToL1[p] = p + N
  BY <1>3 DEF Wiring
<1>5. /\ p \in 1..Len(controllers) /\ LevelAt(p) = "L1" /\ CpuAt(p) = p - 1
      /\ p + N \in 1..Len(controllers) /\ LevelAt(p + N) = "L2"
      /\ CpuAt(p + N) = p - 1
  BY <1>1, <1>3, <1>4 DEF Built, LevelAt, CpuAt
<1>6. /\ controllers[p].level = "L1" /\ controllers[p].clk = p - 1
      /\ controllers[p + N].level = "L2" /\ controllers[p + N].clk = p - 1
  BY <1>5 DEF IInv, RegistryOrder
<1>7. QED
  BY <1>3, <1>4, <1>6

\* Given the invariant, setup that returns has bound each cpu to a sequencer
\* in its clock domain whose dcache is that cpu's L1, holding the sequencer.
LEMMA IInvFrontEnd == IInv => FrontEndBinding
<1> SUFFICES ASSUME IInv, pc = "done", NEW c \in 0..(N - 1)
             PROVE  LET s == cpuPort[c + 1]
                        d == sequencers[s].dcache
                    IN  /\ sequencers[s].clk = c
                        /\ controllers[d].level = "L1"
                        /\ controllers[d].clk = c
                        /\ sequencerOf[d] = s
  BY DEF FrontEndBinding
<1>1. N \in 1..MaxCpus /\ B \in 1..MaxL3
  BY CfgFacts DEF IInv
<1>2. /\ cpuPort = [k \in 1..N |-> k]
      /\ sequencers = BuiltSequencers
      /\ sequencerOf = [k \in 1..N |-> k]
      /\ Len(controllers) = Built
  BY DEF IInv, LaterBuilt, PhaseLen
<1>3. /\ cpuPort[c + 1] = c + 1
      /\ sequencers[c + 1].dcache = c + 1
      /\ sequencers[c + 1].clk = c
      /\ sequencerOf[c + 1] = c + 1
  BY <1>1, <1>2 DEF BuiltSequencers
<1>4. c + 1 \in 1..Len(controllers) /\ LevelAt(c + 1) = "L1" /\ CpuAt(c + 1) = c
  BY <1>1, <1>2 DEF Built, LevelAt, CpuAt
<1>5. controllers[c + 1].level = "L1" /\ controllers[c + 1].clk = c
  BY <1>4 DEF IInv, RegistryOrder
<1>6. QED
  BY <1>3, <1>5

\* Type correctness of the setup model: every state setup reaches, across
\* any number of setup runs, keeps each structure of MyCacheSystem in its type.
THEOREM TypeCorrect == Spec => []TypeOK
<1>1. Init => IInv
  BY InitIInv
<1>2. IInv /\ [Next]_vars => IInv'
  BY NextIInv
<1>3. IInv => TypeOK
  BY DEF IInv
<1>4. QED
  BY <1>1, <1>2, <1>3, PTL DEF Spec

\* The ordering contract of MyCacheSystem.setup holds in every state of every
\* run: the controller list is [L1 x N, L2 x N, L3 x B, Dir] in cpu order,
\* the positional L1-L2 wiring pairs the controllers of one cpu, and the
\* positional sequencer binding gives each cpu its own L1.
THEOREM OrderingContract == Spec => [](RegistryOrder /\ PrivatePairing /\ FrontEndBinding)
<1>1. Init => IInv
  BY InitIInv
<1>2. IInv /\ [Next]_vars => IInv'
  BY NextIInv
<1>3. IInv => RegistryOrder /\ PrivatePairing /\ FrontEndBinding
  BY IInvPairing, IInvFrontEnd DEF IInv
<1>4. QED
  BY <1>1, <1>2, <1>3, PTL DEF Spec


-----------------------------------------------------------------------------
(***************************************************************************)
(* The configuration checks and the bit fields.  ValidSoFar records what   *)
(* the checks passed so far guarantee; FieldsOK the start_index_bit and    *)
(* l2_select_num_bits every L2 and L3 was built with.                      *)
(***************************************************************************)
ValidSoFar ==
    /\ pc \in {"l2", "l3", "dir", "wire", "seq", "bind", "ports", "done"}
         => BlockSizeIsPowerOfTwo(cfg.line)
    /\ pc \in {"wire", "seq", "bind", "ports", "done"} => cfg.nmem = 1

FieldsOK ==
    \A p \in 1..Len(controllers) :
        /\ controllers[p].level = "L2" =>
               /\ controllers[p].indexBit = getBlockSizeBits(cfg.line)
               /\ controllers[p].selectBits = l2SelectNumBits(B)
        /\ controllers[p].level = "L3" =>
               controllers[p].indexBit = getIndexBit(cfg.line, B)

\* Appending a controller with the right fields for its level keeps FieldsOK.
LEMMA AppendFields ==
    ASSUME FieldsOK, TypeOK, NEW e \in Controller,
           controllers' = Append(controllers, e), cfg' = cfg,
           e.level = "L2" => /\ e.indexBit = getBlockSizeBits(cfg.line)
                             /\ e.selectBits = l2SelectNumBits(B),
           e.level = "L3" => e.indexBit = getIndexBit(cfg.line, B)
    PROVE  FieldsOK'
<1>1. /\ Len(controllers') = Len(controllers) + 1
      /\ \A p \in 1..Len(controllers) : controllers'[p] = controllers[p]
      /\ controllers'[Len(controllers) + 1] = e
  BY AppendKeeps DEF TypeOK
<1>2. Len(controllers) \in Nat
  BY DEF TypeOK
<1>3. QED
  BY <1>1, <1>2 DEF FieldsOK, B

\* A log2 floor of a line size or a bank count is a natural number.
LEMMA Log2FloorNat ==
    ASSUME NEW x \in LineSizes \cup (1..MaxL3)
    PROVE  Log2Floor(x) \in Nat
<1>1. \E k \in 0..x : 2^k <= x /\ x < 2^(k + 1)
  BY Log2FloorDefined
<1>2. Log2Floor(x) \in 0..x
  BY <1>1, Zenon DEF Log2Floor
<1>3. QED
  BY <1>2, ConstAssumption


\* Every step keeps ValidSoFar and FieldsOK, given the ordering invariant.
LEMMA NextChecks == IInv /\ ValidSoFar /\ FieldsOK /\ [Next]_vars => ValidSoFar' /\ FieldsOK'
<1> SUFFICES ASSUME IInv, ValidSoFar, FieldsOK, [Next]_vars
             PROVE  ValidSoFar' /\ FieldsOK'
  OBVIOUS
<1>0. /\ TypeOK
      /\ N \in 1..MaxCpus /\ B \in 1..MaxL3 /\ cfg.line \in LineSizes
      /\ cfg.nmem \in 0..MaxMemCtrls
  BY CfgFacts DEF IInv, TypeOK, Configs
<1>1. ASSUME NEW c \in Configs, StartSetup(c) PROVE ValidSoFar' /\ FieldsOK'
  BY <1>1 DEF StartSetup, ValidSoFar, FieldsOK
<1>2. CASE CreateL1
  <2>1. CASE BlockSizeIsPowerOfTwo(cfg.line)
    <3> DEFINE e == Ctrl("L1", Len(controllers), getBlockSizeBits(cfg.line), 0)
    <3>1. e \in Controller /\ e.level = "L1"
      BY <1>0, <1>2, <2>1, NextIInv DEF CreateL1, IInv, TypeOK, Ctrl
    <3>2. controllers' = Append(controllers, e) /\ cfg' = cfg
      BY <1>2, <2>1 DEF CreateL1
    <3>3. FieldsOK'
      BY <1>0, <3>1, <3>2, AppendFields
    <3>4. pc' \in {"l1", "l2"}
      BY <1>2, <2>1 DEF CreateL1
    <3>5. QED
      BY <2>1, <3>2, <3>3, <3>4 DEF ValidSoFar
  <2>2. CASE ~BlockSizeIsPowerOfTwo(cfg.line)
    BY <1>2, <2>2 DEF CreateL1, ValidSoFar, FieldsOK, B
  <2>3. QED
    BY <2>1, <2>2
<1>3. CASE CreateL2
  <2>1. CASE BlockSizeIsPowerOfTwo(cfg.line)
    <3> DEFINE e == Ctrl("L2", Len(controllers) - N, getBlockSizeBits(cfg.line),
                         l2SelectNumBits(B))
    <3>1. e \in Controller
      BY <1>0, <1>3, <2>1, NextIInv DEF CreateL2, IInv, TypeOK
    <3>2. controllers' = Append(controllers, e) /\ cfg' = cfg
      BY <1>3, <2>1 DEF CreateL2
    <3>3. e.level = "L2" /\ e.indexBit = getBlockSizeBits(cfg.line)
          /\ e.selectBits = l2SelectNumBits(B)
      BY DEF Ctrl
    <3>4. FieldsOK'
      BY <1>0, <3>1, <3>2, <3>3, AppendFields
    <3>5. QED
      BY <1>3, <2>1, <3>2, <3>4 DEF CreateL2, ValidSoFar
  <2>2. CASE ~BlockSizeIsPowerOfTwo(cfg.line)
    BY <1>3, <2>2 DEF CreateL2, ValidSoFar, FieldsOK, B
  <2>3. QED
    BY <2>1, <2>2
<1>4. CASE CreateL3
  <2> DEFINE e == Ctrl("L3", NoCpu, getIndexBit(cfg.line, B), 0)
  <2>1. e \in Controller
    BY <1>0, <1>4, NextIInv DEF CreateL3, IInv, TypeOK
  <2>2. controllers' = Append(controllers, e) /\ cfg' = cfg
    BY <1>4 DEF CreateL3
  <2>3. e.level = "L3" /\ e.indexBit = getIndexBit(cfg.line, B)
    BY DEF Ctrl
  <2>4. FieldsOK'
    BY <1>0, <2>1, <2>2, <2>3, AppendFields
  <2>5. QED
    BY <1>4, <2>2, <2>4 DEF CreateL3, ValidSoFar
<1>5. CASE CreateDir
  <2>1. CASE cfg.nmem > 1 \/ cfg.nmem = 0
    BY <1>5, <2>1 DEF CreateDir, ValidSoFar, FieldsOK, B
  <2>2. CASE ~(cfg.nmem > 1) /\ cfg.nmem # 0
    <3> DEFINE e == Ctrl("Dir", NoCpu, 0, 0)
    <3>1. e \in Controller
      BY <1>0, <1>5, <2>2, NextIInv DEF CreateDir, IInv, TypeOK
    <3>2. controllers' = Append(controllers, e) /\ cfg' = cfg /\ pc' = "wire"
      BY <1>5, <2>2 DEF CreateDir
    <3>3. e.level = "Dir"
      BY DEF Ctrl
    <3>4. FieldsOK'
      BY <1>0, <3>1, <3>2, <3>3, AppendFields
    <3>5. cfg.nmem = 1
      BY <1>0, <2>2
    <3>6. QED
      BY <1>5, <3>2, <3>4, <3>5 DEF CreateDir, ValidSoFar
  <2>3. QED
    BY <2>1, <2>2
<1>6. CASE WireL1L2
  BY <1>6 DEF WireL1L2, ValidSoFar, FieldsOK, B
<1>7. CASE CreateSequencers
  BY <1>7 DEF CreateSequencers, ValidSoFar, FieldsOK, B
<1>8. CASE BindSequencers
  BY <1>8 DEF BindSequencers, ValidSoFar, FieldsOK, B
<1>9. CASE ConnectCpuPorts
  BY <1>9 DEF ConnectCpuPorts, ValidSoFar, FieldsOK, B
<1>10. CASE UNCHANGED vars
  BY <1>10 DEF vars, ValidSoFar, FieldsOK, B
<1>11. QED
  BY <1>1, <1>2, <1>3, <1>4, <1>5, <1>6, <1>7, <1>8, <1>9, <1>10 DEF Next, SetupStep


\* The two configuration facts follow from the strengthened invariant.
LEMMA ChecksImply == IInv /\ ValidSoFar /\ FieldsOK => DoneOnlyForValidConfig /\ IndexBitsAgree
<1> SUFFICES ASSUME IInv, ValidSoFar, FieldsOK
             PROVE  DoneOnlyForValidConfig /\ IndexBitsAgree
  OBVIOUS
<1>1. DoneOnlyForValidConfig
  BY DEF ValidSoFar, DoneOnlyForValidConfig
<1>2. ASSUME NEW p \in 1..Len(controllers), NEW q \in 1..Len(controllers),
             controllers[p].level = "L3", controllers[q].level = "L2"
      PROVE  controllers[p].indexBit
               = controllers[q].indexBit + controllers[q].selectBits
  <2>1. cfg.line \in LineSizes /\ B \in 1..MaxL3
    BY CfgFacts DEF IInv
  <2>2. Log2Floor(cfg.line) \in Nat /\ Log2Floor(B) \in Nat
    BY <2>1, Log2FloorNat
  <2>3. /\ controllers[p].indexBit = Log2Floor(B) + Log2Floor(cfg.line)
        /\ controllers[q].indexBit = Log2Floor(cfg.line)
        /\ controllers[q].selectBits = Log2Floor(B)
    BY <1>2 DEF FieldsOK, getIndexBit, getBlockSizeBits, l2SelectNumBits
  <2>4. Log2Floor(B) + Log2Floor(cfg.line) = Log2Floor(cfg.line) + Log2Floor(B)
    BY <2>2
  <2>5. QED
    BY <2>3, <2>4
<1>3. QED
  BY <1>1, <1>2 DEF IndexBitsAgree

\* Setup returns only after its configuration checks passed (a power-of-two
\* line size, exactly one memory controller: the panics of getBlockSizeBits
\* and DirController and the IndexError of mem_ctrls[0]), and every L3's
\* start_index_bit skips exactly an L2's block bits and bank-select bits,
\* for every number of cpus, banks, line sizes and setup calls.
THEOREM ConfigChecks == Spec => [](DoneOnlyForValidConfig /\ IndexBitsAgree)
<1>1. Init => IInv /\ ValidSoFar /\ FieldsOK
  BY InitIInv DEF Init, ValidSoFar, FieldsOK
<1>2. IInv /\ ValidSoFar /\ FieldsOK /\ [Next]_vars => (IInv /\ ValidSoFar /\ FieldsOK)'
  BY NextIInv, NextChecks
<1>3. IInv /\ ValidSoFar /\ FieldsOK => DoneOnlyForValidConfig /\ IndexBitsAgree
  BY ChecksImply
<1>4. QED
  BY <1>1, <1>2, <1>3, PTL DEF Spec


\* Each L1 is wired, both ways, to the L2 of its own cpu
\* (msi_caches.py:142-144), in every reachable state.
THEOREM PairingHolds == Spec => []PrivatePairing
BY OrderingContract, PTL

\* Once setup returns, every cpu's ports reach the sequencer of its own L1
\* (msi_caches.py:158-188).
THEOREM FrontEndHolds == Spec => []FrontEndBinding
BY OrderingContract, PTL

\* Every L3's start_index_bit skips exactly the L2s' block and bank-select
\* bits (L2cache.py:42, L3pcache.py:39-42).
THEOREM IndexBitsHold == Spec => []IndexBitsAgree
BY ConfigChecks, PTL

=============================================================================
