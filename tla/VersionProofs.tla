---------------------------- MODULE VersionProofs ----------------------------
(***************************************************************************)
(* Proofs about the class-level version counters of the four controller    *)
(* classes (versionCount in L1cache.py, L2cache.py, L3pcache.py, Dir.py).  *)
(*                                                                         *)
(* Lockstep holds in every setup of an interpreter: each counter moves     *)
(* with the list, so the versions of one level in the current list are     *)
(* consecutive and end one below the counter.  FirstSetup adds that in the *)
(* first setup call the counters equal the number of controllers of their  *)
(* level in the list.  Together they give VersionsDense for the first      *)
(* setup; the run two_setups shows it fails for the second.                *)
(***************************************************************************)
EXTENDS RubySetupProofs, FiniteSetTheorems

\* Where the controllers of level l start in the list the contract orders
\* for n cpus and b banks, and how many there are.
Off(l, n, b) ==
    IF l = "L1" THEN 0
    ELSE IF l = "L2" THEN n
    ELSE IF l = "L3" THEN 2 * n
    ELSE 2 * n + b

Size(l, n, b) == IF l \in {"L1", "L2"} THEN n ELSE IF l = "L3" THEN b ELSE 1

\* How many controllers of level l a list of length len being built holds.
InList(l, len, n, b) ==
    IF len <= Off(l, n, b) THEN 0
    ELSE IF len >= Off(l, n, b) + Size(l, n, b) THEN Size(l, n, b)
    ELSE len - Off(l, n, b)

\* Each controller's version is its rank within its level, offset by what
\* the counter of its level had reached before this setup.
VersionRanks ==
    \A p \in 1..Len(controllers) :
        controllers[p].version =
            version[controllers[p].level]
              - InList(controllers[p].level, Len(controllers), N, B)
              + (p - 1 - Off(controllers[p].level, N, B))

\* Each counter equals the number of controllers of its level in the list.
CountersMatch == \A l \in Levels : version[l] = InList(l, Len(controllers), N, B)

\* Outside a panic (where a constructor has taken a version and raised),
\* the counters move in lockstep with the list.
Lockstep == pc # "panic" => VersionRanks

\* In the first setup call of an interpreter the counters match the list.
FirstSetup ==
    /\ setups = 0 => pc = "idle"
    /\ setups <= 1 /\ pc # "panic" => CountersMatch

-----------------------------------------------------------------------------
\* The layout numbers are naturals.
LEMMA LayoutNat ==
    ASSUME NEW n \in Nat, NEW b \in Nat, NEW l, NEW len \in Nat
    PROVE  /\ Off(l, n, b) \in Nat /\ Size(l, n, b) \in Nat
           /\ InList(l, len, n, b) \in Nat
BY DEF Off, Size, InList

\* Appending a controller of level l while the list is inside l's block
\* adds one to l's count and leaves every other level's count alone.
LEMMA CountAppend ==
    ASSUME NEW n \in Nat \ {0}, NEW b \in Nat \ {0}, NEW l \in Levels,
           NEW len \in Nat,
           Off(l, n, b) <= len, len < Off(l, n, b) + Size(l, n, b)
    PROVE  /\ InList(l, len, n, b) = len - Off(l, n, b)
           /\ InList(l, len + 1, n, b) = InList(l, len, n, b) + 1
           /\ \A m \in Levels \ {l} : InList(m, len + 1, n, b) = InList(m, len, n, b)
<1>1. Off(l, n, b) \in Nat /\ Size(l, n, b) \in Nat
  BY LayoutNat
<1>2. InList(l, len, n, b) = len - Off(l, n, b)
  BY <1>1 DEF InList
<1>3. InList(l, len + 1, n, b) = InList(l, len, n, b) + 1
  BY <1>1 DEF InList
<1>4. ASSUME NEW m \in Levels \ {l}
      PROVE  InList(m, len + 1, n, b) = InList(m, len, n, b)
  <2>1. Off(m, n, b) \in Nat /\ Size(m, n, b) \in Nat
    BY LayoutNat
  <2>2. Off(m, n, b) + Size(m, n, b) <= Off(l, n, b)
        \/ Off(l, n, b) + Size(l, n, b) <= Off(m, n, b)
    BY DEF Off, Size, Levels
  <2>3. QED
    BY <1>1, <2>1, <2>2 DEF InList
<1>5. QED
  BY <1>2, <1>3, <1>4

\* Appending the next controller of level l, with the version versionCount
\* returned, keeps the ranks and, in the first setup, the counts.
LEMMA RanksAppend ==
    ASSUME TypeOK, VersionRanks, NEW l \in Levels,
           Off(l, N, B) <= Len(controllers), Len(controllers) < Off(l, N, B) + Size(l, N, B),
           NEW e \in Controller, e.level = l, e.version = version[l],
           controllers' = Append(controllers, e), cfg' = cfg,
           version' = [version EXCEPT ![l] = @ + 1]
    PROVE  /\ VersionRanks'
           /\ CountersMatch => CountersMatch'
<1> DEFINE len == Len(controllers)
           n == N
           b == B
<1>1. /\ controllers \in Seq(Controller) /\ len \in Nat
      /\ Len(controllers') = len + 1
      /\ \A p \in 1..len : controllers'[p] = controllers[p]
      /\ controllers'[len + 1] = e
  BY AppendKeeps DEF TypeOK
<1>2. n \in Nat \ {0} /\ b \in Nat \ {0} /\ N' = n /\ B' = b
  BY CfgFacts DEF N, B
<1>3. /\ InList(l, len, n, b) = len - Off(l, n, b)
      /\ InList(l, len + 1, n, b) = InList(l, len, n, b) + 1
      /\ \A m \in Levels \ {l} : InList(m, len + 1, n, b) = InList(m, len, n, b)
  BY <1>1, <1>2, CountAppend
<1>4. /\ version \in [Levels -> Nat]
      /\ version'[l] = version[l] + 1
      /\ \A m \in Levels \ {l} : version'[m] = version[m]
  BY DEF TypeOK
<1>5. ASSUME NEW m \in Levels
      PROVE  version'[m] - InList(m, len + 1, n, b) = version[m] - InList(m, len, n, b)
  <2>1. InList(m, len, n, b) \in Nat /\ version[m] \in Nat
    BY <1>1, <1>2, <1>4, LayoutNat
  <2>2. CASE m = l
    BY <1>3, <1>4, <2>1, <2>2
  <2>3. CASE m # l
    BY <1>3, <1>4, <2>1, <2>3
  <2>4. QED
    BY <2>2, <2>3
<1>6. VersionRanks'
  <2> SUFFICES ASSUME NEW p \in 1..(len + 1)
               PROVE  controllers'[p].version =
                        version'[controllers'[p].level]
                          - InList(controllers'[p].level, len + 1, n, b)
                          + (p - 1 - Off(controllers'[p].level, n, b))
    BY <1>1, <1>2 DEF VersionRanks
  <2>1. CASE p \in 1..len
    <3> DEFINE lev == controllers[p].level
    <3>0. controllers[p] \in Controller
      BY <1>1, <2>1
    <3>1. controllers'[p] = controllers[p] /\ lev \in Levels
      BY <1>1, <2>1, <3>0 DEF Controller
    <3>2. controllers[p].version = version[lev] - InList(lev, len, n, b) + (p - 1 - Off(lev, n, b))
      BY <2>1 DEF VersionRanks
    <3>3. QED
      BY <1>1, <1>2, <1>4, <1>5, <3>1, <3>2, LayoutNat
  <2>2. CASE p = len + 1
    <3>1. controllers'[p] = e
      BY <1>1, <2>2
    <3>2. /\ controllers'[p].level = l /\ controllers'[p].version = version[l]
          /\ InList(l, len + 1, n, b) = len - Off(l, n, b) + 1
          /\ Off(l, n, b) \in Nat /\ version[l] \in Nat
      BY <1>1, <1>2, <1>3, <1>4, <3>1, LayoutNat
    <3>3. QED
      BY <1>4, <2>2, <3>2
  <2>3. QED
    BY <2>1, <2>2
<1>7. CountersMatch => CountersMatch'
  BY <1>1, <1>2, <1>4, <1>5, LayoutNat DEF CountersMatch
<1>8. QED
  BY <1>6, <1>7


\* A constructor step that appends its controller: the ranks, and in the
\* first setup the counts, carry over.
LEMMA AppendCase ==
    ASSUME IInv, TypeOK', Lockstep, FirstSetup, NEW l \in Levels,
           pc \notin {"idle", "panic"}, pc' # "panic",
           Off(l, N, B) <= Len(controllers), Len(controllers) < Off(l, N, B) + Size(l, N, B),
           NEW e, e.level = l, e.version = version[l],
           controllers' = Append(controllers, e), cfg' = cfg, setups' = setups,
           version' = [version EXCEPT ![l] = @ + 1]
    PROVE  Lockstep' /\ FirstSetup'
<1>1. TypeOK /\ VersionRanks
  BY DEF IInv, Lockstep
<1>2. e \in Controller
  <2>1. controllers \in Seq(Controller) /\ controllers' \in Seq(Controller)
    BY <1>1 DEF TypeOK
  <2>2. Append(controllers, e)[Len(controllers) + 1] = e
    BY <2>1
  <2>3. Len(controllers') = Len(controllers) + 1
    BY <2>1
  <2>4. QED
    BY <2>1, <2>2, <2>3
<1>3. VersionRanks' /\ (CountersMatch => CountersMatch')
  BY <1>1, <1>2, RanksAppend
<1>4. setups # 0
  BY <1>1 DEF FirstSetup
<1>5. QED
  BY <1>3, <1>4 DEF Lockstep, FirstSetup

\* A constructor step that panics: nothing is claimed of the panicked state.
LEMMA PanicCase ==
    ASSUME FirstSetup, pc # "idle", pc' = "panic", setups' = setups
    PROVE  Lockstep' /\ FirstSetup'
BY DEF Lockstep, FirstSetup

\* A step that leaves the list, the counters, the arguments and the call
\* count alone.
LEMMA FrozenCase ==
    ASSUME Lockstep, FirstSetup, pc \notin {"idle", "panic"}, pc' \notin {"idle", "panic"},
           UNCHANGED <<controllers, version, cfg, setups>>
    PROVE  Lockstep' /\ FirstSetup'
<1>1. VersionRanks' = VersionRanks /\ CountersMatch' = CountersMatch
  BY DEF VersionRanks, CountersMatch, N, B
<1>2. setups # 0
  BY DEF FirstSetup
<1>3. QED
  BY <1>1, <1>2 DEF Lockstep, FirstSetup


\* An empty list holds no controller of any level.
LEMMA InListEmpty ==
    ASSUME NEW n \in Nat, NEW b \in Nat, NEW l
    PROVE  InList(l, 0, n, b) = 0
BY DEF InList, Off

\* Every step keeps Lockstep and FirstSetup.
LEMMA NextLockstep == IInv /\ Lockstep /\ FirstSetup /\ [Next]_vars => Lockstep' /\ FirstSetup'
<1> SUFFICES ASSUME IInv, Lockstep, FirstSetup, [Next]_vars
             PROVE  Lockstep' /\ FirstSetup'
  OBVIOUS
<1>0. /\ TypeOK /\ PhaseLen /\ TypeOK'
      /\ N \in 1..MaxCpus /\ B \in 1..MaxL3
      /\ controllers \in Seq(Controller) /\ Len(controllers) \in Nat
      /\ setups \in Nat
  BY NextIInv, CfgFacts DEF IInv, TypeOK
<1>1. ASSUME NEW c \in Configs, StartSetup(c)
      PROVE  Lockstep' /\ FirstSetup'
  <2>1. VersionRanks'
    BY <1>1 DEF StartSetup, VersionRanks
  <2>2. ASSUME setups' <= 1 PROVE CountersMatch'
    <3>1. setups = 0 /\ pc = "idle" /\ controllers = <<>>
      BY <1>0, <1>1, <2>2 DEF StartSetup, FirstSetup, PhaseLen
    <3>2. \A l \in Levels : version[l] = 0
      BY <1>0, <3>1, InListEmpty DEF FirstSetup, CountersMatch, N, B, Configs
    <3>3. c.ncpu \in Nat /\ c.nl3 \in Nat
      BY DEF Configs
    <3>4. QED
      BY <1>1, <3>2, <3>3, InListEmpty DEF StartSetup, CountersMatch, N, B
  <2>3. QED
    BY <1>0, <1>1, <2>1, <2>2 DEF StartSetup, Lockstep, FirstSetup
<1>2. CASE CreateL1
  <2>1. pc = "l1" /\ version' = [version EXCEPT !["L1"] = @ + 1] /\ cfg' = cfg /\ setups' = setups
    BY <1>2 DEF CreateL1, versionCount
  <2>2. CASE BlockSizeIsPowerOfTwo(cfg.line)
    <3> DEFINE e == Ctrl("L1", Len(controllers), getBlockSizeBits(cfg.line), 0)
    <3>1. controllers' = Append(controllers, e) /\ pc' # "panic"
      BY <1>2, <2>2 DEF CreateL1
    <3>2. e.level = "L1" /\ e.version = version["L1"]
      BY DEF Ctrl
    <3>3. Off("L1", N, B) <= Len(controllers) /\ Len(controllers) < Off("L1", N, B) + Size("L1", N, B)
      BY <1>0, <2>1 DEF PhaseLen, Off, Size
    <3>4. QED
      BY <1>0, <2>1, <3>1, <3>2, <3>3, AppendCase DEF Levels
  <2>3. CASE ~BlockSizeIsPowerOfTwo(cfg.line)
    BY <1>2, <2>1, <2>3, PanicCase DEF CreateL1
  <2>4. QED
    BY <2>2, <2>3
<1>3. CASE CreateL2
  <2>1. pc = "l2" /\ version' = [version EXCEPT !["L2"] = @ + 1] /\ cfg' = cfg /\ setups' = setups
    BY <1>3 DEF CreateL2, versionCount
  <2>2. CASE BlockSizeIsPowerOfTwo(cfg.line)
    <3> DEFINE e == Ctrl("L2", Len(controllers) - N, getBlockSizeBits(cfg.line), l2SelectNumBits(B))
    <3>1. controllers' = Append(controllers, e) /\ pc' # "panic"
      BY <1>3, <2>2 DEF CreateL2
    <3>2. e.level = "L2" /\ e.version = version["L2"]
      BY DEF Ctrl
    <3>3. Off("L2", N, B) <= Len(controllers) /\ Len(controllers) < Off("L2", N, B) + Size("L2", N, B)
      BY <1>0, <2>1 DEF PhaseLen, Off, Size
    <3>4. QED
      BY <1>0, <2>1, <3>1, <3>2, <3>3, AppendCase DEF Levels
  <2>3. CASE ~BlockSizeIsPowerOfTwo(cfg.line)
    BY <1>3, <2>1, <2>3, PanicCase DEF CreateL2
  <2>4. QED
    BY <2>2, <2>3
<1>4. CASE CreateL3
  <3> DEFINE e == Ctrl("L3", NoCpu, getIndexBit(cfg.line, B), 0)
  <3>1. /\ pc = "l3" /\ version' = [version EXCEPT !["L3"] = @ + 1]
        /\ cfg' = cfg /\ setups' = setups
        /\ controllers' = Append(controllers, e) /\ pc' # "panic"
    BY <1>4 DEF CreateL3, versionCount
  <3>2. e.level = "L3" /\ e.version = version["L3"]
    BY DEF Ctrl
  <3>3. Off("L3", N, B) <= Len(controllers) /\ Len(controllers) < Off("L3", N, B) + Size("L3", N, B)
    BY <1>0, <3>1 DEF PhaseLen, Off, Size
  <3>4. QED
    BY <1>0, <3>1, <3>2, <3>3, AppendCase DEF Levels
<1>5. CASE CreateDir
  <2>1. pc = "dir" /\ cfg' = cfg /\ setups' = setups
    BY <1>5 DEF CreateDir
  <2>2. CASE cfg.nmem > 1 \/ cfg.nmem = 0
    <3>1. pc' = "panic"
      BY <1>5, <2>2 DEF CreateDir
    <3>2. QED
      BY <2>1, <3>1, PanicCase
  <2>3. CASE ~(cfg.nmem > 1 \/ cfg.nmem = 0)
    <3> DEFINE e == Ctrl("Dir", NoCpu, 0, 0)
    <3>1. /\ version' = [version EXCEPT !["Dir"] = @ + 1]
          /\ controllers' = Append(controllers, e) /\ pc' = "wire"
      BY <1>5, <2>3 DEF CreateDir, versionCount
    <3>2. e.level = "Dir" /\ e.version = version["Dir"]
      BY DEF Ctrl
    <3>3. Off("Dir", N, B) <= Len(controllers) /\ Len(controllers) < Off("Dir", N, B) + Size("Dir", N, B)
      BY <1>0, <2>1 DEF PhaseLen, Off, Size
    <3>4. QED
      BY <1>0, <2>1, <3>1, <3>2, <3>3, AppendCase DEF Levels
  <2>4. QED
    BY <2>2, <2>3
<1>6. CASE WireL1L2 \/ CreateSequencers \/ BindSequencers \/ ConnectCpuPorts
  <2>1. /\ pc \in {"wire", "seq", "bind", "ports"} /\ pc' \in {"seq", "bind", "ports", "done"}
        /\ UNCHANGED <<controllers, version, cfg, setups>>
    BY <1>6 DEF WireL1L2, CreateSequencers, BindSequencers, ConnectCpuPorts
  <2>2. QED
    BY <2>1, FrozenCase
<1>7. CASE UNCHANGED vars
  BY <1>7 DEF vars, Lockstep, FirstSetup, VersionRanks, CountersMatch, N, B
<1>9. QED
  BY <1>1, <1>2, <1>3, <1>4, <1>5, <1>6, <1>7 DEF Next, SetupStep


\* Lockstep and FirstSetup hold initially.
LEMMA InitLockstep == Init => Lockstep /\ FirstSetup
<1> SUFFICES ASSUME Init PROVE Lockstep /\ FirstSetup
  OBVIOUS
<1>1. N \in Nat /\ B \in Nat
  BY DEF Init, Configs, N, B
<1>2. QED
  BY <1>1, InListEmpty DEF Init, Lockstep, FirstSetup, VersionRanks, CountersMatch

\* In the list setup returns, the controllers of level l fill exactly
\* positions Off(l)+1 .. Off(l)+Size(l).
LEMMA LevelBlock ==
    ASSUME IInv, pc = "done", NEW l \in Levels
    PROVE  {q \in 1..Len(controllers) : controllers[q].level = l}
             = (Off(l, N, B) + 1)..(Off(l, N, B) + Size(l, N, B))
<1>1. N \in 1..MaxCpus /\ B \in 1..MaxL3 /\ Len(controllers) = 2 * N + B + 1
  BY CfgFacts DEF IInv, PhaseLen, Built
<1>2. \A q \in 1..Len(controllers) : controllers[q].level = LevelAt(q)
  BY DEF IInv, RegistryOrder
<1>3. ASSUME NEW q
      PROVE  q \in 1..Len(controllers) /\ LevelAt(q) = l
               <=> q \in (Off(l, N, B) + 1)..(Off(l, N, B) + Size(l, N, B))
  BY <1>1 DEF LevelAt, Off, Size, Levels
<1>4. QED
  BY <1>2, <1>3

\* In the first setup call, the list setup returns has dense zero-based
\* versions at every level.
LEMMA DenseFirst ==
    IInv /\ Lockstep /\ FirstSetup /\ setups <= 1 => VersionsDense
<1> SUFFICES ASSUME IInv, Lockstep, FirstSetup, setups <= 1, pc = "done",
                    NEW l \in Levels
             PROVE  {controllers[p].version : p \in {q \in 1..Len(controllers) :
                                                       controllers[q].level = l}}
                      = 0..(Cardinality({q \in 1..Len(controllers) :
                                           controllers[q].level = l}) - 1)
  BY DEF VersionsDense
<1> DEFINE o == Off(l, N, B)
           z == Size(l, N, B)
           P == {q \in 1..Len(controllers) : controllers[q].level = l}
<1>1. N \in 1..MaxCpus /\ B \in 1..MaxL3 /\ Len(controllers) = 2 * N + B + 1
  BY CfgFacts DEF IInv, PhaseLen, Built
<1>2. o \in Nat /\ z \in Nat \ {0} /\ o + z <= Len(controllers)
  BY <1>1 DEF Off, Size, Levels
<1>3. P = (o + 1)..(o + z)
  BY LevelBlock
<1>4. version[l] = z
  <2>1. InList(l, Len(controllers), N, B) = z
    BY <1>1, <1>2 DEF InList
  <2>2. QED
    BY <2>1 DEF FirstSetup, CountersMatch
<1>5. \A p \in P : controllers[p].version = p - 1 - o
  BY <1>1, <1>2, <1>3, <1>4 DEF Lockstep, VersionRanks, InList
<1>6. Cardinality(P) = z
  <2>1. o + 1 \in Int /\ o + z \in Int
    BY <1>2
  <2>2. Cardinality((o + 1)..(o + z)) = IF o + 1 > o + z THEN 0 ELSE (o + z) - (o + 1) + 1
    BY <2>1, FS_Interval
  <2>3. Cardinality(P) = Cardinality((o + 1)..(o + z))
    BY <1>3, Zenon
  <2>4. QED
    BY <1>2, <2>2, <2>3
<1>7. ASSUME NEW v
      PROVE  v \in {controllers[p].version : p \in P} <=> v \in 0..(z - 1)
  <2>1. ASSUME NEW p \in P, v = controllers[p].version PROVE v \in 0..(z - 1)
    BY <1>2, <1>3, <1>5, <2>1
  <2>2. ASSUME v \in 0..(z - 1) PROVE \E p \in P : v = controllers[p].version
    <3>1. v + 1 + o \in P /\ controllers[v + 1 + o].version = v
      BY <1>2, <1>3, <1>5, <2>2
    <3>2. QED
      BY <3>1
  <2>3. QED
    BY <2>1, <2>2
<1>8. QED
  BY <1>6, <1>7

-----------------------------------------------------------------------------
\* The class counters of the four controller classes move in lockstep with
\* the list setup builds, in every setup call of an interpreter: each
\* controller's version is its rank within its level plus the count its
\* class had reached before the call (versionCount, L1cache.py etc.).
THEOREM VersionLockstep == Spec => []Lockstep
<1>1. Init => Lockstep /\ FirstSetup /\ IInv
  BY InitLockstep, InitIInv
<1>2. (Lockstep /\ FirstSetup /\ IInv) /\ [Next]_vars => (Lockstep /\ FirstSetup /\ IInv)'
  BY NextLockstep, NextIInv
<1>3. QED
  BY <1>1, <1>2, PTL DEF Spec

\* VersionsDense for the first setup call of an interpreter: the versions
\* of each level in the list setup returns are 0, 1, ..., count - 1.  From
\* the second call on the counters keep the first call's values (run
\* two_setups), so this is exactly as far as the property holds.
THEOREM VersionsDenseFirstSetup == Spec => [](setups <= 1 => VersionsDense)
<1>1. Init => Lockstep /\ FirstSetup /\ IInv
  BY InitLockstep, InitIInv
<1>2. (Lockstep /\ FirstSetup /\ IInv) /\ [Next]_vars => (Lockstep /\ FirstSetup /\ IInv)'
  BY NextLockstep, NextIInv
<1>3. Lockstep /\ FirstSetup /\ IInv => (setups <= 1 => VersionsDense)
  BY DenseFirst
<1>4. QED
  BY <1>1, <1>2, <1>3, PTL DEF Spec

-----------------------------------------------------------------------------
\* Ranks make versions distinct: in a list where each controller's version is
\* its level's counter, less that level's count, plus its rank, two
\* positions of one level get different versions.
LEMMA RanksUnique ==
    ASSUME NEW cs \in Seq(Controller), NEW v \in [Levels -> Nat],
           NEW n \in Nat, NEW b \in Nat,
           \A p \in 1..Len(cs) :
               cs[p].version = v[cs[p].level] - InList(cs[p].level, Len(cs), n, b)
                                 + (p - 1 - Off(cs[p].level, n, b))
    PROVE  \A p, q \in 1..Len(cs) :
               p # q /\ cs[p].level = cs[q].level => cs[p].version # cs[q].version
<1> SUFFICES ASSUME NEW p \in 1..Len(cs), NEW q \in 1..Len(cs),
                    p # q, cs[p].level = cs[q].level
             PROVE  cs[p].version # cs[q].version
  OBVIOUS
<1> DEFINE l == cs[p].level
<1>1. cs[p] \in Controller
  OBVIOUS
<1>2. l \in Levels /\ v[l] \in Nat /\ Len(cs) \in Nat
  <2>1. cs[p].level \in Levels
    BY <1>1 DEF Controller
  <2>2. QED
    BY <2>1
<1>3. InList(l, Len(cs), n, b) \in Nat /\ Off(l, n, b) \in Nat
  BY <1>2, LayoutNat
<1>4. /\ cs[p].version = v[l] - InList(l, Len(cs), n, b) + (p - 1 - Off(l, n, b))
      /\ cs[q].version = v[l] - InList(l, Len(cs), n, b) + (q - 1 - Off(l, n, b))
  OBVIOUS
<1>5. p \in Int /\ q \in Int /\ p # q
  BY <1>2
<1>6. DEFINE a == v[l] - InList(l, Len(cs), n, b)
             o == Off(l, n, b)
<1>7. a \in Int /\ o \in Int
  BY <1>2, <1>3
<1>8. a + (p - 1 - o) # a + (q - 1 - o)
  BY <1>5, <1>7
<1>9. QED
  BY <1>4, <1>8

\* Outside a panic, Lockstep makes the versions of one level distinct.
LEMMA LockstepUnique ==
    ASSUME TypeOK, Lockstep, pc # "panic"
    PROVE  VersionsUnique
<1>1. controllers \in Seq(Controller) /\ version \in [Levels -> Nat] /\ N \in Nat /\ B \in Nat
  BY CfgFacts DEF TypeOK
<1>2. QED
  BY <1>1, RanksUnique DEF Lockstep, VersionRanks, VersionsUnique

\* A step into the panicked state leaves the list as it was: every
\* constructor raises before it appends.
LEMMA PanicKeepsList ==
    ASSUME TypeOK, [Next]_vars, pc' = "panic"
    PROVE  controllers' = controllers
<1>1. ASSUME NEW c \in Configs, StartSetup(c) PROVE FALSE
  BY <1>1 DEF StartSetup
<1>2. CASE CreateL1
  BY <1>2 DEF CreateL1
<1>3. CASE CreateL2
  BY <1>3 DEF CreateL2
<1>4. CASE CreateL3
  BY <1>4 DEF CreateL3
<1>5. CASE CreateDir
  BY <1>5 DEF CreateDir
<1>6. CASE WireL1L2 \/ CreateSequencers \/ BindSequencers \/ ConnectCpuPorts
  BY <1>6 DEF WireL1L2, CreateSequencers, BindSequencers, ConnectCpuPorts
<1>7. CASE UNCHANGED vars
  BY <1>7 DEF vars
<1>8. QED
  BY <1>1, <1>2, <1>3, <1>4, <1>5, <1>6, <1>7 DEF Next, SetupStep

\* The inductive invariant behind VersionsUnique.
UInv == IInv /\ Lockstep /\ FirstSetup /\ VersionsUnique

LEMMA NextUnique == UInv /\ [Next]_vars => UInv'
<1> SUFFICES ASSUME UInv, [Next]_vars PROVE UInv'
  OBVIOUS
<1>1. IInv' /\ Lockstep' /\ FirstSetup'
  BY NextIInv, NextLockstep DEF UInv
<1>2. CASE pc' # "panic"
  <2>1. /\ controllers' \in Seq(Controller) /\ version' \in [Levels -> Nat]
        /\ N' \in Nat /\ B' \in Nat
    BY <1>1 DEF IInv, TypeOK, Configs, N, B
  <2>2. VersionRanks'
    BY <1>1, <1>2 DEF Lockstep
  <2>3. VersionsUnique'
    BY <2>1, <2>2, RanksUnique DEF VersionRanks, VersionsUnique
  <2>4. QED
    BY <1>1, <2>3 DEF UInv
<1>3. CASE pc' = "panic"
  <2>1. controllers' = controllers
    BY <1>3, PanicKeepsList DEF UInv, IInv
  <2>2. VersionsUnique'
    BY <2>1 DEF UInv, VersionsUnique
  <2>3. QED
    BY <1>1, <2>2 DEF UInv
<1>4. QED
  BY <1>2, <1>3

\* Versions are unique within each level in every reachable state, over
\* any number of setup calls of one interpreter: the class counters that
\* break VersionsDense from the second call on never hand out a version
\* twice (versionCount, L1cache.py and the other constructors).
THEOREM VersionsUniqueHolds == Spec => []VersionsUnique
<1>1. Init => UInv
  <2> SUFFICES ASSUME Init PROVE UInv
    OBVIOUS
  <2>1. VersionsUnique
    BY DEF Init, VersionsUnique
  <2>2. QED
    BY <2>1, InitIInv, InitLockstep DEF UInv
<1>2. UInv /\ [Next]_vars => UInv'
  BY NextUnique
<1>3. UInv => VersionsUnique
  BY DEF UInv
<1>4. QED
  BY <1>1, <1>2, <1>3, PTL DEF Spec

=============================================================================
