------------------------- MODULE NucaNetworkProofs -------------------------
(***************************************************************************)
(* Proof that NucaNetwork.connectControllers only ever indexes existing    *)
(* switches and controllers (LinkEndpointsExist), for every number of cpus *)
(* and banks.  The argument is arithmetic: the isinstance counts are the   *)
(* configured counts, rows * cols >= numL3caches (ceiling division), an    *)
(* index below rows * cols has a row i // cols below rows, and the % rows  *)
(* and % cols of the cpu and directory loops stay inside the grid.         *)
(***************************************************************************)
EXTENDS NucaNetwork, FiniteSetTheorems, TLAPS

USE ConstAssumption

\* The switch grid built by CreateRouters.
Grid == (0..(rows - 1)) \X (0..(cols - 1))

\* The isinstance counts of connectControllers are the configured counts.
LEMMA Counts ==
    ASSUME cfg \in Configs
    PROVE  num_cpus = cfg.ncpu /\ num_l3s = cfg.nl3
<1> DEFINE n == cfg.ncpu
           b == cfg.nl3
<1>1. n \in 1..MaxCpus /\ b \in 1..MaxL3
  BY DEF Configs
<1>2. DOMAIN controllers = 0..(2 * n + b)
  BY DEF controllers, Registry
<1>3. {j \in DOMAIN controllers : controllers[j] = controllers[0]} = 0..(n - 1)
  BY <1>1, <1>2 DEF controllers, Registry
<1>4. num_cpus = n
  <2>1. Cardinality(0..(n - 1)) = n
    <3>1. 0 \in Int /\ n - 1 \in Int
      BY <1>1
    <3>2. Cardinality((0)..(n - 1)) = IF 0 > n - 1 THEN 0 ELSE (n - 1) - (0) + 1
      BY <3>1, FS_Interval
    <3>3. QED
      BY <1>1, <3>2
  <2>2. QED
    BY <1>3, <2>1 DEF num_cpus, CountLike
<1>5. {j \in DOMAIN controllers : controllers[j] = controllers[2 * n]}
        = (2 * n)..(2 * n + b - 1)
  <2>1. controllers[2 * n] = "L3"
    BY <1>1 DEF controllers, Registry
  <2>2. \A j \in 0..(2 * n + b) :
           controllers[j] = "L3" <=> j \in (2 * n)..(2 * n + b - 1)
    BY <1>1 DEF controllers, Registry
  <2>3. (2 * n)..(2 * n + b - 1) \subseteq 0..(2 * n + b)
    BY <1>1
  <2>4. QED
    BY <1>2, <2>1, <2>2, <2>3
<1>6. num_l3s = b
  <2>1. Cardinality((2 * n)..(2 * n + b - 1)) = b
    <3>1. 2 * n \in Int /\ 2 * n + b - 1 \in Int
      BY <1>1
    <3>2. Cardinality((2 * n)..(2 * n + b - 1)) = IF 2 * n > 2 * n + b - 1 THEN 0 ELSE (2 * n + b - 1) - (2 * n) + 1
      BY <3>1, FS_Interval
    <3>3. QED
      BY <1>1, <3>2
  <2>2. QED
    BY <1>4, <1>5, <2>1 DEF num_l3s, CountLike
<1>7. QED
  BY <1>4, <1>6


\* rows = int(sqrt(numL3caches)) and the ceiling division for cols leave at
\* least one row and one column and room for every bank.
LEMMA GridFacts ==
    ASSUME cfg \in Configs
    PROVE  /\ rows \in 1..cfg.nl3
           /\ cols \in Nat \ {0}
           /\ cfg.nl3 <= rows * cols
<1> DEFINE b == cfg.nl3
<1>1. b \in 1..MaxL3 /\ num_l3s = b
  BY Counts DEF Configs
<1>2. rows \in 1..b
  <2>1. \E r \in 1..b : r * r <= b /\ b < (r + 1) * (r + 1)
    BY <1>1, IntSqrtExists
  <2>2. IntSqrt(b) \in 1..b
    BY <2>1, Zenon DEF IntSqrt
  <2>3. QED
    BY <1>1, <2>2 DEF rows
<1>3. cols = (b + rows - 1) \div rows
  BY <1>1 DEF cols
<1>4. ASSUME NEW r \in 1..b
      PROVE  /\ (b + r - 1) \div r \in Nat \ {0}
             /\ b <= r * ((b + r - 1) \div r)
  BY <1>1
<1>5. QED
  BY <1>2, <1>3, <1>4


\* Bank i < rows * cols sits on routers[i // cols][i % cols].
LEMMA BankCell ==
    ASSUME cfg \in Configs, NEW i \in 0..(rows * cols - 1)
    PROVE  <<i \div cols, i % cols>> \in Grid
<1>1. rows \in Nat \ {0} /\ cols \in Nat \ {0}
  BY GridFacts
<1>2. i \div cols \in 0..(rows - 1) /\ i % cols \in 0..(cols - 1)
  BY <1>1
<1>3. QED
  BY <1>2 DEF Grid

\* The % rows and % cols of the cpu and directory loops stay in the grid.
LEMMA WrappedCell ==
    ASSUME cfg \in Configs, NEW x \in Nat
    PROVE  /\ <<(x \div cols) % rows, x % cols>> \in Grid
           /\ <<x % rows, cols - 1>> \in Grid
<1>1. rows \in Nat \ {0} /\ cols \in Nat \ {0}
  BY GridFacts
<1>2. /\ (x \div cols) % rows \in 0..(rows - 1)
      /\ x % cols \in 0..(cols - 1)
      /\ x % rows \in 0..(rows - 1)
      /\ cols - 1 \in 0..(cols - 1)
  BY <1>1
<1>3. QED
  BY <1>2 DEF Grid

-----------------------------------------------------------------------------
(* The inductive invariant: the switches exist from CreateRouters on, and *)
(* the cpu loop's index stays below the cpu count.                         *)

Inv ==
    /\ pc \in Phases
    /\ cfg \in Configs
    /\ cpu \in Nat
    /\ routers = IF pc = "grid" THEN {} ELSE Grid
    /\ pc \in {"grid", "l3", "cpus"} => cpu < num_cpus
    /\ LinkEndpointsExist

LEMMA InitInv == Init => Inv
<1> SUFFICES ASSUME Init PROVE Inv
  OBVIOUS
<1>1. cfg \in Configs /\ cpu = 0
  BY DEF Init
<1>2. num_cpus = cfg.ncpu /\ cfg.ncpu \in 1..MaxCpus
  BY <1>1, Counts DEF Configs
<1>3. cpu \in Nat /\ cpu < num_cpus
  BY <1>1, <1>2
<1>4. pc \in Phases /\ routers = {} /\ LinkEndpointsExist
  BY DEF Init, Phases, LinkEndpointsExist
<1>5. QED
  BY <1>1, <1>3, <1>4 DEF Init, Inv

\* A step that leaves cfg alone leaves every quantity computed from it alone.
LEMMA Frame ==
    ASSUME cfg' = cfg
    PROVE  /\ controllers' = controllers
           /\ num_cpus' = num_cpus
           /\ num_l3s' = num_l3s
           /\ rows' = rows
           /\ cols' = cols
           /\ Grid' = Grid
BY DEF controllers, CountLike, num_cpus, num_l3s, rows, cols, Grid

\* Adding links whose ends exist keeps LinkEndpointsExist.
LEMMA AddLinks ==
    ASSUME LinkEndpointsExist, routers' = routers, cfg' = cfg,
           ext_links \subseteq ext_links', int_links \subseteq int_links',
           \A l \in ext_links' \ ext_links :
              l.int \in routers /\ l.ext \in DOMAIN controllers,
           \A l \in int_links' \ int_links :
              l.src \in routers /\ l.dst \in routers
    PROVE  LinkEndpointsExist'
<1>1. controllers' = controllers
  BY Frame
<1>2. QED
  BY <1>1 DEF LinkEndpointsExist

LEMMA NextInv == Inv /\ [Next]_vars => Inv'
<1> SUFFICES ASSUME Inv, [Next]_vars PROVE Inv'
  OBVIOUS
<1>0. /\ cfg \in Configs /\ cpu \in Nat /\ LinkEndpointsExist
      /\ num_cpus = cfg.ncpu /\ num_l3s = cfg.nl3
      /\ rows \in 1..cfg.nl3 /\ cols \in Nat \ {0} /\ cfg.nl3 <= rows * cols
      /\ DOMAIN controllers = 0..(2 * cfg.ncpu + cfg.nl3)
      /\ cfg.ncpu \in 1..MaxCpus /\ cfg.nl3 \in 1..MaxL3
  <2>1. cfg \in Configs /\ cpu \in Nat /\ LinkEndpointsExist
    BY DEF Inv
  <2>2. DOMAIN controllers = 0..(2 * cfg.ncpu + cfg.nl3)
    BY DEF controllers, Registry
  <2>3. QED
    BY <2>1, <2>2, Counts, GridFacts DEF Configs
<1>1. CASE CreateRouters
  <2>1. ext_links = {} /\ int_links = {}
    BY <1>1 DEF CreateRouters, Inv, LinkEndpointsExist
  <2>2. routers' = Grid' /\ pc' = "l3" /\ cfg' = cfg /\ cpu' = cpu
    BY <1>1, Frame DEF CreateRouters, Grid
  <2>3. LinkEndpointsExist'
    BY <1>1, <2>1 DEF CreateRouters, LinkEndpointsExist
  <2>4. pc = "grid" /\ cpu < num_cpus
    BY <1>1 DEF CreateRouters, Inv
  <2>5. num_cpus' = num_cpus
    BY <2>2, Frame
  <2>6. QED
    BY <1>0, <2>2, <2>3, <2>4, <2>5 DEF Inv, Phases
<1>2. CASE ConnectL3s
  <2>1. routers = Grid /\ pc' = "cpus" /\ UNCHANGED <<cfg, routers, int_links, cpu>>
        /\ pc = "l3" /\ cpu < num_cpus
    BY <1>2 DEF ConnectL3s, Inv
  <2>2. \A l \in ext_links' \ ext_links :
           l.int \in routers /\ l.ext \in DOMAIN controllers
    <3> SUFFICES ASSUME NEW i \in 0..(IF num_l3s < rows * cols THEN num_l3s - 1
                                      ELSE rows * cols - 1)
                 PROVE  /\ <<i \div cols, i % cols>> \in routers
                        /\ 2 * num_cpus + i \in DOMAIN controllers
      BY <1>2 DEF ConnectL3s
    <3>1. i \in 0..(rows * cols - 1) /\ i \in 0..(cfg.nl3 - 1)
      BY <1>0
    <3>2. <<i \div cols, i % cols>> \in Grid
      BY <1>0, <3>1, BankCell
    <3>3. 2 * num_cpus + i \in DOMAIN controllers
      BY <1>0, <3>1
    <3>4. QED
      BY <2>1, <3>2, <3>3
  <2>3. ext_links \subseteq ext_links'
    BY <1>2 DEF ConnectL3s
  <2>4. LinkEndpointsExist'
    BY <1>0, <2>1, <2>2, <2>3, AddLinks
  <2>5. Grid' = Grid /\ num_cpus' = num_cpus
    BY <2>1, Frame
  <2>6. QED
    BY <1>0, <2>1, <2>4, <2>5 DEF Inv, Phases
<1>3. CASE ConnectCpu
  <2> DEFINE cell == <<(cpu \div cols) % rows, cpu % cols>>
  <2>1. /\ routers = Grid /\ pc = "cpus" /\ cpu < num_cpus
        /\ UNCHANGED <<cfg, routers, int_links>>
        /\ cpu' = cpu + 1
        /\ pc' = IF cpu + 1 = num_cpus THEN "dirs" ELSE "cpus"
        /\ ext_links' = ext_links \cup {[ext |-> cpu, int |-> cell],
                                        [ext |-> num_cpus + cpu, int |-> cell]}
    BY <1>3 DEF ConnectCpu, Inv
  <2>2. cell \in Grid
    BY <1>0, WrappedCell
  <2>3. cpu \in DOMAIN controllers /\ num_cpus + cpu \in DOMAIN controllers
    <3>1. cpu \in 0..(cfg.ncpu - 1) /\ cfg.ncpu \in Nat /\ cfg.nl3 \in Nat
      BY <1>0, <2>1
    <3>2. cpu \in 0..(2 * cfg.ncpu + cfg.nl3) /\ cfg.ncpu + cpu \in 0..(2 * cfg.ncpu + cfg.nl3)
      BY <3>1
    <3>3. QED
      BY <1>0, <3>2
  <2>4. \A l \in ext_links' \ ext_links :
           l.int \in routers /\ l.ext \in DOMAIN controllers
    BY <2>1, <2>2, <2>3
  <2>5. LinkEndpointsExist'
    BY <1>0, <2>1, <2>4, AddLinks
  <2>6. Grid' = Grid /\ num_cpus' = num_cpus
    BY <2>1, Frame
  <2>7. /\ pc' \in Phases /\ cpu' \in Nat
        /\ pc' \in {"grid", "l3", "cpus"} => cpu' < num_cpus
    BY <1>0, <2>1 DEF Phases
  <2>8. QED
    BY <1>0, <2>1, <2>5, <2>6, <2>7 DEF Inv
<1>4. CASE ConnectDirs
  <2> DEFINE dir_start == 2 * num_cpus + num_l3s
  <2>1. routers = Grid /\ pc' = "rows" /\ UNCHANGED <<cfg, routers, int_links, cpu>>
    BY <1>4 DEF ConnectDirs, Inv
  <2>2. \A l \in ext_links' \ ext_links :
           l.int \in routers /\ l.ext \in DOMAIN controllers
    <3> SUFFICES ASSUME NEW k \in {j \in DOMAIN controllers : j >= dir_start}
                 PROVE  <<(k - dir_start) % rows, cols - 1>> \in routers
                        /\ k \in DOMAIN controllers
      BY <1>4 DEF ConnectDirs
    <3>1. k - dir_start \in Nat
      BY <1>0
    <3>2. <<(k - dir_start) % rows, cols - 1>> \in Grid
      BY <1>0, <3>1, WrappedCell
    <3>3. QED
      BY <2>1, <3>2
  <2>3. ext_links \subseteq ext_links'
    BY <1>4 DEF ConnectDirs
  <2>4. LinkEndpointsExist'
    BY <1>0, <2>1, <2>2, <2>3, AddLinks
  <2>5. Grid' = Grid
    BY <2>1, Frame
  <2>6. QED
    BY <1>0, <2>1, <2>4, <2>5 DEF Inv, Phases
<1>5. CASE ConnectRows
  <2>1. routers = Grid /\ pc' = "cols" /\ UNCHANGED <<cfg, routers, ext_links, cpu>>
    BY <1>5 DEF ConnectRows, Inv
  <2>2. \A l \in int_links' \ int_links : l.src \in routers /\ l.dst \in routers
    <3>1. ASSUME NEW i \in 0..(rows - 1), NEW j \in 0..(cols - 2)
          PROVE  <<i, j>> \in Grid /\ <<i, j + 1>> \in Grid
      BY <1>0 DEF Grid
    <3>2. QED
      BY <1>5, <2>1, <3>1 DEF ConnectRows
  <2>3. int_links \subseteq int_links'
    BY <1>5 DEF ConnectRows
  <2>4. LinkEndpointsExist'
    BY <1>0, <2>1, <2>2, <2>3, AddLinks
  <2>5. Grid' = Grid
    BY <2>1, Frame
  <2>6. QED
    BY <1>0, <2>1, <2>4, <2>5 DEF Inv, Phases
<1>6. CASE ConnectCols
  <2>1. routers = Grid /\ pc' = "done" /\ UNCHANGED <<cfg, routers, ext_links, cpu>>
    BY <1>6 DEF ConnectCols, Inv
  <2>2. \A l \in int_links' \ int_links : l.src \in routers /\ l.dst \in routers
    <3>1. ASSUME NEW i \in 0..(rows - 2), NEW j \in 0..(cols - 1)
          PROVE  <<i, j>> \in Grid /\ <<i + 1, j>> \in Grid
      BY <1>0 DEF Grid
    <3>2. QED
      BY <1>6, <2>1, <3>1 DEF ConnectCols
  <2>3. int_links \subseteq int_links'
    BY <1>6 DEF ConnectCols
  <2>4. LinkEndpointsExist'
    BY <1>0, <2>1, <2>2, <2>3, AddLinks
  <2>5. Grid' = Grid
    BY <2>1, Frame
  <2>6. QED
    BY <1>0, <2>1, <2>4, <2>5 DEF Inv, Phases
<1>7. CASE UNCHANGED vars
  <2>1. Grid' = Grid /\ num_cpus' = num_cpus /\ controllers' = controllers
    BY <1>7, Frame DEF vars
  <2>2. QED
    BY <1>7, <2>1 DEF vars, Inv, LinkEndpointsExist
<1>8. QED
  BY <1>1, <1>2, <1>3, <1>4, <1>5, <1>6, <1>7 DEF Next

-----------------------------------------------------------------------------
(* The exact external links: which controllers are attached in each phase *)
(* and the switch each one is on.  With it, each controller has exactly   *)
(* one link at the end, and the type invariant follows.                   *)

\* The switch connectControllers puts controller k on.
CellOf(k) ==
    IF k < num_cpus THEN <<(k \div cols) % rows, k % cols>>
    ELSE IF k < 2 * num_cpus
         THEN <<((k - num_cpus) \div cols) % rows, (k - num_cpus) % cols>>
    ELSE IF k < 2 * num_cpus + num_l3s
         THEN <<(k - 2 * num_cpus) \div cols, (k - 2 * num_cpus) % cols>>
    ELSE <<(k - (2 * num_cpus + num_l3s)) % rows, cols - 1>>

\* The controllers attached so far: the banks after the L3 loop, the L1 and
\* L2 of each cpu the cpu loop has passed, the directory after its loop.
Attached ==
    (IF pc \in {"grid", "l3"} THEN {}
     ELSE (2 * num_cpus)..(2 * num_cpus + num_l3s - 1))
    \cup (IF pc = "cpus" THEN (0..(cpu - 1)) \cup (num_cpus..(num_cpus + cpu - 1))
          ELSE IF pc \in {"dirs", "rows", "cols", "done"} THEN 0..(2 * num_cpus - 1)
          ELSE {})
    \cup (IF pc \in {"rows", "cols", "done"} THEN {2 * num_cpus + num_l3s} ELSE {})

\* Every external link is the one of an attached controller, on its switch,
\* and every attached controller has that link.
ExtLinksExact ==
    /\ \A l \in ext_links : l.ext \in Attached /\ l = [ext |-> l.ext, int |-> CellOf(l.ext)]
    /\ \A k \in Attached : [ext |-> k, int |-> CellOf(k)] \in ext_links

ExtExact ==
    /\ ExtLinksExact
    /\ int_links \subseteq [src : Grid, dst : Grid]
    /\ pc \in {"grid", "l3"} => cpu = 0
    /\ pc \in {"dirs", "rows", "cols", "done"} => cpu = num_cpus

\* A step that leaves cfg alone leaves every controller's switch alone.
LEMMA CellFrame ==
    ASSUME cfg' = cfg, NEW k
    PROVE  CellOf(k)' = CellOf(k)
<1>1. num_cpus' = num_cpus /\ num_l3s' = num_l3s /\ rows' = rows /\ cols' = cols
  BY Frame
<1>2. QED
  BY <1>1 DEF CellOf

\* Attaching new controllers, each with the link to its own switch, keeps
\* the external links exact.
LEMMA Extend ==
    ASSUME ExtLinksExact, cfg' = cfg,
           ext_links \subseteq ext_links', Attached \subseteq Attached',
           \A l \in ext_links' \ ext_links :
              l.ext \in Attached' /\ l = [ext |-> l.ext, int |-> CellOf(l.ext)],
           \A k \in Attached' \ Attached :
              [ext |-> k, int |-> CellOf(k)] \in ext_links'
    PROVE  ExtLinksExact'
<1>1. \A k : CellOf(k)' = CellOf(k)
  BY CellFrame
<1>2. QED
  BY <1>1 DEF ExtLinksExact

\* With nothing attached before, the L3 loop attaches exactly the banks.
LEMMA BanksAttached ==
    ASSUME Inv, ExtExact, ConnectL3s
    PROVE  ExtLinksExact'
<1> DEFINE n == num_cpus
           b == num_l3s
<1>0. /\ cfg \in Configs /\ n = cfg.ncpu /\ b = cfg.nl3
      /\ n \in 1..MaxCpus /\ b \in 1..MaxL3
      /\ rows \in 1..b /\ cols \in Nat \ {0} /\ b <= rows * cols
  BY Counts, GridFacts DEF Inv, Configs
<1>1. /\ pc = "l3" /\ pc' = "cpus" /\ cfg' = cfg /\ cpu' = cpu
      /\ ext_links' = ext_links \cup
           {[ext |-> 2 * n + i, int |-> <<i \div cols, i % cols>>] : i \in 0..(b - 1)}
  <2>1. (IF b < rows * cols THEN b - 1 ELSE rows * cols - 1) = b - 1
    BY <1>0
  <2>2. QED
    BY <2>1 DEF ConnectL3s
<1>2. cpu = 0 /\ Attached = {}
  BY <1>1 DEF ExtExact, Attached
<1>3. n' = n /\ b' = b
  BY <1>1, Frame
<1>4. Attached' = (2 * n)..(2 * n + b - 1)
  BY <1>0, <1>1, <1>2, <1>3 DEF Attached
<1>5. ASSUME NEW i \in 0..(b - 1)
      PROVE  CellOf(2 * n + i) = <<i \div cols, i % cols>>
  BY <1>0 DEF CellOf
<1>6. \A l \in ext_links' \ ext_links :
         l.ext \in Attached' /\ l = [ext |-> l.ext, int |-> CellOf(l.ext)]
  <2> SUFFICES ASSUME NEW i \in 0..(b - 1)
               PROVE  LET l == [ext |-> 2 * n + i, int |-> <<i \div cols, i % cols>>]
                      IN  l.ext \in Attached' /\ l = [ext |-> l.ext, int |-> CellOf(l.ext)]
    BY <1>1
  <2>1. 2 * n + i \in (2 * n)..(2 * n + b - 1)
    BY <1>0
  <2>2. QED
    BY <1>4, <1>5, <2>1
<1>7. \A k \in Attached' \ Attached : [ext |-> k, int |-> CellOf(k)] \in ext_links'
  <2> SUFFICES ASSUME NEW k \in (2 * n)..(2 * n + b - 1)
               PROVE  [ext |-> k, int |-> CellOf(k)] \in ext_links'
    BY <1>4
  <2>1. k - 2 * n \in 0..(b - 1) /\ k = 2 * n + (k - 2 * n)
    BY <1>0
  <2>2. CellOf(k) = <<(k - 2 * n) \div cols, (k - 2 * n) % cols>>
    BY <1>5, <2>1
  <2>3. QED
    BY <1>1, <2>1, <2>2
<1>8. QED
  BY <1>1, <1>2, <1>6, <1>7, Extend DEF ExtExact

\* One turn of the cpu loop attaches the L1 and the L2 of that cpu.
LEMMA CpuAttached ==
    ASSUME Inv, ExtExact, ConnectCpu
    PROVE  ExtLinksExact'
<1> DEFINE n == num_cpus
           b == num_l3s
           cell == <<(cpu \div cols) % rows, cpu % cols>>
           banks == (2 * n)..(2 * n + b - 1)
<1>0. /\ cfg \in Configs /\ n = cfg.ncpu /\ b = cfg.nl3
      /\ n \in 1..MaxCpus /\ b \in 1..MaxL3 /\ cpu \in Nat
  BY Counts DEF Inv, Configs
<1>1. /\ pc = "cpus" /\ cfg' = cfg /\ cpu' = cpu + 1
      /\ pc' = IF cpu + 1 = n THEN "dirs" ELSE "cpus"
      /\ ext_links' = ext_links \cup {[ext |-> cpu, int |-> cell],
                                      [ext |-> n + cpu, int |-> cell]}
  BY DEF ConnectCpu
<1>2. cpu < n
  BY <1>1 DEF Inv
<1>3. n' = n /\ b' = b
  BY <1>1, Frame
<1>4. Attached = banks \cup (0..(cpu - 1)) \cup (n..(n + cpu - 1))
  BY <1>1 DEF Attached
<1>5. Attached' = banks \cup (0..cpu) \cup (n..(n + cpu))
  <2>1. CASE cpu + 1 = n
    <3>1. pc' = "dirs"
      BY <1>1, <2>1
    <3>2. Attached' = banks \cup 0..(2 * n - 1)
      BY <1>1, <1>3, <3>1 DEF Attached
    <3>3. 0..(2 * n - 1) = (0..cpu) \cup (n..(n + cpu))
      BY <1>0, <2>1
    <3>4. QED
      BY <3>2, <3>3
  <2>2. CASE cpu + 1 # n
    <3>1. pc' = "cpus"
      BY <1>1, <2>2
    <3>2. QED
      BY <1>0, <1>1, <1>3, <3>1 DEF Attached
  <2>3. QED
    BY <2>1, <2>2
<1>6. CellOf(cpu) = cell /\ CellOf(n + cpu) = cell
  BY <1>0, <1>2 DEF CellOf
<1>7. Attached \subseteq Attached'
  BY <1>0, <1>4, <1>5
<1>8. \A l \in ext_links' \ ext_links :
         l.ext \in Attached' /\ l = [ext |-> l.ext, int |-> CellOf(l.ext)]
  <2>1. cpu \in Attached' /\ n + cpu \in Attached'
    BY <1>0, <1>5
  <2>2. QED
    BY <1>1, <1>6, <2>1
<1>9. \A k \in Attached' \ Attached : [ext |-> k, int |-> CellOf(k)] \in ext_links'
  <2>1. Attached' \ Attached \subseteq {cpu, n + cpu}
    BY <1>0, <1>4, <1>5
  <2>2. QED
    BY <1>1, <1>6, <2>1
<1>10. QED
  BY <1>1, <1>7, <1>8, <1>9, Extend DEF ExtExact

\* The directory loop attaches the one directory, the last controller.
LEMMA DirAttached ==
    ASSUME Inv, ExtExact, ConnectDirs
    PROVE  ExtLinksExact'
<1> DEFINE n == num_cpus
           b == num_l3s
           ds == 2 * n + b
<1>0. /\ cfg \in Configs /\ n = cfg.ncpu /\ b = cfg.nl3
      /\ n \in 1..MaxCpus /\ b \in 1..MaxL3
      /\ DOMAIN controllers = 0..(2 * cfg.ncpu + cfg.nl3)
  BY Counts DEF Inv, Configs, controllers, Registry
<1>1. /\ pc = "dirs" /\ pc' = "rows" /\ cfg' = cfg /\ cpu' = cpu
      /\ ext_links' = ext_links \cup
           {[ext |-> k, int |-> <<(k - ds) % rows, cols - 1>>] :
            k \in {j \in DOMAIN controllers : j >= ds}}
  BY DEF ConnectDirs
<1>2. {j \in DOMAIN controllers : j >= ds} = {ds}
  BY <1>0
<1>3. ext_links' = ext_links \cup {[ext |-> ds, int |-> <<(ds - ds) % rows, cols - 1>>]}
  BY <1>1, <1>2
<1>4. n' = n /\ b' = b
  BY <1>1, Frame
<1>5. Attached' = Attached \cup {ds}
  BY <1>1, <1>4 DEF Attached
<1>6. CellOf(ds) = <<(ds - ds) % rows, cols - 1>>
  <2>1. ~(ds < num_cpus) /\ ~(ds < 2 * num_cpus) /\ ~(ds < 2 * num_cpus + num_l3s)
    BY <1>0
  <2>2. QED
    BY <2>1, Zenon DEF CellOf
<1>7. QED
  BY <1>1, <1>3, <1>5, <1>6, Extend DEF ExtExact

LEMMA NextExact == Inv /\ ExtExact /\ [Next]_vars => ExtExact'
<1> SUFFICES ASSUME Inv, ExtExact, [Next]_vars PROVE ExtExact'
  OBVIOUS
<1>0. /\ cfg \in Configs /\ num_cpus = cfg.ncpu /\ cpu \in Nat
      /\ int_links \subseteq [src : Grid, dst : Grid]
  BY Counts DEF Inv, ExtExact
<1>1. CASE CreateRouters
  <2>1. pc = "grid" /\ pc' = "l3" /\ UNCHANGED <<cfg, ext_links, int_links, cpu>>
    BY <1>1 DEF CreateRouters
  <2>2. ext_links = {} /\ Attached' = {}
    BY <2>1 DEF Inv, LinkEndpointsExist, Attached
  <2>3. ExtLinksExact'
    BY <2>1, <2>2 DEF ExtLinksExact
  <2>4. Grid' = Grid
    BY <2>1, Frame
  <2>5. QED
    BY <1>0, <2>1, <2>3, <2>4 DEF ExtExact
<1>2. CASE ConnectL3s
  <2>1. pc' = "cpus" /\ UNCHANGED <<cfg, int_links, cpu>>
    BY <1>2 DEF ConnectL3s
  <2>2. Grid' = Grid
    BY <2>1, Frame
  <2>3. QED
    BY <1>0, <1>2, <2>1, <2>2, BanksAttached DEF ExtExact
<1>3. CASE ConnectCpu
  <2>1. /\ UNCHANGED <<cfg, int_links>> /\ cpu' = cpu + 1
        /\ pc' = IF cpu + 1 = num_cpus THEN "dirs" ELSE "cpus"
    BY <1>3 DEF ConnectCpu
  <2>2. Grid' = Grid /\ num_cpus' = num_cpus
    BY <2>1, Frame
  <2>3. pc' \in {"dirs", "rows", "cols", "done"} => cpu' = num_cpus'
    BY <2>1, <2>2
  <2>4. QED
    BY <1>0, <1>3, <2>1, <2>2, <2>3, CpuAttached DEF ExtExact
<1>4. CASE ConnectDirs
  <2>1. pc = "dirs" /\ pc' = "rows" /\ UNCHANGED <<cfg, int_links, cpu>>
    BY <1>4 DEF ConnectDirs
  <2>2. Grid' = Grid /\ num_cpus' = num_cpus
    BY <2>1, Frame
  <2>3. cpu' = num_cpus'
    BY <2>1, <2>2 DEF ExtExact
  <2>4. QED
    BY <1>0, <1>4, <2>1, <2>2, <2>3, DirAttached DEF ExtExact
<1>5. CASE ConnectRows \/ ConnectCols
  <2>1. /\ pc \in {"rows", "cols"} /\ pc' \in {"cols", "done"}
        /\ UNCHANGED <<cfg, ext_links, cpu>>
        /\ int_links \subseteq int_links'
    BY <1>5 DEF ConnectRows, ConnectCols
  <2>2. Grid' = Grid /\ num_cpus' = num_cpus /\ num_l3s' = num_l3s
    BY <2>1, Frame
  <2>3. Attached' = Attached
    BY <2>1, <2>2 DEF Attached
  <2>4. ExtLinksExact'
    BY <2>1, <2>3, Extend DEF ExtExact
  <2>5. int_links' \subseteq [src : Grid, dst : Grid]
    <3>1. rows \in Nat \ {0} /\ cols \in Nat \ {0}
      BY <1>0, GridFacts
    <3>2. CASE ConnectRows
      <4>1. ASSUME NEW i \in 0..(rows - 1), NEW j \in 0..(cols - 2)
            PROVE  <<i, j>> \in Grid /\ <<i, j + 1>> \in Grid
        BY <3>1 DEF Grid
      <4>2. QED
        BY <1>0, <3>2, <4>1 DEF ConnectRows
    <3>3. CASE ConnectCols
      <4>1. ASSUME NEW i \in 0..(rows - 2), NEW j \in 0..(cols - 1)
            PROVE  <<i, j>> \in Grid /\ <<i + 1, j>> \in Grid
        BY <3>1 DEF Grid
      <4>2. QED
        BY <1>0, <3>3, <4>1 DEF ConnectCols
    <3>4. QED
      BY <1>5, <3>2, <3>3
  <2>6. QED
    BY <2>1, <2>2, <2>4, <2>5 DEF ExtExact
<1>6. CASE UNCHANGED vars
  <2>1. Grid' = Grid /\ num_cpus' = num_cpus /\ num_l3s' = num_l3s
    BY <1>6, Frame DEF vars
  <2>2. Attached' = Attached
    BY <1>6, <2>1 DEF vars, Attached
  <2>3. ExtLinksExact'
    BY <1>6, <2>2, Extend DEF vars, ExtExact
  <2>4. QED
    BY <1>6, <2>1, <2>3 DEF vars, ExtExact
<1>7. QED
  BY <1>1, <1>2, <1>3, <1>4, <1>5, <1>6 DEF Next

\* For every number of cpus and banks, connectControllers never indexes a
\* switch or a controller that does not exist: the min of the L3 loop and
\* the % rows of the cpu loop keep every index in range.
THEOREM EndpointsExist == Spec => []LinkEndpointsExist
<1>1. Init => Inv
  BY InitInv
<1>2. Inv /\ [Next]_vars => Inv'
  BY NextInv
<1>3. Inv => LinkEndpointsExist
  BY DEF Inv
<1>4. QED
  BY <1>1, <1>2, <1>3, PTL DEF Spec


\* The ceiling division never gives more columns than banks.
LEMMA ColsBound ==
    ASSUME cfg \in Configs
    PROVE  cols \in 1..cfg.nl3
<1>1. cfg.nl3 \in 1..MaxL3 /\ num_l3s = cfg.nl3 /\ rows \in 1..cfg.nl3
  BY Counts, GridFacts DEF Configs
<1>2. ASSUME NEW b \in 1..MaxL3, NEW r \in 1..b
      PROVE  (b + r - 1) \div r \in 1..b
  BY ConstAssumption
<1>3. QED
  BY <1>1, <1>2 DEF cols

\* At the end every controller index of the list is attached.
LEMMA DoneAttached ==
    ASSUME Inv, ExtExact, pc = "done"
    PROVE  Attached = DOMAIN controllers
<1>1. cfg \in Configs /\ num_cpus = cfg.ncpu /\ num_l3s = cfg.nl3
      /\ cfg.ncpu \in 1..MaxCpus /\ cfg.nl3 \in 1..MaxL3
  BY Counts DEF Inv, Configs
<1>2. DOMAIN controllers = 0..(2 * cfg.ncpu + cfg.nl3)
  BY DEF controllers, Registry
<1>3. Attached = ((2 * num_cpus)..(2 * num_cpus + num_l3s - 1))
                 \cup (0..(2 * num_cpus - 1)) \cup {2 * num_cpus + num_l3s}
  BY DEF Attached
<1>4. ASSUME NEW x
      PROVE  x \in Attached <=> x \in 0..(2 * cfg.ncpu + cfg.nl3)
  BY <1>1, <1>3
<1>5. QED
  BY <1>2, <1>4

\* Once connectControllers returns, each controller of the list has exactly
\* one SimpleExtLink, for every number of cpus and banks: the L3 loop's
\* min(num_l3s, rows * cols) never leaves a bank out, and no loop attaches
\* a controller twice.
THEOREM AttachedOnce == Spec => []OneAttachmentEach
<1>1. Init => Inv /\ ExtExact
  <2> SUFFICES ASSUME Init PROVE Inv /\ ExtExact
    OBVIOUS
  <2>1. Attached = {}
    BY DEF Init, Attached
  <2>2. QED
    BY <2>1, InitInv DEF Init, ExtExact, ExtLinksExact
<1>2. Inv /\ ExtExact /\ [Next]_vars => (Inv /\ ExtExact)'
  BY NextInv, NextExact
<1>3. Inv /\ ExtExact => OneAttachmentEach
  <2> SUFFICES ASSUME Inv, ExtExact, pc = "done", NEW k \in DOMAIN controllers
               PROVE  Cardinality({l \in ext_links : l.ext = k}) = 1
    BY DEF OneAttachmentEach
  <2>1. k \in Attached
    BY DoneAttached
  <2>2. {l \in ext_links : l.ext = k} = {[ext |-> k, int |-> CellOf(k)]}
    BY <2>1 DEF ExtExact, ExtLinksExact
  <2>3. QED
    BY <2>2, FS_Singleton
<1>4. QED
  BY <1>1, <1>2, <1>3, PTL DEF Spec

\* The type invariant of connectControllers holds in every state.
THEOREM NetworkTypeCorrect == Spec => []TypeOK
<1>1. Init => Inv /\ ExtExact
  <2> SUFFICES ASSUME Init PROVE Inv /\ ExtExact
    OBVIOUS
  <2>1. Attached = {}
    BY DEF Init, Attached
  <2>2. QED
    BY <2>1, InitInv DEF Init, ExtExact, ExtLinksExact
<1>2. Inv /\ ExtExact /\ [Next]_vars => (Inv /\ ExtExact)'
  BY NextInv, NextExact
<1>3. Inv /\ ExtExact => TypeOK
  <2> SUFFICES ASSUME Inv, ExtExact PROVE TypeOK
    OBVIOUS
  <2>1. /\ cfg \in Configs /\ num_cpus = cfg.ncpu /\ cfg.ncpu \in 1..MaxCpus
        /\ cfg.nl3 \in 1..MaxL3 /\ pc \in Phases /\ cpu \in Nat
        /\ rows \in 1..cfg.nl3 /\ cols \in 1..cfg.nl3
    BY Counts, GridFacts, ColsBound DEF Inv, Configs
  <2>2. Grid \subseteq Cell
    BY <2>1 DEF Grid, Cell
  <2>3. routers \subseteq Cell
    BY <2>2 DEF Inv
  <2>4. DOMAIN controllers \subseteq CtrlIds
    BY <2>1 DEF controllers, Registry, CtrlIds
  <2>5. ext_links \subseteq ExtLink
    <3> SUFFICES ASSUME NEW l \in ext_links PROVE l \in ExtLink
      OBVIOUS
    <3>1. l = [ext |-> l.ext, int |-> CellOf(l.ext)]
      BY DEF ExtExact, ExtLinksExact
    <3>2. l.ext \in CtrlIds /\ l.int \in Cell
      BY <2>3, <2>4 DEF Inv, LinkEndpointsExist
    <3>3. QED
      BY <3>1, <3>2 DEF ExtLink
  <2>6. int_links \subseteq IntLink
    BY <2>2 DEF ExtExact, IntLink
  <2>7. cpu \in 0..MaxCpus
    BY <2>1 DEF Inv, ExtExact, Phases
  <2>8. QED
    BY <2>1, <2>3, <2>5, <2>6, <2>7 DEF TypeOK
<1>4. QED
  BY <1>1, <1>2, <1>3, PTL DEF Spec

=============================================================================
