------------------------- MODULE NucaTopologyProofs -------------------------
(***************************************************************************)
(* Proofs about SwitchedNUCA.makeTopology (NucaTopology) for every number  *)
(* of cpus and banks: the type invariant, that every router index the     *)
(* grid loops compute is below the number of routers, and every link      *)
(* joins nodes that exist (LinkEndpointsExist).                            *)
(*                                                                         *)
(* The index argument is the floor division of newNucaNet.py:20: with     *)
(* num_columns = banks // num_rows, num_rows * num_columns <= banks, so    *)
(* col + row * num_columns stays below banks for every row and column the *)
(* loops visit.  (The ceiling division spec 4.3 asks for would break it.)  *)
(***************************************************************************)
EXTENDS NucaTopology, TLAPS

USE ConstAssumption

\* The inductive invariant: the routers exist from CreateRouters on, the
\* L2 loop's index stays below the cpu count, and LinkEndpointsExist.
TInv ==
    /\ TypeOK
    /\ routers = IF pc = "routers" THEN {} ELSE 0..(cfg.nl3 - 1)
    /\ pc = "l2" => nextL2 < cfg.ncpu
    /\ pc \in {"routers", "l3", "rows", "cols"} => nextL2 = 0
    /\ LinkEndpointsExist


-----------------------------------------------------------------------------
\* int(sqrt(banks)) rows and banks // rows columns never need more routers
\* than there are banks.
LEMMA GridBound ==
    ASSUME cfg \in Configs
    PROVE  /\ num_rows \in 1..cfg.nl3
           /\ num_columns \in Nat
           /\ num_rows * num_columns <= cfg.nl3
<1> DEFINE b == cfg.nl3
<1>1. b \in 1..MaxL3
  BY DEF Configs
<1>2. num_rows \in 1..b
  <2>1. \E r \in 1..b : r * r <= b /\ b < (r + 1) * (r + 1)
    BY <1>1, IntSqrtExists
  <2>2. IntSqrt(b) \in 1..b
    BY <2>1, Zenon DEF IntSqrt
  <2>3. QED
    BY <2>2 DEF num_rows
<1>3. ASSUME NEW r \in 1..b
      PROVE  b \div r \in Nat /\ r * (b \div r) <= b
  BY <1>1
<1>4. QED
  BY <1>2, <1>3 DEF num_columns

\* Router col + row * num_columns of a grid cell is an existing router.
LEMMA GridRouter ==
    ASSUME cfg \in Configs,
           NEW row \in 0..(num_rows - 1), NEW col \in 0..(num_columns - 1)
    PROVE  col + row * num_columns \in 0..(cfg.nl3 - 1)
<1> DEFINE r == num_rows
           c == num_columns
<1>1. r \in 1..cfg.nl3 /\ c \in Nat /\ r * c <= cfg.nl3 /\ cfg.nl3 \in Nat
  BY GridBound DEF Configs
<1>2. row * c <= (r - 1) * c
  <2>1. (r - 1 - row) \in Nat /\ row \in Nat
    BY <1>1
  <2>2. (r - 1 - row) * c \in Nat
    BY <1>1, <2>1
  <2>3. (r - 1) * c = row * c + (r - 1 - row) * c
    BY <1>1, <2>1
  <2>4. QED
    BY <1>1, <2>1, <2>2, <2>3
<1>3. (r - 1) * c + c = r * c
  BY <1>1
<1>4. QED
  BY <1>1, <1>2, <1>3

\* A step that adds links whose ends exist keeps LinkEndpointsExist.
LEMMA AddLinks ==
    ASSUME LinkEndpointsExist, links \subseteq Link, cfg' = cfg,
           links \subseteq links',
           \A l \in links' \ links :
              /\ l \in Link
              /\ l.src \in NetNodes /\ l.dst \in NetNodes
    PROVE  LinkEndpointsExist' /\ links' \subseteq Link
<1>1. NetNodes' = NetNodes
  BY DEF NetNodes, R
<1>2. QED
  BY <1>1 DEF LinkEndpointsExist

\* The nodes of the network are nodes of the type.
LEMMA NetNodesType ==
    ASSUME cfg \in Configs
    PROVE  NetNodes \subseteq Node
BY DEF Configs, NetNodes, Node, RouterIds, R, NumDirs

\* Both buffers of a pair between two nodes of the network are links of
\* the type that join nodes of the network.
LEMMA PairFacts ==
    ASSUME cfg \in Configs, NEW a \in NetNodes, NEW b \in NetNodes,
           NEW w \in Widths, NEW l \in Pair(a, b, w)
    PROVE  /\ l \in Link
           /\ l.src \in NetNodes /\ l.dst \in NetNodes
<1>1. a \in Node /\ b \in Node
  BY NetNodesType
<1>2. QED
  BY <1>1 DEF Pair, Link

LEMMA InitTInv == Init => TInv
BY DEF Init, TInv, TypeOK, Phases, LinkEndpointsExist


\* The facts about the arguments every step uses.
LEMMA CfgFacts ==
    ASSUME TInv
    PROVE  /\ cfg \in Configs
           /\ cfg.ncpu \in 1..MaxCpus /\ cfg.nl3 \in 1..MaxL3
           /\ links \subseteq Link
           /\ LinkEndpointsExist
BY DEF TInv, TypeOK, Configs

\* What a step that touches only links keeps of TInv.
LEMMA LinksOnly ==
    ASSUME TInv, pc' \in Phases, pc' # "l2", pc' # "routers",
           pc \notin {"routers", "l2"},
           UNCHANGED <<cfg, routers, nextL2>>,
           LinkEndpointsExist', links' \subseteq Link,
           pc' \in {"routers", "l3", "rows", "cols"} => pc \in {"l3", "rows", "cols"}
    PROVE  TInv'
BY DEF TInv, TypeOK

LEMMA NextTInv == TInv /\ [Next]_vars => TInv'
<1> SUFFICES ASSUME TInv, [Next]_vars PROVE TInv'
  OBVIOUS
<1>0. /\ cfg \in Configs
      /\ cfg.ncpu \in 1..MaxCpus /\ cfg.nl3 \in 1..MaxL3
      /\ links \subseteq Link
      /\ LinkEndpointsExist
  BY CfgFacts
<1>1. CASE CreateRouters
  <2>1. pc = "routers" /\ pc' = "l3" /\ UNCHANGED <<cfg, links, nextL2>>
        /\ routers' = 0..(cfg.nl3 - 1)
    BY <1>1 DEF CreateRouters
  <2>2. nextL2 = 0
    BY <2>1 DEF TInv
  <2>3. LinkEndpointsExist'
    BY <1>0, <2>1 DEF LinkEndpointsExist, NetNodes, R
  <2>4. routers' \subseteq RouterIds
    BY <1>0, <2>1 DEF RouterIds
  <2>5. QED
    BY <1>0, <2>1, <2>2, <2>3, <2>4 DEF TInv, TypeOK, Phases
<1>2. CASE ConnectBanks
  <2>1. pc = "l3" /\ pc' = "rows" /\ UNCHANGED <<cfg, routers, nextL2>>
        /\ links' = links \cup UNION {Pair(<<"L3", i>>, R(i), "none") :
                                       i \in 0..(cfg.nl3 - 1)}
    BY <1>2 DEF ConnectBanks
  <2>2. \A l \in links' \ links :
           /\ l \in Link
           /\ l.src \in NetNodes /\ l.dst \in NetNodes
    <3> SUFFICES ASSUME NEW i \in 0..(cfg.nl3 - 1),
                        NEW l \in Pair(<<"L3", i>>, R(i), "none")
                 PROVE  /\ l \in Link
                        /\ l.src \in NetNodes /\ l.dst \in NetNodes
      BY <2>1
    <3>1. <<"L3", i>> \in NetNodes /\ R(i) \in NetNodes /\ "none" \in Widths
      BY DEF NetNodes, Widths
    <3>2. QED
      BY <1>0, <2>1, <3>1, PairFacts
  <2>3. LinkEndpointsExist' /\ links' \subseteq Link
    BY <1>0, <2>1, <2>2, AddLinks
  <2>4. QED
    BY <2>1, <2>3, LinksOnly DEF Phases

<1>3. CASE ConnectRows
  <2> DEFINE c == num_columns
  <2>1. pc = "rows" /\ pc' = "cols" /\ UNCHANGED <<cfg, routers, nextL2>>
        /\ links' = links \cup
             UNION {Pair(R(col + row * c), R(col + 1 + row * c), "data") :
                    row \in 0..(num_rows - 1), col \in 0..(c - 2)}
    BY <1>3 DEF ConnectRows
  <2>2. \A l \in links' \ links :
           /\ l \in Link
           /\ l.src \in NetNodes /\ l.dst \in NetNodes
    <3> SUFFICES ASSUME NEW row \in 0..(num_rows - 1), NEW col \in 0..(c - 2),
                        NEW l \in Pair(R(col + row * c), R(col + 1 + row * c), "data")
                 PROVE  /\ l \in Link
                        /\ l.src \in NetNodes /\ l.dst \in NetNodes
      BY <2>1
    <3>1. c \in Nat /\ col \in 0..(c - 1) /\ col + 1 \in 0..(c - 1)
      BY <1>0, GridBound
    <3>2. col + row * c \in 0..(cfg.nl3 - 1) /\ col + 1 + row * c \in 0..(cfg.nl3 - 1)
      BY <1>0, <3>1, GridRouter
    <3>3. R(col + row * c) \in NetNodes /\ R(col + 1 + row * c) \in NetNodes
          /\ "data" \in Widths
      BY <3>2 DEF NetNodes, Widths
    <3>4. QED
      BY <1>0, <2>1, <3>3, PairFacts
  <2>3. LinkEndpointsExist' /\ links' \subseteq Link
    BY <1>0, <2>1, <2>2, AddLinks
  <2>4. QED
    BY <2>1, <2>3, LinksOnly DEF Phases
<1>4. CASE ConnectColumns
  <2> DEFINE c == num_columns
  <2>1. pc = "cols" /\ pc' = "l2" /\ UNCHANGED <<cfg, routers, nextL2>>
        /\ links' = links \cup
             UNION {Pair(R(col + row * c), R(col + (row + 1) * c), "addr") :
                    col \in 0..(c - 1), row \in 0..(num_rows - 2)}
    BY <1>4 DEF ConnectColumns
  <2>2. \A l \in links' \ links :
           /\ l \in Link
           /\ l.src \in NetNodes /\ l.dst \in NetNodes
    <3> SUFFICES ASSUME NEW col \in 0..(c - 1), NEW row \in 0..(num_rows - 2),
                        NEW l \in Pair(R(col + row * c), R(col + (row + 1) * c), "addr")
                 PROVE  /\ l \in Link
                        /\ l.src \in NetNodes /\ l.dst \in NetNodes
      BY <2>1
    <3>1. num_rows \in Nat /\ row \in 0..(num_rows - 1) /\ row + 1 \in 0..(num_rows - 1)
      BY <1>0, GridBound
    <3>2. col + row * c \in 0..(cfg.nl3 - 1) /\ col + (row + 1) * c \in 0..(cfg.nl3 - 1)
      BY <1>0, <3>1, GridRouter
    <3>3. R(col + row * c) \in NetNodes /\ R(col + (row + 1) * c) \in NetNodes
          /\ "addr" \in Widths
      BY <3>2 DEF NetNodes, Widths
    <3>4. QED
      BY <1>0, <2>1, <3>3, PairFacts
  <2>3. LinkEndpointsExist' /\ links' \subseteq Link
    BY <1>0, <2>1, <2>2, AddLinks
  <2>4. routers = 0..(cfg.nl3 - 1)
    BY <2>1 DEF TInv
  <2>5. QED
    BY <1>0, <2>1, <2>3, <2>4 DEF TInv, TypeOK, Phases, RouterIds
<1>5. ASSUME NEW r \in 0..(cfg.nl3 - 1), ConnectL2(r)
      PROVE  TInv'
  <2>1. /\ pc = "l2" /\ UNCHANGED <<cfg, routers>>
        /\ links' = links \cup Pair(<<"L2", nextL2>>, R(r), "none")
        /\ nextL2' = nextL2 + 1
        /\ pc' = IF nextL2 + 1 = cfg.ncpu THEN "dir" ELSE "l2"
    BY <1>5 DEF ConnectL2
  <2>2. nextL2 \in Nat /\ nextL2 < cfg.ncpu /\ routers = 0..(cfg.nl3 - 1)
    BY <2>1 DEF TInv, TypeOK
  <2>3. \A l \in links' \ links :
           /\ l \in Link
           /\ l.src \in NetNodes /\ l.dst \in NetNodes
    <3>1. <<"L2", nextL2>> \in NetNodes /\ R(r) \in NetNodes /\ "none" \in Widths
      BY <1>0, <2>2 DEF NetNodes, Widths
    <3>2. QED
      BY <1>0, <2>1, <3>1, PairFacts
  <2>4. LinkEndpointsExist' /\ links' \subseteq Link
    BY <1>0, <2>1, <2>3, AddLinks
  <2>5. nextL2' \in 0..MaxCpus /\ (pc' = "l2" => nextL2' < cfg'.ncpu)
        /\ pc' \in {"dir", "l2"}
    BY <1>0, <2>1, <2>2
  <2>6. QED
    BY <1>0, <2>1, <2>2, <2>4, <2>5 DEF TInv, TypeOK, Phases, RouterIds
<1>6. CASE ConnectDirs
  <2>1. pc = "dir" /\ pc' = "done" /\ UNCHANGED <<cfg, routers, nextL2>>
        /\ links' = links \cup UNION {Pair(<<"Dir", d>>, R(i), "none") :
                                       d \in 0..(NumDirs - 1), i \in routers}
    BY <1>6 DEF ConnectDirs
  <2>2. routers = 0..(cfg.nl3 - 1)
    BY <2>1 DEF TInv
  <2>3. \A l \in links' \ links :
           /\ l \in Link
           /\ l.src \in NetNodes /\ l.dst \in NetNodes
    <3> SUFFICES ASSUME NEW l \in links' \ links
                 PROVE  /\ l \in Link
                        /\ l.src \in NetNodes /\ l.dst \in NetNodes
      OBVIOUS
    <3>1. PICK d \in 0..(NumDirs - 1), i \in routers : l \in Pair(<<"Dir", d>>, R(i), "none")
      BY <2>1
    <3>2. <<"Dir", d>> \in NetNodes /\ R(i) \in NetNodes /\ "none" \in Widths
      BY <2>2 DEF NetNodes, Widths, NumDirs
    <3>3. Pair(<<"Dir", d>>, R(i), "none") \subseteq links'
      BY <2>1
    <3>4. QED
      BY <1>0, <3>1, <3>2, <3>3, PairFacts
  <2>4. LinkEndpointsExist' /\ links' \subseteq Link
    BY <1>0, <2>1, <2>3, AddLinks
  <2>5. QED
    BY <2>1, <2>4, LinksOnly DEF Phases
<1>7. CASE UNCHANGED vars
  BY <1>7 DEF vars, TInv, TypeOK, LinkEndpointsExist, NetNodes, R
<1>8. QED
  BY <1>1, <1>2, <1>3, <1>4, <1>5, <1>6, <1>7 DEF Next

\* The type invariant of makeTopology holds in every state.
THEOREM TopologyTypeCorrect == Spec => []TypeOK
<1>1. Init => TInv
  BY InitTInv
<1>2. TInv /\ [Next]_vars => TInv'
  BY NextTInv
<1>3. TInv => TypeOK
  BY DEF TInv
<1>4. QED
  BY <1>1, <1>2, <1>3, PTL DEF Spec

\* For every number of banks and cpus, makeTopology never indexes routers
\* past its end (the floor division num_columns = banks // num_rows keeps
\* num_rows * num_columns <= banks), and every link it appends joins nodes
\* that exist.
THEOREM TopologyEndpointsExist == Spec => []LinkEndpointsExist
<1>1. Init => TInv
  BY InitTInv
<1>2. TInv /\ [Next]_vars => TInv'
  BY NextTInv
<1>3. TInv => LinkEndpointsExist
  BY DEF TInv
<1>4. QED
  BY <1>1, <1>2, <1>3, PTL DEF Spec

=============================================================================
