---------------------------- MODULE NucaNetwork -----------------------------
(***************************************************************************)
(* NucaNetwork.connectControllers (config/NucaConfig/NucaNetwork.py): a    *)
(* rows x cols grid of Switches with rows = int(sqrt(#L3)) and cols the    *)
(* ceiling of #L3 / rows, one SimpleExtLink per controller (L3 i on grid   *)
(* cell i, L1 and L2 of cpu i on cell ((i // cols) % rows, i % cols), the  *)
(* directories on the rightmost column) and SimpleIntLinks both ways       *)
(* between neighbouring switches.                                          *)
(*                                                                         *)
(* The controller list is the one MyCacheSystem.setup builds,              *)
(* [L1 x N, L2 x N, L3 x B, Dir] (RubySetupProofs proves that order).      *)
(* A controller is its 0-based index in that list; a switch is its grid    *)
(* cell <<row, col>>.  A SimpleExtLink carries traffic both ways; a        *)
(* SimpleIntLink one way.                                                  *)
(***************************************************************************)
EXTENDS Integers, FiniteSets, Reachability

CONSTANTS
    MaxCpus,   \* largest number of cpus
    MaxL3      \* largest numL3caches

ASSUME ConstAssumption ==
    /\ MaxCpus \in Nat \ {0}
    /\ MaxL3 \in Nat \ {0}

\* int(math.sqrt(n)) for a positive integer n.
IntSqrt(n) == CHOOSE r \in 1..n : r * r <= n /\ n < (r + 1) * (r + 1)

\* The integer square root exists for every bank count the model uses.
ASSUME IntSqrtExists ==
    \A n \in 1..MaxL3 : \E r \in 1..n : r * r <= n /\ n < (r + 1) * (r + 1)

Configs == [ncpu : 1..MaxCpus, nl3 : 1..MaxL3]

\* The classes of the controllers, in the order setup lists them.
Registry(c) ==
    [k \in 0..(2 * c.ncpu + c.nl3) |->
        IF k < c.ncpu THEN "L1"
        ELSE IF k < 2 * c.ncpu THEN "L2"
        ELSE IF k < 2 * c.ncpu + c.nl3 THEN "L3"
        ELSE "Dir"]

Cell == (0..MaxL3) \X (0..MaxL3)
CtrlIds == 0..(2 * MaxCpus + MaxL3)
ExtLink == [ext : CtrlIds, int : Cell]
IntLink == [src : Cell, dst : Cell]

VARIABLES
    pc,         \* which part of connectControllers runs next
    cfg,        \* the setup arguments that shape the list
    routers,    \* the grid cells that hold a Switch
    ext_links,  \* the SimpleExtLinks
    int_links,  \* the SimpleIntLinks
    cpu         \* index of the next turn of the L1/L2 loop

vars == <<pc, cfg, routers, ext_links, int_links, cpu>>

Phases == {"grid", "l3", "cpus", "dirs", "rows", "cols", "done"}

controllers == Registry(cfg)

\* len([c for c in controllers if isinstance(c, controllers[k].__class__)])
CountLike(k) == Cardinality({j \in DOMAIN controllers : controllers[j] = controllers[k]})

num_cpus == CountLike(0)
num_l3s == CountLike(2 * num_cpus)

\* rows = int(math.sqrt(num_l3s)); cols = (num_l3s + rows - 1) // rows
rows == IntSqrt(num_l3s)
cols == (num_l3s + rows - 1) \div rows

-----------------------------------------------------------------------------
Init ==
    /\ pc = "grid"
    /\ cfg \in Configs
    /\ routers = {}
    /\ ext_links = {}
    /\ int_links = {}
    /\ cpu = 0

\* self.routers = [[Switch(router_id=i*cols + j) for j in range(cols)]
\*                 for i in range(rows)]
CreateRouters ==
    /\ pc = "grid"
    /\ routers' = (0..(rows - 1)) \X (0..(cols - 1))
    /\ pc' = "l3"
    /\ UNCHANGED <<cfg, ext_links, int_links, cpu>>

\* Faulty variant: the L3 loop over every grid cell, without the min.
ConnectL3sAllCells ==
    /\ pc = "l3"
    /\ ext_links' = ext_links \cup
         {[ext |-> 2 * num_cpus + i, int |-> <<i \div cols, i % cols>>] :
          i \in 0..(rows * cols - 1)}
    /\ pc' = "cpus"
    /\ UNCHANGED <<cfg, routers, int_links, cpu>>

\* for i in range(min(num_l3s, rows * cols)): controllers[l3_start + i] on
\* routers[i // cols][i % cols].
ConnectL3s ==
    /\ pc = "l3"
    /\ ext_links' = ext_links \cup
         {[ext |-> 2 * num_cpus + i, int |-> <<i \div cols, i % cols>>] :
          i \in 0..(IF num_l3s < rows * cols THEN num_l3s - 1 ELSE rows * cols - 1)}
    /\ pc' = "cpus"
    /\ UNCHANGED <<cfg, routers, int_links, cpu>>

\* Faulty variants of one turn of the L1/L2 loop: the row not wrapped by
\* % rows, and the loop run over range(num_cpus + 1).
ConnectCpuNoWrap ==
    /\ pc = "cpus"
    /\ LET cell == <<cpu \div cols, cpu % cols>>
       IN  ext_links' = ext_links \cup {[ext |-> cpu, int |-> cell],
                                        [ext |-> num_cpus + cpu, int |-> cell]}
    /\ cpu' = cpu + 1
    /\ pc' = IF cpu + 1 = num_cpus THEN "dirs" ELSE "cpus"
    /\ UNCHANGED <<cfg, routers, int_links>>

ConnectCpuOneTooMany ==
    /\ pc = "cpus"
    /\ LET cell == <<(cpu \div cols) % rows, cpu % cols>>
       IN  ext_links' = ext_links \cup {[ext |-> cpu, int |-> cell],
                                        [ext |-> num_cpus + cpu, int |-> cell]}
    /\ cpu' = cpu + 1
    /\ pc' = IF cpu + 1 = num_cpus + 1 THEN "dirs" ELSE "cpus"
    /\ UNCHANGED <<cfg, routers, int_links>>

\* One turn of "for i in range(num_cpus)": the L1 controllers[i] and the L2
\* controllers[num_cpus + i] on routers[(i // cols) % rows][i % cols].
ConnectCpu ==
    /\ pc = "cpus"
    /\ LET cell == <<(cpu \div cols) % rows, cpu % cols>>
       IN  ext_links' = ext_links \cup {[ext |-> cpu, int |-> cell],
                                        [ext |-> num_cpus + cpu, int |-> cell]}
    /\ cpu' = cpu + 1
    /\ pc' = IF cpu + 1 = num_cpus THEN "dirs" ELSE "cpus"
    /\ UNCHANGED <<cfg, routers, int_links>>

\* for i, ctrl in enumerate(controllers[dir_start:]): ctrl on
\* routers[i % rows][cols - 1].
ConnectDirs ==
    /\ pc = "dirs"
    /\ LET dir_start == 2 * num_cpus + num_l3s
       IN  ext_links' = ext_links \cup
             {[ext |-> k, int |-> <<(k - dir_start) % rows, cols - 1>>] :
              k \in {j \in DOMAIN controllers : j >= dir_start}}
    /\ pc' = "rows"
    /\ UNCHANGED <<cfg, routers, int_links, cpu>>

\* Faulty variant: the horizontal loop bounds swapped, range(rows - 1).
ConnectRowsSwapped ==
    /\ pc = "rows"
    /\ int_links' = int_links \cup
         UNION {{[src |-> <<i, j>>, dst |-> <<i, j + 1>>],
                 [src |-> <<i, j + 1>>, dst |-> <<i, j>>]} :
                i \in 0..(rows - 1), j \in 0..(rows - 2)}
    /\ pc' = "cols"
    /\ UNCHANGED <<cfg, routers, ext_links, cpu>>

\* Horizontal connections: for i in range(rows), j in range(cols - 1), the
\* links [i][j] -> [i][j+1] and back.
ConnectRows ==
    /\ pc = "rows"
    /\ int_links' = int_links \cup
         UNION {{[src |-> <<i, j>>, dst |-> <<i, j + 1>>],
                 [src |-> <<i, j + 1>>, dst |-> <<i, j>>]} :
                i \in 0..(rows - 1), j \in 0..(cols - 2)}
    /\ pc' = "cols"
    /\ UNCHANGED <<cfg, routers, ext_links, cpu>>

\* Vertical connections: for i in range(rows - 1), j in range(cols), the
\* links [i][j] -> [i+1][j] and back.
ConnectCols ==
    /\ pc = "cols"
    /\ int_links' = int_links \cup
         UNION {{[src |-> <<i, j>>, dst |-> <<i + 1, j>>],
                 [src |-> <<i + 1, j>>, dst |-> <<i, j>>]} :
                i \in 0..(rows - 2), j \in 0..(cols - 1)}
    /\ pc' = "done"
    /\ UNCHANGED <<cfg, routers, ext_links, cpu>>

Next ==
    \/ CreateRouters
    \/ ConnectL3s
    \/ ConnectCpu
    \/ ConnectDirs
    \/ ConnectRows
    \/ ConnectCols

Spec == Init /\ [][Next]_vars

-----------------------------------------------------------------------------
TypeOK ==
    /\ pc \in Phases
    /\ cfg \in Configs
    /\ routers \subseteq Cell
    /\ ext_links \subseteq ExtLink
    /\ int_links \subseteq IntLink
    /\ cpu \in 0..MaxCpus

\* Every link names a switch of the grid and a controller of the list:
\* self.routers[row][col] and controllers[...] would raise IndexError
\* otherwise (the % rows of the L1/L2 loop and the min of the L3 loop are
\* what keep them in range when there are more cpus or banks than cells).
LinkEndpointsExist ==
    /\ \A l \in ext_links : l.int \in routers /\ l.ext \in DOMAIN controllers
    /\ \A l \in int_links : l.src \in routers /\ l.dst \in routers

\* Once connectControllers returns, every controller has exactly one
\* SimpleExtLink: none is left off the network and none is attached twice.
OneAttachmentEach ==
    pc = "done" =>
        \A k \in DOMAIN controllers : Cardinality({l \in ext_links : l.ext = k}) = 1

\* The graph the network hands to Ruby: an external link carries traffic
\* both ways, an internal link one way.
NetNodes == {<<"C", k>> : k \in DOMAIN controllers} \cup {<<"S", c>> : c \in routers}
NetEdges ==
    {[src |-> <<"C", l.ext>>, dst |-> <<"S", l.int>>] : l \in ext_links}
      \cup {[src |-> <<"S", l.int>>, dst |-> <<"C", l.ext>>] : l \in ext_links}
      \cup {[src |-> <<"S", l.src>>, dst |-> <<"S", l.dst>>] : l \in int_links}

\* Once connectControllers returns, every controller and switch can reach
\* every other one over the links it built.
NetworkConnected ==
    pc = "done" => StronglyConnected(NetNodes, NetEdges)

\* One switch per L3 bank (spec 3, 4.3 and 8: "router count == bankCount").
RouterPerBank ==
    pc = "done" => Cardinality(routers) = num_l3s

=============================================================================
