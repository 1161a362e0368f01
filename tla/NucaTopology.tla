---------------------------- MODULE NucaTopology ----------------------------
(***************************************************************************)
(* SwitchedNUCA.makeTopology (config/NucaConfig/newNucaNet.py) with the    *)
(* options and controller list MyCacheSystem.setup hands it                *)
(* (config/NucaConfig/mesiCaches.py): one router per L3 bank, a            *)
(* nuca_rows x (banks // nuca_rows) grid of router-router links, each L3   *)
(* bank to its own router, each L2 to a router picked by                   *)
(* hash(str(controller)) % len(routers), and every directory controller to *)
(* every router.  Every link is one MessageBuffer with a source and a      *)
(* destination; the code adds them in opposite pairs.                      *)
(*                                                                         *)
(* A node is <<"R", i>> for router i, or <<level, k>> for the k-th         *)
(* controller of that level as the isinstance filters list them.  L1      *)
(* controllers are not on this network (they talk to their L2 directly).   *)
(***************************************************************************)
EXTENDS Integers, FiniteSets, Reachability

CONSTANTS
    MaxCpus,   \* largest number of cpus
    MaxL3      \* largest numL3caches (num_llc_banks)

ASSUME ConstAssumption ==
    /\ MaxCpus \in Nat \ {0}
    /\ MaxL3 \in Nat \ {0}

\* int(math.sqrt(n)) for a positive integer n.
IntSqrt(n) == CHOOSE r \in 1..n : r * r <= n /\ n < (r + 1) * (r + 1)

\* The integer square root exists for every bank count the model uses.
ASSUME IntSqrtExists ==
    \A n \in 1..MaxL3 : \E r \in 1..n : r * r <= n /\ n < (r + 1) * (r + 1)

\* Arguments of setup that shape the network.
Configs == [ncpu : 1..MaxCpus, nl3 : 1..MaxL3]

\* No width argument (the MessageBuffer default), data_bus_width, address_bus_width.
Widths == {"none", "data", "addr"}

RouterIds == 0..(MaxL3 - 1)
Node == ({"R"} \X RouterIds) \cup ({"L2", "L3", "Dir"} \X Nat)
Link == [src : Node, dst : Node, width : Widths]

VARIABLES
    pc,        \* which loop of makeTopology runs next
    cfg,       \* the setup arguments
    routers,   \* ids of the Router objects created
    links,     \* the MessageBuffers appended to links
    nextL2     \* index of the next L2 controller the L2 loop connects

vars == <<pc, cfg, routers, links, nextL2>>

Phases == {"routers", "l3", "rows", "cols", "l2", "dir", "done"}

\* mesiCaches.py: network_options.nuca_rows = int(math.sqrt(numL3caches)).
num_rows == IntSqrt(cfg.nl3)
\* Faulty variant: the ceiling division spec 4.3 asks for.
num_columnsCeil == (cfg.nl3 + num_rows - 1) \div num_rows

\* newNucaNet.py: num_columns = options.num_llc_banks // num_rows.
num_columns == cfg.nl3 \div num_rows

R(i) == <<"R", i>>

\* The two MessageBuffers that join a and b, one each way.
Pair(a, b, w) == {[src |-> a, dst |-> b, width |-> w],
                  [src |-> b, dst |-> a, width |-> w]}

\* The number of controllers of each level the isinstance filters find.
NumDirs == 1

-----------------------------------------------------------------------------
Init ==
    /\ pc = "routers"
    /\ cfg \in Configs
    /\ routers = {}
    /\ links = {}
    /\ nextL2 = 0

\* Faulty variant: one router too many, range(num_llc_banks + 1).
CreateRoutersOneTooMany ==
    /\ pc = "routers"
    /\ routers' = 0..cfg.nl3
    /\ pc' = "l3"
    /\ UNCHANGED <<cfg, links, nextL2>>

\* routers = [Router(router_id=i, ...) for i in range(options.num_llc_banks)]
CreateRouters ==
    /\ pc = "routers"
    /\ routers' = 0..(cfg.nl3 - 1)
    /\ pc' = "l3"
    /\ UNCHANGED <<cfg, links, nextL2>>

\* for i, l3_ctrl in enumerate(l3_controllers): l3_ctrl <-> routers[i]
ConnectBanks ==
    /\ pc = "l3"
    /\ links' = links \cup UNION {Pair(<<"L3", i>>, R(i), "none") :
                                   i \in 0..(cfg.nl3 - 1)}
    /\ pc' = "rows"
    /\ UNCHANGED <<cfg, routers, nextL2>>

\* Horizontal (data bus) links: for row in range(num_rows), for col in
\* range(num_columns - 1): router col + row*num_columns <-> the next one.
ConnectRows ==
    /\ pc = "rows"
    /\ links' = links \cup
         UNION {Pair(R(col + row * num_columns), R(col + 1 + row * num_columns),
                     "data") :
                row \in 0..(num_rows - 1), col \in 0..(num_columns - 2)}
    /\ pc' = "cols"
    /\ UNCHANGED <<cfg, routers, nextL2>>

\* Vertical (address bus) links: for col in range(num_columns), for row in
\* range(num_rows - 1): router col + row*num_columns <-> the one below.
ConnectColumns ==
    /\ pc = "cols"
    /\ links' = links \cup
         UNION {Pair(R(col + row * num_columns),
                     R(col + (row + 1) * num_columns), "addr") :
                col \in 0..(num_columns - 1), row \in 0..(num_rows - 2)}
    /\ pc' = "l2"
    /\ UNCHANGED <<cfg, routers, nextL2>>

\* One turn of "for l2_ctrl in l2_controllers": _find_nearest_router returns
\* hash(str(controller)) % len(routers), which changes with the interpreter's
\* string hash seed, so any router may come out.
ConnectL2(r) ==
    /\ pc = "l2"
    /\ links' = links \cup Pair(<<"L2", nextL2>>, R(r), "none")
    /\ nextL2' = nextL2 + 1
    /\ pc' = IF nextL2 + 1 = cfg.ncpu THEN "dir" ELSE "l2"
    /\ UNCHANGED <<cfg, routers>>

\* Faulty variant: the directory joined to the first router only.
ConnectDirsFirstRouter ==
    /\ pc = "dir"
    /\ links' = links \cup UNION {Pair(<<"Dir", d>>, R(0), "none") :
                                   d \in 0..(NumDirs - 1)}
    /\ pc' = "done"
    /\ UNCHANGED <<cfg, routers, nextL2>>

\* for dir_ctrl in dir_controllers: for router in routers: dir <-> router;
\* then ruby_system.network.routers / netlinks are set.
ConnectDirs ==
    /\ pc = "dir"
    /\ links' = links \cup UNION {Pair(<<"Dir", d>>, R(i), "none") :
                                   d \in 0..(NumDirs - 1), i \in routers}
    /\ pc' = "done"
    /\ UNCHANGED <<cfg, routers, nextL2>>

Next ==
    \/ CreateRouters
    \/ ConnectBanks
    \/ ConnectRows
    \/ ConnectColumns
    \/ \E r \in 0..(cfg.nl3 - 1) : ConnectL2(r)
    \/ ConnectDirs

Spec == Init /\ [][Next]_vars

-----------------------------------------------------------------------------
TypeOK ==
    /\ pc \in Phases
    /\ cfg \in Configs
    /\ routers \subseteq RouterIds
    /\ links \subseteq Link
    /\ nextL2 \in 0..MaxCpus

\* The nodes the finished network must join.
NetNodes ==
    {R(i) : i \in 0..(cfg.nl3 - 1)}
      \cup {<<"L2", k>> : k \in 0..(cfg.ncpu - 1)}
      \cup {<<"L3", i>> : i \in 0..(cfg.nl3 - 1)}
      \cup {<<"Dir", d>> : d \in 0..(NumDirs - 1)}

\* Every link names a node that exists: each router index the grid loops
\* compute is below the number of routers (routers[...] would raise
\* IndexError otherwise), and every link joins two nodes of the network.
LinkEndpointsExist ==
    \A l \in links : l.src \in NetNodes /\ l.dst \in NetNodes

\* Once makeTopology returns, every L2, L3 bank, router and directory can
\* send to every other one over the links it built.
NetworkConnected ==
    pc = "done" => StronglyConnected(NetNodes, links)

\* The router grid alone (router-router links) joins every router, as a
\* strict 2-D mesh over all banks would (spec 4.3, rows*cols >= banks).
MeshConnected ==
    pc = "done" =>
        LET Rs == {R(i) : i \in 0..(cfg.nl3 - 1)}
        IN  StronglyConnected(Rs, {l \in links : l.width # "none"})

=============================================================================
