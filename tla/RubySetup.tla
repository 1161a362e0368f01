----------------------------- MODULE RubySetup -----------------------------
(***************************************************************************)
(* MyCacheSystem.setup (config/baseConfig/msi_caches.py) with the          *)
(* controller constructors it calls (config/FullSystemConfig/L1cache.py,   *)
(* L2cache.py, L3pcache.py, Dir.py).  One setup builds the flat controller *)
(* list [L1 x N, L2 x N, L3 x B, Dir], wires each L1 to an L2 by position, *)
(* creates one sequencer per cpu, binds it to the controller at the same   *)
(* position and connects each cpu to its sequencer.  Every constructor     *)
(* takes its version from a counter held by its class, so the counters     *)
(* outlive one MyCacheSystem: a second setup in the same interpreter goes  *)
(* on counting.  A panic (line size not a power of two, more than one      *)
(* memory controller) ends the process.                                    *)
(*                                                                         *)
(* Positions are 1-based: code index i is position i + 1.  A cpu is        *)
(* named by its index 0 .. N-1; a controller's clk is the cpu whose clock  *)
(* domain it took (NoCpu for L3 and directory controllers).                *)
(***************************************************************************)
EXTENDS Integers, Sequences, FiniteSets, AddressIndexer

CONSTANTS
    MaxCpus,      \* largest number of cpus passed to setup
    MaxL3,        \* largest numL3caches passed to setup
    LineSizes,    \* values system.cache_line_size may take
    MaxMemCtrls,  \* largest number of memory controllers passed as mem_ctrls
    MaxSetups     \* number of setup calls one interpreter makes

ASSUME ConstAssumption ==
    /\ MaxCpus \in Nat \ {0}
    /\ MaxL3 \in Nat \ {0}
    /\ LineSizes \subseteq Nat \ {0}
    /\ LineSizes # {}
    /\ MaxMemCtrls \in Nat \ {0}
    /\ MaxSetups \in Nat \ {0}

\* int(math.log(x, 2)) is defined for every line size and bank count setup is
\* given: a fact of arithmetic, which TLC evaluates on each run's constants.
ASSUME Log2FloorDefined ==
    \A x \in LineSizes \cup (1..MaxL3) : \E k \in 0..x : 2^k <= x /\ x < 2^(k + 1)

Levels == {"L1", "L2", "L3", "Dir"}
NoCpu == -1
Cpus == 0..(MaxCpus - 1)

\* The arguments of one setup call that decide its control flow.
Configs == [ncpu : 1..MaxCpus, nl3 : 1..MaxL3, line : LineSizes,
            nmem : 0..MaxMemCtrls]

\* The values the address indexer can return for the configured inputs.
IndexBits == {0} \cup {getBlockSizeBits(l) : l \in LineSizes}
               \cup UNION {{getIndexBit(l, n) : n \in 1..MaxL3} : l \in LineSizes}
SelectBits == {0} \cup {l2SelectNumBits(n) : n \in 1..MaxL3}

Controller == [level : Levels, version : Nat, clk : Cpus \cup {NoCpu},
               indexBit : IndexBits, selectBits : SelectBits]
Sequencer == [version : Nat, dcache : Nat, clk : Cpus]

VARIABLES
    pc,            \* where setup is: "idle", a phase, "done" or "panic"
    cfg,           \* the arguments of the current setup call
    version,       \* the class-level _version counter of each level
    controllers,   \* self.controllers
    bufferToL1,    \* L1 position -> position of the L2 whose bufferFromL0 it got
    bufferFromL1,  \* L1 position -> position of the L2 whose bufferToL0 it got
    sequencers,    \* self.sequencers
    sequencerOf,   \* controller position -> sequencer it holds (c.sequencer)
    cpuPort,       \* cpu c + 1 -> sequencer whose connectCpuPorts took cpu c
    setups         \* setup calls made so far

vars == <<pc, cfg, version, controllers, bufferToL1, bufferFromL1,
          sequencers, sequencerOf, cpuPort, setups>>

Phases == {"idle", "l1", "l2", "l3", "dir", "wire", "seq", "bind", "ports",
           "done", "panic"}

N == cfg.ncpu
B == cfg.nl3

\* Faulty variant: versionCount returning the incremented counter.
CtrlPostIncrement(level, clk, indexBit, selectBits) ==
    [level |-> level, version |-> version[level] + 1, clk |-> clk,
     indexBit |-> indexBit, selectBits |-> selectBits]

\* A controller record as a constructor leaves it.
Ctrl(level, clk, indexBit, selectBits) ==
    [level |-> level, version |-> version[level], clk |-> clk,
     indexBit |-> indexBit, selectBits |-> selectBits]

\* Faulty variant: versionCount written self._version += 1, which binds an
\* instance attribute and leaves the class counter where it was.
versionCountOnInstance(level) == UNCHANGED version

\* versionCount(): cls._version += 1; return cls._version - 1
versionCount(level) == version' = [version EXCEPT ![level] = @ + 1]

-----------------------------------------------------------------------------
(* Faulty variants of the setup steps, each a plausible slip in the code.  *)

\* L2Cache given the position in the whole list as its cpu.
CreateL2NoOffset ==
    /\ pc = "l2"
    /\ versionCount("L2")
    /\ IF BlockSizeIsPowerOfTwo(cfg.line)
       THEN /\ controllers' = Append(controllers,
                   Ctrl("L2", Len(controllers), getBlockSizeBits(cfg.line),
                        l2SelectNumBits(B)))
            /\ pc' = IF Len(controllers) + 1 = 2 * N THEN "l3" ELSE "l2"
       ELSE /\ pc' = "panic"
            /\ UNCHANGED controllers
    /\ UNCHANGED <<cfg, bufferToL1, bufferFromL1, sequencers, sequencerOf,
                   cpuPort, setups>>

\* The L2 list built over range(len(cpus) + 1).
CreateL2OneTooMany ==
    /\ pc = "l2"
    /\ versionCount("L2")
    /\ IF BlockSizeIsPowerOfTwo(cfg.line)
       THEN /\ controllers' = Append(controllers,
                   Ctrl("L2", Len(controllers) - N, getBlockSizeBits(cfg.line),
                        l2SelectNumBits(B)))
            /\ pc' = IF Len(controllers) + 1 = 2 * N + 1 THEN "l3" ELSE "l2"
       ELSE /\ pc' = "panic"
            /\ UNCHANGED controllers
    /\ UNCHANGED <<cfg, bufferToL1, bufferFromL1, sequencers, sequencerOf,
                   cpuPort, setups>>

\* DirController without the single-memory-controller check.
CreateDirNoCheck ==
    /\ pc = "dir"
    /\ versionCount("Dir")
    /\ controllers' = Append(controllers, Ctrl("Dir", NoCpu, 0, 0))
    /\ pc' = "wire"
    /\ UNCHANGED <<cfg, bufferToL1, bufferFromL1, sequencers, sequencerOf,
                   cpuPort, setups>>

\* bufferFromL1 taken from controllers[i + len(cpus) - 1].
WireL1L2OffByOne ==
    /\ pc = "wire"
    /\ bufferToL1' = [p \in 1..N |-> p + N]
    /\ bufferFromL1' = [p \in 1..N |-> p + N - 1]
    /\ pc' = "seq"
    /\ UNCHANGED <<cfg, version, controllers, sequencers, sequencerOf,
                   cpuPort, setups>>

\* Sequencers built on controllers[i + len(cpus)], the L2s.
CreateSequencersOnL2 ==
    /\ pc = "seq"
    /\ sequencers' = [s \in 1..N |-> [version |-> s - 1, dcache |-> s + N,
                                      clk |-> controllers[s + N].clk]]
    /\ pc' = "bind"
    /\ UNCHANGED <<cfg, version, controllers, bufferToL1, bufferFromL1,
                   sequencerOf, cpuPort, setups>>

-----------------------------------------------------------------------------
Init ==
    /\ pc = "idle"
    /\ cfg \in Configs
    /\ version = [l \in Levels |-> 0]
    /\ controllers = <<>>
    /\ bufferToL1 = <<>>
    /\ bufferFromL1 = <<>>
    /\ sequencers = <<>>
    /\ sequencerOf = <<>>
    /\ cpuPort = <<>>
    /\ setups = 0

\* A new MyCacheSystem and a call of setup with arguments c.  The class
\* counters are not reset.
StartSetup(c) ==
    /\ pc \in {"idle", "done"}
    /\ setups < MaxSetups
    /\ pc' = "l1"
    /\ cfg' = c
    /\ controllers' = <<>>
    /\ bufferToL1' = <<>>
    /\ bufferFromL1' = <<>>
    /\ sequencers' = <<>>
    /\ sequencerOf' = <<>>
    /\ cpuPort' = <<>>
    /\ setups' = setups + 1
    /\ UNCHANGED version

\* L1Cache(system, self, cpu, ...) for the next cpu: the version is taken
\* before getBlockSizeBits runs, and the panic leaves the counter bumped.
CreateL1 ==
    /\ pc = "l1"
    /\ versionCount("L1")
    /\ IF BlockSizeIsPowerOfTwo(cfg.line)
       THEN /\ controllers' = Append(controllers,
                   Ctrl("L1", Len(controllers), getBlockSizeBits(cfg.line), 0))
            /\ pc' = IF Len(controllers) + 1 = N THEN "l2" ELSE "l1"
       ELSE /\ pc' = "panic"
            /\ UNCHANGED controllers
    /\ UNCHANGED <<cfg, bufferToL1, bufferFromL1, sequencers, sequencerOf,
                   cpuPort, setups>>

\* L2Cache(system, self, cpu, ...) for the next cpu.
CreateL2 ==
    /\ pc = "l2"
    /\ versionCount("L2")
    /\ IF BlockSizeIsPowerOfTwo(cfg.line)
       THEN /\ controllers' = Append(controllers,
                   Ctrl("L2", Len(controllers) - N, getBlockSizeBits(cfg.line),
                        l2SelectNumBits(B)))
            /\ pc' = IF Len(controllers) + 1 = 2 * N THEN "l3" ELSE "l2"
       ELSE /\ pc' = "panic"
            /\ UNCHANGED controllers
    /\ UNCHANGED <<cfg, bufferToL1, bufferFromL1, sequencers, sequencerOf,
                   cpuPort, setups>>

\* Faulty variant: the L3 loop stopping one bank early (at least one bank).
CreateL3OneTooFew ==
    /\ pc = "l3"
    /\ versionCount("L3")
    /\ controllers' = Append(controllers,
           Ctrl("L3", NoCpu, getIndexBit(cfg.line, B), 0))
    /\ pc' = IF Len(controllers) + 2 >= 2 * N + B THEN "dir" ELSE "l3"
    /\ UNCHANGED <<cfg, bufferToL1, bufferFromL1, sequencers, sequencerOf,
                   cpuPort, setups>>

\* L3Cache(system, self, ...) for range(numL3caches); no line-size check.
CreateL3 ==
    /\ pc = "l3"
    /\ versionCount("L3")
    /\ controllers' = Append(controllers,
           Ctrl("L3", NoCpu, getIndexBit(cfg.line, B), 0))
    /\ pc' = IF Len(controllers) + 1 = 2 * N + B THEN "dir" ELSE "l3"
    /\ UNCHANGED <<cfg, bufferToL1, bufferFromL1, sequencers, sequencerOf,
                   cpuPort, setups>>

\* Faulty variant: the memory-controller check written len(mem_ctrls) >= 1.
CreateDirRejectsOne ==
    /\ pc = "dir"
    /\ IF cfg.nmem >= 1
       THEN /\ pc' = "panic"
            /\ UNCHANGED <<version, controllers>>
       ELSE /\ versionCount("Dir")
            /\ pc' = "panic"
            /\ UNCHANGED controllers
    /\ UNCHANGED <<cfg, bufferToL1, bufferFromL1, sequencers, sequencerOf,
                   cpuPort, setups>>

\* DirController(self, mem_ranges, mem_ctrls): panics before versionCount
\* when given more than one memory controller; with none, mem_ctrls[0]
\* raises IndexError after the counter has moved.
CreateDir ==
    /\ pc = "dir"
    /\ IF cfg.nmem > 1
       THEN /\ pc' = "panic"
            /\ UNCHANGED <<version, controllers>>
       ELSE /\ versionCount("Dir")
            /\ IF cfg.nmem = 0
               THEN /\ pc' = "panic"
                    /\ UNCHANGED controllers
               ELSE /\ controllers' = Append(controllers, Ctrl("Dir", NoCpu, 0, 0))
                    /\ pc' = "wire"
    /\ UNCHANGED <<cfg, bufferToL1, bufferFromL1, sequencers, sequencerOf,
                   cpuPort, setups>>

\* for i in range(len(cpus)): controllers[i].bufferToL1 =
\*   controllers[i+len(cpus)].bufferFromL0, and bufferFromL1 likewise.
WireL1L2 ==
    /\ pc = "wire"
    /\ bufferToL1' = [p \in 1..N |-> p + N]
    /\ bufferFromL1' = [p \in 1..N |-> p + N]
    /\ pc' = "seq"
    /\ UNCHANGED <<cfg, version, controllers, sequencers, sequencerOf,
                   cpuPort, setups>>

\* RubySequencer(version=i, dcache=controllers[i].Dcache,
\*               clk_domain=controllers[i].clk_domain) for i in range(len(cpus)).
CreateSequencers ==
    /\ pc = "seq"
    /\ sequencers' = [s \in 1..N |-> [version |-> s - 1, dcache |-> s,
                                      clk |-> controllers[s].clk]]
    /\ pc' = "bind"
    /\ UNCHANGED <<cfg, version, controllers, bufferToL1, bufferFromL1,
                   sequencerOf, cpuPort, setups>>

\* for i, c in enumerate(controllers[0:len(sequencers)]): c.sequencer = sequencers[i]
BindSequencers ==
    /\ pc = "bind"
    /\ sequencerOf' = [p \in 1..Len(sequencers) |-> p]
    /\ pc' = "ports"
    /\ UNCHANGED <<cfg, version, controllers, bufferToL1, bufferFromL1,
                   sequencers, cpuPort, setups>>

\* network.connectControllers, setup_buffers and the system port proxy
\* (gem5 code, no state of this model), then
\* for i, cpu in enumerate(cpus): sequencers[i].connectCpuPorts(cpu).
ConnectCpuPorts ==
    /\ pc = "ports"
    /\ cpuPort' = [c \in 1..N |-> c]
    /\ pc' = "done"
    /\ UNCHANGED <<cfg, version, controllers, bufferToL1, bufferFromL1,
                   sequencers, sequencerOf, setups>>

SetupStep ==
    \/ CreateL1 \/ CreateL2 \/ CreateL3 \/ CreateDir
    \/ WireL1L2 \/ CreateSequencers \/ BindSequencers \/ ConnectCpuPorts

Next ==
    \/ \E c \in Configs : StartSetup(c)
    \/ SetupStep

Spec == Init /\ [][Next]_vars

\* setup is one synchronous call with no waits: once it has started, its
\* next statement runs.  Nothing obliges a caller to call setup again.
Fairness == WF_vars(SetupStep)

FairSpec == Spec /\ Fairness

-----------------------------------------------------------------------------
TypeOK ==
    /\ pc \in Phases
    /\ cfg \in Configs
    /\ version \in [Levels -> Nat]
    /\ controllers \in Seq(Controller)
    /\ bufferToL1 \in Seq(Nat)
    /\ bufferFromL1 \in Seq(Nat)
    /\ sequencers \in Seq(Sequencer)
    /\ sequencerOf \in Seq(Nat)
    /\ cpuPort \in Seq(Nat)
    /\ setups \in 0..MaxSetups

\* The level the ordering contract puts at position p:
\* [L1 x N, L2 x N, L3 x B, Dir].
LevelAt(p) ==
    IF p <= N THEN "L1"
    ELSE IF p <= 2 * N THEN "L2"
    ELSE IF p <= 2 * N + B THEN "L3"
    ELSE "Dir"

\* The cpu whose private controller sits at position p (L1 or L2).
CpuAt(p) == IF p <= N THEN p - 1 ELSE p - 1 - N

\* Ordering contract of self.controllers, on which the wiring, the sequencer
\* binding (msi_caches.py:171) and the network rely: every controller sits
\* where [L1 x N, L2 x N, L3 x B, Dir] puts it, and the private ones are
\* in cpu order.
RegistryOrder ==
    /\ Len(controllers) <= 2 * N + B + 1
    /\ \A p \in 1..Len(controllers) :
         /\ controllers[p].level = LevelAt(p)
         /\ controllers[p].level \in {"L1", "L2"} => controllers[p].clk = CpuAt(p)

\* The direct L1-L2 wiring (msi_caches.py:142-144) joins each L1 to the L2 of
\* the same cpu, both buffers to the same L2.
PrivatePairing ==
    \A p \in DOMAIN bufferToL1 :
        /\ p \in DOMAIN bufferFromL1
        /\ bufferFromL1[p] = bufferToL1[p]
        /\ controllers[p].level = "L1"
        /\ controllers[bufferToL1[p]].level = "L2"
        /\ controllers[bufferToL1[p]].clk = controllers[p].clk

\* End to end, once setup returns: cpu c's ports go to a sequencer in cpu c's
\* clock domain whose dcache is the L1 of cpu c, and that L1 holds this very
\* sequencer (msi_caches.py:158-172, 187-188).
FrontEndBinding ==
    pc = "done" =>
        \A c \in 0..(N - 1) :
            LET s == cpuPort[c + 1]
                d == sequencers[s].dcache
            IN  /\ sequencers[s].clk = c
                /\ controllers[d].level = "L1"
                /\ controllers[d].clk = c
                /\ sequencerOf[d] = s

\* Versions are dense and zero-based per level within the built system
\* (versionCount in every controller class).
VersionsDense ==
    pc = "done" =>
        \A l \in Levels :
            {controllers[p].version : p \in {q \in 1..Len(controllers) :
                                                controllers[q].level = l}}
              = 0..(Cardinality({q \in 1..Len(controllers) :
                                    controllers[q].level = l}) - 1)

\* Versions are unique within a level (spec section 3), over any number of
\* setup calls: no two controllers of one level in the list share a version,
\* although the class counters are not reset between calls.
VersionsUnique ==
    \A p, q \in 1..Len(controllers) :
        p # q /\ controllers[p].level = controllers[q].level
            => controllers[p].version # controllers[q].version

\* The configuration checks of the constructors accept exactly this.
ValidConfig(c) == BlockSizeIsPowerOfTwo(c.line) /\ c.nmem = 1

\* A setup call given a valid configuration (power-of-two line size, one
\* memory controller) returns: no constructor check rejects it and every
\* loop of setup runs to its end.  The converse of DoneOnlyForValidConfig.
ValidSetupCompletes ==
    (pc = "l1" /\ ValidConfig(cfg)) ~> (pc = "done")

\* The bank-select field the L2s skip is the one the L3 banks index past:
\* every L3's start_index_bit is an L2's block bits plus its select bits.
IndexBitsAgree ==
    \A p, q \in 1..Len(controllers) :
        controllers[p].level = "L3" /\ controllers[q].level = "L2" =>
            controllers[p].indexBit
              = controllers[q].indexBit + controllers[q].selectBits

\* A setup that returns was given a power-of-two line size and one memory
\* controller: the fatal configuration checks cannot be skipped.
DoneOnlyForValidConfig ==
    pc = "done" => BlockSizeIsPowerOfTwo(cfg.line) /\ cfg.nmem = 1

\* The L2's bank-select bits address every L3 bank: 2^select = numL3caches.
BankSelectCoversBanks ==
    \A q \in 1..Len(controllers) :
        controllers[q].level = "L2" => 2^controllers[q].selectBits = B


-----------------------------------------------------------------------------
(* The setup seen through the registry contract (ControllerRegistry): the  *)
(* list counts as registered once the directory is appended, and a panic   *)
(* is a failed call.                                                       *)

RegState ==
    IF pc = "idle" THEN "idle"
    ELSE IF pc \in {"l1", "l2", "l3", "dir"} THEN "building"
    ELSE IF pc = "panic" THEN "failed"
    ELSE "registered"

RegList ==
    IF pc \in {"wire", "seq", "bind", "ports", "done"}
    THEN [p \in 1..Len(controllers) |->
            [level |-> controllers[p].level, cpu |-> controllers[p].clk]]
    ELSE <<>>

Registry == INSTANCE ControllerRegistry
                WITH Args <- Configs, state <- RegState, args <- cfg,
                     registry <- RegList

\* setup implements the registry contract: each call fails or yields exactly
\* [L1 x N, L2 x N, L3 x B, Dir] with the private controllers in cpu order,
\* complete before the wiring, sequencers and network use it.
RegistryRefinement == Registry!Spec
=============================================================================
