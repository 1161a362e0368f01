# Formal models of the Base_MSI Ruby cache configuration

This directory holds TLA+ models of the gem5 Ruby configuration code in
`src/config`. They cover the three-level MSI cache system that
`MyCacheSystem.setup` builds and the switched NUCA network that
`SwitchedNUCA.makeTopology` lays over it. It also holds TLC configurations that
model-check the models on small instances, and TLAPS proofs, for every
instance, of the ordering contract, of the refinement of setup to an abstract
controller registry, and of the grid network's index ranges.

## 1. The system

All of this code runs once, single-threaded, before simulation starts. Its
hard parts are positional contracts and integer arithmetic, not concurrency.

| Part (spec name) | Code | What it does |
|---|---|---|
| AddressIndexer | `FullSystemConfig/L1cache.py:59-63`, `L2cache.py:42,48-52`, `L3pcache.py:39-42` | Computes the block-offset bits `int(log2(line))`, which panic unless the line size is a power of two. Computes the L2's bank-select bits `int(log2(banks))` and the L3 start index bit (the sum of the two). |
| NUCA setup | `NucaConfig/mesiCaches.py:92-221` | The same constructors in the same order as the base setup, after `self.controllers = []`. It wires L1 to L2 through `self.controllers.l1_controllers[i]` and `l2_controllers[i]`. It calls `makeTopology` before `connectCpuPorts`. |
| ControllerFactory / Registry | `baseConfig/msi_caches.py:100-140`; the constructors in `FullSystemConfig/*.py` | Builds `self.controllers = [L1 x N] + [L2 x N] + [L3 x B] + [Dir]`. Each constructor takes its `version` from a class-level counter (`versionCount`). `DirController` panics on more than one memory controller. |
| DirectLinkWirer | `msi_caches.py:142-144` | Sets `controllers[i].bufferToL1/bufferFromL1` from `controllers[i + len(cpus)]`, i.e. by position. |
| SequencerBinder | `msi_caches.py:155-188` | Creates one `RubySequencer` per cpu on `controllers[i].Dcache` and `clk_domain`. Sets `c.sequencer` for `controllers[0:len(sequencers)]` and connects the cpu ports. |
| TopologyBuilder, grid variant | `NucaConfig/NucaNetwork.py:18-163` | Computes `rows = int(sqrt(#L3))` and `cols = ceil(#L3 / rows)` and builds a `rows x cols` grid of `Switch`es. Gives each controller one `SimpleExtLink`: L3 `i` to cell `(i // cols, i % cols)` for `i < min(#L3, rows*cols)`, and the L1 and L2 of cpu `i` to `((i // cols) % rows, i % cols)`. Each directory goes to `(i % rows, cols - 1)`. `SimpleIntLink`s join neighbours both ways. Nothing in the repository imports it. |
| TopologyBuilder | `NucaConfig/newNucaNet.py:12-154`, options from `NucaConfig/mesiCaches.py:92-101` | Computes `rows = int(sqrt(B))` and `cols = B // rows`, creates one router per bank, and links each L3 to its router. Adds a grid of row (data) and column (address) router links. Puts each L2 on router `hash(str(ctrl)) % len(routers)` and links the directory to every router. Each `MessageBuffer` is one directed link, added in opposite pairs. |

`msi_caches.py` and `mesiCaches.py` import `.L1cache`, `.L2cache`,
`.L3pcache` and `.Dir`. The only files of those names are in
`src/config/FullSystemConfig/`, and those are the files modelled.

The parts interact only through the order of `self.controllers`. The
wirer, the binder and the network all index or filter that list and assume
its layout.

## 2. Modules and how they correspond to the code

* **`AddressIndexer.tla`** holds pure operators.
  * `Log2Floor` is `int(math.log(x, 2))`, which is the floor for every
    integer below 5000. This was checked against Python.
  * `getBlockSizeBits`, `BlockSizeIsPowerOfTwo` (the panic test at
    `L1cache.py:61`), `getIndexBit` and `l2SelectNumBits` translate the code's
    functions of the same names.
* **`RubySetup.tla`** models `MyCacheSystem.setup` of `msi_caches.py` and the
  four controller constructors.
  * **State:**
    * `cfg` holds the setup arguments that matter: cpus, banks, line size and
      the number of memory controllers.
    * `version` holds the four class counters.
    * `controllers` holds records of level, version, cpu of the clock domain,
      start index bit and select bits.
    * `bufferToL1` and `bufferFromL1` hold, per L1, the index of the
      controller whose buffer it got.
    * `sequencers` holds version, dcache index and clock cpu.
    * `sequencerOf` and `cpuPort` hold the bindings.
    * `setups` counts setup calls.
    * `pc` says which statement runs next.
  * **Actions:** there is one action per constructor call (`CreateL1`,
    `CreateL2`, `CreateL3` and `CreateDir`). Each takes the counter first,
    exactly as the code does, and then panics or appends. One action each
    models the wiring loop (`WireL1L2`), the sequencer list
    (`CreateSequencers`), the binding loop (`BindSequencers`) and the port
    loop (`ConnectCpuPorts`).
  * **StartSetup** is a new `MyCacheSystem` and a new `setup` call. It does
    **not** reset `version`, because the counters are class attributes.
  * **Panics:** a panic (`pc = "panic"`) ends the run. `CreateDir` has two
    failures:
    * the `len(mem_ctrls) > 1` panic, taken before the counter moves;
    * the `IndexError` of `mem_ctrls[0]` with no memory controller, taken
      after it.
  * **Not modelled:** cache sizes, latencies and message buffers, which no
    property distinguishes.
* **`NucaTopology.tla`** models `SwitchedNUCA.makeTopology`, with
  `nuca_rows = int(sqrt(B))` from `mesiCaches.py:94`.
  * **Nodes:** routers are `<<"R", i>>`, and controllers are
    `<<level, k>>` in the order the `isinstance` filters list them.
  * **State:** `links` is the set of directed `MessageBuffer`s, each with
    source, destination and width (none, data bus or address bus).
  * **Actions:** one per loop of `makeTopology`. `ConnectL2(r)` is one turn
    of the L2 loop. Its router `r` is any router, because the hash of
    `str(ctrl)` depends on the interpreter's hash seed.
* **`NucaNetwork.tla`** models `NucaNetwork.connectControllers`.
  * **Input:** the controller list is the one setup builds, given as the
    classes of its entries. `num_cpus` and `num_l3s` are recovered from it
    as the code does, by counting the entries of the class of
    `controllers[0]` and of `controllers[2*num_cpus]`.
  * **State:** a switch is its grid cell. An external link joins a
    controller index and a cell, and an internal link joins two cells.
  * **Actions:** there is one action per loop, except the L1/L2 loop, which
    takes one step per cpu (`ConnectCpu`).
  * **Liveness:** `FairSpec` adds `WF_vars(SetupStep)`, where `SetupStep`
    is every statement of `setup` after the call (section 3).
  * **Refinement:** `Registry == INSTANCE ControllerRegistry WITH ...` maps
    the model to the abstract registry. `RegState` maps `idle`, the
    building phases, `panic` and the later phases to `idle`, `building`,
    `failed` and `registered`. `RegList` is the finished list, reduced to
    level and cpu, once `pc` is past `dir`, and `<<>>` before.
    `RegistryRefinement == Registry!Spec`.
* **`ControllerRegistry.tla`** is the abstract promise of the controller
  factory. A call (`Call(a)`) starts building. Then either `Register` makes
  the whole list `Contract(args)` appear in one step, or `Fail` ends the
  call. `Contract(a)` is the ordering contract as a function: L1 of cpu
  `p-1`, L2 of cpu `p-1-N`, then `B` L3s and one directory with no cpu.
* **`NucaSetup.tla`** extends `RubySetup` with the NUCA `setup`.
  * `StartNucaSetup` is the base start, or a panic if gem5 rejects
    `self.controllers = []`. That behaviour is outside the repository, so
    it is a nondeterministic choice.
  * `BuildControllers` is the base constructor steps.
  * `WireByAttribute` is the wiring loop of line 183-185. It raises on the
    first turn, and with no cpus the body never runs.
  * `NucaFrontEnd` is the base sequencer, binding and port steps.
    `makeTopology` changes none of these variables.
* **`Reachability.tla`** defines `ReachableFrom`, a frontier that grows one
  hop per step as a memoised recursive function, and `StronglyConnected`.
  Both network models use them.
* **`RubySetupProofs.tla`**, **`RegistryProofs.tla`**,
  **`VersionProofs.tla`**, **`NucaTopologyProofs.tla`** and
  **`NucaNetworkProofs.tla`** hold the TLAPS proofs (section 5).
* **`MC_RubySetup.tla`**, **`MC_NucaSetup.tla`**, **`MC_NucaTopology.tla`**
  and **`MC_NucaNetwork.tla`** instantiate the models for TLC. The first gives the line sizes `{48, 64}`, one power of two and
  one not.

Every module keeps the control of the code: each guard, each panic and the
order of steps. It abstracts only data: a buffer or a cache object is the
index of the controller it belongs to.

## 3. Runs

Every run sets `CHECK_DEADLOCK FALSE`, because setup really stops, at `done`
or at a panic.

**Fairness.** Two runs check liveness. They assume weak fairness of setup's
own statements only (`SetupStep`, or `NucaSetupStep`). `setup` is one
synchronous, single-threaded call: once it has started, its next statement
runs unless an exception ends it. No fairness is given to a new `setup`
call. Whether a script calls `setup` again is up to the script.

| Run | cfg | Expect | What it shows |
|---|---|---|---|
| `rubysetup` | `RubySetup.cfg` | pass | Covers every configuration with 1-2 cpus, 1-4 banks, line size 48 or 64 and 0-2 memory controllers. The controller list obeys the ordering contract (`RegistryOrder`). Each L1 is wired to the L2 of its own cpu, with both buffers from that L2 (`PrivatePairing`). Each cpu's port reaches a sequencer in its clock domain whose dcache is its own L1, and that L1 holds this sequencer (`FrontEndBinding`). Versions are dense from 0 per level within one setup (`VersionsDense`). Every L3's index bit equals every L2's block bits plus select bits (`IndexBitsAgree`). Setup returns only for a power-of-two line and exactly one memory controller (`DoneOnlyForValidConfig`). |
| `rubysetup_fair` | `RubySetupLiveness.cfg` | pass | Covers two setup calls with every configuration of 1-2 cpus and 1-3 banks, under `FairSpec`. Once the L1s are being built for a valid configuration, setup returns (`ValidSetupCompletes`). Every behaviour is a behaviour of the abstract registry under the mapping (`RegistryRefinement`). Across both calls, no two controllers of one level in the list share a version (`VersionsUnique`, spec section 3). The class counters are not reset, but they never hand out a version twice. The mutant `versionCountOnInstance` breaks it: `self._version += 1` binds an instance attribute, so the class counter stays at 0. |
| `nuca_setup` | `NucaSetup.cfg` | violation | Under `NucaFairSpec`, setup never reaches `done` from `wire` with one or more cpus. `ListBuiltSetupCompletes` fails. |
| `two_setups` | `RubySetupTwoSetups.cfg` | violation | A second `setup` in one process gives the L1s versions from `N` on. `VersionsDense` fails. |
| `bank_select` | `RubySetupBankSelect.cfg` | violation | With 3 banks the L2 select field is 1 bit: `2^1 # 3`, and there is no error. `BankSelectCoversBanks` fails. |
| `nuca_topology` | `NucaTopology.cfg` | pass | Covers 1-5 banks and 1-2 L2s on every router. Every link joins existing nodes (`LinkEndpointsExist`). The finished network connects every router, L2, L3 and directory (`NetworkConnected`). |
| `nuca_network` | `NucaNetwork.cfg` | pass | Covers 1-3 cpus (more than the cells of the small grids) and 1-6 banks: square, one-row and ragged grids. Every link names an existing switch and controller (`LinkEndpointsExist`). Every controller has exactly one external link (`OneAttachmentEach`). The network connects everything (`NetworkConnected`). |
| `nuca_network_routers` | `NucaNetworkRouters.cfg` | violation | With 5 banks the ceiling grid is 2 x 3, so there are 6 switches and `RouterPerBank` fails. |
| `nuca_mesh` | `NucaMesh.cfg` | violation | With 5 banks the grid is 2 x 2, and router 4 has no router-router link. The mesh of spec 4.3 is not built, so `MeshConnected` fails. |

**Why the bounds suffice:**
* Two cpus are enough for the positional contracts to tell the L1s and the
  L2s of different cpus apart. Every off-by-one mutant is caught at N = 2.
* For the grid network, 3 cpus exceed the cells of the 1- and 2-bank grids,
  so the `% rows` wrap is exercised. Banks up to 6 give grids of 1x1, 1x2,
  1x3, 2x2, 2x3 with one empty cell, and 2x3.
* Banks 1-4 include 1 (no grid), 2 and 4 (powers of two) and 3 (not one).
  NUCA goes to 5, the first count where floor division drops a router.
* Memory controllers 0-2 reach both failure paths of `DirController`.
* Each property of a passing run has a mutant, listed in `PROJECT.json`: a
  plausible bug in the mapped code (a wrong offset, one element too many, a
  dropped check, a one-way link, a post-increment) that TLC catches.

### Findings
* **The NUCA wiring loop** (`mesiCaches.py:184`) reads
  `self.controllers.l1_controllers`, but `self.controllers` is a list. The
  first turn raises `AttributeError`, so NUCA setup never returns for any
  cpu count of at least 1 (run `nuca_setup`).
* **Class-level counters** (`L1cache.py:16` and its siblings) persist across
  setups, where spec 4.2 and 9 want per-run numbering.
* **`int(math.log(B, 2))`** (`L2cache.py:42`) floors instead of rejecting a
  bank count that is not a power of two, against spec 4.1.
* **`num_columns = banks // rows`** (`newNucaNet.py:20`) is floor division,
  where spec 3 and 4.3 ask for ceiling. Routers past `rows*cols` are then left
  off the grid. The network stays connected only through the directory,
  which is linked to every router. The spec's ceiling division would make the
  code index `routers` past its end, and the `num_columnsCeil` mutant of
  `LinkEndpointsExist` shows that.
* **`NucaNetwork.py`** follows the spec's ceiling division, and so builds
  `rows*cols` switches: 6 for 5 banks. That contradicts "router count ==
  bankCount" (spec 8). The spec's two rules cannot both hold for such counts.

## 4. Not modelled

* **`numL3caches = 0`** (`L2cache.py:42`): `math.log(0, 2)` raises. The
  models take bank counts from 1, as every run script does. This is listed
  as a hazard with no property.
* **`testNetwork.py`, `nucnet.py` and `L3scache.py`**: two comprehension-only
  networks and an unused controller class.
* **The run scripts** (`configs/*.py`, `configWithBoard.py`,
  `newRubyConf.py`): argument parsing and construction of external gem5
  objects.

## 5. Proofs (checked by `tlapm`)

**Assumptions:**
* `ConstAssumption`: all bounds are positive naturals and the line sizes
  form a non-empty set of positive naturals.
* `Log2FloorDefined`, used only by `ConfigChecks`: `int(math.log(x, 2))`
  exists for every line size and bank count. This is a fact of arithmetic.
  Its proof for every `x` would need induction, which the provers cannot
  instantiate, so it is an assumption. TLC evaluates it on every run of
  `RubySetup`.

**Theorems:**
* `TypeCorrect == Spec => []TypeOK`.
* `OrderingContract == Spec => [](RegistryOrder /\ PrivatePairing /\
  FrontEndBinding)`. This holds for any number of setup calls and any
  configurations.
* `ConfigChecks == Spec => [](DoneOnlyForValidConfig /\ IndexBitsAgree)`.
* Corollaries, one per run property: `PairingHolds`, `FrontEndHolds` and
  `IndexBitsHold`.
* `RegistryImplementation == Spec => RegistryRefinement`, in
  `RegistryProofs.tla`.
* `VersionLockstep == Spec => []Lockstep` and
  `VersionsDenseFirstSetup == Spec => [](setups <= 1 => VersionsDense)`, in
  `VersionProofs.tla`.
* `VersionsUniqueHolds == Spec => []VersionsUnique`, for any number of
  setup calls, in `VersionProofs.tla`.
* `TopologyTypeCorrect == Spec => []TypeOK` and
  `TopologyEndpointsExist == Spec => []LinkEndpointsExist` of
  `NucaTopology`, in `NucaTopologyProofs.tla`.
* `EndpointsExist == Spec => []LinkEndpointsExist`,
  `AttachedOnce == Spec => []OneAttachmentEach` and
  `NetworkTypeCorrect == Spec => []TypeOK` of `NucaNetwork`, in
  `NucaNetworkProofs.tla`.

**Why an inductive invariant is needed.** None of these properties is
inductive by itself. Appending an L2 keeps `RegistryOrder` only if the list
already holds exactly N L1s. Wiring and binding are right only if the list is
complete.

**The inductive invariant.** It is
`IInv == TypeOK /\ RegistryOrder /\ PhaseLen /\ LaterBuilt`:
* `PhaseLen` gives, for each phase, the range of `Len(controllers)`: below
  N in `l1`, between N and 2N in `l2`, up to `2N+B+1` once complete.
* `LaterBuilt` gives the exact value of every later structure: empty before
  its step, and `[p |-> p+N]`, the built sequencers, or the identity after.
* TLC checked `IInv` as an invariant before it was proved.

For `ConfigChecks`, `IInv` is strengthened further:
* `ValidSoFar`: past `l1` the line size passed the power-of-two check, and
  past `dir` there is exactly one memory controller.
* `FieldsOK`: every L2 holds `getBlockSizeBits(line)` and
  `l2SelectNumBits(B)`, and every L3 holds `getIndexBit(line, B)`. These
  fields are fixed when each controller is created, so `IndexBitsAgree`
  follows.

**The proof:**
* `InitIInv` and `NextIInv` prove the two induction steps. `NextIInv` has
  one case per action and one step per conjunct that action can disturb.
  `NextChecks` does the same for the strengthening.
* Lemmas:
  * `AppendKeeps`, `AppendOrder`, `AppendType` and `AppendFields` cover
    appending a controller.
  * `FrozenList` says the list is untouched after `dir`.
  * `ShiftedSeq` covers the positional maps.
  * `Log2FloorNat` says a log2 floor is a natural, which is needed to
    reorder the sum.
* `IInvPairing`, `IInvFrontEnd` and `ChecksImply` derive the properties from
  the invariants.
* Each theorem ends with `PTL DEF Spec`.

**The refinement** (`RegistryProofs.tla`):
* `InitRefines`: an initial state maps to the abstract `Init`.
* Each step maps to an abstract step or a stutter:
  * a start is `Call`;
  * a constructor step that stays in the build phases is a stutter
    (`StutterBuilding`);
  * `CreateDir` completing the list is `Register`;
  * a panic is `Fail` (`FailStep`);
  * every later step is a stutter (`StutterRegistered`).
* `ContractList`: a list that satisfies `RegistryOrder` and is complete
  equals `Contract(cfg)` under the mapping. That needs one more invariant,
  `SharedNoCpu`: every L3 and directory entry has the clock `NoCpu`.
  `NextShared` proves that invariant.

**The grid network** (`NucaNetworkProofs.tla`):
* `IntSqrtExists`, an assumption of `NucaNetwork`, says the integer square
  root exists for every bank count. TLC evaluates it.
* `Counts` recovers `num_cpus = N` and `num_l3s = B` from the class counts.
* `GridFacts` gives `1 <= rows <= B` and `B <= rows * cols`.
* `BankCell` and `WrappedCell` put every index of the three loops inside
  the grid.
* The inductive invariant `Inv` adds three facts to `LinkEndpointsExist`:
  * the switches are the full grid once created;
  * before they exist there are no links;
  * the cpu index stays below `num_cpus` until the cpu loop ends.

**The version counters** (`VersionProofs.tla`):
* `Off(l, n, b)` and `Size(l, n, b)` give where level `l`'s block starts in
  the contract's order and how long it is. `InList(l, len, n, b)` gives how
  many controllers of level `l` a list of length `len` holds while it is
  built in that order. These operators take the length and the counts as
  arguments, so they are never primed.
* `VersionRanks`: each controller's version equals the counter of its level,
  minus `InList`, plus its rank in the block. `Lockstep` is
  `pc # "panic" => VersionRanks`. It is not claimed in the panicked state,
  because there a constructor has taken a version and raised.
* `FirstSetup`: before any call the phase is `idle`. In the first call,
  outside a panic, each counter equals `InList` of its level
  (`CountersMatch`).
* `CountAppend` and `RanksAppend`: appending the next controller of level
  `l`, with the version `versionCount` returned, adds one to both the
  counter and `InList(l)` and leaves every other level alone.
* `NextLockstep` has one case per action. It uses `AppendCase`, `PanicCase`
  and `FrozenCase`, and the bounds of `PhaseLen` for each constructor phase.
* `LevelBlock`: at `done`, the positions of level `l` are exactly
  `Off(l)+1 .. Off(l)+Size(l)`. This follows from `RegistryOrder`.
  `DenseFirst` then gives the version set `0..Size(l)-1` and, by
  `FS_Interval`, the cardinality `Size(l)`.
* TLC checked `Lockstep` and `FirstSetup` as invariants before they were
  proved.
* `VersionsUniqueHolds` uses `UInv == IInv /\ Lockstep /\ FirstSetup /\
  VersionsUnique`.
  * `RanksUnique` is stated over explicit arguments, so that it applies to
    the primed state. It says versions given by rank are distinct within a
    level.
  * Outside a panic, `VersionsUnique` follows from `Lockstep`
    (`LockstepUnique`).
  * A step into a panic leaves the list as it was (`PanicKeepsList`).
  * TLC checked `VersionsUnique` over two calls before it was proved.
* `VersionsDense` is proved only while `setups <= 1`. From the second call
  on it is false, and the violation run `two_setups` shows it.

**The topology builder** (`NucaTopologyProofs.tla`):
* The inductive invariant `TInv` adds three facts to `TypeOK` and
  `LinkEndpointsExist`:
  * the router set is empty before `CreateRouters` and `0..B-1` after;
  * the L2 counter stays below `ncpu` while L2s are connected;
  * the L2 counter is zero before that phase.
* `GridBound` is the floor-division argument:
  `num_rows = int(sqrt(B))` is between 1 and B, `num_columns = B div num_rows`,
  and
  `num_rows * num_columns <= B`. So every row and column link joins routers
  below B (`GridRouter`).
* `AddLinks` shows that adding links whose ends exist keeps
  `LinkEndpointsExist`.
* No property says that each buffer has its reverse. Every loop of
  `newNucaNet.py` appends the two directions side by side with the same
  indices, and the model adds each pair through one helper, `Pair`. Such a
  property would hold whatever the code did.

**Attachment in the grid network** (`NucaNetworkProofs.tla`):
* `CellOf(k)` is the switch the loops of `connectControllers` attach
  controller `k` to. `Attached` is the set of controllers attached so far
  in the current phase.
* `ExtExact` says the external links are exactly one link per attached
  controller, to `CellOf(k)`. TLC checked it before it was proved.
* `DoneAttached`: at `done`, `Attached` is every controller. So each
  controller has exactly one link (`FS_Singleton`).

**Left to TLC:**
* `VersionsDense` beyond the first setup call. It is violated there (run
  `two_setups`), so there is no theorem about it.
* `NetworkConnected` of `NucaTopology` and `NucaNetwork` is a statement about the transitive closure of the link
  relation. Proving them needs induction over paths, with an operator
  parameter that the provers cannot instantiate.
* `MeshConnected`, `RouterPerBank`, `BankSelectCoversBanks` and
  `ListBuiltSetupCompletes` are violated by the code (section 3, Findings),
  so there is nothing to prove about them.
* The liveness property `ValidSetupCompletes` needs fairness and `ENABLED`. These are out of
  the provers' reach.

## 6. Plan for later sittings

1. Compose setup and topology: feed the finished registry of `RubySetup` to
   the `isinstance` filters of `makeTopology`.
2. Model `--numL3caches 0`. `int(math.log(0, 2))` raises in the L2
   constructor after `versionCount` has run. This is the one hazard without
   a property. `Configs` starts the bank count at 1 today.
