# FlagTree in TLA+

FlagTree is a fork of the Triton compiler for several accelerator back ends. This directory
models the parts of it where several actors meet: the warps of a warp-specialized kernel and the
asynchronous engines they drive, the blocks and CTAs that meet at a distributed barrier, the
processes that share a compile cache or a store of tuning models, and the threads of an asynchronous
compilation. Each part has a module, instances that TLC checks, and proofs that the TLA+ proof system
checks for every value of the constants.

Paths below are relative to `src/`. `PROJECT.json` maps each definition to the lines it models.

## Inventory

| Component | Source | State | Operations | What makes it right |
|---|---|---|---|---|
| NVWS aref lowering | `third_party/nvidia/lib/Dialect/NVWS/Transforms/{AssignStagePhase,LowerAref,Utilities}.cpp` | per partition a stage and a phase register; per stage a full and an empty mbarrier | put.enter, put.exit, get.enter, get.exit; TMA loads and tcgen05 commits that end later | a consumer reads what was put for its iteration; nothing unread is overwritten; the loop ends |
| Barrier ops to PTX | `third_party/nvidia/lib/TritonNVIDIAGPUToLLVM/BarrierOpToLLVM.cpp` | mbarrier: count, phase, pending arrivals and transactions | init, expect, arrive, wait | no arrival beyond the count |
| Warp group allocation | `lib/Conversion/TritonGPUToLLVM/AllocateWarpGroups.cpp` | the module's `warp_specialize` ops and their attributes | padding, start IDs, register counts | warps are covered once; one count per warp group; the register file is never overcommitted |
| Warp specialization lowering | `third_party/nvidia/lib/TritonNVIDIAGPUToLLVM/ConvertWarpSpecializeToLLVM.cpp` | state bytes and captures in shared memory, registers per warp, one CTA barrier | header, switch loop, region entry and exit, return | all warps are in the same op; every setmaxnreg finds the count it was generated for or the count it sets; the kernel ends |
| On-disk compile cache | `python/triton/runtime/cache.py`, `python/triton/compiler/compiler.py` | files of one key, the group file that lists them | put, put_group, get_group, compile, load | a hit is a whole kernel, whoever died, where its binary is stored |
| Async compilation | `python/triton/runtime/_async_compile.py`, `python/triton/runtime/jit.py` | active_mode, futures by key, kernel caches by device | submit, result, `__enter__`, `__exit__` | each compile is finalized once; a closed block leaves nothing behind |
| InsertAref, InsertTmemAref | `third_party/nvidia/lib/Dialect/NVWS/Transforms/` | none at run time | place puts and gets | enters and exits match, kinds agree (assumed by `ArefRing`) |
| Software pipeliner | `lib/Dialect/TritonGPU/Transforms/Pipeliner/` | a schedule of stages and clusters | schedule, expand | no use before its definition across stages |
| Allocation and Membar | `lib/Analysis/{Allocation,Membar}.cpp` | liveness intervals; pending reads and writes | allocate, insert a barrier | no two live buffers overlap; every hazard has a barrier |
| TLE distributed barrier | `third_party/tle/dialect/lib/Conversion/TleToLLVM/DistributedBarrierOpToLLVM.cpp`, the launcher in `third_party/nvidia/backend/driver.py` | a 32-bit counter in global scratch memory; a counter and a phase in the shared memory of a slice's first CTA; the cluster's hardware barrier | arrive, poll; fence, reset, add, take back, flip | nobody leaves a barrier before all have reached it; no flip is missed, though the counter wraps; the memory polled exists |
| TLE barrier front end | `python/triton/experimental/tle/language/distributed.py` | the kernel's options; a mesh's shape, names and ids | device_mesh, slicing, reshape; shard_id, remote, distributed_barrier | a barrier is for the CTAs of its mesh; the launch fits every barrier of the kernel |
| FlagTune model store | `python/triton/flagtune/runtime/{model_sources,model_loader}.py` | manifest.json and its time, remembered failures; package files; models in memory | fetch the manifest; resolve, download, publish, load a package | no stale manifest; a version has one package for ever; a process uses one version |
| TLE pipes | `third_party/tle/dialect/lib/Transforms/TleLowerPipeToNvws.cpp` | pipe barriers | put, get | like arefs |
| Autotuner | `python/triton/runtime/autotuner.py` | configurations, timings | benchmark, choose | the choice is reused for the same key |
| Concurrency sanitizer | `lib/Dialect/TritonInstrument/` | a shadow of the barriers | instrumentation | reports real races only |
| Proton | `third_party/proton/` | sessions and scopes | start, stop, finalize | independent of the compiler |
| Front end, layout passes, interpreter, vendor back ends, FlagPrism hooks | see `PROJECT.json` | the program under translation | sequential rewriting | not a protocol |

How they interact. `InsertAref` turns data that crosses partitions into puts and gets;
`AssignStagePhase` gives each partition its registers and `LowerAref` its barriers, which
`BarrierOpToLLVM` lowers to mbarrier instructions. `AllocateWarpGroups` decides on warps and
registers and leaves its counts in attributes, which `ConvertWarpSpecializeToLLVM` turns into
setmaxnreg instructions and the switch loop that the partitions run in. On the host,
`JITFunction.run` looks its kernel up in the device's cache and else calls `compile`, directly or
through `AsyncCompileMode`; `compile` looks in the on-disk cache that other processes share. The
launcher clears the scratch memory that the barrier of a cooperative grid counts in, if it can. The meshes that a
kernel mentions set the options it is launched with, and its barriers become ops that
`DistributedBarrierOpToLLVM` lowers. FlagTune resolves a package in a user's directory, in the cache or in
the manifest, downloads and publishes it, and loads a model from it.

What is hard in them: arrivals counted at compile time for partitions and engines that run in any
order; a wait that sees one bit of a phase; a barrier that counts arrivals and not places;
setmaxnreg, which blocks until other warps release; processes that die between two puts; results
that are asked for before, while or after they are produced; files that several processes replace or
link while others go by what they have read; options inferred from one statement that serve all
others. `PROJECT.json` lists each hazard at
its line with the properties that cover it.

## Plan

1. `MBarrier`, `ArefRing`, `ArefChannel` (done): the protocol every warp-specialized kernel
   relies on. Proved.
2. `WarpGroups`, `WarpSpecialize`, `ForkJoin` (done): the lowering of the kernel itself.
   `WarpGroups`, and `WarpSpecialize` with its refinement, proved.
3. `FileCache` (done, proved).
4. `AsyncCompile` (done, proved).
5. `GridBarrier`, `ClusterBarrier`, `Rendezvous` (done): the TLE distributed barrier over a grid, a
   cluster and a slice of one. `GridBarrier` and its refinement proved, `ClusterBarrier` as part of
   `BarrierKernel`.
6. `DeviceMesh`, `BarrierKernel` (done): the front end of these barriers, composed with the launch and
   with both of them. That the launch fits, that the barriers of a cluster are for the CTAs of their
   meshes, and that those of a grid and of a cluster are rendezvous, proved.
7. `ManifestCache`, `PackageStore`, `Registry` (done, safety and refinement proved): the models FlagTune
   shares between processes.
8. `InsertAref` with several exits in one partition; the invalidation of barriers after their last
   use; `CompiledKernel._init_handles`, its partial failure and retry.
9. TLE pipes, which lower to the same barriers as arefs: `MBarrier` is shared.
10. Pure algorithms against reference definitions: the software pipeliner's schedule, buffer
   allocation, Membar on straight-line programs.
11. Further proofs: progress without liveness. That somebody can always go on is done for `ArefRing`,
   `WarpSpecialize`, the barriers and `AsyncCompile`; that a run is finite for `WarpSpecialize` only.

## The modules

### MBarrier, ArefRing, ArefChannel

`MBarrier` is the mbarrier as operators on a record: the count, the number of completed phases, the
arrivals and the transactions the current phase lacks. Transactions are counted in loads and not in
bytes, as the compiler announces the bytes of all the loads of one put together. A wait sees the
parity of the phase only.

`ArefRing` composes partitions and engines over a ring of barriers:

- `Enter`: the register updates `AssignStagePhase` inserts (the stage wraps at the depth, the phase
  flips when it does) and the wait `LowerAref` inserts, on the empty barrier for a put, on the full
  one for a get. Both are one action because a partition's registers are its own.
- `IssueLoads`: the rest of a TMA put.enter, BarrierExpect and then the loads. A partition in the
  middle of it (`InPutEnter`) does nothing else.
- `ExitArrive`, `ExitCommit`: the arrives of an exit, one per asynchronous kind, in any order over
  overlapping regions (a region may span iterations). A TMA kind has no arrive in the exit, since
  the expect was one. A tcgen05 kind is a commit.
- `LoadDone`, `CommitDone`: the engines, at any later time. These are hardware, modelled from what
  the code expects of it.
- `ArrivalCount` is `getArrivalCount`. Nothing in the model ties the arrivals that happen to it,
  which is what the properties test.

`lap` is a history variable and guards nothing. `Trips` bounds the loop.

`ArefChannel` is the abstract specification: slots that are put and got in a cycle, without
barriers, registers or engines. `ArefRing!Channel` is the refinement mapping: a slot is busy while
a partition, or an engine on its behalf, may touch it.

### WarpGroups

The pass as a state machine over the ops of a module: `PadOp` pads an op up to the widest one,
`AssignOp` sorts the partitions, gives start IDs and, if registers were requested, counts.
`llvm::sort` is not stable and leaves equal sizes in any order: `Orders` is the set of all of
them. `DefRegs` and `LowRegs` are the counts the kernel header derives from the same attributes
in `ConvertWarpSpecializeToLLVM`; `HeaderFits` relates the two passes. `BlockAssumption` is the limit
of 1024 threads that a launch has, `RegsAssumption` what setmaxnreg and the register file admit.

### WarpSpecialize, ForkJoin

One warp is one process; its `pc` names the place in the generated code. A default warp runs the
kernel's own code (`code`), stores states and captures, and goes over the three barriers of an op
(start, captures, end). A worker loads its state byte in the switch loop, and enters a partition,
leaves the kernel or, when it has no partition, goes through the barriers. `Release` is the one
hardware barrier: all warps go when all have arrived, at whatever place each has arrived. `SetRegs`
is setmaxnreg, which waits for the pool (`Granted`) when it increases; `PoolAssumption` is what `WarpGroups`
establishes of the counts. State bytes are uninitialized at
launch. The memory of the captures is reused by the region's code (`Overwrite`), at any time in the
region. The state bytes and the captures are each stored in one step: Membar orders them before the
start barrier. The compiler makes a setmaxnreg an increase or a decrease by the count it believes the warp
has (`Told`). `RegsAsGenerated` says that the warp has it, with one exception: the setmaxnreg at the top of the
switch loop is generated for the launch's count and reached again after each op, when the warp has been
given back the count that it sets. It then changes nothing.

`ForkJoin` is what the op documents: regions start together and are joined together.
`WarpSpecialize!ForkJoinSpec` maps `pc` to it.

### GridBarrier, ClusterBarrier, Rendezvous

`Rendezvous` is what `tle.distributed_barrier` promises a group: nobody leaves its n-th barrier before
everybody has reached it.

`GridBarrier` is the code of `lowerGridBarrier`: one process per block, as only thread 0 acts and CTA
barriers hold the others. `Arrive` is the atomic add of `Amount`, `Poll` the turn of the wait loop that
sees the top bit flipped. The counter is computed modulo its range `2 * Half`. A block that has left
may arrive again while others still poll, so the counter they see belongs to the next round.
`GridBarrier!Barrier` is the refinement mapping.

`ClusterBarrier` has a process per CTA, whose kernel is a sequence of groups (`program`). A group
that is the whole cluster is one hardware barrier (`Call`, `WaitAll`). A slice is two fences of the
whole cluster with the leader's reset between them (`Call`, `Reset`, `ArriveAgain`, `Start`) and then,
for its members, a counter and a phase in the leader's shared memory (`ReadPhase`, `Arrive`,
`TakeBack`, `Flip`, `Wait`). Shared memory is garbage at launch. The hardware barrier waits for every
CTA that has not exited, whatever barrier of the source it is at: `arrivals` counts per CTA.

### DeviceMesh, BarrierKernel

`DeviceMesh` has the front end's sequential part as operators: a mesh is its shape, names and ids and
those it was launched with; `GetItem` and `Reshape` make meshes from meshes; `ClusterDims`, `UsesGrid`,
`IsClusterSubmesh`, `Inferable` and `Mask` are the inference, `ShardId` the coordinate. That a name
contains "cluster" or "block" is membership in a set.

`BarrierKernel` handles the statements of a kernel one after the other as the compiler does. `Scope` is
shard_id or remote, `SliceBarrier`, `GridBarrierCall` and `ClusterBarrierCall` the ways of
distributed_barrier in their order, `Raise` what ends the compile. Each changes the options
(`num_ctas`, `cluster_dims`, `cooperative`) that the whole kernel has, and a barrier adds its op.
`LaunchGrid` runs the ops in `GridBarrier`, whose counter it clears if the launch is cooperative and the
scratch object has a method for that: `Buffers` is what the objects of the allocator offer, of which only
data_ptr is asked;
`LaunchCluster` takes one cluster of the launch, gives each of its CTAs the ops that it executes,
according to its rank or to what shard_id returns in it, and runs them in `ClusterBarrier`. A kernel
with both kinds is compiled and not launched.

### ManifestCache

Processes on one manifest file. The branches of `_load_manifest` are actions: `UseCached` and `Read` for
a cached one, `Refuse` when offline or after a failure, `Request`, `Respond`, `FetchFails`, and the two
writes. Times are ages that `Tick` increases, so no clock is unbounded: a manifest has the age of the
server's response, `meta` that of the time in the other file, which is taken after the first write and
not at the response. `Delay` bounds how long a process takes between two of its steps while it holds
something; `trouble` is a time in which requests, writes and processes may fail.

### PackageStore, Registry

Processes that load one model. `Resolve` finds a package in the user's directory or the cache,
`AskManifest` and `Index` in a manifest, any of `Indexes` at any time, as the manifest is fetched anew
now and then. `AlreadyCached`, `Request`, `Payload` and `Publish` are `_download_package` with the link that
creates the file or finds a winner; `Load` checks the file and keeps the model under its version.
`LoadAgain` is a load that finds it in memory. A package is its digest and `VersionOf` its validation.
`given` is a history variable.

`Registry` is the abstract specification: a version gets its bytes once, and whoever learns them learns
those. The refinement maps what a process has loaded from the cache to what it has learned.

### FileCache

Processes that compile one cache key. `Lookup` is `get_group` with the test of the metadata file;
`PutOutput` one turn of the loop over the stages, `PutMetadata`, `PutGroup` the last puts. Each put
has two steps, the temporary file (`Write`) and `os.replace`. `LoadMetadata` and `LoadBinary` read
back what the group named, also after a hit. `Stop` is a process that dies or whose back end
raises, between any two steps. The contents of a file are the process that compiled it, as two
compilations of one key need not give the same bytes. `BinaryOnly` and `AlwaysCompile` are the
knobs of those names, per process. `overlap` is a history variable.

store_binary_only stores the source, the metadata and what has the extension cubin or hsaco (`Kept`). The
binaries of nvidia, amd and a few more back ends have one of these; those of metax, thrive and tsingmicro,
which use the same `compile`, do not, and a process with the setting writes a group without a binary.
`StoresBinary` tells who does not. So `GroupComplete` promises the binary until such a process has got as far
as a group (`LeftOut`), and `LoadsSucceed` says who alone may miss it: such a process, or one that is told of a
hit after it (`MayLackBinary`). `HandleReturned`, that `compile` returns a kernel, is proved where everybody
stores the binary.

### AsyncCompile

One thread enters blocks and makes calls for kernels and devices; the executor takes futures
(`Start`) and ends them (`Finish`) in any order. `CallAsync` is the path of `JITFunction.run` that
submits, with (`launch`) or without (warmup) asking for the result. `CallSync` is the path without a
mode. A call that finds its kernel changes nothing and has no action. `Result` is
`FutureKernel.result` for a launch, whose error ends the body of the block. `ExitFuture`,
`ExitRaises` and `ExitEnd` are the loop of `__exit__` over `as_completed`, the error that leaves
it, and its last statement.

## The runs

| Run | Instance | Shows |
|---|---|---|
| `aref_ring` | a TMA producer of two loads and one of other kinds, a tcgen05 and a plain consumer with overlapping regions, depth 2, 6 trips | the ring implements the channel; `ReaderSeesItsLap`, `WriterKeepsUnread`, `FullMeansFilled`, `ParityUnambiguous`, `Completes`; the inductive invariant |
| `warp_groups_fit` | every module of one op with one or two partitions, or of two ops (two partitions and one), sizes 1 to 8, requests 24, 90, 232 or none; 4 or 8 default warps, maxnreg unset or 128 | `WarpsCovered`, `GroupsAgree`, `RegionFits`, `HeaderFits`, `RequestsMet` |
| `warp_spec` | two default warps, three workers, three partitions, one of two warps, ops in which a worker has none, with and without register counts; an empty run, and ops in a loop | `RegionsMatch`, `RegsAsGenerated`, `ExitIsSignalled`, `QuietReads`, `ImplementsForkJoin`, `Completes`; the inductive invariant |
| `file_cache` | three processes: a plain one, one with store_binary_only, one with always_compile; three outputs; the binary is one that store_binary_only leaves out | `TypeOK`, `GroupComplete`, `LoadsSucceed`, `MixedOnlyByOverlap` |
| `async_compile` | two kernels, one may fail; two devices; two blocks, the first ignores errors; one thread in the executor | `CompiledOnce`, `FinalizedOnce`, `ClosedIsFinal`, `CallsReturn` |
| `async_raise` | the same as `async_compile` | finding: `ModeIsOpen` is violated |
| `barrier_kernel` | clusters of four CTAs in a line, a square, under a device axis, around a block axis; a barrier over every slice with steps 1 and 2 and two reshapes; kernels of several barriers, branches on ranks and on shard_id, meshes and options in conflict; grids of four blocks with `Half` = 4 and four barriers, scratch memory that can be cleared | `BarrierSpansMesh`, `LaunchFitsBarriers`, `ShardIdSelectsMembers`, `Rendezvous`, `LeaderStays`, `ImplementsBarrier`, `KernelCompletes` |
| `grid_scratch` | a grid of four blocks and scratch objects that may offer data_ptr only | finding: `ImplementsBarrier` is violated |
| `shard_id` | a branch on shard_id in clusters of 2 by 2 | finding: `ShardIdSelectsMembers` is violated |
| `cluster_outside` | only the members call the slice's barrier, then all the full one | finding: `Rendezvous` is violated |
| `manifest_cache` | a plain process, one that always refreshes, one that is offline; TTL 1, retry 2, delay 1 | `NeverStale`, `Recovers` |
| `package_store` | two versions, four packages, four manifests that disagree; a plain process, one that wants the latest version, one offline with a package of its own and a pinned version | `Vetted`, `OneRevision`, `ImplementsRegistry` |

Why the bounds are enough. Six trips over two stages wrap the ring three times, so
every register flips and every stage is reused; overlapping regions have all their stages open at
once. The warp-group runs use the real group size (4) and register file (2048 rows of 32) and include
padding with several partitions, groups of several partitions, groups of one, budgets that fail
and header counts above 256. The warp-specialize run repeats ops, so each barrier is reused in
another round, and its bytes keep the partition
numbers, the exit state and the byte of -1 distinct; the theorems take any number. Three processes
are one to die, one to overwrite and one to read. The grid barrier runs with the most blocks its
counter admits, so its sums are at the boundary, and wraps twice; the slices repeat groups and
leaders, and memory that is garbage is 1 or the largest value, so that a phase wraps. Four CTAs are the
fewest that have two rows and two columns, and the mask of each mesh is compared with the mesh itself
at every place of the other axes. A time to live of one tick, with a delay of one, lets a manifest
be written, vouched for and replaced around its expiry; the retry is longer than both. Two versions and
manifests that disagree on one of them give each race of publications both outcomes. The proofs remove
the bounds of the parts they cover.

`CHECK_DEADLOCK FALSE` stands in the runs of `AsyncCompile`, where the program may stop
calling, and in `grid_scratch`, where blocks may poll for ever; elsewhere `Terminated` is the one way to stop.

## Fairness

- `ArefRing`: weak fairness of each partition's program, of its exits and of its engines. Warps of
  a resident CTA are scheduled, every put and get has an exit in the loop, and the hardware ends
  what it was given. No strong fairness is needed, since a passed wait stays passed until its
  partition acts.
- `WarpSpecialize`: weak fairness of each warp and of the barrier. This includes that the region's
  code ends, which is the kernel's own business, and that setmaxnreg is granted once the pool
  has the registers. `Overwrite` has none.
- `GridBarrier`, `ClusterBarrier`: weak fairness of each block or CTA. A cooperative launch, and a
  cluster, keep all of theirs resident, so each is scheduled; a poll that can succeed stays so until
  the block acts, since the next flip needs its own arrival.
- `BarrierKernel`: weak fairness of the compiler and the launch, and the same for blocks and CTAs.
- `ManifestCache`: weak fairness of time and of each process's own steps: `Recovers` is about processes
  that go on calling. Failing has no fairness, and `Recovers` is about the time after it has ended.
- `AsyncCompile`: weak fairness of the thread inside `result` or `__exit__` and of the executor. The
  program is never obliged to call or enter anything.

## Proofs

Every theorem holds for all values of the constants that satisfy the assumptions named in the module
that declares them; TLC evaluates these on the instances. They have the common form: an inductive
invariant `IInv`, `Init => IInv`, `IInv /\ [Next]_vars => IInv'` with one step per action, and the
properties from it. TLC checks the `IInv` of `ArefRing` and `WarpSpecialize` as such in their runs; for
the other modules the runs check the properties it gives. Induction over numbers, where a proof needs
it, is `WFMin` on the set of counterexamples (lemma `Inductive`).

- `ArefRing_proofs` (assuming disjoint finite non-empty sides, a positive depth, and that a put has
  the TMA kind exactly when it issues loads). The safety of a stage is not inductive: whether a
  wait may pass depends on how many arrivals the barrier lacks. `IInv` therefore says what `pending`
  and `tx` count, namely the arrivals of the phase that have not happened (`CountInv`); that each
  partition and kind is at most one arrival from its barrier (`LapInv`); that stage and phase
  registers encode the lap (`RegisterInv`); and which loads and commits may be outstanding
  (`EngineInv`). `ReadersAreSafe`, `WritersAreSafe`, `ParityIsEnough`, `FullIsFilled` and
  `RingImplementsChannel` follow. The count lemmas rest on the cardinality theorems of the
  library's `FiniteSetTheorems`. `RingNeverStuck` is what `Completes` rests on, short of fairness. The
  registers encode how many regions a partition has entered (`TurnsCounted`), so who has entered fewer is
  not ahead on the stage it turns to (`BehindOnStage`). A wait that does not pass in an idle ring means that
  somebody of the other side has yet to enter that lap (`WaitsForOther`); of the partitions with the fewest
  regions, a producer if there is one, this is true of none. (Both take an exit to wait for nothing; a partition
  whose code puts an exit behind the enter of a later region that needs it blocks by itself.)
- `WarpSpecialize_proofs` (assuming distinct partition numbers, and that -1 is not taken for the
  exit state, see below). The barrier does not know places, so `IInv` does: all warps are between
  the same two barriers, in one of four zones of a round (`Gathering`, `Forking`, `Running`,
  `Quitting`), and a warp's registers are a function of its place (`RegsByPlace`), of which `RegsAlwaysAsGenerated` is the
  comparison with what each setmaxnreg was generated for. A step inside a
  zone stays in it; `Release` goes to the next. `ForkJoinImplemented` maps every step to a fork, a
  leave, a join, a quit or a stutter. Two theorems are what `Completes` rests on, short of fairness.
  `NeverStopsForRegisters` (assuming that the counts fit the pool, `PoolAssumption`): when all who are not at the
  barrier wait for registers, every warp has at most its count of the place they are heading for, and these
  fit together, so any one of those that wait would be granted (`PoolServes`). The sum is a fold over a set in
  an order that is not known, but the same for two counts, which is how `HeldGrows` compares them.
  `OnlyForward`: each step of a warp and each release of the barrier passes a milestone, of which there are 12 an op.
- `WarpGroups_proofs` (assuming what section Assumptions says of the ops, of the block and of the
  registers). The sums are recursive functions, so the lemmas about them are proved by induction: a sum
  does not depend on the order (`SumTo` over a permutation), and may be taken group by group. `IInv` adds to
  the properties that every padded op has the same total (`Padded`), for which the powers of two of
  `Padding` add up to what was missing; that the module's count is the launch's as soon as one op has
  been assigned (`Launched`); and the limit of the block (`InBlock`). From them: start IDs are the sums
  in the order of the sort, so the ranges of two partitions are apart, and they cover the extra warps,
  as their sizes add up to them (`Covered`). A group of the pass begins at a start that is a multiple of the
  group size, and there is none such between two warps of one hardware group, so these belong to one group
  of the pass (`Agreed`). A count is a maximum over its group (`Requested`). Regrouping the budget by groups gives
  the sum over partitions, so the remainder is within the launch (`WithinLaunch`). `HeaderWithinLaunch`
  compares the two passes' arithmetic; it needs that a launch has at least 24 registers a thread, and that is
  where the limit of the block comes in.
- `BarrierKernel_proofs`, the grid barrier (assuming at most `Half` blocks, one of them block 0). `IInv` says that some
  number of rounds `r` is complete, with the parity of `r` in the top bit (`Bit`), that the counter
  holds beyond it what the blocks in `Ahead(r)` have added, and what each polling block's last add
  returned. That the amounts of a round add up to `Half`, and those of a part to less, rests on the
  library's cardinality theorems; the wrap of the counter is lemma `Wrapped`. The same invariant says
  what a poll means (`FlipMeansArrived`): it passes exactly when all have arrived at the poller's barrier.
  Who has arrived least often can therefore go on (`GridNeverStuck`).
- `FileCache_proofs`. `IInv` adds to the properties what a process's own list of files holds at each
  place (`FilesListed`); files are replaced and never removed, so what is listed stays there. It holds
  whatever store_binary_only leaves out: `GroupsAreComplete` and `OnlyBinariesMissed` say what then may lack a
  binary, and `KeptBinariesLoad` (assuming that every process stores its binary) that nothing does.
  `MixedNeedsOverlap` rests on `MixInv`: who has put a file overlaps whoever put the one that is there
  (`CompilersLinked`), and once a group is there nobody begins to compile who was not told to, so what
  has been read of the metadata is joined to all who may yet put a binary (`MetaChained`). A process
  that dies between the two files is harmless because nothing names its metadata before a group does. The
  exceptions (`Unpaired`) are binaries of processes told to always compile, and metadata of such a process
  that leaves its own binary out: its group lists the binary that it was told of at its lookup. Where binaries
  are left out the file may be there and unlisted, so `MetaChained` is about listed binaries
  (`BinaryListed`), and `FirstListers` about who lists one before there is a group.
- `AsyncCompile_proofs`. `IInv` adds that a finalized future has succeeded and is in its device's
  cache (`FuturesInv`), and that everything `__exit__` has been over is settled (`ThreadInv`), which is
  why a block that ends without an error is final. `CallsNeverStuck`: what `result()` or `__exit__` waits for
  has been submitted (`LeftInv`), so it is done, running, or queued behind a running compile or for a free thread.
- `BarrierKernel_proofs`, the kernel. `FrontInv` says of each op that it fits the options
  as they are now: a cluster's op was inferred for a cluster that the options name, or for a single
  CTA, and a grid's op has made the launch cooperative. It is inductive because options are set once:
  `ClusterFits` admits a mesh only while they are unset or its own. `LaunchFits` follows.
  `BarriersSpanMeshes` and `ShardIdSelects` are about the arithmetic of `DeviceMesh`, whose products and
  positions are recursive functions. `LinearInRange` and `LinearInjective`, by induction over the axes,
  say that the places of a shape have positions of their own below the shape's product; a mesh that is no
  slice has at least as many places as the cluster (`IsClusterSubmesh`), so by counting it has all of them
  (`AllPlaces`), and the barrier of the whole cluster, which is the launched one (`LaunchInv`,
  `DimsProduct`), is for them. A slice has the same members everywhere (`Inferable`), which is its mask.
  `BarriersSpanMeshes` holds once a cluster is launched and assumes `OfLaunchedCluster`, see the
  observations; `ShardIdSelects` assumes `Innermost`, and the finding `shard_id` shows why. That a mesh has
  positive sizes and natural ids (`IsMesh`) is assumed of the meshes of a kernel; `NewIsMesh`, `SliceIsMesh`
  and `ReshapedIsMesh` prove it of whatever device_mesh makes.
  `KernelRendezvous` (assuming that the launcher can clear every scratch object, `Clears`) composes: before
  the launch of a grid nothing has arrived; the launch is cooperative, so it clears the counter and starts
  `GridBarrier` in one of its initial states; from then on each step is one of `GridBarrier` or leaves it
  alone, and its invariant and refinement apply. (`grid_scratch` shows what happens without the assumption.)
  `ClusterRendezvous` and `ClusterLeaderStays` are about `ClusterBarrier` under a launched kernel, provided
  the kernel is `Aligned`: its CTAs execute equally many barriers, at each place all the whole cluster's or
  all slices', and the members of a slice the same one. (`cluster_outside` is a kernel that is not, and
  the finding below.) `OrderInv` orders the CTAs by the hardware barrier alone: one that is a barrier ahead
  of another knows that the other has arrived for the last time in its own. So neither theorem depends on
  the counter and the phase, whose part is that the members of a slice get through. That is `KernelNeverStuck`,
  which has the grid's blocks as well, under `Clears`. `TurnInv` says where the barrier of a slice stands: some have still to add
  to the counter, which from the leader's reset on is the number of those that have, whatever it was before
  (`Counting`); one has added last (`Closing`); or the phase has changed, and all who are left see it
  (`Closed`). It holds because slices in their barriers at one time are disjoint (`GroupFacts`), so that each is
  alone with its leader's memory (`TurnWork`), and because a slice has fewer members than the counter has
  values. Of the CTAs that have not exited, one with the fewest arrivals passes the hardware barriers, or waits
  for a phase that another member with as few arrivals, or the last to add, is still to bring about.
- `ManifestCache_proofs` (assuming natural times). `NeverStale` is not inductive: what a process is given
  depends on a time written by another. `Vouched` bounds how much older than its time the manifest may
  be, and `PendingVouched` the same for a process between its two writes, in which others may write
  theirs. The two delays of `Vouched` are the one before each of the two writes.
- `PackageStore_proofs`. `IInv` says what a process at each place holds (`Listed`, `Ready`, `Asked`) and that
  a file, once there, is what every process has loaded (`LoadedIsFile`), for which the link must never
  replace one. `GivenIsKept` gives `OneRevision`: versions given are the pinned one or the remembered
  one. `StoreImplementsRegistry` maps a publication to `Register` and a load to `Learn`.

Proved and in no run: `NeverStuck` and `MovesForward` of `WarpSpecialize`, `TurnInv` and `NeverStuck` of
`ArefRing`, and what `GridNeverStuck`, `KernelNeverStuck` and `CallsNeverStuck` say. `warp_spec`, `aref_ring`,
`barrier_kernel` and `async_compile` cover them with `Completes`, `KernelCompletes` and `CallsReturn`, the
first three with their deadlock checks too. These theorems are liveness short of fairness: somebody can always go on.

Model-checked only: all liveness (`Completes`, `CallsReturn`, `KernelCompletes`, `Recovers`), as fairness
and ENABLED are beyond the prover; `BarrierSpansMesh` before the launch, and the cluster's barriers in
kernels that are not `Aligned`. The instances of `barrier_kernel` satisfy `OfLaunchedCluster` and `Innermost`. No module declares a
RECURSIVE operator.

## Findings

- `async_raise`: when a compile fails in a block without `ignore_errors`, `__exit__` raises from its
  loop before it resets `active_mode`. Every later block is refused as nested, and calls go on to the
  closed block's executor.
- `cluster_outside`: `tle.md` asks that CTAs outside a slice do not call its barrier. The lowering
  fences the whole cluster first, so when the members go on to a full barrier that the others call at
  once, the others leave it on the members' fence, before the members have reached it. Kernels in
  which all CTAs execute as many barriers, a slice's fences included, are right (`barrier_kernel`).
- `grid_scratch`: the launcher clears the scratch memory only if its object has `zero_` or `fill_`, and launches
  with garbage, silently, if it has neither; the allocator protocol asks for neither. A counter with garbage below
  the top bit flips it too early: one block leaves the barrier of the grid before the others have reached it, and
  others may poll for ever.
- `shard_id`: the coordinate is computed from `tl.program_id(0)`, which is %ctaid.x. A cluster of 2 by 2
  extends along y too, so two of its CTAs have the same %ctaid.x, and whether a CTA takes the branch of a
  row depends on which cluster it is in. Where the cluster lies along x and on the innermost axis of the
  mesh, the coordinate is right in every cluster (`barrier_kernel`).

A further limit shows in `LeaderStays`, which is restricted to kernels that go on to a barrier of the
whole cluster: without one, the leader of a slice may arrive last, flip the phase and exit while the
others still poll its shared memory.

Observations that no doc contradicts. store_binary_only goes by a list of extensions and not by the back end's
`binary_ext`: on metax, thrive and tsingmicro the binary is left out, and `CompiledKernel` raises KeyError
(`compiler.py:477`) after the compilation and, as the group is there, after every later hit, also in processes
without the setting. `LoadsSucceed` admits this and nothing else; back ends with a copy of the compiler list
their own extensions. `padToMaxWarpGroups` requests 16 registers for a padding partition; when the padding fills
a hardware warp group by itself, that becomes its count, below the 24 under which the same pass gives up. `_apply_mesh_cluster_launch` takes the cluster (1, 1, 1) for unset, also
when a mesh with a cluster of a single CTA has set it; a later mesh may then give the kernel a cluster of
four, and the barrier over the first mesh, which was emitted for the whole cluster, waits for all four
(`OfLaunchedCluster` excludes this from `BarriersSpanMeshes`). A manifest that counts as fresh may be older than the TTL by the
delays of the processes that fetched and wrote it, since its time is that of the second write:
`NeverStale` has them in its bound. A cluster barrier that follows a grid barrier is accepted, although
the reverse order raises. `remote` with coordinates and a slice as scope gives the index within
the slice on the cluster path, where the node path goes through the physical ids. A process that has
remembered an implicit load does not look at a changed FLAGTUNE_MODEL_VERSION again. A second device's
call for a kernel in flight in an async block gets the first device's kernel, and its own
cache stays empty.

## Assumptions taken from outside the modules

- The default partition of `WarpGroups` is made of whole warp groups (`WarpsAssumption`); with it, the
  partitions of an op have at most 1024 threads (`BlockAssumption`); a user's maxnreg is a multiple of 8
  from 24 to 256, and the register file has 24 registers for each of 1024 threads (`RegsAssumption`).
- The counts of a kernel fit the registers that it is launched with, in the header and in every op
  (`PoolAssumption` of `WarpSpecialize`): `HeaderWithinLaunch` and `WithinLaunch` prove it of what
  `AllocateWarpGroups` assigns.
- The scratch objects of a grid barrier can be cleared (`Clears`), in `KernelRendezvous` and for the grid in
  `KernelNeverStuck`; the run `barrier_kernel` has only such objects.
- `WarpSpecialize` assumes fewer than 255 partitions in a kernel in which some warp has none: the
  byte of -1 would otherwise be the exit state. `AllocateWarpGroups` pads every op, so no such warp
  is left in practice.
- The CTAs of a cluster and the clusters of a launch are numbered from 0 (`ClusterAssumption`).
- One partition uses the same asynchronous kinds at each of its exits on an aref, as `InsertAref`
  generates them.

## Not modelled

The rewriting of the IR by the passes (types, operands, threading values through loops), PTX text,
predicates and multi-CTA variants; the deallocation of barriers; the barriers of a FlagCX communicator;
kernels that mix grid and cluster barriers; the remote, override and dump caches of compiled kernels;
argument binding and the launcher's arguments; archives, their validation and the predictors in them; the
components that the inventory lists without a module, for the reasons in `PROJECT.json`: mostly sequential
rewriting over arbitrary programs, which has no small instance that would be representative.

The map covers a small share of the repository's Python and will: most of it is the language front end
(`core.py`, `semantic.py`, `code_generator.py`), the interpreter, the tutorials and their kernels, which are
sequential translations and numerical code without a protocol. The stateful parts of the system are the
lowerings in C++, the caches, the asynchronous compilation, the barrier front end and the model store, and
those are what the modules are about.
