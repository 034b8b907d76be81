--------------------------- MODULE WarpSpecialize ---------------------------
(***************************************************************************)
(* The code ConvertWarpSpecializeToLLVM generates for a warp-specialized   *)
(* kernel.  The default warps run the kernel; at each warp_specialize op   *)
(* they write, per worker warp, the number of the partition to run and the *)
(* captured values into shared memory.  Workers sit in the switch loop.    *)
(* Everyone meets at one hardware barrier (kSwitchLoopBarrierIdx), which   *)
(* counts arrivals and knows nothing of where in the program they are.     *)
(***************************************************************************)
EXTENDS Integers, Sequences, FiniteSets, Functions

CONSTANTS
  Default, Workers,  \* warps
  Ops,               \* the function's warp_specialize ops
  Partition,         \* [Ops -> [Workers -> partition number, or NoPartition]]
  NoPartition,
  NumPartitions,     \* partitionStateCounter
  Bytes,             \* number of values of an i8 state (256)
  HeaderRegs,        \* defRegs of a default warp, lowRegs of a worker (StartRegs
                     \* for all when the module has no maxnreg)
  ActRegs,           \* [Ops -> [warps -> actual registers]], or NoRegs for an op
  NoRegs,
  StartRegs,         \* registers of a warp at launch
  Paths              \* the sequences of ops a run of the kernel may execute

Warps == Default \cup Workers

ASSUME WarpAssumption ==
  IsFiniteSet(Warps) /\ Default # {} /\ Default \cap Workers = {}
ASSUME PathAssumption == \A p \in Paths : p \in Seq(Ops)
\* "too many warp group partitions" is an error; every partition has a number
\* of its own; a warp without a partition has the byte of -1, which is no
\* partition's and (AllocateWarpGroups leaves no such warp) not the exit state.
ASSUME StateAssumption ==
  /\ Bytes \in Nat /\ NumPartitions \in 0 .. Bytes - 1
  /\ \A o \in Ops : Partition[o] \in [Workers -> 0 .. NumPartitions - 1 \cup {NoPartition}]
  /\ NoPartition \notin 0 .. NumPartitions - 1
  /\ \A o, q \in Ops : \A v, w \in Workers :
       Partition[o][v] = Partition[q][w] /\ Partition[o][v] # NoPartition => o = q
  /\ (\E o \in Ops : \E w \in Workers : Partition[o][w] = NoPartition)
       => NumPartitions < Bytes - 1
ASSUME RegsAssumption ==
  /\ StartRegs \in Nat /\ HeaderRegs \in [Warps -> Nat]
  /\ \A o \in Ops : ActRegs[o] = NoRegs \/ ActRegs[o] \in [Warps -> Nat]

\* The registers of all warps together, of which the launch gives each its part.
Held(count) == FoldFunctionOnSet(+, 0, count, Warps)
Pool == StartRegs * Cardinality(Warps)
\* The registers of a warp between the fork and the join of an op; one that has
\* no partition passes through.
Count(w, o) ==
  IF ActRegs[o] = NoRegs \/ (w \in Workers /\ Partition[o][w] = NoPartition)
  THEN HeaderRegs[w] ELSE ActRegs[o][w]
\* What AllocateWarpGroups sees to (HeaderFits and RegionFits of WarpGroups): at
\* no place do the warps together have more than at launch.
ASSUME PoolAssumption ==
  /\ Held(HeaderRegs) <= Pool
  /\ \A o \in Ops : Held([w \in Warps |-> Count(w, o)]) <= Pool

VARIABLES
  pc,     \* where each warp is
  path,   \* the ops this run of the kernel executes
  round,  \* [Default -> Nat]: ops a default warp has entered
  state,  \* [Workers -> 0 .. Bytes - 1]: the state bytes in shared memory
  capt,   \* the captures' memory: the round it was written for, or Overwritten
  job,    \* [Workers -> 0 .. Bytes - 1]: state last loaded by a worker
  seen,   \* captures last loaded by a worker
  regs    \* registers of each warp

vars == <<pc, path, round, state, capt, job, seen, regs>>

Overwritten == 0

\* The switch's case values; -1 matches none of them.
ExitState == NumPartitions
\* Mutant: -1 is taken for the exit state.
IdleIsExit == NumPartitions
IdleState == Bytes - 1
StateOf(o, w) == IF Partition[o][w] = NoPartition THEN IdleState ELSE Partition[o][w]
IsPartition(s) == s \in 0 .. NumPartitions - 1
\* The op a partition's code belongs to.
OpOf(s) == CHOOSE o \in Ops : \E w \in Workers : Partition[o][w] = s

Goto(w, l) == pc' = [pc EXCEPT ![w] = l]

\* setmaxnreg: an increase waits until the CTA's pool holds enough registers.
Free == Pool - Held(regs)
Granted(w, n) == n <= regs[w] \/ n - regs[w] <= Free
SetRegs(w, n) ==
  /\ Granted(w, n)
  /\ regs' = [regs EXCEPT ![w] = n]
\* setmaxnreg around a region, when AllocateWarpGroups has set its registers.
SetRegionRegs(w, o, n) == IF ActRegs[o] = NoRegs THEN UNCHANGED regs ELSE SetRegs(w, n)

-----------------------------------------------------------------------------
Init ==
  /\ pc = [w \in Warps |-> "header"]
  /\ path \in Paths
  /\ round = [d \in Default |-> 0]
  /\ state \in [Workers -> 0 .. Bytes - 1]  \* uninitialized shared memory
  /\ capt = Overwritten
  /\ job \in [Workers -> {IdleState}]
  /\ seen = [w \in Workers |-> Overwritten]
  /\ regs = [w \in Warps |-> StartRegs]

\* Mutant: the workers keep their registers.
KeepRegs(w) ==
  /\ pc[w] = "header"
  /\ IF w \in Default THEN SetRegs(w, HeaderRegs[w]) ELSE UNCHANGED regs
  /\ Goto(w, IF w \in Default THEN "code" ELSE "wait start")
  /\ UNCHANGED <<path, round, state, capt, job, seen>>
\* The kernel's entry block, or the top of the switch loop.
Header(w) ==
  /\ pc[w] = "header"
  /\ SetRegs(w, HeaderRegs[w])
  /\ Goto(w, IF w \in Default THEN "code" ELSE "wait start")
  /\ UNCHANGED <<path, round, state, capt, job, seen>>

StatesFor(i) == [w \in Workers |-> StateOf(path[i], w)]
ExitStates == [w \in Workers |-> ExitState]

\* The default warps reach the next warp_specialize op...
StoreStates(d) ==
  /\ pc[d] = "code" /\ round[d] < Len(path)
  /\ state' = StatesFor(round[d] + 1)
  /\ Goto(d, "captures")
  /\ UNCHANGED <<path, round, capt, job, seen, regs>>

StoreCaptures(d) ==
  /\ pc[d] = "captures"
  /\ capt' = round[d] + 1
  /\ Goto(d, "wait start")
  /\ UNCHANGED <<path, round, state, job, seen, regs>>

\* ... or the function's return.
SignalExit(d) ==
  /\ pc[d] = "code" /\ round[d] = Len(path)
  /\ state' = ExitStates
  /\ Goto(d, "wait exit")
  /\ UNCHANGED <<path, round, capt, job, seen, regs>>

\* A worker loads its state and switches on it.
Switch(w) ==
  /\ pc[w] = "load"
  /\ job' = [job EXCEPT ![w] = state[w]]
  /\ Goto(w, IF IsPartition(state[w]) THEN "enter"
             ELSE IF state[w] = ExitState THEN "done" ELSE "wait captures")
  /\ UNCHANGED <<path, round, state, capt, seen, regs>>

\* The op a warp is about to enter, or is in.
NextOp(w) == IF w \in Default THEN path[round[w] + 1] ELSE OpOf(job[w])
CurrentOp(w) == IF w \in Default THEN path[round[w]] ELSE OpOf(job[w])

Enter(w) ==
  /\ pc[w] = "enter"
  /\ SetRegionRegs(w, NextOp(w), ActRegs[NextOp(w)][w])
  /\ Goto(w, IF w \in Default THEN "wait captures" ELSE "capture")
  /\ UNCHANGED <<path, round, state, capt, job, seen>>

\* Mutant: no barrier between the loads and the region.
LoadAndRun(w) ==
  /\ pc[w] = "capture"
  /\ seen' = [seen EXCEPT ![w] = capt]
  /\ Goto(w, "region")
  /\ UNCHANGED <<path, round, state, capt, job, regs>>
LoadCaptures(w) ==
  /\ pc[w] = "capture"
  /\ seen' = [seen EXCEPT ![w] = capt]
  /\ Goto(w, "wait captures")
  /\ UNCHANGED <<path, round, state, capt, job, regs>>

\* The captures' memory is only live up to the region; its code may reuse it.
Overwrite(w) ==
  /\ pc[w] = "region" /\ (w \in Workers => IsPartition(job[w]))
  /\ capt' = Overwritten
  /\ UNCHANGED <<pc, path, round, state, job, seen, regs>>

\* Mutant: a partition does not wait for the others.
LeaveEarly(w) ==
  /\ pc[w] = "region"
  /\ Goto(w, IF w \in Workers /\ IsPartition(job[w]) THEN "restore" ELSE "wait end")
  /\ UNCHANGED <<path, round, state, capt, job, seen, regs>>
\* The region's code ends (the default block of the switch has none).
Leave(w) ==
  /\ pc[w] = "region"
  /\ Goto(w, "wait end")
  /\ UNCHANGED <<path, round, state, capt, job, seen, regs>>

\* Mutant: a partition leaves it to the switch loop to restore its registers.
RestoreDefault(w) ==
  /\ pc[w] = "restore"
  /\ IF w \in Default THEN SetRegionRegs(w, CurrentOp(w), HeaderRegs[w]) ELSE UNCHANGED regs
  /\ Goto(w, IF w \in Default THEN "code" ELSE "header")
  /\ UNCHANGED <<path, round, state, capt, job, seen>>
Restore(w) ==
  /\ pc[w] = "restore"
  /\ SetRegionRegs(w, CurrentOp(w), HeaderRegs[w])
  /\ Goto(w, IF w \in Default THEN "code" ELSE "header")
  /\ UNCHANGED <<path, round, state, capt, job, seen>>

\* Where a warp goes from the barrier.
After(w) ==
  CASE pc[w] = "wait start" -> IF w \in Default THEN "enter" ELSE "load"
    [] pc[w] = "wait captures" -> "region"
    [] pc[w] = "wait end" ->
         IF w \in Workers /\ ~IsPartition(job[w]) THEN "header" ELSE "restore"
    [] pc[w] = "wait exit" -> "done"

Waiting == {"wait start", "wait captures", "wait end", "wait exit"}

\* Mutant: the barrier counts the worker warps only.
ReleaseWorkers ==
  /\ Workers # {} /\ \A w \in Workers : pc[w] \in Waiting
  /\ pc' = [w \in Warps |-> IF pc[w] \in Waiting THEN After(w) ELSE pc[w]]
  /\ round' = [d \in Default |-> IF pc[d] = "wait captures" THEN round[d] + 1 ELSE round[d]]
  /\ UNCHANGED <<path, state, capt, job, seen, regs>>
\* The barrier lets all threads of the CTA go when all have arrived.
Release ==
  /\ \A w \in Warps : pc[w] \in Waiting
  /\ pc' = [w \in Warps |-> After(w)]
  /\ round' = [d \in Default |-> IF pc[d] = "wait captures" THEN round[d] + 1 ELSE round[d]]
  /\ UNCHANGED <<path, state, capt, job, seen, regs>>

DefaultStep(d) == StoreStates(d) \/ StoreCaptures(d) \/ SignalExit(d)
WorkerStep(w) == Switch(w) \/ LoadCaptures(w)
Step(w) ==
  \/ Header(w) \/ Enter(w) \/ Leave(w) \/ Restore(w)
  \/ w \in Default /\ DefaultStep(w)
  \/ w \in Workers /\ WorkerStep(w)

Finished == \A w \in Warps : pc[w] = "done"
Terminated == Finished /\ UNCHANGED vars

Next ==
  \/ \E w \in Warps : Step(w) \/ Overwrite(w)
  \/ Release
  \/ Terminated

Spec == Init /\ [][Next]_vars

\* Every warp runs, and a region's code ends.
FairSpec == Spec /\ (\A w \in Warps : WF_vars(Step(w))) /\ WF_vars(Release)

-----------------------------------------------------------------------------
(* Properties *)

TypeOK ==
  /\ pc \in [Warps -> {"header", "enter", "region", "restore", "done"} \cup Waiting
                         \cup {"code", "captures", "load", "capture"}]
  /\ path \in Paths
  /\ round \in [Default -> 0 .. Len(path)]
  /\ state \in [Workers -> 0 .. Bytes - 1]
  /\ job \in [Workers -> 0 .. Bytes - 1]
  /\ capt \in 0 .. Len(path)
  /\ seen \in [Workers -> 0 .. Len(path)]
  /\ regs \in [Warps -> Nat]

\* The inductive invariant: all warps are between the same two barriers, the
\* default warps in the same round.  After the end of an op and before the next
\* start (or the return) the default warps may be writing the state bytes...
DefaultGathers(d, r) ==
  /\ round[d] = r
  /\ pc[d] \in {"header", "restore", "code", "captures", "wait start", "wait exit"}
  /\ pc[d] \in {"captures", "wait start"} => r < Len(path) /\ state = StatesFor(r + 1)
  /\ pc[d] = "wait start" => capt = r + 1
  /\ pc[d] = "wait exit" => r = Len(path) /\ state = ExitStates
  /\ pc[d] = "restore" => r > 0
  /\ pc[d] = "header" => r = 0
WorkerGathers(w, r) ==
  /\ pc[w] \in {"header", "restore", "wait start"}
  /\ pc[w] = "restore" => r > 0 /\ job[w] = StateOf(path[r], w) /\ IsPartition(job[w])
Gathering(r) ==
  /\ \A d \in Default : DefaultGathers(d, r)
  /\ \A w \in Workers : WorkerGathers(w, r)
\* ... then the workers read them, and the captures, ...
WorkerForks(w, r) ==
  /\ pc[w] \in {"load", "enter", "capture", "wait captures"}
  /\ pc[w] # "load" => job[w] = StateOf(path[r + 1], w)
  /\ pc[w] \in {"enter", "capture"} => IsPartition(job[w])
  /\ pc[w] = "wait captures" /\ IsPartition(job[w]) => seen[w] = r + 1
Forking(r) ==
  /\ r < Len(path) /\ state = StatesFor(r + 1) /\ capt = r + 1
  /\ \A d \in Default : round[d] = r /\ pc[d] \in {"enter", "wait captures"}
  /\ \A w \in Workers : WorkerForks(w, r)
\* ... then all are in the op's regions ...
Running(r) ==
  /\ r > 0
  /\ \A w \in Warps : pc[w] \in {"region", "wait end"}
  /\ \A d \in Default : round[d] = r
  /\ \A w \in Workers :
       job[w] = StateOf(path[r], w) /\ (IsPartition(job[w]) => seen[w] = r)
\* ... and at last the workers see that the kernel has returned.
Quitting(r) ==
  /\ r = Len(path) /\ state = ExitStates
  /\ \A d \in Default : round[d] = r /\ pc[d] = "done"
  /\ \A w \in Workers : pc[w] \in {"load", "done"}

Zone(r) == Gathering(r) \/ Forking(r) \/ Running(r) \/ Quitting(r)

\* The registers of a warp by the place it is at.
RegionRegs(w, o) == IF ActRegs[o] = NoRegs THEN HeaderRegs[w] ELSE ActRegs[o][w]
InPartition(w) == w \in Default \/ IsPartition(job[w])
RegsAt(w) ==
  /\ pc[w] = "header"
       => regs[w] = IF \A d \in Default : round[d] = 0 THEN StartRegs ELSE HeaderRegs[w]
  /\ pc[w] \in {"code", "captures", "wait start", "wait exit", "load", "enter"}
       => regs[w] = HeaderRegs[w]
  /\ pc[w] \in {"capture", "wait captures"} /\ InPartition(w)
       => regs[w] = RegionRegs(w, NextOp(w))
  /\ pc[w] \in {"region", "wait end", "restore"} /\ InPartition(w)
       => regs[w] = RegionRegs(w, CurrentOp(w))
  /\ pc[w] \in {"wait captures", "region", "wait end"} /\ ~InPartition(w)
       => regs[w] = HeaderRegs[w]
RegsByPlace == \A w \in Warps : RegsAt(w)

IInv == TypeOK /\ RegsByPlace /\ \E r \in 0 .. Len(path) : Zone(r)

\* While any warp is in a region, every default warp is in the same op and every
\* worker runs the partition that op gives it, on the captures stored for it.
RegionsMatch ==
  \A v \in Warps : pc[v] = "region" =>
    \A d \in Default :
      /\ pc[d] \in {"region", "wait end"} /\ round[d] > 0
      /\ \A w \in Workers :
           /\ job[w] = StateOf(path[round[d]], w)
           /\ IsPartition(job[w]) => seen[w] = round[d]

\* A worker leaves only when the default warps are past their last op.
ExitIsSignalled ==
  \A w \in Workers : pc[w] = "done" => \A d \in Default : pc[d] = "done" /\ round[d] = Len(path)

\* What the setmaxnreg a warp is at sets, and the count it was generated for, by
\* which createRegRealloc makes it an increase or a decrease.
Wanted(w) == IF pc[w] = "enter" THEN RegionRegs(w, NextOp(w)) ELSE HeaderRegs[w]
Told(w) ==
  CASE pc[w] = "header" -> StartRegs
    [] pc[w] = "enter" -> HeaderRegs[w]
    [] pc[w] = "restore" -> RegionRegs(w, CurrentOp(w))

\* A setmaxnreg finds the count it was generated for.  The one exception is the
\* one at the top of the switch loop, generated for the launch's count: from the
\* second turn on it finds the very count it sets, as the partition has restored
\* it.  So none asks to increase to less, or to decrease to more, than there is.
RegsAsGenerated ==
  \A w \in Warps :
    pc[w] \in {"header", "enter", "restore"} =>
      \/ regs[w] = Told(w)
      \/ /\ pc[w] = "header" /\ w \in Workers /\ \A d \in Default : round[d] > 0
         /\ regs[w] = Wanted(w)

\* A setmaxnreg that has to wait leaves some other warp able to go on: however far
\* the warps are in taking and releasing registers, they are not all waiting for
\* the pool, or for the barrier behind somebody who is.
Starved(w) == pc[w] \in {"header", "enter", "restore"} /\ ~Granted(w, Wanted(w))
NeverStuck ==
  \/ Finished \/ (\A w \in Warps : pc[w] \in Waiting)
  \/ \E w \in Warps : pc[w] \notin Waiting \cup {"done"} /\ ~Starved(w)

\* Shared memory is never written while a warp may be reading it: the state
\* bytes at the switch, the captures at the entry of a partition.
QuietReads ==
  [][/\ state' # state => \A w \in Workers : pc[w] # "load"
     /\ capt' # capt => \A w \in Workers : pc[w] \notin {"load", "enter", "capture"}]_vars

\* The switch loop takes no turn of its own: whatever moves brings a warp nearer
\* to the end of the kernel and none further from it, so that with NeverStuck
\* it is only a matter of being scheduled.
Milestone(place) ==
  CASE place = "region" -> 0
    [] place = "wait end" -> 1
    [] place = "restore" -> 2
    [] place = "header" -> 3
    [] place = "code" -> 4
    [] place = "captures" -> 5
    [] place \in {"wait start", "wait exit"} -> 6
    [] place = "load" -> 7
    [] place = "enter" -> 8
    [] place = "capture" -> 9
    [] place = "wait captures" -> 10
    [] place = "done" -> 11
Lead == CHOOSE d \in Default : TRUE
Position(w) == 12 * round[Lead] + Milestone(pc[w])
MovesForward ==
  [][/\ \A w \in Warps : Position(w) <= Position(w)'
     /\ pc' # pc => \E w \in Warps : Position(w) < Position(w)']_vars

\* The kernel ends: no warp is left at the barrier or waiting for registers.
Completes == <>Finished

\* The barrier protocol implements fork and join.
Stage(w) ==
  CASE pc[w] = "region" -> IF w \in Workers THEN <<"in", job[w]>> ELSE <<"in", IdleState>>
    [] pc[w] = "wait end" -> <<"left">>
    [] pc[w] = "done" -> <<"gone">>
    [] OTHER -> <<"out">>
Plan == [i \in DOMAIN path |-> [w \in Warps |->
           IF w \in Workers THEN StateOf(path[i], w) ELSE IdleState]]
ForkJoinSpec == INSTANCE ForkJoin WITH
  stage <- [w \in Warps |-> Stage(w)],
  plan <- Plan,
  forks <- round[Lead]
ImplementsForkJoin == ForkJoinSpec!Spec

=============================================================================
