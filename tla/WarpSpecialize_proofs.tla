----------------------- MODULE WarpSpecialize_proofs -----------------------
(***************************************************************************)
(* Proofs about WarpSpecialize, for every set of warps, every kernel and   *)
(* every register assignment: the barrier protocol keeps all warps between *)
(* the same two barriers, and implements fork and join.                    *)
(***************************************************************************)
EXTENDS WarpSpecialize, FiniteSetTheorems, WellFoundedInduction, TLAPS

Places ==
  {"header", "enter", "region", "restore", "done"} \cup Waiting
    \cup {"code", "captures", "load", "capture"}

(***************************************************************************)
(* The op of a partition number, and the state bytes.                      *)
(***************************************************************************)
LEMMA OpOfPartition ==
  ASSUME NEW o \in Ops, NEW w \in Workers, IsPartition(StateOf(o, w))
  PROVE  /\ OpOf(StateOf(o, w)) = o
         /\ Partition[o][w] = StateOf(o, w)
<1>1. Partition[o][w] # NoPartition
  <2>1. SUFFICES ASSUME Partition[o][w] = NoPartition PROVE FALSE
    OBVIOUS
  <2>2. NumPartitions < Bytes - 1
    BY <2>1, StateAssumption
  <2>3. StateOf(o, w) = Bytes - 1
    BY <2>1 DEF StateOf, IdleState
  <2> QED BY <2>2, <2>3, StateAssumption DEF IsPartition
<1>2. Partition[o][w] = StateOf(o, w)
  BY <1>1 DEF StateOf
<1>3. \A q \in Ops : \A v \in Workers : Partition[q][v] = Partition[o][w] => q = o
  BY <1>1, StateAssumption
<1> QED BY <1>2, <1>3 DEF OpOf

LEMMA StateByte ==
  ASSUME NEW o \in Ops, NEW w \in Workers
  PROVE  /\ StateOf(o, w) \in 0 .. Bytes - 1
         /\ StateOf(o, w) # ExitState
  BY StateAssumption DEF StateOf, IdleState, ExitState

LEMMA ExitByte == ExitState \in 0 .. Bytes - 1 /\ ~IsPartition(ExitState)
  BY StateAssumption DEF ExitState, IsPartition

LEMMA PathOps ==
  ASSUME NEW p \in Paths, NEW i \in 1 .. Len(p)
  PROVE  p[i] \in Ops
  BY PathAssumption

LEMMA PathLength == ASSUME NEW p \in Paths PROVE Len(p) \in Nat
  BY PathAssumption

\* Rounds are numbers up to the length of the path.
LEMMA Rounds ==
  ASSUME NEW n \in Nat, NEW r \in 0 .. n
  PROVE  /\ r < n => r + 1 \in 1 .. n /\ r + 1 \in 0 .. n /\ r + 1 > 0
         /\ r = n => ~(r < n)
         /\ r > 0 => r \in 1 .. n
         /\ r + 1 # r
  OBVIOUS

(***************************************************************************)
(* The register pool: sums over warps.                                     *)
(***************************************************************************)
\* Induction over the natural numbers.
LEMMA Inductive ==
  ASSUME NEW S, 0 \in S, \A k \in Nat : k \in S => k + 1 \in S
  PROVE  Nat \subseteq S
<1> DEFINE R == {ij \in Nat \X Nat : ij[1] < ij[2]}
           T == Nat \ S
<1>1. OpToRel(<, Nat) = R
  BY Zenon DEF OpToRel
<1>2. IsWellFoundedOn(R, Nat)
  BY <1>1, NatLessThanWellFounded
<1>3. T \in SUBSET Nat
  OBVIOUS
<1> SUFFICES ASSUME T # {} PROVE FALSE
  OBVIOUS
<1> HIDE DEF R, T
<1>4. PICK x \in T : \A y \in T : ~(<<y, x>> \in R)
  BY <1>2, <1>3, WFMin
<1>5. \A y \in T : ~(y < x)
  BY <1>3, <1>4 DEF R
<1>6. x \in Nat /\ x # 0 /\ x - 1 \in Nat /\ (x - 1) + 1 = x
  BY <1>3 DEF T
<1>7. x - 1 \in T
  BY <1>3, <1>6 DEF T
<1> QED BY <1>5, <1>6, <1>7

\* The partial sums of a count: sum[W] is what the warps of W hold.
Some(W) == CHOOSE w \in W : TRUE
Sums(count, sum) ==
  [W \in SUBSET Warps |-> IF W = {} THEN 0 ELSE count[Some(W)] + sum[W \ {Some(W)}]]

LEMMA SmallerSet ==
  ASSUME NEW W \in SUBSET Warps, W # {}
  PROVE  /\ Some(W) \in W /\ W \ {Some(W)} \in SUBSET Warps
         /\ Cardinality(W) \in Nat /\ Cardinality(W \ {Some(W)}) = Cardinality(W) - 1
<1>1. Some(W) \in W
  BY DEF Some
<1>2. IsFiniteSet(W)
  BY WarpAssumption, FS_Subset
<1> QED BY <1>1, <1>2, FS_CardinalityType, FS_RemoveElement

LEMMA SumsExist ==
  ASSUME NEW count \in [Warps -> Nat]
  PROVE  \E sum \in [SUBSET Warps -> Nat] : sum = Sums(count, sum) /\ Held(count) = sum[Warps]
<1> DEFINE Upto(k, sum) ==
             /\ sum \in [SUBSET Warps -> Nat]
             /\ \A W \in SUBSET Warps : Cardinality(W) <= k => sum[W] = Sums(count, sum)[W]
           S == {k \in Nat : \E sum : Upto(k, sum)}
           N == Cardinality(Warps)
<1>1. N \in Nat /\ \A W \in SUBSET Warps : Cardinality(W) \in Nat /\ Cardinality(W) <= N
  BY WarpAssumption, FS_CardinalityType, FS_Subset
<1>2. ASSUME NEW sum \in [SUBSET Warps -> Nat]
      PROVE  Sums(count, sum) \in [SUBSET Warps -> Nat]
  <2>1. ASSUME NEW W \in SUBSET Warps, W # {}
        PROVE  count[Some(W)] + sum[W \ {Some(W)}] \in Nat
    <3>1. Some(W) \in Warps /\ W \ {Some(W)} \in SUBSET Warps
      BY <2>1, SmallerSet
    <3>2. count[Some(W)] \in Nat /\ sum[W \ {Some(W)}] \in Nat
      BY <3>1
    <3> QED BY <3>2
  <2> QED BY <2>1 DEF Sums
<1>3. 0 \in S
  <2> DEFINE sum == [W \in SUBSET Warps |-> 0]
  <2>1. ASSUME NEW W \in SUBSET Warps, Cardinality(W) <= 0 PROVE W = {}
    <3>1. IsFiniteSet(W) /\ Cardinality(W) = 0
      BY <1>1, <2>1, WarpAssumption, FS_Subset
    <3> QED BY <3>1, FS_EmptySet
  <2>2. \A W \in SUBSET Warps : W = {} => sum[W] = Sums(count, sum)[W]
    BY DEF Sums
  <2>3. Upto(0, sum)
    BY <2>1, <2>2
  <2> QED BY <2>3
<1>4. ASSUME NEW k \in Nat, k \in S PROVE k + 1 \in S
  <2>1. PICK sum : Upto(k, sum)
    BY <1>4
  <2> DEFINE next == Sums(count, sum)
  <2>2. next \in [SUBSET Warps -> Nat]
    BY <1>2, <2>1
  <2>3. ASSUME NEW W \in SUBSET Warps, Cardinality(W) <= k + 1
        PROVE  next[W] = Sums(count, next)[W]
    <3>1. CASE W = {}
      BY <3>1 DEF Sums
    <3>2. CASE W # {}
      <4>1. /\ W \ {Some(W)} \in SUBSET Warps
            /\ Cardinality(W \ {Some(W)}) <= k
        BY <2>3, <3>2, SmallerSet
      <4>2. sum[W \ {Some(W)}] = next[W \ {Some(W)}]
        BY <2>1, <4>1
      <4> HIDE DEF next
      <4>3. next[W] = count[Some(W)] + sum[W \ {Some(W)}]
        BY <3>2 DEF next, Sums
      <4>4. Sums(count, next)[W] = count[Some(W)] + next[W \ {Some(W)}]
        BY <3>2 DEF Sums
      <4> QED BY <4>2, <4>3, <4>4
    <3> QED BY <3>1, <3>2
  <2>4. Upto(k + 1, next)
    BY <2>2, <2>3
  <2> QED BY <2>4
<1>5. N \in S
  <2> HIDE DEF S
  <2> QED BY <1>1, <1>3, <1>4, Inductive
<1>6. PICK sum : Upto(N, sum)
  BY <1>5
<1>7. sum = Sums(count, sum)
  <2>1. Sums(count, sum) \in [SUBSET Warps -> Nat]
    BY <1>2, <1>6
  <2>2. \A W \in SUBSET Warps : sum[W] = Sums(count, sum)[W]
    BY <1>1, <1>6
  <2> QED BY <1>6, <2>1, <2>2
<1> DEFINE any == CHOOSE s : s = Sums(count, s)
<1>8. Held(count) = any[Warps]
  BY DEF Held, FoldFunctionOnSet, MapThenFoldSet, Sums, Some
<1>9. any = Sums(count, any)
  BY <1>7
<1> HIDE DEF any
<1>10. any \in [SUBSET Warps -> Nat]
  <2> DEFINE T == {k \in Nat : \A W \in SUBSET Warps : Cardinality(W) = k => any[W] \in Nat}
  <2>1. 0 \in T
    <3>1. \A W \in SUBSET Warps : Cardinality(W) = 0 => W = {}
      BY WarpAssumption, FS_Subset, FS_EmptySet
    <3>2. any[{}] = 0
      BY <1>9 DEF Sums
    <3> QED BY <3>1, <3>2
  <2>2. ASSUME NEW k \in Nat, k \in T PROVE k + 1 \in T
    <3> SUFFICES ASSUME NEW W \in SUBSET Warps, Cardinality(W) = k + 1 PROVE any[W] \in Nat
      OBVIOUS
    <3>1. W # {}
      BY FS_EmptySet
    <3>2. /\ Some(W) \in Warps /\ W \ {Some(W)} \in SUBSET Warps
          /\ Cardinality(W \ {Some(W)}) = k
      BY <3>1, SmallerSet
    <3>3. any[W \ {Some(W)}] \in Nat /\ count[Some(W)] \in Nat
      BY <2>2, <3>2
    <3>4. any[W] = count[Some(W)] + any[W \ {Some(W)}]
      BY <1>9, <3>1 DEF Sums
    <3> QED BY <3>3, <3>4
  <2> HIDE DEF T
  <2>3. Nat \subseteq T
    BY <2>1, <2>2, Inductive
  <2>4. \A W \in SUBSET Warps : any[W] \in Nat
    BY <1>1, <2>3 DEF T
  <2> QED BY <1>9, <2>4 DEF Sums
<1> QED BY <1>8, <1>9, <1>10

\* Warps that each hold at most what they are to have hold together at least as
\* much less as any one of them does.
LEMMA HeldGrows ==
  ASSUME NEW low \in [Warps -> Nat], NEW high \in [Warps -> Nat],
         \A w \in Warps : low[w] <= high[w], NEW v \in Warps
  PROVE  Held(low) \in Nat /\ Held(high) \in Nat /\ high[v] - low[v] <= Held(high) - Held(low)
<1>1. PICK l \in [SUBSET Warps -> Nat] : l = Sums(low, l) /\ Held(low) = l[Warps]
  BY SumsExist
<1>2. PICK h \in [SUBSET Warps -> Nat] : h = Sums(high, h) /\ Held(high) = h[Warps]
  BY SumsExist
<1> DEFINE Less(W) == l[W] <= h[W] /\ (v \in W => high[v] - low[v] <= h[W] - l[W])
           S == {k \in Nat : \A W \in SUBSET Warps : Cardinality(W) = k => Less(W)}
<1>3. 0 \in S
  <2>1. \A W \in SUBSET Warps : Cardinality(W) = 0 => W = {}
    BY WarpAssumption, FS_Subset, FS_EmptySet
  <2>2. l[{}] = 0 /\ h[{}] = 0
    BY <1>1, <1>2 DEF Sums
  <2>3. Less({})
    BY <2>2
  <2> HIDE DEF Less
  <2> QED BY <2>1, <2>3
<1>4. ASSUME NEW k \in Nat, k \in S PROVE k + 1 \in S
  <2> SUFFICES ASSUME NEW W \in SUBSET Warps, Cardinality(W) = k + 1 PROVE Less(W)
    OBVIOUS
  <2>1. W # {}
    <3>1. Cardinality({}) = 0 /\ k + 1 # 0
      BY FS_EmptySet
    <3> HIDE DEF Less
    <3> QED BY <3>1
  <2> DEFINE x == Some(W)
             V == W \ {x}
  <2>2. x \in W /\ V \in SUBSET Warps /\ Cardinality(V) = k
    BY <2>1, SmallerSet
  <2>3. Less(V)
    BY <1>4, <2>2
  <2>4. l[W] = low[x] + l[V] /\ h[W] = high[x] + h[V]
    BY <1>1, <1>2, <2>1 DEF Sums
  <2>5. /\ low[x] \in Nat /\ high[x] \in Nat /\ low[x] <= high[x]
        /\ low[v] \in Nat /\ high[v] \in Nat /\ low[v] <= high[v]
        /\ l[V] \in Nat /\ h[V] \in Nat
    BY <2>2
  <2>6. v \in W => v = x \/ v \in V
    OBVIOUS
  <2> HIDE DEF x, V
  <2> QED BY <2>3, <2>4, <2>5, <2>6
<1>5. Cardinality(Warps) \in S
  <2> HIDE DEF S
  <2>1. Nat \subseteq S
    BY <1>3, <1>4, Inductive
  <2> QED BY <2>1, WarpAssumption, FS_CardinalityType
<1> QED BY <1>1, <1>2, <1>5

(***************************************************************************)
(* Types.                                                                  *)
(***************************************************************************)
LEMMA InitTypes == Init => TypeOK
<1> SUFFICES ASSUME Init PROVE TypeOK
  OBVIOUS
<1>1. Len(path) \in Nat
  BY PathLength DEF Init
<1> QED BY <1>1, StateAssumption, RegsAssumption DEF Init, TypeOK, Overwritten, IdleState, Waiting

LEMMA SetRegsTypes ==
  ASSUME TypeOK, NEW w \in Warps, NEW n \in Nat, SetRegs(w, n)
  PROVE  regs' \in [Warps -> Nat]
  BY DEF TypeOK, SetRegs
(***************************************************************************)
(* One warp's step leaves all warps between the barriers they are between. *)
(***************************************************************************)
OneStep == \E w \in Warps : Step(w) \/ Overwrite(w)

LEMMA SamePath ==
  ASSUME path' = path
  PROVE  /\ \A i : StatesFor(i)' = StatesFor(i)
         /\ ExitStates' = ExitStates
  BY DEF StatesFor, ExitStates

\* What every step leaves alone.
LEMMA StepFrame ==
  ASSUME TypeOK, OneStep
  PROVE  path' = path /\ round' = round /\ Len(path) \in Nat
<1>1. PICK w \in Warps : Step(w) \/ Overwrite(w)
  BY DEF OneStep
<1> QED BY <1>1, PathLength DEF TypeOK, Step, DefaultStep, WorkerStep, Header, Enter, Leave, Restore,
    StoreStates, StoreCaptures, SignalExit, Switch, LoadCaptures, Overwrite

LEMMA GatheringStep ==
  ASSUME TypeOK, OneStep, NEW r \in 0 .. Len(path), Gathering(r)
  PROVE  Gathering(r)'
<1>1. PICK w \in Warps : Step(w) \/ Overwrite(w)
  BY DEF OneStep
<1>2. /\ w \in Default => w \notin Workers /\ DefaultGathers(w, r)
      /\ w \notin Default => w \in Workers /\ WorkerGathers(w, r)
  BY <1>1, WarpAssumption DEF Gathering, Warps
<1>3. path' = path /\ round' = round /\ Len(path) \in Nat
  BY StepFrame
<1>4. /\ \A i : StatesFor(i)' = StatesFor(i)
      /\ ExitStates' = ExitStates
  BY <1>3, SamePath
<1>5. pc \in [Warps -> Places] /\ Default \subseteq Warps /\ Workers \subseteq Warps
  BY DEF TypeOK, Places, Warps
<1>6. pc[w] \in {"header", "restore", "code", "captures"}
  <2>1. pc[w] \in {"header", "restore", "code", "captures", "wait start", "wait exit"}
    BY <1>2 DEF DefaultGathers, WorkerGathers
  <2> QED BY <1>1, <2>1 DEF Step, DefaultStep, WorkerStep, Header, Enter, Leave, Restore,
    StoreStates, StoreCaptures, SignalExit, Switch, LoadCaptures, Overwrite
<1>7. \/ Header(w) \/ Restore(w)
      \/ w \in Default /\ (StoreStates(w) \/ StoreCaptures(w) \/ SignalExit(w))
  BY <1>1, <1>6 DEF Step, DefaultStep, WorkerStep, Enter, Leave, Switch, LoadCaptures, Overwrite
<1>8. job' = job
  BY <1>7 DEF Header, Restore, StoreStates, StoreCaptures, SignalExit
<1>9. ASSUME NEW d \in Default
      PROVE  DefaultGathers(d, r)'
  <2> DefaultGathers(d, r)
    BY DEF Gathering
  <2>1. CASE Header(w)
    BY <1>2, <1>3, <1>4, <1>5, <2>1 DEF DefaultGathers, Header, Goto
  <2>2. CASE Restore(w)
    BY <1>2, <1>3, <1>4, <1>5, <2>2 DEF DefaultGathers, Restore, Goto
  <2>3. CASE w \in Default /\ StoreStates(w)
    <3>1. state' = StatesFor(r + 1) /\ r < Len(path) /\ capt' = capt
      BY <1>2, <2>3 DEF DefaultGathers, StoreStates
    <3>2. StatesFor(r + 1)' = StatesFor(r + 1)
      BY <1>4
    <3>3. pc'[d] = pc[d] \/ pc'[d] = "captures"
      BY <1>5, <2>3 DEF StoreStates, Goto
    <3>4. pc[d] # "wait exit"
      BY <1>3, <3>1, Rounds DEF DefaultGathers
    <3>5. pc'[d] \notin {"wait start", "wait exit"} \/ (pc'[d] = "wait start" /\ pc[d] = "wait start")
      BY <3>3, <3>4
    <3> QED BY <1>3, <3>1, <3>2, <3>3, <3>5 DEF DefaultGathers
  <2>4. CASE w \in Default /\ StoreCaptures(w)
    BY <1>2, <1>3, <1>4, <1>5, <2>4 DEF DefaultGathers, StoreCaptures, Goto
  <2>5. CASE w \in Default /\ SignalExit(w)
    <3>1. state' = ExitStates /\ r = Len(path)
      BY <1>2, <2>5 DEF DefaultGathers, SignalExit
    <3>2. pc'[d] = pc[d] \/ pc'[d] = "wait exit"
      BY <1>5, <2>5 DEF SignalExit, Goto
    <3>3. pc[d] \notin {"captures", "wait start"}
      BY <1>3, <3>1, Rounds DEF DefaultGathers
    <3> QED BY <1>3, <1>4, <3>1, <3>2, <3>3 DEF DefaultGathers
  <2> QED BY <1>7, <2>1, <2>2, <2>3, <2>4, <2>5
<1>10. ASSUME NEW v \in Workers
       PROVE  WorkerGathers(v, r)'
  <2>1. WorkerGathers(v, r)
    BY DEF Gathering
  <2>2. pc'[v] = pc[v] \/ (pc'[v] = "wait start" \/ pc'[v] = "header")
    BY <1>2, <1>5, <1>7, <2>1, WarpAssumption DEF WorkerGathers, Header, Restore, StoreStates,
      StoreCaptures, SignalExit, Goto
  <2> QED BY <1>3, <1>8, <2>1, <2>2 DEF WorkerGathers
<1> QED BY <1>9, <1>10 DEF Gathering

LEMMA ForkingStep ==
  ASSUME TypeOK, OneStep, NEW r \in 0 .. Len(path), Forking(r)
  PROVE  Forking(r)'
<1>1. PICK w \in Warps : Step(w) \/ Overwrite(w)
  BY DEF OneStep
<1>2. /\ w \in Default => w \notin Workers /\ pc[w] \in {"enter", "wait captures"}
      /\ w \notin Default => w \in Workers /\ WorkerForks(w, r)
  BY <1>1, WarpAssumption DEF Forking, Warps
<1>3. path' = path /\ round' = round /\ Len(path) \in Nat /\ r + 1 \in 1 .. Len(path)
  BY StepFrame, Rounds DEF Forking
<1>4. \A i : StatesFor(i)' = StatesFor(i)
  BY <1>3, SamePath
<1>5. /\ pc \in [Warps -> Places] /\ job \in [Workers -> 0 .. Bytes - 1]
      /\ seen \in [Workers -> 0 .. Len(path)]
      /\ Default \subseteq Warps /\ Workers \subseteq Warps
  BY DEF TypeOK, Places, Warps
<1>6. Enter(w) \/ (w \in Workers /\ (Switch(w) \/ LoadCaptures(w)))
  <2>1. pc[w] \in {"load", "enter", "capture", "wait captures"}
    BY <1>2 DEF WorkerForks
  <2> QED BY <1>1, <2>1 DEF Step, DefaultStep, WorkerStep, Header, Leave, Restore, StoreStates,
    StoreCaptures, SignalExit, Overwrite
<1>7. state' = state /\ capt' = capt
  BY <1>6 DEF Enter, Switch, LoadCaptures
<1>8. ASSUME NEW d \in Default
      PROVE  round'[d] = r /\ pc'[d] \in {"enter", "wait captures"}
  <2>1. round[d] = r /\ pc[d] \in {"enter", "wait captures"}
    BY DEF Forking
  <2> QED BY <1>2, <1>3, <1>5, <1>6, <2>1, WarpAssumption DEF Enter, Switch, LoadCaptures, Goto
<1>9. ASSUME NEW v \in Workers
      PROVE  WorkerForks(v, r)'
  <2>1. WorkerForks(v, r)
    BY DEF Forking
  <2>2. CASE v # w
    <3>1. pc'[v] = pc[v] /\ job'[v] = job[v] /\ seen'[v] = seen[v]
      BY <1>5, <1>6, <2>2 DEF Enter, Switch, LoadCaptures, Goto
    <3> QED BY <1>3, <2>1, <3>1 DEF WorkerForks
  <2>3. CASE v = w /\ Enter(w)
    <3>1. pc'[v] = "capture" /\ job'[v] = job[v] /\ pc[v] = "enter"
      BY <1>2, <1>5, <2>3 DEF Enter, Goto
    <3> QED BY <1>3, <2>1, <3>1 DEF WorkerForks
  <2>4. CASE v = w /\ Switch(w)
    <3>1. state[v] = StateOf(path[r + 1], v)
      BY DEF Forking, StatesFor
    <3>2. state[v] # ExitState
      BY <1>3, <3>1, StateByte, PathOps DEF TypeOK
    <3>3. /\ job'[v] = state[v]
          /\ pc'[v] = IF IsPartition(state[v]) THEN "enter" ELSE "wait captures"
      BY <1>5, <2>4, <3>2 DEF Switch, Goto
    <3> QED BY <1>3, <3>1, <3>3 DEF WorkerForks
  <2>5. CASE v = w /\ LoadCaptures(w)
    <3>1. /\ pc[v] = "capture" /\ pc'[v] = "wait captures" /\ job'[v] = job[v]
          /\ seen'[v] = r + 1
      BY <1>5, <2>5 DEF LoadCaptures, Goto, Forking
    <3> QED BY <1>3, <2>1, <3>1 DEF WorkerForks
  <2> QED BY <1>6, <2>2, <2>3, <2>4, <2>5
<1> QED BY <1>3, <1>4, <1>7, <1>8, <1>9 DEF Forking

LEMMA RunningStep ==
  ASSUME TypeOK, OneStep, NEW r \in 0 .. Len(path), Running(r)
  PROVE  Running(r)'
<1> USE DEF Warps
<1>1. PICK w \in Warps : Step(w) \/ Overwrite(w)
  BY DEF OneStep
<1>2. Leave(w) \/ Overwrite(w)
  BY <1>1 DEF Running, Step, Header, Enter, Restore, DefaultStep, StoreStates, StoreCaptures,
    SignalExit, WorkerStep, Switch, LoadCaptures
<1>3. pc \in [Warps -> Places]
  BY DEF TypeOK, Places
<1> QED BY <1>1, <1>2, <1>3 DEF Running, Leave, Overwrite, Goto

LEMMA QuittingStep ==
  ASSUME TypeOK, OneStep, NEW r \in 0 .. Len(path), Quitting(r)
  PROVE  Quitting(r)'
<1> USE DEF Warps
<1>1. PICK w \in Warps : Step(w) \/ Overwrite(w)
  BY DEF OneStep
<1>2. w \in Workers /\ w \notin Default /\ Switch(w)
  BY <1>1, WarpAssumption DEF Quitting, Step, Header, Enter, Leave, Restore, DefaultStep, StoreStates,
    StoreCaptures, SignalExit, WorkerStep, LoadCaptures, Overwrite
<1>3. pc \in [Warps -> Places]
  BY DEF TypeOK, Places
<1>4. state[w] = ExitState /\ ~IsPartition(state[w])
  BY <1>2, ExitByte DEF Quitting, ExitStates
<1> QED BY <1>2, <1>3, <1>4 DEF Quitting, Switch, Goto

(***************************************************************************)
(* The barrier moves all warps on together.                                *)
(***************************************************************************)
LEMMA ReleaseGathering ==
  ASSUME TypeOK, Release, NEW r \in 0 .. Len(path), Gathering(r)
  PROVE  Forking(r)' \/ Quitting(r)'
<1>1. PICK lead \in Default : TRUE
  BY WarpAssumption
<1>2. path' = path /\ state' = state /\ capt' = capt /\ job' = job /\ seen' = seen
  BY DEF Release
<1>3. \A w \in Warps : pc[w] \in Waiting /\ pc'[w] = After(w)
  BY DEF Release
<1>4. Len(path) \in Nat /\ StatesFor(r + 1)' = StatesFor(r + 1) /\ ExitStates' = ExitStates
  BY <1>2, PathLength, SamePath DEF TypeOK
<1>5. ASSUME NEW w \in Workers
      PROVE  pc'[w] = "load"
  <2>1. pc[w] = "wait start"
    BY <1>3 DEF Gathering, WorkerGathers, Waiting, Warps
  <2> QED BY <1>3, <2>1, WarpAssumption DEF After, Warps
<1>6. ASSUME NEW d \in Default
      PROVE  /\ pc[d] = "wait start" \/ pc[d] = "wait exit"
             /\ DefaultGathers(d, r) /\ round'[d] = r
             /\ pc[d] = "wait start" => pc'[d] = "enter"
             /\ pc[d] = "wait exit" => pc'[d] = "done"
  <2>1. DefaultGathers(d, r) /\ d \in Warps
    BY DEF Gathering, Warps
  <2>2. pc[d] = "wait start" \/ pc[d] = "wait exit"
    BY <1>3, <2>1 DEF DefaultGathers, Waiting
  <2>3. round'[d] = r
    BY <2>1, <2>2 DEF Release, DefaultGathers
  <2> QED BY <1>3, <2>1, <2>2, <2>3 DEF After
<1>7. CASE pc[lead] = "wait start"
  <2>1. r < Len(path) /\ state = StatesFor(r + 1) /\ capt = r + 1
    BY <1>1, <1>6, <1>7 DEF DefaultGathers
  <2>2. \A d \in Default : round'[d] = r /\ pc'[d] = "enter"
    BY <1>4, <1>6, <2>1, Rounds DEF DefaultGathers
  <2>3. \A w \in Workers : WorkerForks(w, r)'
    BY <1>5 DEF WorkerForks
  <2> QED BY <1>2, <1>4, <2>1, <2>2, <2>3 DEF Forking
<1>8. CASE pc[lead] = "wait exit"
  <2>1. r = Len(path) /\ state = ExitStates
    BY <1>1, <1>6, <1>8 DEF DefaultGathers
  <2>2. \A d \in Default : round'[d] = r /\ pc'[d] = "done"
    BY <1>4, <1>6, <2>1, Rounds DEF DefaultGathers
  <2> QED BY <1>2, <1>4, <1>5, <2>1, <2>2 DEF Quitting
<1> QED BY <1>1, <1>6, <1>7, <1>8

LEMMA ReleaseForking ==
  ASSUME TypeOK, Release, NEW r \in 0 .. Len(path), Forking(r)
  PROVE  /\ r + 1 \in 1 .. Len(path) /\ Running(r + 1)'
         /\ \A w \in Warps : pc[w] = "wait captures" /\ pc'[w] = "region"
<1>1. path' = path /\ job' = job /\ seen' = seen
  BY DEF Release
<1>2. ASSUME NEW w \in Warps
      PROVE  pc[w] = "wait captures" /\ pc'[w] = "region"
  <2>1. pc[w] = "wait captures"
    BY DEF Release, Forking, WorkerForks, Waiting, Warps
  <2> QED BY <2>1 DEF Release, After
<1>3. \A d \in Default : round'[d] = r + 1
  BY <1>2 DEF Release, Forking, Warps
<1>4. ASSUME NEW w \in Workers
      PROVE  job[w] = StateOf(path[r + 1], w) /\ (IsPartition(job[w]) => seen[w] = r + 1)
  BY <1>2 DEF Forking, WorkerForks, Warps
<1>5. r + 1 \in 1 .. Len(path) /\ r + 1 > 0
  BY PathLength, Rounds DEF TypeOK, Forking
<1> QED BY <1>1, <1>2, <1>3, <1>4, <1>5 DEF Running

LEMMA ReleaseRunning ==
  ASSUME TypeOK, Release, NEW r \in 0 .. Len(path), Running(r)
  PROVE  /\ Gathering(r)'
         /\ \A w \in Warps : pc[w] = "wait end" /\ pc'[w] \in {"header", "restore"}
<1>1. path' = path /\ job' = job /\ seen' = seen
  BY DEF Release
<1>2. ASSUME NEW w \in Warps
      PROVE  /\ pc[w] = "wait end"
             /\ pc'[w] = IF w \in Workers /\ ~IsPartition(job[w]) THEN "header" ELSE "restore"
  <2>1. pc[w] = "wait end"
    BY DEF Release, Running, Waiting
  <2> QED BY <2>1 DEF Release, After
<1>3. ASSUME NEW d \in Default
      PROVE  DefaultGathers(d, r)'
  <2>1. round'[d] = r
    BY <1>2 DEF Release, Running, Warps
  <2> QED BY <1>2, <2>1, WarpAssumption DEF DefaultGathers, Running, Warps
<1>4. ASSUME NEW w \in Workers
      PROVE  WorkerGathers(w, r)'
  <2>1. r > 0 /\ job[w] = StateOf(path[r], w) /\ w \in Warps
    BY DEF Running, Warps
  <2> QED BY <1>1, <1>2, <2>1 DEF WorkerGathers
<1> QED BY <1>2, <1>3, <1>4 DEF Gathering

LEMMA ReleaseQuitting ==
  ASSUME Release, NEW r, Quitting(r)
  PROVE  FALSE
<1>1. PICK lead \in Default : TRUE
  BY WarpAssumption
<1> QED BY <1>1 DEF Release, Quitting, Waiting, Warps

\* One step, from zone to zone.
ZoneStep(r) == Zone(r)' \/ (r + 1 \in 0 .. Len(path) /\ Zone(r + 1)')

LEMMA ZonesPreserved ==
  ASSUME TypeOK, Next, NEW r \in 0 .. Len(path), Zone(r)
  PROVE  path' = path /\ ZoneStep(r)
<1>1. CASE OneStep
  <2>1. Gathering(r)' \/ Forking(r)' \/ Running(r)' \/ Quitting(r)'
    BY <1>1, GatheringStep, ForkingStep, RunningStep, QuittingStep DEF Zone
  <2> QED BY <1>1, <2>1, StepFrame DEF Zone, ZoneStep
<1>2. CASE Release
  <2>1. path' = path
    BY <1>2 DEF Release
  <2>2. CASE Gathering(r)
    BY <1>2, <2>1, <2>2, ReleaseGathering DEF Zone, ZoneStep
  <2>3. CASE Forking(r)
    <3>1. r + 1 \in 0 .. Len(path) /\ Running(r + 1)'
      BY <1>2, <2>3, ReleaseForking, PathLength, Rounds DEF TypeOK, Forking
    <3> QED BY <2>1, <3>1 DEF Zone, ZoneStep
  <2>4. CASE Running(r)
    BY <1>2, <2>1, <2>4, ReleaseRunning DEF Zone, ZoneStep
  <2> QED BY <1>2, <2>2, <2>3, <2>4, ReleaseQuitting DEF Zone
<1>3. CASE Terminated
  <2>1. UNCHANGED vars
    BY <1>3 DEF Terminated
  <2>2. Gathering(r)' \/ Forking(r)' \/ Running(r)' \/ Quitting(r)'
    BY <2>1 DEF Zone, Gathering, DefaultGathers, WorkerGathers, Forking, WorkerForks, Running,
      Quitting, StatesFor, ExitStates, vars
  <2> QED BY <2>1, <2>2 DEF Zone, ZoneStep, vars
<1> QED BY <1>1, <1>2, <1>3 DEF Next, OneStep

(***************************************************************************)
(* Registers.                                                              *)
(***************************************************************************)
LEMMA ZoneRound ==
  ASSUME NEW r, Zone(r), NEW d \in Default
  PROVE  round[d] = r
  BY DEF Zone, Gathering, DefaultGathers, Forking, Running, Quitting

\* The op a warp is about to enter, or is in, is the one the default warps are at.
LEMMA OpsOfZone ==
  ASSUME TypeOK, NEW r \in 0 .. Len(path), Zone(r), NEW w \in Warps
  PROVE  /\ pc[w] \in {"enter", "capture"}
              => /\ r + 1 \in 1 .. Len(path) /\ path[r + 1] \in Ops /\ NextOp(w) = path[r + 1]
                 /\ InPartition(w)
         /\ pc[w] = "restore"
              => /\ r \in 1 .. Len(path) /\ path[r] \in Ops /\ CurrentOp(w) = path[r]
                 /\ InPartition(w)
<1>1. Len(path) \in Nat
  BY PathLength DEF TypeOK
<1>2. w \in Default \/ (w \in Workers /\ w \notin Default)
  BY DEF Warps
<1>3. ASSUME pc[w] \in {"enter", "capture"}
      PROVE  /\ r + 1 \in 1 .. Len(path) /\ path[r + 1] \in Ops /\ NextOp(w) = path[r + 1]
             /\ InPartition(w)
  <2>1. Forking(r)
    BY <1>2, <1>3 DEF Zone, Gathering, DefaultGathers, WorkerGathers, Running, Quitting, Warps
  <2>2. r + 1 \in 1 .. Len(path)
    BY <1>1, <2>1, Rounds DEF Forking
  <2>3. path[r + 1] \in Ops
    BY <2>2, PathOps DEF TypeOK
  <2>4. CASE w \in Default
    BY <2>1, <2>2, <2>3, <2>4 DEF Forking, NextOp, InPartition
  <2>5. CASE w \in Workers /\ w \notin Default
    <3>1. job[w] = StateOf(path[r + 1], w) /\ IsPartition(job[w])
      BY <1>3, <2>1, <2>5 DEF Forking, WorkerForks
    <3> QED BY <2>2, <2>3, <2>5, <3>1, OpOfPartition DEF NextOp, InPartition
  <2> QED BY <1>2, <2>4, <2>5
<1>4. ASSUME pc[w] = "restore"
      PROVE  /\ r \in 1 .. Len(path) /\ path[r] \in Ops /\ CurrentOp(w) = path[r]
             /\ InPartition(w)
  <2>1. Gathering(r)
    BY <1>2, <1>4 DEF Zone, Forking, WorkerForks, Running, Quitting, Warps
  <2>2. r > 0
    BY <1>2, <1>4, <2>1 DEF Gathering, DefaultGathers, WorkerGathers
  <2>3. r \in 1 .. Len(path)
    BY <1>1, <2>2, Rounds
  <2>4. path[r] \in Ops
    BY <2>3, PathOps DEF TypeOK
  <2>5. CASE w \in Default
    BY <2>1, <2>3, <2>4, <2>5 DEF Gathering, DefaultGathers, CurrentOp, InPartition
  <2>6. CASE w \in Workers /\ w \notin Default
    <3>1. job[w] = StateOf(path[r], w) /\ IsPartition(job[w])
      BY <1>4, <2>1, <2>6 DEF Gathering, WorkerGathers
    <3> QED BY <2>3, <2>4, <2>6, <3>1, OpOfPartition DEF CurrentOp, InPartition
  <2> QED BY <1>2, <2>5, <2>6
<1> QED BY <1>3, <1>4

LEMMA RegsFrame ==
  ASSUME NEW v \in Warps, RegsAt(v), path' = path, pc'[v] = pc[v], regs'[v] = regs[v],
         round' = round, v \notin Default => job'[v] = job[v]
  PROVE  RegsAt(v)'
  BY DEF RegsAt, InPartition, RegionRegs, NextOp, CurrentOp

LEMMA RegionRegsSet ==
  ASSUME TypeOK, NEW w \in Warps, NEW o \in Ops, SetRegionRegs(w, o, ActRegs[o][w]),
         regs[w] = HeaderRegs[w]
  PROVE  regs' \in [Warps -> Nat] /\ regs'[w] = RegionRegs(w, o)
  BY RegsAssumption DEF SetRegionRegs, SetRegs, RegionRegs, TypeOK

LEMMA RegionRegsReset ==
  ASSUME TypeOK, NEW w \in Warps, NEW o \in Ops, SetRegionRegs(w, o, HeaderRegs[w]),
         regs[w] = RegionRegs(w, o)
  PROVE  regs' \in [Warps -> Nat] /\ regs'[w] = HeaderRegs[w]
  BY RegsAssumption DEF SetRegionRegs, SetRegs, RegionRegs, TypeOK

LEMMA RegsStep ==
  ASSUME TypeOK, OneStep, RegsByPlace, NEW r \in 0 .. Len(path), Zone(r)
  PROVE  RegsByPlace' /\ regs' \in [Warps -> Nat]
<1>1. PICK w \in Warps : Step(w) \/ Overwrite(w)
  BY DEF OneStep
<1>2. path' = path /\ round' = round
  BY StepFrame
<1>3. /\ pc \in [Warps -> Places] /\ job \in [Workers -> 0 .. Bytes - 1]
      /\ regs \in [Warps -> Nat] /\ Default \subseteq Warps /\ Workers \subseteq Warps
      /\ w \notin Default => w \in Workers
  BY DEF TypeOK, Places, Warps
<1>4. RegsAt(w)
  BY DEF RegsByPlace
<1>5. ASSUME NEW v \in Warps, v # w
      PROVE  RegsAt(v)'
  <2>1. pc'[v] = pc[v]
    BY <1>1, <1>3, <1>5 DEF Step, DefaultStep, WorkerStep, Header, Enter, Leave, Restore, StoreStates,
      StoreCaptures, SignalExit, Switch, LoadCaptures, Overwrite, Goto
  <2>2. job' = job \/ job' = [job EXCEPT ![w] = state[w]]
    BY <1>1 DEF Step, DefaultStep, WorkerStep, Header, Enter, Leave, Restore, StoreStates,
      StoreCaptures, SignalExit, Switch, LoadCaptures, Overwrite
  <2>3. v \notin Default => job'[v] = job[v]
    BY <1>3, <1>5, <2>2 DEF Warps
  <2>4. regs'[v] = regs[v]
    BY <1>1, <1>3, <1>5 DEF Step, DefaultStep, WorkerStep, Header, Enter, Leave, Restore, StoreStates,
      StoreCaptures, SignalExit, Switch, LoadCaptures, Overwrite, SetRegionRegs, SetRegs
  <2>5. RegsAt(v)
    BY DEF RegsByPlace
  <2> QED BY <1>2, <2>1, <2>3, <2>4, <2>5, RegsFrame
<1>6. CASE Header(w)
  <2>1. HeaderRegs[w] \in Nat
    BY RegsAssumption
  <2>2. regs' \in [Warps -> Nat] /\ regs'[w] = HeaderRegs[w]
    BY <1>3, <1>6, <2>1 DEF Header, SetRegs
  <2>3. pc'[w] \in {"code", "wait start"}
    BY <1>3, <1>6 DEF Header, Goto
  <2>4. RegsAt(w)'
    BY <2>2, <2>3 DEF RegsAt
  <2> QED BY <1>5, <2>2, <2>4 DEF RegsByPlace
<1>7. CASE Enter(w)
  <2>1. pc[w] = "enter" /\ regs[w] = HeaderRegs[w]
    BY <1>4, <1>7 DEF Enter, RegsAt
  <2>2. NextOp(w) \in Ops /\ InPartition(w)
    BY <2>1, OpsOfZone
  <2>3. regs' \in [Warps -> Nat] /\ regs'[w] = RegionRegs(w, NextOp(w))
    BY <1>7, <2>1, <2>2, RegionRegsSet DEF Enter
  <2>4. pc'[w] \in {"wait captures", "capture"} /\ job' = job
    BY <1>3, <1>7 DEF Enter, Goto
  <2>5. RegsAt(w)'
    BY <1>2, <2>2, <2>3, <2>4 DEF RegsAt, RegionRegs, NextOp, InPartition
  <2> QED BY <1>5, <2>3, <2>5 DEF RegsByPlace
<1>8. CASE Restore(w)
  <2>1. pc[w] = "restore"
    BY <1>8 DEF Restore
  <2>2. CurrentOp(w) \in Ops /\ InPartition(w)
    BY <2>1, OpsOfZone
  <2>3. regs[w] = RegionRegs(w, CurrentOp(w))
    BY <1>4, <2>1, <2>2 DEF RegsAt
  <2>4. regs' \in [Warps -> Nat] /\ regs'[w] = HeaderRegs[w]
    BY <1>8, <2>2, <2>3, RegionRegsReset DEF Restore
  <2>5. pc'[w] \in {"code", "header"}
    BY <1>3, <1>8 DEF Restore, Goto
  <2>6. r > 0 /\ \A d \in Default : round[d] = r
    BY <2>1, OpsOfZone, ZoneRound
  <2>7. ~\A d \in Default : round'[d] = 0
    BY <1>2, <2>6, WarpAssumption
  <2>8. RegsAt(w)'
    BY <2>4, <2>5, <2>7 DEF RegsAt
  <2> QED BY <1>5, <2>4, <2>8 DEF RegsByPlace
<1>9. CASE \/ w \in Default /\ (StoreStates(w) \/ StoreCaptures(w) \/ SignalExit(w))
           \/ w \in Workers /\ LoadCaptures(w)
           \/ Leave(w) \/ Overwrite(w)
  <2>1. regs' = regs /\ job' = job
    BY <1>9 DEF StoreStates, StoreCaptures, SignalExit, LoadCaptures, Leave, Overwrite
  <2>2. \/ /\ pc[w] \in {"code", "captures"}
           /\ pc'[w] \in {"captures", "wait start", "wait exit"}
        \/ pc[w] = "capture" /\ pc'[w] = "wait captures"
        \/ pc[w] = "region" /\ pc'[w] \in {"region", "wait end"}
    BY <1>3, <1>9 DEF StoreStates, StoreCaptures, SignalExit, LoadCaptures, Leave, Overwrite, Goto
  <2>3. pc[w] = "capture" => InPartition(w)
    BY OpsOfZone
  <2>4. RegsAt(w)'
    BY <1>2, <1>4, <2>1, <2>2, <2>3 DEF RegsAt, InPartition, RegionRegs, NextOp, CurrentOp
  <2> QED BY <1>3, <1>5, <2>1, <2>4 DEF RegsByPlace
<1>10. CASE w \in Workers /\ Switch(w)
  <2>1. regs' = regs /\ job'[w] = state[w] /\ pc[w] = "load"
    BY <1>3, <1>10 DEF Switch
  <2>2. pc'[w] = IF IsPartition(job'[w]) THEN "enter"
                 ELSE IF job'[w] = ExitState THEN "done" ELSE "wait captures"
    BY <1>3, <1>10, <2>1 DEF Switch, Goto
  <2>3. w \notin Default
    BY <1>10, WarpAssumption
  <2>4. RegsAt(w)'
    BY <1>4, <2>1, <2>2, <2>3 DEF RegsAt, InPartition
  <2> QED BY <1>3, <1>5, <2>1, <2>4 DEF RegsByPlace
<1> QED BY <1>1, <1>6, <1>7, <1>8, <1>9, <1>10 DEF Step, DefaultStep, WorkerStep

LEMMA RegsRelease ==
  ASSUME TypeOK, Release, RegsByPlace, NEW r \in 0 .. Len(path), Zone(r)
  PROVE  RegsByPlace'
<1> SUFFICES ASSUME NEW w \in Warps PROVE RegsAt(w)'
  BY DEF RegsByPlace
<1>1. RegsAt(w) /\ pc[w] \in Waiting /\ pc'[w] = After(w)
  BY DEF RegsByPlace, Release
<1>2. path' = path /\ job' = job /\ regs' = regs
  BY DEF Release
<1>3. w \in Default =>
        round'[w] = IF pc[w] = "wait captures" THEN round[w] + 1 ELSE round[w]
  BY DEF Release
<1>4. CASE pc[w] = "wait start"
  BY <1>1, <1>2, <1>4 DEF RegsAt, After
<1>5. CASE pc[w] = "wait captures"
  <2>1. pc'[w] = "region" /\ (w \in Default => round'[w] = round[w] + 1)
    BY <1>1, <1>3, <1>5 DEF After
  <2> QED BY <1>1, <1>2, <1>5, <2>1 DEF RegsAt, InPartition, RegionRegs, NextOp, CurrentOp
<1>6. CASE pc[w] = "wait end"
  <2>1. /\ pc'[w] = IF InPartition(w) THEN "restore" ELSE "header"
        /\ w \in Default => round'[w] = round[w]
    BY <1>1, <1>3, <1>6, WarpAssumption DEF After, InPartition, Warps
  <2>2. ~\A d \in Default : round'[d] = 0
    <3>1. Running(r)
      BY <1>6 DEF Zone, Gathering, DefaultGathers, WorkerGathers, Forking, WorkerForks, Quitting, Warps
    <3>2. PICK d \in Default : TRUE
      BY WarpAssumption
    <3>3. d \in Warps /\ pc[d] \in {"region", "wait end"} /\ round[d] = r /\ r > 0
      BY <3>1, <3>2 DEF Running, Warps
    <3>4. round'[d] = r
      BY <3>2, <3>3 DEF Release
    <3>5. r # 0
      <4>1. Len(path) \in Nat
        BY PathLength DEF TypeOK
      <4>2. r \in Nat
        BY <4>1
      <4>3. r > 0
        BY <3>1, Zenon DEF Running
      <4> QED BY <4>2, <4>3
    <3> QED BY <3>2, <3>4, <3>5
  <2> QED BY <1>1, <1>2, <1>6, <2>1, <2>2 DEF RegsAt, InPartition, RegionRegs, CurrentOp
<1>7. CASE pc[w] = "wait exit"
  BY <1>1, <1>7 DEF RegsAt, After
<1> QED BY <1>1, <1>4, <1>5, <1>6, <1>7 DEF Waiting

(***************************************************************************)
(* Type correctness of a step.                                             *)
(***************************************************************************)
LEMMA StatesTypes ==
  ASSUME NEW p \in Paths, NEW i \in 1 .. Len(p)
  PROVE  [w \in Workers |-> StateOf(p[i], w)] \in [Workers -> 0 .. Bytes - 1]
<1>1. p[i] \in Ops
  BY PathOps
<1> QED BY <1>1, StateByte

LEMMA TypesStep ==
  ASSUME TypeOK, OneStep, NEW r \in 0 .. Len(path), Zone(r), regs' \in [Warps -> Nat]
  PROVE  TypeOK'
<1>1. PICK w \in Warps : Step(w) \/ Overwrite(w)
  BY DEF OneStep
<1>2. path' = path /\ round' = round /\ Len(path) \in Nat
  BY StepFrame
<1>3. pc' \in [Warps -> Places]
  BY <1>1 DEF TypeOK, Places, Waiting, Step, DefaultStep, WorkerStep, Header, Enter, Leave, Restore,
    StoreStates, StoreCaptures, SignalExit, Switch, LoadCaptures, Overwrite, Goto
<1>4. state' \in [Workers -> 0 .. Bytes - 1]
  <2>1. CASE w \in Default /\ StoreStates(w)
    <3>1. round[w] + 1 \in 1 .. Len(path)
      BY <1>2, <2>1, Rounds DEF StoreStates, TypeOK
    <3>2. StatesFor(round[w] + 1) \in [Workers -> 0 .. Bytes - 1]
      BY <3>1, StatesTypes DEF StatesFor, TypeOK
    <3> QED BY <2>1, <3>2 DEF StoreStates
  <2>2. CASE w \in Default /\ SignalExit(w)
    BY <2>2, ExitByte DEF SignalExit, ExitStates
  <2>3. CASE state' = state
    BY <2>3 DEF TypeOK
  <2> QED BY <1>1, <2>1, <2>2, <2>3 DEF Step, DefaultStep, WorkerStep, Header, Enter, Leave, Restore,
    StoreCaptures, Switch, LoadCaptures, Overwrite
<1>5. capt' \in 0 .. Len(path)
  <2>1. CASE w \in Default /\ StoreCaptures(w)
    <3>1. Gathering(r)
      BY <2>1, WarpAssumption DEF Zone, Forking, Running, Quitting, StoreCaptures, Warps
    <3>2. round[w] = r /\ r < Len(path)
      BY <2>1, <3>1 DEF Gathering, DefaultGathers, StoreCaptures
    <3>3. r + 1 \in 0 .. Len(path)
      BY <1>2, <3>2, Rounds
    <3> QED BY <2>1, <3>2, <3>3 DEF StoreCaptures
  <2>2. CASE Overwrite(w)
    BY <1>2, <2>2 DEF Overwrite, Overwritten
  <2>3. CASE capt' = capt
    BY <2>3 DEF TypeOK
  <2> QED BY <1>1, <2>1, <2>2, <2>3 DEF Step, DefaultStep, WorkerStep, Header, Enter, Leave, Restore,
    StoreStates, SignalExit, Switch, LoadCaptures
<1>6. job' \in [Workers -> 0 .. Bytes - 1] /\ seen' \in [Workers -> 0 .. Len(path)]
  <2>1. job' = job \/ (w \in Workers /\ job' = [job EXCEPT ![w] = state[w]])
    BY <1>1 DEF Step, DefaultStep, WorkerStep, Header, Enter, Leave, Restore,
      StoreStates, StoreCaptures, SignalExit, Switch, LoadCaptures, Overwrite
  <2>2. seen' = seen \/ seen' = [seen EXCEPT ![w] = capt]
    BY <1>1 DEF Step, DefaultStep, WorkerStep, Header, Enter, Leave, Restore,
      StoreStates, StoreCaptures, SignalExit, Switch, LoadCaptures, Overwrite
  <2> QED BY <2>1, <2>2 DEF TypeOK
<1>7. /\ path \in Paths /\ round \in [Default -> 0 .. Len(path)]
  BY DEF TypeOK
<1> QED BY <1>2, <1>3, <1>4, <1>5, <1>6, <1>7 DEF TypeOK, Places

LEMMA TypesRelease ==
  ASSUME TypeOK, Release, NEW r \in 0 .. Len(path), Zone(r)
  PROVE  TypeOK'
<1>1. path' = path /\ state' = state /\ capt' = capt /\ job' = job /\ seen' = seen /\ regs' = regs
  BY DEF Release
<1>2. pc' \in [Warps -> Places]
  <2>1. \A w \in Warps : After(w) \in Places
    BY DEF Release, After, Places, Waiting
  <2> QED BY <2>1 DEF Release
<1>3. round' \in [Default -> 0 .. Len(path)]
  <2>1. ASSUME NEW d \in Default
        PROVE  (IF pc[d] = "wait captures" THEN round[d] + 1 ELSE round[d]) \in 0 .. Len(path)
    <3>1. round[d] = r
      BY ZoneRound
    <3>2. CASE pc[d] = "wait captures"
      <4>1. Forking(r)
        BY <3>2 DEF Zone, Gathering, DefaultGathers, Running, Quitting, Warps
      <4>2. r + 1 \in 0 .. Len(path)
        BY <4>1, PathLength, Rounds DEF Forking, TypeOK
      <4> QED BY <3>1, <3>2, <4>2
    <3> QED BY <3>1, <3>2
  <2> QED BY <2>1 DEF Release
<1> QED BY <1>1, <1>2, <1>3 DEF TypeOK, Places

(***************************************************************************)
(* The inductive invariant.                                                *)
(***************************************************************************)
LEMMA InitInv == Init => IInv
<1> SUFFICES ASSUME Init PROVE IInv
  OBVIOUS
<1>1. TypeOK
  BY InitTypes
<1>2. RegsByPlace
  BY DEF Init, RegsByPlace, RegsAt
<1>3. 0 \in 0 .. Len(path)
  BY <1>1, PathLength DEF TypeOK
<1>4. Gathering(0)
  BY DEF Init, Gathering, DefaultGathers, WorkerGathers, Warps
<1> QED BY <1>1, <1>2, <1>3, <1>4 DEF IInv, Zone

LEMMA NextInv == IInv /\ [Next]_vars => IInv'
<1> SUFFICES ASSUME IInv, [Next]_vars PROVE IInv'
  OBVIOUS
<1>1. TypeOK /\ RegsByPlace
  BY DEF IInv
<1>2. PICK r \in 0 .. Len(path) : Zone(r)
  BY DEF IInv
<1>3. CASE Next
  <2>1. path' = path /\ ZoneStep(r)
    BY <1>1, <1>2, <1>3, ZonesPreserved
  <2>2. \E q \in 0 .. Len(path') : Zone(q)'
    <3> USE <2>1
    <3>1. CASE Zone(r)'
      <4> WITNESS r \in 0 .. Len(path')
      <4> QED BY <3>1
    <3>2. CASE r + 1 \in 0 .. Len(path) /\ Zone(r + 1)'
      <4> USE <3>2
      <4> WITNESS r + 1 \in 0 .. Len(path')
      <4> QED BY <3>2
    <3> QED BY <2>1, <3>1, <3>2 DEF ZoneStep
  <2>3. RegsByPlace' /\ TypeOK'
    <3>1. CASE OneStep
      BY <1>1, <1>2, <3>1, RegsStep, TypesStep
    <3>2. CASE Release
      BY <1>1, <1>2, <3>2, RegsRelease, TypesRelease
    <3>3. CASE Terminated
      BY <1>1, <3>3 DEF Terminated, vars, RegsByPlace, RegsAt, InPartition, RegionRegs, NextOp,
        CurrentOp, TypeOK
    <3> QED BY <1>3, <3>1, <3>2, <3>3 DEF Next, OneStep
  <2> QED BY <2>2, <2>3 DEF IInv
<1>4. CASE UNCHANGED vars
  <2>1. TypeOK' /\ path' = path
    BY <1>1, <1>4 DEF vars, TypeOK
  <2>2. RegsByPlace'
    BY <1>1, <1>4 DEF vars, RegsByPlace, RegsAt, InPartition, RegionRegs, NextOp, CurrentOp
  <2>3. Zone(r)'
    <3>1. Gathering(r) => Gathering(r)'
      BY <1>4 DEF vars, Gathering, DefaultGathers, WorkerGathers, StatesFor, ExitStates
    <3>2. Forking(r) => Forking(r)'
      BY <1>4 DEF vars, Forking, WorkerForks, StatesFor
    <3>3. Running(r) => Running(r)'
      BY <1>4 DEF vars, Running
    <3>4. Quitting(r) => Quitting(r)'
      BY <1>4 DEF vars, Quitting, ExitStates
    <3> QED BY <1>2, <3>1, <3>2, <3>3, <3>4 DEF Zone
  <2>4. \E q \in 0 .. Len(path') : Zone(q)'
    <3> USE <2>1
    <3> WITNESS r \in 0 .. Len(path')
    <3> QED BY <2>3
  <2> QED BY <2>1, <2>2, <2>4 DEF IInv
<1> QED BY <1>3, <1>4

\* The inductive invariant holds in every reachable state.
THEOREM InvariantHolds == Spec => []IInv
  BY InitInv, NextInv, PTL DEF Spec

\* Types: program counters, the bytes of the state array, rounds, registers.
THEOREM TypeCorrect == Spec => []TypeOK
<1>1. IInv => TypeOK
  BY DEF IInv
<1> QED BY <1>1, InvariantHolds, PTL

\* Whatever the kernel and however the warps interleave, a warp is in a region
\* only while all are in the regions of one op, each worker in the partition the
\* op gives it and on the captures of this execution of the op.
THEOREM RegionsAlwaysMatch == Spec => []RegionsMatch
<1>1. IInv => RegionsMatch
  <2> SUFFICES ASSUME IInv, NEW v \in Warps, pc[v] = "region", NEW d \in Default
               PROVE  /\ pc[d] \in {"region", "wait end"} /\ round[d] > 0
                      /\ \A w \in Workers :
                           /\ job[w] = StateOf(path[round[d]], w)
                           /\ IsPartition(job[w]) => seen[w] = round[d]
    BY DEF RegionsMatch
  <2>1. PICK r \in 0 .. Len(path) : Zone(r)
    BY DEF IInv
  <2>2. Running(r)
    BY <2>1 DEF Zone, Gathering, DefaultGathers, WorkerGathers, Forking, WorkerForks, Quitting, Warps
  <2> QED BY <2>2 DEF Running, Warps
<1> QED BY <1>1, InvariantHolds, PTL

\* No worker warp returns from the kernel before the default warps do.
THEOREM ExitAlwaysSignalled == Spec => []ExitIsSignalled
<1>1. IInv => ExitIsSignalled
  <2> SUFFICES ASSUME IInv, NEW w \in Workers, pc[w] = "done", NEW d \in Default
               PROVE  pc[d] = "done" /\ round[d] = Len(path)
    BY DEF ExitIsSignalled
  <2>1. PICK r \in 0 .. Len(path) : Zone(r)
    BY DEF IInv
  <2>2. Quitting(r)
    BY <2>1 DEF Zone, Gathering, WorkerGathers, Forking, WorkerForks, Running, Warps
  <2> QED BY <2>2 DEF Quitting
<1> QED BY <1>1, InvariantHolds, PTL

\* Every setmaxnreg finds the register count it was generated for, but for the
\* switch loop's, which from the second turn on finds the count it sets.
THEOREM RegsAlwaysAsGenerated == Spec => []RegsAsGenerated
<1>1. IInv => RegsAsGenerated
  <2> SUFFICES ASSUME IInv, NEW w \in Warps, pc[w] \in {"header", "enter", "restore"}
               PROVE  \/ regs[w] = Told(w)
                      \/ /\ pc[w] = "header" /\ w \in Workers /\ \A d \in Default : round[d] > 0
                         /\ regs[w] = Wanted(w)
    BY DEF RegsAsGenerated, Told, Wanted
  <2>1. PICK r \in 0 .. Len(path) : Zone(r)
    BY DEF IInv
  <2>2. TypeOK /\ RegsAt(w)
    BY DEF IInv, RegsByPlace
  <2>3. CASE pc[w] = "enter"
    BY <2>2, <2>3 DEF RegsAt, Told
  <2>4. CASE pc[w] = "restore"
    <3>1. InPartition(w)
      BY <2>1, <2>2, <2>4, OpsOfZone
    <3> QED BY <2>2, <2>4, <3>1 DEF RegsAt, Told
  <2>5. CASE pc[w] = "header"
    <3>1. Gathering(r)
      BY <2>1, <2>5 DEF Zone, Forking, WorkerForks, Running, Quitting, Warps
    <3>2. \A d \in Default : round[d] = r
      BY <3>1 DEF Gathering, DefaultGathers
    <3>3. CASE r = 0
      BY <2>2, <2>5, <3>2, <3>3 DEF RegsAt, Told
    <3>4. CASE r > 0
      <4>1. w \in Workers
        <5>1. \A d \in Default : pc[d] = "header" => r = 0
          BY <3>1 DEF Gathering, DefaultGathers
        <5>2. ~(r = 0)
          BY <3>4
        <5> QED BY <2>5, <5>1, <5>2 DEF Warps
      <4>2. \E d \in Default : round[d] # 0
        BY <3>2, <3>4, WarpAssumption
      <4>3. regs[w] = HeaderRegs[w]
        BY <2>2, <2>5, <4>2 DEF RegsAt
      <4> QED BY <2>5, <3>2, <3>4, <4>1, <4>3 DEF Wanted
    <3>5. r = 0 \/ r > 0
      OBVIOUS
    <3> QED BY <3>3, <3>4, <3>5
  <2> QED BY <2>3, <2>4, <2>5
<1> QED BY <1>1, InvariantHolds, PTL

(***************************************************************************)
(* Waiting for registers.                                                  *)
(***************************************************************************)
\* While every warp either has what it is to have or waits for it, the pool has
\* enough for any of those that wait.
LEMMA PoolServes ==
  ASSUME TypeOK, NEW target \in [Warps -> Nat], Held(target) <= Pool,
         \A w \in Warps : regs[w] <= target[w], NEW v \in Warps
  PROVE  Granted(v, target[v])
<1>1. /\ Held(regs) \in Nat /\ Held(target) \in Nat
      /\ target[v] - regs[v] <= Held(target) - Held(regs)
  BY HeldGrows DEF TypeOK
<1>2. Pool \in Nat
  <2>1. StartRegs \in Nat /\ Cardinality(Warps) \in Nat
    BY RegsAssumption, WarpAssumption, FS_CardinalityType
  <2> QED BY <2>1 DEF Pool
<1>3. regs[v] \in Nat /\ target[v] \in Nat
  BY DEF TypeOK
<1> QED BY <1>1, <1>2, <1>3 DEF Granted, Free

\* The kernel never stops for want of registers: whenever a warp waits for the
\* pool at a setmaxnreg, some warp can still go on, although the pool does not
\* say who releases and nobody waits for anybody by name.
THEOREM NeverStopsForRegisters == Spec => []NeverStuck
<1>1. IInv => NeverStuck
  <2> SUFFICES ASSUME IInv, ~Finished,
                      NEW s \in Warps, pc[s] \notin Waiting,
                      \A w \in Warps : pc[w] \notin Waiting \cup {"done"} => Starved(w)
               PROVE  FALSE
    BY DEF NeverStuck
  <2>1. TypeOK /\ RegsByPlace
    BY DEF IInv
  <2>2. PICK r \in 0 .. Len(path) : Zone(r)
    BY DEF IInv
  <2>3. PICK lead \in Default : TRUE
    BY WarpAssumption
  <2>4. /\ regs \in [Warps -> Nat] /\ HeaderRegs \in [Warps -> Nat] /\ StartRegs \in Nat
        /\ Default \subseteq Warps /\ Workers \subseteq Warps
    BY <2>1, RegsAssumption DEF TypeOK, Warps
  <2>5. \A w \in Warps : pc[w] \in Waiting \cup {"done", "header", "enter", "restore"}
    BY DEF Starved
  <2>6. CASE Gathering(r)
    <3>1. ASSUME NEW w \in Warps
          PROVE  /\ regs[w] <= HeaderRegs[w]
                 /\ pc[w] \notin Waiting => Starved(w) /\ Wanted(w) = HeaderRegs[w]
      <4>1. pc[w] \in {"header", "restore", "wait start", "wait exit"}
        BY <2>5, <2>6 DEF Gathering, DefaultGathers, WorkerGathers, Waiting, Warps
      <4>2. CASE pc[w] \in {"wait start", "wait exit"}
        <5>1. regs[w] = HeaderRegs[w]
          BY <2>1, <4>2 DEF RegsByPlace, RegsAt
        <5>2. HeaderRegs[w] \in Nat
          BY <2>4
        <5>3. regs[w] <= HeaderRegs[w]
          BY <5>1, <5>2
        <5>4. pc[w] \in Waiting
          BY <4>2 DEF Waiting
        <5> QED BY <5>3, <5>4
      <4>3. CASE pc[w] \in {"header", "restore"}
        <5>1. Starved(w) /\ Wanted(w) = HeaderRegs[w]
          BY <4>3 DEF Waiting, Wanted
        <5>2. regs[w] \in Nat /\ HeaderRegs[w] \in Nat /\ ~(HeaderRegs[w] <= regs[w])
          BY <2>4, <5>1 DEF Starved, Granted
        <5> QED BY <5>1, <5>2
      <4> QED BY <4>1, <4>2, <4>3
    <3>2. Granted(s, HeaderRegs[s])
      BY <2>1, <2>4, <3>1, PoolAssumption, PoolServes
    <3> QED BY <3>1, <3>2 DEF Starved
  <2>7. CASE Forking(r)
    <3> DEFINE o == path[r + 1]
               target == [w \in Warps |-> Count(w, o)]
    <3>1. r + 1 \in 1 .. Len(path) /\ o \in Ops
      BY <2>1, <2>7, PathLength, PathOps, Rounds DEF TypeOK, Forking
    <3>2. target \in [Warps -> Nat]
      BY <2>4, <3>1, RegsAssumption DEF Count
    <3>3. ASSUME NEW w \in Warps
          PROVE  /\ regs[w] <= Count(w, o)
                 /\ pc[w] \notin Waiting => Starved(w) /\ Wanted(w) = Count(w, o)
      <4>1. pc[w] \in {"enter", "wait captures"}
        BY <2>5, <2>7 DEF Forking, WorkerForks, Waiting, Warps
      <4>2. /\ w \in Default => NextOp(w) = o /\ w \notin Workers
            /\ w \in Workers => w \notin Default /\ job[w] = StateOf(o, w)
        BY <2>7, <4>1, WarpAssumption DEF NextOp, Forking, WorkerForks
      <4>3. ASSUME InPartition(w)
            PROVE  NextOp(w) = o /\ RegionRegs(w, o) = Count(w, o)
        <5>1. CASE w \in Default
          BY <4>2, <5>1 DEF RegionRegs, Count
        <5>2. CASE w \in Workers
          <6>1. OpOf(job[w]) = o /\ Partition[o][w] = job[w]
            BY <3>1, <4>2, <4>3, <5>2, OpOfPartition DEF InPartition
          <6>2. Partition[o][w] # NoPartition
            BY <4>2, <4>3, <5>2, <6>1, StateAssumption DEF InPartition, IsPartition
          <6> QED BY <4>2, <5>2, <6>1, <6>2 DEF NextOp, RegionRegs, Count
        <5> QED BY <5>1, <5>2 DEF Warps
      <4>4. ASSUME ~InPartition(w)
            PROVE  Count(w, o) = HeaderRegs[w]
        <5>1. w \in Workers /\ ~IsPartition(StateOf(o, w))
          BY <4>2, <4>4 DEF InPartition, Warps
        <5>2. Partition[o][w] = NoPartition
          BY <3>1, <5>1, StateAssumption DEF StateOf, IsPartition
        <5> QED BY <5>1, <5>2 DEF Count
      <4>5. RegsAt(w)
        BY <2>1 DEF RegsByPlace
      <4>6. CASE pc[w] = "wait captures"
        <5>1. regs[w] = Count(w, o)
          BY <4>3, <4>4, <4>5, <4>6 DEF RegsAt
        <5>2. Count(w, o) \in Nat
          BY <3>2
        <5>3. regs[w] <= Count(w, o)
          BY <5>1, <5>2
        <5>4. pc[w] \in Waiting
          BY <4>6 DEF Waiting
        <5> QED BY <5>3, <5>4
      <4>7. CASE pc[w] = "enter"
        <5>1. InPartition(w)
          BY <2>1, <2>2, <4>7, OpsOfZone
        <5>2. Starved(w) /\ Wanted(w) = Count(w, o)
          BY <4>3, <4>7, <5>1 DEF Wanted, Waiting
        <5>3. regs[w] \in Nat /\ Count(w, o) \in Nat /\ ~(Count(w, o) <= regs[w])
          BY <2>4, <3>2, <5>2 DEF Starved, Granted
        <5> QED BY <5>2, <5>3
      <4> QED BY <4>1, <4>6, <4>7
    <3>4. Held(target) <= Pool
      BY <3>1, PoolAssumption
    <3>5. \A w \in Warps : regs[w] <= target[w]
      BY <3>3
    <3>6. Granted(s, target[s])
      <4> HIDE DEF target
      <4> QED BY <2>1, <3>2, <3>4, <3>5, PoolServes
    <3> QED BY <3>3, <3>6 DEF Starved
  <2>8. CASE Running(r)
    BY <2>5, <2>8 DEF Running, Waiting
  <2>9. CASE Quitting(r)
    <3>1. \A w \in Warps : pc[w] = "done"
      BY <2>5, <2>9 DEF Quitting, Waiting, Warps
    <3> QED BY <3>1 DEF Finished
  <2> QED BY <2>2, <2>6, <2>7, <2>8, <2>9 DEF Zone
<1> QED BY <1>1, InvariantHolds, PTL

\* No warp writes shared memory that another may be reading: the state bytes
\* change only while no worker is at the switch, the captures' memory only while
\* no worker is between the switch and the second barrier.
THEOREM ReadsAreQuiet == Spec => QuietReads
<1>1. IInv /\ [Next]_vars =>
        [/\ state' # state => \A w \in Workers : pc[w] # "load"
         /\ capt' # capt => \A w \in Workers : pc[w] \notin {"load", "enter", "capture"}]_vars
  <2> SUFFICES ASSUME IInv, Next
               PROVE  /\ state' # state => \A w \in Workers : pc[w] # "load"
                      /\ capt' # capt => \A w \in Workers : pc[w] \notin {"load", "enter", "capture"}
    OBVIOUS
  <2>1. PICK r \in 0 .. Len(path) : Zone(r)
    BY DEF IInv
  <2>2. CASE OneStep
    <3>1. PICK v \in Warps : Step(v) \/ Overwrite(v)
      BY <2>2 DEF OneStep
    <3>2. CASE v \in Default /\ DefaultStep(v)
      <4>1. Gathering(r)
        BY <2>1, <3>2 DEF Zone, Forking, Running, Quitting, DefaultStep, StoreStates, StoreCaptures,
          SignalExit, Warps
      <4> QED BY <4>1 DEF Gathering, WorkerGathers
    <3>3. CASE Overwrite(v)
      <4>1. Running(r)
        BY <2>1, <3>1, <3>3 DEF Zone, Gathering, DefaultGathers, WorkerGathers, Forking, WorkerForks,
          Quitting, Overwrite, Warps
      <4> QED BY <4>1 DEF Running, Warps
    <3>4. CASE state' = state /\ capt' = capt
      BY <3>4
    <3> QED BY <3>1, <3>2, <3>3, <3>4 DEF Step, WorkerStep, Header, Enter, Leave, Restore, Switch,
      LoadCaptures
  <2>3. CASE Release \/ Terminated
    BY <2>3 DEF Release, Terminated, vars
  <2> QED BY <2>2, <2>3 DEF Next, OneStep
<1> QED BY <1>1, InvariantHolds, PTL DEF Spec, QuietReads

(***************************************************************************)
(* No way back.                                                            *)
(***************************************************************************)
LEMMA LeadIsDefault == Lead \in Default
  BY WarpAssumption DEF Lead

LEMMA Milestones ==
  /\ \A p \in Places : Milestone(p) \in 0 .. 11
  /\ Milestone("region") < Milestone("wait end")
  /\ Milestone("wait end") < Milestone("restore") /\ Milestone("wait end") < Milestone("header")
  /\ Milestone("restore") < Milestone("header") /\ Milestone("restore") < Milestone("code")
  /\ Milestone("header") < Milestone("code") /\ Milestone("header") < Milestone("wait start")
  /\ Milestone("code") < Milestone("captures") /\ Milestone("code") < Milestone("wait exit")
  /\ Milestone("captures") < Milestone("wait start")
  /\ Milestone("wait start") < Milestone("load") /\ Milestone("wait start") < Milestone("enter")
  /\ Milestone("wait exit") < Milestone("done")
  /\ Milestone("load") < Milestone("enter") /\ Milestone("load") < Milestone("wait captures")
  /\ Milestone("load") < Milestone("done")
  /\ Milestone("enter") < Milestone("capture") /\ Milestone("enter") < Milestone("wait captures")
  /\ Milestone("capture") < Milestone("wait captures")
  /\ Milestone("wait captures") < Milestone("region") + 12
  BY DEF Milestone, Places, Waiting

\* Positions by milestones, within an op and from one to the next.
LEMMA Forward ==
  ASSUME NEW a \in Nat, NEW i \in 0 .. 11, NEW j \in 0 .. 11
  PROVE  /\ i <= j => 12 * a + i <= 12 * a + j
         /\ i < j => 12 * a + i < 12 * a + j /\ 12 * a + i <= 12 * a + j
         /\ i < j + 12 => /\ 12 * a + i < 12 * (a + 1) + j
                          /\ 12 * a + i <= 12 * (a + 1) + j
  OBVIOUS

LEMMA PositionTypes ==
  ASSUME TypeOK, NEW w \in Warps
  PROVE  Position(w) \in Nat
<1>1. pc[w] \in Places /\ round[Lead] \in 0 .. Len(path)
  BY LeadIsDefault DEF TypeOK, Places
<1>2. Len(path) \in Nat
  BY PathLength DEF TypeOK
<1>3. round[Lead] \in Nat
  BY <1>1, <1>2
<1>4. Milestone(pc[w]) \in 0 .. 11
  BY <1>1, Milestones
<1> QED BY <1>3, <1>4 DEF Position

LEMMA StepForward ==
  ASSUME TypeOK, OneStep
  PROVE  /\ \A w \in Warps : Position(w) <= Position(w)'
         /\ pc' # pc => \E w \in Warps : Position(w) < Position(w)'
<1>1. PICK w \in Warps : Step(w) \/ Overwrite(w)
  BY DEF OneStep
<1>2. round' = round /\ round[Lead] \in Nat /\ pc \in [Warps -> Places]
  BY StepFrame, LeadIsDefault DEF TypeOK, Places
<1>3. pc' = pc \/ \E p \in Places : pc' = [pc EXCEPT ![w] = p] /\ Milestone(pc[w]) < Milestone(p)
  <2> DEFINE Goes == \E p \in Places :
               pc' = [pc EXCEPT ![w] = p] /\ Milestone(pc[w]) < Milestone(p)
  <2>1. \A p \in Places : Goto(w, p) /\ Milestone(pc[w]) < Milestone(p) => Goes
    BY DEF Goto
  <2> HIDE DEF Goes
  <2>2. Header(w) => Goes
    BY <2>1, Milestones DEF Header, Places, Waiting
  <2>3. StoreStates(w) => Goes
    BY <2>1, Milestones DEF StoreStates, Places, Waiting
  <2>4. StoreCaptures(w) => Goes
    BY <2>1, Milestones DEF StoreCaptures, Places, Waiting
  <2>5. SignalExit(w) => Goes
    BY <2>1, Milestones DEF SignalExit, Places, Waiting
  <2>6. Switch(w) => Goes
    BY <2>1, Milestones DEF Switch, Places, Waiting
  <2>7. Enter(w) => Goes
    BY <2>1, Milestones DEF Enter, Places, Waiting
  <2>8. LoadCaptures(w) => Goes
    BY <2>1, Milestones DEF LoadCaptures, Places, Waiting
  <2>9. Leave(w) => Goes
    BY <2>1, Milestones DEF Leave, Places, Waiting
  <2>10. Restore(w) => Goes
    BY <2>1, Milestones DEF Restore, Places, Waiting
  <2>11. Overwrite(w) => pc' = pc
    BY DEF Overwrite
  <2>12. Goes \/ pc' = pc
    BY <1>1, <2>2, <2>3, <2>4, <2>5, <2>6, <2>7, <2>8, <2>9, <2>10, <2>11
       DEF Step, DefaultStep, WorkerStep
  <2> QED BY <2>12 DEF Goes
<1>4. Lead' = Lead
  BY DEF Lead
<1>5. \A v \in Warps : Position(v) = 12 * round[Lead] + Milestone(pc[v])
                         /\ Position(v)' = 12 * round[Lead] + Milestone(pc'[v])
  BY <1>2, <1>4 DEF Position
<1>6. \A v \in Warps : Milestone(pc[v]) \in 0 .. 11
  BY <1>2, Milestones
<1>7. CASE pc' = pc
  <2>1. ASSUME NEW v \in Warps PROVE Position(v) <= Position(v)'
    <3>1. Milestone(pc[v]) \in 0 .. 11 /\ Position(v)' = 12 * round[Lead] + Milestone(pc[v])
      BY <1>5, <1>6, <1>7
    <3> HIDE DEF Milestone
    <3> QED BY <1>2, <1>5, <3>1
  <2> QED BY <1>7, <2>1
<1>8. CASE \E p \in Places : pc' = [pc EXCEPT ![w] = p] /\ Milestone(pc[w]) < Milestone(p)
  <2>1. PICK p \in Places : pc' = [pc EXCEPT ![w] = p] /\ Milestone(pc[w]) < Milestone(p)
    BY <1>8
  <2>2. Milestone(p) \in 0 .. 11
    BY Milestones
  <2>3. Position(w) < Position(w)'
    <3>1. pc'[w] = p
      BY <1>2, <2>1
    <3>2. Position(w) = 12 * round[Lead] + Milestone(pc[w])
      BY <1>5
    <3>3. Position(w)' = 12 * round[Lead] + Milestone(p)
      BY <1>5, <3>1
    <3> QED BY <1>2, <1>6, <2>1, <2>2, <3>2, <3>3, Forward
  <2>4. ASSUME NEW v \in Warps PROVE Position(v) <= Position(v)'
    <3>1. pc'[v] = IF v = w THEN p ELSE pc[v]
      BY <1>2, <2>1
    <3>2. (pc'[v] = p /\ v = w) \/ pc'[v] = pc[v]
      BY <3>1
    <3>3. Milestone(pc'[v]) \in 0 .. 11 /\ Milestone(pc[v]) <= Milestone(pc'[v])
      BY <1>6, <2>1, <2>2, <3>2
    <3> QED BY <1>2, <1>5, <1>6, <3>3, Forward
  <2> QED BY <2>3, <2>4
<1> QED BY <1>3, <1>7, <1>8

LEMMA ReleaseForward ==
  ASSUME TypeOK, Release, NEW r \in 0 .. Len(path), Zone(r), NEW w \in Warps
  PROVE  Position(w) < Position(w)' /\ Position(w) <= Position(w)'
<1>1. r \in Nat
  <2>1. Len(path) \in Nat
    BY PathLength DEF TypeOK
  <2> QED BY <2>1
<1>2. Lead' = Lead /\ Lead \in Default /\ Lead \in Warps /\ round[Lead] = r
  BY LeadIsDefault, ZoneRound DEF Lead, Warps
<1>3. pc[w] \in Waiting /\ pc'[w] = After(w)
  BY DEF Release
<1>4. Position(w) = 12 * r + Milestone(pc[w]) /\ Position(w)' = 12 * round'[Lead] + Milestone(pc'[w])
  BY <1>2 DEF Position
<1>5. pc[w] \in Places /\ Milestone(pc[w]) \in 0 .. 11
  BY <1>3, Milestones DEF Places
<1>6. CASE Forking(r)
  <2>1. pc[w] = "wait captures" /\ pc'[w] = "region" /\ pc[Lead] = "wait captures"
    BY <1>2, <1>6, ReleaseForking
  <2>2. round'[Lead] = r + 1
    BY <1>2, <2>1 DEF Release
  <2>3. "region" \in Places /\ Milestone("region") \in 0 .. 11
    BY Milestones DEF Places
  <2> QED BY <1>1, <1>4, <1>5, <2>1, <2>2, <2>3, Milestones, Forward
<1>7. CASE ~Forking(r)
  <2>1. pc[w] # "wait captures" /\ pc[Lead] # "wait captures"
    BY <1>2, <1>7 DEF Zone, Gathering, DefaultGathers, WorkerGathers, Running, Quitting, Warps
  <2>2. round'[Lead] = r
    BY <1>2, <2>1 DEF Release
  <2>3. /\ pc'[w] \in Places
        /\ Milestone(pc[w]) < Milestone(pc'[w])
    BY <1>3, <2>1, Milestones DEF After, Waiting, Places
  <2>4. Milestone(pc'[w]) \in 0 .. 11
    BY <2>3, Milestones
  <2> QED BY <1>1, <1>4, <1>5, <2>2, <2>3, <2>4, Forward
<1> QED BY <1>6, <1>7

\* The switch loop cannot spin: every step but the reuse of the captures' memory
\* brings some warp nearer to the end of the kernel and no step takes one further
\* from it. A warp has at most 12 milestones an op, so a run is finite.
THEOREM OnlyForward == Spec => MovesForward
<1>1. IInv /\ [Next]_vars
        => [/\ \A w \in Warps : Position(w) <= Position(w)'
            /\ pc' # pc => \E w \in Warps : Position(w) < Position(w)']_vars
  <2> SUFFICES ASSUME IInv, Next
               PROVE  /\ \A w \in Warps : Position(w) <= Position(w)'
                      /\ pc' # pc => \E w \in Warps : Position(w) < Position(w)'
    OBVIOUS
  <2>1. TypeOK
    BY DEF IInv
  <2>2. CASE OneStep
    BY <2>1, <2>2, StepForward
  <2>3. CASE Release
    <3>1. PICK r \in 0 .. Len(path) : Zone(r)
      BY DEF IInv
    <3>2. \A w \in Warps : Position(w) < Position(w)' /\ Position(w) <= Position(w)'
      BY <2>1, <2>3, <3>1, ReleaseForward
    <3>3. Lead \in Warps
      BY LeadIsDefault DEF Warps
    <3> QED BY <3>2, <3>3
  <2>4. CASE Terminated
    <3>1. UNCHANGED <<pc, round>>
      BY <2>4 DEF Terminated, vars
    <3>2. \A w \in Warps : Position(w)' = Position(w)
      BY <3>1 DEF Position, Lead
    <3>3. \A w \in Warps : Position(w) \in Nat
      BY <2>1, PositionTypes
    <3> QED BY <3>1, <3>2, <3>3
  <2> QED BY <2>2, <2>3, <2>4 DEF Next, OneStep
<1> QED BY <1>1, InvariantHolds, PTL DEF Spec, MovesForward

(***************************************************************************)
(* Refinement: the barrier protocol implements fork and join.              *)
(***************************************************************************)
LEMMA InitForkJoin == Init => ForkJoinSpec!Init
  BY LeadIsDefault DEF Init, ForkJoinSpec!Init, Stage, Lead, Warps

LEMMA PlanOfPath ==
  ASSUME TypeOK
  PROVE  /\ Len(Plan) = Len(path)
         /\ \A i \in 1 .. Len(path) : \A w \in Warps :
              Plan[i][w] = IF w \in Workers THEN StateOf(path[i], w) ELSE IdleState
<1>1. path \in Seq(Ops)
  BY PathAssumption DEF TypeOK
<1>2. DOMAIN path = 1 .. Len(path) /\ Len(path) \in Nat
  BY <1>1
<1>3. DOMAIN Plan = 1 .. Len(path) /\ Plan \in Seq([Warps -> 0 .. Bytes - 1] \cup {Plan[i] : i \in 1 .. Len(path)})
  BY <1>2 DEF Plan
<1> QED BY <1>2, <1>3 DEF Plan

LEMMA StageByPlace ==
  ASSUME NEW w
  PROVE  /\ pc[w] \notin {"region", "wait end", "done"} => Stage(w) = <<"out">>
         /\ pc[w] = "region" => Stage(w) = <<"in", IF w \in Workers THEN job[w] ELSE IdleState>>
         /\ pc[w] = "wait end" => Stage(w) = <<"left">>
         /\ pc[w] = "done" => Stage(w) = <<"gone">>
  BY DEF Stage

LEMMA StageByPlacePrimed ==
  ASSUME NEW w
  PROVE  /\ pc'[w] \notin {"region", "wait end", "done"} => Stage(w)' = <<"out">>
         /\ pc'[w] = "region" => Stage(w)' = <<"in", IF w \in Workers THEN job'[w] ELSE IdleState>>
         /\ pc'[w] = "wait end" => Stage(w)' = <<"left">>
         /\ pc'[w] = "done" => Stage(w)' = <<"gone">>
  BY DEF Stage

\* A step that changes no stage is a stutter of ForkJoin.
LEMMA StageStutter ==
  ASSUME path' = path, round'[Lead] = round[Lead], \A w \in Warps : Stage(w)' = Stage(w)
  PROVE  UNCHANGED ForkJoinSpec!vars
  BY DEF ForkJoinSpec!vars, Plan, StateOf, Lead

LEMMA PlanFrame == ASSUME path' = path PROVE Plan' = Plan
  BY DEF Plan, StateOf

LEMMA ReleaseForks ==
  ASSUME TypeOK, Release, NEW r \in 0 .. Len(path), Forking(r)
  PROVE  ForkJoinSpec!Fork
<1>1. path' = path /\ job' = job /\ Plan' = Plan
  BY PlanFrame DEF Release
<1>2. \A w \in Warps : pc[w] = "wait captures" /\ pc'[w] = "region"
  BY ReleaseForking
<1>3. r + 1 \in 1 .. Len(path) /\ r < Len(path)
  BY ReleaseForking DEF Forking
<1>4. round[Lead] = r /\ round'[Lead] = r + 1
  BY <1>2, LeadIsDefault DEF Forking, Release, Warps
<1>5. ASSUME NEW w \in Warps
      PROVE  Stage(w) = <<"out">> /\ Stage(w)' = <<"in", Plan[r + 1][w]>>
  <2>1. Stage(w) = <<"out">>
    BY <1>2, StageByPlace
  <2>2. Stage(w)' = <<"in", IF w \in Workers THEN job[w] ELSE IdleState>>
    BY <1>1, <1>2, StageByPlacePrimed
  <2>3. w \in Workers => job[w] = StateOf(path[r + 1], w)
    BY <1>2 DEF Forking, WorkerForks
  <2>4. Plan[r + 1][w] = IF w \in Workers THEN StateOf(path[r + 1], w) ELSE IdleState
    BY <1>3, PlanOfPath
  <2> QED BY <2>1, <2>2, <2>3, <2>4
<1>6. [w \in Warps |-> Stage(w)]' = [w \in Warps |-> <<"in", Plan[r + 1][w]>>]
  BY <1>5
<1>7. Len(Plan) = Len(path)
  BY PlanOfPath
<1> QED BY <1>1, <1>3, <1>4, <1>5, <1>6, <1>7 DEF ForkJoinSpec!Fork, ForkJoinSpec!All, Lead

LEMMA ReleaseJoins ==
  ASSUME TypeOK, Release, NEW r \in 0 .. Len(path), Running(r)
  PROVE  ForkJoinSpec!Join
<1>1. path' = path /\ Plan' = Plan
  BY PlanFrame DEF Release
<1>2. \A w \in Warps : pc[w] = "wait end" /\ pc'[w] \in {"header", "restore"}
  BY ReleaseRunning
<1>3. round'[Lead] = round[Lead]
  BY <1>2, LeadIsDefault DEF Release, Warps
<1>4. \A w \in Warps : Stage(w) = <<"left">> /\ Stage(w)' = <<"out">>
  BY <1>2, StageByPlace, StageByPlacePrimed
<1>5. [w \in Warps |-> Stage(w)]' = [w \in Warps |-> <<"out">>]
  BY <1>4
<1> QED BY <1>1, <1>3, <1>4, <1>5 DEF ForkJoinSpec!Join, ForkJoinSpec!All, Lead

\* The warps of W go, the others stay where they are.
LEMMA Quits ==
  ASSUME TypeOK, path' = path, round[Lead] = Len(path), round'[Lead] = round[Lead],
         \A w \in Warps : Stage(w) \in {<<"out">>, <<"gone">>},
         NEW W \in SUBSET Warps,
         \A w \in Warps : Stage(w)' = IF w \in W THEN <<"gone">> ELSE Stage(w)
  PROVE  ForkJoinSpec!Quit
<1>1. Plan' = Plan /\ Len(Plan) = Len(path)
  BY PlanFrame, PlanOfPath
<1>2. [w \in Warps |-> Stage(w)]'
        = [w \in Warps |-> IF w \in W THEN <<"gone">> ELSE [v \in Warps |-> Stage(v)][w]]
  OBVIOUS
<1> QED BY <1>1, <1>2 DEF ForkJoinSpec!Quit, Lead

LEMMA ReleaseGathers ==
  ASSUME TypeOK, Release, NEW r \in 0 .. Len(path), Gathering(r)
  PROVE  ForkJoinSpec!Quit \/ UNCHANGED ForkJoinSpec!vars
<1>1. path' = path
  BY DEF Release
<1>2. \A w \in Warps : pc[w] \in {"wait start", "wait exit"}
  BY DEF Release, Waiting, Gathering, DefaultGathers, WorkerGathers, Warps
<1>3. \A w \in Warps : Stage(w) = <<"out">>
  BY <1>2, StageByPlace
<1>4. round[Lead] = r /\ round'[Lead] = r
  BY <1>2, LeadIsDefault DEF Release, Gathering, DefaultGathers, Warps
<1>5. CASE Forking(r)'
  <2>1. \A w \in Warps : pc'[w] \notin {"region", "wait end", "done"}
    BY <1>5 DEF Forking, WorkerForks, Warps
  <2>2. \A w \in Warps : Stage(w)' = Stage(w)
    BY <1>3, <2>1, StageByPlacePrimed
  <2> QED BY <1>1, <1>4, <2>2, StageStutter
<1>6. CASE Quitting(r)'
  <2>1. \A w \in Default : pc'[w] = "done"
    BY <1>6 DEF Quitting
  <2>2. \A w \in Workers : pc'[w] = "load"
    BY <1>2, WarpAssumption DEF Release, After, Warps, Gathering, WorkerGathers
  <2>3. \A w \in Warps : Stage(w)' = IF w \in Default THEN <<"gone">> ELSE Stage(w)
    BY <1>3, <2>1, <2>2, StageByPlacePrimed DEF Warps
  <2>4. r = Len(path)
    BY <1>1, <1>6 DEF Quitting
  <2>5. Default \in SUBSET Warps
    BY DEF Warps
  <2> QED BY <1>1, <1>3, <1>4, <2>3, <2>4, <2>5, Quits
<1> QED BY <1>5, <1>6, ReleaseGathering

LEMMA StepForkJoin ==
  ASSUME TypeOK, OneStep, NEW r \in 0 .. Len(path), Zone(r)
  PROVE  ForkJoinSpec!Next \/ UNCHANGED ForkJoinSpec!vars
<1>1. PICK w \in Warps : Step(w) \/ Overwrite(w)
  BY DEF OneStep
<1>2. path' = path /\ round' = round
  BY StepFrame
<1>3. /\ pc \in [Warps -> Places] /\ job \in [Workers -> 0 .. Bytes - 1]
      /\ Default \subseteq Warps /\ Workers \subseteq Warps
  BY DEF TypeOK, Places, Warps
<1>4. ASSUME NEW v \in Warps, v # w
      PROVE  Stage(v)' = Stage(v)
  <2>1. pc'[v] = pc[v]
    BY <1>1, <1>3, <1>4 DEF Step, DefaultStep, WorkerStep, Header, Enter, Leave, Restore, StoreStates,
      StoreCaptures, SignalExit, Switch, LoadCaptures, Overwrite, Goto
  <2>2. job' = job \/ job' = [job EXCEPT ![w] = state[w]]
    BY <1>1 DEF Step, DefaultStep, WorkerStep, Header, Enter, Leave, Restore, StoreStates,
      StoreCaptures, SignalExit, Switch, LoadCaptures, Overwrite
  <2>3. v \in Workers => job'[v] = job[v]
    BY <1>3, <1>4, <2>2
  <2> QED BY <2>1, <2>3 DEF Stage
<1>5. CASE Leave(w)
  <2>1. pc[w] = "region" /\ pc'[w] = "wait end"
    BY <1>3, <1>5 DEF Leave, Goto
  <2>2. Stage(w)[1] = "in" /\ Stage(w)' = <<"left">>
    <3>1. Stage(w) = <<"in", IF w \in Workers THEN job[w] ELSE IdleState>>
      BY <2>1, StageByPlace
    <3>2. \A x : <<"in", x>>[1] = "in"
      OBVIOUS
    <3>3. Stage(w)[1] = "in"
      BY <3>1, <3>2
    <3> QED BY <2>1, <3>3, StageByPlacePrimed
  <2>3. [v \in Warps |-> Stage(v)]' = [[v \in Warps |-> Stage(v)] EXCEPT ![w] = <<"left">>]
    BY <1>4, <2>2
  <2>4. Plan' = Plan
    BY <1>2, PlanFrame
  <2>5. ForkJoinSpec!Leave(w)
    BY <1>1, <1>2, <2>2, <2>3, <2>4 DEF ForkJoinSpec!Leave
  <2> QED BY <1>1, <2>5 DEF ForkJoinSpec!Next
<1>6. CASE w \in Workers /\ Switch(w) /\ Quitting(r)
  <2>1. pc[w] = "load" /\ pc'[w] = "done"
    BY <1>3, <1>6, ExitByte DEF Switch, Goto, Quitting, ExitStates
  <2>2. Stage(w)' = <<"gone">>
    BY <2>1, StageByPlacePrimed
  <2>3. \A v \in Warps : Stage(v)' = IF v \in {w} THEN <<"gone">> ELSE Stage(v)
    BY <1>4, <2>2
  <2>4. \A v \in Warps : pc[v] \in {"load", "done"}
    BY <1>6 DEF Quitting, Warps
  <2>5. \A v \in Warps : Stage(v) \in {<<"out">>, <<"gone">>}
    BY <2>4, StageByPlace
  <2>6. round[Lead] = Len(path) /\ round'[Lead] = round[Lead]
    BY <1>2, <1>6, LeadIsDefault DEF Quitting
  <2>7. {w} \in SUBSET Warps
    BY <1>1
  <2>8. ForkJoinSpec!Quit
    BY <1>2, <2>3, <2>5, <2>6, <2>7, Quits
  <2> QED BY <2>8 DEF ForkJoinSpec!Next
<1>7. CASE w \in Workers /\ Switch(w) /\ ~Quitting(r)
  <2>1. Forking(r)
    BY <1>7 DEF Zone, Gathering, WorkerGathers, Running, Switch, Warps
  <2>2. Forking(r)'
    BY <2>1, ForkingStep
  <2>3. pc[w] = "load" /\ pc'[w] \notin {"region", "wait end", "done"}
    BY <1>7, <2>2 DEF Forking, WorkerForks, Switch
  <2>4. Stage(w)' = Stage(w)
    BY <2>3, StageByPlace, StageByPlacePrimed
  <2> QED BY <1>2, <1>4, <2>4, StageStutter
<1>8. CASE Overwrite(w)
  <2>1. Stage(w)' = Stage(w)
    BY <1>8 DEF Overwrite, Stage
  <2> QED BY <1>2, <1>4, <2>1, StageStutter
<1>9. CASE \/ Header(w) \/ Enter(w) \/ Restore(w)
           \/ w \in Default /\ DefaultStep(w)
           \/ w \in Workers /\ LoadCaptures(w)
  <2>1. /\ pc[w] \notin {"region", "wait end", "done"}
        /\ pc'[w] \notin {"region", "wait end", "done"}
    BY <1>1, <1>3, <1>9 DEF Header, Enter, Restore, DefaultStep, StoreStates, StoreCaptures,
      SignalExit, LoadCaptures, Goto
  <2>2. Stage(w)' = Stage(w)
    BY <2>1, StageByPlace, StageByPlacePrimed
  <2> QED BY <1>2, <1>4, <2>2, StageStutter
<1> QED BY <1>1, <1>5, <1>6, <1>7, <1>8, <1>9 DEF Step, WorkerStep

\* The generated code implements fork and join: the regions of an op start
\* together, each warp runs the one the op gives it, the next op starts when all
\* have ended, and the warps return only after the last.
THEOREM ForkJoinImplemented == Spec => ImplementsForkJoin
<1>1. Init => ForkJoinSpec!Init
  BY InitForkJoin
<1>2. IInv /\ [Next]_vars => [ForkJoinSpec!Next]_(ForkJoinSpec!vars)
  <2> SUFFICES ASSUME IInv, [Next]_vars
               PROVE  ForkJoinSpec!Next \/ UNCHANGED ForkJoinSpec!vars
    OBVIOUS
  <2>1. TypeOK
    BY DEF IInv
  <2>2. PICK r \in 0 .. Len(path) : Zone(r)
    BY DEF IInv
  <2>3. CASE OneStep
    BY <2>1, <2>2, <2>3, StepForkJoin
  <2>4. CASE Release
    <3>1. CASE Gathering(r)
      BY <2>1, <2>4, <3>1, ReleaseGathers DEF ForkJoinSpec!Next
    <3>2. CASE Forking(r)
      BY <2>1, <2>4, <3>2, ReleaseForks DEF ForkJoinSpec!Next
    <3>3. CASE Running(r)
      BY <2>1, <2>4, <3>3, ReleaseJoins DEF ForkJoinSpec!Next
    <3> QED BY <2>2, <2>4, <3>1, <3>2, <3>3, ReleaseQuitting DEF Zone
  <2>5. CASE UNCHANGED vars
    <3>1. \A w \in Warps : Stage(w)' = Stage(w)
      BY <2>5 DEF vars, Stage
    <3> QED BY <2>5, <3>1, StageStutter DEF vars
  <2> QED BY <2>3, <2>4, <2>5 DEF Next, OneStep, Terminated
<1> QED BY <1>1, <1>2, InvariantHolds, PTL DEF Spec, ImplementsForkJoin, ForkJoinSpec!Spec
=============================================================================
