------------------------------ MODULE ArefRing ------------------------------
(***************************************************************************)
(* An aref after NVWSAssignStagePhase and NVWSLowerAref: the protocol that *)
(* warp-specialized partitions run on one ring of buffers, with a full and *)
(* an empty mbarrier per stage, per-partition stage and phase registers,   *)
(* and arrivals that are immediate or made later by the TMA and tcgen05    *)
(* engines.                                                                *)
(*                                                                         *)
(* Regions may overlap: a partition may enter stage s + 1 before it has    *)
(* left stage s ("these regions can span multiple iterations").            *)
(***************************************************************************)
EXTENDS MBarrier, FiniteSets

CONSTANTS
  Producers,  \* partitions that put
  Consumers,  \* partitions that get
  Depth,      \* number of stages of the aref buffer
  Kinds,      \* Kinds[a]: the async_ops of a's put.exit or get.exit
  Loads,      \* Loads[p]: the descriptor loads a TMA producer's put issues
  Trips       \* trip count of the warp-specialized loop (bounds the model)

Actor == Producers \cup Consumers
ProducerKinds == {"NONE", "TC5MMA", "TMALoad"}
ConsumerKinds == {"NONE", "TC5MMA", "WGMMA"}

ASSUME ActorAssumption ==
  /\ IsFiniteSet(Producers) /\ Producers # {}
  /\ IsFiniteSet(Consumers) /\ Consumers # {}
  /\ Producers \cap Consumers = {}

ASSUME ShapeAssumption == Depth \in Nat \ {0} /\ Trips \in Nat

ASSUME KindsAssumption ==
  /\ DOMAIN Kinds = Actor
  /\ \A p \in Producers : Kinds[p] \in (SUBSET ProducerKinds) \ {{}}
  /\ \A c \in Consumers : Kinds[c] \in (SUBSET ConsumerKinds) \ {{}}

\* InsertAref gives a put the TMALoad kind exactly when it stores the result of
\* descriptor loads.
ASSUME LoadsAssumption ==
  /\ DOMAIN Loads = Producers
  /\ \A p \in Producers : IsFiniteSet(Loads[p])
  /\ \A p \in Producers : "TMALoad" \in Kinds[p] <=> Loads[p] # {}

VARIABLES
  iter,      \* iter[a]: regions entered so far, the loop's induction variable
  stage,     \* stage[a]: the stage register of partition a
  phase,     \* phase[a]: its phase register
  owed,      \* owed[a][s]: kinds whose arrive a has still to issue on stage s
  commits,   \* <<a, s>>: tcgen05.commit issued by a, not yet arrived on stage s
  inflight,  \* inflight[s]: TMA loads <<p, l>> still writing stage s
  full,      \* full[s]: mbarrier the consumers wait on
  empty,     \* empty[s]: mbarrier the producers wait on
  lap        \* lap[a][s]: history, regions a has entered on stage s

vars == <<iter, stage, phase, owed, commits, inflight, full, empty, lap>>

Stage == 0 .. Depth - 1

Tokens(A) == {t \in A \X (ProducerKinds \cup ConsumerKinds) : t[2] \in Kinds[t[1]]}

\* Mutants: one arrival per partition; one arrival in all; another arrival for
\* the loads, beside the one that announces them.
CountPartitions(A) == Cardinality(A)
CountOnce(A) == Cardinality({A})
CountLoadsToo(A) ==
  Cardinality(Tokens(A)) + Cardinality({t \in Tokens(A) : t[2] = "TMALoad"})

\* getArrivalCount: one arrival per kind of each partition's exit, 1 if there
\* is none.
ArrivalCount(A) == IF Tokens(A) = {} THEN 1 ELSE Cardinality(Tokens(A))

\* Mutant: both sides start alike.
SameInitPhase(a) == 0

NextStage(s) == IF s + 1 = Depth THEN 0 ELSE s + 1
NextPhase(s, ph) == IF s + 1 = Depth THEN 1 - ph ELSE ph

InitPhase(a) == IF a \in Producers THEN 0 ELSE 1

Init ==
  /\ iter = [a \in Actor |-> 0]
  /\ stage = [a \in Actor |-> Depth - 1]
  /\ phase = [a \in Actor |-> InitPhase(a)]
  /\ owed = [a \in Actor |-> [s \in Stage |-> {}]]
  /\ commits = {}
  /\ inflight = [s \in Stage |-> {}]
  /\ full = [s \in Stage |-> InitBarrier(ArrivalCount(Producers))]
  /\ empty = [s \in Stage |-> InitBarrier(ArrivalCount(Consumers))]
  /\ lap = [a \in Actor |-> [s \in Stage |-> 0]]

-----------------------------------------------------------------------------
\* A put.enter whose BarrierExpect has not been executed yet.
InPutEnter(a) == "TMALoad" \in owed[a][stage[a]]

\* The registers advance, the partition waits on a barrier of the new stage.
Enter(a, s, bars) ==
  /\ iter[a] < Trips
  /\ ~InPutEnter(a)
  /\ s = NextStage(stage[a])
  /\ WaitPasses(bars[s], NextPhase(stage[a], phase[a]))
  /\ iter' = [iter EXCEPT ![a] = @ + 1]
  /\ stage' = [stage EXCEPT ![a] = s]
  /\ phase' = [phase EXCEPT ![a] = NextPhase(stage[a], phase[a])]
  /\ owed' = [owed EXCEPT ![a][s] = Kinds[a]]
  /\ lap' = [lap EXCEPT ![a][s] = @ + 1]
  /\ UNCHANGED <<commits, inflight, full, empty>>

PutEnter(p) == \E s \in Stage : Enter(p, s, empty)
GetEnter(c) == \E s \in Stage : Enter(c, s, full)

\* Mutant: the transactions of one load only are announced.
ExpectOneLoad(p) ==
  /\ InPutEnter(p)
  /\ LET s == stage[p] IN
     /\ owed' = [owed EXCEPT ![p][s] = @ \ {"TMALoad"}]
     /\ full' = [full EXCEPT ![s] = BarrierExpect(@, 1)]
     /\ inflight' = [inflight EXCEPT ![s] = @ \cup ({p} \X Loads[p])]
  /\ UNCHANGED <<iter, stage, phase, commits, empty, lap>>

\* The rest of a TMA put.enter: one BarrierExpect for all the bytes, then the
\* loads (whose completion may come at any later time).
IssueLoads(p) ==
  /\ InPutEnter(p)
  /\ LET s == stage[p] IN
     /\ owed' = [owed EXCEPT ![p][s] = @ \ {"TMALoad"}]
     /\ full' = [full EXCEPT ![s] = BarrierExpect(@, Cardinality(Loads[p]))]
     /\ inflight' = [inflight EXCEPT ![s] = @ \cup ({p} \X Loads[p])]
  /\ UNCHANGED <<iter, stage, phase, commits, empty, lap>>

LoadDone(p, s, l) ==
  /\ <<p, l>> \in inflight[s]
  /\ inflight' = [inflight EXCEPT ![s] = @ \ {<<p, l>>}]
  /\ full' = [full EXCEPT ![s] = CompleteTx(@)]
  /\ UNCHANGED <<iter, stage, phase, owed, commits, empty, lap>>

\* One arrival by a on the barrier its exits signal.
Signal(a, s) ==
  IF a \in Producers
  THEN full' = [full EXCEPT ![s] = ArriveBarrier(@)] /\ UNCHANGED empty
  ELSE empty' = [empty EXCEPT ![s] = ArriveBarrier(@)] /\ UNCHANGED full

\* put.exit / get.exit, one async kind at a time.
ExitArrive(a, s, k) ==
  /\ k \in owed[a][s] \ {"TC5MMA", "TMALoad"}
  /\ ~InPutEnter(a)
  /\ owed' = [owed EXCEPT ![a][s] = @ \ {k}]
  /\ Signal(a, s)
  /\ UNCHANGED <<iter, stage, phase, commits, inflight, lap>>

ExitCommit(a, s) ==
  /\ "TC5MMA" \in owed[a][s]
  /\ ~InPutEnter(a)
  /\ owed' = [owed EXCEPT ![a][s] = @ \ {"TC5MMA"}]
  /\ commits' = commits \cup {<<a, s>>}
  /\ UNCHANGED <<iter, stage, phase, inflight, full, empty, lap>>

\* The tensor core has finished the MMAs the commit covers.
CommitDone(a, s) ==
  /\ <<a, s>> \in commits
  /\ commits' = commits \ {<<a, s>>}
  /\ Signal(a, s)
  /\ UNCHANGED <<iter, stage, phase, owed, inflight, lap>>

-----------------------------------------------------------------------------
\* Partition a, or an engine working for it, may still access stage s.
Busy(a, s) ==
  \/ owed[a][s] # {}
  \/ <<a, s>> \in commits
  \/ \E t \in inflight[s] : t[1] = a

Finished == \A a \in Actor : iter[a] = Trips /\ \A s \in Stage : ~Busy(a, s)

Terminated == Finished /\ UNCHANGED vars

Program(a) ==
  \/ a \in Producers /\ (PutEnter(a) \/ IssueLoads(a))
  \/ a \in Consumers /\ GetEnter(a)

Exit(a) == \E s \in Stage :
  ExitCommit(a, s) \/ \E k \in ProducerKinds \cup ConsumerKinds : ExitArrive(a, s, k)

Engines(a) == \E s \in Stage :
  CommitDone(a, s) \/ \E l \in UNION {Loads[p] : p \in Producers} : LoadDone(a, s, l)

Next ==
  \/ \E a \in Actor : Program(a) \/ Exit(a) \/ Engines(a)
  \/ Terminated

Fairness == \A a \in Actor :
  WF_vars(Program(a)) /\ WF_vars(Exit(a)) /\ WF_vars(Engines(a))

Spec == Init /\ [][Next]_vars
FairSpec == Spec /\ Fairness

-----------------------------------------------------------------------------
(* Properties *)

\* Every variable has its type; in particular no barrier ever receives an
\* arrival beyond its count (pending stays at or above 0) or a transaction it
\* was not told to expect.
TypeOK ==
  /\ iter \in [Actor -> 0 .. Trips]
  /\ stage \in [Actor -> Stage]
  /\ phase \in [Actor -> {0, 1}]
  /\ owed \in [Actor -> [Stage -> SUBSET (ProducerKinds \cup ConsumerKinds)]]
  /\ \A a \in Actor, s \in Stage : owed[a][s] \subseteq Kinds[a]
  /\ commits \subseteq Actor \X Stage
  /\ inflight \in [Stage -> SUBSET (Producers \X UNION {Loads[p] : p \in Producers})]
  /\ full \in [Stage -> [count : {ArrivalCount(Producers)}, phase : Nat,
                         pending : Nat, tx : Nat]]
  /\ empty \in [Stage -> [count : {ArrivalCount(Consumers)}, phase : Nat,
                          pending : Nat, tx : {0}]]
  /\ lap \in [Actor -> [Stage -> Nat]]

\* While a consumer may be reading a stage, every producer's write for that lap
\* has landed and none has started the next one (put.enter waits on empty,
\* get.enter on full): what is read is exactly what was put for this iteration.
ReaderSeesItsLap ==
  \A c \in Consumers, p \in Producers, s \in Stage :
    Busy(c, s) => ~Busy(p, s) /\ lap[p][s] = lap[c][s]

\* A producer refills a stage only after every consumer has drained the lap
\* before: nothing unread is overwritten, by it or by its TMA loads and MMAs.
WriterKeepsUnread ==
  \A p \in Producers, c \in Consumers, s \in Stage :
    Busy(p, s) => ~Busy(c, s) /\ lap[c][s] = lap[p][s] - 1

\* A wait sees one parity bit of the phase.  That bit is enough: when a
\* partition is about to wait for a stage, the barrier is either at the phase
\* it must wait out or at the next one, never a whole lap behind or ahead.
ParityUnambiguous ==
  \A s \in Stage :
    /\ \A p \in Producers : empty[s].phase - lap[p][s] \in {-1, 0}
    /\ \A c \in Consumers : full[s].phase - lap[c][s] \in {0, 1}

\* A phase of a full barrier never completes while a write of that phase is
\* outstanding: a late TMA load cannot be credited to the next lap.
FullMeansFilled ==
  [][\A s \in Stage : full[s].phase # full'[s].phase =>
       /\ inflight'[s] = {}
       /\ \A p \in Producers : ~Busy(p, s)']_vars

\* Every partition gets through its loop and every engine drains.
Completes == <>[]Finished

\* The ring implements the abstract channel.
Channel == INSTANCE ArefChannel WITH
  at <- stage, lap <- lap,
  busy <- [a \in Actor |-> [s \in Stage |-> Busy(a, s)]]
ImplementsChannel == Channel!Spec

-----------------------------------------------------------------------------
(* The inductive invariant behind them, stage by stage. *)

\* a's arrive of kind k for its last region on stage s has not happened yet.
Unarrived(a, k, s) ==
  k \in owed[a][s] \/ (k = "TC5MMA" /\ <<a, s>> \in commits)

\* How many arrivals of kind k partition a has made on stage s.
Arrivals(a, k, s) == IF Unarrived(a, k, s) THEN lap[a][s] - 1 ELSE lap[a][s]

\* The arrivals the phase numbered n still lacks.
Lacking(A, s, n) == {t \in Tokens(A) : Arrivals(t[1], t[2], s) = n}

\* The registers of a partition encode the lap it is in.
RegisterInv(a) ==
  /\ \A s \in Stage : lap[a][s] = IF s > stage[a] THEN lap[a][stage[a]] - 1
                                                  ELSE lap[a][stage[a]]
  /\ phase[a] = (lap[a][stage[a]] + InitPhase(a)) % 2

\* The producers are one lap ahead of the empty barrier, the consumers trail the
\* full one, and no partition is more than one arrival away from its barrier.
LapInv(s) ==
  /\ empty[s].phase <= full[s].phase /\ full[s].phase <= empty[s].phase + 1
  /\ \A p \in Producers :
       /\ lap[p][s] \in {empty[s].phase, empty[s].phase + 1}
       /\ \A k \in Kinds[p] : Arrivals(p, k, s) \in {full[s].phase, full[s].phase + 1}
  /\ \A c \in Consumers :
       /\ lap[c][s] <= full[s].phase
       /\ \A k \in Kinds[c] : Arrivals(c, k, s) \in {empty[s].phase, empty[s].phase + 1}

\* pending and tx count exactly what is outstanding, and a barrier with nothing
\* outstanding has already moved on.
CountInv(s) ==
  /\ full[s].pending = Cardinality(Lacking(Producers, s, full[s].phase))
  /\ empty[s].pending = Cardinality(Lacking(Consumers, s, empty[s].phase))
  /\ IsFiniteSet(inflight[s]) /\ full[s].tx = Cardinality(inflight[s])
  /\ full[s].pending # 0 \/ full[s].tx # 0
  /\ empty[s].pending # 0

\* A load in flight belongs to a TMA producer that has arrived for the phase
\* still open; a commit in flight has left owed.
EngineInv(s) ==
  /\ \A t \in inflight[s] :
       /\ "TMALoad" \in Kinds[t[1]] \ owed[t[1]][s]
       /\ Arrivals(t[1], "TMALoad", s) = full[s].phase + 1
  /\ \A a \in Actor : <<a, s>> \in commits => "TC5MMA" \in Kinds[a] \ owed[a][s]

SlotInv(s) == LapInv(s) /\ CountInv(s) /\ EngineInv(s)

IInv ==
  /\ TypeOK
  /\ \A a \in Actor : RegisterInv(a)
  /\ \A s \in Stage : SlotInv(s)

\* The registers count the regions entered, and a put.enter that has not issued its
\* loads is the partition's last.
TurnInv ==
  \A a \in Actor :
    /\ iter[a] = Depth * (lap[a][stage[a]] - 1) + stage[a] + 1
    /\ \A s \in Stage : "TMALoad" \in owed[a][s] => s = stage[a]

-----------------------------------------------------------------------------
(* Progress: that somebody can go on, without a word on fairness. *)

Awaited(a) == IF a \in Producers THEN empty ELSE full
MayEnter(a) ==
  /\ iter[a] < Trips /\ ~InPutEnter(a)
  /\ WaitPasses(Awaited(a)[NextStage(stage[a])], NextPhase(stage[a], phase[a]))
MayAct(a) ==
  \/ InPutEnter(a) \/ MayEnter(a)
  \/ \E s \in Stage :
       \/ ~InPutEnter(a) /\ owed[a][s] \ {"TMALoad"} # {}
       \/ <<a, s>> \in commits \/ \E t \in inflight[s] : t[1] = a

\* The waits of both sides never close into a circle, whatever the depth of the
\* ring and the number of partitions: until all loops have ended and all engines
\* are idle, some wait passes, or some arrive or completion is due.  (An exit waits
\* for nothing here: a partition whose code puts it behind the enter of a region
\* that needs it blocks by itself.)
NeverStuck == Finished \/ \E a \in Actor : MayAct(a)

=============================================================================
