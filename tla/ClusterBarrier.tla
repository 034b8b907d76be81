--------------------------- MODULE ClusterBarrier ---------------------------
(***************************************************************************)
(* tle.distributed_barrier inside a thread block cluster: over the whole   *)
(* cluster (lowerClusterBarrier) and over a slice of it                    *)
(* (lowerSubmeshBarrier), which adds a counter and a phase in the shared   *)
(* memory of the group's first CTA.  The slice's barrier contains two      *)
(* hardware barriers of the cluster, so every CTA takes part in it in some *)
(* way.  A CTA's kernel is here the sequence of groups it calls the        *)
(* barrier for; one process stands for a CTA, whose threads the CTA        *)
(* barriers around the code hold together.                                 *)
(***************************************************************************)
EXTENDS Integers, Sequences, FiniteSets, FiniteSetsExt

CONSTANTS
  CTAs,      \* the ranks in the cluster
  Programs,  \* what the CTAs may execute: functions to sequences of groups
  Width      \* 2^32, the range of counter and phase

VARIABLES
  program,   \* the groups each CTA synchronizes with, in its order
  pos,       \* how many of them it has left
  pc,        \* its place in the barrier
  arrivals,  \* its barrier.cluster.arrives
  counter,   \* the counter in its shared memory
  phase,     \* the phase in its shared memory
  old        \* the phase it has read before it arrived

vars == <<program, pos, pc, arrivals, counter, phase, old>>
smem == <<counter, phase>>

Group(c) == program[c][pos[c] + 1]

\* The mask is sorted, and its front leads.
Leader(c) == Min(Group(c))
IsParticipant(c) == c \in Group(c)

\* Shared memory is uninitialized (the same garbage everywhere, to bound this).
Init ==
  /\ program \in Programs
  /\ pos = [c \in CTAs |-> 0]
  /\ pc = [c \in CTAs |-> "code"]
  /\ arrivals = [c \in CTAs |-> 0]
  /\ \E x \in {1, Width - 1} : counter = [c \in CTAs |-> x] /\ phase = [c \in CTAs |-> x]
  /\ old = [c \in CTAs |-> 0]

Goto(c, place) == pc' = [pc EXCEPT ![c] = place]
Done(c) == pos' = [pos EXCEPT ![c] = @ + 1] /\ Goto(c, "code")
ClusterArrive(c) == arrivals' = [arrivals EXCEPT ![c] = @ + 1]

\* barrier.cluster.wait: a CTA that has exited is waited for no longer.
ClusterWait(c) == \A d \in CTAs : pc[d] = "exited" \/ arrivals[d] >= arrivals[c]

\* The first arrive of a barrier
Call(c) ==
  /\ pc[c] = "code" /\ pos[c] < Len(program[c])
  /\ ClusterArrive(c)
  /\ Goto(c, IF Group(c) = CTAs THEN "cluster" ELSE "fence")
  /\ UNCHANGED <<program, pos, smem, old>>

\* Mutant: arrive without wait.
SkipWait(c) ==
  /\ pc[c] = "cluster"
  /\ Done(c)
  /\ UNCHANGED <<program, arrivals, smem, old>>
\* The end of a barrier of the whole cluster
WaitAll(c) ==
  /\ pc[c] = "cluster" /\ ClusterWait(c)
  /\ Done(c)
  /\ UNCHANGED <<program, arrivals, smem, old>>

\* The first fence, after which the leader resets its counter
Reset(c) ==
  /\ pc[c] = "fence" /\ ClusterWait(c)
  /\ counter' = IF c = Leader(c) THEN [counter EXCEPT ![c] = 0] ELSE counter
  /\ Goto(c, "reset")
  /\ UNCHANGED <<program, pos, arrivals, phase, old>>

ArriveAgain(c) ==
  /\ pc[c] = "reset"
  /\ ClusterArrive(c)
  /\ Goto(c, "ready")
  /\ UNCHANGED <<program, pos, smem, old>>

\* The second fence; a CTA outside the mask has only the fences.
Start(c) ==
  /\ pc[c] = "ready" /\ ClusterWait(c)
  /\ IF IsParticipant(c) THEN Goto(c, "work") /\ UNCHANGED pos ELSE Done(c)
  /\ UNCHANGED <<program, arrivals, smem, old>>

ReadPhase(c) ==
  /\ pc[c] = "work"
  /\ old' = [old EXCEPT ![c] = phase[Leader(c)]]
  /\ Goto(c, "add")
  /\ UNCHANGED <<program, pos, arrivals, smem>>

\* Mutant: the count before the addition is compared.
PreviousIsLast(c) == counter[Leader(c)] = Cardinality(Group(c))
IsLast(c) == counter[Leader(c)] + 1 = Cardinality(Group(c))

Arrive(c) ==
  /\ pc[c] = "add"
  /\ counter' = [counter EXCEPT ![Leader(c)] = (@ + 1) % Width]
  /\ Goto(c, IF IsLast(c) THEN "last" ELSE "wait")
  /\ UNCHANGED <<program, pos, arrivals, phase, old>>

\* The last participant takes the arrivals back, then changes the phase.
TakeBack(c) ==
  /\ pc[c] = "last"
  /\ counter' = [counter EXCEPT ![Leader(c)] = (@ - Cardinality(Group(c))) % Width]
  /\ Goto(c, "flip")
  /\ UNCHANGED <<program, pos, arrivals, phase, old>>

Flip(c) ==
  /\ pc[c] = "flip"
  /\ phase' = [phase EXCEPT ![Leader(c)] = (@ + 1) % Width]
  /\ Done(c)
  /\ UNCHANGED <<program, arrivals, counter, old>>

Wait(c) ==
  /\ pc[c] = "wait" /\ phase[Leader(c)] # old[c]
  /\ Done(c)
  /\ UNCHANGED <<program, arrivals, smem, old>>

\* The kernel ends, with no barrier of its own.
Exit(c) ==
  /\ pc[c] = "code" /\ pos[c] = Len(program[c])
  /\ Goto(c, "exited")
  /\ UNCHANGED <<program, pos, arrivals, smem, old>>

Finished == \A c \in CTAs : pc[c] = "exited"
Terminated == Finished /\ UNCHANGED vars

Step(c) ==
  \/ Call(c) \/ WaitAll(c) \/ Reset(c) \/ ArriveAgain(c) \/ Start(c)
  \/ ReadPhase(c) \/ Arrive(c) \/ TakeBack(c) \/ Flip(c) \/ Wait(c) \/ Exit(c)

Next == (\E c \in CTAs : Step(c)) \/ Terminated
Spec == Init /\ [][Next]_vars

\* The CTAs of a cluster are resident together.
FairSpec == Spec /\ \A c \in CTAs : WF_vars(Step(c))

-----------------------------------------------------------------------------
\* A group that is at work finds at most its own arrivals in the counter.
TypeOK ==
  /\ program \in Programs
  /\ pos \in [CTAs -> Nat]
  /\ pc \in [CTAs -> {"code", "cluster", "fence", "reset", "ready", "work",
                      "add", "last", "flip", "wait", "exited"}]
  /\ arrivals \in [CTAs -> Nat]
  /\ counter \in [CTAs -> 0 .. Width - 1] /\ phase \in [CTAs -> 0 .. Width - 1]
  /\ old \in [CTAs -> 0 .. Width - 1]
  /\ \A c \in CTAs : pc[c] \in {"work", "add", "last", "wait"} =>
       counter[Leader(c)] \in 0 .. Cardinality(Group(c))

Count(c, g, k) == Cardinality({i \in 1 .. k : program[c][i] = g})
Left(c, g) == Count(c, g, pos[c])
Reached(c, g) == Count(c, g, IF pc[c] \in {"code", "exited"} THEN pos[c] ELSE pos[c] + 1)
Groups == UNION {{program[c][i] : i \in 1 .. Len(program[c])} : c \in CTAs}

\* "All participants in the selected synchronization group rendezvous at this
\* point before continuing" (tle.md:373): nobody leaves the n-th barrier of a
\* group before each of its members has reached it.
Rendezvous ==
  \A g \in Groups : \A c, d \in g : Left(c, g) <= Reached(d, g)

\* While a CTA accesses the counter and the phase of its leader, the leader's
\* shared memory exists, provided the CTA goes on to a barrier of the whole
\* cluster.  Without one the leader may change the phase, as the last to
\* arrive, and exit under the others' polling.
LeaderStays ==
  \A c \in CTAs :
    /\ pc[c] \in {"work", "add", "last", "flip", "wait"}
    /\ \E i \in pos[c] + 1 .. Len(program[c]) : program[c][i] = CTAs
    => pc[Leader(c)] # "exited"

\* Every CTA gets through its barriers, whatever the counter held at launch.
Completes == <>Finished
=============================================================================
