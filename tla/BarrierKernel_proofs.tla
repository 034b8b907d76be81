----------------------- MODULE BarrierKernel_proofs -----------------------
(***************************************************************************)
(* Proofs about BarrierKernel and the GridBarrier it extends, for all      *)
(* kernels, meshes, clusters and grids of up to half the range of the      *)
(* counter: a grid barrier is a rendezvous, the launch fits every barrier  *)
(* of the kernel, so that it is one from uninitialized scratch memory too; *)
(* a barrier of a cluster is for the CTAs of its mesh, and a rendezvous of *)
(* them where the cluster's CTAs execute matching ones; and neither hangs. *)
(***************************************************************************)
EXTENDS BarrierKernel, FiniteSetTheorems, WellFoundedInduction, TLAPS

-----------------------------------------------------------------------------
(* The grid barrier: what the blocks of one round add fits under the top   *)
(* bit until the last of them has arrived, and then carries into it.       *)

LEMMA HalfFacts ==
  /\ Half \in Nat \ {0}
  /\ Cardinality(Blocks) \in 1 .. Half
  /\ \A b \in Blocks : Amount(b) \in 0 .. Half
<1>1. Cardinality(Blocks) \in Nat /\ Cardinality(Blocks) # 0
  BY GridAssumption, FS_CardinalityType, FS_EmptySet
<1> QED BY <1>1, GridAssumption DEF Amount

\* 32-bit addition carries at most once.
LEMMA Wrapped ==
  ASSUME NEW h \in Nat, h > 0, NEW x \in Nat, x < 4 * h
  PROVE  x % (2 * h) = IF x < 2 * h THEN x ELSE x - 2 * h
  OBVIOUS

LEMMA AddedEmpty == Added({}) = 0
  BY FS_EmptySet DEF Added

LEMMA AddedPart ==
  ASSUME NEW A \in SUBSET Blocks, A # Blocks
  PROVE  Added(A) \in 0 .. Half - 1
<1>1. IsFiniteSet(A) /\ Cardinality(A) \in Nat /\ Cardinality(A) < Cardinality(Blocks)
  BY GridAssumption, FS_Subset, FS_CardinalityType
<1>2. CASE Block0 \in A
  <2>1. Cardinality(A \ {Block0}) = Cardinality(A) - 1
    BY <1>1, <1>2, FS_RemoveElement
  <2> QED BY <2>1, <1>1, <1>2, HalfFacts, GridAssumption DEF Added, Amount
<1>3. CASE Block0 \notin A
  BY <1>1, <1>3, HalfFacts DEF Added
<1> QED BY <1>2, <1>3

LEMMA AddedAll == Added(Blocks) = Half
<1>1. Cardinality(Blocks \ {Block0}) = Cardinality(Blocks) - 1
  BY GridAssumption, FS_RemoveElement
<1> QED BY <1>1, HalfFacts, GridAssumption DEF Added, Amount

LEMMA AddedOneMore ==
  ASSUME NEW A \in SUBSET Blocks, NEW b \in Blocks, b \notin A
  PROVE  Added(A \cup {b}) = Added(A) + Amount(b)
<1>1. IsFiniteSet(A) /\ IsFiniteSet(A \ {Block0})
  BY GridAssumption, FS_Subset
<1>2. CASE b = Block0
  <2>1. (A \cup {b}) \ {Block0} = A
    BY <1>2
  <2> QED BY <2>1, <1>2 DEF Added
<1>3. CASE b # Block0
  <2>1. (A \cup {b}) \ {Block0} = (A \ {Block0}) \cup {b}
    BY <1>3
  <2>2. /\ Cardinality(A \cup {b}) = Cardinality(A) + 1
        /\ Cardinality((A \ {Block0}) \cup {b}) = Cardinality(A \ {Block0}) + 1
    BY <1>1, FS_AddElement
  <2>3. Cardinality(A) \in Nat /\ Cardinality(A \ {Block0}) \in Nat
    BY <1>1, FS_CardinalityType
  <2>4. Amount(b) = 1 /\ Amount(Block0) \in 0 .. Half
    BY <1>3, HalfFacts, GridAssumption DEF Amount
  <2>5. CASE Block0 \in A
    BY <2>1, <2>2, <2>3, <2>4, <2>5 DEF Added
  <2>6. CASE Block0 \notin A
    BY <1>3, <2>2, <2>3, <2>4, <2>6 DEF Added
  <2> QED BY <2>5, <2>6
<1> QED BY <1>2, <1>3

LEMMA InitInv == Init => IInv
<1> SUFFICES ASSUME Init PROVE IInv
  OBVIOUS
<1>1. TypeOK
  BY HalfFacts, CallsAssumption DEF Init, TypeOK
<1>2. Ahead(0) = {}
  BY DEF Init, Ahead, Arrived
<1>3. Round(0)
  BY <1>2, AddedEmpty, GridAssumption, HalfFacts DEF Round, Init, Arrived, Bit
<1> QED BY <1>1, <1>3, CallsAssumption DEF IInv

\* While a round is open its parity can be read off the counter.
LEMMA TopBitIsParity ==
  ASSUME NEW r \in Nat, Round(r)
  PROVE  /\ counter \in 0 .. 2 * Half - 1
         /\ TopBit(counter) <=> r % 2 = 1
<1>1. Added(Ahead(r)) \in 0 .. Half - 1
  BY AddedPart DEF Round, Ahead
<1>2. CASE r % 2 = 0
  BY <1>1, <1>2, HalfFacts DEF Round, Bit, TopBit
<1>3. CASE r % 2 = 1
  BY <1>1, <1>3, HalfFacts DEF Round, Bit, TopBit
<1> QED BY <1>2, <1>3

\* A block that arrives joins those that are ahead.
LEMMA ArriveFacts ==
  ASSUME TypeOK, NEW r \in 0 .. Calls, Round(r), NEW b \in Blocks, Arrive(b)
  PROVE  /\ r < Calls /\ b \notin Ahead(r)
         /\ TypeOK'
         /\ \A c \in Blocks : Arrived(c)' = (IF c = b THEN r + 1 ELSE Arrived(c))
         /\ Ahead(r)' = Ahead(r) \cup {b}
         /\ counter' = (Bit(r) + Added(Ahead(r) \cup {b})) % (2 * Half)
<1>1. passed[b] \in Nat /\ Arrived(b) = passed[b] /\ Arrived(b) \in {r, r + 1} /\ passed[b] <= r
  BY DEF TypeOK, Arrive, Arrived, Round
<1>2. passed[b] = r /\ r < Calls /\ b \notin Ahead(r)
  BY <1>1, CallsAssumption DEF Arrive, Ahead
<1>3. \A c \in Blocks : Arrived(c)' = (IF c = b THEN r + 1 ELSE Arrived(c))
  BY <1>2 DEF TypeOK, Arrive, Arrived
<1>4. Ahead(r)' = Ahead(r) \cup {b}
  BY <1>3 DEF Ahead
<1>5. Added(Ahead(r) \cup {b}) = Added(Ahead(r)) + Amount(b)
  BY <1>2, AddedOneMore DEF Ahead
<1>6. counter' = (Bit(r) + Added(Ahead(r) \cup {b})) % (2 * Half)
  <2>1. Added(Ahead(r)) \in Nat /\ Bit(r) \in Nat /\ Amount(b) \in Nat
    BY AddedPart, HalfFacts DEF Round, Ahead, Bit
  <2> QED BY <2>1, <1>5 DEF Arrive, Round
<1>7. counter' \in 0 .. 2 * Half - 1
  BY HalfFacts DEF TypeOK, Arrive
<1>8. TypeOK'
  BY <1>7 DEF TypeOK, Arrive
<1> QED BY <1>2, <1>3, <1>4, <1>6, <1>8

LEMMA ArriveInv == ASSUME IInv, NEW b \in Blocks, Arrive(b) PROVE IInv'
<1>1. PICK r \in 0 .. Calls : Round(r)
  BY DEF IInv
<1>2. TypeOK
  BY DEF IInv
<1>3. /\ r < Calls /\ b \notin Ahead(r) /\ TypeOK'
      /\ \A c \in Blocks : Arrived(c)' = (IF c = b THEN r + 1 ELSE Arrived(c))
      /\ Ahead(r)' = Ahead(r) \cup {b}
      /\ counter' = (Bit(r) + Added(Ahead(r) \cup {b})) % (2 * Half)
  BY <1>1, <1>2, ArriveFacts
<1>4. r \in Nat /\ r % 2 \in {0, 1} /\ (r + 1) % 2 = 1 - (r % 2)
  BY CallsAssumption
<1>5. TopBit(counter) <=> r % 2 = 1
  BY <1>1, <1>4, TopBitIsParity
<1>6. /\ passed' = passed
      /\ pc' = [pc EXCEPT ![b] = "poll"]
      /\ old' = [old EXCEPT ![b] = counter]
  BY DEF Arrive
<1>7. \A c \in Blocks : Arrived(c) \in {r, r + 1} /\ passed[c] <= r /\ passed[c] \in Nat
  BY <1>1, <1>2 DEF Round, TypeOK
\* what the last atomic add of every polling block has returned
<1>8. \A c \in Blocks : pc'[c] = "poll" =>
        (TopBit(old'[c]) <=> (IF c \in Ahead(r)' THEN r % 2 = 1 ELSE r % 2 # 1))
  <2> SUFFICES ASSUME NEW c \in Blocks, pc'[c] = "poll"
               PROVE  TopBit(old'[c]) <=> (IF c \in Ahead(r)' THEN r % 2 = 1 ELSE r % 2 # 1)
    OBVIOUS
  <2>1. CASE c = b
    <3>1. old'[c] = counter /\ c \in Ahead(r)'
      BY <2>1, <1>2, <1>3, <1>6 DEF TypeOK
    <3> QED BY <3>1, <1>5
  <2>2. CASE c # b
    <3>1. old'[c] = old[c] /\ pc[c] = "poll" /\ (c \in Ahead(r)' <=> c \in Ahead(r))
      BY <2>2, <1>2, <1>3, <1>6 DEF TypeOK
    <3> QED BY <3>1, <1>1 DEF Round
  <2> QED BY <2>1, <2>2
<1>9. CASE Ahead(r) \cup {b} # Blocks
  <2>1. Added(Ahead(r) \cup {b}) \in 0 .. Half - 1
    BY <1>9, AddedPart DEF Ahead
  <2>2. Bit(r) \in {0, Half}
    BY <1>4, HalfFacts DEF Bit
  <2>3. counter' = Bit(r) + Added(Ahead(r)')
    BY <2>1, <2>2, <1>3, HalfFacts, Wrapped
  <2>4. counter' = Bit(r) + Added(Ahead(r))'
    BY <2>3, <1>3 DEF Added, Amount
  <2>5. Round(r)'
    BY <2>4, <1>3, <1>6, <1>7, <1>8, <1>9 DEF Round, Bit, TopBit
  <2> QED BY <2>5, <1>3 DEF IInv
<1>10. CASE Ahead(r) \cup {b} = Blocks
  <2>1. counter' = (Bit(r) + Half) % (2 * Half)
    BY <1>3, <1>10, AddedAll
  <2>2. Bit(r) + Half \in Nat /\ Bit(r) + Half < 4 * Half
    BY <1>4, HalfFacts DEF Bit
  <2>3. counter' = Bit(r + 1)
    <3>1. CASE r % 2 = 0
      BY <3>1, <2>1, <2>2, <1>4, HalfFacts, Wrapped DEF Bit
    <3>2. CASE r % 2 = 1
      BY <3>2, <2>1, <2>2, <1>4, HalfFacts, Wrapped DEF Bit
    <3> QED BY <3>1, <3>2, <1>4
  <2>4. \A c \in Blocks : Arrived(c)' = r + 1 /\ c \in Ahead(r)'
    BY <1>3, <1>10 DEF Ahead
  <2>5. Ahead(r + 1)' = {}
    BY <2>4, <1>4 DEF Ahead
  <2>6. Added(Ahead(r + 1))' = 0
    BY <2>5, AddedEmpty
  <2>7. \A c \in Blocks : pc'[c] = "poll" => (TopBit(old'[c]) <=> (r + 1) % 2 # 1)
    BY <1>8, <2>4, <1>4
  <2>8. Round(r + 1)'
    <3>1. \A c \in Blocks : Arrived(c)' \in {r + 1, r + 1 + 1} /\ passed'[c] <= r + 1
      BY <2>4, <1>6, <1>7, <1>4
    <3>2. Ahead(r + 1)' # Blocks
      BY <2>5, GridAssumption
    <3>3. counter' = Bit(r + 1) + Added(Ahead(r + 1))'
      BY <2>3, <2>6, <1>4, HalfFacts DEF Bit
    <3> QED BY <3>1, <3>2, <3>3, <2>5, <2>7 DEF Round, Bit, TopBit
  <2> QED BY <2>8, <1>3, <1>4, CallsAssumption DEF IInv
<1> QED BY <1>9, <1>10

\* A block whose bit has flipped is not ahead: it has waited for round r.
LEMMA PollFacts ==
  ASSUME TypeOK, NEW r \in 0 .. Calls, Round(r), NEW b \in Blocks, Poll(b)
  PROVE  /\ b \notin Ahead(r) /\ Arrived(b) = r /\ passed[b] = r - 1
         /\ TypeOK'
         /\ \A c \in Blocks : Arrived(c)' = Arrived(c)
<1>1. r \in Nat /\ (TopBit(counter) <=> r % 2 = 1)
  BY TopBitIsParity, CallsAssumption
<1>2. b \notin Ahead(r)
  <2> SUFFICES ASSUME b \in Ahead(r) PROVE FALSE
    OBVIOUS
  <2>1. TopBit(old[b]) <=> r % 2 = 1
    BY DEF Poll, Round
  <2>2. ~(TopBit(old[b]) <=> TopBit(counter))
    BY DEF Poll, HasFlipped, TopBit
  <2> QED BY <2>1, <2>2, <1>1
<1>3. Arrived(b) = r /\ passed[b] = r - 1
  BY <1>2 DEF Round, Ahead, Arrived, Poll, TypeOK
<1>4. \A c \in Blocks : Arrived(c)' = Arrived(c)
  BY DEF TypeOK, Poll, Arrived
<1>5. TypeOK'
  BY <1>3, <1>1, CallsAssumption DEF TypeOK, Poll
<1> QED BY <1>2, <1>3, <1>4, <1>5

LEMMA PollInv == ASSUME IInv, NEW b \in Blocks, Poll(b) PROVE IInv'
<1>1. PICK r \in 0 .. Calls : Round(r)
  BY DEF IInv
<1>2. TypeOK
  BY DEF IInv
<1>3. /\ b \notin Ahead(r) /\ Arrived(b) = r /\ passed[b] = r - 1 /\ TypeOK'
      /\ \A c \in Blocks : Arrived(c)' = Arrived(c)
  BY <1>1, <1>2, PollFacts
<1>4. Ahead(r)' = Ahead(r)
  BY <1>3 DEF Ahead
<1>5. \A c \in Blocks : passed'[c] <= r
  BY <1>1, <1>2, <1>3, CallsAssumption DEF Round, TypeOK, Poll
<1>6. counter' = Bit(r) + Added(Ahead(r))'
  BY <1>1, <1>4 DEF Round, Poll, Added, Amount
<1>7. \A c \in Blocks : pc'[c] = "poll" => pc[c] = "poll" /\ old'[c] = old[c]
  BY <1>2 DEF TypeOK, Poll
<1>8. Round(r)'
  BY <1>1, <1>3, <1>4, <1>5, <1>6, <1>7 DEF Round, Bit, TopBit
<1> QED BY <1>3, <1>8 DEF IInv

LEMMA NextInv == IInv /\ [Next]_vars => IInv'
<1> SUFFICES ASSUME IInv, [Next]_vars PROVE IInv'
  OBVIOUS
<1>1. ASSUME NEW b \in Blocks, Arrive(b) PROVE IInv'
  BY <1>1, ArriveInv
<1>2. ASSUME NEW b \in Blocks, Poll(b) PROVE IInv'
  BY <1>2, PollInv
<1>3. CASE UNCHANGED vars
  <2>1. \A b \in Blocks : Arrived(b)' = Arrived(b)
    BY <1>3 DEF vars, Arrived
  <2>2. \A r \in 0 .. Calls : Ahead(r)' = Ahead(r)
    BY <2>1 DEF Ahead
  <2>3. \A r \in 0 .. Calls : Added(Ahead(r))' = Added(Ahead(r))
    BY <2>2 DEF Added, Amount
  <2>4. ASSUME NEW r \in 0 .. Calls, Round(r) PROVE Round(r)'
    BY <1>3, <2>1, <2>2, <2>3, <2>4 DEF Round, vars, Bit, TopBit
  <2> QED BY <1>3, <2>4 DEF IInv, TypeOK, vars
<1> QED BY <1>1, <1>2, <1>3 DEF Next, Terminated

\* The invariant of the grid barrier: a complete round is one flip of the top
\* bit (lowerGridBarrier's sum of the amounts).
THEOREM InvariantHolds == Spec => []IInv
  BY InitInv, NextInv, PTL DEF Spec

LEMMA InitRefines == Init => Barrier!Init
  BY DEF Init, Barrier!Init, Arrived

LEMMA StepRefines == IInv /\ [Next]_vars => [Barrier!Next]_(Barrier!vars)
<1> SUFFICES ASSUME IInv, [Next]_vars PROVE [Barrier!Next]_(Barrier!vars)
  OBVIOUS
<1> DEFINE reached == [b \in Blocks |-> Arrived(b)]
<1>1. TypeOK
  BY DEF IInv
<1>2. PICK r \in 0 .. Calls : Round(r)
  BY DEF IInv
<1>3. ASSUME NEW b \in Blocks, Arrive(b) PROVE Barrier!Reach(b)
  <2>1. passed[b] = reached[b] /\ Arrived(b) = passed[b]
    BY <1>3, <1>1 DEF Arrive, Arrived, TypeOK
  <2>2. \A c \in Blocks : Arrived(c)' = (IF c = b THEN r + 1 ELSE Arrived(c))
    BY <1>1, <1>2, <1>3, ArriveFacts
  <2>3. Arrived(b) = r
    BY <1>1, <1>2, <1>3, <2>1, ArriveFacts DEF Round, Ahead
  <2>4. reached' = [reached EXCEPT ![b] = @ + 1]
    BY <2>2, <2>3
  <2>5. UNCHANGED passed
    BY <1>3 DEF Arrive
  <2> QED BY <2>1, <2>4, <2>5 DEF Barrier!Reach
<1>4. ASSUME NEW b \in Blocks, Poll(b) PROVE Barrier!Leave(b)
  <2>1. /\ Arrived(b) = r /\ passed[b] = r - 1
        /\ \A c \in Blocks : Arrived(c)' = Arrived(c)
    BY <1>1, <1>2, <1>4, PollFacts
  <2>2. reached' = reached
    BY <2>1
  <2>3. passed[b] < reached[b]
    BY <2>1
  <2>4. \A c \in Blocks : reached[c] >= reached[b]
    BY <2>1, <1>2 DEF Round
  <2>5. passed' = [passed EXCEPT ![b] = @ + 1]
    BY <1>4 DEF Poll
  <2> QED BY <2>2, <2>3, <2>4, <2>5 DEF Barrier!Leave
<1>5. CASE UNCHANGED vars
  <2>1. reached' = reached /\ passed' = passed
    BY <1>5 DEF vars, Arrived
  <2> QED BY <2>1 DEF Barrier!vars
<1> QED BY <1>3, <1>4, <1>5 DEF Next, Terminated, Barrier!Next

\* The counter implements the rendezvous: no block leaves its n-th barrier
\* before all have reached it, however far behind the polling of others is.
THEOREM GridBarrierIsARendezvous == Spec => ImplementsBarrier
  BY InitRefines, StepRefines, InvariantHolds, PTL DEF Spec, ImplementsBarrier, Barrier!Spec

LEMMA Flips ==
  ASSUME IInv, NEW b \in Blocks, pc[b] = "poll"
  PROVE  HasFlipped(b) <=> \A c \in Blocks : Arrived(c) >= Arrived(b)
<1>1. PICK r \in 0 .. Calls : Round(r)
  BY DEF IInv
<1>2. r \in Nat /\ \A c \in Blocks : Arrived(c) \in {r, r + 1}
  BY <1>1, CallsAssumption DEF Round
<1>3. HasFlipped(b) <=> b \notin Ahead(r)
  <2>1. TopBit(counter) <=> r % 2 = 1
    BY <1>1, <1>2, TopBitIsParity
  <2>2. TopBit(old[b]) <=> (IF b \in Ahead(r) THEN r % 2 = 1 ELSE r % 2 # 1)
    BY <1>1 DEF Round
  <2>3. HasFlipped(b) <=> ~(TopBit(old[b]) <=> TopBit(counter))
    BY DEF HasFlipped, TopBit
  <2> QED BY <2>1, <2>2, <2>3
<1>4. CASE b \in Ahead(r)
  <2>1. PICK c \in Blocks : c \notin Ahead(r)
    BY <1>1 DEF Round, Ahead
  <2>2. Arrived(c) = r /\ Arrived(b) = r + 1
    BY <1>2, <1>4, <2>1 DEF Ahead
  <2>3. ~(Arrived(c) >= Arrived(b))
    BY <2>2, <1>2
  <2> QED BY <2>3, <1>3, <1>4
<1>5. CASE b \notin Ahead(r)
  <2>1. Arrived(b) = r
    BY <1>2, <1>5 DEF Ahead
  <2>2. \A c \in Blocks : Arrived(c) >= Arrived(b)
    BY <2>1, <1>2
  <2> QED BY <2>2, <1>3, <1>5
<1> QED BY <1>4, <1>5

\* The poll of a block succeeds exactly when all blocks have arrived at the
\* barrier it waits in: it is not let through early, and the flip it waits for
\* is not undone by blocks that go on to the next barrier before it looks again.
THEOREM FlipMeansArrived ==
  Spec => [](\A b \in Blocks : pc[b] = "poll" =>
               (HasFlipped(b) <=> \A c \in Blocks : Arrived(c) >= Arrived(b)))
<1>1. IInv => \A b \in Blocks : pc[b] = "poll" =>
                (HasFlipped(b) <=> \A c \in Blocks : Arrived(c) >= Arrived(b))
  BY Flips
<1> QED BY <1>1, InvariantHolds, PTL

\* A block that polls has executed fewer barriers than its kernel has.
PollsInside == \A b \in Blocks : pc[b] = "poll" => passed[b] < Calls

LEMMA PollsInsideInv ==
  /\ Init => PollsInside
  /\ TypeOK /\ PollsInside /\ [Next]_vars => PollsInside'
<1>1. Init => PollsInside
  BY DEF Init, PollsInside
<1>2. ASSUME TypeOK, PollsInside, NEW b \in Blocks, Arrive(b) PROVE PollsInside'
  BY <1>2 DEF PollsInside, Arrive, TypeOK
<1>3. ASSUME TypeOK, PollsInside, NEW b \in Blocks, Poll(b) PROVE PollsInside'
  <2>1. \A c \in Blocks : pc'[c] = "poll" => pc[c] = "poll" /\ passed'[c] = passed[c]
    BY <1>3 DEF Poll, TypeOK
  <2> QED BY <2>1, <1>3 DEF PollsInside
<1>4. ASSUME PollsInside, UNCHANGED vars PROVE PollsInside'
  BY <1>4 DEF PollsInside, vars
<1> QED BY <1>1, <1>2, <1>3, <1>4 DEF Next, Terminated

\* A block that can arrive at a barrier, or finds the bit it polls flipped
BlockGoes ==
  \/ \E b \in Blocks : pc[b] = "code" /\ passed[b] < Calls
  \/ \E b \in Blocks : pc[b] = "poll" /\ HasFlipped(b)

LEMMA SomeBlockGoes == ASSUME IInv, PollsInside, ~Finished PROVE BlockGoes
<1> SUFFICES ASSUME ~BlockGoes PROVE FALSE
  OBVIOUS
<1>1. PICK r \in 0 .. Calls : Round(r)
  BY DEF IInv
<1>2. PICK b \in Blocks : b \notin Ahead(r)
  BY <1>1 DEF Round, Ahead
<1>3. /\ r \in Nat /\ r <= Calls /\ Arrived(b) = r
      /\ \A c \in Blocks : Arrived(c) >= r /\ passed[c] <= r
  BY <1>1, <1>2, CallsAssumption DEF Round, Ahead
<1>4. \A c \in Blocks : passed[c] \in 0 .. Calls /\ pc[c] \in {"code", "poll"}
  BY DEF IInv, TypeOK
<1>5. CASE pc[b] = "poll"
  <2>1. HasFlipped(b)
    BY <1>3, <1>5, Flips
  <2> QED BY <2>1, <1>5 DEF BlockGoes
<1>6. CASE pc[b] = "code" /\ passed[b] < Calls
  BY <1>6 DEF BlockGoes
<1>7. CASE pc[b] = "code" /\ ~(passed[b] < Calls)
  <2>1. r = Calls
    <3>1. passed[b] = Calls
      BY <1>4, <1>7, CallsAssumption
    <3> QED BY <3>1, <1>3, CallsAssumption
  <2>2. ASSUME NEW c \in Blocks PROVE pc[c] = "code" /\ passed[c] = Calls
    <3>1. pc[c] = "code"
      <4> SUFFICES ASSUME pc[c] = "poll" PROVE FALSE
        BY <1>4
      <4>1. passed[c] < Calls /\ passed[c] >= 0 /\ passed[c] + 1 = Arrived(c)
        BY <1>4 DEF PollsInside, Arrived
      <4>2. Arrived(c) = Calls
        BY <4>1, <2>1, <1>3, <1>4, CallsAssumption
      <4>3. HasFlipped(c)
        BY <1>3, <2>1, <4>2, Flips
      <4> QED BY <4>3 DEF BlockGoes
    <3>2. Arrived(c) = passed[c]
      BY <3>1, <1>4 DEF Arrived
    <3> QED BY <3>1, <3>2, <2>1, <1>3, <1>4, CallsAssumption
  <2> QED BY <2>2 DEF Finished
<1> QED BY <1>4, <1>5, <1>6, <1>7

\* The grid is never stuck, whatever has been interleaved: until all blocks are
\* through their last barrier, one of them goes on.
THEOREM GridNeverStuck == Spec => [](Finished \/ BlockGoes)
<1>1. IInv => TypeOK
  BY DEF IInv
<1>2. Spec => []PollsInside
  BY <1>1, PollsInsideInv, InvariantHolds, PTL DEF Spec
<1>3. IInv /\ PollsInside => Finished \/ BlockGoes
  BY SomeBlockGoes
<1> QED BY <1>2, <1>3, InvariantHolds, PTL

-----------------------------------------------------------------------------
(* Positions in row-major order *)

\* Induction over the naturals, for a set of numbers.
LEMMA Inductive ==
  ASSUME NEW S, 0 \in S, \A n \in Nat : n \in S => n + 1 \in S
  PROVE  Nat \subseteq S
<1> DEFINE R == {r \in Nat \X Nat : r[1] < r[2]}
           T == Nat \ S
<1>1. OpToRel(<, Nat) = R
  BY Zenon DEF OpToRel
<1>2. IsWellFoundedOn(R, Nat)
  BY <1>1, NatLessThanWellFounded
<1>3. T \in SUBSET Nat
  OBVIOUS
<1> SUFFICES ASSUME T # {} PROVE FALSE
  OBVIOUS
<1> HIDE DEF R, T
<1>4. PICK x \in T : \A y \in T : ~(<<y, x>> \in R)
  BY <1>2, <1>3, WFMin
<1>5. \A y \in T : ~(y < x)
  BY <1>3, <1>4 DEF R
<1>6. x \in Nat /\ x # 0 /\ x - 1 \in Nat /\ (x - 1) + 1 = x
  BY <1>3 DEF T
<1>7. x - 1 \in T
  BY <1>3, <1>6 DEF T
<1> QED BY <1>5, <1>6, <1>7

Solves(f, V, z, n, step) ==
  /\ f \in [0 .. n -> V] /\ f[0] = z
  /\ \A i \in 1 .. n : f[i] = step[<<i, f[i - 1]>>]

\* A recursion over 1 .. n that stays in a set has a solution.
LEMMA Recursion ==
  ASSUME NEW V, NEW z \in V, NEW n \in Nat, NEW step \in [(1 .. n) \X V -> V]
  PROVE  \E f : Solves(f, V, z, n, step)
<1> DEFINE P(k, f) == Solves(f, V, z, k, step)
           S == {k \in Nat : k <= n => \E f : P(k, f)}
<1>1. 0 \in S
  <2> DEFINE f == [i \in 0 .. 0 |-> z]
  <2>1. P(0, f)
    BY DEF Solves
  <2> QED BY <2>1
<1>2. ASSUME NEW k \in Nat, k \in S PROVE k + 1 \in S
  <2> SUFFICES ASSUME k + 1 <= n PROVE \E f : P(k + 1, f)
    OBVIOUS
  <2>1. PICK f : P(k, f)
    BY <1>2
  <2> USE DEF Solves
  <2> DEFINE v == step[<<k + 1, f[k]>>]
             g == [i \in 0 .. k + 1 |-> IF i = k + 1 THEN v ELSE f[i]]
  <2>2. v \in V
    BY <2>1
  <2>3. g \in [0 .. k + 1 -> V] /\ g[0] = z
    BY <2>1, <2>2
  <2>4. ASSUME NEW i \in 1 .. k + 1 PROVE g[i] = step[<<i, g[i - 1]>>]
    <3>1. g[i - 1] = f[i - 1]
      OBVIOUS
    <3>2. CASE i = k + 1
      <4>1. i - 1 = k /\ g[i] = v
        BY <3>2
      <4> QED BY <3>1, <3>2, <4>1
    <3>3. CASE i # k + 1
      BY <2>1, <3>1, <3>3
    <3> QED BY <3>2, <3>3
  <2>5. P(k + 1, g)
    BY <2>3, <2>4
  <2> QED BY <2>5
<1> HIDE DEF P
<1>3. n \in S
  BY <1>1, <1>2, Inductive
<1> QED BY <1>3 DEF P

\* The products of the first so many.
LEMMA Products ==
  ASSUME NEW s \in Seq(Nat \ {0})
  PROVE  \E p \in [0 .. Len(s) -> Nat \ {0}] :
           p[0] = 1 /\ Prod(s) = p[Len(s)] /\ \A i \in 1 .. Len(s) : p[i] = p[i - 1] * s[i]
<1> DEFINE n == Len(s)
           Pos == Nat \ {0}
           step == [x \in (1 .. n) \X Pos |-> x[2] * s[x[1]]]
           Q(p) == p = [i \in 0 .. n |-> IF i = 0 THEN 1 ELSE p[i - 1] * s[i]]
           q == CHOOSE p : Q(p)
           S == {k \in Nat : k <= n => q[k] \in Pos}
<1>1. n \in Nat /\ \A i \in 1 .. n : s[i] \in Pos
  OBVIOUS
<1>2. \A x, y \in Pos : x * y \in Pos
  OBVIOUS
<1>3. step \in [(1 .. n) \X Pos -> Pos]
  BY <1>1, <1>2
<1>4. PICK p \in [0 .. n -> Pos] : p[0] = 1 /\ \A i \in 1 .. n : p[i] = step[<<i, p[i - 1]>>]
  <2>1. \E p : Solves(p, Pos, 1, n, step)
    <3>1. 1 \in Pos /\ n \in Nat
      OBVIOUS
    <3> HIDE DEF step, Pos, n
    <3> QED BY <1>3, <3>1, Recursion
  <2> HIDE DEF step, Pos
  <2> QED BY <2>1 DEF Solves
<1>5. Q(p)
  <2>1. ASSUME NEW i \in 1 .. n PROVE p[i] = p[i - 1] * s[i]
    <3>1. p[i - 1] \in Pos
      <4>1. i - 1 \in 0 .. n
        BY <1>1
      <4> HIDE DEF Pos, step, n
      <4> QED BY <4>1
    <3>2. step[<<i, p[i - 1]>>] = p[i - 1] * s[i]
      BY <3>1
    <3> QED BY <1>4, <3>2
  <2> QED BY <1>4, <2>1
<1>6. Q(q)
  BY <1>5
<1>7. Prod(s) = q[n]
  BY DEF Prod
<1> HIDE DEF q
<1>8. q[0] = 1 /\ \A i \in 1 .. n : q[i] = q[i - 1] * s[i]
  <2>1. 0 \in 0 .. n /\ \A i \in 1 .. n : i \in 0 .. n /\ i # 0
    BY <1>1
  <2> HIDE DEF n
  <2> QED BY <1>6, <2>1, Zenon
<1>9. 0 \in S /\ \A k \in Nat : k \in S => k + 1 \in S
  <2>1. 0 \in S
    BY <1>8
  <2>2. ASSUME NEW k \in Nat, k \in S, k + 1 <= n PROVE q[k + 1] \in Pos
    <3>1. q[k + 1] = q[k] * s[k + 1] /\ q[k] \in Pos /\ s[k + 1] \in Pos
      BY <1>1, <1>8, <2>2
    <3> QED BY <1>2, <3>1
  <2> QED BY <2>1, <2>2
<1> HIDE DEF S
<1>10. Nat \subseteq S
  BY <1>9, Inductive
<1>11. \A k \in 0 .. n : q[k] \in Pos
  BY <1>1, <1>10 DEF S
<1>12. q \in [0 .. n -> Pos]
  BY <1>6, <1>11
<1> QED BY <1>7, <1>8, <1>12

LEMMA SeqElements ==
  ASSUME NEW V, NEW s \in Seq(V)
  PROVE  DOMAIN s = 1 .. Len(s) /\ \A k \in 1 .. Len(s) : s[k] \in V
  OBVIOUS

\* Append, kept whole: the provers would open an equality with it.
Push(s, x) == Append(s, x)

LEMMA MapAppends ==
  ASSUME NEW V, NEW g, NEW r \in Seq(V), NEW x \in V
  PROVE  Pick(g, Append(r, x)) = Push(Pick(g, r), g[x])
<1> DEFINE n == Len(r)
           t == Append(r, x)
           u == [i \in DOMAIN r |-> g[r[i]]]
           m == Append(u, g[x])
           W == {g[v] : v \in V}
<1>1. n \in Nat /\ DOMAIN r = 1 .. n /\ \A i \in 1 .. n : r[i] \in V
  OBVIOUS
<1>2. DOMAIN t = 1 .. n + 1 /\ t[n + 1] = x /\ \A i \in 1 .. n : t[i] = r[i]
  OBVIOUS
<1>3. u \in Seq(W) /\ Len(u) = n /\ g[x] \in W
  BY <1>1
<1>4. \A i \in 1 .. n : u[i] = g[r[i]]
  BY <1>1
<1> HIDE DEF n, t, u, W
<1>5. m \in Seq(W) /\ Len(m) = n + 1
  BY <1>3
<1>6. m[n + 1] = g[x] /\ \A i \in 1 .. n : m[i] = u[i]
  BY <1>3
<1> HIDE DEF m
<1>7. m = [i \in 1 .. n + 1 |-> m[i]]
  BY <1>5
<1>8. \A i \in 1 .. n + 1 : i = n + 1 \/ i \in 1 .. n
  BY <1>1
<1>9. \A i \in 1 .. n + 1 : m[i] = g[t[i]]
  BY <1>2, <1>4, <1>6, <1>8
<1>10. m = [i \in DOMAIN t |-> g[t[i]]]
  BY <1>2, <1>7, <1>9
<1> QED BY <1>10 DEF m, t, u, Pick, Push

LEMMA Affine ==
  ASSUME NEW a \in Nat, NEW b \in Nat, NEW c \in Nat
  PROVE  a * b + c \in Nat
OBVIOUS

\* A place has a coordinate for each axis.
IsPlace(shape, x) == x \in [1 .. Len(shape) -> Nat] /\ \A i \in 1 .. Len(shape) : x[i] < shape[i]

\* The positions in row-major order of the places on the first so many axes.
LEMMA Indices ==
  ASSUME NEW s \in Seq(Nat \ {0}), NEW x \in [1 .. Len(s) -> Nat]
  PROVE  \E p \in [0 .. Len(s) -> Nat] :
           /\ p[0] = 0 /\ Linear(s, x) = p[Len(s)]
           /\ \A i \in 1 .. Len(s) : p[i] = p[i - 1] * s[i] + x[i]
<1> DEFINE n == Len(s)
           step == [y \in (1 .. n) \X Nat |-> y[2] * s[y[1]] + x[y[1]]]
           Q(p) == p = [i \in 0 .. n |-> IF i = 0 THEN 0 ELSE p[i - 1] * s[i] + x[i]]
           q == CHOOSE p : Q(p)
           S == {k \in Nat : k <= n => q[k] \in Nat}
<1>1. n \in Nat /\ \A i \in 1 .. n : s[i] \in Nat /\ x[i] \in Nat
  OBVIOUS
<1>2. \A y \in (1 .. n) \X Nat : y[2] * s[y[1]] + x[y[1]] \in Nat
  <2> TAKE y \in (1 .. n) \X Nat
  <2>1. y[2] \in Nat /\ s[y[1]] \in Nat /\ x[y[1]] \in Nat
    BY <1>1
  <2> QED BY ONLY <2>1, Affine
<1>3. step \in [(1 .. n) \X Nat -> Nat]
  BY <1>2
<1>4. PICK p \in [0 .. n -> Nat] : p[0] = 0 /\ \A i \in 1 .. n : p[i] = step[<<i, p[i - 1]>>]
  <2>1. \E p : Solves(p, Nat, 0, n, step)
    <3>1. 0 \in Nat /\ n \in Nat
      OBVIOUS
    <3> HIDE DEF step, n
    <3> QED BY <1>3, <3>1, Recursion
  <2> HIDE DEF step
  <2> QED BY <2>1 DEF Solves
<1>5. Q(p)
  <2>1. ASSUME NEW i \in 1 .. n PROVE p[i] = p[i - 1] * s[i] + x[i]
    <3>0. i - 1 \in 0 .. n
      BY <1>1
    <3>1. p[i - 1] \in Nat
      BY <3>0
    <3>2. step[<<i, p[i - 1]>>] = p[i - 1] * s[i] + x[i]
      BY <3>1
    <3> QED BY <1>4, <3>2
  <2> QED BY <1>4, <2>1
<1>6. Q(q)
  BY <1>5
<1>7. Linear(s, x) = q[n]
  BY DEF Linear
<1> HIDE DEF q
<1>8. q[0] = 0 /\ \A i \in 1 .. n : q[i] = q[i - 1] * s[i] + x[i]
  <2>1. 0 \in 0 .. n /\ \A i \in 1 .. n : i \in 0 .. n /\ i # 0
    BY <1>1
  <2> HIDE DEF n
  <2> QED BY <1>6, <2>1, Zenon
<1>9. 0 \in S /\ \A k \in Nat : k \in S => k + 1 \in S
  <2>1. 0 \in S
    BY <1>8
  <2>2. ASSUME NEW k \in Nat, k \in S, k + 1 <= n PROVE q[k + 1] \in Nat
    <3>1. /\ q[k + 1] = q[k] * s[k + 1] + x[k + 1]
          /\ q[k] \in Nat /\ s[k + 1] \in Nat /\ x[k + 1] \in Nat
      BY <1>1, <1>8, <2>2
    <3>2. q[k] * s[k + 1] + x[k + 1] \in Nat
      BY ONLY <3>1, Affine
    <3> QED BY <3>1, <3>2, Zenon
  <2> QED BY <2>1, <2>2
<1> HIDE DEF S
<1>10. Nat \subseteq S
  BY <1>9, Inductive
<1>11. \A k \in 0 .. n : q[k] \in Nat
  BY <1>1, <1>10 DEF S
<1>12. q \in [0 .. n -> Nat]
  BY <1>6, <1>11
<1> QED BY <1>7, <1>8, <1>12

\* q[i] holds those of the first i axes that have one of the names.
PickSteps(names, C, q) ==
  /\ q \in [0 .. Len(names) -> Seq(1 .. Len(names))]
  /\ q[0] = <<>> /\ AxesIn(names, C) = q[Len(names)]
  /\ \A i \in 1 .. Len(names) :
       q[i] = IF names[i] \in C THEN Append(q[i - 1], i) ELSE q[i - 1]

\* The axes with some of the names, in their order.
LEMMA AxesSteps ==
  ASSUME NEW names, NEW C, Len(names) \in Nat
  PROVE  \E q : PickSteps(names, C, q)
<1> DEFINE n == Len(names)
           V == Seq(1 .. n)
           step == [y \in (1 .. n) \X V |-> IF names[y[1]] \in C THEN Append(y[2], y[1]) ELSE y[2]]
           Q(p) == p = [i \in 0 .. n |-> IF i = 0 THEN <<>>
                          ELSE IF names[i] \in C THEN Append(p[i - 1], i) ELSE p[i - 1]]
           q == CHOOSE p : Q(p)
           S == {k \in Nat : k <= n => q[k] \in V}
<1>2. \A i \in 1 .. n : \A v \in V : Append(v, i) \in V
  OBVIOUS
<1>3. step \in [(1 .. n) \X V -> V]
  BY <1>2
<1>4. PICK p \in [0 .. n -> V] : p[0] = <<>> /\ \A i \in 1 .. n : p[i] = step[<<i, p[i - 1]>>]
  <2>1. \E p : Solves(p, V, <<>>, n, step)
    <3>1. <<>> \in V /\ n \in Nat
      OBVIOUS
    <3> HIDE DEF step, n, V
    <3> QED BY <1>3, <3>1, Recursion
  <2> HIDE DEF step, V
  <2> QED BY <2>1 DEF Solves
<1>5. Q(p)
  <2>1. ASSUME NEW i \in 1 .. n
        PROVE  p[i] = IF names[i] \in C THEN Append(p[i - 1], i) ELSE p[i - 1]
    <3> HIDE DEF V
    <3>0. i - 1 \in 0 .. n
      OBVIOUS
    <3>1. p[i - 1] \in V
      BY <3>0
    <3>2. step[<<i, p[i - 1]>>] = IF names[i] \in C THEN Append(p[i - 1], i) ELSE p[i - 1]
      BY <3>1
    <3> QED BY <1>4, <3>2
  <2> HIDE DEF V
  <2>2. p = [i \in 0 .. n |-> p[i]]
    OBVIOUS
  <2>3. p[0] = <<>>
    BY <1>4
  <2>4. \A i \in 0 .. n : i = 0 \/ i \in 1 .. n
    OBVIOUS
  <2>5. \A i \in 0 .. n : p[i] = IF i = 0 THEN <<>>
          ELSE IF names[i] \in C THEN Append(p[i - 1], i) ELSE p[i - 1]
    BY <2>1, <2>3, <2>4, Zenon
  <2> QED BY <2>2, <2>5, Zenon
<1>6. Q(q)
  BY <1>5
<1>7. AxesIn(names, C) = q[n]
  BY DEF AxesIn
<1> HIDE DEF q
<1>8. q[0] = <<>> /\ \A i \in 1 .. n :
        q[i] = IF names[i] \in C THEN Append(q[i - 1], i) ELSE q[i - 1]
  <2>1. 0 \in 0 .. n /\ \A i \in 1 .. n : i \in 0 .. n /\ i # 0
    OBVIOUS
  <2> QED BY <1>6, <2>1, Zenon
<1>9. 0 \in S /\ \A k \in Nat : k \in S => k + 1 \in S
  <2>0. <<>> \in V
    OBVIOUS
  <2> HIDE DEF V
  <2>1. 0 \in S
    BY <1>8, <2>0
  <2>2. ASSUME NEW k \in Nat, k \in S, k + 1 <= n PROVE q[k + 1] \in V
    <3>0. k + 1 \in 1 .. n /\ (k + 1) - 1 = k
      BY <2>2
    <3>1. q[k + 1] = Append(q[k], k + 1) \/ q[k + 1] = q[k]
      BY <1>8, <3>0
    <3>2. q[k] \in V
      BY <2>2
    <3> QED BY <1>2, <3>0, <3>1, <3>2
  <2> QED BY <2>1, <2>2
<1> HIDE DEF S
<1>10. Nat \subseteq S
  BY <1>9, Inductive
<1> HIDE DEF V
<1>11. \A k \in 0 .. n : q[k] \in V
  BY <1>10 DEF S
<1>12. q \in [0 .. n -> V]
  BY <1>6, <1>11
<1>13. PickSteps(names, C, q)
  BY <1>7, <1>8, <1>12 DEF V, PickSteps
<1> QED BY <1>13

LEMMA AxesAreAxes ==
  ASSUME NEW names, NEW C, Len(names) \in Nat
  PROVE  AxesIn(names, C) \in Seq(1 .. Len(names))
<1>1. Len(names) \in 0 .. Len(names)
  OBVIOUS
<1>2. PICK q : PickSteps(names, C, q)
  BY AxesSteps
<1> QED BY <1>1, <1>2 DEF PickSteps

LEMMA DigitBelow ==
  ASSUME NEW a \in Nat, NEW b \in Nat, NEW d \in Nat, NEW x \in Nat, a < b, x < d
  PROVE  a * d + x < b * d
<1>1. (b - (a + 1)) * d \in Nat
  <2>1. b - (a + 1) \in Nat
    OBVIOUS
  <2> QED BY <2>1
<1>2. (b - (a + 1)) * d = b * d - (a * d + d)
  OBVIOUS
<1>3. a * d \in Nat /\ b * d \in Nat
  OBVIOUS
<1> QED BY <1>1, <1>2, <1>3

\* A number and its last digit.
SameNumber(a, x, b, y, d) == a * d + x = b * d + y

LEMMA Digit ==
  ASSUME NEW a \in Nat, NEW b \in Nat, NEW d \in Nat, NEW x \in Nat, NEW y \in Nat,
         x < d, y < d, SameNumber(a, x, b, y, d)
  PROVE  a = b /\ x = y
<1>1. a * d \in Nat /\ b * d \in Nat /\ a * d + x = b * d + y
  BY DEF SameNumber
<1>2. ~(a < b)
  <2> SUFFICES ASSUME a < b PROVE FALSE
    OBVIOUS
  <2>1. a * d + x < b * d
    BY DigitBelow
  <2> QED BY <1>1, <2>1
<1>3. ~(b < a)
  <2> SUFFICES ASSUME b < a PROVE FALSE
    OBVIOUS
  <2>1. b * d + y < a * d
    BY DigitBelow
  <2> QED BY <1>1, <2>1
<1>4. a = b
  BY <1>2, <1>3
<1> QED BY <1>1, <1>4

\* Every place has a position of its own below the number of places.
LEMMA LinearInRange ==
  ASSUME NEW s \in Seq(Nat \ {0}), NEW x, IsPlace(s, x)
  PROVE  Linear(s, x) \in 0 .. Prod(s) - 1
<1>1. PICK f \in [0 .. Len(s) -> Nat] :
        /\ f[0] = 0 /\ Linear(s, x) = f[Len(s)]
        /\ \A i \in 1 .. Len(s) : f[i] = f[i - 1] * s[i] + x[i]
  BY Indices DEF IsPlace
<1>2. PICK p \in [0 .. Len(s) -> Nat \ {0}] :
        p[0] = 1 /\ Prod(s) = p[Len(s)] /\ \A i \in 1 .. Len(s) : p[i] = p[i - 1] * s[i]
  BY Products
<1> DEFINE n == Len(s)
           S == {k \in Nat : k <= n => f[k] < p[k]}
<1>3. 0 \in S
  BY <1>1, <1>2
<1>4. ASSUME NEW k \in Nat, k \in S, k + 1 <= n PROVE f[k + 1] < p[k + 1]
  <2>1. /\ f[k + 1] = f[k] * s[k + 1] + x[k + 1] /\ p[k + 1] = p[k] * s[k + 1]
        /\ f[k] \in Nat /\ p[k] \in Nat /\ s[k + 1] \in Nat /\ x[k + 1] \in Nat
        /\ f[k] < p[k] /\ x[k + 1] < s[k + 1]
    <3>1. k + 1 \in 1 .. n /\ (k + 1) - 1 = k /\ k \in 0 .. n /\ n = Len(s)
      BY <1>4
    <3> HIDE DEF n
    <3>2. f[k + 1] = f[k] * s[k + 1] + x[k + 1] /\ p[k + 1] = p[k] * s[k + 1]
      BY <1>1, <1>2, <3>1
    <3>3. f[k] \in Nat /\ p[k] \in Nat /\ s[k + 1] \in Nat
      BY <3>1
    <3>4. x[k + 1] \in Nat /\ x[k + 1] < s[k + 1]
      BY <3>1 DEF IsPlace
    <3> QED BY <1>4, <3>1, <3>2, <3>3, <3>4
  <2> DEFINE a == f[k]
             b == p[k]
             d == s[k + 1]
             u == x[k + 1]
  <2>2. /\ a \in Nat /\ b \in Nat /\ d \in Nat /\ u \in Nat /\ a < b /\ u < d
        /\ f[k + 1] = a * d + u /\ p[k + 1] = b * d
    BY <2>1
  <2> HIDE DEF a, b, d, u
  <2>3. a * d + u < b * d
    BY <2>2, DigitBelow
  <2> QED BY <2>2, <2>3
<1>5. n \in S
  <2> HIDE DEF n
  <2>1. \A k \in Nat : k \in S => k + 1 \in S
    BY <1>4
  <2>2. n \in Nat
    BY DEF n
  <2> HIDE DEF S
  <2> QED BY <1>3, <2>1, <2>2, Inductive
<1>6. f[n] \in Nat /\ p[n] \in Nat /\ f[n] < p[n]
  BY <1>5
<1> QED BY <1>1, <1>2, <1>6

LEMMA LinearInjective ==
  ASSUME NEW s \in Seq(Nat \ {0}), NEW x, IsPlace(s, x), NEW y, IsPlace(s, y),
         Linear(s, x) = Linear(s, y)
  PROVE  x = y
<1>1. PICK f \in [0 .. Len(s) -> Nat] :
        /\ f[0] = 0 /\ Linear(s, x) = f[Len(s)]
        /\ \A i \in 1 .. Len(s) : f[i] = f[i - 1] * s[i] + x[i]
  BY Indices DEF IsPlace
<1>2. PICK g \in [0 .. Len(s) -> Nat] :
        /\ g[0] = 0 /\ Linear(s, y) = g[Len(s)]
        /\ \A i \in 1 .. Len(s) : g[i] = g[i - 1] * s[i] + y[i]
  BY Indices DEF IsPlace
<1> DEFINE n == Len(s)
           S == {k \in Nat : k <= n => f[n - k] = g[n - k]}
<1>3. n \in Nat
  OBVIOUS
<1>4. ASSUME NEW i \in 1 .. n, f[i] = g[i] PROVE f[i - 1] = g[i - 1] /\ x[i] = y[i]
  <2>1. /\ f[i] = f[i - 1] * s[i] + x[i] /\ g[i] = g[i - 1] * s[i] + y[i]
        /\ f[i - 1] \in Nat /\ g[i - 1] \in Nat /\ s[i] \in Nat
        /\ x[i] \in Nat /\ y[i] \in Nat /\ x[i] < s[i] /\ y[i] < s[i]
    <3>1. i \in 1 .. n /\ i - 1 \in 0 .. n /\ n = Len(s)
      OBVIOUS
    <3> HIDE DEF n
    <3>2. f[i] = f[i - 1] * s[i] + x[i] /\ g[i] = g[i - 1] * s[i] + y[i]
      BY <1>1, <1>2, <3>1
    <3>3. f[i - 1] \in Nat /\ g[i - 1] \in Nat
      BY <3>1
    <3>5. s[i] \in Nat
      BY <3>1
    <3>4. x[i] \in Nat /\ y[i] \in Nat /\ x[i] < s[i] /\ y[i] < s[i]
      BY <3>1 DEF IsPlace
    <3> QED BY <3>2, <3>3, <3>4, <3>5
  <2>2. f[i - 1] * s[i] + x[i] = g[i - 1] * s[i] + y[i]
    BY <1>4, <2>1
  <2> HIDE DEF n
  <2> DEFINE a == f[i - 1]
             b == g[i - 1]
             d == s[i]
             u == x[i]
             v == y[i]
  <2>3. /\ a \in Nat /\ b \in Nat /\ d \in Nat /\ u \in Nat /\ v \in Nat
        /\ u < d /\ v < d /\ SameNumber(a, u, b, v, d)
    BY <2>1, <2>2 DEF SameNumber
  <2> HIDE DEF a, b, d, u, v
  <2>4. a = b /\ u = v
    BY <2>3, Digit
  <2> QED BY <2>4 DEF a, b, u, v
<1>5. 0 \in S
  <2>1. f[n] = g[n]
    BY <1>1, <1>2
  <2> HIDE DEF n
  <2> QED BY <1>3, <2>1
<1>6. ASSUME NEW k \in Nat, k \in S, k + 1 <= n PROVE f[n - (k + 1)] = g[n - (k + 1)]
  <2>1. n - k \in 1 .. n /\ (n - k) - 1 = n - (k + 1) /\ f[n - k] = g[n - k]
    BY <1>3, <1>6
  <2> HIDE DEF n
  <2>2. f[(n - k) - 1] = g[(n - k) - 1]
    BY <1>4, <2>1
  <2> QED BY <2>1, <2>2
<1> HIDE DEF n
<1>7. Nat \subseteq S
  <2>1. \A k \in Nat : k \in S => k + 1 \in S
    BY <1>6
  <2> HIDE DEF S
  <2> QED BY <1>5, <2>1, Inductive
<1>8. \A i \in 1 .. n : x[i] = y[i]
  <2> TAKE i \in 1 .. n
  <2>1. n - i \in Nat /\ n - i <= n /\ n - (n - i) = i
    BY <1>3
  <2>2. n - i \in S
    BY <1>7, <2>1
  <2>3. f[n - (n - i)] = g[n - (n - i)]
    BY <2>1, <2>2
  <2>4. f[i] = g[i]
    BY <2>1, <2>3
  <2> QED BY <1>4, <2>4
<1>9. n = Len(s)
  BY DEF n
<1>10. x \in [1 .. n -> Nat] /\ y \in [1 .. n -> Nat]
  BY <1>9 DEF IsPlace
<1>11. x = [i \in 1 .. n |-> x[i]] /\ y = [i \in 1 .. n |-> y[i]]
  BY <1>10
<1> QED BY <1>8, <1>11, Zenon

-----------------------------------------------------------------------------
(* Meshes *)

LEMMA ClusterAxesFacts ==
  ASSUME NEW m, IsMesh(m)
  PROVE  /\ ClusterAxes(m) \in Seq(1 .. Len(m.launch_shape))
         /\ ClusterShape(m) \in Seq(Nat \ {0})
         /\ Len(ClusterShape(m)) = Len(ClusterAxes(m))
         /\ \A k \in 1 .. Len(ClusterAxes(m)) :
              ClusterShape(m)[k] = m.launch_shape[ClusterAxes(m)[k]]
<1> DEFINE n == Len(m.launch_shape)
           axes == ClusterAxes(m)
<1>1. n \in Nat /\ Len(m.launch_names) = n /\ \A i \in 1 .. n : m.launch_shape[i] \in Nat \ {0}
  BY DEF IsMesh
<1>2. axes \in Seq(1 .. n)
  BY <1>1, AxesAreAxes DEF ClusterAxes
<1>3. ClusterShape(m) = [k \in DOMAIN axes |-> m.launch_shape[axes[k]]]
  BY DEF ClusterShape, Pick
<1> HIDE DEF axes, n
<1>4. DOMAIN axes = 1 .. Len(axes) /\ \A k \in 1 .. Len(axes) : axes[k] \in 1 .. n
  BY <1>2, SeqElements
<1>5. \A k \in 1 .. Len(axes) : m.launch_shape[axes[k]] \in Nat \ {0}
  BY <1>1, <1>4
<1>6. Len(axes) \in Nat
  BY <1>2
<1> QED BY <1>2, <1>3, <1>4, <1>5, <1>6 DEF n, axes

LEMMA CoordInRange ==
  ASSUME NEW shape \in Seq(Nat \ {0}), NEW id \in Nat, NEW i \in 1 .. Len(shape)
  PROVE  Coord(shape, id, i) \in Nat /\ Coord(shape, id, i) < shape[i]
<1>1. SubSeq(shape, i + 1, Len(shape)) \in Seq(Nat \ {0})
  OBVIOUS
<1>2. Stride(shape, i) \in Nat \ {0}
  <2> DEFINE t == SubSeq(shape, i + 1, Len(shape))
  <2>1. t \in Seq(Nat \ {0})
    BY <1>1
  <2> HIDE DEF t
  <2>2. PICK p \in [0 .. Len(t) -> Nat \ {0}] : Prod(t) = p[Len(t)]
    BY <2>1, Products
  <2>3. Len(t) \in 0 .. Len(t)
    BY <2>1
  <2>4. Prod(t) \in Nat \ {0}
    BY <2>2, <2>3
  <2> QED BY <2>4 DEF Stride, t
<1>3. shape[i] \in Nat \ {0}
  OBVIOUS
<1>4. \A x \in Nat : \A d \in Nat \ {0} : x \div d \in Nat
  OBVIOUS
<1>5. \A x \in Nat : \A d \in Nat \ {0} : (x % d) \in Nat /\ (x % d) < d
  OBVIOUS
<1>6. id \div Stride(shape, i) \in Nat
  BY <1>2, <1>4
<1> QED BY <1>3, <1>5, <1>6 DEF Coord

LEMMA CoordsArePlaces ==
  ASSUME NEW m, IsMesh(m), NEW id \in Nat
  PROVE  IsPlace(ClusterShape(m), Coords(m.launch_shape, id, ClusterAxes(m)))
<1> DEFINE n == Len(m.launch_shape)
           axes == ClusterAxes(m)
           x == Coords(m.launch_shape, id, axes)
<1>1. m.launch_shape \in Seq(Nat \ {0})
  BY DEF IsMesh
<1>2. /\ axes \in Seq(1 .. n) /\ Len(ClusterShape(m)) = Len(axes)
      /\ \A k \in 1 .. Len(axes) : ClusterShape(m)[k] = m.launch_shape[axes[k]]
  BY ClusterAxesFacts
<1>3. x = [k \in DOMAIN axes |-> Coord(m.launch_shape, id, axes[k])]
  BY DEF Coords
<1> HIDE DEF axes, x, n
<1>4. DOMAIN axes = 1 .. Len(axes) /\ \A k \in 1 .. Len(axes) : axes[k] \in 1 .. n
  BY <1>2, SeqElements
<1>5. \A k \in 1 .. Len(axes) :
        /\ Coord(m.launch_shape, id, axes[k]) \in Nat
        /\ Coord(m.launch_shape, id, axes[k]) < m.launch_shape[axes[k]]
  BY <1>1, <1>4, CoordInRange DEF n
<1>6. x \in [1 .. Len(axes) -> Nat] /\ \A k \in 1 .. Len(axes) : x[k] < ClusterShape(m)[k]
  BY <1>2, <1>3, <1>4, <1>5
<1> QED BY <1>2, <1>6 DEF IsPlace, x, axes

LEMMA MembersArePlaces ==
  ASSUME NEW m, IsMesh(m), NEW outer, NEW x \in Members(m, outer)
  PROVE  IsPlace(ClusterShape(m), x)
<1>1. Range(m.ids) \subseteq Nat
  BY DEF IsMesh, Range
<1>2. PICK id \in Range(m.ids) : x = Coords(m.launch_shape, id, ClusterAxes(m))
  BY DEF Members
<1> QED BY <1>1, <1>2, CoordsArePlaces

\* Places have positions of their own, so a mesh with as many as the cluster has
\* them all.
LEMMA AllPlaces ==
  ASSUME NEW s \in Seq(Nat \ {0}), NEW M, \A x \in M : IsPlace(s, x),
         ~(Cardinality(M) < Prod(s))
  PROVE  {Linear(s, x) : x \in M} = 0 .. Prod(s) - 1
<1> DEFINE T == 0 .. Prod(s) - 1
           f == [x \in M |-> Linear(s, x)]
<1>1. Prod(s) \in Nat \ {0}
  <2>1. PICK p \in [0 .. Len(s) -> Nat \ {0}] : Prod(s) = p[Len(s)]
    BY Products
  <2>2. Len(s) \in 0 .. Len(s)
    OBVIOUS
  <2> QED BY <2>1, <2>2
<1>2. f \in [M -> T] /\ \A x, y \in M : f[x] = f[y] => x = y
  <2>1. \A x \in M : Linear(s, x) \in T
    BY LinearInRange
  <2>2. \A x, y \in M : Linear(s, x) = Linear(s, y) => x = y
    BY LinearInjective
  <2> HIDE DEF T
  <2> QED BY <2>1, <2>2
<1>3. f \in Injection(M, T)
  <2> HIDE DEF f, T
  <2> QED BY <1>2 DEF Injection, IsInjective
<1>4. IsFiniteSet(T) /\ Cardinality(T) = Prod(s)
  <2>1. 0 \in Int /\ Prod(s) - 1 \in Int /\ ~(0 > Prod(s) - 1) /\ (Prod(s) - 1) - 0 + 1 = Prod(s)
    BY <1>1
  <2> QED BY <2>1, FS_Interval
<1>5. IsFiniteSet(M) /\ Cardinality(M) <= Cardinality(T)
        /\ (Cardinality(M) = Cardinality(T) <=> f \in Surjection(M, T))
  <2> HIDE DEF f, T
  <2> QED BY <1>3, <1>4, FS_Injection
<1>6. f \in Surjection(M, T)
  <2> HIDE DEF f, T
  <2>1. Cardinality(M) \in Nat
    BY <1>5, FS_CardinalityType
  <2> QED BY <1>1, <1>4, <1>5, <2>1
<1>7. \A t \in T : \E x \in M : f[x] = t
  <2> HIDE DEF f, T
  <2> QED BY <1>6 DEF Surjection
<1>8. {Linear(s, x) : x \in M} = T
  <2> HIDE DEF T
  <2> QED BY <1>2, <1>7
<1> QED BY <1>8

LEMMA ProdOne == ASSUME NEW x \in Nat \ {0} PROVE Prod(<<x, 1, 1>>) = x /\ Prod(<<x>>) = x
<1>1. <<x, 1, 1>> \in Seq(Nat \ {0}) /\ <<x>> \in Seq(Nat \ {0})
  OBVIOUS
<1>2. PICK p \in [0 .. 3 -> Nat \ {0}] :
        /\ p[0] = 1 /\ Prod(<<x, 1, 1>>) = p[3]
        /\ \A i \in 1 .. 3 : p[i] = p[i - 1] * <<x, 1, 1>>[i]
  <2> DEFINE s == <<x, 1, 1>>
  <2>1. s \in Seq(Nat \ {0}) /\ Len(s) = 3
    BY <1>1
  <2> HIDE DEF s
  <2>2. \E p \in [0 .. Len(s) -> Nat \ {0}] :
           p[0] = 1 /\ Prod(s) = p[Len(s)] /\ \A i \in 1 .. Len(s) : p[i] = p[i - 1] * s[i]
    BY <2>1, Products
  <2>3. \E p \in [0 .. 3 -> Nat \ {0}] :
           p[0] = 1 /\ Prod(s) = p[3] /\ \A i \in 1 .. 3 : p[i] = p[i - 1] * s[i]
    BY <2>1, <2>2
  <2> QED BY <2>3 DEF s
<1>3. PICK q \in [0 .. 1 -> Nat \ {0}] :
        /\ q[0] = 1 /\ Prod(<<x>>) = q[1]
        /\ \A i \in 1 .. 1 : q[i] = q[i - 1] * <<x>>[i]
  <2> DEFINE s == <<x>>
  <2>1. s \in Seq(Nat \ {0}) /\ Len(s) = 1
    BY <1>1
  <2> HIDE DEF s
  <2>2. \E q \in [0 .. Len(s) -> Nat \ {0}] :
           q[0] = 1 /\ Prod(s) = q[Len(s)] /\ \A i \in 1 .. Len(s) : q[i] = q[i - 1] * s[i]
    BY <2>1, Products
  <2>3. \E q \in [0 .. 1 -> Nat \ {0}] :
           q[0] = 1 /\ Prod(s) = q[1] /\ \A i \in 1 .. 1 : q[i] = q[i - 1] * s[i]
    BY <2>1, <2>2
  <2> QED BY <2>3 DEF s
<1>4. p[1] = 1 * x /\ p[2] = p[1] * 1 /\ p[3] = p[2] * 1
  BY <1>2
<1>5. q[1] = 1 * x
  BY <1>3
<1> QED BY <1>2, <1>3, <1>4, <1>5

\* The cluster that is launched for a mesh has as many CTAs as the mesh's.
LEMMA DimsProduct ==
  ASSUME NEW m, IsMesh(m), ClusterAxes(m) # <<>>
  PROVE  Prod(ClusterDims(m)) = Prod(ClusterShape(m))
<1> DEFINE s == ClusterShape(m)
           n == Len(s)
           Pos == Nat \ {0}
           t == [i \in 1 .. 3 |-> IF i <= n THEN s[i] ELSE 1]
<1>1. s \in Seq(Pos) /\ n \in Nat /\ n # 0
  BY ClusterAxesFacts
<1>2. ClusterDims(m) = IF n > 3 THEN <<Prod(s), 1, 1>> ELSE t
  BY DEF ClusterDims
<1> HIDE DEF s
<1>3. PICK p \in [0 .. n -> Pos] :
        p[0] = 1 /\ Prod(s) = p[n] /\ \A i \in 1 .. n : p[i] = p[i - 1] * s[i]
  BY <1>1, Products
<1>4. CASE n > 3
  <2>1. Prod(s) \in Pos
    <3>1. n \in 0 .. n
      BY <1>1
    <3> QED BY <1>3, <3>1
  <2> QED BY <1>2, <1>4, <2>1, ProdOne DEF s
<1>5. CASE ~(n > 3)
  <2>1. t \in Seq(Pos) /\ Len(t) = 3
    <3>1. \A i \in 1 .. n : s[i] \in Pos
      BY <1>1, SeqElements
    <3>2. \A i \in 1 .. 3 : i <= n => i \in 1 .. n
      BY <1>1
    <3> HIDE DEF n
    <3>3. \A i \in 1 .. 3 : (IF i <= n THEN s[i] ELSE 1) \in Pos
      BY <3>1, <3>2
    <3> QED BY <3>3
  <2> HIDE DEF t
  <2>2. \E f \in [0 .. Len(t) -> Pos] :
          f[0] = 1 /\ Prod(t) = f[Len(t)] /\ \A i \in 1 .. Len(t) : f[i] = f[i - 1] * t[i]
    BY <2>1, Products
  <2>3. PICK f \in [0 .. 3 -> Pos] :
          f[0] = 1 /\ Prod(t) = f[3] /\ \A i \in 1 .. 3 : f[i] = f[i - 1] * t[i]
    BY <2>1, <2>2
  <2>4. f[1] = f[0] * t[1] /\ f[2] = f[1] * t[2] /\ f[3] = f[2] * t[3]
    BY <2>3
  <2>5. f[1] \in Pos /\ f[2] \in Pos /\ f[3] \in Pos
    BY <2>3
  <2>6. \A i \in 1 .. n : p[i] = p[i - 1] * s[i]
    BY <1>3
  <2>7. /\ t[1] = s[1] /\ t[2] = (IF 2 <= n THEN s[2] ELSE 1)
        /\ t[3] = (IF 3 <= n THEN s[3] ELSE 1)
    BY <1>1 DEF t
  <2> HIDE DEF n
  <2>8. n = 1 \/ n = 2 \/ n = 3
    BY <1>1, <1>5
  <2>9. f[1] = p[1]
    <3>1. p[1] = p[0] * s[1]
      BY <2>6, <2>8
    <3> QED BY <1>3, <2>3, <2>4, <2>7, <3>1
  <2>10. ASSUME n = 1 PROVE Prod(t) = Prod(s)
    BY <1>3, <2>3, <2>4, <2>5, <2>7, <2>9, <2>10
  <2>11. n # 1 => f[2] = p[2]
    <3>1. n # 1 => p[2] = p[1] * s[2]
      BY <2>6, <2>8
    <3> QED BY <2>4, <2>7, <2>8, <2>9, <3>1
  <2>12. ASSUME n = 2 PROVE Prod(t) = Prod(s)
    BY <1>3, <2>3, <2>4, <2>5, <2>7, <2>11, <2>12
  <2>13. ASSUME n = 3 PROVE Prod(t) = Prod(s)
    <3>1. p[3] = p[2] * s[3]
      BY <2>6, <2>13
    <3> QED BY <1>3, <2>3, <2>4, <2>7, <2>11, <2>13, <3>1
  <2>14. Prod(t) = Prod(s)
    BY <2>8, <2>10, <2>12, <2>13
  <2> QED BY <1>2, <1>5, <2>14 DEF s
<1> QED BY <1>4, <1>5

LEMMA ProdAppend ==
  ASSUME NEW s \in Seq(Nat \ {0}), NEW x \in Nat \ {0}
  PROVE  Prod(s) \in Nat \ {0} /\ Prod(Append(s, x)) = Prod(s) * x
<1> DEFINE n == Len(s)
           t == Append(s, x)
           Pos == Nat \ {0}
<1>1. n \in Nat /\ t \in Seq(Pos) /\ Len(t) = n + 1 /\ t[n + 1] = x
        /\ \A i \in 1 .. n : t[i] = s[i]
  OBVIOUS
<1>2. PICK p \in [0 .. n -> Pos] :
        p[0] = 1 /\ Prod(s) = p[n] /\ \A i \in 1 .. n : p[i] = p[i - 1] * s[i]
  BY Products
<1> HIDE DEF t, n
<1>3. \E f \in [0 .. Len(t) -> Pos] :
        f[0] = 1 /\ Prod(t) = f[Len(t)] /\ \A i \in 1 .. Len(t) : f[i] = f[i - 1] * t[i]
  BY <1>1, Products
<1>4. PICK f \in [0 .. n + 1 -> Pos] :
        f[0] = 1 /\ Prod(t) = f[n + 1] /\ \A i \in 1 .. n + 1 : f[i] = f[i - 1] * t[i]
  BY <1>1, <1>3
<1> DEFINE S == {k \in Nat : k <= n => f[k] = p[k]}
<1>5. 0 \in S
  BY <1>2, <1>4
<1>6. ASSUME NEW k \in Nat, k \in S, k + 1 <= n PROVE f[k + 1] = p[k + 1]
  <2>1. k + 1 \in 1 .. n /\ k + 1 \in 1 .. n + 1 /\ (k + 1) - 1 = k
    BY <1>1, <1>6
  <2>2. f[k + 1] = f[k] * t[k + 1] /\ p[k + 1] = p[k] * s[k + 1] /\ t[k + 1] = s[k + 1]
    BY <1>1, <1>2, <1>4, <2>1
  <2>3. f[k] = p[k]
    BY <1>1, <1>6
  <2> QED BY <2>2, <2>3
<1>7. n \in S
  <2>1. \A k \in Nat : k \in S => k + 1 \in S
    BY <1>6
  <2> HIDE DEF S
  <2> QED BY <1>1, <1>5, <2>1, Inductive
<1>8. f[n + 1] = f[n] * x
  <2>1. n + 1 \in 1 .. n + 1 /\ (n + 1) - 1 = n
    BY <1>1
  <2> QED BY <1>1, <1>4, <2>1
<1>9. f[n] = p[n]
  BY <1>1, <1>7
<1>10. p[n] \in Pos
  BY <1>1, <1>2
<1>11. Prod(s) \in Pos /\ Prod(t) = Prod(s) * x
  BY <1>2, <1>4, <1>8, <1>9, <1>10
<1> QED BY <1>11 DEF t

\* Axes of a single index do not change how many places there are.
LEMMA KeptProduct ==
  ASSUME NEW lens \in Seq(Nat \ {0}), NEW keep, Len(keep) = Len(lens),
         \A i \in 1 .. Len(lens) : keep[i] \in {TRUE} \/ lens[i] = 1
  PROVE  LET kept == AxesIn(keep, {TRUE}) IN
         Pick(lens, kept) \in Seq(Nat \ {0}) /\ Prod(Pick(lens, kept)) = Prod(lens)
<1> DEFINE n == Len(lens)
           Pos == Nat \ {0}
<1>1. n \in Nat /\ Len(keep) = n /\ \A i \in 1 .. n : lens[i] \in Pos
  OBVIOUS
<1>2. PICK p \in [0 .. n -> Pos] :
        p[0] = 1 /\ Prod(lens) = p[n] /\ \A i \in 1 .. n : p[i] = p[i - 1] * lens[i]
  BY Products
<1>3. PICK q \in [0 .. n -> Seq(1 .. n)] :
        /\ q[0] = <<>> /\ AxesIn(keep, {TRUE}) = q[n]
        /\ \A i \in 1 .. n : q[i] = IF keep[i] \in {TRUE} THEN Append(q[i - 1], i) ELSE q[i - 1]
  <2> HIDE DEF n
  <2>1. PICK q : PickSteps(keep, {TRUE}, q)
    BY <1>1, AxesSteps
  <2>2. /\ q \in [0 .. n -> Seq(1 .. n)] /\ q[0] = <<>> /\ AxesIn(keep, {TRUE}) = q[n]
        /\ \A i \in 1 .. n : q[i] = IF keep[i] \in {TRUE} THEN Append(q[i - 1], i) ELSE q[i - 1]
    BY <1>1, <2>1 DEF PickSteps
  <2> QED BY <2>2
<1> DEFINE P(k) == Pick(lens, q[k])
           S == {k \in Nat : k <= n => P(k) \in Seq(Pos) /\ Prod(P(k)) = p[k]}
<1>4. 0 \in S
  <2>1. P(0) = <<>>
    BY <1>3 DEF Pick
  <2>2. <<>> \in Seq(Pos) /\ Prod(<<>>) = 1
    <3> DEFINE e == <<>>
    <3>1. e \in Seq(Pos) /\ Len(e) = 0
      OBVIOUS
    <3> HIDE DEF e
    <3>2. \E f \in [0 .. Len(e) -> Pos] : f[0] = 1 /\ Prod(e) = f[Len(e)]
      BY <3>1, Products
    <3> QED BY <3>1, <3>2 DEF e
  <2> QED BY <1>2, <2>1, <2>2
<1>5. ASSUME NEW k \in Nat, k \in S, k + 1 <= n
      PROVE  P(k + 1) \in Seq(Pos) /\ Prod(P(k + 1)) = p[k + 1]
  <2>1. k + 1 \in 1 .. n /\ (k + 1) - 1 = k /\ k \in 0 .. n
    BY <1>1, <1>5
  <2>2. P(k) \in Seq(Pos) /\ Prod(P(k)) = p[k] /\ p[k + 1] = p[k] * lens[k + 1]
    BY <1>2, <1>5, <2>1
  <2>3. q[k] \in Seq(1 .. n) /\ lens[k + 1] \in Pos /\ p[k] \in Pos
    BY <1>1, <2>1
  <2>4. CASE keep[k + 1] \in {TRUE}
    <3>1. q[k + 1] = Append(q[k], k + 1)
      BY <1>3, <2>1, <2>4
    <3>2. P(k + 1) = Push(P(k), lens[k + 1])
      <4> DEFINE r == q[k]
      <4>1. r \in Seq(1 .. n) /\ q[k + 1] = Append(r, k + 1)
        BY <2>3, <3>1
      <4> HIDE DEF r
      <4>2. Pick(lens, Append(r, k + 1)) = Push(Pick(lens, r), lens[k + 1])
        <5>1. k + 1 \in 1 .. n
          BY <2>1
        <5> QED BY ONLY <4>1, <5>1, MapAppends
      <4> QED BY <4>1, <4>2 DEF r
    <3>3. Push(P(k), lens[k + 1]) \in Seq(Pos)
          /\ Prod(Push(P(k), lens[k + 1])) = Prod(P(k)) * lens[k + 1]
      <4> DEFINE u == P(k)
      <4>1. u \in Seq(Pos)
        BY <2>2
      <4> HIDE DEF u, P
      <4>2. Append(u, lens[k + 1]) \in Seq(Pos)
        BY <2>3, <4>1
      <4> QED BY <2>3, <4>1, <4>2, ProdAppend DEF u, Push
    <3> HIDE DEF P
    <3> QED BY <2>2, <3>2, <3>3
  <2>5. CASE ~(keep[k + 1] \in {TRUE})
    <3>1. q[k + 1] = q[k] /\ lens[k + 1] = 1
      BY <1>1, <1>3, <2>1, <2>5
    <3> QED BY <2>2, <2>3, <3>1
  <2> QED BY <2>4, <2>5
<1>6. n \in S
  <2> HIDE DEF P
  <2>1. \A k \in Nat : k \in S => k + 1 \in S
    BY <1>5
  <2> HIDE DEF S
  <2> QED BY <1>1, <1>4, <2>1, Inductive
<1>7. P(n) \in Seq(Pos) /\ Prod(P(n)) = p[n]
  BY <1>1, <1>6
<1> QED BY <1>2, <1>3, <1>7

\* A mesh whose ids are as many as its shape says
IsShaped(m) ==
  /\ IsMesh(m)
  /\ DOMAIN m = {"shape", "names", "ids", "launch_shape", "launch_names"}
  /\ m = [f \in DOMAIN m |-> m[f]]
  /\ m.shape \in Seq(Nat \ {0}) /\ Len(m.ids) = Prod(m.shape)

\* The indices that a key selects on each axis are of that axis.
IsKey(m, key) ==
  /\ DOMAIN key = 1 .. Len(m.shape)
  /\ \A i \in 1 .. Len(m.shape) :
       /\ key[i].at \in Seq(Nat) /\ key[i].at # <<>>
       /\ \A k \in 1 .. Len(key[i].at) : key[i].at[k] < m.shape[i]
       /\ key[i].keep = TRUE \/ Len(key[i].at) = 1

\* What is assumed of the meshes of a kernel holds of all that device_mesh makes:
\* a new mesh has as many ids as places.
THEOREM NewIsMesh ==
  ASSUME NEW shape \in Seq(Nat \ {0}), NEW names, Len(names) = Len(shape)
  PROVE  IsShaped(NewMesh(shape, names))
<1> DEFINE m == NewMesh(shape, names)
<1>1. Prod(shape) \in Nat \ {0}
  <2>1. PICK p \in [0 .. Len(shape) -> Nat \ {0}] : Prod(shape) = p[Len(shape)]
    BY Products
  <2>2. Len(shape) \in 0 .. Len(shape)
    OBVIOUS
  <2> QED BY <2>1, <2>2
<1>2. /\ m.shape = shape /\ m.launch_shape = shape /\ m.launch_names = names
      /\ m.ids = [p \in 1 .. Prod(shape) |-> p - 1]
      /\ DOMAIN m = {"shape", "names", "ids", "launch_shape", "launch_names"}
      /\ m = [f \in DOMAIN m |-> m[f]]
  BY DEF NewMesh
<1> HIDE DEF m
<1>3. m.ids \in Seq(Nat) /\ Len(m.ids) = Prod(shape) /\ m.ids # <<>>
  <2> DEFINE n == Prod(shape)
  <2>1. n \in Nat \ {0} /\ m.ids = [p \in 1 .. n |-> p - 1]
    BY <1>1, <1>2
  <2> HIDE DEF n
  <2>2. \A p \in 1 .. n : p - 1 \in Nat
    BY <2>1
  <2>3. m.ids \in Seq(Nat) /\ Len(m.ids) = n
    BY <2>1, <2>2
  <2> QED BY <2>1, <2>3 DEF n
<1> QED BY <1>2, <1>3 DEF IsShaped, IsMesh, m

\* So has a mesh that is indexed (device_mesh.__getitem__), whatever axes the key
\* drops; its ids are some of those that are indexed.
THEOREM SliceIsMesh ==
  ASSUME NEW m, IsShaped(m), NEW key, IsKey(m, key)
  PROVE  IsShaped(GetItem(m, key)) /\ Range(GetItem(m, key).ids) \subseteq Range(m.ids)
<1> DEFINE lens == [i \in DOMAIN key |-> Len(key[i].at)]
           place0(p) == [i \in DOMAIN key |-> key[i].at[Coord(lens, p, i) + 1]]
           n == Prod(lens)
           ids == [p \in 1 .. n |-> m.ids[Linear(m.shape, place0(p - 1)) + 1]]
           g == GetItem(m, key)
           keep == [i \in DOMAIN key |-> key[i].keep]
           kept == AxesIn(keep, {TRUE})
<1>1. /\ g.ids = ids /\ g.launch_shape = m.launch_shape /\ g.launch_names = m.launch_names
      /\ g.shape = Pick(lens, kept)
      /\ DOMAIN g = {"shape", "names", "ids", "launch_shape", "launch_names"}
      /\ g = [f \in DOMAIN g |-> g[f]]
  <2>1. g = [m EXCEPT !.shape = Pick(lens, kept), !.names = Pick(m.names, kept), !.ids = ids]
    BY DEF GetItem
  <2> HIDE DEF kept, ids, lens, g
  <2> QED BY <2>1 DEF IsShaped
<1>2. lens \in Seq(Nat \ {0}) /\ Len(lens) = Len(m.shape) /\ DOMAIN key = 1 .. Len(m.shape)
  <2>1. \A i \in 1 .. Len(m.shape) : Len(key[i].at) \in Nat \ {0}
    BY DEF IsKey
  <2>2. Len(m.shape) \in Nat /\ DOMAIN key = 1 .. Len(m.shape)
    BY DEF IsShaped, IsKey
  <2> QED BY <2>1, <2>2
<1>3. n \in Nat \ {0}
  <2> HIDE DEF lens
  <2>1. PICK p \in [0 .. Len(lens) -> Nat \ {0}] : Prod(lens) = p[Len(lens)]
    BY <1>2, Products
  <2>2. Len(lens) \in 0 .. Len(lens)
    BY <1>2
  <2> QED BY <2>1, <2>2
<1>4. ASSUME NEW p \in Nat PROVE IsPlace(m.shape, place0(p))
  <2>1. ASSUME NEW i \in 1 .. Len(m.shape)
        PROVE  place0(p)[i] \in Nat /\ place0(p)[i] < m.shape[i]
    <3>1. Coord(lens, p, i) \in Nat /\ Coord(lens, p, i) < lens[i]
      <4>1. i \in 1 .. Len(lens)
        BY <1>2
      <4> HIDE DEF lens
      <4> QED BY <1>2, <4>1, CoordInRange
    <3>2. lens[i] = Len(key[i].at) /\ place0(p)[i] = key[i].at[Coord(lens, p, i) + 1]
      BY <1>2
    <3> HIDE DEF lens, place0
    <3>3. Coord(lens, p, i) + 1 \in 1 .. Len(key[i].at)
      <4>1. Len(key[i].at) \in Nat
        BY DEF IsKey
      <4> QED BY <3>1, <3>2, <4>1
    <3>4. key[i].at[Coord(lens, p, i) + 1] \in Nat
          /\ key[i].at[Coord(lens, p, i) + 1] < m.shape[i]
      <4> DEFINE picked == key[i].at
      <4>1. picked \in Seq(Nat) /\ \A k \in 1 .. Len(picked) : picked[k] < m.shape[i]
        BY DEF IsKey
      <4>2. \A k \in 1 .. Len(picked) : picked[k] \in Nat
        BY ONLY <4>1, SeqElements
      <4> QED BY ONLY <3>3, <4>1, <4>2
    <3> QED BY <3>2, <3>4
  <2>2. place0(p) \in [1 .. Len(m.shape) -> Nat]
    <3>1. DOMAIN place0(p) = 1 .. Len(m.shape) /\ place0(p) = [i \in DOMAIN key |-> place0(p)[i]]
      BY <1>2
    <3> HIDE DEF place0
    <3> QED BY <1>2, <2>1, <3>1
  <2> HIDE DEF place0
  <2> QED BY <2>1, <2>2 DEF IsPlace
<1>5. ASSUME NEW p \in 1 .. n PROVE ids[p] \in Range(m.ids) /\ ids[p] \in Nat
  <2> DEFINE k == Linear(m.shape, place0(p - 1))
  <2>1. p - 1 \in Nat
    BY <1>3
  <2>2. m.shape \in Seq(Nat \ {0}) /\ m.ids \in Seq(Nat) /\ Len(m.ids) = Prod(m.shape)
    BY DEF IsShaped, IsMesh
  <2>3. k \in 0 .. Prod(m.shape) - 1
    <3> HIDE DEF place0
    <3> QED BY <1>4, <2>1, <2>2, LinearInRange
  <2>4. ids[p] = m.ids[k + 1]
    OBVIOUS
  <2> HIDE DEF k, ids, n
  <2>5. k + 1 \in 1 .. Len(m.ids)
    BY <2>2, <2>3
  <2> QED BY <2>2, <2>4, <2>5 DEF Range
<1>6. DOMAIN ids = 1 .. n /\ ids = [p \in 1 .. n |-> ids[p]]
  OBVIOUS
<1>9. Pick(lens, kept) \in Seq(Nat \ {0}) /\ Prod(Pick(lens, kept)) = n
  <2>1. \A i \in 1 .. Len(lens) : keep[i] \in {TRUE} \/ lens[i] = 1
    BY <1>2 DEF IsKey
  <2>2. Len(keep) = Len(lens)
    BY <1>2
  <2> HIDE DEF lens, keep
  <2> QED BY <1>2, <2>1, <2>2, KeptProduct
<1> HIDE DEF ids, n, g, kept, lens
<1>7. ids \in Seq(Nat) /\ Len(ids) = n /\ ids # <<>>
  BY <1>3, <1>5, <1>6
<1>8. Range(ids) \subseteq Range(m.ids)
  <2>1. Range(ids) = {ids[p] : p \in 1 .. n}
    BY <1>6 DEF Range
  <2> QED BY <1>5, <2>1
<1>10. IsShaped(g)
  BY <1>1, <1>7, <1>9 DEF IsShaped, IsMesh
<1> QED BY <1>1, <1>8, <1>10 DEF g

\* So has one that is reshaped to as many places (device_mesh.reshape).
THEOREM ReshapedIsMesh ==
  ASSUME NEW m, IsShaped(m), NEW shape \in Seq(Nat \ {0}), Prod(shape) = Prod(m.shape), NEW flat
  PROVE  IsShaped(Reshape(m, shape, flat)) /\ Reshape(m, shape, flat).ids = m.ids
<1> DEFINE g == Reshape(m, shape, flat)
<1>1. /\ g.ids = m.ids /\ g.shape = shape
      /\ g.launch_shape = m.launch_shape /\ g.launch_names = m.launch_names
      /\ DOMAIN g = {"shape", "names", "ids", "launch_shape", "launch_names"}
      /\ g = [f \in DOMAIN g |-> g[f]]
  BY DEF IsShaped, Reshape
<1> HIDE DEF g
<1>2. IsShaped(g)
  BY <1>1 DEF IsShaped, IsMesh
<1> QED BY <1>1, <1>2 DEF g

Ranks(m, id) ==
  {Linear(ClusterShape(m), Coords(m.launch_shape, j, ClusterAxes(m))) : j \in {n \in Range(m.ids) :
     Coords(m.launch_shape, n, OuterAxes(m)) = Coords(m.launch_shape, id, OuterAxes(m))}}

LEMMA RanksOfMembers ==
  ASSUME NEW m, NEW id \in Range(m.ids)
  PROVE  LET outer == Coords(m.launch_shape, id, OuterAxes(m)) IN
         /\ outer \in OuterCoords(m)
         /\ Ranks(m, id) = {Linear(ClusterShape(m), x) : x \in Members(m, outer)}
<1> DEFINE outer == Coords(m.launch_shape, id, OuterAxes(m))
           Ids == {n \in Range(m.ids) : Coords(m.launch_shape, n, OuterAxes(m)) = outer}
           F(j) == Coords(m.launch_shape, j, ClusterAxes(m))
           L(x) == Linear(ClusterShape(m), x)
<1>1. Members(m, outer) = {F(j) : j \in Ids}
  BY DEF Members
<1>2. Ranks(m, id) = {L(F(j)) : j \in Ids}
  BY DEF Ranks
<1>3. {L(x) : x \in {F(j) : j \in Ids}} = {L(F(j)) : j \in Ids}
  <2> HIDE DEF F, L, Ids
  <2> QED OBVIOUS
<1>4. outer \in OuterCoords(m)
  BY DEF OuterCoords
<1> QED BY <1>1, <1>2, <1>3, <1>4

\* A slice whose members are the same everywhere has one mask.
LEMMA SliceSpans ==
  ASSUME NEW m, Inferable(m), NEW id \in Range(m.ids)
  PROVE  Mask(m) = Ranks(m, id)
<1>1. SomeMembers(m) = Members(m, Coords(m.launch_shape, id, OuterAxes(m)))
  BY RanksOfMembers DEF Inferable
<1> QED BY <1>1, RanksOfMembers DEF Mask

\* A mesh that is no slice of the cluster has all of it, at every outer place.
LEMMA WholeSpans ==
  ASSUME NEW m, IsMesh(m), ~UsesGrid(m), ~IsClusterSubmesh(m), ClusterAxes(m) # <<>>,
         NEW outer \in OuterCoords(m)
  PROVE  {Linear(ClusterShape(m), x) : x \in Members(m, outer)} = 0 .. Prod(ClusterShape(m)) - 1
<1>1. ~(Cardinality(Members(m, outer)) < Prod(ClusterShape(m)))
  BY DEF IsClusterSubmesh
<1>2. ClusterShape(m) \in Seq(Nat \ {0})
  BY ClusterAxesFacts
<1>3. \A x \in Members(m, outer) : IsPlace(ClusterShape(m), x)
  BY MembersArePlaces
<1> QED BY <1>1, <1>2, <1>3, AllPlaces

-----------------------------------------------------------------------------
(* The front end and the launch *)

Op == [kind : {"grid", "submesh", "cluster"}, statement : Statements]

\* An op runs as it was meant to under these options.
Fits(o, dims, coop) ==
  /\ o.kind # "grid" /\ o.statement.mesh # NoMesh =>
       ClusterDims(o.statement.mesh) \in {Single, dims}
  /\ o.kind = "grid" => coop
\* It is of the kind that its mesh calls for.
ByMesh(o) ==
  LET m == o.statement.mesh IN
  /\ o.kind = "submesh" => m # NoMesh /\ Inferable(m)
  /\ o.kind = "cluster" /\ m # NoMesh => ~UsesGrid(m) /\ ~IsClusterSubmesh(m)

\* What each step of the front end and the launch preserves
FrontInv ==
  /\ code \in Seq(Statements) /\ at \in Nat /\ ops \in Seq(Op)
  /\ \A i \in DOMAIN ops : Fits(ops[i], cluster_dims, cooperative) /\ ByMesh(ops[i])
\* A launched cluster is of the size that the options name, and its kernel has no
\* barrier of the grid.
LaunchInv ==
  stage = "cluster" =>
    /\ Prod(cluster_dims) = Cardinality(CTAs) /\ cluster \in Clusters
    /\ \A i \in DOMAIN ops : ops[i].kind # "grid"
\* The counter means nothing before the launch, nor after one that cannot clear
\* it.
GridInv ==
  /\ stage = "grid" /\ Clears => IInv
  /\ stage # "grid" =>
       /\ pc = [b \in Blocks |-> "code"] /\ old = [b \in Blocks |-> 0]
       /\ passed = [b \in Blocks |-> 0]
KernelInv == FrontInv /\ LaunchInv /\ GridInv

LEMMA KernelInitInv == KernelInit => KernelInv
<1> SUFFICES ASSUME KernelInit PROVE KernelInv
  OBVIOUS
<1>1. PICK k \in Kernels : code = k.code
  BY DEF KernelInit
<1>2. FrontInv
  BY <1>1, KernelsAssumption DEF KernelInit, FrontInv
<1>3. LaunchInv /\ GridInv
  BY DEF KernelInit, LaunchInv, GridInv
<1> QED BY <1>2, <1>3 DEF KernelInv

LEMMA StatementType ==
  ASSUME FrontInv, Compiling PROVE Statement \in Statements
  BY DEF FrontInv, Compiling, Statement

\* An op that is added keeps the invariant if it runs under the options it
\* leaves, and the others still do.
LEMMA EmitInv ==
  ASSUME FrontInv, Compiling, NEW kind \in {"grid", "submesh", "cluster"},
         Emit(kind), UNCHANGED code, at' = at + 1,
         Fits([kind |-> kind, statement |-> Statement], cluster_dims', cooperative'),
         ByMesh([kind |-> kind, statement |-> Statement]),
         \A i \in DOMAIN ops : Fits(ops[i], cluster_dims', cooperative')
  PROVE  FrontInv'
<1>0. PICK o : o = [kind |-> kind, statement |-> Statement]
  OBVIOUS
<1>1. o \in Op
  BY <1>0, StatementType DEF Op
<1>2. ops' = Append(ops, o) /\ ops \in Seq(Op)
  BY <1>0 DEF Emit, FrontInv
<1>3. /\ Len(ops') = Len(ops) + 1 /\ ops' \in Seq(Op)
      /\ \A i \in DOMAIN ops' : i \in DOMAIN ops \/ i = Len(ops) + 1
      /\ \A i \in DOMAIN ops : ops'[i] = ops[i]
  BY <1>1, <1>2
<1>4. ASSUME NEW i, i = Len(ops) + 1 PROVE ops'[i] = o
  BY <1>1, <1>2, <1>4
<1>5. Fits(o, cluster_dims', cooperative') /\ ByMesh(o)
  BY <1>0
<1>6. ASSUME NEW i \in DOMAIN ops'
      PROVE  Fits(ops'[i], cluster_dims', cooperative') /\ ByMesh(ops'[i])
  <2>1. CASE i \in DOMAIN ops
    <3>1. ops'[i] = ops[i] /\ Fits(ops[i], cluster_dims', cooperative') /\ ByMesh(ops[i])
      BY <2>1, <1>3 DEF FrontInv
    <3> QED BY <3>1 DEF Fits, ByMesh
  <2>2. CASE i = Len(ops) + 1
    <3>1. ops'[i] = o
      BY <2>2, <1>4, Zenon
    <3> QED BY <3>1, <1>5, Zenon
  <2> QED BY <2>1, <2>2, <1>3
<1>7. code' \in Seq(Statements) /\ at' \in Nat
  BY DEF FrontInv
<1> QED BY <1>3, <1>6, <1>7 DEF FrontInv

\* An accepted mesh changes nothing for the ops before it: the options are
\* still unset, or they are its own.
LEMMA KeepsFitting ==
  ASSUME FrontInv, NEW m, ClusterFits(m), LaunchClusterOf(m), NEW i \in DOMAIN ops
  PROVE  Fits(ops[i], cluster_dims', cooperative')
<1>1. cluster_dims' = ClusterDims(m) /\ cooperative' = cooperative
  BY DEF LaunchClusterOf
<1>2. cluster_dims = Single \/ cluster_dims = ClusterDims(m)
  BY DEF ClusterFits
<1>3. Fits(ops[i], cluster_dims, cooperative)
  BY DEF FrontInv
<1> QED BY <1>1, <1>2, <1>3 DEF Fits

LEMMA ScopeInv == FrontInv /\ Scope => FrontInv'
<1> SUFFICES ASSUME FrontInv, Scope PROVE FrontInv'
  OBVIOUS
<1>1. ClusterFits(Mesh) /\ LaunchClusterOf(Mesh) /\ UNCHANGED <<ops, code>> /\ at' = at + 1
  BY DEF Scope, Handled
<1>2. \A i \in DOMAIN ops : Fits(ops[i], cluster_dims', cooperative')
  BY <1>1, KeepsFitting
<1> QED BY <1>1, <1>2 DEF FrontInv

LEMMA SliceBarrierInv == FrontInv /\ SliceBarrier => FrontInv'
<1> SUFFICES ASSUME FrontInv, SliceBarrier PROVE FrontInv'
  OBVIOUS
<1>1. /\ Compiling /\ ClusterFits(Mesh) /\ LaunchClusterOf(Mesh) /\ Emit("submesh")
      /\ UNCHANGED code /\ at' = at + 1
  BY DEF SliceBarrier, IsBarrier, Handled
<1>2. \A i \in DOMAIN ops : Fits(ops[i], cluster_dims', cooperative')
  BY <1>1, KeepsFitting
<1>3. Fits([kind |-> "submesh", statement |-> Statement], cluster_dims', cooperative')
  BY <1>1 DEF Fits, LaunchClusterOf, Mesh
<1>4. ByMesh([kind |-> "submesh", statement |-> Statement])
  BY DEF SliceBarrier, OfSlice, ByMesh, Mesh
<1> QED BY <1>1, <1>2, <1>3, <1>4, EmitInv

LEMMA ClusterBarrierInv == FrontInv /\ ClusterBarrierCall => FrontInv'
<1> SUFFICES ASSUME FrontInv, ClusterBarrierCall PROVE FrontInv'
  OBVIOUS
<1>1. Compiling /\ Emit("cluster") /\ UNCHANGED code /\ at' = at + 1
  BY DEF ClusterBarrierCall, IsBarrier, Handled
<1>4. ByMesh([kind |-> "cluster", statement |-> Statement])
  BY DEF ClusterBarrierCall, OfSlice, OfGrid, ByMesh, Mesh
<1>2. CASE Mesh = NoMesh
  <2>1. UNCHANGED <<cluster_dims, cooperative>>
    BY <1>2 DEF ClusterBarrierCall, options
  <2>2. Fits([kind |-> "cluster", statement |-> Statement], cluster_dims', cooperative')
    BY <1>2 DEF Fits, Mesh
  <2> QED BY <1>1, <1>4, <2>1, <2>2, EmitInv DEF FrontInv
<1>3. CASE Mesh # NoMesh
  <2>1. ClusterFits(Mesh) /\ LaunchClusterOf(Mesh)
    BY <1>3 DEF ClusterBarrierCall
  <2>2. \A i \in DOMAIN ops : Fits(ops[i], cluster_dims', cooperative')
    BY <2>1, KeepsFitting
  <2>3. Fits([kind |-> "cluster", statement |-> Statement], cluster_dims', cooperative')
    BY <2>1 DEF Fits, LaunchClusterOf, Mesh
  <2> QED BY <1>1, <1>4, <2>2, <2>3, EmitInv
<1> QED BY <1>2, <1>3

LEMMA GridBarrierCallInv == FrontInv /\ GridBarrierCall => FrontInv'
<1> SUFFICES ASSUME FrontInv, GridBarrierCall PROVE FrontInv'
  OBVIOUS
<1>1. /\ Compiling /\ Emit("grid") /\ UNCHANGED <<code, cluster_dims>> /\ at' = at + 1
      /\ cooperative' = TRUE
  BY DEF GridBarrierCall, IsBarrier, Handled
<1>2. \A i \in DOMAIN ops : Fits(ops[i], cluster_dims', cooperative')
  BY <1>1 DEF FrontInv, Fits
<1>3. Fits([kind |-> "grid", statement |-> Statement], cluster_dims', cooperative')
  BY <1>1 DEF Fits
<1>4. ByMesh([kind |-> "grid", statement |-> Statement])
  BY DEF ByMesh
<1> QED BY <1>1, <1>2, <1>3, <1>4, EmitInv

LEMMA FrontNext == FrontInv /\ [KernelNext]_all => FrontInv'
<1> SUFFICES ASSUME FrontInv, [KernelNext]_all PROVE FrontInv'
  OBVIOUS
<1>1. CASE UNCHANGED compiled
  BY <1>1 DEF FrontInv, compiled, options
<1>2. Raise \/ LaunchCluster \/ LaunchGrid => UNCHANGED compiled
  BY DEF Raise, LaunchCluster, LaunchGrid
<1>3. (\E b \in Blocks : GridStep(b)) \/ (\E c \in CTAs : ClusterStep(c)) => UNCHANGED compiled
  BY DEF GridStep, ClusterStep
<1>4. KernelTerminated \/ UNCHANGED all => UNCHANGED compiled
  BY DEF KernelTerminated, all
<1> QED
  BY <1>1, <1>2, <1>3, <1>4, ScopeInv, SliceBarrierInv, ClusterBarrierInv, GridBarrierCallInv
     DEF KernelNext, Compile

-----------------------------------------------------------------------------
\* The grid's variables before the launch
LEMMA IdleArrived ==
  ASSUME GridInv, stage # "grid" PROVE \A b \in Blocks : Arrived(b) = 0
  BY DEF GridInv, Arrived

\* A launch of a grid barrier is cooperative, so its counter is cleared if the
\* launcher can clear it.
LEMMA LaunchGridInit ==
  ASSUME KernelInv, LaunchGrid, Clears PROVE Init' /\ stage' = "grid"
<1>1. \E i \in DOMAIN ops : ops[i].kind = "grid"
  BY DEF LaunchGrid, Kinds
<1>2. cooperative
  BY <1>1 DEF KernelInv, FrontInv, Fits
<1>3. counter' = 0
  BY <1>2 DEF LaunchGrid, Clears
<1> QED BY <1>3 DEF KernelInv, GridInv, LaunchGrid, Compiled, Init

LEMMA GridNext == KernelInv /\ [KernelNext]_all => GridInv'
<1> SUFFICES ASSUME KernelInv, [KernelNext]_all PROVE GridInv'
  OBVIOUS
<1>1. CASE LaunchGrid
  <2>1. Init' => IInv'
    BY InitInv, PTL
  <2>2. stage' = "grid"
    BY <1>1 DEF LaunchGrid
  <2> QED BY <1>1, <2>1, <2>2, LaunchGridInit DEF GridInv
<1>2. ASSUME NEW b \in Blocks, GridStep(b) PROVE GridInv'
  <2>1. (Clears => IInv) /\ [Next]_vars /\ stage' = "grid"
    BY <1>2 DEF GridStep, KernelInv, GridInv, Next
  <2> QED BY <2>1, NextInv DEF GridInv
<1>3. CASE UNCHANGED onGrid /\ (stage' = "grid" <=> stage = "grid")
  <2>1. IInv => IInv'
    BY <1>3, NextInv DEF onGrid, vars
  <2> QED BY <1>3, <2>1 DEF KernelInv, GridInv, onGrid
<1>4. Scope \/ SliceBarrier \/ GridBarrierCall \/ ClusterBarrierCall => UNCHANGED <<stage, onGrid>>
  BY DEF Scope, SliceBarrier, GridBarrierCall, ClusterBarrierCall, Handled
<1>5. Raise \/ LaunchCluster =>
        UNCHANGED onGrid /\ stage' # "grid" /\ stage # "grid"
  BY DEF Raise, LaunchCluster, Compiling, Compiled
<1>6. (\E c \in CTAs : ClusterStep(c)) \/ KernelTerminated \/ UNCHANGED all =>
        UNCHANGED <<stage, onGrid>>
  BY DEF ClusterStep, KernelTerminated, all
<1> QED BY <1>1, <1>2, <1>3, <1>4, <1>5, <1>6 DEF KernelNext, Compile

LEMMA LaunchNext == LaunchInv /\ [KernelNext]_all => LaunchInv'
<1> SUFFICES ASSUME LaunchInv, [KernelNext]_all PROVE LaunchInv'
  OBVIOUS
<1>1. CASE LaunchCluster
  BY <1>1 DEF LaunchCluster, LaunchInv, Kinds, compiled, options
<1>2. Scope \/ SliceBarrier \/ GridBarrierCall \/ ClusterBarrierCall \/ Raise \/ LaunchGrid =>
        stage' # "cluster"
  BY DEF Scope, SliceBarrier, GridBarrierCall, ClusterBarrierCall, Raise, LaunchGrid, IsBarrier,
         Compiling, Handled
<1>3. /\ (\E b \in Blocks : GridStep(b)) => UNCHANGED <<compiled, stage, cluster>>
      /\ (\E c \in CTAs : ClusterStep(c)) => UNCHANGED <<compiled, stage, cluster>>
      /\ KernelTerminated \/ UNCHANGED all => UNCHANGED <<compiled, stage, cluster>>
  BY DEF GridStep, ClusterStep, KernelTerminated, all
<1>4. UNCHANGED <<compiled, stage, cluster>> => LaunchInv'
  BY DEF LaunchInv, compiled, options
<1> QED BY <1>1, <1>2, <1>3, <1>4 DEF KernelNext, Compile, LaunchInv

LEMMA KernelInvariant == KernelSpec => []KernelInv
<1>1. KernelInv /\ [KernelNext]_all => KernelInv'
  BY FrontNext, LaunchNext, GridNext DEF KernelInv
<1> QED BY <1>1, KernelInitInv, PTL DEF KernelSpec

\* The options inferred from the meshes of a kernel's statements, in whatever
\* order, fit each of its barriers when it is launched
\* (_apply_mesh_cluster_launch).
THEOREM LaunchFits == KernelSpec => []LaunchFitsBarriers
<1>1. KernelInv => LaunchFitsBarriers
  BY DEF KernelInv, FrontInv, Fits, LaunchFitsBarriers
<1> QED BY <1>1, KernelInvariant, PTL

LEMMA RanksFromZero ==
  CTAs \subseteq Nat /\ CTAs = 0 .. Cardinality(CTAs) - 1 /\ Cardinality(CTAs) \in Nat
<1>1. Cardinality(CTAs) \in Nat
  BY ClusterAssumption, FS_CardinalityType
<1> QED BY <1>1, ClusterAssumption

LEMMA OpMesh ==
  ASSUME KernelInv, NEW i \in DOMAIN ops
  PROVE  /\ ops[i].kind \in {"grid", "submesh", "cluster"}
         /\ ops[i].statement.mesh # NoMesh => IsMesh(ops[i].statement.mesh)
         /\ Fits(ops[i], cluster_dims, cooperative) /\ ByMesh(ops[i])
<1>1. ops[i] \in Op
  BY SeqElements DEF KernelInv, FrontInv
<1> QED BY <1>1, KernelsAssumption DEF KernelInv, FrontInv, Op

\* A barrier of the whole cluster that was inferred for the launched one.
LEMMA WholeClusterOp ==
  ASSUME KernelInv, stage = "cluster", NEW i \in DOMAIN ops, ops[i].kind = "cluster",
         NEW m, m = ops[i].statement.mesh, m # NoMesh, ClusterAxes(m) # <<>>,
         ClusterDims(m) = Single => cluster_dims = Single
  PROVE  /\ IsMesh(m) /\ ~UsesGrid(m) /\ ~IsClusterSubmesh(m)
         /\ CTAs = 0 .. Prod(ClusterShape(m)) - 1
<1>1. IsMesh(m) /\ ~UsesGrid(m) /\ ~IsClusterSubmesh(m) /\ ClusterDims(m) = cluster_dims
  BY OpMesh DEF ByMesh, Fits
<1>2. Prod(cluster_dims) = Cardinality(CTAs)
  BY DEF KernelInv, LaunchInv
<1>3. Prod(ClusterDims(m)) = Prod(ClusterShape(m))
  BY <1>1, DimsProduct
<1>4. Prod(ClusterShape(m)) = Cardinality(CTAs)
  BY <1>1, <1>2, <1>3
<1> QED BY <1>1, <1>4, RanksFromZero

LEMMA OpSpans ==
  ASSUME KernelInv, stage = "cluster", OfLaunchedCluster, NEW i \in DOMAIN ops,
         NEW m, m = ops[i].statement.mesh, ops[i].kind # "grid", m # NoMesh,
         ClusterAxes(m) # <<>>, NEW id \in Range(m.ids)
  PROVE  Group(ops[i]) = Ranks(m, id)
<1>1. CASE ops[i].kind = "submesh"
  BY <1>1, OpMesh, SliceSpans DEF ByMesh, Group
<1>2. CASE ops[i].kind = "cluster"
  <2>1. ClusterDims(m) = Single => cluster_dims = Single
    BY <1>2 DEF OfLaunchedCluster
  <2>2. /\ IsMesh(m) /\ ~UsesGrid(m) /\ ~IsClusterSubmesh(m)
        /\ CTAs = 0 .. Prod(ClusterShape(m)) - 1
    BY <1>2, <2>1, WholeClusterOp
  <2>3. Group(ops[i]) = CTAs
    BY <1>2 DEF Group
  <2> DEFINE outer == Coords(m.launch_shape, id, OuterAxes(m))
  <2>4. /\ outer \in OuterCoords(m)
        /\ Ranks(m, id) = {Linear(ClusterShape(m), x) : x \in Members(m, outer)}
    BY RanksOfMembers
  <2> HIDE DEF outer
  <2>5. {Linear(ClusterShape(m), x) : x \in Members(m, outer)} = 0 .. Prod(ClusterShape(m)) - 1
    BY <2>2, <2>4, WholeSpans
  <2> QED BY <2>2, <2>3, <2>4, <2>5
<1> QED BY <1>1, <1>2, OpMesh

\* In a launched cluster, a barrier over a mesh synchronizes exactly the CTAs that
\* the mesh has, at every place of its other axes
\* (_infer_submesh_barrier_group): for meshes of any shape, slices of them in
\* any order, and clusters of any size.
THEOREM BarriersSpanMeshes ==
  KernelSpec => [](stage = "cluster" /\ OfLaunchedCluster => BarrierSpansMesh)
<1>1. KernelInv => (stage = "cluster" /\ OfLaunchedCluster => BarrierSpansMesh)
  BY OpSpans DEF BarrierSpansMesh, Ranks
<1> QED BY <1>1, KernelInvariant, PTL

LEMMA Remainders ==
  ASSUME NEW q \in Nat \ {0}, NEW d \in Nat \ {0}, NEW k \in Nat, NEW c \in 0 .. d - 1
  PROVE  ((k * d + c) % (q * d)) % d = c
<1> DEFINE x == k * d + c
           y == q * d
           r == x % y
           a == x \div y
<1>1. x \in Nat /\ y \in Nat \ {0}
  OBVIOUS
<1>2. r \in Nat /\ a \in Nat /\ x = a * y + r
  <2> HIDE DEF x, y
  <2> QED BY <1>1
<1>3. (r % d) \in Nat /\ (r \div d) \in Nat /\ (r % d) < d /\ r = (r \div d) * d + (r % d)
  <2>1. r \in Nat
    BY <1>2
  <2> HIDE DEF r
  <2> QED BY <2>1
<1> DEFINE b == r \div d
           e == r % d
<1>4. k * d + c = (a * q + b) * d + e
  <2>1. x = a * (q * d) + (b * d + e)
    BY <1>2, <1>3
  <2> HIDE DEF a, b, e
  <2>2. a \in Nat /\ b \in Nat /\ e \in Nat
    BY <1>2, <1>3 DEF b, e
  <2>3. a * (q * d) + (b * d + e) = (a * q + b) * d + e
    BY <2>2
  <2> QED BY <2>1, <2>3 DEF x
<1>5. e = c
  <2>1. b \in Nat /\ e \in Nat /\ e < d
    BY <1>3
  <2>2. a * q + b \in Nat
    <3>1. a \in Nat /\ q \in Nat
      BY <1>2
    <3> HIDE DEF a, b
    <3> QED BY <2>1, <3>1, Affine
  <2> DEFINE f == a * q + b
  <2> HIDE DEF b, e, f
  <2>3. SameNumber(k, c, f, e, d) /\ f \in Nat
    BY <1>4, <2>2 DEF f, SameNumber
  <2> QED BY <2>1, <2>3, Digit
<1> QED BY <1>5

\* The innermost axis has a stride of one, so what shard_id computes from
\* %ctaid.x is the CTA's rank, whichever cluster it is in.
LEMMA InnermostShard ==
  ASSUME NEW m, IsMesh(m), NEW n, n = Len(m.launch_shape), n # 0,
         NEW k \in Nat, NEW c \in 0 .. m.launch_shape[n] - 1
  PROVE  ShardId(m, n, k * m.launch_shape[n] + c) = c
<1> DEFINE s == m.launch_shape
           d == s[n]
           Pos == Nat \ {0}
           t == SubSeq(s, n + 1, n)
<1>1. s \in Seq(Pos) /\ n = Len(s) /\ n \in Nat /\ n \in 1 .. n
  BY DEF IsMesh
<1> HIDE DEF s
<1>2. d \in Pos
  BY <1>1, SeqElements
<1>3. PICK p \in [0 .. n -> Pos] : Prod(s) = p[n] /\ \A i \in 1 .. n : p[i] = p[i - 1] * s[i]
  BY ONLY <1>1, Products
<1>4. p[n - 1] \in Pos /\ Prod(s) = p[n - 1] * d
  <2>1. n - 1 \in 0 .. n
    BY <1>1
  <2> QED BY <1>1, <1>3, <2>1
<1>5. Prod(t) = 1
  <2>1. t = <<>>
    BY <1>1
  <2> HIDE DEF t
  <2>2. t \in Seq(Pos) /\ Len(t) = 0
    BY <2>1
  <2>3. \E f \in [0 .. Len(t) -> Pos] : f[0] = 1 /\ Prod(t) = f[Len(t)]
    BY <2>2, Products
  <2> QED BY <2>2, <2>3
<1>6. ShardId(m, n, k * d + c) = (((k * d + c) % Prod(s)) \div 1) % d
  BY <1>1, <1>5 DEF ShardId, Coord, Stride, s
<1> DEFINE q == p[n - 1]
<1> HIDE DEF d, q
<1>7. c \in 0 .. d - 1
  BY DEF d, s
<1>8. k * d + c \in Nat /\ q * d \in Pos /\ q \in Pos
  <2>1. q \in Pos
    BY <1>4 DEF q
  <2>2. \A u, v \in Pos : u * v \in Pos
    OBVIOUS
  <2>3. \A u, v, w \in Nat : u * v + w \in Nat
    OBVIOUS
  <2>4. d \in Nat /\ c \in Nat
    BY <1>2, <1>7
  <2> HIDE DEF Pos
  <2> QED BY <1>2, <2>1, <2>2, <2>3, <2>4
<1>9. (k * d + c) % (q * d) \in Nat
  BY <1>8
<1>10. ((k * d + c) % (q * d)) \div 1 = (k * d + c) % (q * d)
  BY <1>9
<1>11. ((k * d + c) % (q * d)) % d = c
  BY <1>2, <1>7, <1>8, Remainders
<1>12. ShardId(m, n, k * d + c) = c
  BY <1>4, <1>6, <1>10, <1>11 DEF q
<1> QED BY <1>12 DEF d, s

\* The only coordinate of a place in a cluster of one axis
Only(c) == [k \in 1 .. 1 |-> c]

LEMMA LinearOfOne ==
  ASSUME NEW d \in Nat \ {0}, NEW x, IsPlace(<<d>>, x)
  PROVE  x[1] \in 0 .. d - 1 /\ x = Only(x[1]) /\ Linear(<<d>>, x) = x[1]
<1> DEFINE s == <<d>>
<1>1. s \in Seq(Nat \ {0}) /\ Len(s) = 1 /\ s[1] = d
  OBVIOUS
<1>2. IsPlace(s, x)
  OBVIOUS
<1> HIDE DEF s
<1>3. x \in [1 .. 1 -> Nat] /\ x[1] < d
  BY <1>1, <1>2 DEF IsPlace
<1>4. x = Only(x[1]) /\ x[1] \in 0 .. d - 1
  BY <1>3 DEF Only
<1>5. \E p \in [0 .. Len(s) -> Nat] :
        /\ p[0] = 0 /\ Linear(s, x) = p[Len(s)]
        /\ \A i \in 1 .. Len(s) : p[i] = p[i - 1] * s[i] + x[i]
  BY <1>1, <1>3, Indices
<1>6. PICK p \in [0 .. 1 -> Nat] :
        p[0] = 0 /\ Linear(s, x) = p[1] /\ \A i \in 1 .. 1 : p[i] = p[i - 1] * s[i] + x[i]
  BY <1>1, <1>5
<1>7. p[1] = 0 * d + x[1]
  BY <1>1, <1>6
<1>8. Linear(s, x) = x[1]
  BY <1>1, <1>3, <1>6, <1>7
<1> QED BY <1>4, <1>8 DEF s

\* The ranks of a mesh whose cluster is its innermost axis are the coordinates.
LEMMA InnermostMask ==
  ASSUME NEW m, IsMesh(m), NEW n, n = Len(m.launch_shape), ClusterAxes(m) = <<n>>
  PROVE  /\ n # 0 /\ m.launch_shape[n] \in Nat \ {0}
         /\ ClusterShape(m) = <<m.launch_shape[n]>>
         /\ Mask(m) = {c \in 0 .. m.launch_shape[n] - 1 : Only(c) \in SomeMembers(m)}
<1> DEFINE d == m.launch_shape[n]
           M == SomeMembers(m)
<1>1. n \in Nat /\ m.launch_shape \in Seq(Nat \ {0})
  BY DEF IsMesh
<1>2. <<n>> \in Seq(1 .. n)
  BY ClusterAxesFacts
<1>3. n \in 1 .. n
  <2>1. <<n>>[1] \in 1 .. n
    BY <1>2, SeqElements
  <2> QED BY <2>1
<1>4. n # 0 /\ d \in Nat \ {0}
  BY <1>1, <1>3
<1>5. ClusterShape(m) = <<d>>
  BY DEF ClusterShape, Pick
<1>6. \A x \in M : IsPlace(<<d>>, x)
  BY <1>5, MembersArePlaces DEF SomeMembers
<1> HIDE DEF d
<1>7. \A x \in M : x[1] \in 0 .. d - 1 /\ x = Only(x[1]) /\ Linear(<<d>>, x) = x[1]
  BY <1>4, <1>6, LinearOfOne
<1>8. Mask(m) = {Linear(<<d>>, x) : x \in M}
  BY <1>5 DEF Mask
<1> HIDE DEF M
<1>9. \A c : Only(c)[1] = c
  BY DEF Only
<1>10. {Linear(<<d>>, x) : x \in M} = {c \in 0 .. d - 1 : Only(c) \in M}
  <2>1. ASSUME NEW x \in M PROVE Linear(<<d>>, x) \in {c \in 0 .. d - 1 : Only(c) \in M}
    BY <1>7
  <2>2. ASSUME NEW c \in 0 .. d - 1, Only(c) \in M PROVE Linear(<<d>>, Only(c)) = c
    BY <1>7, <1>9, <2>2
  <2> QED BY <2>1, <2>2
<1> QED BY <1>4, <1>5, <1>8, <1>10 DEF d, M

LEMMA ShardOp ==
  ASSUME KernelInv, stage = "cluster", Innermost, NEW i \in DOMAIN ops,
         ops[i].statement.by = "shard"
  PROVE  Group(ops[i]) = {c \in CTAs : Executes(ops[i].statement, cluster, c)}
<1> DEFINE m == ops[i].statement.mesh
           n == Len(m.launch_shape)
           d == m.launch_shape[n]
<1>1. /\ m # NoMesh /\ ClusterAxes(m) = <<n>>
      /\ (ClusterDims(m) = Single => cluster_dims = Single)
  BY DEF Innermost
<1>2. IsMesh(m) /\ ops[i].kind \in {"submesh", "cluster"} /\ ClusterDims(m) = cluster_dims
  <2>1. ops[i].kind # "grid"
    BY DEF KernelInv, LaunchInv
  <2> QED BY <1>1, <2>1, OpMesh DEF Fits
<1>3. Prod(cluster_dims) = Cardinality(CTAs) /\ cluster \in Nat
  BY ClusterAssumption DEF KernelInv, LaunchInv
<1>4. /\ n # 0 /\ d \in Nat \ {0} /\ ClusterShape(m) = <<d>>
      /\ Mask(m) = {c \in 0 .. d - 1 : Only(c) \in SomeMembers(m)}
  BY <1>1, <1>2, InnermostMask
<1> HIDE DEF m, n
<1>5. ClusterAxes(m) # <<>>
  BY <1>1
<1>6. CTAs = 0 .. d - 1
  <2>1. Prod(ClusterDims(m)) = Prod(<<d>>)
    BY <1>2, <1>4, <1>5, DimsProduct
  <2>2. Prod(<<d>>) = d
    BY <1>4, ProdOne
  <2>3. Cardinality(CTAs) = d
    BY <1>2, <1>3, <2>1, <2>2
  <2> QED BY <2>3, RanksFromZero
<1>7. cluster_dims[1] = d
  <2> DEFINE s == ClusterShape(m)
  <2>1. Len(s) = 1 /\ s[1] = d
    BY <1>4
  <2>2. cluster_dims = IF Len(s) > 3 THEN <<Prod(s), 1, 1>>
                       ELSE [k \in 1 .. 3 |-> IF k <= Len(s) THEN s[k] ELSE 1]
    BY <1>2, <1>5 DEF ClusterDims
  <2> HIDE DEF s
  <2> QED BY <2>1, <2>2
<1>8. Group(ops[i]) = Mask(m)
  <2>1. CASE ops[i].kind = "submesh"
    BY <2>1 DEF Group, m
  <2>2. CASE ops[i].kind = "cluster"
    <3>1. ~UsesGrid(m) /\ ~IsClusterSubmesh(m)
      BY <1>1, <2>2, OpMesh DEF ByMesh, m
    <3> DEFINE outer == CHOOSE o \in OuterCoords(m) : TRUE
    <3>2. outer \in OuterCoords(m)
      <4>1. m.ids[1] \in Range(m.ids)
        BY <1>2 DEF IsMesh, Range
      <4>2. \E o : o \in OuterCoords(m)
        BY <4>1 DEF OuterCoords
      <4> QED BY <4>2
    <3>3. Mask(m) = {Linear(ClusterShape(m), x) : x \in Members(m, outer)}
      BY DEF Mask, SomeMembers
    <3> HIDE DEF outer
    <3>4. Mask(m) = 0 .. Prod(<<d>>) - 1
      BY <1>2, <1>4, <1>5, <3>1, <3>2, <3>3, WholeSpans
    <3>5. Prod(<<d>>) = d
      BY <1>4, ProdOne
    <3>6. Group(ops[i]) = CTAs
      BY <2>2 DEF Group
    <3> QED BY <1>6, <3>4, <3>5, <3>6
  <2> QED BY <1>2, <2>1, <2>2
<1>9. ASSUME NEW c \in CTAs
      PROVE  Executes(ops[i].statement, cluster, c) <=> Only(c) \in SomeMembers(m)
  <2>1. c \in 0 .. d - 1 /\ c % d = c
    BY <1>4, <1>6
  <2>2. Pid(cluster, c) = cluster * d + c
    BY <1>7, <2>1 DEF Pid
  <2>3. ShardId(m, n, Pid(cluster, c)) = c
    BY <1>2, <1>3, <1>4, <2>1, <2>2, InnermostShard DEF n
  <2> DEFINE x == [k \in DOMAIN ClusterAxes(m) |-> ShardId(m, ClusterAxes(m)[k], Pid(cluster, c))]
  <2>4. DOMAIN ClusterAxes(m) = 1 .. 1 /\ ClusterAxes(m)[1] = n
    BY <1>1 DEF n
  <2>5. x = Only(c)
    BY <2>3, <2>4 DEF Only
  <2>6. Executes(ops[i].statement, cluster, c) <=> x \in SomeMembers(m)
    BY DEF Executes, m
  <2> QED BY <2>5, <2>6
<1>10. Mask(m) = {c \in CTAs : Only(c) \in SomeMembers(m)}
  BY <1>4, <1>6
<1> QED BY <1>8, <1>9, <1>10

\* Where the cluster is the innermost axis of the mesh, the CTAs that take the
\* branch of a slice by shard_id are its members, in every cluster of a launch
\* (shard_id, _infer_submesh_barrier_group): the coordinate that is taken from
\* %ctaid.x and the mask of ranks that the barrier counts agree.
THEOREM ShardIdSelects == KernelSpec => [](Innermost => ShardIdSelectsMembers)
<1>1. KernelInv => (Innermost => ShardIdSelectsMembers)
  BY ShardOp DEF ShardIdSelectsMembers
<1> QED BY <1>1, KernelInvariant, PTL

\* From the front end to the counter in uninitialized scratch memory: if the
\* scratch objects have a method that clears them, no block of a launched kernel
\* leaves its n-th grid barrier before all have reached it (the launcher leaves
\* any other object as it is).
THEOREM KernelRendezvous == ASSUME Clears PROVE KernelSpec => ImplementsBarrier
<1>1. KernelInit => Barrier!Init
  BY DEF KernelInit, Barrier!Init, Arrived
<1>2. KernelInv /\ [KernelNext]_all => [Barrier!Next]_(Barrier!vars)
  <2> SUFFICES ASSUME KernelInv, [KernelNext]_all PROVE [Barrier!Next]_(Barrier!vars)
    OBVIOUS
  <2>1. ASSUME NEW b \in Blocks, GridStep(b) PROVE [Barrier!Next]_(Barrier!vars)
    <3>1. IInv /\ [Next]_vars
      BY <2>1 DEF GridStep, KernelInv, GridInv, Next
    <3> QED BY <3>1, StepRefines
  <2>2. CASE UNCHANGED <<pc, passed>>
    BY <2>2 DEF Barrier!vars, Arrived
  <2>3. Compile => UNCHANGED <<pc, passed>>
    BY DEF Compile, Scope, SliceBarrier, GridBarrierCall, ClusterBarrierCall, Raise,
           LaunchCluster, LaunchGrid, Handled, onGrid
  <2>4. (\E c \in CTAs : ClusterStep(c)) \/ KernelTerminated \/ UNCHANGED all => UNCHANGED <<pc, passed>>
    BY DEF ClusterStep, KernelTerminated, all, onGrid
  <2> QED BY <2>1, <2>2, <2>3, <2>4 DEF KernelNext
<1> QED
  BY <1>1, <1>2, KernelInvariant, PTL DEF KernelSpec, ImplementsBarrier, Barrier!Spec

-----------------------------------------------------------------------------
(***************************************************************************)
(* The barriers of a cluster, when its kernels are aligned.                *)
(***************************************************************************)
Working == {"work", "add", "last", "flip", "wait"}
Places == {"code", "cluster", "fence", "reset", "ready", "exited"} \cup Working

\* How often a CTA has arrived at the hardware barrier in its current barrier,
\* how often it does by the end, and its arrivals in the barriers before.
Here(c) ==
  IF place[c] \in {"code", "exited"} THEN 0
  ELSE IF place[c] \in {"cluster", "fence", "reset"} THEN 1 ELSE 2
Total(c) == IF InCluster!Group(c) = CTAs THEN 1 ELSE 2
Before(c) == arrivals[c] - Here(c)

ClusterType ==
  /\ pos \in [CTAs -> Nat] /\ arrivals \in [CTAs -> Nat] /\ place \in [CTAs -> Places]

PlaceInv ==
  \A c \in CTAs :
    /\ pos[c] <= Len(program[c])
    /\ place[c] = "exited" => pos[c] = Len(program[c])
    /\ place[c] \notin {"code", "exited"} => pos[c] < Len(program[c])
    /\ place[c] = "cluster" => InCluster!Group(c) = CTAs
    /\ place[c] \in {"fence", "reset", "ready"} \cup Working => InCluster!Group(c) # CTAs
    /\ place[c] \in Working => InCluster!IsParticipant(c)

\* A CTA is at most one barrier ahead of another, which then has arrived for the
\* last time in its own.  Past the first fence of a slice's barrier all have
\* begun it, past the second all have arrived twice.
OrderInv ==
  \A c, d \in CTAs :
    /\ pos[c] = pos[d] => Before(c) = Before(d)
    /\ pos[c] <= pos[d] + 1
    /\ pos[c] = pos[d] + 1 => Here(d) = Total(d) /\ Before(c) = Before(d) + Total(d)
    /\ place[c] \in {"reset", "ready"} \cup Working =>
         pos[c] <= pos[d] /\ (pos[c] = pos[d] => place[d] # "code")
    /\ place[c] \in Working /\ pos[c] = pos[d] => Here(d) = 2

ClusterInv ==
  /\ stage \in {"compile", "raised", "cluster", "grid"}
  /\ stage # "cluster" =>
       /\ program = [c \in CTAs |-> <<>>] /\ pos = [c \in CTAs |-> 0]
       /\ place = [c \in CTAs |-> "code"] /\ arrivals = [c \in CTAs |-> 0]
  /\ Aligned => ClusterType /\ PlaceInv /\ OrderInv

LEMMA HereFacts ==
  ASSUME ClusterType, PlaceInv, NEW c \in CTAs
  PROVE  /\ Here(c) \in 0 .. 2 /\ Total(c) \in 1 .. 2 /\ Here(c) <= Total(c)
         /\ Before(c) \in Int /\ arrivals[c] = Before(c) + Here(c)
<1>1. arrivals[c] \in Nat /\ place[c] \in Places
  BY DEF ClusterType
<1>2. Here(c) \in 0 .. 2 /\ Total(c) \in 1 .. 2
  BY DEF Here, Total
<1>3. Here(c) <= Total(c)
  BY <1>1 DEF Here, Total, Places, Working, PlaceInv
<1> QED BY <1>1, <1>2, <1>3 DEF Before

\* Who gets past the hardware barrier knows that all are as far.
LEMMA WaitFact ==
  ASSUME Aligned, ClusterType, PlaceInv, OrderInv, NEW c \in CTAs, InCluster!ClusterWait(c),
         place[c] \notin {"code", "exited"}, NEW d \in CTAs
  PROVE  pos[c] <= pos[d] /\ (pos[c] = pos[d] => Here(d) >= Here(c))
<1>1. pos[c] \in Nat /\ pos[d] \in Nat /\ pos[c] < Len(program[c])
  BY DEF ClusterType, PlaceInv
<1>2. CASE place[d] = "exited"
  <2>1. pos[d] = Len(program[c])
    BY <1>2 DEF PlaceInv, Aligned
  <2> QED BY <1>1, <2>1
<1>3. CASE arrivals[d] >= arrivals[c]
  <2>1. /\ Here(c) \in 1 .. 2 /\ Here(d) \in 0 .. 2 /\ Before(c) \in Int /\ Before(d) \in Int
        /\ arrivals[c] = Before(c) + Here(c) /\ arrivals[d] = Before(d) + Here(d)
    BY HereFacts DEF Here
  <2>2. /\ pos[c] = pos[d] => Before(c) = Before(d)
        /\ pos[c] <= pos[d] + 1
        /\ pos[c] = pos[d] + 1 => Here(d) = Total(d) /\ Before(c) = Before(d) + Total(d)
    BY DEF OrderInv
  <2>3. pos[c] # pos[d] + 1
    BY <1>3, <2>1, <2>2
  <2> QED BY <1>1, <1>3, <2>1, <2>2, <2>3
<1> QED BY <1>2, <1>3 DEF InCluster!ClusterWait

\* c goes on inside its barrier, or exits.
LEMMA StayMove ==
  ASSUME ClusterType, PlaceInv, OrderInv, NEW c \in CTAs, NEW l \in Places, l # "code",
         NEW n \in {0, 1},
         UNCHANGED <<program, pos>>, place' = [place EXCEPT ![c] = l],
         arrivals' = [arrivals EXCEPT ![c] = @ + n],
         Here(c)' = Here(c) + n,
         IF l = "exited" THEN pos[c] = Len(program[c]) ELSE pos[c] < Len(program[c]),
         l = "cluster" => InCluster!Group(c) = CTAs,
         l \in {"fence", "reset", "ready"} \cup Working => InCluster!Group(c) # CTAs,
         l \in Working => InCluster!IsParticipant(c),
         l \in {"reset", "ready"} \cup Working =>
           \A d \in CTAs : pos[c] <= pos[d] /\ (pos[c] = pos[d] => place[d] # "code"),
         l \in Working => \A d \in CTAs : pos[c] = pos[d] => Here(d) = 2
  PROVE  ClusterType' /\ PlaceInv' /\ OrderInv'
<1>1. ClusterType'
  BY DEF ClusterType
<1>2. \A d \in CTAs : InCluster!Group(d)' = InCluster!Group(d) /\ Total(d)' = Total(d)
  BY DEF InCluster!Group, Total
<1>3. place'[c] = l /\ \A d \in CTAs \ {c} : place'[d] = place[d] /\ arrivals'[d] = arrivals[d]
  BY DEF ClusterType
<1>4. PlaceInv'
  BY <1>2, <1>3 DEF PlaceInv, InCluster!IsParticipant
<1>5. \A d \in CTAs : Before(d)' = Before(d)
  <2>1. arrivals[c] \in Nat /\ arrivals'[c] = arrivals[c] + n /\ Here(c) \in 0 .. 2
    BY DEF ClusterType, Here
  <2>2. Before(c)' = Before(c)
    BY <2>1 DEF Before
  <2> QED BY <1>3, <2>2 DEF Before, Here
<1>6. \A d \in CTAs : /\ Here(d) = Total(d) => Here(d)' = Total(d)
                      /\ Here(d) = 2 => Here(d)' = 2
  <2>1. \A d \in CTAs \ {c} : Here(d)' = Here(d)
    BY <1>3 DEF Here
  <2>2. Here(c)' <= Total(c) /\ Here(c)' \in 0 .. 2
    BY <1>3 DEF Here, Total, Places, Working
  <2>3. Here(c) \in 0 .. 2 /\ Total(c) \in 1 .. 2
    BY HereFacts
  <2> QED BY <2>1, <2>2, <2>3
<1>7. OrderInv'
  <2> SUFFICES ASSUME NEW x \in CTAs, NEW y \in CTAs
               PROVE  /\ pos[x] = pos[y] => Before(x)' = Before(y)'
                      /\ pos[x] <= pos[y] + 1
                      /\ pos[x] = pos[y] + 1 =>
                           Here(y)' = Total(y)' /\ Before(x)' = Before(y)' + Total(y)'
                      /\ place'[x] \in {"reset", "ready"} \cup Working =>
                           pos[x] <= pos[y] /\ (pos[x] = pos[y] => place'[y] # "code")
                      /\ place'[x] \in Working /\ pos[x] = pos[y] => Here(y)' = 2
    BY DEF OrderInv
  <2>1. /\ pos[x] = pos[y] => Before(x)' = Before(y)'
        /\ pos[x] <= pos[y] + 1
        /\ pos[x] = pos[y] + 1 => Here(y)' = Total(y)' /\ Before(x)' = Before(y)' + Total(y)'
    BY <1>2, <1>5, <1>6 DEF OrderInv
  <2>2. place'[x] \in {"reset", "ready"} \cup Working =>
          pos[x] <= pos[y] /\ (pos[x] = pos[y] => place'[y] # "code")
    BY <1>3 DEF OrderInv
  <2>3. place'[x] \in Working /\ pos[x] = pos[y] => Here(y)' = 2
    BY <1>3, <1>6 DEF OrderInv
  <2> QED BY <2>1, <2>2, <2>3
<1> QED BY <1>1, <1>4, <1>7

LEMMA SameTotal ==
  ASSUME Aligned, ClusterType, NEW c \in CTAs, pos[c] < Len(program[c]),
         NEW d \in CTAs, pos[c] = pos[d]
  PROVE  Total(d) = Total(c)
<1>1. pos[c] + 1 \in 1 .. Len(program[c])
  BY DEF ClusterType, Aligned
<1>2. program[c][pos[c] + 1] = CTAs <=> program[d][pos[c] + 1] = CTAs
  BY <1>1 DEF Aligned
<1> QED BY <1>2 DEF Total, InCluster!Group

\* c ends its barrier, in which all have arrived as often as they have to.
LEMMA EndMove ==
  ASSUME Aligned, ClusterType, PlaceInv, OrderInv, NEW c \in CTAs,
         UNCHANGED <<program, arrivals>>, pos' = [pos EXCEPT ![c] = @ + 1],
         place' = [place EXCEPT ![c] = "code"],
         pos[c] < Len(program[c]), Here(c) = Total(c),
         \A d \in CTAs : pos[c] <= pos[d] /\ (pos[c] = pos[d] => Here(d) = Total(d))
  PROVE  ClusterType' /\ PlaceInv' /\ OrderInv'
<1>1. ClusterType'
  BY DEF ClusterType, Places
<1>2. /\ pos'[c] = pos[c] + 1 /\ place'[c] = "code" /\ pos[c] \in Nat
      /\ \A d \in CTAs \ {c} : place'[d] = place[d] /\ pos'[d] = pos[d]
      /\ \A d \in CTAs : pos[d] \in Nat
  BY DEF ClusterType
<1>3. \A d \in CTAs \ {c} :
        /\ InCluster!Group(d)' = InCluster!Group(d) /\ Total(d)' = Total(d)
        /\ Here(d)' = Here(d) /\ Before(d)' = Before(d)
  BY <1>2 DEF InCluster!Group, Total, Here, Before
<1>4. Len(program[c]) \in Nat
  BY DEF Aligned
<1>5. PlaceInv'
  <2> SUFFICES ASSUME NEW d \in CTAs
               PROVE  /\ pos'[d] <= Len(program[d])
                      /\ place'[d] = "exited" => pos'[d] = Len(program[d])
                      /\ place'[d] \notin {"code", "exited"} => pos'[d] < Len(program[d])
                      /\ place'[d] = "cluster" => InCluster!Group(d)' = CTAs
                      /\ place'[d] \in {"fence", "reset", "ready"} \cup Working =>
                           InCluster!Group(d)' # CTAs
                      /\ place'[d] \in Working => d \in InCluster!Group(d)'
    BY DEF PlaceInv, InCluster!IsParticipant
  <2>1. CASE d = c
    BY <2>1, <1>2, <1>4 DEF Working
  <2>2. CASE d # c
    BY <2>2, <1>2, <1>3 DEF PlaceInv, InCluster!IsParticipant
  <2> QED BY <2>1, <2>2
<1>6. Before(c)' = Before(c) + Total(c) /\ Here(c)' = 0
  <2>1. Here(c)' = 0
    BY <1>2 DEF Here
  <2>2. arrivals[c] = Before(c) + Here(c) /\ arrivals[c] \in Nat
    BY HereFacts DEF ClusterType
  <2> QED BY <2>1, <2>2 DEF Before
<1>7. \A d \in CTAs : pos[d] = pos[c] => Total(d) = Total(c)
  BY SameTotal
<1>8. OrderInv'
  <2> SUFFICES ASSUME NEW x \in CTAs, NEW y \in CTAs
               PROVE  /\ pos'[x] = pos'[y] => Before(x)' = Before(y)'
                      /\ pos'[x] <= pos'[y] + 1
                      /\ pos'[x] = pos'[y] + 1 =>
                           Here(y)' = Total(y)' /\ Before(x)' = Before(y)' + Total(y)'
                      /\ place'[x] \in {"reset", "ready"} \cup Working =>
                           pos'[x] <= pos'[y] /\ (pos'[x] = pos'[y] => place'[y] # "code")
                      /\ place'[x] \in Working /\ pos'[x] = pos'[y] => Here(y)' = 2
    BY DEF OrderInv
  <2>1. CASE x # c /\ y # c
    BY <2>1, <1>2, <1>3 DEF OrderInv
  <2>2. CASE x = c /\ y = c
    <3>1. place'[x] \notin {"reset", "ready"} \cup Working
      BY <2>2, <1>2 DEF Working
    <3> QED BY <2>2, <3>1, <1>2
  <2>3. CASE x = c /\ y # c
    <3>1. place'[x] \notin {"reset", "ready"} \cup Working
      BY <2>3, <1>2 DEF Working
    <3>2. pos[c] <= pos[y] /\ pos[y] <= pos[c] + 1
      BY DEF OrderInv
    <3>3. pos[y] = pos[c] =>
            Here(y) = Total(y) /\ Total(y) = Total(c) /\ Before(c) = Before(y)
      BY <1>7 DEF OrderInv
    <3>4. pos[y] = pos[c] + 1 => Before(y) = Before(c) + Total(c)
      BY DEF OrderInv
    <3> QED BY <2>3, <3>1, <3>2, <3>3, <3>4, <1>2, <1>3, <1>6
  <2>4. CASE x # c /\ y = c
    <3>1. pos[c] <= pos[x] /\ pos[x] <= pos[c] + 1
      BY DEF OrderInv
    <3>2. pos[x] = pos[c] + 1 => Before(x) = Before(c) + Total(c)
      BY DEF OrderInv
    <3>3. place[x] \in {"reset", "ready"} \cup Working => pos[x] <= pos[c]
      BY DEF OrderInv
    <3> QED BY <2>4, <3>1, <3>2, <3>3, <1>2, <1>3, <1>6
  <2> QED BY <2>1, <2>2, <2>3, <2>4
<1> QED BY <1>1, <1>5, <1>8

LEMMA ClusterStepInv ==
  ASSUME Aligned, ClusterType, PlaceInv, OrderInv, NEW c \in CTAs, InCluster!Step(c)
  PROVE  ClusterType' /\ PlaceInv' /\ OrderInv'
<1> USE DEF InCluster!Goto
<1>1. /\ place[c] \in Places /\ pos[c] \in Nat /\ pos[c] <= Len(program[c])
      /\ pos[c] # Len(program[c]) => pos[c] < Len(program[c])
      /\ arrivals = [arrivals EXCEPT ![c] = @ + 0]
  BY DEF ClusterType, PlaceInv, Aligned
<1>2. place[c] \notin {"code", "exited"} => pos[c] < Len(program[c])
  BY DEF PlaceInv
<1>3. ASSUME NEW l \in Places, place' = [place EXCEPT ![c] = l]
      PROVE  place'[c] = l
  BY <1>3 DEF ClusterType
<1>4. CASE InCluster!Call(c)
  <2> DEFINE l == IF InCluster!Group(c) = CTAs THEN "cluster" ELSE "fence"
  <2>1. /\ place[c] = "code" /\ UNCHANGED <<program, pos>> /\ pos[c] < Len(program[c])
        /\ place' = [place EXCEPT ![c] = l] /\ arrivals' = [arrivals EXCEPT ![c] = @ + 1]
    BY <1>4 DEF InCluster!Call, InCluster!ClusterArrive
  <2>2. /\ l \in {"cluster", "fence"} /\ l \in Places
        /\ l = "cluster" => InCluster!Group(c) = CTAs
        /\ l = "fence" => InCluster!Group(c) # CTAs
    BY DEF Places
  <2>3. l # "exited" /\ l # "code" /\ l \notin {"reset", "ready"} \cup Working
    BY <2>2 DEF Working
  <2> HIDE DEF l
  <2>4. Here(c)' = Here(c) + 1
    <3>1. place'[c] = l
      BY <2>1, <2>2, <1>3
    <3>2. Here(c) = 0 /\ Here(c)' = 1
      BY <3>1, <2>1, <2>2 DEF Here
    <3> QED BY <3>2
  <2> QED BY <2>1, <2>2, <2>3, <2>4, StayMove
<1>5. CASE InCluster!WaitAll(c)
  <2>1. /\ place[c] = "cluster" /\ InCluster!ClusterWait(c)
        /\ UNCHANGED <<program, arrivals>> /\ pos' = [pos EXCEPT ![c] = @ + 1]
        /\ place' = [place EXCEPT ![c] = "code"]
    BY <1>5 DEF InCluster!WaitAll, InCluster!Done
  <2>2. Here(c) = 1 /\ Total(c) = 1
    BY <2>1 DEF Here, Total, PlaceInv
  <2>3. ASSUME NEW d \in CTAs
        PROVE  pos[c] <= pos[d] /\ (pos[c] = pos[d] => Here(d) = Total(d))
    <3>1. pos[c] <= pos[d] /\ (pos[c] = pos[d] => Here(d) >= 1)
      BY <2>1, <2>2, WaitFact
    <3>2. pos[c] = pos[d] => Total(d) = Total(c)
      BY <1>1, <1>2, <2>1, SameTotal
    <3>3. Here(d) \in 0 .. 2 /\ Here(d) <= Total(d)
      BY HereFacts
    <3> QED BY <3>1, <3>2, <3>3, <2>2
  <2> QED BY <1>2, <2>1, <2>2, <2>3, EndMove
<1>6. CASE InCluster!Reset(c)
  <2>1. /\ place[c] = "fence" /\ InCluster!ClusterWait(c) /\ UNCHANGED <<program, pos, arrivals>>
        /\ place' = [place EXCEPT ![c] = "reset"] /\ InCluster!Group(c) # CTAs
    BY <1>6 DEF InCluster!Reset, PlaceInv
  <2>2. Here(c) = 1 /\ Here(c)' = Here(c) + 0
    BY <2>1, <1>3 DEF Here, Places
  <2>3. \A d \in CTAs : pos[c] <= pos[d] /\ (pos[c] = pos[d] => place[d] # "code")
    BY <2>1, <2>2, WaitFact DEF Here
  <2> QED BY <1>1, <1>2, <2>1, <2>2, <2>3, StayMove DEF Places, Working
<1>7. CASE InCluster!ArriveAgain(c)
  <2>1. /\ place[c] = "reset" /\ UNCHANGED <<program, pos>>
        /\ arrivals' = [arrivals EXCEPT ![c] = @ + 1]
        /\ place' = [place EXCEPT ![c] = "ready"] /\ InCluster!Group(c) # CTAs
    BY <1>7 DEF InCluster!ArriveAgain, InCluster!ClusterArrive, PlaceInv
  <2>2. Here(c)' = Here(c) + 1
    <3>1. place'[c] = "ready"
      BY <2>1, <1>3 DEF Places
    <3>2. Here(c) = 1 /\ Here(c)' = 2
      BY <3>1, <2>1 DEF Here
    <3> QED BY <3>2
  <2>3. \A d \in CTAs : pos[c] <= pos[d] /\ (pos[c] = pos[d] => place[d] # "code")
    BY <2>1 DEF OrderInv
  <2> QED BY <1>2, <2>1, <2>2, <2>3, StayMove DEF Places, Working
<1>8. CASE InCluster!Start(c)
  <2>1. /\ place[c] = "ready" /\ InCluster!ClusterWait(c) /\ UNCHANGED <<program, arrivals>>
        /\ InCluster!Group(c) # CTAs /\ Here(c) = 2 /\ Total(c) = 2
    BY <1>8 DEF InCluster!Start, PlaceInv, Here, Total
  <2>2. ASSUME NEW d \in CTAs
        PROVE  pos[c] <= pos[d] /\ (pos[c] = pos[d] => Here(d) = 2)
    <3>1. pos[c] <= pos[d] /\ (pos[c] = pos[d] => Here(d) >= 2)
      BY <2>1, WaitFact
    <3>2. Here(d) \in 0 .. 2
      BY HereFacts
    <3> QED BY <3>1, <3>2
  <2>3. CASE InCluster!IsParticipant(c)
    <3>1. place' = [place EXCEPT ![c] = "work"] /\ UNCHANGED pos
      BY <1>8, <2>3 DEF InCluster!Start
    <3>2. Here(c)' = Here(c) + 0
      BY <2>1, <3>1, <1>3 DEF Here, Places, Working
    <3>3. \A d \in CTAs : pos[c] <= pos[d] /\ (pos[c] = pos[d] => place[d] # "code")
      BY <2>2 DEF Here
    <3> QED BY <1>1, <1>2, <2>1, <2>2, <2>3, <3>1, <3>2, <3>3, StayMove DEF Places, Working
  <2>4. CASE ~InCluster!IsParticipant(c)
    <3>1. place' = [place EXCEPT ![c] = "code"] /\ pos' = [pos EXCEPT ![c] = @ + 1]
      BY <1>8, <2>4 DEF InCluster!Start, InCluster!Done
    <3>2. \A d \in CTAs : pos[c] = pos[d] => Total(d) = Total(c)
      BY <1>1, <1>2, <2>1, SameTotal
    <3> QED BY <1>2, <2>1, <2>2, <3>1, <3>2, EndMove
  <2> QED BY <2>3, <2>4
<1>9. ASSUME place[c] \in Working, NEW l \in Working, place' = [place EXCEPT ![c] = l],
             UNCHANGED <<program, pos, arrivals>>
      PROVE  ClusterType' /\ PlaceInv' /\ OrderInv'
  <2>1. InCluster!Group(c) # CTAs /\ InCluster!IsParticipant(c) /\ pos[c] < Len(program[c])
    BY <1>9 DEF PlaceInv, Working
  <2>2. Here(c)' = Here(c) + 0
    BY <1>9, <1>3 DEF Here, Places, Working
  <2>3. \A d \in CTAs : /\ pos[c] <= pos[d] /\ (pos[c] = pos[d] => place[d] # "code")
                        /\ pos[c] = pos[d] => Here(d) = 2
    BY <1>9 DEF OrderInv
  <2>4. l \in Places \ {"code", "exited", "cluster"}
    BY DEF Places, Working
  <2> QED BY <1>1, <1>9, <2>1, <2>2, <2>3, <2>4, StayMove
<1>10. CASE InCluster!ReadPhase(c) \/ InCluster!Arrive(c) \/ InCluster!TakeBack(c)
  <2>1. \E l \in Working : place' = [place EXCEPT ![c] = l]
    BY <1>10 DEF InCluster!ReadPhase, InCluster!Arrive, InCluster!TakeBack, Working
  <2>2. place[c] \in Working /\ UNCHANGED <<program, pos, arrivals>>
    BY <1>10 DEF InCluster!ReadPhase, InCluster!Arrive, InCluster!TakeBack, Working
  <2> QED BY <1>9, <2>1, <2>2
<1>11. CASE InCluster!Flip(c) \/ InCluster!Wait(c)
  <2>1. /\ place[c] \in Working /\ UNCHANGED <<program, arrivals>>
        /\ place' = [place EXCEPT ![c] = "code"] /\ pos' = [pos EXCEPT ![c] = @ + 1]
    BY <1>11 DEF InCluster!Flip, InCluster!Wait, InCluster!Done, Working
  <2>2. Here(c) = 2 /\ Total(c) = 2
    BY <2>1 DEF Here, Total, PlaceInv, Working
  <2>3. \A d \in CTAs : pos[c] <= pos[d] /\ (pos[c] = pos[d] => Here(d) = 2)
    BY <2>1 DEF OrderInv
  <2>4. place[c] \notin {"code", "exited"}
    BY <2>1 DEF Working
  <2>5. \A d \in CTAs : pos[c] = pos[d] => Total(d) = Total(c)
    BY <1>1, <1>2, <2>4, SameTotal
  <2> QED BY <1>2, <2>1, <2>2, <2>3, <2>4, <2>5, EndMove
<1>12. CASE InCluster!Exit(c)
  <2>1. /\ place[c] = "code" /\ pos[c] = Len(program[c]) /\ UNCHANGED <<program, pos, arrivals>>
        /\ place' = [place EXCEPT ![c] = "exited"]
    BY <1>12 DEF InCluster!Exit
  <2>2. Here(c)' = Here(c) + 0
    BY <2>1, <1>3 DEF Here, Places
  <2> QED BY <1>1, <2>1, <2>2, StayMove DEF Places, Working
<1> QED
  BY <1>4, <1>5, <1>6, <1>7, <1>8, <1>10, <1>11, <1>12 DEF InCluster!Step

\* Before the launch, and right after it
ClusterIdle ==
  /\ pos = [c \in CTAs |-> 0] /\ place = [c \in CTAs |-> "code"]
  /\ arrivals = [c \in CTAs |-> 0]

LEMMA IdleInv == ClusterIdle /\ Aligned => ClusterType /\ PlaceInv /\ OrderInv
<1> SUFFICES ASSUME ClusterIdle, Aligned PROVE ClusterType /\ PlaceInv /\ OrderInv
  OBVIOUS
<1>1. \A c \in CTAs : /\ pos[c] = 0 /\ place[c] = "code" /\ arrivals[c] = 0
                      /\ Here(c) = 0 /\ Before(c) = 0 /\ Len(program[c]) \in Nat
  BY DEF ClusterIdle, Here, Before, Aligned
<1>2. ClusterType
  BY DEF ClusterIdle, ClusterType, Places
<1>3. PlaceInv
  BY <1>1 DEF PlaceInv, Working
<1>4. OrderInv
  BY <1>1 DEF OrderInv, Working
<1> QED BY <1>2, <1>3, <1>4

LEMMA ClusterInit == KernelInit => ClusterInv
<1> SUFFICES ASSUME KernelInit PROVE ClusterInv
  OBVIOUS
<1>1. /\ stage = "compile" /\ program = [c \in CTAs |-> <<>>] /\ ClusterIdle
  BY DEF KernelInit, ClusterIdle
<1> QED BY <1>1, IdleInv DEF ClusterInv, ClusterIdle

LEMMA ClusterStill ==
  ASSUME ClusterInv, UNCHANGED onCluster,
         stage' \in {"compile", "raised", "cluster", "grid"},
         stage' # "cluster" => stage # "cluster"
  PROVE  ClusterInv'
<1>1. UNCHANGED <<program, pos, place, arrivals>>
  BY DEF onCluster
<1>2. Aligned' <=> Aligned
  BY <1>1 DEF Aligned
<1>3. /\ ClusterType' <=> ClusterType
      /\ PlaceInv' <=> PlaceInv
      /\ OrderInv' <=> OrderInv
  BY <1>1 DEF ClusterType, PlaceInv, OrderInv, Here, Total, Before,
              InCluster!Group, InCluster!IsParticipant
<1> QED BY <1>1, <1>2, <1>3 DEF ClusterInv

LEMMA ClusterNext == ClusterInv /\ [KernelNext]_all => ClusterInv'
<1> SUFFICES ASSUME ClusterInv, [KernelNext]_all PROVE ClusterInv'
  OBVIOUS
<1>1. CASE LaunchCluster
  <2>1. stage # "cluster" /\ stage' = "cluster" /\ UNCHANGED <<pos, place, arrivals>>
    BY <1>1 DEF LaunchCluster, Compiled
  <2>2. ClusterIdle'
    BY <2>1 DEF ClusterInv, ClusterIdle
  <2>3. ClusterIdle' /\ Aligned' => ClusterType' /\ PlaceInv' /\ OrderInv'
    BY IdleInv, PTL
  <2> QED BY <2>1, <2>2, <2>3 DEF ClusterInv
<1>2. ASSUME NEW c \in CTAs, ClusterStep(c) PROVE ClusterInv'
  <2>1. InCluster!Step(c) /\ stage = "cluster" /\ stage' = "cluster"
    BY <1>2 DEF ClusterStep
  <2>2. UNCHANGED program
    BY <2>1 DEF InCluster!Step, InCluster!Call, InCluster!WaitAll, InCluster!Reset,
                InCluster!ArriveAgain, InCluster!Start, InCluster!ReadPhase, InCluster!Arrive,
                InCluster!TakeBack, InCluster!Flip, InCluster!Wait, InCluster!Exit
  <2>3. Aligned' <=> Aligned
    BY <2>2 DEF Aligned
  <2>4. Aligned => ClusterType' /\ PlaceInv' /\ OrderInv'
    BY <2>1, ClusterStepInv DEF ClusterInv
  <2> QED BY <2>1, <2>3, <2>4 DEF ClusterInv
<1>3. Scope \/ SliceBarrier \/ GridBarrierCall \/ ClusterBarrierCall => UNCHANGED <<stage, onCluster>>
  BY DEF Scope, SliceBarrier, GridBarrierCall, ClusterBarrierCall, Handled
<1>4. Raise \/ LaunchGrid =>
        UNCHANGED onCluster /\ stage = "compile" /\ stage' \in {"raised", "grid"}
  BY DEF Raise, LaunchGrid, Compiling, Compiled
<1>5. (\E b \in Blocks : GridStep(b)) \/ KernelTerminated \/ UNCHANGED all =>
        UNCHANGED <<stage, onCluster>>
  BY DEF GridStep, KernelTerminated, all
<1>6. UNCHANGED <<stage, onCluster>> => ClusterInv'
  BY ClusterStill DEF ClusterInv
<1>7. Raise \/ LaunchGrid => ClusterInv'
  BY <1>4, ClusterStill
<1> QED BY <1>1, <1>2, <1>3, <1>5, <1>6, <1>7 DEF KernelNext, Compile

LEMMA ClusterInvariant == KernelSpec => []ClusterInv
BY ClusterInit, ClusterNext, PTL DEF KernelSpec

LEMMA MinIsMember ==
  ASSUME NEW S \in SUBSET Nat, S # {} PROVE InCluster!Min(S) \in S
<1> DEFINE R == {r \in Nat \X Nat : r[1] < r[2]}
<1>0. OpToRel(<, Nat) = R
  BY Zenon DEF OpToRel
<1>1. IsWellFoundedOn(R, Nat)
  BY <1>0, NatLessThanWellFounded
<1> HIDE DEF R
<1>2. \E x \in S : \A y \in S : ~(<<y, x>> \in R)
  BY <1>1, WFMin
<1>3. \A x, y \in Nat : ~(<<y, x>> \in R) => x <= y
  BY DEF R
<1>4. \E x \in S : \A y \in S : x <= y
  BY <1>2, <1>3
<1> QED BY <1>4 DEF InCluster!Min

LEMMA ClusterSafe == ClusterInv /\ Aligned => Rendezvous /\ LeaderStays
<1> SUFFICES ASSUME ClusterInv, Aligned PROVE Rendezvous /\ LeaderStays
  OBVIOUS
<1>0. ClusterType /\ PlaceInv /\ OrderInv
  BY DEF ClusterInv
<1>1. ASSUME NEW g \in InCluster!Groups, NEW c \in g, NEW d \in g
      PROVE  InCluster!Left(c, g) <= InCluster!Reached(d, g)
  <2>1. g \subseteq CTAs
    <3>1. PICK e \in CTAs : \E i \in 1 .. Len(program[e]) : g = program[e][i]
      BY DEF InCluster!Groups
    <3> QED BY <3>1 DEF Aligned
  <2>2. c \in CTAs /\ d \in CTAs
    BY <2>1
  <2> DEFINE k == IF place[d] \in {"code", "exited"} THEN pos[d] ELSE pos[d] + 1
  <2>3. pos[c] \in Nat /\ pos[d] \in Nat /\ k \in Nat /\ pos[c] <= Len(program[c])
    BY <2>2, <1>0 DEF ClusterType, PlaceInv
  <2>4. pos[c] <= k
    <3>1. pos[c] = pos[d] + 1 => Here(d) = Total(d)
      BY <2>2, <1>0 DEF OrderInv
    <3>2. Total(d) # 0
      BY DEF Total
    <3>3. pos[c] = pos[d] + 1 => place[d] \notin {"code", "exited"}
      BY <3>1, <3>2 DEF Here
    <3>4. pos[c] <= pos[d] + 1
      BY <2>2, <1>0 DEF OrderInv
    <3> QED BY <2>3, <3>3, <3>4
  <2> HIDE DEF k
  <2> DEFINE A == {i \in 1 .. pos[c] : program[c][i] = g}
             B == {i \in 1 .. k : program[d][i] = g}
  <2>5. A \subseteq B
    <3> SUFFICES ASSUME NEW i \in 1 .. pos[c], program[c][i] = g
                 PROVE  i \in 1 .. k /\ program[d][i] = g
      OBVIOUS
    <3>1. i \in 1 .. k /\ i \in 1 .. Len(program[c])
      BY <2>2, <2>3, <2>4 DEF Aligned
    <3>2. {c, d} \subseteq program[c][i]
      OBVIOUS
    <3> QED BY <2>2, <3>1, <3>2 DEF Aligned
  <2>6. IsFiniteSet(B)
    <3>1. IsFiniteSet(1 .. k)
      BY <2>3, FS_Interval
    <3> QED BY <3>1, FS_Subset
  <2>7. Cardinality(A) <= Cardinality(B)
    BY <2>5, <2>6, FS_Subset
  <2>8. InCluster!Left(c, g) = Cardinality(A) /\ InCluster!Reached(d, g) = Cardinality(B)
    BY DEF k, InCluster!Left, InCluster!Reached, InCluster!Count, InCluster!Cardinality, Cardinality
  <2> QED BY <2>7, <2>8
<1>2. ASSUME NEW c \in CTAs, place[c] \in Working,
             NEW i \in pos[c] + 1 .. Len(program[c]), program[c][i] = CTAs,
             place[InCluster!Leader(c)] = "exited"
      PROVE  FALSE
  <2>1. pos[c] \in Nat /\ pos[c] < Len(program[c]) /\ Len(program[c]) \in Nat
    BY <1>2, <1>0 DEF ClusterType, PlaceInv, Aligned, Working
  <2>2. c \in InCluster!Group(c) /\ InCluster!Group(c) # CTAs
    BY <1>2, <1>0 DEF PlaceInv, InCluster!IsParticipant
  <2>3. InCluster!Group(c) \subseteq CTAs
    BY <2>1 DEF Aligned, InCluster!Group
  <2>4. InCluster!Leader(c) \in CTAs
    <3>1. InCluster!Group(c) \in SUBSET Nat
      BY <2>3, RanksFromZero
    <3>2. InCluster!Min(InCluster!Group(c)) \in InCluster!Group(c)
      BY <2>2, <3>1, MinIsMember
    <3> QED BY <2>3, <3>2 DEF InCluster!Leader
  <2>5. pos[InCluster!Leader(c)] = Len(program[c])
    BY <1>2, <1>0, <2>4 DEF PlaceInv, Aligned
  <2>6. pos[InCluster!Leader(c)] <= pos[c] + 1
    BY <1>0, <2>4 DEF OrderInv
  <2>7. i = pos[c] + 1
    BY <1>2, <2>1, <2>5, <2>6
  <2> QED BY <1>2, <2>2, <2>7 DEF InCluster!Group
<1> QED
  BY <1>1, <1>2 DEF Rendezvous, InCluster!Rendezvous, LeaderStays, InCluster!LeaderStays, Working

\* When the kernel's CTAs execute matching barriers, nobody leaves a barrier of
\* the cluster or of a slice before its members have reached it
\* (lowerClusterBarrier, lowerSubmeshBarrier), for clusters of any size.
THEOREM ClusterRendezvous == KernelSpec => [](Aligned => Rendezvous)
<1>1. ClusterInv => (Aligned => Rendezvous)
  BY ClusterSafe
<1> QED BY <1>1, ClusterInvariant, PTL

\* Then the shared memory that a slice counts in outlives the counting, if a
\* barrier of the whole cluster follows.
THEOREM ClusterLeaderStays == KernelSpec => [](Aligned => LeaderStays)
<1>1. ClusterInv => (Aligned => LeaderStays)
  BY ClusterSafe
<1> QED BY <1>1, ClusterInvariant, PTL
-----------------------------------------------------------------------------
(***************************************************************************)
(* The count and the phase of a slice's barrier.                           *)
(***************************************************************************)
CountType ==
  /\ count \in [CTAs -> 0 .. 2 * Half - 1] /\ phase \in [CTAs -> 0 .. 2 * Half - 1]
  /\ before \in [CTAs -> 0 .. 2 * Half - 1]

\* A member of a slice is past the first fence of the slice's barrier.
InSlice(c) == place[c] \in {"reset", "ready"} \cup Working /\ InCluster!IsParticipant(c)

Neutral == {"fence", "reset", "ready", "work"}
Waiting(g) == {d \in g : place[d] = "wait"}

\* The barrier of slice g, the p-th of its members: some have still to add to the
\* counter, which is the number of those that have, from the leader's reset on;
Counting(g, p) ==
  /\ \A d \in g :
       /\ pos[d] = p /\ place[d] \in Neutral \cup {"add", "wait"}
       /\ place[d] \in {"add", "wait"} => before[d] = phase[InCluster!Min(g)]
  /\ Waiting(g) # g
  /\ place[InCluster!Min(g)] # "fence" => count[InCluster!Min(g)] = Cardinality(Waiting(g))
\* one has added last and the others wait for the phase that they have read;
Closing(g, p) ==
  \E e \in g :
    /\ pos[e] = p /\ place[e] \in {"last", "flip"}
    /\ \A d \in g \ {e} :
         pos[d] = p /\ place[d] = "wait" /\ before[d] = phase[InCluster!Min(g)]
\* it has changed the phase.
Closed(g, p) ==
  \A d \in g : pos[d] = p => place[d] = "wait" /\ before[d] # phase[InCluster!Min(g)]

Turn(g, p) == Counting(g, p) \/ Closing(g, p) \/ Closed(g, p)
TurnInv ==
  \A c \in CTAs, g \in SUBSET CTAs, p \in Nat :
    InSlice(c) /\ g = InCluster!Group(c) /\ p = pos[c] => Turn(g, p)

SliceInv == stage # "cluster" \/ Aligned => CountType /\ TurnInv

LEMMA SameCardinality == \A S : InCluster!Cardinality(S) = Cardinality(S)
  BY DEF InCluster!Cardinality, Cardinality

\* Aligned members of a slice are in the same barrier of it.
LEMMA GroupFacts ==
  ASSUME Aligned, ClusterType, NEW c \in CTAs, pos[c] < Len(program[c]),
         InCluster!IsParticipant(c), NEW g, g = InCluster!Group(c)
  PROVE  /\ g \in SUBSET CTAs /\ c \in g
         /\ IsFiniteSet(g) /\ Cardinality(g) \in Nat /\ Cardinality(g) < 2 * Half
         /\ InCluster!Min(g) \in g /\ InCluster!Min(g) = InCluster!Leader(c)
         /\ \A d \in CTAs : (d \in g \/ g \cap InCluster!Group(d) # {}) /\ pos[d] = pos[c]
                            /\ InCluster!IsParticipant(d) => InCluster!Group(d) = g
         /\ \A d \in g : pos[d] = pos[c] => InCluster!Group(d) = g
<1>1. pos[c] \in Nat /\ pos[c] + 1 \in 1 .. Len(program[c])
  BY DEF ClusterType, Aligned
<1>2. g \in SUBSET CTAs /\ c \in g
  BY <1>1 DEF Aligned, InCluster!Group, InCluster!IsParticipant
<1>3. IsFiniteSet(g) /\ Cardinality(g) \in Nat /\ Cardinality(g) < 2 * Half
  <2>1. /\ IsFiniteSet(g) /\ Cardinality(g) <= Cardinality(CTAs)
        /\ Cardinality(g) \in Nat /\ Cardinality(CTAs) \in Nat
    BY <1>2, ClusterAssumption, FS_Subset, FS_CardinalityType
  <2> QED BY ONLY <2>1, ClusterAssumption, HalfFacts
<1>4. InCluster!Min(g) \in g
  <2>1. g \in SUBSET Nat /\ g # {}
    BY <1>2, RanksFromZero
  <2> QED BY ONLY <2>1, MinIsMember
<1>5. \A d \in g : pos[d] = pos[c] => InCluster!Group(d) = g
  <2> SUFFICES ASSUME NEW d \in g, pos[d] = pos[c] PROVE InCluster!Group(d) = g
    OBVIOUS
  <2>1. d \in CTAs /\ {c, d} \subseteq program[c][pos[c] + 1]
    BY <1>2 DEF InCluster!Group
  <2>2. program[d][pos[c] + 1] = program[c][pos[c] + 1]
    BY <1>1, <2>1 DEF Aligned
  <2> QED BY <2>2 DEF InCluster!Group
<1>6. ASSUME NEW d \in CTAs, d \in g \/ g \cap InCluster!Group(d) # {}, pos[d] = pos[c],
             InCluster!IsParticipant(d)
      PROVE  InCluster!Group(d) = g
  <2>1. CASE d \in g
    BY <2>1, <1>5, <1>6
  <2>2. CASE g \cap InCluster!Group(d) # {}
    <3>1. PICK e \in g : e \in InCluster!Group(d)
      BY <2>2
    <3>2. e \in CTAs /\ d \in CTAs /\ {d, e} \subseteq program[d][pos[c] + 1]
          /\ {c, e} \subseteq program[c][pos[c] + 1]
      BY <1>2, <1>6, <3>1 DEF InCluster!Group, InCluster!IsParticipant
    <3>3. Len(program[d]) = Len(program[c])
      BY <3>2 DEF Aligned
    <3>4. /\ program[e][pos[c] + 1] = program[d][pos[c] + 1]
          /\ program[e][pos[c] + 1] = program[c][pos[c] + 1]
      BY <1>1, <3>2, <3>3 DEF Aligned
    <3> QED BY <3>4, <1>6 DEF InCluster!Group
  <2> QED BY <1>6, <2>1, <2>2
<1> QED BY <1>2, <1>3, <1>4, <1>5, <1>6 DEF InCluster!Leader

\* All other CTAs are as far as a member of a slice that is in its barrier.
LEMMA SliceFacts ==
  ASSUME Aligned, ClusterType, PlaceInv, OrderInv, NEW x \in CTAs, InSlice(x)
  PROVE  /\ InCluster!IsParticipant(x) /\ pos[x] \in Nat /\ pos[x] < Len(program[x])
         /\ InCluster!Group(x) # CTAs
         /\ \A d \in CTAs : /\ pos[d] \in Nat /\ pos[x] <= pos[d]
                            /\ pos[d] = pos[x] => place[d] # "code"
                            /\ InSlice(d) => pos[d] = pos[x]
<1>1. place[x] \in {"reset", "ready"} \cup Working /\ InCluster!IsParticipant(x)
  BY DEF InSlice
<1>2. pos[x] < Len(program[x]) /\ InCluster!Group(x) # CTAs
  BY <1>1 DEF PlaceInv, Working
<1>3. \A d \in CTAs : /\ pos[d] \in Nat /\ pos[x] <= pos[d]
                      /\ pos[d] = pos[x] => place[d] # "code"
  BY <1>1 DEF OrderInv, ClusterType
<1>4. \A d \in CTAs : InSlice(d) => pos[d] <= pos[x]
  BY DEF InSlice, OrderInv
<1> QED BY <1>1, <1>2, <1>3, <1>4

\* A step leaves the barrier of a slice as it is when its members in that barrier
\* stay, or move among the places where the count does not depend on them.
LEMMA KeepsTurn ==
  ASSUME NEW g, NEW p, InCluster!Min(g) \in g, Turn(g, p),
         count'[InCluster!Min(g)] = count[InCluster!Min(g)],
         phase'[InCluster!Min(g)] = phase[InCluster!Min(g)],
         place[InCluster!Min(g)] = "fence" => place'[InCluster!Min(g)] = "fence",
         \A d \in g : pos[d] # p => pos'[d] # p,
         \A d \in g : pos[d] = p =>
           /\ pos'[d] = p
           /\ \/ place'[d] = place[d] /\ before'[d] = before[d]
              \/ {place[d], place'[d]} \subseteq Neutral
  PROVE  Turn(g, p)'
<1>1. CASE Counting(g, p)
  <2>1. \A d \in g : place'[d] = "wait" <=> place[d] = "wait"
    BY <1>1 DEF Counting, Neutral
  <2>2. Waiting(g)' = Waiting(g)
    BY <2>1 DEF Waiting
  <2>3. \A d \in g :
          /\ pos'[d] = p /\ place'[d] \in Neutral \cup {"add", "wait"}
          /\ place'[d] \in {"add", "wait"} => before'[d] = phase'[InCluster!Min(g)]
    BY <1>1 DEF Counting, Neutral
  <2>4. place'[InCluster!Min(g)] # "fence" =>
          count'[InCluster!Min(g)] = Cardinality(Waiting(g))
    BY <1>1 DEF Counting
  <2>5. Waiting(g) # g
    BY <1>1 DEF Counting
  <2>6. Cardinality(Waiting(g))' = Cardinality(Waiting(g)')
    OBVIOUS
  <2> QED BY <2>2, <2>3, <2>4, <2>5, <2>6 DEF Turn, Counting
<1>2. CASE Closing(g, p)
  <2>1. PICK e \in g :
          /\ pos[e] = p /\ place[e] \in {"last", "flip"}
          /\ \A d \in g \ {e} :
               pos[d] = p /\ place[d] = "wait" /\ before[d] = phase[InCluster!Min(g)]
    BY <1>2 DEF Closing
  <2>2. /\ pos'[e] = p /\ place'[e] \in {"last", "flip"}
        /\ \A d \in g \ {e} :
             pos'[d] = p /\ place'[d] = "wait" /\ before'[d] = phase'[InCluster!Min(g)]
    BY <2>1 DEF Neutral
  <2> QED BY <2>2 DEF Turn, Closing
<1>3. CASE Closed(g, p)
  <2>1. \A d \in g : pos'[d] = p =>
          place'[d] = "wait" /\ before'[d] # phase'[InCluster!Min(g)]
    BY <1>3 DEF Closed, Neutral
  <2> QED BY <2>1 DEF Turn, Closed
<1> QED BY <1>1, <1>2, <1>3 DEF Turn

LEMMA TurnElsewhere ==
  ASSUME Aligned, ClusterType, PlaceInv, OrderInv, NEW c \in CTAs, NEW x \in CTAs, InSlice(x),
         NEW g, NEW p, g = InCluster!Group(x), p = pos[x], ~(c \in g /\ pos[c] = p), Turn(g, p),
         \A d \in CTAs \ {c} : pos'[d] = pos[d] /\ place'[d] = place[d] /\ before'[d] = before[d],
         pos'[c] \in {pos[c], pos[c] + 1},
         count'[InCluster!Min(g)] = count[InCluster!Min(g)],
         phase'[InCluster!Min(g)] = phase[InCluster!Min(g)],
         c = InCluster!Min(g) /\ place[c] = "fence" => place'[c] = "fence"
  PROVE  Turn(g, p)'
<1>1. /\ InCluster!IsParticipant(x) /\ pos[x] < Len(program[x])
      /\ \A d \in CTAs : pos[d] \in Nat /\ pos[x] <= pos[d]
  BY SliceFacts
<1>2. g \in SUBSET CTAs /\ InCluster!Min(g) \in g
  BY <1>1, GroupFacts
<1>3. \A d \in g : /\ pos[d] # p => pos'[d] # p
                   /\ pos[d] = p => pos'[d] = p /\ place'[d] = place[d] /\ before'[d] = before[d]
  <2> SUFFICES ASSUME NEW d \in g
               PROVE  /\ pos[d] # p => pos'[d] # p
                      /\ pos[d] = p => pos'[d] = p /\ place'[d] = place[d] /\ before'[d] = before[d]
    OBVIOUS
  <2>1. CASE d = c
    <3>1. pos[c] \in Nat /\ p \in Nat /\ p <= pos[c] /\ pos[c] # p
      BY <1>1, <2>1
    <3>2. pos'[c] # p
      BY ONLY <3>1, pos'[c] \in {pos[c], pos[c] + 1}
    <3> QED BY <2>1, <3>1, <3>2
  <2>2. CASE d # c
    BY <1>2, <2>2
  <2> QED BY <2>1, <2>2
<1>4. place[InCluster!Min(g)] = "fence" => place'[InCluster!Min(g)] = "fence"
  BY <1>2
<1> HIDE DEF Turn
<1> QED BY <1>2, <1>3, <1>4, KeepsTurn

\* It is enough that every slice in its barrier keeps its turn, and that a CTA
\* that joins the slice does.
LEMMA TurnNext ==
  ASSUME ClusterType, NEW c \in CTAs, UNCHANGED program,
         \A d \in CTAs \ {c} : pos'[d] = pos[d] /\ place'[d] = place[d],
         \A x \in CTAs, g \in SUBSET CTAs, p \in Nat :
           InSlice(x) /\ g = InCluster!Group(x) /\ p = pos[x] => Turn(g, p)',
         InSlice(c)' => /\ pos'[c] = pos[c]
                        /\ \A g \in SUBSET CTAs, p \in Nat :
                             g = InCluster!Group(c) /\ p = pos[c] => Turn(g, p)'
  PROVE  TurnInv'
<1> SUFFICES ASSUME NEW x \in CTAs, NEW g \in SUBSET CTAs, NEW p \in Nat,
                    InSlice(x)', g = InCluster!Group(x)', p = pos'[x]
             PROVE  Turn(g, p)'
  BY DEF TurnInv
<1>1. CASE x = c
  <2>1. pos'[c] = pos[c]
    BY <1>1
  <2>2. g = InCluster!Group(c) /\ p = pos[c]
    BY <1>1, <2>1 DEF InCluster!Group
  <2> QED BY <1>1, <2>2
<1>2. CASE x # c
  <2>1. pos'[x] = pos[x] /\ place'[x] = place[x]
    BY <1>2
  <2>2. g = InCluster!Group(x) /\ p = pos[x] /\ InSlice(x)
    BY <2>1 DEF InCluster!Group, InSlice, InCluster!IsParticipant
  <2> QED BY <2>2
<1> QED BY <1>1, <1>2

\* A CTA that is not in the barrier of a slice, and leaves the memory alone.
LEMMA TurnOutside ==
  ASSUME Aligned, ClusterType, PlaceInv, OrderInv, TurnInv, NEW c \in CTAs,
         UNCHANGED <<program, count, phase, before>>,
         \A d \in CTAs \ {c} : pos'[d] = pos[d] /\ place'[d] = place[d],
         pos'[c] \in {pos[c], pos[c] + 1},
         place'[c] \notin {"reset", "ready"} \cup Working,
         place[c] # "fence",
         \/ place[c] = "code"
         \/ place[c] = "cluster"
         \/ place[c] = "ready" /\ ~InCluster!IsParticipant(c)
  PROVE  TurnInv'
<1>1. ASSUME NEW x \in CTAs, NEW g \in SUBSET CTAs, NEW p \in Nat,
             InSlice(x), g = InCluster!Group(x), p = pos[x]
      PROVE  Turn(g, p)'
  <2>1. /\ InCluster!IsParticipant(x) /\ pos[x] < Len(program[x]) /\ g # CTAs
        /\ pos[c] = p => place[c] # "code"
    BY <1>1, SliceFacts
  <2>2. c \in g /\ pos[c] = p => InCluster!Group(c) = g
    BY <1>1, <2>1, GroupFacts
  <2>3. ~(c \in g /\ pos[c] = p)
    <3> SUFFICES ASSUME c \in g, pos[c] = p PROVE FALSE
      OBVIOUS
    <3>1. place[c] # "cluster"
      BY <2>1, <2>2 DEF PlaceInv
    <3>2. InCluster!IsParticipant(c)
      BY <2>2 DEF InCluster!IsParticipant
    <3> QED BY <2>1, <3>1, <3>2
  <2>4. Turn(g, p)
    BY <1>1 DEF TurnInv
  <2> HIDE DEF Turn
  <2> QED BY <1>1, <2>3, <2>4, TurnElsewhere
<1>2. ~InSlice(c)'
  BY DEF InSlice
<1> QED BY <1>1, <1>2, TurnNext

\* A member that moves between places where the count does not depend on it.
LEMMA TurnNeutral ==
  ASSUME Aligned, ClusterType, PlaceInv, OrderInv, TurnInv, NEW c \in CTAs,
         UNCHANGED <<program, pos, count, phase, before>>,
         \A d \in CTAs \ {c} : place'[d] = place[d],
         {place[c], place'[c]} \subseteq Neutral, place[c] # "fence",
         InSlice(c)' => InSlice(c)
  PROVE  TurnInv'
<1>1. ASSUME NEW x \in CTAs, NEW g \in SUBSET CTAs, NEW p \in Nat,
             InSlice(x), g = InCluster!Group(x), p = pos[x]
      PROVE  Turn(g, p)'
  <2>1. InCluster!IsParticipant(x) /\ pos[x] < Len(program[x])
    BY <1>1, SliceFacts
  <2>2. InCluster!Min(g) \in g
    BY <1>1, <2>1, GroupFacts
  <2>3. Turn(g, p)
    BY <1>1 DEF TurnInv
  <2>4. place[InCluster!Min(g)] = "fence" => place'[InCluster!Min(g)] = "fence"
    BY <2>2
  <2>5. \A d \in g : pos[d] = p =>
          /\ pos'[d] = p
          /\ \/ place'[d] = place[d] /\ before'[d] = before[d]
             \/ {place[d], place'[d]} \subseteq Neutral
    OBVIOUS
  <2> HIDE DEF Turn
  <2> QED BY <2>2, <2>3, <2>4, <2>5, KeepsTurn
<1>2. InSlice(c)' => \A g \in SUBSET CTAs, p \in Nat :
        g = InCluster!Group(c) /\ p = pos[c] => Turn(g, p)'
  BY <1>1
<1> QED BY <1>1, <1>2, TurnNext

\* The first of a slice to pass the first fence finds nobody at work; the leader
\* resets the counter.
LEMMA TurnReset ==
  ASSUME Aligned, ClusterType, PlaceInv, OrderInv, CountType, TurnInv, NEW c \in CTAs,
         InCluster!Reset(c)
  PROVE  TurnInv'
<1>1. /\ place[c] = "fence" /\ InCluster!ClusterWait(c) /\ UNCHANGED <<program, pos, phase, before>>
      /\ place' = [place EXCEPT ![c] = "reset"]
      /\ count' = IF c = InCluster!Leader(c) THEN [count EXCEPT ![c] = 0] ELSE count
  BY DEF InCluster!Reset, InCluster!Goto
<1>2. /\ place'[c] = "reset" /\ \A d \in CTAs \ {c} : place'[d] = place[d]
      /\ count'[c] = (IF c = InCluster!Leader(c) THEN 0 ELSE count[c])
      /\ \A d \in CTAs \ {c} : count'[d] = count[d]
  BY <1>1 DEF ClusterType, CountType
<1>3. pos[c] \in Nat /\ pos[c] < Len(program[c])
  BY <1>1 DEF PlaceInv, ClusterType
<1>4. ASSUME NEW d \in CTAs
      PROVE  pos[d] = pos[c] /\ Here(d) >= 1 /\ place[d] \notin Working
  <2>1. pos[c] <= pos[d] /\ (pos[c] = pos[d] => Here(d) >= Here(c))
    BY <1>1, WaitFact
  <2>2. /\ Here(c) = 1 /\ Total(c) = 2
    BY <1>1 DEF Here, Total, PlaceInv
  <2>3. pos[d] <= pos[c] + 1 /\ pos[d] # pos[c] + 1
    BY <2>2 DEF OrderInv
  <2>4. pos[d] = pos[c]
    BY <2>1, <2>3, <1>3 DEF ClusterType
  <2> QED BY <2>1, <2>2, <2>4 DEF OrderInv
<1>5. ASSUME NEW x \in CTAs, NEW g \in SUBSET CTAs, NEW p \in Nat,
             x = c \/ InSlice(x), InSlice(x)', g = InCluster!Group(x), p = pos[x]
      PROVE  Turn(g, p)'
  <2> DEFINE m == InCluster!Min(g)
  <2>1. InCluster!IsParticipant(x) /\ pos[x] < Len(program[x])
    <3>1. CASE x = c
      BY <3>1, <1>1, <1>3, <1>5 DEF InSlice, InCluster!IsParticipant, InCluster!Group
    <3>2. CASE InSlice(x)
      BY <3>2, SliceFacts
    <3> QED BY <3>1, <3>2, <1>5
  <2>2. m \in g /\ m = InCluster!Leader(x) /\ x \in g
    BY <1>5, <2>1, GroupFacts
  <2>3. \A d \in g : InCluster!Group(d) = g
    BY <1>4, <1>5, <2>1, GroupFacts
  <2>4. \A d \in g : /\ pos'[d] = p /\ place'[d] \in Neutral
    <3>1. \A d \in g : place[d] \in Places \ Working /\ place[d] \notin {"code", "exited"}
      BY <1>4 DEF ClusterType, Here
    <3>2. g # CTAs
      <4>1. CASE x = c
        BY <4>1, <1>1, <1>5 DEF PlaceInv
      <4>2. CASE InSlice(x)
        BY <4>2, <1>5, SliceFacts
      <4> QED BY <4>1, <4>2, <1>5
    <3>3. \A d \in g : place[d] # "cluster"
      BY <2>3, <3>2 DEF PlaceInv
    <3> QED BY <1>1, <1>2, <1>4, <1>5, <3>1, <3>3 DEF Places, Neutral
  <2>5. place'[m] # "fence" => count'[m] = 0
    <3>1. CASE m = c
      <4>1. c = InCluster!Leader(c)
        BY <3>1, <2>2, <2>3 DEF InCluster!Leader
      <4> QED BY <4>1, <3>1, <1>2
    <3>2. CASE m # c
      <4> SUFFICES ASSUME place'[m] # "fence" PROVE count[m] = 0
        BY <3>2, <2>2, <1>2
      <4>1. m \in CTAs /\ place'[m] = place[m] /\ place[m] \in {"reset", "ready"}
        <5>1. m \in CTAs /\ place'[m] = place[m] /\ place[m] \in Neutral /\ place[m] \notin Working
          BY <3>2, <2>2, <2>4, <1>2, <1>4
        <5> QED BY <5>1 DEF Neutral, Working
      <4>2. InCluster!Group(m) = g /\ pos[m] = p
        BY <2>2, <2>3, <1>4, <1>5
      <4>3. InSlice(m)
        BY <4>1, <4>2, <2>2 DEF InSlice, InCluster!IsParticipant
      <4>4. Turn(g, p)
        BY <4>1, <4>2, <4>3 DEF TurnInv
      <4>5. m \in g /\ pos[m] = p /\ place[m] \notin {"wait", "last", "flip"}
        BY <4>1, <4>2, <2>2
      <4>6. Counting(g, p)
        BY <4>4, <4>5 DEF Turn, Closing, Closed
      <4>7. Waiting(g) = {}
        BY <1>4 DEF Waiting, Working
      <4> QED BY <4>1, <4>6, <4>7, FS_EmptySet DEF Counting
    <3> QED BY <3>1, <3>2
  <2>6. Waiting(g)' = {}
    BY <2>4 DEF Waiting, Neutral
  <2>7. Counting(g, p)'
    <3>1. /\ \A d \in g :
               /\ pos'[d] = p /\ place'[d] \in Neutral \cup {"add", "wait"}
               /\ place'[d] \in {"add", "wait"} => before'[d] = phase'[m]
          /\ Waiting(g)' # g
      BY <2>2, <2>4, <2>6 DEF Neutral
    <3>2. Cardinality(Waiting(g)') = 0
      BY <2>6, FS_EmptySet
    <3>3. Cardinality(Waiting(g))' = Cardinality(Waiting(g)')
      OBVIOUS
    <3> QED BY <2>5, <3>1, <3>2, <3>3 DEF Counting
  <2> QED BY <2>7 DEF Turn
<1>6. \A x \in CTAs : InSlice(x) => InSlice(x)'
  <2>1. ~InSlice(c)
    BY <1>1 DEF InSlice, Working
  <2>2. \A x \in CTAs \ {c} : InSlice(x) => InSlice(x)'
    BY <1>1, <1>2 DEF InSlice, InCluster!IsParticipant, InCluster!Group
  <2> QED BY <2>1, <2>2
<1>7. \A x \in CTAs, g \in SUBSET CTAs, p \in Nat :
        InSlice(x) /\ g = InCluster!Group(x) /\ p = pos[x] => Turn(g, p)'
  BY <1>5, <1>6
<1>8. InSlice(c)' => \A g \in SUBSET CTAs, p \in Nat :
        g = InCluster!Group(c) /\ p = pos[c] => Turn(g, p)'
  BY <1>5
<1> HIDE DEF Turn
<1> QED BY <1>1, <1>2, <1>7, <1>8, TurnNext

\* A member at work touches its own leader's memory only, so that of the slices
\* only its own has to be looked at.
LEMMA TurnWork ==
  ASSUME Aligned, ClusterType, PlaceInv, OrderInv, TurnInv, NEW c \in CTAs,
         place[c] \in Working, UNCHANGED program,
         \A d \in CTAs \ {c} : pos'[d] = pos[d] /\ place'[d] = place[d] /\ before'[d] = before[d],
         pos'[c] \in {pos[c], pos[c] + 1},
         place'[c] # "code" => pos'[c] = pos[c],
         \A d \in CTAs \ {InCluster!Leader(c)} : count'[d] = count[d] /\ phase'[d] = phase[d],
         \A g \in SUBSET CTAs, p \in Nat :
           g = InCluster!Group(c) /\ p = pos[c] /\ Turn(g, p) => Turn(g, p)'
  PROVE  TurnInv'
<1>1. InSlice(c)
  BY DEF InSlice, PlaceInv
<1>2. InCluster!IsParticipant(c) /\ pos[c] < Len(program[c]) /\ place[c] # "fence"
  BY <1>1, SliceFacts DEF Working
<1>3. ASSUME NEW x \in CTAs, NEW g \in SUBSET CTAs, NEW p \in Nat,
             InSlice(x), g = InCluster!Group(x), p = pos[x]
      PROVE  Turn(g, p)'
  <2>1. InCluster!IsParticipant(x) /\ pos[x] < Len(program[x]) /\ pos[c] = p
    BY <1>1, <1>3, SliceFacts
  <2>2. Turn(g, p)
    BY <1>3 DEF TurnInv
  <2>3. InCluster!Min(g) \in g /\ (c \in g => InCluster!Group(c) = g)
    BY <1>3, <2>1, GroupFacts
  <2>4. CASE c \in g
    BY <2>1, <2>2, <2>3, <2>4
  <2>5. CASE c \notin g
    <3>1. PICK h : h = InCluster!Group(c)
      OBVIOUS
    <3>2. /\ c \in h /\ InCluster!Leader(c) \in h
          /\ h \cap InCluster!Group(x) # {} => InCluster!Group(x) = h
      BY <1>2, <1>3, <2>1, <3>1, GroupFacts
    <3>3. InCluster!Leader(c) \notin g
      BY <3>2, <1>3, <2>5
    <3>4. /\ count'[InCluster!Min(g)] = count[InCluster!Min(g)]
          /\ phase'[InCluster!Min(g)] = phase[InCluster!Min(g)]
      BY <3>3, <2>3
    <3> HIDE DEF Turn
    <3> QED BY <1>2, <1>3, <2>2, <2>5, <3>4, TurnElsewhere
  <2> QED BY <2>4, <2>5
<1>4. InSlice(c)' => pos'[c] = pos[c]
  BY DEF InSlice, Working
<1>5. \A g \in SUBSET CTAs, p \in Nat : g = InCluster!Group(c) /\ p = pos[c] => Turn(g, p)'
  BY <1>1, <1>3
<1> HIDE DEF Turn
<1> QED BY <1>3, <1>4, <1>5, TurnNext

\* What a member at work knows of its slice
LEMMA WorkFacts ==
  ASSUME Aligned, ClusterType, PlaceInv, OrderInv, NEW c \in CTAs, place[c] \in Working,
         NEW g, g = InCluster!Group(c)
  PROVE  /\ g \in SUBSET CTAs /\ c \in g /\ InCluster!Leader(c) \in CTAs
         /\ InCluster!Min(g) \in g /\ InCluster!Min(g) = InCluster!Leader(c)
         /\ place[InCluster!Min(g)] # "fence" \/ pos[InCluster!Min(g)] # pos[c]
         /\ IsFiniteSet(g) /\ Cardinality(g) \in Nat /\ Cardinality(g) < 2 * Half
<1>1. InSlice(c)
  BY DEF InSlice, PlaceInv
<1>2. InCluster!IsParticipant(c) /\ pos[c] < Len(program[c])
  BY <1>1, SliceFacts
<1>3. /\ g \in SUBSET CTAs /\ c \in g
      /\ InCluster!Min(g) \in g /\ InCluster!Min(g) = InCluster!Leader(c)
      /\ IsFiniteSet(g) /\ Cardinality(g) \in Nat /\ Cardinality(g) < 2 * Half
  BY <1>2, GroupFacts
<1>4. \A d \in CTAs : pos[d] = pos[c] => Here(d) = 2
  BY DEF OrderInv
<1>5. place[InCluster!Min(g)] # "fence" \/ pos[InCluster!Min(g)] # pos[c]
  BY <1>3, <1>4 DEF Here
<1> QED BY <1>3, <1>5

LEMMA TurnRead ==
  ASSUME Aligned, ClusterType, PlaceInv, OrderInv, CountType, TurnInv, NEW c \in CTAs,
         InCluster!ReadPhase(c)
  PROVE  TurnInv'
<1>1. /\ place[c] = "work" /\ UNCHANGED <<program, pos, count, phase>>
      /\ before' = [before EXCEPT ![c] = phase[InCluster!Leader(c)]]
      /\ place' = [place EXCEPT ![c] = "add"]
  BY DEF InCluster!ReadPhase, InCluster!Goto, InCluster!smem
<1>2. /\ place'[c] = "add" /\ before'[c] = phase[InCluster!Leader(c)]
      /\ \A d \in CTAs \ {c} : place'[d] = place[d] /\ before'[d] = before[d]
  BY <1>1 DEF ClusterType, CountType
<1>3. place[c] \in Working
  BY <1>1 DEF Working
<1>4. ASSUME NEW g \in SUBSET CTAs, NEW p \in Nat, g = InCluster!Group(c), p = pos[c], Turn(g, p)
      PROVE  Turn(g, p)'
  <2>1. c \in g /\ InCluster!Min(g) \in g /\ InCluster!Min(g) = InCluster!Leader(c)
    BY <1>3, <1>4, WorkFacts
  <2>2. Counting(g, p)
    BY <1>1, <1>4, <2>1 DEF Turn, Closing, Closed
  <2>3. Waiting(g)' = Waiting(g)
    BY <1>1, <1>2, <2>1 DEF Waiting
  <2>4. \A d \in g :
          /\ pos'[d] = p /\ place'[d] \in Neutral \cup {"add", "wait"}
          /\ place'[d] \in {"add", "wait"} => before'[d] = phase'[InCluster!Min(g)]
    BY <1>1, <1>2, <2>1, <2>2 DEF Counting
  <2>5. place'[InCluster!Min(g)] # "fence" => count'[InCluster!Min(g)] = Cardinality(Waiting(g))
    BY <1>1, <1>2, <2>1, <2>2 DEF Counting
  <2>6. Waiting(g) # g
    BY <2>2 DEF Counting
  <2>7. Cardinality(Waiting(g))' = Cardinality(Waiting(g)')
    OBVIOUS
  <2> QED BY <2>3, <2>4, <2>5, <2>6, <2>7 DEF Turn, Counting
<1> HIDE DEF Turn
<1> QED BY <1>1, <1>2, <1>3, <1>4, TurnWork

\* An addition to the counter carries nothing away: a slice has fewer members
\* than the counter has values.
LEMMA TurnArrive ==
  ASSUME Aligned, ClusterType, PlaceInv, OrderInv, CountType, TurnInv, NEW c \in CTAs,
         InCluster!Arrive(c)
  PROVE  TurnInv'
<1> DEFINE l == IF InCluster!IsLast(c) THEN "last" ELSE "wait"
           m == InCluster!Leader(c)
<1>1. /\ place[c] = "add" /\ UNCHANGED <<program, pos, phase, before>>
      /\ count' = [count EXCEPT ![m] = (@ + 1) % (2 * Half)]
      /\ place' = [place EXCEPT ![c] = l]
  BY DEF InCluster!Arrive, InCluster!Goto
<1>2. place[c] \in Working /\ l # "code"
  BY <1>1 DEF Working
<1>3. PICK g : g = InCluster!Group(c)
  OBVIOUS
<1>4. /\ g \in SUBSET CTAs /\ c \in g /\ m \in g /\ InCluster!Min(g) = m
      /\ place[m] # "fence" \/ pos[m] # pos[c]
      /\ IsFiniteSet(g) /\ Cardinality(g) \in Nat /\ Cardinality(g) < 2 * Half
  BY <1>2, <1>3, WorkFacts
<1>5. InCluster!IsLast(c) <=> count[m] + 1 = Cardinality(g)
  BY <1>3, SameCardinality DEF InCluster!IsLast
<1> HIDE DEF l, m
<1>6. /\ place'[c] = l /\ count'[m] = (count[m] + 1) % (2 * Half)
      /\ \A d \in CTAs \ {c} : place'[d] = place[d]
      /\ \A d \in CTAs \ {m} : count'[d] = count[d]
  BY <1>1, <1>4 DEF ClusterType, CountType
<1>7. ASSUME NEW p \in Nat, p = pos[c], Turn(g, p)
      PROVE  Turn(g, p)'
  <2>1. Counting(g, p)
    BY <1>1, <1>4, <1>7 DEF Turn, Closing, Closed
  <2>2. place[m] # "fence" /\ count[m] = Cardinality(Waiting(g))
    BY <1>4, <1>7, <2>1 DEF Counting
  <2>3. /\ c \notin Waiting(g) /\ Waiting(g) \subseteq g /\ IsFiniteSet(Waiting(g))
        /\ Waiting(g) # g
    <3>1. c \notin Waiting(g) /\ Waiting(g) \subseteq g
      BY <1>1 DEF Waiting
    <3> QED BY <3>1, <1>4, FS_Subset
  <2>4. Cardinality(Waiting(g) \cup {c}) = count[m] + 1 /\ count[m] \in Nat
    BY <2>2, <2>3, FS_AddElement, FS_CardinalityType
  <2>5. /\ Waiting(g) \cup {c} \subseteq g
        /\ Cardinality(Waiting(g) \cup {c}) <= Cardinality(g)
        /\ Cardinality(Waiting(g) \cup {c}) = Cardinality(g) => Waiting(g) \cup {c} = g
    BY <1>4, <2>3, FS_Subset
  <2>6. count'[m] = count[m] + 1
    <3>1. count[m] + 1 \in Nat /\ count[m] + 1 < 2 * Half
      BY <1>4, <2>4, <2>5, HalfFacts
    <3> QED BY <3>1, <1>6, HalfFacts
  <2>7. \A d \in g : pos'[d] = p /\ before'[d] = before[d]
    BY <1>1, <2>1 DEF Counting
  <2>8. phase'[m] = phase[m] /\ before[c] = phase[m]
    BY <1>1, <1>4, <2>1 DEF Counting
  <2>9. CASE l = "last"
    <3>1. Waiting(g) \cup {c} = g
      BY <1>5, <2>4, <2>5, <2>9 DEF l
    <3>2. \A d \in g \ {c} : place[d] = "wait" /\ before[d] = phase[m]
      BY <3>1, <1>4, <2>1 DEF Waiting, Counting
    <3>3. \A d \in g \ {c} : pos'[d] = p /\ place'[d] = "wait" /\ before'[d] = phase'[m]
      BY <3>2, <1>4, <1>6, <2>7, <2>8
    <3> QED BY <3>3, <1>4, <1>6, <2>7, <2>9 DEF Turn, Closing
  <2>10. CASE l = "wait" /\ count[m] + 1 # Cardinality(g)
    <3>1. Waiting(g)' = Waiting(g) \cup {c}
      BY <1>4, <1>6, <2>10 DEF Waiting
    <3>2. Waiting(g)' # g
      BY <3>1, <2>4, <2>10
    <3>3. Cardinality(Waiting(g))' = count'[m]
      BY <3>1, <2>4, <2>6
    <3>4. \A d \in g :
            /\ pos'[d] = p /\ place'[d] \in Neutral \cup {"add", "wait"}
            /\ place'[d] \in {"add", "wait"} => before'[d] = phase'[m]
      <4> SUFFICES ASSUME NEW d \in g
                   PROVE  /\ place'[d] \in Neutral \cup {"add", "wait"}
                          /\ place'[d] \in {"add", "wait"} => before'[d] = phase'[m]
        BY <2>7
      <4>1. CASE d = c
        BY <4>1, <1>6, <2>7, <2>8, <2>10
      <4>2. CASE d # c
        <5>1. place'[d] = place[d] /\ before'[d] = before[d] /\ phase'[m] = phase[m]
          BY <4>2, <1>4, <1>6, <2>7, <2>8
        <5> QED BY <5>1, <1>4, <2>1 DEF Counting
      <4> QED BY <4>1, <4>2
    <3> QED BY <3>2, <3>3, <3>4, <1>4 DEF Turn, Counting
  <2> QED BY <1>5, <2>9, <2>10 DEF l
<1>8. \A h \in SUBSET CTAs, p \in Nat :
        h = InCluster!Group(c) /\ p = pos[c] /\ Turn(h, p) => Turn(h, p)'
  BY <1>3, <1>7
<1>9. \A d \in CTAs \ {InCluster!Leader(c)} : count'[d] = count[d] /\ phase'[d] = phase[d]
  BY <1>1, <1>6 DEF m
<1>10. \A d \in CTAs \ {c} : pos'[d] = pos[d] /\ place'[d] = place[d] /\ before'[d] = before[d]
  BY <1>1, <1>6
<1> HIDE DEF Turn
<1> QED BY <1>1, <1>2, <1>8, <1>9, <1>10, TurnWork

\* The last to add takes the additions back; the others wait.
LEMMA TurnTakeBack ==
  ASSUME Aligned, ClusterType, PlaceInv, OrderInv, CountType, TurnInv, NEW c \in CTAs,
         InCluster!TakeBack(c)
  PROVE  TurnInv'
<1> DEFINE m == InCluster!Leader(c)
<1>1. /\ place[c] = "last" /\ UNCHANGED <<program, pos, phase, before>>
      /\ \A d \in CTAs \ {m} : count'[d] = count[d]
      /\ place' = [place EXCEPT ![c] = "flip"]
  BY DEF InCluster!TakeBack, InCluster!Goto, CountType
<1>2. place[c] \in Working
  BY <1>1 DEF Working
<1>3. place'[c] = "flip" /\ \A d \in CTAs \ {c} : place'[d] = place[d]
  BY <1>1 DEF ClusterType
<1>4. ASSUME NEW g \in SUBSET CTAs, NEW p \in Nat, g = InCluster!Group(c), p = pos[c], Turn(g, p)
      PROVE  Turn(g, p)'
  <2>1. c \in g
    BY <1>2, <1>4, WorkFacts
  <2>2. \A d \in g \ {c} :
          pos[d] = p /\ place[d] = "wait" /\ before[d] = phase[InCluster!Min(g)]
    BY <1>1, <1>4, <2>1 DEF Turn, Counting, Neutral, Closing, Closed
  <2>3. \A d \in g \ {c} :
          pos'[d] = p /\ place'[d] = "wait" /\ before'[d] = phase'[InCluster!Min(g)]
    BY <1>1, <1>3, <2>2
  <2>4. pos'[c] = p
    BY <1>1, <1>4
  <2> QED BY <1>3, <2>1, <2>3, <2>4 DEF Turn, Closing
<1> HIDE DEF Turn
<1> QED BY <1>1, <1>2, <1>3, <1>4, TurnWork

\* It changes the phase, for all that wait: the next value is another one, at the
\* end of the range too.
LEMMA TurnFlip ==
  ASSUME Aligned, ClusterType, PlaceInv, OrderInv, CountType, TurnInv, NEW c \in CTAs,
         InCluster!Flip(c)
  PROVE  TurnInv'
<1> DEFINE m == InCluster!Leader(c)
<1>1. /\ place[c] = "flip" /\ UNCHANGED <<program, count, before>>
      /\ phase' = [phase EXCEPT ![m] = (@ + 1) % (2 * Half)]
      /\ place' = [place EXCEPT ![c] = "code"] /\ pos' = [pos EXCEPT ![c] = @ + 1]
  BY DEF InCluster!Flip, InCluster!Goto, InCluster!Done
<1>2. place[c] \in Working
  BY <1>1 DEF Working
<1>3. /\ place'[c] = "code" /\ pos'[c] = pos[c] + 1 /\ pos[c] \in Nat
      /\ \A d \in CTAs \ {c} : place'[d] = place[d] /\ pos'[d] = pos[d]
      /\ \A d \in CTAs \ {m} : phase'[d] = phase[d]
  BY <1>1 DEF ClusterType, CountType
<1>4. m \in CTAs /\ phase'[m] # phase[m]
  <2>1. m \in CTAs
    BY <1>2, WorkFacts
  <2>2. phase[m] \in 0 .. 2 * Half - 1 /\ phase'[m] = (phase[m] + 1) % (2 * Half)
    BY <1>1, <2>1 DEF CountType
  <2>3. Half \in Nat /\ Half > 0
    BY HalfFacts
  <2> HIDE DEF m
  <2>4. phase[m] + 1 \in Nat /\ phase[m] + 1 < 4 * Half
    BY ONLY <2>2, <2>3
  <2>5. phase'[m] = IF phase[m] + 1 < 2 * Half THEN phase[m] + 1 ELSE phase[m] + 1 - 2 * Half
    <3>1. PICK x \in Nat : x = phase[m] + 1
      BY ONLY <2>4
    <3>2. x < 4 * Half /\ phase'[m] = x % (2 * Half)
      BY ONLY <2>2, <2>4, <3>1
    <3>3. x % (2 * Half) = IF x < 2 * Half THEN x ELSE x - 2 * Half
      BY ONLY <2>3, <3>2, Wrapped
    <3> QED BY ONLY <2>2, <2>3, <2>4, <3>1, <3>2, <3>3
  <2> QED BY ONLY <2>1, <2>2, <2>3, <2>5
<1>5. ASSUME NEW g \in SUBSET CTAs, NEW p \in Nat, g = InCluster!Group(c), p = pos[c], Turn(g, p)
      PROVE  Turn(g, p)'
  <2>1. c \in g /\ InCluster!Min(g) = m
    BY <1>2, <1>5, WorkFacts
  <2>2. \A d \in g \ {c} : place[d] = "wait" /\ before[d] = phase[m]
    BY <1>1, <1>5, <2>1 DEF Turn, Counting, Neutral, Closing, Closed
  <2>3. pos'[c] # p
    BY <1>3, <1>5
  <2>4. \A d \in g \ {c} : place'[d] = "wait" /\ before'[d] # phase'[m]
    BY <1>1, <1>3, <1>4, <2>2
  <2> QED BY <2>1, <2>3, <2>4 DEF Turn, Closed
<1> HIDE DEF Turn
<1> QED BY <1>1, <1>2, <1>3, <1>5, TurnWork

\* A member stops waiting only when the phase has been changed for all.
LEMMA TurnWait ==
  ASSUME Aligned, ClusterType, PlaceInv, OrderInv, CountType, TurnInv, NEW c \in CTAs,
         InCluster!Wait(c)
  PROVE  TurnInv'
<1>1. /\ place[c] = "wait" /\ phase[InCluster!Leader(c)] # before[c]
      /\ UNCHANGED <<program, count, phase, before>>
      /\ place' = [place EXCEPT ![c] = "code"] /\ pos' = [pos EXCEPT ![c] = @ + 1]
  BY DEF InCluster!Wait, InCluster!Goto, InCluster!Done, InCluster!smem
<1>2. place[c] \in Working
  BY <1>1 DEF Working
<1>3. /\ place'[c] = "code" /\ pos'[c] = pos[c] + 1 /\ pos[c] \in Nat
      /\ \A d \in CTAs \ {c} : place'[d] = place[d] /\ pos'[d] = pos[d]
  BY <1>1 DEF ClusterType
<1>4. ASSUME NEW g \in SUBSET CTAs, NEW p \in Nat, g = InCluster!Group(c), p = pos[c], Turn(g, p)
      PROVE  Turn(g, p)'
  <2>1. c \in g /\ InCluster!Min(g) = InCluster!Leader(c)
    BY <1>2, <1>4, WorkFacts
  <2>2. ~Counting(g, p)
    BY <1>1, <2>1 DEF Counting
  <2>3. ~Closing(g, p)
    BY <1>1, <2>1 DEF Closing
  <2>4. Closed(g, p)
    BY <1>4, <2>2, <2>3 DEF Turn
  <2>5. pos'[c] # p
    BY <1>3, <1>4
  <2>6. Closed(g, p)'
    BY <1>1, <1>3, <2>4, <2>5 DEF Closed
  <2> QED BY <2>6 DEF Turn
<1> HIDE DEF Turn
<1> QED BY <1>1, <1>2, <1>3, <1>4, TurnWork

LEMMA CountTypeStep ==
  ASSUME Aligned, ClusterType, PlaceInv, OrderInv, CountType, NEW c \in CTAs, InCluster!Step(c)
  PROVE  CountType'
<1> DEFINE W == 0 .. 2 * Half - 1
<1>1. 0 \in W /\ \A x \in Int : x % (2 * Half) \in W
  BY HalfFacts
<1>2. /\ count \in [CTAs -> W] /\ phase \in [CTAs -> W] /\ before \in [CTAs -> W]
  BY DEF CountType
<1>3. W \subseteq Int
  BY HalfFacts
<1> HIDE DEF W
<1>4. \A f : f \in [CTAs -> W] => \A d, x : x \in W => [f EXCEPT ![d] = x] \in [CTAs -> W]
  OBVIOUS
<1>5. CASE InCluster!Call(c) \/ InCluster!WaitAll(c) \/ InCluster!ArriveAgain(c) \/ InCluster!Start(c)
           \/ InCluster!Wait(c) \/ InCluster!Exit(c)
  <2>1. UNCHANGED <<count, phase, before>>
    BY <1>5 DEF InCluster!Call, InCluster!WaitAll, InCluster!ArriveAgain, InCluster!Start,
                InCluster!Wait, InCluster!Exit, InCluster!smem
  <2> QED BY <2>1 DEF CountType
<1>6. CASE InCluster!Reset(c)
  <2>1. /\ count' \in {count, [count EXCEPT ![c] = 0]} /\ UNCHANGED <<phase, before>>
    BY <1>6 DEF InCluster!Reset
  <2>2. count' \in [CTAs -> W]
    BY <1>1, <1>2, <1>4, <2>1
  <2> QED BY <1>2, <2>1, <2>2 DEF CountType, W
<1>7. CASE InCluster!ReadPhase(c)
  <2>1. /\ before' = [before EXCEPT ![c] = phase[InCluster!Leader(c)]]
        /\ UNCHANGED <<count, phase>> /\ place[c] \in Working
    BY <1>7 DEF InCluster!ReadPhase, InCluster!smem, Working
  <2>2. InCluster!Leader(c) \in CTAs
    BY <2>1, WorkFacts
  <2>3. phase[InCluster!Leader(c)] \in W
    BY <1>2, <2>2
  <2>4. before' \in [CTAs -> W]
    BY <1>2, <1>4, <2>1, <2>3
  <2> QED BY <1>2, <2>1, <2>4 DEF CountType, W
<1>8. CASE InCluster!Arrive(c) \/ InCluster!TakeBack(c) \/ InCluster!Flip(c)
  <2> DEFINE m == InCluster!Leader(c)
             g == InCluster!Group(c)
  <2>1. place[c] \in Working
    BY <1>8 DEF InCluster!Arrive, InCluster!TakeBack, InCluster!Flip, Working
  <2>2. m \in CTAs /\ Cardinality(g) \in Nat
    BY <2>1, WorkFacts
  <2>3. count[m] \in Int /\ phase[m] \in Int
    BY <1>2, <1>3, <2>2
  <2>4. /\ (count[m] + 1) % (2 * Half) \in W /\ (phase[m] + 1) % (2 * Half) \in W
        /\ (count[m] - Cardinality(g)) % (2 * Half) \in W
    <3>1. count[m] + 1 \in Int /\ phase[m] + 1 \in Int /\ count[m] - Cardinality(g) \in Int
      BY <2>2, <2>3
    <3> QED BY <1>1, <3>1
  <2>5. /\ UNCHANGED before
        /\ \/ UNCHANGED phase /\ count' = [count EXCEPT ![m] = (count[m] + 1) % (2 * Half)]
           \/ /\ UNCHANGED phase
              /\ count' = [count EXCEPT ![m] = (count[m] - InCluster!Cardinality(g)) % (2 * Half)]
           \/ UNCHANGED count /\ phase' = [phase EXCEPT ![m] = (phase[m] + 1) % (2 * Half)]
    BY <1>8 DEF InCluster!Arrive, InCluster!TakeBack, InCluster!Flip
  <2>6. InCluster!Cardinality(g) = Cardinality(g)
    BY SameCardinality
  <2> HIDE DEF m, g
  <2>7. count' \in [CTAs -> W] /\ phase' \in [CTAs -> W]
    BY <1>2, <1>4, <2>4, <2>5, <2>6
  <2> QED BY <1>2, <2>5, <2>7 DEF CountType, W
<1> QED BY <1>5, <1>6, <1>7, <1>8 DEF InCluster!Step

LEMMA TurnStep ==
  ASSUME Aligned, ClusterType, PlaceInv, OrderInv, CountType, TurnInv, NEW c \in CTAs,
         InCluster!Step(c)
  PROVE  TurnInv'
<1> USE DEF InCluster!Goto
<1>1. ASSUME NEW l, place' = [place EXCEPT ![c] = l]
      PROVE  place'[c] = l /\ \A d \in CTAs \ {c} : place'[d] = place[d]
  BY <1>1 DEF ClusterType
<1>2. ASSUME pos' = [pos EXCEPT ![c] = @ + 1]
      PROVE  pos'[c] = pos[c] + 1 /\ \A d \in CTAs \ {c} : pos'[d] = pos[d]
  BY <1>2 DEF ClusterType
<1>3. CASE InCluster!Call(c)
  <2>1. /\ place[c] = "code" /\ UNCHANGED <<program, pos, count, phase, before>>
        /\ \E l \in {"cluster", "fence"} : place' = [place EXCEPT ![c] = l]
    BY <1>3 DEF InCluster!Call, InCluster!smem
  <2>2. place'[c] \in {"cluster", "fence"} /\ \A d \in CTAs \ {c} : place'[d] = place[d]
    BY <1>1, <2>1
  <2> QED BY <2>1, <2>2, TurnOutside DEF Working
<1>4. CASE InCluster!WaitAll(c)
  <2>1. /\ place[c] = "cluster" /\ UNCHANGED <<program, count, phase, before>>
        /\ place' = [place EXCEPT ![c] = "code"] /\ pos' = [pos EXCEPT ![c] = @ + 1]
    BY <1>4 DEF InCluster!WaitAll, InCluster!Done, InCluster!smem
  <2>2. place'[c] = "code" /\ \A d \in CTAs \ {c} : place'[d] = place[d] /\ pos'[d] = pos[d]
    BY <1>1, <1>2, <2>1
  <2>3. pos'[c] = pos[c] + 1
    BY <1>2, <2>1
  <2> QED BY <2>1, <2>2, <2>3, TurnOutside DEF Working
<1>5. CASE InCluster!ArriveAgain(c)
  <2>1. /\ place[c] = "reset" /\ UNCHANGED <<program, pos, count, phase, before>>
        /\ place' = [place EXCEPT ![c] = "ready"]
    BY <1>5 DEF InCluster!ArriveAgain, InCluster!smem
  <2>2. place'[c] = "ready" /\ \A d \in CTAs \ {c} : place'[d] = place[d]
    BY <1>1, <2>1
  <2>3. InSlice(c)' => InSlice(c)
    BY <2>1 DEF InSlice, InCluster!IsParticipant, InCluster!Group
  <2> QED BY <2>1, <2>2, <2>3, TurnNeutral DEF Neutral
<1>6. CASE InCluster!Start(c) /\ InCluster!IsParticipant(c)
  <2>1. /\ place[c] = "ready" /\ UNCHANGED <<program, pos, count, phase, before>>
        /\ place' = [place EXCEPT ![c] = "work"]
    BY <1>6 DEF InCluster!Start, InCluster!smem
  <2>2. place'[c] = "work" /\ \A d \in CTAs \ {c} : place'[d] = place[d]
    BY <1>1, <2>1
  <2>3. InSlice(c)
    BY <1>6, <2>1 DEF InSlice
  <2> QED BY <2>1, <2>2, <2>3, TurnNeutral DEF Neutral
<1>7. CASE InCluster!Start(c) /\ ~InCluster!IsParticipant(c)
  <2>1. /\ place[c] = "ready" /\ UNCHANGED <<program, count, phase, before>>
        /\ place' = [place EXCEPT ![c] = "code"] /\ pos' = [pos EXCEPT ![c] = @ + 1]
    BY <1>7 DEF InCluster!Start, InCluster!Done, InCluster!smem
  <2>2. place'[c] = "code" /\ \A d \in CTAs \ {c} : place'[d] = place[d] /\ pos'[d] = pos[d]
    BY <1>1, <1>2, <2>1
  <2>3. pos'[c] = pos[c] + 1
    BY <1>2, <2>1
  <2> QED BY <1>7, <2>1, <2>2, <2>3, TurnOutside DEF Working
<1>8. CASE InCluster!Exit(c)
  <2>1. /\ place[c] = "code" /\ UNCHANGED <<program, pos, count, phase, before>>
        /\ place' = [place EXCEPT ![c] = "exited"]
    BY <1>8 DEF InCluster!Exit, InCluster!smem
  <2>2. place'[c] = "exited" /\ \A d \in CTAs \ {c} : place'[d] = place[d]
    BY <1>1, <2>1
  <2> QED BY <2>1, <2>2, TurnOutside DEF Working
<1> QED
  BY <1>3, <1>4, <1>5, <1>6, <1>7, <1>8, TurnReset, TurnRead, TurnArrive, TurnTakeBack, TurnFlip,
     TurnWait DEF InCluster!Step

LEMMA SliceInit == KernelInit => SliceInv
<1> SUFFICES ASSUME KernelInit PROVE SliceInv
  OBVIOUS
<1>1. \A x \in {1, 2 * Half - 1} : x \in 0 .. 2 * Half - 1
  BY HalfFacts
<1>2. 0 \in 0 .. 2 * Half - 1
  BY HalfFacts
<1>3. CountType
  BY <1>1, <1>2 DEF KernelInit, CountType
<1>4. \A c \in CTAs : place[c] = "code"
  BY DEF KernelInit
<1>5. TurnInv
  BY <1>4 DEF TurnInv, InSlice, Working
<1> QED BY <1>3, <1>5 DEF SliceInv

LEMMA SliceNext == ClusterInv /\ SliceInv /\ [KernelNext]_all => SliceInv'
<1> SUFFICES ASSUME ClusterInv, SliceInv, [KernelNext]_all PROVE SliceInv'
  OBVIOUS
<1>1. CASE LaunchCluster
  <2>1. stage # "cluster" /\ UNCHANGED <<pos, place, arrivals, count, phase, before>>
    BY <1>1 DEF LaunchCluster, Compiled
  <2>2. CountType'
    BY <2>1 DEF SliceInv, CountType
  <2>3. \A c \in CTAs : place'[c] = "code"
    BY <2>1 DEF ClusterInv
  <2>4. TurnInv'
    BY <2>3 DEF TurnInv, InSlice, Working
  <2> QED BY <2>2, <2>4 DEF SliceInv
<1>2. ASSUME NEW c \in CTAs, ClusterStep(c) PROVE SliceInv'
  <2>1. InCluster!Step(c) /\ stage = "cluster" /\ stage' = "cluster"
    BY <1>2 DEF ClusterStep
  <2>2. UNCHANGED program
    BY <2>1 DEF InCluster!Step, InCluster!Call, InCluster!WaitAll, InCluster!Reset,
                InCluster!ArriveAgain, InCluster!Start, InCluster!ReadPhase, InCluster!Arrive,
                InCluster!TakeBack, InCluster!Flip, InCluster!Wait, InCluster!Exit
  <2>3. Aligned' <=> Aligned
    BY <2>2 DEF Aligned
  <2>4. ASSUME Aligned PROVE CountType' /\ TurnInv'
    <3>1. ClusterType /\ PlaceInv /\ OrderInv /\ CountType /\ TurnInv
      BY <2>4 DEF ClusterInv, SliceInv
    <3> QED BY <2>1, <2>4, <3>1, CountTypeStep, TurnStep
  <2> QED BY <2>1, <2>3, <2>4 DEF SliceInv
<1>3. CASE UNCHANGED onCluster /\ (stage' = "cluster" <=> stage = "cluster")
  <2>1. UNCHANGED <<program, pos, place, count, phase, before>>
    BY <1>3 DEF onCluster
  <2>2. Aligned' <=> Aligned
    BY <2>1 DEF Aligned
  <2>3. CountType' <=> CountType
    BY <2>1 DEF CountType
  <2>4. \A g \in SUBSET CTAs, p \in Nat : Turn(g, p) => Turn(g, p)'
    <3> SUFFICES ASSUME NEW g \in SUBSET CTAs, NEW p \in Nat, Turn(g, p) PROVE Turn(g, p)'
      OBVIOUS
    <3>1. Waiting(g)' = Waiting(g)
      BY <2>1 DEF Waiting
    <3>2. Cardinality(Waiting(g))' = Cardinality(Waiting(g))
      BY <3>1
    <3>3. Counting(g, p) => Counting(g, p)'
      BY <2>1, <3>1, <3>2 DEF Counting
    <3>4. Closing(g, p) => Closing(g, p)'
      BY <2>1 DEF Closing
    <3>5. Closed(g, p) => Closed(g, p)'
      BY <2>1 DEF Closed
    <3> QED BY <3>3, <3>4, <3>5 DEF Turn
  <2>5. TurnInv => TurnInv'
    <3>1. \A c \in CTAs : /\ InSlice(c)' <=> InSlice(c)
                          /\ InCluster!Group(c)' = InCluster!Group(c) /\ pos'[c] = pos[c]
      BY <2>1 DEF InSlice, InCluster!IsParticipant, InCluster!Group
    <3> HIDE DEF Turn
    <3> QED BY <2>4, <3>1 DEF TurnInv
  <2> QED BY <1>3, <2>2, <2>3, <2>5 DEF SliceInv
<1>4. Scope \/ SliceBarrier \/ GridBarrierCall \/ ClusterBarrierCall => UNCHANGED <<stage, onCluster>>
  BY DEF Scope, SliceBarrier, GridBarrierCall, ClusterBarrierCall, Handled
<1>5. Raise \/ LaunchGrid =>
        UNCHANGED onCluster /\ stage = "compile" /\ stage' \in {"raised", "grid"}
  BY DEF Raise, LaunchGrid, Compiling, Compiled
<1>6. (\E b \in Blocks : GridStep(b)) \/ KernelTerminated \/ UNCHANGED all =>
        UNCHANGED <<stage, onCluster>>
  BY DEF GridStep, KernelTerminated, all
<1> QED BY <1>1, <1>2, <1>3, <1>4, <1>5, <1>6 DEF KernelNext, Compile

LEMMA SliceInvariant == KernelSpec => []SliceInv
BY SliceInit, SliceNext, ClusterInvariant, PTL DEF KernelSpec

\* What holds a CTA up: the others' arrivals at a hardware barrier, or a phase
\* that has not changed since it was read.
Blocked(c) ==
  \/ place[c] \in {"cluster", "fence", "ready"} /\ ~InCluster!ClusterWait(c)
  \/ place[c] = "wait" /\ phase[InCluster!Leader(c)] = before[c]

LEMMA LeastOf ==
  ASSUME NEW S, S # {}, NEW f, \A c \in S : f[c] \in Nat
  PROVE  \E c \in S : \A d \in S : f[c] <= f[d]
<1> DEFINE V == {f[c] : c \in S}
<1>1. V \in SUBSET Nat /\ V # {}
  OBVIOUS
<1>2. \E x \in V : \A y \in V : x <= y
  <2> DEFINE R == {r \in Nat \X Nat : r[1] < r[2]}
  <2> HIDE DEF V
  <2>1. OpToRel(<, Nat) = R
    BY Zenon DEF OpToRel
  <2>2. IsWellFoundedOn(R, Nat)
    BY <2>1, NatLessThanWellFounded
  <2> HIDE DEF R
  <2>3. \E x \in V : \A y \in V : ~(<<y, x>> \in R)
    BY <1>1, <2>2, WFMin
  <2>4. \A x, y \in Nat : ~(<<y, x>> \in R) => x <= y
    BY DEF R
  <2> QED BY <1>1, <2>3, <2>4
<1> QED BY <1>2

LEMMA SomeoneGoes ==
  ASSUME ClusterInv, SliceInv, Aligned, ~InCluster!Finished
  PROVE  \E c \in CTAs : place[c] # "exited" /\ ~Blocked(c)
<1> SUFFICES ASSUME \A c \in CTAs : place[c] # "exited" => Blocked(c) PROVE FALSE
  OBVIOUS
<1>1. ClusterType /\ PlaceInv /\ OrderInv /\ CountType /\ TurnInv
  BY DEF ClusterInv, SliceInv
<1> DEFINE S == {c \in CTAs : place[c] # "exited"}
<1>2. PICK c \in S : \A d \in S : arrivals[c] <= arrivals[d]
  <2>1. S # {}
    BY DEF InCluster!Finished
  <2>2. \A d \in S : arrivals[d] \in Nat
    BY <1>1 DEF ClusterType
  <2> HIDE DEF S
  <2> QED BY <2>1, <2>2, LeastOf
<1>3. ASSUME NEW e \in S, arrivals[e] = arrivals[c] PROVE InCluster!ClusterWait(e)
  BY <1>1, <1>2, <1>3 DEF InCluster!ClusterWait, ClusterType
<1>4. /\ place[c] = "wait" /\ phase[InCluster!Leader(c)] = before[c]
  BY <1>2, <1>3 DEF Blocked
<1>5. place[c] \in Working /\ c \in CTAs
  BY <1>2, <1>4 DEF Working
<1>6. PICK g \in SUBSET CTAs, p \in Nat : g = InCluster!Group(c) /\ p = pos[c]
  <2>1. InCluster!Group(c) \in SUBSET CTAs
    BY <1>1, <1>5, WorkFacts
  <2> QED BY <2>1, <1>1, <1>5 DEF ClusterType
<1>7. c \in g /\ InCluster!Min(g) = InCluster!Leader(c)
  BY <1>1, <1>5, <1>6, WorkFacts
<1>8. Turn(g, p)
  <2>1. InSlice(c)
    BY <1>1, <1>5 DEF InSlice, PlaceInv
  <2> HIDE DEF Turn
  <2> QED BY <2>1, <1>1, <1>5, <1>6 DEF TurnInv
<1>9. CASE Counting(g, p)
  <2>1. PICK d \in g : place[d] # "wait"
    BY <1>9 DEF Counting, Waiting
  <2>2. pos[d] = p /\ place[d] \in Neutral \cup {"add"} /\ d \in CTAs
    BY <1>9, <1>6, <2>1 DEF Counting
  <2>3. Here(d) = 2 /\ Here(c) = 2 /\ Before(d) = Before(c)
    BY <1>1, <1>4, <1>5, <1>6, <2>2 DEF OrderInv, Here
  <2>4. place[d] \in {"ready", "work", "add"} /\ d \in S
    BY <2>2, <2>3 DEF Here, Neutral
  <2>5. arrivals[d] = arrivals[c]
    <3>1. arrivals[d] = Before(d) + Here(d) /\ arrivals[c] = Before(c) + Here(c)
      BY <1>1, <1>5, <2>2, HereFacts
    <3> QED BY <3>1, <2>3
  <2>6. InCluster!ClusterWait(d)
    BY <1>3, <2>4, <2>5
  <2> QED BY <2>4, <2>6 DEF Blocked
<1>10. CASE Closing(g, p)
  <2>1. PICK e \in g : place[e] \in {"last", "flip"}
    BY <1>10 DEF Closing
  <2>2. e \in CTAs /\ place[e] # "exited" /\ ~Blocked(e)
    BY <1>6, <2>1 DEF Blocked
  <2> QED BY <2>2
<1>11. CASE Closed(g, p)
  BY <1>4, <1>6, <1>7, <1>11 DEF Closed
<1> QED BY <1>8, <1>9, <1>10, <1>11 DEF Turn

LEMMA KernelPollsInside == ASSUME Clears PROVE KernelSpec => []PollsInside
<1>1. KernelInit => PollsInside
  BY DEF KernelInit, PollsInside
<1>2. KernelInv /\ PollsInside /\ [KernelNext]_all => PollsInside'
  <2> SUFFICES ASSUME KernelInv, PollsInside, [KernelNext]_all PROVE PollsInside'
    OBVIOUS
  <2>1. ASSUME NEW b \in Blocks, GridStep(b) PROVE PollsInside'
    <3>1. TypeOK /\ [Next]_vars
      BY <2>1 DEF GridStep, KernelInv, GridInv, IInv, Next
    <3> QED BY <3>1, PollsInsideInv
  <2>2. UNCHANGED <<pc, passed>> => PollsInside'
    BY DEF PollsInside
  <2>3. Compile => UNCHANGED <<pc, passed>>
    BY DEF Compile, Scope, SliceBarrier, GridBarrierCall, ClusterBarrierCall, Raise,
           LaunchCluster, LaunchGrid, Handled, onGrid
  <2>4. (\E c \in CTAs : ClusterStep(c)) \/ KernelTerminated \/ UNCHANGED all => UNCHANGED <<pc, passed>>
    BY DEF ClusterStep, KernelTerminated, all, onGrid
  <2> QED BY <2>1, <2>2, <2>3, <2>4 DEF KernelNext
<1> QED BY <1>1, <1>2, KernelInvariant, PTL DEF KernelSpec

\* A launched kernel never hangs in its barriers (lowerGridBarrier,
\* lowerClusterBarrier, lowerSubmeshBarrier): on a grid whose counter the launcher
\* can clear, and in a cluster whose CTAs execute matching barriers, whatever its
\* shared memory holds, somebody is not held up until all are through.
THEOREM KernelNeverStuck ==
  KernelSpec => [](/\ stage = "grid" /\ Clears => Finished \/ BlockGoes
                   /\ stage = "cluster" /\ Aligned =>
                        \/ InCluster!Finished
                        \/ \E c \in CTAs : place[c] # "exited" /\ ~Blocked(c))
<1>1. KernelInv /\ (Clears => PollsInside) => (stage = "grid" /\ Clears => Finished \/ BlockGoes)
  BY SomeBlockGoes DEF KernelInv, GridInv
<1>3. KernelSpec => [](Clears => PollsInside)
  <2>1. CASE Clears
    <3>1. KernelSpec => []PollsInside
      BY <2>1, KernelPollsInside
    <3> QED BY <3>1, PTL
  <2>2. CASE ~Clears
    <3>1. [](Clears => PollsInside)
      <4>1. Clears => PollsInside
        BY <2>2
      <4> QED BY <4>1, PTL
    <3> QED BY <3>1
  <2> QED BY <2>1, <2>2
<1>2. ClusterInv /\ SliceInv =>
        (stage = "cluster" /\ Aligned =>
           \/ InCluster!Finished
           \/ \E c \in CTAs : place[c] # "exited" /\ ~Blocked(c))
  BY SomeoneGoes
<1> QED BY <1>1, <1>2, <1>3, KernelInvariant, ClusterInvariant, SliceInvariant, PTL
=============================================================================
