----------------------------- MODULE GridBarrier -----------------------------
(***************************************************************************)
(* tle.distributed_barrier over a block-only mesh, as lowerGridBarrier     *)
(* generates it: one 32-bit counter in global scratch memory.  Block 0     *)
(* adds 0x80000000 - (n - 1) and the others 1, so that each round flips    *)
(* the top bit once; a block polls until the bit differs from what its own *)
(* atomic add has returned.  Fast blocks may be a barrier ahead of blocks  *)
(* that still poll.                                                        *)
(***************************************************************************)
EXTENDS Integers, FiniteSets

CONSTANTS
  Blocks,  \* the CTAs of the grid
  Block0,
  Half,    \* 0x80000000, half the range of the counter
  Calls    \* how many barriers the kernel executes (bounds the model)

\* The grid has at most 2^31 blocks.
ASSUME GridAssumption ==
  /\ IsFiniteSet(Blocks) /\ Block0 \in Blocks
  /\ Half \in Nat /\ Cardinality(Blocks) <= Half
ASSUME CallsAssumption == Calls \in Nat

VARIABLES
  counter,  \* the word in scratch memory
  pc,       \* "code" or "poll", by block
  old,      \* what the block's last atomic add returned
  passed    \* barriers the block has left: its place in the kernel

vars == <<counter, pc, old, passed>>

\* The protocol starts from a cleared counter (which the launcher sees to if it
\* can, as in BarrierKernel).
Init ==
  /\ counter = 0
  /\ pc = [b \in Blocks |-> "code"]
  /\ old = [b \in Blocks |-> 0]
  /\ passed = [b \in Blocks |-> 0]

TopBit(x) == x >= Half

Amount(b) == IF b = Block0 THEN Half - (Cardinality(Blocks) - 1) ELSE 1

\* atom.add.release
Arrive(b) ==
  /\ pc[b] = "code" /\ passed[b] < Calls
  /\ old' = [old EXCEPT ![b] = counter]
  /\ counter' = (counter + Amount(b)) % (2 * Half)
  /\ pc' = [pc EXCEPT ![b] = "poll"]
  /\ UNCHANGED passed

HasFlipped(b) == TopBit(old[b]) # TopBit(counter)

\* ld.acquire until the bit has flipped
Poll(b) ==
  /\ pc[b] = "poll" /\ HasFlipped(b)
  /\ pc' = [pc EXCEPT ![b] = "code"]
  /\ passed' = [passed EXCEPT ![b] = @ + 1]
  /\ UNCHANGED <<counter, old>>

Finished == \A b \in Blocks : pc[b] = "code" /\ passed[b] = Calls
Terminated == Finished /\ UNCHANGED vars

Next == (\E b \in Blocks : Arrive(b) \/ Poll(b)) \/ Terminated
Spec == Init /\ [][Next]_vars

\* A cooperative launch keeps every block resident.
FairSpec == Spec /\ \A b \in Blocks : WF_vars(Arrive(b) \/ Poll(b))

-----------------------------------------------------------------------------
Arrived(b) == passed[b] + (IF pc[b] = "poll" THEN 1 ELSE 0)

TypeOK ==
  /\ counter \in 0 .. 2 * Half - 1
  /\ pc \in [Blocks -> {"code", "poll"}]
  /\ old \in [Blocks -> 0 .. 2 * Half - 1]
  /\ passed \in [Blocks -> 0 .. Calls]

\* The inductive invariant: r rounds are complete and their parity is in the
\* top bit; the blocks in Ahead have arrived for the next, and the counter
\* holds what they have added to it.
Bit(r) == (r % 2) * Half
Ahead(r) == {b \in Blocks : Arrived(b) = r + 1}
Added(A) ==
  IF Block0 \in A THEN Cardinality(A \ {Block0}) + Amount(Block0) ELSE Cardinality(A)
Round(r) ==
  /\ \A b \in Blocks : Arrived(b) \in {r, r + 1} /\ passed[b] <= r
  /\ Ahead(r) # Blocks
  /\ counter = Bit(r) + Added(Ahead(r))
  /\ \A b \in Blocks : pc[b] = "poll" =>
       (TopBit(old[b]) <=> (IF b \in Ahead(r) THEN r % 2 = 1 ELSE r % 2 # 1))

IInv == TypeOK /\ \E r \in 0 .. Calls : Round(r)

\* No block leaves its n-th barrier before every block has reached it, even
\* when others are already at the next and add to the counter it polls.
Barrier == INSTANCE Rendezvous WITH
  Members <- Blocks, left <- passed, reached <- [b \in Blocks |-> Arrived(b)]
ImplementsBarrier == Barrier!Spec

\* No flip is missed: every block gets through all its barriers.
Completes == <>Finished
=============================================================================
