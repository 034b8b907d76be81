------------------------------ MODULE MBarrier ------------------------------
(***************************************************************************)
(* The shared-memory mbarrier object that Triton's NVIDIA backend lowers   *)
(* its barrier operations to (BarrierOpToLLVM.cpp).  The PTX instructions  *)
(* are hardware; what is modelled is their effect on the fields the        *)
(* compiler relies on.                                                     *)
(*                                                                         *)
(*   count    the arrival count given to mbarrier.init                     *)
(*   phase    the number of completed phases; a wait sees its parity only  *)
(*   pending  the arrivals the current phase still lacks                   *)
(*   tx       the asynchronous transactions the current phase still lacks, *)
(*            counted in TMA loads rather than in bytes                    *)
(***************************************************************************)
EXTENDS Integers

\* mbarrier.init
InitBarrier(n) == [count |-> n, phase |-> 0, pending |-> n, tx |-> 0]

\* A phase completes as soon as nothing is pending: the hardware then reloads
\* the arrival count and opens the next phase.
Settle(b) ==
  IF b.pending = 0 /\ b.tx = 0
  THEN [count |-> b.count, phase |-> b.phase + 1, pending |-> b.count, tx |-> 0]
  ELSE b

\* mbarrier.arrive.expect_tx: announces n transactions and arrives
BarrierExpect(b, n) ==
  Settle([count |-> b.count, phase |-> b.phase, pending |-> b.pending - 1, tx |-> b.tx + n])

\* mbarrier.arrive, also what tcgen05.commit performs when it completes
ArriveBarrier(b) == BarrierExpect(b, 0)

\* the complete_tx a finished TMA load performs
CompleteTx(b) == Settle([b EXCEPT !.tx = @ - 1])

\* mbarrier.try_wait.parity: true once the phase of that parity has completed,
\* hence also (for the opposite parity) before any phase has.
WaitPasses(b, parity) == b.phase % 2 # parity

=============================================================================
