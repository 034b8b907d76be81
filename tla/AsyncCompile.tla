---------------------------- MODULE AsyncCompile ----------------------------
(***************************************************************************)
(* JITFunction.run and warmup inside and outside "with AsyncCompileMode"   *)
(* blocks (jit.py, _async_compile.py): one thread makes the calls, an      *)
(* executor compiles, and a compile is finalized, which puts it into the   *)
(* kernel cache of a device, by the first result() that needs it or at the *)
(* end of the block.                                                       *)
(***************************************************************************)
EXTENDS Naturals, FiniteSets

CONSTANTS
  Kernels,       \* cache keys: a source with its options and target
  Devices,
  Blocks,        \* bound: how many blocks the program enters
  IgnoreErrors,  \* the blocks entered with ignore_errors
  MayFail,       \* kernels whose compilation may raise
  Workers,       \* threads of the executor
  NoDevice

ASSUME BoundsAssumption == Blocks \in Nat /\ Workers \in Nat \ {0} /\ NoDevice \notin Devices

VARIABLES
  pc,     \* "idle" outside, "body" inside a block, "result" and "exit" in those methods
  open,   \* whether a block's body or its __exit__ is running
  block,  \* blocks entered so far; a mode is the number of its block
  mode,   \* active_mode, 0 when None
  want,   \* the kernel result() is called for
  left,   \* futures as_completed has still to give
  work,   \* the futures of each mode
  owner,  \* the device whose cache the FutureKernel's finalize_fn fills
  final,  \* the kernels of each mode whose FutureKernel.kernel is set
  cache,  \* kernels in each device's kernel_cache
  finals  \* history: calls of finalize_compile

vars == <<pc, open, block, mode, want, left, work, owner, final, cache, finals>>

Modes == 1 .. Blocks

Init ==
  /\ pc = "idle" /\ open = FALSE
  /\ block = 0 /\ mode = 0
  /\ want \in Kernels
  /\ left = {}
  /\ work = [m \in Modes |-> [k \in Kernels |-> "none"]]
  /\ owner = [m \in Modes |-> [k \in Kernels |-> NoDevice]]
  /\ final = [m \in Modes |-> {}]
  /\ cache = [d \in Devices |-> {}]
  /\ finals = [m \in Modes |-> [k \in Kernels |-> 0]]

\* __enter__ refuses while a mode is active.
Enter ==
  /\ pc = "idle" /\ block < Blocks
  /\ mode = 0
  /\ pc' = "body" /\ open' = TRUE
  /\ block' = block + 1 /\ mode' = block + 1
  /\ UNCHANGED <<want, left, work, owner, final, cache, finals>>

\* submit: one future for a key, with the first caller's finalize_fn.
Submit(d, k) ==
  IF work[mode][k] = "none"
  THEN /\ work' = [work EXCEPT ![mode][k] = "queued"]
       /\ owner' = [owner EXCEPT ![mode][k] = d]
  ELSE UNCHANGED <<work, owner>>

\* Mutant: the device's cache is not looked at.
CallAnyway(d, k, launch) ==
  /\ pc \in {"idle", "body"} /\ mode # 0
  /\ Submit(d, k)
  /\ want' = IF launch THEN k ELSE want
  /\ pc' = IF launch THEN "result" ELSE pc
  /\ UNCHANGED <<open, block, mode, left, final, cache, finals>>

\* A call that finds no kernel in the device's cache, while a mode is active:
\* warmup leaves it at the submission, a launch asks for the result.
CallAsync(d, k, launch) ==
  /\ pc \in {"idle", "body"} /\ mode # 0
  /\ k \notin cache[d]
  /\ Submit(d, k)
  /\ want' = IF launch THEN k ELSE want
  /\ pc' = IF launch THEN "result" ELSE pc
  /\ UNCHANGED <<open, block, mode, left, final, cache, finals>>

\* The same without a mode: compiled at once, unless the compiler raises.
CallSync(d, k) ==
  /\ pc = "idle" /\ mode = 0
  /\ k \notin cache[d]
  /\ cache' = [cache EXCEPT ![d] = @ \cup {k}]
  /\ UNCHANGED <<pc, open, block, mode, want, left, work, owner, final, finals>>

\* The executor.
Running == {w \in Modes \X Kernels : work[w[1]][w[2]] = "running"}

Start(m, k) ==
  /\ work[m][k] = "queued" /\ Cardinality(Running) < Workers
  /\ work' = [work EXCEPT ![m][k] = "running"]
  /\ UNCHANGED <<pc, open, block, mode, want, left, owner, final, cache, finals>>

Finish(m, k) ==
  /\ work[m][k] = "running"
  /\ \E r \in {"done"} \cup (IF k \in MayFail THEN {"failed"} ELSE {}) :
       work' = [work EXCEPT ![m][k] = r]
  /\ UNCHANGED <<pc, open, block, mode, want, left, owner, final, cache, finals>>

Completed(k) == work[mode][k] \in {"done", "failed"}

\* Mutant: a finalized kernel is finalized again.
FinalizeAgain(k) ==
  /\ cache' = [cache EXCEPT ![owner[mode][k]] = @ \cup {k}]
  /\ final' = [final EXCEPT ![mode] = @ \cup {k}]
  /\ finals' = [finals EXCEPT ![mode][k] = @ + 1]

\* FutureKernel.result of a compile that did not raise: finalize_compile once.
Finalize(k) ==
  IF k \in final[mode]
  THEN UNCHANGED <<final, cache, finals>>
  ELSE /\ cache' = [cache EXCEPT ![owner[mode][k]] = @ \cup {k}]
       /\ final' = [final EXCEPT ![mode] = @ \cup {k}]
       /\ finals' = [finals EXCEPT ![mode][k] = @ + 1]

\* Mutant: the end of the block looks only at what has completed.
LeaveCompleted ==
  /\ pc' = "exit"
  /\ left' = {k \in Kernels : Completed(k)}

\* The body ends or raises: __exit__ goes over every future of the mode.
Leave ==
  /\ pc' = "exit"
  /\ left' = {k \in Kernels : work[mode][k] # "none"}

EndBody ==
  /\ pc = "body"
  /\ Leave
  /\ UNCHANGED <<open, block, mode, want, work, owner, final, cache, finals>>

\* result() for a launch.  What it raises ends the block it is called in.
Result ==
  /\ pc = "result" /\ Completed(want)
  /\ \/ /\ work[mode][want] = "done"
        /\ Finalize(want)
        /\ pc' = (IF open THEN "body" ELSE "idle") /\ UNCHANGED left
     \/ /\ work[mode][want] = "failed"
        /\ IF open THEN Leave ELSE pc' = "idle" /\ UNCHANGED left
        /\ UNCHANGED <<final, cache, finals>>
  /\ UNCHANGED <<open, block, mode, want, work, owner>>

\* Mutant: a failed compile is waited for again.
ExitWaits(k) ==
  /\ pc = "exit" /\ k \in left /\ Completed(k)
  /\ work[mode][k] = "done"
  /\ Finalize(k)
  /\ left' = left \ {k}
  /\ UNCHANGED <<pc, open, block, mode, want, work, owner>>

\* __exit__ finalizes a completed future, or passes over its error.
ExitFuture(k) ==
  /\ pc = "exit" /\ k \in left /\ Completed(k)
  /\ \/ work[mode][k] = "done" /\ Finalize(k)
     \/ work[mode][k] = "failed" /\ mode \in IgnoreErrors /\ UNCHANGED <<final, cache, finals>>
  /\ left' = left \ {k}
  /\ UNCHANGED <<pc, open, block, mode, want, work, owner>>

\* The error leaves __exit__ from within its loop.
ExitRaises(k) ==
  /\ pc = "exit" /\ k \in left /\ Completed(k)
  /\ work[mode][k] = "failed" /\ mode \notin IgnoreErrors
  /\ pc' = "idle" /\ open' = FALSE /\ left' = {}
  /\ UNCHANGED <<block, mode, want, work, owner, final, cache, finals>>

ExitEnd ==
  /\ pc = "exit" /\ left = {}
  /\ pc' = "idle" /\ open' = FALSE /\ mode' = 0
  /\ UNCHANGED <<block, want, left, work, owner, final, cache, finals>>

Call == \E d \in Devices, k \in Kernels :
  CallSync(d, k) \/ \E launch \in BOOLEAN : CallAsync(d, k, launch)
Method == Result \/ ExitEnd \/ \E k \in Kernels : ExitFuture(k) \/ ExitRaises(k)
Executor == \E m \in Modes, k \in Kernels : Start(m, k) \/ Finish(m, k)

Next == Enter \/ Call \/ EndBody \/ Method \/ Executor
Spec == Init /\ [][Next]_vars

\* The executor's threads and the thread inside result() or __exit__ run; the
\* program need not call or enter anything.
FairSpec == Spec /\ WF_vars(Method) /\ WF_vars(Executor)

----------------------------------------------------------------------------
\* The variables have their types.
TypeOK ==
  /\ pc \in {"idle", "body", "result", "exit"}
  /\ open \in BOOLEAN
  /\ block \in 0 .. Blocks /\ mode \in {0, block}
  /\ want \in Kernels /\ left \subseteq Kernels
  /\ work \in [Modes -> [Kernels -> {"none", "queued", "running", "done", "failed"}]]
  /\ owner \in [Modes -> [Kernels -> Devices \cup {NoDevice}]]
  /\ final \in [Modes -> SUBSET Kernels]
  /\ cache \in [Devices -> SUBSET Kernels]
  /\ finals \in [Modes -> [Kernels -> 0 .. 1]]

\* Nobody compiles what the device it is for already has, from this block, an
\* earlier one or a call outside: while a compile is outstanding its device's
\* cache lacks the kernel.
CompiledOnce ==
  \A m \in Modes, k \in Kernels :
    work[m][k] \in {"queued", "running"} => k \notin cache[owner[m][k]]

\* Each compile is finalized at most once, after it succeeded, whether a launch
\* or the end of the block came first: its hooks run once.
FinalizedOnce ==
  \A m \in Modes, k \in Kernels :
    finals[m][k] = IF work[m][k] = "done" /\ k \in final[m] THEN 1 ELSE 0

\* A compile is over: it is in its device's cache, or failed and was ignored.
Settled(m, k) ==
  \/ work[m][k] = "none"
  \/ work[m][k] = "done" /\ k \in final[m] /\ k \in cache[owner[m][k]]
  \/ work[m][k] = "failed" /\ m \in IgnoreErrors

\* A block that has ended without an error leaves nothing behind: every compile
\* submitted in it has ended, and is in its device's cache unless it failed.
ClosedIsFinal == \A m \in 1 .. block \ {mode} : \A k \in Kernels : Settled(m, k)

\* What the inductive invariant adds: futures belong to a device and to a block
\* that has been entered; a finalized one is in that device's cache ...
FuturesInv ==
  \A m \in Modes, k \in Kernels :
    /\ k \in final[m] => work[m][k] = "done" /\ k \in cache[owner[m][k]]
    /\ work[m][k] # "none" => m <= block /\ owner[m][k] \in Devices

\* ... and what __exit__ has been over is settled.
ThreadInv ==
  /\ pc # "idle" => mode # 0
  /\ pc = "result" => work[mode][want] # "none"
  /\ pc = "exit" => \A k \in Kernels \ left : Settled(mode, k)

IInv == TypeOK /\ CompiledOnce /\ FinalizedOnce /\ ClosedIsFinal /\ FuturesInv /\ ThreadInv

\* result() and the end of a block return or raise.
CallsReturn == pc \in {"result", "exit"} ~> pc \in {"body", "idle"}

\* A mode is active only while its block is open: what __enter__ concludes from
\* active_mode, "Another AsyncCompileMode is already active" (_async_compile.py).
ModeIsOpen == mode # 0 => open
=============================================================================
