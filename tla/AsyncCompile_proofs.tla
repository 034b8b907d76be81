------------------------ MODULE AsyncCompile_proofs ------------------------
(***************************************************************************)
(* Proofs about AsyncCompile, for any number of kernels, devices, blocks   *)
(* and executor threads: every compile is finalized once, a block that     *)
(* ends without an error has finalized them all, and nobody waits for      *)
(* nothing.                                                                *)
(***************************************************************************)
EXTENDS AsyncCompile, FiniteSetTheorems, TLAPS

LEMMA InitInv == Init => IInv
<1> SUFFICES ASSUME Init PROVE IInv
  OBVIOUS
<1> USE DEF Init
<1>1. TypeOK
  <2>1. block \in 0 .. Blocks /\ mode \in {0, block}
    BY BoundsAssumption
  <2>2. /\ work \in [Modes -> [Kernels -> {"none", "queued", "running", "done", "failed"}]]
        /\ owner \in [Modes -> [Kernels -> Devices \cup {NoDevice}]]
    OBVIOUS
  <2>3. final \in [Modes -> SUBSET Kernels]
    OBVIOUS
  <2>4. cache \in [Devices -> SUBSET Kernels] /\ finals \in [Modes -> [Kernels -> 0 .. 1]]
    OBVIOUS
  <2> QED BY <2>1, <2>2, <2>3, <2>4 DEF TypeOK
<1>2. CompiledOnce /\ FinalizedOnce /\ FuturesInv /\ ThreadInv
  BY DEF CompiledOnce, FinalizedOnce, FuturesInv, ThreadInv
<1>3. ClosedIsFinal
  BY DEF ClosedIsFinal
<1> QED BY <1>1, <1>2, <1>3 DEF IInv

\* A mode is the block entered last.
LEMMA Numbers ==
  ASSUME TypeOK
  PROVE  /\ block \in Nat /\ block <= Blocks
         /\ mode # 0 => mode \in Modes /\ mode = block
         /\ 1 .. block \subseteq Modes
  BY BoundsAssumption DEF TypeOK, Modes

\* Only the active mode has compiles that are not settled.
LEMMA OutstandingIsActive ==
  ASSUME IInv, NEW m \in Modes, NEW k \in Kernels, work[m][k] \in {"queued", "running"}
  PROVE  m = mode
<1> SUFFICES ASSUME m # mode PROVE FALSE
  OBVIOUS
<1>1. m \in 1 .. block \ {mode}
  BY BoundsAssumption, Numbers DEF IInv, FuturesInv, Modes
<1> QED BY <1>1 DEF IInv, ClosedIsFinal, Settled

LEMMA EnterInv == ASSUME IInv, Enter PROVE IInv'
<1> USE DEF IInv, Enter
<1>1. block' = block + 1 /\ mode' = block + 1 /\ block' \in 1 .. Blocks
  BY Numbers, BoundsAssumption
<1>2. TypeOK'
  BY <1>1 DEF TypeOK
<1>3. CompiledOnce' /\ FinalizedOnce'
  BY DEF CompiledOnce, FinalizedOnce
<1>4. ClosedIsFinal'
  <2>1. \A m \in 1 .. block' \ {mode'} : m \in 1 .. block \ {mode}
    BY <1>1, Numbers
  <2> QED BY <2>1 DEF ClosedIsFinal, Settled
<1>5. FuturesInv'
  BY <1>1, Numbers DEF FuturesInv, Modes
<1>6. ThreadInv'
  BY <1>1, Numbers DEF ThreadInv
<1> QED BY <1>2, <1>3, <1>4, <1>5, <1>6

\* Changing one entry of a function of functions.
LEMMA TwoLevel ==
  ASSUME NEW M, NEW K, NEW V, NEW f \in [M -> [K -> V]], NEW m \in M, NEW k \in K, NEW v \in V
  PROVE  /\ [f EXCEPT ![m][k] = v] \in [M -> [K -> V]]
         /\ [f EXCEPT ![m][k] = v][m][k] = v
         /\ \A n \in M, j \in K : n # m \/ j # k => [f EXCEPT ![m][k] = v][n][j] = f[n][j]
  OBVIOUS

LEMMA CallAsyncInv ==
  ASSUME IInv, NEW d \in Devices, NEW k \in Kernels, NEW launch \in BOOLEAN, CallAsync(d, k, launch)
  PROVE  IInv'
<1> USE DEF IInv
<1>1. mode \in Modes /\ mode = block /\ mode # 0
  BY Numbers DEF CallAsync
<1>2. /\ \A m \in Modes, j \in Kernels :
           /\ work'[m][j] = IF m = mode /\ j = k /\ work[mode][k] = "none" THEN "queued" ELSE work[m][j]
           /\ owner'[m][j] = IF m = mode /\ j = k /\ work[mode][k] = "none" THEN d ELSE owner[m][j]
      /\ work' \in [Modes -> [Kernels -> {"none", "queued", "running", "done", "failed"}]]
      /\ owner' \in [Modes -> [Kernels -> Devices \cup {NoDevice}]]
  <2> DEFINE V == {"none", "queued", "running", "done", "failed"}
  <2>0. /\ work \in [Modes -> [Kernels -> V]] /\ "queued" \in V
        /\ owner \in [Modes -> [Kernels -> Devices \cup {NoDevice}]]
    BY DEF TypeOK
  <2>1. CASE work[mode][k] = "none"
    <3>1. /\ work' = [work EXCEPT ![mode][k] = "queued"]
          /\ owner' = [owner EXCEPT ![mode][k] = d]
      BY <2>1 DEF CallAsync, Submit
    <3> HIDE DEF V, IInv
    <3>2. /\ work' \in [Modes -> [Kernels -> V]] /\ work'[mode][k] = "queued"
          /\ \A m \in Modes, j \in Kernels : m # mode \/ j # k => work'[m][j] = work[m][j]
      BY ONLY <1>1, <2>0, <3>1, TwoLevel, k \in Kernels
    <3>3. /\ owner' \in [Modes -> [Kernels -> Devices \cup {NoDevice}]] /\ owner'[mode][k] = d
          /\ \A m \in Modes, j \in Kernels : m # mode \/ j # k => owner'[m][j] = owner[m][j]
      BY ONLY <1>1, <2>0, <3>1, TwoLevel, k \in Kernels, d \in Devices
    <3>4. \A m \in Modes, j \in Kernels :
            work'[m][j] = IF m = mode /\ j = k THEN "queued" ELSE work[m][j]
      BY ONLY <3>2
    <3>5. \A m \in Modes, j \in Kernels :
            owner'[m][j] = IF m = mode /\ j = k THEN d ELSE owner[m][j]
      BY ONLY <3>3
    <3> QED BY ONLY <2>1, <3>2, <3>3, <3>4, <3>5 DEF V
  <2>2. CASE work[mode][k] # "none"
    <3>1. UNCHANGED <<work, owner>>
      BY <2>2 DEF CallAsync, Submit
    <3> QED BY ONLY <2>0, <2>2, <3>1
  <2> QED BY <2>1, <2>2
<1>3. /\ UNCHANGED <<open, block, mode, left, final, cache, finals>>
      /\ pc' \in {"idle", "body", "result"} /\ (pc' = "idle" => pc = "idle")
      /\ want' \in Kernels
      /\ pc' = "result" => want' = k
      /\ k \notin cache[d]
  BY DEF CallAsync, TypeOK
<1>4. TypeOK'
  BY <1>2, <1>3 DEF TypeOK
<1>5. CompiledOnce'
  BY <1>2, <1>3 DEF CompiledOnce
<1>6. FinalizedOnce'
  <2>1. \A m \in Modes, j \in Kernels :
          work'[m][j] = work[m][j] \/ (work[m][j] = "none" /\ work'[m][j] = "queued")
    BY <1>2
  <2> QED BY <2>1, <1>3 DEF FinalizedOnce
<1>7. ClosedIsFinal'
  <2>1. \A m \in 1 .. block \ {mode} : \A j \in Kernels :
          m \in Modes /\ work'[m][j] = work[m][j] /\ owner'[m][j] = owner[m][j]
    BY <1>2, Numbers
  <2> QED BY <2>1, <1>3 DEF ClosedIsFinal, Settled
<1>8. FuturesInv'
  <2>1. mode <= block
    BY <1>1, Numbers
  <2> QED BY <2>1, <1>2, <1>3 DEF FuturesInv
<1>9. ThreadInv'
  BY <1>1, <1>2, <1>3 DEF ThreadInv
<1> QED BY <1>4, <1>5, <1>6, <1>7, <1>8, <1>9

LEMMA CallSyncInv == ASSUME IInv, NEW d \in Devices, NEW k \in Kernels, CallSync(d, k) PROVE IInv'
<1> USE DEF IInv
<1>1. \A m \in Modes, j \in Kernels : work[m][j] \notin {"queued", "running"}
  <2> SUFFICES ASSUME NEW m \in Modes, NEW j \in Kernels, work[m][j] \in {"queued", "running"}
               PROVE  FALSE
    OBVIOUS
  <2>1. m = 0
    BY OutstandingIsActive DEF CallSync
  <2> QED BY <2>1, BoundsAssumption DEF Modes
<1>2. /\ cache' \in [Devices -> SUBSET Kernels]
      /\ \A e \in Devices : cache[e] \subseteq cache'[e]
      /\ UNCHANGED <<pc, open, block, mode, want, left, work, owner, final, finals>>
  BY DEF CallSync, TypeOK
<1>3. TypeOK'
  BY <1>2 DEF TypeOK
<1>4. CompiledOnce' /\ FinalizedOnce'
  BY <1>1, <1>2 DEF CompiledOnce, FinalizedOnce
<1>5. \A m \in Modes, j \in Kernels : Settled(m, j) => Settled(m, j)'
  BY <1>2 DEF Settled, FuturesInv
<1>6. ClosedIsFinal'
  BY <1>2, <1>5, Numbers DEF ClosedIsFinal
<1>7. FuturesInv'
  BY <1>2 DEF FuturesInv
<1>8. ThreadInv'
  BY <1>2 DEF ThreadInv, CallSync
<1> QED BY <1>3, <1>4, <1>6, <1>7, <1>8

\* The executor moves one outstanding future, of the active mode.
LEMMA ExecutorInv ==
  ASSUME IInv, NEW m \in Modes, NEW k \in Kernels, Start(m, k) \/ Finish(m, k)
  PROVE  IInv'
<1> USE DEF IInv
<1>1. /\ work[m][k] \in {"queued", "running"}
      /\ work'[m][k] \in {"running", "done", "failed"}
      /\ work'[m][k] = "running" => work[m][k] = "queued"
      /\ \A n \in Modes, j \in Kernels : n # m \/ j # k => work'[n][j] = work[n][j]
      /\ work' \in [Modes -> [Kernels -> {"none", "queued", "running", "done", "failed"}]]
      /\ UNCHANGED <<pc, open, block, mode, want, left, owner, final, cache, finals>>
  <2>1. CASE Start(m, k)
    BY <2>1 DEF Start, TypeOK
  <2>2. CASE Finish(m, k)
    <3>1. PICK r \in {"done", "failed"} : work' = [work EXCEPT ![m][k] = r]
      BY <2>2 DEF Finish
    <3> QED BY <2>2, <3>1 DEF Finish, TypeOK
  <2> QED BY <2>1, <2>2
<1>2. m = mode
  BY <1>1, OutstandingIsActive
<1>3. TypeOK'
  BY <1>1 DEF TypeOK
<1>4. CompiledOnce'
  BY <1>1 DEF CompiledOnce
<1>5. k \notin final[m]
  BY <1>1 DEF FuturesInv
<1>6. FinalizedOnce'
  <2> SUFFICES ASSUME NEW n \in Modes, NEW j \in Kernels
               PROVE  finals[n][j] = IF work'[n][j] = "done" /\ j \in final[n] THEN 1 ELSE 0
    BY <1>1 DEF FinalizedOnce
  <2>1. CASE n = m /\ j = k
    BY <2>1, <1>1, <1>5 DEF FinalizedOnce
  <2>2. CASE n # m \/ j # k
    BY <2>2, <1>1 DEF FinalizedOnce
  <2> QED BY <2>1, <2>2
<1>7. \A n \in Modes, j \in Kernels : Settled(n, j) => Settled(n, j)'
  BY <1>1 DEF Settled
<1>8. ClosedIsFinal'
  BY <1>1, <1>7, Numbers DEF ClosedIsFinal
<1>9. FuturesInv'
  <2> SUFFICES ASSUME NEW n \in Modes, NEW j \in Kernels
               PROVE  /\ j \in final[n] => work'[n][j] = "done" /\ j \in cache[owner[n][j]]
                      /\ work'[n][j] # "none" => n <= block /\ owner[n][j] \in Devices
    BY <1>1 DEF FuturesInv
  <2>1. CASE n = m /\ j = k
    BY <2>1, <1>1, <1>5 DEF FuturesInv
  <2>2. CASE n # m \/ j # k
    BY <2>2, <1>1 DEF FuturesInv
  <2> QED BY <2>1, <2>2
<1>10. ThreadInv'
  <2>1. pc # "idle" => mode \in Modes
    BY Numbers DEF ThreadInv
  <2>2. \A j \in Kernels : work[mode][j] # "none" /\ mode \in Modes => work'[mode][j] # "none"
    BY <1>1
  <2>3. want \in Kernels
    BY DEF TypeOK
  <2> QED BY <1>1, <1>7, <2>1, <2>2, <2>3 DEF ThreadInv
<1> QED BY <1>3, <1>4, <1>6, <1>8, <1>9, <1>10

\* result() of a compile that succeeded.
LEMMA FinalizeInv ==
  ASSUME IInv, mode \in Modes, NEW k \in Kernels, work[mode][k] = "done", Finalize(k),
         UNCHANGED <<block, mode, work, owner>>
  PROVE  /\ final' \in [Modes -> SUBSET Kernels]
         /\ cache' \in [Devices -> SUBSET Kernels]
         /\ finals' \in [Modes -> [Kernels -> 0 .. 1]]
         /\ CompiledOnce' /\ FinalizedOnce' /\ FuturesInv' /\ ClosedIsFinal'
         /\ Settled(mode, k)'
         /\ \A m \in Modes, j \in Kernels : Settled(m, j) => Settled(m, j)'
<1> USE DEF IInv
<1>1. CASE k \in final[mode]
  <2>1. UNCHANGED <<block, mode, work, owner, final, cache, finals>>
    BY <1>1 DEF Finalize
  <2>2. Settled(mode, k)
    BY <1>1 DEF Settled, FuturesInv
  <2>3. \A m \in Modes, j \in Kernels : Settled(m, j) <=> Settled(m, j)'
    BY <2>1 DEF Settled
  <2> QED BY <2>1, <2>2, <2>3 DEF TypeOK, CompiledOnce, FinalizedOnce, FuturesInv, ClosedIsFinal, Settled
<1>2. CASE k \notin final[mode]
  <2>1. owner[mode][k] \in Devices
    BY DEF FuturesInv
  <2>2. /\ cache' = [cache EXCEPT ![owner[mode][k]] = @ \cup {k}]
        /\ final' = [final EXCEPT ![mode] = @ \cup {k}]
        /\ finals' = [finals EXCEPT ![mode][k] = @ + 1]
    BY <1>2 DEF Finalize
  <2>3. finals[mode][k] = 0
    BY <1>2 DEF FinalizedOnce
  <2>4. /\ final' \in [Modes -> SUBSET Kernels]
        /\ finals' \in [Modes -> [Kernels -> 0 .. 1]]
        /\ k \in final'[mode] /\ finals'[mode][k] = 1
        /\ \A m \in Modes, j \in Kernels : m # mode \/ j # k =>
             (j \in final'[m] <=> j \in final[m]) /\ finals'[m][j] = finals[m][j]
    <3>1. /\ final \in [Modes -> SUBSET Kernels]
          /\ finals \in [Modes -> [Kernels -> 0 .. 1]]
      BY DEF TypeOK
    <3> HIDE DEF IInv
    <3>2. /\ final' \in [Modes -> SUBSET Kernels]
          /\ k \in final'[mode]
          /\ \A m \in Modes, j \in Kernels : m # mode \/ j # k => (j \in final'[m] <=> j \in final[m])
      BY <2>2, <3>1
    <3>3. finals' = [finals EXCEPT ![mode][k] = 1]
      <4>1. finals' = [finals EXCEPT ![mode][k] = finals[mode][k] + 1]
        BY <2>2, Zenon
      <4>2. finals[mode][k] + 1 = 1
        BY <2>3
      <4> QED BY <4>1, <4>2, Zenon
    <3>4. /\ finals' \in [Modes -> [Kernels -> 0 .. 1]]
          /\ finals'[mode][k] = 1
          /\ \A m \in Modes, j \in Kernels : m # mode \/ j # k => finals'[m][j] = finals[m][j]
      <4>1. 1 \in 0 .. 1
        OBVIOUS
      <4> QED BY <3>1, <3>3, <4>1, TwoLevel
    <3> QED BY <3>2, <3>4
  <2>5. /\ cache' \in [Devices -> SUBSET Kernels]
        /\ \A e \in Devices : cache[e] \subseteq cache'[e] /\ cache'[e] \subseteq cache[e] \cup {k}
        /\ k \in cache'[owner[mode][k]]
    BY <2>1, <2>2 DEF TypeOK
  <2>6. \A m \in Modes, j \in Kernels : work[m][j] \in {"queued", "running"} =>
          j # k /\ owner[m][j] \in Devices
    BY OutstandingIsActive DEF FuturesInv
  <2>7. CompiledOnce'
    BY <2>5, <2>6 DEF CompiledOnce
  <2>8. FinalizedOnce'
    <3> SUFFICES ASSUME NEW m \in Modes, NEW j \in Kernels
                 PROVE  finals'[m][j] = IF work[m][j] = "done" /\ j \in final'[m] THEN 1 ELSE 0
      BY DEF FinalizedOnce
    <3>1. CASE m = mode /\ j = k
      BY <3>1, <2>4
    <3>2. CASE m # mode \/ j # k
      BY <3>2, <2>4 DEF FinalizedOnce
    <3> QED BY <3>1, <3>2
  <2>9. FuturesInv'
    <3> SUFFICES ASSUME NEW m \in Modes, NEW j \in Kernels
                 PROVE  /\ j \in final'[m] => work[m][j] = "done" /\ j \in cache'[owner[m][j]]
                        /\ work[m][j] # "none" => m <= block /\ owner[m][j] \in Devices
      BY DEF FuturesInv
    <3>1. CASE m = mode /\ j = k
      BY <3>1, <2>5 DEF FuturesInv
    <3>2. CASE m # mode \/ j # k
      BY <3>2, <2>4, <2>5 DEF FuturesInv
    <3> QED BY <3>1, <3>2
  <2>10. Settled(mode, k)'
    BY <2>4, <2>5 DEF Settled
  <2>11. ASSUME NEW m \in Modes, NEW j \in Kernels, Settled(m, j) PROVE Settled(m, j)'
    <3>1. CASE m = mode /\ j = k
      BY <3>1, <2>10
    <3>2. CASE m # mode \/ j # k
      BY <2>11, <3>2, <2>4, <2>5 DEF Settled, FuturesInv
    <3> QED BY <3>1, <3>2
  <2>12. ClosedIsFinal'
    BY <2>11, Numbers DEF ClosedIsFinal
  <2> QED BY <2>4, <2>5, <2>7, <2>8, <2>9, <2>10, <2>11, <2>12
<1> QED BY <1>1, <1>2

\* A step of the thread that leaves the futures and the caches alone.
LEMMA QuietInv ==
  ASSUME IInv, UNCHANGED <<block, mode, want, work, owner, final, cache, finals>>
  PROVE  /\ CompiledOnce' /\ FinalizedOnce' /\ ClosedIsFinal' /\ FuturesInv'
         /\ \A m, k : Settled(m, k) <=> Settled(m, k)'
<1> USE DEF IInv
<1>1. CompiledOnce' /\ FinalizedOnce' /\ FuturesInv'
  BY DEF CompiledOnce, FinalizedOnce, FuturesInv
<1>2. \A m, k : Settled(m, k) <=> Settled(m, k)'
  BY DEF Settled
<1>3. ClosedIsFinal'
  BY DEF ClosedIsFinal, Settled
<1> QED BY <1>1, <1>2, <1>3

LEMMA EndBodyInv == ASSUME IInv, EndBody PROVE IInv'
<1> USE DEF IInv, EndBody, Leave
<1>1. CompiledOnce' /\ FinalizedOnce' /\ ClosedIsFinal' /\ FuturesInv'
  BY QuietInv
<1>2. TypeOK'
  BY DEF TypeOK
<1>3. ThreadInv'
  BY DEF ThreadInv, Settled
<1> QED BY <1>1, <1>2, <1>3

LEMMA ResultInv == ASSUME IInv, Result PROVE IInv'
<1> USE DEF IInv
<1>1. mode \in Modes /\ mode # 0 /\ want \in Kernels
  BY Numbers DEF Result, ThreadInv, TypeOK
<1>2. CASE work[mode][want] = "done"
  <2>1. /\ Finalize(want)
        /\ pc' \in {"body", "idle"}
        /\ UNCHANGED <<open, block, mode, want, left, work, owner>>
    BY <1>2 DEF Result
  <2>2. TypeOK' /\ CompiledOnce' /\ FinalizedOnce' /\ FuturesInv' /\ ClosedIsFinal'
    BY <1>1, <1>2, <2>1, FinalizeInv DEF TypeOK
  <2>3. ThreadInv'
    BY <1>1, <2>1 DEF ThreadInv
  <2> QED BY <2>2, <2>3
<1>3. CASE work[mode][want] = "failed"
  <2>1. /\ UNCHANGED <<open, block, mode, want, work, owner, final, cache, finals>>
        /\ \/ pc' = "exit" /\ left' = {k \in Kernels : work[mode][k] # "none"}
           \/ pc' = "idle" /\ left' = left
    BY <1>3 DEF Result, Leave
  <2>2. TypeOK' /\ CompiledOnce' /\ FinalizedOnce' /\ FuturesInv' /\ ClosedIsFinal'
    BY <2>1, QuietInv DEF TypeOK
  <2>3. ThreadInv'
    BY <1>1, <2>1 DEF ThreadInv, Settled
  <2> QED BY <2>2, <2>3
<1> QED BY <1>2, <1>3 DEF Result

LEMMA ExitFutureInv == ASSUME IInv, NEW k \in Kernels, ExitFuture(k) PROVE IInv'
<1> USE DEF IInv
<1>1. /\ mode \in Modes /\ mode # 0
      /\ pc = "exit" /\ left' = left \ {k}
      /\ UNCHANGED <<pc, open, block, mode, want, work, owner>>
  BY Numbers DEF ExitFuture, ThreadInv
<1>2. CASE work[mode][k] = "done" /\ Finalize(k)
  <2>1. /\ TypeOK' /\ CompiledOnce' /\ FinalizedOnce' /\ FuturesInv' /\ ClosedIsFinal'
        /\ Settled(mode, k)'
        /\ \A j \in Kernels : Settled(mode, j) => Settled(mode, j)'
    BY <1>1, <1>2, FinalizeInv DEF TypeOK
  <2>2. ThreadInv'
    BY <1>1, <2>1 DEF ThreadInv
  <2> QED BY <2>1, <2>2
<1>3. CASE work[mode][k] = "failed" /\ mode \in IgnoreErrors /\ UNCHANGED <<final, cache, finals>>
  <2>1. /\ TypeOK' /\ CompiledOnce' /\ FinalizedOnce' /\ FuturesInv' /\ ClosedIsFinal'
        /\ \A j \in Kernels : Settled(mode, j) => Settled(mode, j)'
    BY <1>1, <1>3, QuietInv DEF TypeOK
  <2>2. Settled(mode, k)'
    BY <1>1, <1>3 DEF Settled
  <2>3. ThreadInv'
    BY <1>1, <2>1, <2>2 DEF ThreadInv
  <2> QED BY <2>1, <2>3
<1> QED BY <1>2, <1>3 DEF ExitFuture

LEMMA ExitRaisesInv == ASSUME IInv, NEW k \in Kernels, ExitRaises(k) PROVE IInv'
<1> USE DEF IInv, ExitRaises
<1>1. CompiledOnce' /\ FinalizedOnce' /\ ClosedIsFinal' /\ FuturesInv'
  BY QuietInv
<1>2. TypeOK' /\ ThreadInv'
  BY DEF TypeOK, ThreadInv
<1> QED BY <1>1, <1>2

LEMMA ExitEndInv == ASSUME IInv, ExitEnd PROVE IInv'
<1> USE DEF IInv, ExitEnd
<1>1. TypeOK'
  BY DEF TypeOK
<1>2. CompiledOnce' /\ FinalizedOnce' /\ FuturesInv' /\ ThreadInv'
  BY DEF CompiledOnce, FinalizedOnce, FuturesInv, ThreadInv
<1>3. \A k \in Kernels : Settled(mode, k)
  BY DEF ThreadInv
<1>4. mode = block
  BY Numbers DEF ThreadInv
<1>5. \A m \in 1 .. block : \A k \in Kernels : Settled(m, k)
  BY <1>3, <1>4 DEF ClosedIsFinal
<1>6. ClosedIsFinal'
  BY <1>5 DEF ClosedIsFinal, Settled
<1> QED BY <1>1, <1>2, <1>6

LEMMA NextInv == IInv /\ [Next]_vars => IInv'
<1> SUFFICES ASSUME IInv, [Next]_vars PROVE IInv'
  OBVIOUS
<1>1. CASE UNCHANGED vars
  BY <1>1 DEF vars, IInv, TypeOK, CompiledOnce, FinalizedOnce, ClosedIsFinal, FuturesInv, ThreadInv, Settled
<1>2. CASE Enter
  BY <1>2, EnterInv
<1>3. CASE Call
  BY <1>3, CallAsyncInv, CallSyncInv DEF Call
<1>4. CASE EndBody
  BY <1>4, EndBodyInv
<1>5. CASE Method
  BY <1>5, ResultInv, ExitEndInv, ExitFutureInv, ExitRaisesInv DEF Method
<1>6. CASE Executor
  BY <1>6, ExecutorInv DEF Executor
<1> QED BY <1>1, <1>2, <1>3, <1>4, <1>5, <1>6 DEF Next

\* The inductive invariant holds: the types, the four properties below and what
\* links futures, caches and the thread in __exit__.
THEOREM InvariantHolds == Spec => []IInv
<1>1. Init => IInv
  BY InitInv
<1>2. IInv /\ [Next]_vars => IInv'
  BY NextInv
<1> QED BY <1>1, <1>2, PTL DEF Spec

\* The variables keep their types.
THEOREM TypeCorrect == Spec => []TypeOK
<1>1. IInv => TypeOK
  BY DEF IInv
<1> QED BY <1>1, InvariantHolds, PTL

\* No kernel is compiled for a device that has it.
THEOREM KernelsCompiledOnce == Spec => []CompiledOnce
<1>1. IInv => CompiledOnce
  BY DEF IInv
<1> QED BY <1>1, InvariantHolds, PTL

\* finalize_compile is called once for each compile whose result was asked for.
THEOREM KernelsFinalizedOnce == Spec => []FinalizedOnce
<1>1. IInv => FinalizedOnce
  BY DEF IInv
<1> QED BY <1>1, InvariantHolds, PTL

\* A block that ended without an error has no compile left to finalize.
THEOREM ClosedBlocksAreFinal == Spec => []ClosedIsFinal
<1>1. IInv => ClosedIsFinal
  BY DEF IInv
<1> QED BY <1>1, InvariantHolds, PTL
\* __exit__ goes over the futures of its mode only.
LeftInv == pc = "exit" => \A k \in left : work[mode][k] # "none"

LEMMA LeftInductive ==
  /\ Init => LeftInv
  /\ IInv /\ LeftInv /\ [Next]_vars => LeftInv'
<1>1. Init => LeftInv
  BY DEF Init, LeftInv
<1> SUFFICES ASSUME IInv, LeftInv, [Next]_vars PROVE LeftInv'
  BY <1>1
<1>2. CASE UNCHANGED vars
  BY <1>2 DEF LeftInv, vars
<1>3. CASE Enter \/ Call
  BY <1>3 DEF Enter, Call, CallSync, CallAsync, LeftInv
<1>4. CASE EndBody \/ Result
  <2>1. pc' = "exit" => left' = {k \in Kernels : work[mode][k] # "none"}
    BY <1>4 DEF EndBody, Result, Leave
  <2>2. UNCHANGED <<mode, work>>
    BY <1>4 DEF EndBody, Result
  <2> QED BY <2>1, <2>2 DEF LeftInv
<1>5. ASSUME NEW k \in Kernels, ExitFuture(k) \/ ExitRaises(k) PROVE LeftInv'
  <2>1. /\ pc' = "exit" => pc = "exit" /\ left' = left \ {k}
        /\ UNCHANGED <<mode, work>>
    BY <1>5 DEF ExitFuture, ExitRaises
  <2> QED BY <2>1 DEF LeftInv
<1>6. CASE ExitEnd
  BY <1>6 DEF ExitEnd, LeftInv
<1>7. ASSUME NEW m \in Modes, NEW k \in Kernels, Start(m, k) \/ Finish(m, k) PROVE LeftInv'
  <2>1. UNCHANGED <<pc, mode, left>>
    BY <1>7 DEF Start, Finish
  <2>2. PICK r \in {"running", "done", "failed"} : work' = [work EXCEPT ![m][k] = r]
    BY <1>7 DEF Start, Finish
  <2>3. \A n \in Modes, j \in Kernels : work[n][j] # "none" => work'[n][j] # "none"
    <3>1. /\ work \in [Modes -> [Kernels -> {"none", "queued", "running", "done", "failed"}]]
          /\ r \in {"none", "queued", "running", "done", "failed"}
      BY DEF IInv, TypeOK
    <3>2. work'[m][k] = r /\ \A n \in Modes, j \in Kernels : n # m \/ j # k => work'[n][j] = work[n][j]
      BY <2>2, <3>1, TwoLevel
    <3> QED BY <3>2
  <2>4. pc = "exit" => mode \in Modes /\ left \subseteq Kernels
    BY Numbers DEF IInv, ThreadInv, TypeOK
  <2> QED BY <2>1, <2>3, <2>4 DEF LeftInv
<1> QED BY <1>2, <1>3, <1>4, <1>5, <1>6, <1>7 DEF Next, Method, Executor

\* result() and __exit__ never wait for nothing, however the compiles of several
\* blocks share the executor: what they wait for has completed, or a compile is
\* running, or a thread is free for one that is queued.
THEOREM CallsNeverStuck ==
  Spec => [](pc \in {"result", "exit"} =>
    \/ pc = "result" /\ Completed(want)
    \/ pc = "exit" /\ (left = {} \/ \E k \in left : Completed(k))
    \/ \E m \in Modes, k \in Kernels : work[m][k] = "running"
    \/ \E m \in Modes, k \in Kernels : work[m][k] = "queued" /\ Cardinality(Running) < Workers)
<1> DEFINE Goes ==
      \/ pc = "result" /\ Completed(want)
      \/ pc = "exit" /\ (left = {} \/ \E k \in left : Completed(k))
      \/ \E m \in Modes, k \in Kernels : work[m][k] = "running"
      \/ \E m \in Modes, k \in Kernels : work[m][k] = "queued" /\ Cardinality(Running) < Workers
<1>1. ASSUME IInv, LeftInv, pc \in {"result", "exit"} PROVE Goes
  <2>1. mode \in Modes
    BY <1>1, Numbers DEF IInv, ThreadInv
  <2>2. ASSUME NEW k \in Kernels, work[mode][k] # "none", ~Completed(k)
        PROVE  \/ \E m \in Modes, j \in Kernels : work[m][j] = "running"
               \/ \E m \in Modes, j \in Kernels : work[m][j] = "queued" /\ Cardinality(Running) < Workers
    <3>1. work[mode][k] \in {"queued", "running"}
      BY <1>1, <2>1, <2>2 DEF IInv, TypeOK, Completed
    <3>2. CASE \E m \in Modes, j \in Kernels : work[m][j] = "running"
      BY <3>2
    <3>3. CASE \A m \in Modes, j \in Kernels : work[m][j] # "running"
      <4>1. Running = {}
        BY <3>3 DEF Running
      <4>2. Cardinality(Running) < Workers
        BY <4>1, FS_EmptySet, BoundsAssumption
      <4>3. work[mode][k] = "queued"
        BY <3>1, <3>3, <2>1
      <4> QED BY <4>2, <4>3, <2>1
    <3> QED BY <3>2, <3>3
  <2>3. CASE pc = "result"
    <3>1. want \in Kernels /\ work[mode][want] # "none"
      BY <1>1, <2>3 DEF IInv, TypeOK, ThreadInv
    <3> QED BY <3>1, <2>2, <2>3
  <2>4. CASE pc = "exit" /\ left # {}
    <3>1. PICK k \in left : k \in Kernels /\ work[mode][k] # "none"
      BY <1>1, <2>4 DEF IInv, TypeOK, LeftInv
    <3> QED BY <3>1, <2>2, <2>4
  <2> QED BY <1>1, <2>3, <2>4
<1>2. IInv /\ LeftInv => (pc \in {"result", "exit"} => Goes)
  BY <1>1
<1>3. Spec => []LeftInv
  BY LeftInductive, InvariantHolds, PTL DEF Spec
<1> QED BY <1>2, <1>3, InvariantHolds, PTL
=============================================================================
