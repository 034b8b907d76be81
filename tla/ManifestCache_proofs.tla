------------------------ MODULE ManifestCache_proofs ------------------------
(***************************************************************************)
(* Proofs about ManifestCache, for any number of processes and any times:  *)
(* how much older than the time that vouches for it the cached manifest    *)
(* may be, and so how old the one a call returns.                          *)
(***************************************************************************)
EXTENDS ManifestCache, TLAPS

LEMMA AgeFacts ==
  /\ MaxAge \in Nat /\ MaxAge = TTL + 3 * Delay + 1
  /\ NoManifest \notin Ages
  /\ \A a \in Ages : a \in Nat /\ a <= MaxAge
  /\ \A a \in 0 .. Delay : a \in Nat /\ a \in Ages
  BY TimesAssumption, NoManifestAssumption DEF Ages, MaxAge

\* A tick makes ages older by one, up to MaxAge.
LEMMA OlderFacts ==
  ASSUME NEW a \in Ages \cup {NoManifest}
  PROVE  /\ Older(a) \in Ages \cup {NoManifest}
         /\ Older(a) = NoManifest <=> a = NoManifest
         /\ a # NoManifest => Older(a) = IF a = MaxAge THEN a ELSE a + 1
  BY TimesAssumption, NoManifestAssumption DEF Older, Ages, MaxAge

LEMMA InitInv == Init => IInv
<1> SUFFICES ASSUME Init PROVE IInv
  OBVIOUS
<1>1. 0 \in 0 .. Delay /\ 0 \in 0 .. Retry
  BY TimesAssumption
<1>2. TypeOK
  BY <1>1, Zenon DEF Init, TypeOK
<1>3. NeverStale /\ Vouched /\ PendingVouched /\ CheckedFresh
  BY DEF Init, NeverStale, Vouched, PendingVouched, CheckedFresh
<1> QED BY <1>2, <1>3 DEF IInv

\* Assigning to one process keeps a function's type.
LEMMA UpdateType ==
  ASSUME NEW S, NEW r \in [Procs -> S], NEW p \in Procs, NEW v \in S
  PROVE  /\ [r EXCEPT ![p] = v] \in [Procs -> S]
         /\ [r EXCEPT ![p] = v][p] = v
         /\ \A q \in Procs \ {p} : [r EXCEPT ![p] = v][q] = r[q]
  OBVIOUS

Labels == {"idle", "read", "fetch", "write_manifest", "write_meta"}

\* The types of the variables one by one.
LEMMA Types ==
  ASSUME IInv
  PROVE  /\ pc \in [Procs -> Labels] /\ held \in [Procs -> 0 .. Delay]
         /\ cool \in [Procs -> 0 .. Retry] /\ result \in [Procs -> Ages \cup {NoManifest}]
         /\ manifest \in Ages \cup {NoManifest} /\ meta \in Ages \cup {NoManifest}
         /\ trouble \in BOOLEAN
         /\ 0 \in 0 .. Delay /\ 0 \in 0 .. Retry /\ Retry \in 0 .. Retry
<1>1. 0 \in 0 .. Delay /\ 0 \in 0 .. Retry /\ Retry \in 0 .. Retry
  BY TimesAssumption
<1> QED BY <1>1, Zenon DEF IInv, TypeOK, Labels

\* A step that leaves the files and the processes' ages alone, and begins no
\* read or write.
LEMMA QuietInv ==
  ASSUME IInv, TypeOK', UNCHANGED <<held, manifest, meta>>,
         \A p \in Procs : pc'[p] # pc[p] => pc'[p] \notin {"read", "write_meta"},
         \A p \in Procs : result'[p] \in {result[p], NoManifest}
  PROVE  IInv'
<1>1. NeverStale' /\ Vouched'
  BY DEF IInv, NeverStale, Vouched
<1>2. PendingVouched' /\ CheckedFresh'
  BY DEF IInv, PendingVouched, CheckedFresh
<1> QED BY <1>1, <1>2 DEF IInv

LEMMA UseCachedInv == ASSUME IInv, NEW p \in Procs, UseCached(p) PROVE IInv'
<1>1. TypeOK'
  BY Types, Zenon DEF TypeOK, Labels, UseCached, Goto
<1>2. \A q \in Procs : /\ held'[q] = IF q = p THEN 0 ELSE held[q]
                       /\ pc'[q] = IF q = p THEN "read" ELSE pc[q]
                       /\ result'[q] = IF q = p THEN NoManifest ELSE result[q]
  BY Types DEF UseCached, Goto
<1>3. manifest' = manifest /\ meta' = meta
  BY DEF UseCached
<1>4. NeverStale' /\ Vouched'
  BY <1>2, <1>3 DEF IInv, NeverStale, Vouched
<1>5. PendingVouched'
  BY <1>2, <1>3 DEF IInv, PendingVouched
<1>6. CheckedFresh'
  <2>1. manifest # NoManifest
    BY DEF UseCached, Usable
  <2>2. p \notin Offline => TTL > 0 /\ manifest < TTL + 2 * Delay + 0
    <3> SUFFICES ASSUME p \notin Offline PROVE TTL > 0 /\ manifest < TTL + 2 * Delay + 0
      OBVIOUS
    <3>1. meta # NoManifest /\ meta < TTL /\ manifest <= meta + 2 * Delay
      BY DEF UseCached, Usable, Fresh, IInv, Vouched
    <3>2. meta \in Nat /\ manifest \in Nat
      BY <2>1, <3>1, Types, AgeFacts
    <3> QED BY <3>1, <3>2, TimesAssumption
  <2> QED BY <1>2, <1>3, <2>1, <2>2 DEF IInv, CheckedFresh
<1> QED BY <1>1, <1>4, <1>5, <1>6 DEF IInv

LEMMA ReadInv == ASSUME IInv, NEW p \in Procs, Read(p) PROVE IInv'
<1>1. TypeOK'
  BY Types, Zenon DEF TypeOK, Labels, Read, Return, Goto
<1>2. \A q \in Procs : /\ pc'[q] = IF q = p THEN "idle" ELSE pc[q]
                       /\ result'[q] = IF q = p THEN manifest ELSE result[q]
  BY Types DEF Read, Return, Goto
<1>3. UNCHANGED <<held, manifest, meta>>
  BY DEF Read
<1>4. Vouched' /\ PendingVouched' /\ CheckedFresh'
  BY <1>2, <1>3 DEF IInv, Vouched, PendingVouched, CheckedFresh
<1>5. NeverStale'
  <2>1. p \notin Offline => manifest < TTL + 3 * Delay
    <3> SUFFICES ASSUME p \notin Offline PROVE manifest < TTL + 3 * Delay
      OBVIOUS
    <3>1. manifest # NoManifest /\ manifest < TTL + 2 * Delay + held[p]
      BY DEF Read, IInv, CheckedFresh
    <3>2. held[p] \in 0 .. Delay /\ manifest \in Nat
      BY <3>1, Types, AgeFacts
    <3> QED BY <3>1, <3>2, TimesAssumption
  <2> QED BY <1>2, <1>3, <2>1 DEF IInv, NeverStale
<1> QED BY <1>1, <1>4, <1>5 DEF IInv

LEMMA RaiseInv ==
  ASSUME IInv, NEW p \in Procs, Raise(p), cool' \in [Procs -> 0 .. Retry],
         UNCHANGED <<held, manifest, meta, trouble>>
  PROVE  IInv'
<1> USE DEF Raise, Return, Goto
<1>1. TypeOK'
  BY Types, Zenon DEF TypeOK, Labels
<1>2. \A q \in Procs : pc'[q] # pc[q] => pc'[q] \notin {"read", "write_meta"}
  BY DEF IInv, TypeOK
<1>3. \A q \in Procs : result'[q] \in {result[q], NoManifest}
  BY DEF IInv, TypeOK
<1> QED BY <1>1, <1>2, <1>3, QuietInv

LEMMA RequestInv == ASSUME IInv, NEW p \in Procs, Request(p) PROVE IInv'
<1> USE DEF Request, Goto
<1>1. TypeOK'
  BY Types, Zenon DEF TypeOK, Labels
<1>2. \A q \in Procs : pc'[q] # pc[q] => pc'[q] \notin {"read", "write_meta"}
  BY DEF IInv, TypeOK
<1>3. \A q \in Procs : result'[q] \in {result[q], NoManifest}
  BY DEF IInv, TypeOK
<1> QED BY <1>1, <1>2, <1>3, QuietInv

LEMMA RespondInv == ASSUME IInv, NEW p \in Procs, Respond(p) PROVE IInv'
<1>1. TypeOK'
  BY Types, Zenon DEF TypeOK, Labels, Respond, Goto
<1>2. \A q \in Procs : /\ held'[q] = IF q = p THEN 0 ELSE held[q]
                       /\ pc'[q] = IF q = p THEN "write_manifest" ELSE pc[q]
  BY Types DEF Respond, Goto
<1>3. UNCHANGED <<result, manifest, meta>>
  BY DEF Respond
<1>4. NeverStale' /\ Vouched'
  BY <1>3 DEF IInv, NeverStale, Vouched
<1>5. PendingVouched' /\ CheckedFresh'
  BY <1>2, <1>3 DEF IInv, PendingVouched, CheckedFresh
<1> QED BY <1>1, <1>4, <1>5 DEF IInv

\* The manifest a process has held for at most a delay replaces whatever is
\* there, which others may be about to vouch for.
LEMMA WriteManifestInv == ASSUME IInv, NEW p \in Procs, WriteManifest(p) PROVE IInv'
<1>1. held[p] \in 0 .. Delay /\ manifest' = held[p] /\ manifest' # NoManifest /\ manifest' \in Ages
  BY Types, AgeFacts DEF WriteManifest
<1>2. TypeOK'
  BY <1>1, Types, Zenon DEF TypeOK, Labels, WriteManifest, Goto
<1>3. UNCHANGED <<held, result, meta>>
      /\ \A q \in Procs : pc'[q] = IF q = p THEN "write_meta" ELSE pc[q]
  BY Types DEF WriteManifest, Goto
<1>4. NeverStale'
  BY <1>3 DEF IInv, NeverStale
<1>5. Vouched'
  <2> SUFFICES ASSUME meta # NoManifest PROVE manifest' <= meta + 2 * Delay
    BY <1>1, <1>3 DEF Vouched
  <2>1. meta \in Nat
    BY Types, AgeFacts
  <2> QED BY <1>1, <2>1, TimesAssumption
<1>6. PendingVouched'
  <2> SUFFICES ASSUME NEW q \in Procs PROVE manifest' <= held[q] + Delay
    BY <1>1, <1>3 DEF PendingVouched
  <2>1. held[q] \in 0 .. Delay
    BY Types
  <2> QED BY <1>1, <2>1, TimesAssumption
<1>7. CheckedFresh'
  <2> SUFFICES ASSUME NEW q \in Procs, pc'[q] = "read", q \notin Offline
               PROVE  TTL > 0 /\ manifest' < TTL + 2 * Delay + held[q]
    BY <1>1, <1>3 DEF CheckedFresh
  <2>1. TTL > 0
    BY <1>3 DEF IInv, CheckedFresh
  <2>2. held[q] \in 0 .. Delay
    BY Types
  <2> QED BY <1>1, <2>1, <2>2, TimesAssumption
<1> QED BY <1>2, <1>4, <1>5, <1>6, <1>7 DEF IInv

\* The new time vouches for a manifest at most two delays old.
LEMMA WriteMetaInv == ASSUME IInv, NEW p \in Procs, WriteMeta(p) PROVE IInv'
<1>1. held[p] \in 0 .. Delay /\ held[p] \in Ages /\ 0 \in Ages
  BY Types, AgeFacts, TimesAssumption DEF Ages
<1>2. TypeOK'
  BY <1>1, Types, Zenon DEF TypeOK, Labels, WriteMeta, Return, Goto
<1>3. /\ UNCHANGED <<held, manifest>> /\ meta' = 0
      /\ \A q \in Procs : /\ pc'[q] = IF q = p THEN "idle" ELSE pc[q]
                          /\ result'[q] = IF q = p THEN held[p] ELSE result[q]
  BY Types DEF WriteMeta, Return, Goto
<1>4. NeverStale'
  <2>1. held[p] <= Delay
    BY <1>1, TimesAssumption
  <2> QED BY <1>3, <2>1 DEF IInv, NeverStale
<1>5. Vouched'
  <2>1. manifest # NoManifest /\ manifest <= held[p] + Delay
    BY DEF IInv, PendingVouched, WriteMeta
  <2>2. manifest \in Nat
    BY <2>1, Types, AgeFacts
  <2>3. manifest <= 0 + 2 * Delay
    BY <1>1, <2>1, <2>2, TimesAssumption
  <2> QED BY <1>3, <2>1, <2>3 DEF Vouched
<1>6. PendingVouched' /\ CheckedFresh'
  BY <1>3 DEF IInv, PendingVouched, CheckedFresh
<1> QED BY <1>2, <1>4, <1>5, <1>6 DEF IInv

\* Time passes for the files and for every busy process alike.
LEMMA TickInv == ASSUME IInv, Tick PROVE IInv'
<1>1. /\ manifest' \in Ages \cup {NoManifest} /\ meta' \in Ages \cup {NoManifest}
      /\ manifest' = NoManifest <=> manifest = NoManifest
      /\ meta' = NoManifest <=> meta = NoManifest
      /\ manifest # NoManifest => manifest' = IF manifest = MaxAge THEN manifest ELSE manifest + 1
      /\ meta # NoManifest => meta' = IF meta = MaxAge THEN meta ELSE meta + 1
  BY OlderFacts, Types DEF Tick
<1>2. pc' = pc /\ result' = result /\ trouble' = trouble
  BY DEF Tick
<1>3. \A p \in Procs :
        /\ held[p] \in 0 .. Delay /\ held'[p] \in 0 .. Delay
        /\ Busy(p) => held'[p] = held[p] + 1
  <2> SUFFICES ASSUME NEW p \in Procs
               PROVE  /\ held[p] \in 0 .. Delay /\ held'[p] \in 0 .. Delay
                      /\ Busy(p) => held'[p] = held[p] + 1
    OBVIOUS
  <2>1. held[p] \in 0 .. Delay
    BY Types
  <2>2. /\ Busy(p) => held[p] < Delay
        /\ held'[p] = IF Busy(p) THEN held[p] + 1 ELSE held[p]
    BY DEF Tick
  <2> QED BY <2>1, <2>2, TimesAssumption
<1>4. TypeOK'
  <2>1. held' \in [Procs -> 0 .. Delay]
    <3>1. held' = [p \in Procs |-> held'[p]]
      BY DEF Tick
    <3> QED BY <1>3, <3>1
  <2>2. cool' \in [Procs -> 0 .. Retry]
    <3>1. \A p \in Procs : cool[p] \in 0 .. Retry
      BY Types
    <3> DEFINE less(p) == IF cool[p] = 0 THEN 0 ELSE cool[p] - 1
    <3>2. \A p \in Procs : less(p) \in 0 .. Retry
      <4> SUFFICES ASSUME NEW p \in Procs PROVE less(p) \in 0 .. Retry
        OBVIOUS
      <4>1. cool[p] \in 0 .. Retry
        BY <3>1
      <4> QED BY <4>1, TimesAssumption
    <3>3. cool' = [p \in Procs |-> less(p)]
      BY DEF Tick
    <3> HIDE DEF less
    <3> QED BY <3>2, <3>3
  <2> QED BY <1>1, <1>2, <2>1, <2>2, Types, Zenon DEF TypeOK, Labels
<1>5. NeverStale'
  BY <1>2 DEF IInv, NeverStale
<1>6. Vouched'
  <2> SUFFICES ASSUME meta' # NoManifest
               PROVE  manifest' # NoManifest /\ manifest' <= meta' + 2 * Delay
    BY DEF Vouched
  <2>1. meta # NoManifest /\ manifest # NoManifest /\ manifest <= meta + 2 * Delay
    BY <1>1 DEF IInv, Vouched
  <2>2. manifest \in Nat /\ meta \in Nat /\ manifest <= MaxAge /\ MaxAge \in Nat
    BY <2>1, Types, AgeFacts
  <2> QED BY <1>1, <2>1, <2>2, TimesAssumption
<1>7. PendingVouched'
  <2> SUFFICES ASSUME NEW p \in Procs, pc[p] = "write_meta"
               PROVE  manifest' # NoManifest /\ manifest' <= held'[p] + Delay
    BY <1>2 DEF PendingVouched
  <2>1. manifest # NoManifest /\ manifest <= held[p] + Delay
    BY DEF IInv, PendingVouched
  <2>2. held'[p] = held[p] + 1 /\ held[p] \in 0 .. Delay
    BY <1>3 DEF Busy
  <2>3. manifest \in Nat
    BY <2>1, Types, AgeFacts
  <2>4. manifest' # NoManifest /\ manifest' \in Nat /\ manifest' <= manifest + 1
    BY <1>1, <2>1, <2>3
  <2> QED BY <2>1, <2>2, <2>3, <2>4, TimesAssumption
<1>8. CheckedFresh'
  <2> SUFFICES ASSUME NEW p \in Procs, pc[p] = "read"
               PROVE  /\ manifest' # NoManifest
                      /\ p \notin Offline => TTL > 0 /\ manifest' < TTL + 2 * Delay + held'[p]
    BY <1>2 DEF CheckedFresh
  <2>1. /\ manifest # NoManifest
        /\ p \notin Offline => TTL > 0 /\ manifest < TTL + 2 * Delay + held[p]
    BY DEF IInv, CheckedFresh
  <2>2. held'[p] = held[p] + 1 /\ held[p] \in 0 .. Delay
    BY <1>3 DEF Busy
  <2>3. manifest \in Nat
    BY <2>1, Types, AgeFacts
  <2>4. manifest' # NoManifest /\ manifest' \in Nat /\ manifest' <= manifest + 1
    BY <1>1, <2>1, <2>3
  <2> QED BY <2>1, <2>2, <2>3, <2>4, TimesAssumption
<1> QED BY <1>4, <1>5, <1>6, <1>7, <1>8 DEF IInv

LEMMA FailInv == ASSUME IInv, NEW p \in Procs, Fail(p) PROVE IInv'
<1>1. CASE FetchFails(p)
  <2>1. PICK recorded \in BOOLEAN : cool' = [cool EXCEPT ![p] = IF recorded THEN Retry ELSE @]
    BY <1>1 DEF FetchFails
  <2>2. cool' = [cool EXCEPT ![p] = Retry] \/ cool' = cool
    BY <2>1, Types
  <2>3. cool' \in [Procs -> 0 .. Retry]
    BY <2>2, Types, Zenon
  <2> QED BY <1>1, <2>3, RaiseInv DEF FetchFails
<1>2. CASE WriteFails(p)
  BY <1>2, Types, RaiseInv DEF WriteFails
<1>3. CASE Restart(p)
  <2>1. cool' \in [Procs -> 0 .. Retry]
    BY <1>3, Types, Zenon DEF Restart
  <2> QED BY <1>3, <2>1, RaiseInv DEF Restart
<1> QED BY <1>1, <1>2, <1>3 DEF Fail

LEMMA StepInv == ASSUME IInv, NEW p \in Procs, Step(p) PROVE IInv'
<1>1. CASE Refuse(p)
  BY <1>1, RaiseInv DEF Refuse, IInv, TypeOK
<1> QED BY <1>1, UseCachedInv, ReadInv, RequestInv, RespondInv, WriteManifestInv, WriteMetaInv DEF Step

LEMMA NextInv == IInv /\ [Next]_vars => IInv'
<1> SUFFICES ASSUME IInv, [Next]_vars PROVE IInv'
  OBVIOUS
<1>1. CASE Tick
  BY <1>1, TickInv
<1>2. CASE Change
  <2>1. TypeOK'
    BY <1>2 DEF Change, IInv, TypeOK
  <2> QED BY <1>2, <2>1, QuietInv DEF Change
<1>3. CASE \E p \in Procs : Step(p) \/ Fail(p)
  BY <1>3, StepInv, FailInv
<1>4. CASE UNCHANGED vars
  <2>1. TypeOK'
    BY <1>4 DEF vars, IInv, TypeOK
  <2> QED BY <1>4, <2>1, QuietInv DEF vars
<1> QED BY <1>1, <1>2, <1>3, <1>4 DEF Next

\* The cached manifest is at most two delays older than its time says, for any
\* processes, times and failures.
THEOREM ManifestInvariant == Spec => []IInv
<1> QED BY InitInv, NextInv, PTL DEF Spec

\* No call that may go online returns a manifest older than the TTL and three
\* delays: the refresh fails loudly instead (_load_manifest, model_sources.py).
THEOREM ManifestNeverStale == Spec => []NeverStale
<1>1. IInv => NeverStale
  BY DEF IInv
<1> QED BY <1>1, ManifestInvariant, PTL
=============================================================================
