--------------------------- MODULE ManifestCache ---------------------------
(***************************************************************************)
(* _load_manifest of FlagTune's model_sources.py, run by several processes *)
(* on one cache directory.  manifest.json and manifest.meta.json, which    *)
(* holds the time of the fetch, are replaced one after the other; the TTL  *)
(* is judged by the second.  Times are kept as ages: the number of ticks   *)
(* since the server sent a manifest, or since a time was taken.            *)
(***************************************************************************)
EXTENDS Naturals

CONSTANTS
  Procs,
  Offline,    \* processes with FLAGTUNE_DISABLE_REMOTE=1
  Refreshing, \* processes with FLAGTUNE_MANIFEST_REFRESH=1
  TTL,        \* FLAGTUNE_MANIFEST_TTL
  Retry,      \* _MANIFEST_FAILURE_RETRY_SECONDS
  Delay,      \* ticks a process takes at most from a response to its last write,
              \* or from a freshness check to the read that follows
  NoManifest

ASSUME TimesAssumption == TTL \in Nat /\ Retry \in Nat /\ Delay \in Nat
ASSUME NoManifestAssumption == NoManifest \notin Nat

\* Bound: older manifests are all the same.
MaxAge == TTL + 3 * Delay + 1
Ages == 0 .. MaxAge

VARIABLES
  pc,       \* where each process is in _load_manifest
  held,     \* age of what the process was sent or has checked
  cool,     \* ticks until retry_at of the process's _MANIFEST_FAILURES
  result,   \* age of the manifest its last call returned; NoManifest when it raised
  manifest, \* age of the contents of manifest.json
  meta,     \* age of fetched_at in manifest.meta.json
  trouble   \* whether requests, writes and processes may fail at present

vars == <<pc, held, cool, result, manifest, meta, trouble>>

Init ==
  /\ pc = [p \in Procs |-> "idle"]
  /\ held = [p \in Procs |-> 0]
  /\ cool = [p \in Procs |-> 0]
  /\ result = [p \in Procs |-> NoManifest]
  /\ manifest = NoManifest /\ meta = NoManifest
  /\ trouble \in BOOLEAN

Goto(p, l) == pc' = [pc EXCEPT ![p] = l]
Return(p, r) == Goto(p, "idle") /\ result' = [result EXCEPT ![p] = r]
Raise(p) == Return(p, NoManifest)

\* _manifest_cache_is_fresh
Fresh(p) == p \notin Refreshing /\ meta # NoManifest /\ meta < TTL

\* Mutant: the time of the fetch is not looked at.
AnyIsUsable(p) == manifest # NoManifest /\ (p \in Offline \/ p \notin Refreshing)
Usable(p) == manifest # NoManifest /\ (p \in Offline \/ Fresh(p))

Cooling(p) == cool[p] > 0 /\ p \notin Refreshing

\* The cached manifest will do: it is read once more to be returned.
UseCached(p) ==
  /\ pc[p] = "idle" /\ Usable(p)
  /\ Goto(p, "read")
  /\ held' = [held EXCEPT ![p] = 0]
  /\ result' = [result EXCEPT ![p] = NoManifest]
  /\ UNCHANGED <<cool, manifest, meta, trouble>>

Read(p) ==
  /\ pc[p] = "read"
  /\ Return(p, manifest)
  /\ UNCHANGED <<held, cool, manifest, meta, trouble>>

\* Mutant: a refused call counts as one more failure.
RefuseAgain(p) ==
  /\ pc[p] = "idle" /\ ~Usable(p)
  /\ p \in Offline \/ Cooling(p)
  /\ Raise(p)
  /\ cool' = [cool EXCEPT ![p] = Retry]
  /\ UNCHANGED <<held, manifest, meta, trouble>>

\* No request is made when the process is offline or failed a while ago.
Refuse(p) ==
  /\ pc[p] = "idle" /\ ~Usable(p)
  /\ p \in Offline \/ Cooling(p)
  /\ Raise(p)
  /\ UNCHANGED <<held, cool, manifest, meta, trouble>>

Request(p) ==
  /\ pc[p] = "idle" /\ ~Usable(p)
  /\ p \notin Offline /\ ~Cooling(p)
  /\ Goto(p, "fetch")
  /\ result' = [result EXCEPT ![p] = NoManifest]
  /\ UNCHANGED <<held, cool, manifest, meta, trouble>>

\* The server sends a valid manifest: the recorded failure is dropped.
Respond(p) ==
  /\ pc[p] = "fetch"
  /\ Goto(p, "write_manifest")
  /\ held' = [held EXCEPT ![p] = 0]
  /\ cool' = [cool EXCEPT ![p] = 0]
  /\ UNCHANGED <<result, manifest, meta, trouble>>

\* It does not; only a ManifestContractError is recorded.
FetchFails(p) ==
  /\ pc[p] = "fetch" /\ trouble
  /\ Raise(p)
  /\ \E recorded \in BOOLEAN : cool' = [cool EXCEPT ![p] = IF recorded THEN Retry ELSE @]
  /\ UNCHANGED <<held, manifest, meta, trouble>>

\* The manifest is replaced, whatever it is by now ...
WriteManifest(p) ==
  /\ pc[p] = "write_manifest"
  /\ manifest' = held[p]
  /\ Goto(p, "write_meta")
  /\ UNCHANGED <<held, cool, result, meta, trouble>>

\* ... and then its time, which is that of this write and not of the response.
WriteMeta(p) ==
  /\ pc[p] = "write_meta"
  /\ meta' = 0
  /\ Return(p, held[p])
  /\ UNCHANGED <<held, cool, manifest, trouble>>

WriteFails(p) ==
  /\ pc[p] \in {"write_manifest", "write_meta"} /\ trouble
  /\ Raise(p)
  /\ UNCHANGED <<held, cool, manifest, meta, trouble>>

\* A process dies; the next one of its kind knows of no failures.
Restart(p) ==
  /\ trouble
  /\ Raise(p)
  /\ cool' = [cool EXCEPT ![p] = 0]
  /\ UNCHANGED <<held, manifest, meta, trouble>>

Busy(p) == pc[p] \in {"read", "write_manifest", "write_meta"}
Older(a) == IF a = NoManifest \/ a = MaxAge THEN a ELSE a + 1

Tick ==
  /\ \A p \in Procs : Busy(p) => held[p] < Delay
  /\ held' = [p \in Procs |-> IF Busy(p) THEN held[p] + 1 ELSE held[p]]
  /\ cool' = [p \in Procs |-> IF cool[p] = 0 THEN 0 ELSE cool[p] - 1]
  /\ manifest' = Older(manifest) /\ meta' = Older(meta)
  /\ UNCHANGED <<pc, result, trouble>>

Change == trouble' = ~trouble /\ UNCHANGED <<pc, held, cool, result, manifest, meta>>

Step(p) ==
  \/ UseCached(p) \/ Read(p) \/ Refuse(p) \/ Request(p) \/ Respond(p)
  \/ WriteManifest(p) \/ WriteMeta(p)
Fail(p) == FetchFails(p) \/ WriteFails(p) \/ Restart(p)

Next == Tick \/ Change \/ \E p \in Procs : Step(p) \/ Fail(p)
Spec == Init /\ [][Next]_vars

\* Time passes, and the processes are those that keep calling.
FairSpec == Spec /\ WF_vars(Tick) /\ \A p \in Procs : WF_vars(Step(p))

----------------------------------------------------------------------------
\* The variables have their types; a busy process is within its delay.
TypeOK ==
  /\ pc \in [Procs -> {"idle", "read", "fetch", "write_manifest", "write_meta"}]
  /\ held \in [Procs -> 0 .. Delay]
  /\ cool \in [Procs -> 0 .. Retry]
  /\ result \in [Procs -> Ages \cup {NoManifest}]
  /\ manifest \in Ages \cup {NoManifest}
  /\ meta \in Ages \cup {NoManifest}
  /\ trouble \in BOOLEAN

\* "A failed remote refresh is reported to the caller instead of silently using
\* stale metadata" (model_sources.py): whoever overwrites whose manifest, stamps
\* whose fetch or dies in between, a process that may go online never returns
\* one that the server sent more than the TTL and three delays ago.
NeverStale ==
  \A p \in Procs \ Offline :
    result[p] # NoManifest => result[p] <= Delay \/ result[p] < TTL + 3 * Delay

\* What makes it so: the manifest is at most two delays older than the time
\* that vouches for it, ...
Vouched == meta # NoManifest => manifest # NoManifest /\ manifest <= meta + 2 * Delay

\* ... since the one a process is about to vouch for is at most a delay older
\* than the one it has written itself.
PendingVouched ==
  \A p \in Procs :
    pc[p] = "write_meta" => manifest # NoManifest /\ manifest <= held[p] + Delay

\* A manifest that was fresh when it was checked.
CheckedFresh ==
  \A p \in Procs :
    pc[p] = "read" =>
      /\ manifest # NoManifest
      /\ p \notin Offline => TTL > 0 /\ manifest < TTL + 2 * Delay + held[p]

IInv == TypeOK /\ NeverStale /\ Vouched /\ PendingVouched /\ CheckedFresh

\* When nothing fails any more, no failure of the past keeps a process from
\* getting manifests.
Recovers ==
  \A p \in Procs \ Offline : <>[]~trouble => []<>(result[p] # NoManifest)
=============================================================================
