---------------------------- MODULE PackageStore ----------------------------
(***************************************************************************)
(* FlagTuneModelManager.load of model_loader.py for one platform and one   *)
(* model identity, in several processes that share a package cache: which  *)
(* version a load resolves to, its download, its publication in the cache  *)
(* by a create-if-absent link, and the models each process has in memory.  *)
(* A package is its digest; versions are numbered in selection order.      *)
(***************************************************************************)
EXTENDS Naturals

CONSTANTS
  Procs, Versions, Digests, None,
  VersionOf, \* the version a package is valid for; None when it is no valid package
  Indexes,   \* the manifests a process may be given: versions to digests
  Pin,       \* each process's FLAGTUNE_MODEL_VERSION
  User,      \* and the packages in its FLAGTUNE_MODEL_DIR
  Latest,    \* processes with FLAGTUNE_MODEL_DOWNLOAD_LATEST=1
  Offline    \* processes with FLAGTUNE_DISABLE_REMOTE=1

ASSUME VersionsAssumption == Versions \subseteq Nat /\ None \notin Versions
ASSUME DigestsAssumption ==
  /\ None \notin Digests
  /\ VersionOf \in [Digests -> Versions \cup {None}]
  /\ Indexes \subseteq [Versions -> Digests \cup {None}]
ASSUME ProcsAssumption ==
  /\ Pin \in [Procs -> Versions \cup {None}]
  /\ User \in [Procs -> [Versions -> Digests \cup {None}]]

VARIABLES
  cache,    \* the package file of each version below packages/<platform>/
  pc,       \* where each process is in load
  arg,      \* the model_version its load was given; None in an implicit load
  version,  \* the version of the package that it has resolved or is resolving
  digest,   \* the sha256 the manifest gives for it
  loaded,   \* its _loaded
  implicit, \* the version of its _implicit_loaded
  given     \* history: the versions its implicit loads have returned

proc == <<arg, version, digest>>
memory == <<loaded, implicit, given>>
vars == <<cache, pc, proc, memory>>

Nothing == [v \in Versions |-> None]

Init ==
  /\ cache = Nothing
  /\ pc = [p \in Procs |-> "idle"]
  /\ arg = [p \in Procs |-> None]
  /\ version = [p \in Procs |-> None]
  /\ digest = [p \in Procs |-> None]
  /\ loaded = [p \in Procs |-> Nothing]
  /\ implicit = [p \in Procs |-> None]
  /\ given = [p \in Procs |-> {}]

Goto(p, l) == pc' = [pc EXCEPT ![p] = l]

\* _select_user_package, _select_cache_package and _selected_version: of the
\* versions a directory or a manifest has, the one requested or the highest.
Candidates(files, requested) == {v \in Versions : files[v] # None /\ requested \in {None, v}}
Highest(candidates) == {v \in candidates : \A w \in candidates : w <= v}

Requested(p, a) == IF a = None THEN Pin[p] ELSE a

\* The load returns a model: an implicit one has been given its version.
Give(p, a, v) == given' = IF a = None THEN [given EXCEPT ![p] = @ \cup {v}] ELSE given

\* The load ends and its locals with it.
Leave(p) ==
  /\ Goto(p, "idle")
  /\ arg' = [arg EXCEPT ![p] = None]
  /\ version' = [version EXCEPT ![p] = None]
  /\ digest' = [digest EXCEPT ![p] = None]

\* A load that finds the model in memory looks at nothing else.
LoadAgain(p, a) ==
  LET r == Requested(p, a) IN
  /\ pc[p] = "idle"
  /\ \/ a = None /\ implicit[p] # None /\ Give(p, a, implicit[p])
     \/ /\ a # None \/ implicit[p] = None
        /\ r # None /\ loaded[p][r] # None
        /\ Give(p, a, r)
  /\ UNCHANGED <<cache, pc, proc, loaded, implicit>>

\* resolve: the user's package, or else the cached one unless the manifest is
\* to be asked which version is the latest.
Found(p, r) ==
  IF Candidates(User[p], r) # {} THEN Candidates(User[p], r)
  ELSE IF r # None \/ p \notin Latest THEN Candidates(cache, r) ELSE {}

Begin(p, a) ==
  /\ pc[p] = "idle"
  /\ a = None => implicit[p] = None
  /\ Requested(p, a) # None => loaded[p][Requested(p, a)] = None
  /\ arg' = [arg EXCEPT ![p] = a]
  /\ UNCHANGED <<digest, cache, memory>>

Resolve(p, a) ==
  /\ Begin(p, a)
  /\ \E v \in Highest(Found(p, Requested(p, a))) : version' = [version EXCEPT ![p] = v]
  /\ Goto(p, "load")

\* A process that may not download does not ask the manifest for what it lacks,
\* except for the latest version.
AskManifest(p, a) ==
  /\ Begin(p, a)
  /\ Found(p, Requested(p, a)) = {}
  /\ p \in Offline => Requested(p, a) = None /\ p \in Latest
  /\ version' = [version EXCEPT ![p] = Requested(p, a)]
  /\ Goto(p, "manifest")

\* resolve_package_info: the manifest has a package.
Index(p) ==
  /\ pc[p] = "manifest"
  /\ \E i \in Indexes : \E v \in Highest(Candidates(i, version[p])) :
       /\ version' = [version EXCEPT ![p] = v]
       /\ digest' = [digest EXCEPT ![p] = i[v]]
  /\ Goto(p, "download")
  /\ UNCHANGED <<cache, arg, memory>>

\* The file in the cache has the digest listed: nothing need be downloaded.
SameInCache(p) ==
  /\ cache[version[p]] # None
  /\ cache[version[p]] = digest[p]

\* _download_package looks at the destination first ...
AlreadyCached(p) ==
  /\ pc[p] = "download"
  /\ SameInCache(p) /\ VersionOf[digest[p]] = version[p]
  /\ Goto(p, "load")
  /\ UNCHANGED <<cache, proc, memory>>

Request(p) ==
  /\ pc[p] = "download"
  /\ cache[version[p]] = None /\ p \notin Offline
  /\ Goto(p, "payload")
  /\ UNCHANGED <<cache, proc, memory>>

\* Mutant: what the server has sent is only checked to be a package.
AnyPayload(p) ==
  /\ pc[p] = "payload"
  /\ \E d \in Digests :
       /\ VersionOf[d] = version[p]
       /\ digest' = [digest EXCEPT ![p] = d]
  /\ \/ cache[version[p]] = None /\ Goto(p, "publish")
     \/ cache[version[p]] = digest'[p] /\ Goto(p, "load")
  /\ UNCHANGED <<cache, arg, version, memory>>

\* ... and once more when the server has sent the bytes listed and they are
\* a valid package of that version.
Payload(p) ==
  /\ pc[p] = "payload"
  /\ \E d \in Digests : d = digest[p] /\ VersionOf[d] = version[p]
  /\ \/ cache[version[p]] = None /\ Goto(p, "publish")
     \/ SameInCache(p) /\ Goto(p, "load")
  /\ UNCHANGED <<cache, proc, memory>>

\* Mutants: the file is put there by os.replace; a winner is not looked at.
Replace(p) ==
  /\ pc[p] = "publish"
  /\ cache' = [cache EXCEPT ![version[p]] = digest[p]]
  /\ Goto(p, "load")
  /\ UNCHANGED <<proc, memory>>

\* _publish_package_bytes: os.link, unless another process came first; then
\* its bytes must be the same.
Publish(p) ==
  /\ pc[p] = "publish"
  /\ \/ cache[version[p]] = None /\ cache' = [cache EXCEPT ![version[p]] = digest[p]]
     \/ SameInCache(p) /\ UNCHANGED cache
  /\ Goto(p, "load")
  /\ UNCHANGED <<proc, memory>>

\* The user's packages come first in resolve, so they are where such a version is from.
File(p, v) == IF User[p][v] # None THEN User[p][v] ELSE cache[v]

\* Mutant: a model found in memory under its version is returned at once.
LoadForgetful(p) ==
  LET v == version[p] IN
  /\ pc[p] = "load"
  /\ \/ loaded[p][v] # None /\ UNCHANGED <<loaded, implicit>>
     \/ /\ loaded[p][v] = None
        /\ File(p, v) # None /\ VersionOf[File(p, v)] = v
        /\ loaded' = [loaded EXCEPT ![p][v] = File(p, v)]
        /\ implicit' = IF arg[p] = None THEN [implicit EXCEPT ![p] = v] ELSE implicit
  /\ Give(p, arg[p], v)
  /\ Leave(p)
  /\ UNCHANGED cache

\* The package is loaded, unless the process has loaded its version before.
Load(p) ==
  LET v == version[p] IN
  /\ pc[p] = "load"
  /\ \/ loaded[p][v] # None /\ UNCHANGED loaded
     \/ /\ loaded[p][v] = None
        /\ File(p, v) # None /\ VersionOf[File(p, v)] = v
        /\ loaded' = [loaded EXCEPT ![p][v] = File(p, v)]
  /\ implicit' = IF arg[p] = None THEN [implicit EXCEPT ![p] = v] ELSE implicit
  /\ Give(p, arg[p], v)
  /\ Leave(p)
  /\ UNCHANGED cache

\* Whatever fails on the way raises: a manifest without the version, a digest
\* that differs, a file that is no package or lacks the model, any I/O.  A load
\* refused at its beginning changes nothing and is no step here.
Raise(p) ==
  /\ pc[p] # "idle"
  /\ Leave(p)
  /\ UNCHANGED <<cache, memory>>

\* A process ends or dies anywhere; a new one has nothing in memory.  A temporary
\* file it leaves behind has no package's name.
Restart(p) ==
  /\ Leave(p)
  /\ loaded' = [loaded EXCEPT ![p] = Nothing]
  /\ implicit' = [implicit EXCEPT ![p] = None]
  /\ given' = [given EXCEPT ![p] = {}]
  /\ UNCHANGED cache

Step(p) ==
  \/ \E a \in Versions \cup {None} : LoadAgain(p, a) \/ Resolve(p, a) \/ AskManifest(p, a)
  \/ Index(p) \/ AlreadyCached(p) \/ Request(p) \/ Payload(p) \/ Publish(p)
  \/ Load(p) \/ Raise(p) \/ Restart(p)

Next == \E p \in Procs : Step(p)
Spec == Init /\ [][Next]_vars

----------------------------------------------------------------------------
\* The variables have their types.
TypeOK ==
  /\ cache \in [Versions -> Digests \cup {None}]
  /\ pc \in [Procs -> {"idle", "manifest", "download", "payload", "publish", "load"}]
  /\ arg \in [Procs -> Versions \cup {None}]
  /\ version \in [Procs -> Versions \cup {None}]
  /\ digest \in [Procs -> Digests \cup {None}]
  /\ loaded \in [Procs -> [Versions -> Digests \cup {None}]]
  /\ implicit \in [Procs -> Versions \cup {None}]
  /\ given \in [Procs -> SUBSET Versions]

\* "The digest and complete bundle contract are validated before an atomic
\* create-if-absent cache publication" (model_loader.py): whatever a server sends,
\* every file in the cache is a package that a manifest lists for its version
\* and that is valid for it.
Vetted ==
  \A v \in Versions : cache[v] # None => VersionOf[cache[v]] = v /\ \E i \in Indexes : i[v] = cache[v]

\* A process that has an implicit load's model is given the same version by the
\* implicit loads to come, although others publish later versions meanwhile and
\* explicit loads go on: _ensure_flagtune takes the variant from one and the
\* proposer's predictor from the next, and they must belong together.
OneRevision == \A p \in Procs : \A v, w \in given[p] : v = w

\* "a same-version package is never overwritten" (model_loader.py): the cache
\* is a register of the versions' bytes, and what the processes have loaded from
\* it agrees, whichever manifests disagree on a version.
LoadedFromCache == [p \in Procs |-> [v \in Versions |-> IF User[p][v] = None THEN loaded[p][v] ELSE None]]
Store == INSTANCE Registry WITH value <- cache, learned <- LoadedFromCache
ImplementsRegistry == Store!Spec

\* Why a package that has been downloaded or checked is the one listed, ...
Listed ==
  \A p \in Procs :
    /\ pc[p] = "manifest" => Candidates(User[p], version[p]) = {}
    /\ pc[p] \in {"download", "payload", "publish"} =>
         /\ version[p] \in Versions /\ User[p][version[p]] = None
         /\ \E i \in Indexes : i[version[p]] = digest[p]
         /\ pc[p] = "publish" => digest[p] \in Digests /\ VersionOf[digest[p]] = version[p]

\* ... what a process is about to load is there, ...
Ready ==
  \A p \in Procs :
    pc[p] = "load" => version[p] \in Versions /\ File(p, version[p]) # None

\* ... what it has loaded is what there is, ...
LoadedIsFile ==
  \A p \in Procs : \A v \in Versions : loaded[p][v] # None => loaded[p][v] = File(p, v)

\* ... a load resolves the version it was asked for, an implicit one nothing
\* that is remembered, ...
Asked ==
  \A p \in Procs :
    pc[p] # "idle" =>
      /\ arg[p] = None => implicit[p] = None
      /\ Requested(p, arg[p]) # None => version[p] = Requested(p, arg[p])

\* ... and a version once given is the one that is pinned or remembered.
GivenIsKept ==
  \A p \in Procs :
    /\ \A v \in given[p] : v = IF Pin[p] = None THEN implicit[p] ELSE Pin[p]
    /\ Pin[p] # None => implicit[p] \in {None, Pin[p]}

IInv ==
  TypeOK /\ Vetted /\ Listed /\ Ready /\ LoadedIsFile /\ Asked /\ GivenIsKept
=============================================================================
