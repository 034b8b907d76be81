------------------------ MODULE PackageStore_proofs ------------------------
(***************************************************************************)
(* Proofs about PackageStore, for any processes, versions, packages and    *)
(* manifests: what is in the cache is vetted, a process's implicit loads   *)
(* agree, and the cache implements a write-once register.                  *)
(***************************************************************************)
EXTENDS PackageStore, TLAPS

\* Assigning to one process keeps a function's type.
LEMMA UpdateType ==
  ASSUME NEW S, NEW r \in [Procs -> S], NEW p \in Procs, NEW v \in S
  PROVE  [r EXCEPT ![p] = v] \in [Procs -> S]
  OBVIOUS

Labels == {"idle", "manifest", "download", "payload", "publish", "load"}
Files == [Versions -> Digests \cup {None}]

\* The types of the variables one by one.
LEMMA Types ==
  ASSUME IInv
  PROVE  /\ cache \in Files
         /\ pc \in [Procs -> Labels]
         /\ arg \in [Procs -> Versions \cup {None}]
         /\ version \in [Procs -> Versions \cup {None}]
         /\ digest \in [Procs -> Digests \cup {None}]
         /\ loaded \in [Procs -> Files]
         /\ implicit \in [Procs -> Versions \cup {None}]
         /\ given \in [Procs -> SUBSET Versions]
  BY Zenon DEF IInv, TypeOK, Labels, Files

LEMMA ConstantTypes ==
  /\ User \in [Procs -> Files] /\ Pin \in [Procs -> Versions \cup {None}]
  /\ None \notin Versions /\ None \notin Digests /\ Nothing \in Files
  BY VersionsAssumption, DigestsAssumption, ProcsAssumption DEF Files, Nothing

LEMMA InitInv == Init => IInv
<1> SUFFICES ASSUME Init PROVE IInv
  OBVIOUS
<1>1. TypeOK
  BY ConstantTypes, Zenon DEF Init, TypeOK, Files
<1>2. Vetted /\ Listed /\ Ready /\ LoadedIsFile /\ Asked /\ GivenIsKept
  BY DEF Init, Nothing, Vetted, Listed, Ready, LoadedIsFile, Asked, GivenIsKept
<1> QED BY <1>1, <1>2 DEF IInv

\* A load that ends leaves the others as they are and nothing of its own.
LEMMA LeaveFacts ==
  ASSUME IInv, NEW p \in Procs, Leave(p)
  PROVE  /\ pc' \in [Procs -> Labels]
         /\ arg' \in [Procs -> Versions \cup {None}]
         /\ version' \in [Procs -> Versions \cup {None}]
         /\ digest' \in [Procs -> Digests \cup {None}]
         /\ pc'[p] = "idle"
         /\ \A q \in Procs \ {p} : /\ pc'[q] = pc[q] /\ arg'[q] = arg[q]
                                   /\ version'[q] = version[q] /\ digest'[q] = digest[q]
<1>1. \A q \in Procs \ {p} : /\ pc'[q] = pc[q] /\ arg'[q] = arg[q]
                             /\ version'[q] = version[q] /\ digest'[q] = digest[q]
  BY Types DEF Leave, Goto
<1>2. pc'[p] = "idle"
  BY Types DEF Leave, Goto
<1>3. /\ pc' \in [Procs -> Labels]
      /\ arg' \in [Procs -> Versions \cup {None}]
      /\ version' \in [Procs -> Versions \cup {None}]
      /\ digest' \in [Procs -> Digests \cup {None}]
  BY Types, Zenon DEF Leave, Goto, Labels
<1> QED BY <1>1, <1>2, <1>3

\* Steps of one process that leave the cache alone and the others where they
\* are keep what holds of the others.
LEMMA OthersInv ==
  ASSUME IInv, NEW p \in Procs, TypeOK', cache' = cache,
         \A q \in Procs \ {p} : /\ pc'[q] = pc[q] /\ arg'[q] = arg[q]
                                /\ version'[q] = version[q] /\ digest'[q] = digest[q]
                                /\ loaded'[q] = loaded[q] /\ implicit'[q] = implicit[q]
                                /\ given'[q] = given[q],
         pc'[p] = "manifest" => Candidates(User[p], version'[p]) = {},
         pc'[p] \in {"download", "payload", "publish"} =>
           /\ version'[p] \in Versions /\ User[p][version'[p]] = None
           /\ \E i \in Indexes : i[version'[p]] = digest'[p]
           /\ pc'[p] = "publish" => digest'[p] \in Digests /\ VersionOf[digest'[p]] = version'[p],
         pc'[p] = "load" => version'[p] \in Versions /\ File(p, version'[p]) # None,
         \A v \in Versions : loaded'[p][v] # None => loaded'[p][v] = File(p, v),
         pc'[p] # "idle" =>
           /\ arg'[p] = None => implicit'[p] = None
           /\ Requested(p, arg'[p]) # None => version'[p] = Requested(p, arg'[p]),
         /\ \A v \in given'[p] : v = IF Pin[p] = None THEN implicit'[p] ELSE Pin[p]
         /\ Pin[p] # None => implicit'[p] \in {None, Pin[p]}
  PROVE  IInv'
<1>1. Vetted'
  BY DEF IInv, Vetted
<1>2. Listed'
  BY DEF IInv, Listed, Candidates
<1>3. Ready' /\ LoadedIsFile'
  BY DEF IInv, Ready, LoadedIsFile, File
<1>4. Asked' /\ GivenIsKept'
  BY DEF IInv, Asked, GivenIsKept, Requested
<1> QED BY <1>1, <1>2, <1>3, <1>4 DEF IInv

\* The parts of the invariant that a step may use about its process.
LEMMA Own ==
  ASSUME IInv, NEW p \in Procs
  PROVE  /\ pc[p] = "manifest" => Candidates(User[p], version[p]) = {}
         /\ pc[p] \in {"download", "payload", "publish"} =>
              /\ version[p] \in Versions /\ User[p][version[p]] = None
              /\ \E i \in Indexes : i[version[p]] = digest[p]
              /\ pc[p] = "publish" => digest[p] \in Digests /\ VersionOf[digest[p]] = version[p]
         /\ pc[p] = "load" => version[p] \in Versions /\ File(p, version[p]) # None
         /\ \A v \in Versions : loaded[p][v] # None => loaded[p][v] = File(p, v)
         /\ pc[p] # "idle" =>
              /\ arg[p] = None => implicit[p] = None
              /\ Requested(p, arg[p]) # None => version[p] = Requested(p, arg[p])
         /\ \A v \in given[p] : v = IF Pin[p] = None THEN implicit[p] ELSE Pin[p]
         /\ Pin[p] # None => implicit[p] \in {None, Pin[p]}
  BY DEF IInv, Listed, Ready, LoadedIsFile, Asked, GivenIsKept

\* A step that changes but the place of its process.
LEMMA MoveInv ==
  ASSUME IInv, NEW p \in Procs, NEW l \in Labels, Goto(p, l), UNCHANGED <<cache, proc, memory>>,
         pc[p] # "idle", l # "manifest",
         l \in {"download", "payload", "publish"} =>
           /\ pc[p] \in {"download", "payload", "publish"}
           /\ l = "publish" => digest[p] \in Digests /\ VersionOf[digest[p]] = version[p],
         l = "load" => version[p] \in Versions /\ File(p, version[p]) # None
  PROVE  IInv'
<1>1. TypeOK'
  BY Types, Zenon DEF TypeOK, Labels, Files, Goto, proc, memory
<1>2. pc'[p] = l /\ \A q \in Procs \ {p} : pc'[q] = pc[q]
  BY Types DEF Goto
<1>3. /\ cache' = cache /\ arg' = arg /\ version' = version /\ digest' = digest
      /\ loaded' = loaded /\ implicit' = implicit /\ given' = given
  BY DEF proc, memory
<1> QED BY <1>1, <1>2, <1>3, Own, OthersInv

LEMMA LoadAgainInv ==
  ASSUME IInv, NEW p \in Procs, NEW a \in Versions \cup {None}, LoadAgain(p, a)
  PROVE  IInv'
<1>1. PICK v \in Versions : /\ Give(p, a, v)
                            /\ a = None => v = implicit[p] \/ v = Pin[p]
                            /\ a = None /\ v # implicit[p] => implicit[p] = None
  <2>1. CASE a = None /\ implicit[p] # None /\ Give(p, a, implicit[p])
    BY <2>1, Types
  <2>2. CASE /\ a # None \/ implicit[p] = None
             /\ Requested(p, a) # None /\ loaded[p][Requested(p, a)] # None
             /\ Give(p, a, Requested(p, a))
    BY <2>2, ConstantTypes DEF Requested
  <2> QED BY <2>1, <2>2 DEF LoadAgain
<1>2. given' \in [Procs -> SUBSET Versions]
  <2>1. given[p] \cup {v} \in SUBSET Versions
    BY Types
  <2> QED BY <1>1, <2>1, Types, UpdateType DEF Give
<1>3. TypeOK'
  BY <1>2, Types, Zenon DEF TypeOK, Labels, Files, LoadAgain, proc
<1>4. /\ cache' = cache /\ arg' = arg /\ version' = version /\ digest' = digest
      /\ loaded' = loaded /\ implicit' = implicit /\ pc' = pc
  BY DEF LoadAgain, proc
<1>5. /\ \A q \in Procs \ {p} : given'[q] = given[q]
      /\ given'[p] = IF a = None THEN given[p] \cup {v} ELSE given[p]
  BY <1>1, Types DEF Give
<1>6. \A w \in given'[p] : w = IF Pin[p] = None THEN implicit[p] ELSE Pin[p]
  BY <1>1, <1>5, Own, ConstantTypes
<1> QED BY <1>3, <1>4, <1>5, <1>6, Own, OthersInv

\* What is resolved is there, and what is asked of the manifest is no version
\* of the user's.
LEMMA BeginFacts ==
  ASSUME IInv, NEW p \in Procs, NEW a \in Versions \cup {None}, Begin(p, a),
         NEW w \in Versions \cup {None}, version' = [version EXCEPT ![p] = w],
         NEW l \in {"load", "manifest"}, Goto(p, l),
         Requested(p, a) # None => w = Requested(p, a),
         l = "manifest" => Candidates(User[p], w) = {},
         l = "load" => w \in Versions /\ File(p, w) # None
  PROVE  IInv'
<1>1. TypeOK'
  BY Types, Zenon DEF TypeOK, Labels, Files, Begin, Goto, memory
<1>2. /\ pc'[p] = l /\ arg'[p] = a /\ version'[p] = w
      /\ \A q \in Procs \ {p} : pc'[q] = pc[q] /\ arg'[q] = arg[q] /\ version'[q] = version[q]
  BY Types DEF Begin, Goto
<1>3. /\ cache' = cache /\ digest' = digest
      /\ loaded' = loaded /\ implicit' = implicit /\ given' = given
  BY DEF Begin, memory
<1>4. a = None => implicit[p] = None
  BY DEF Begin
<1> QED BY <1>1, <1>2, <1>3, <1>4, Own, OthersInv

LEMMA ResolveInv ==
  ASSUME IInv, NEW p \in Procs, NEW a \in Versions \cup {None}, Resolve(p, a)
  PROVE  IInv'
<1>1. PICK v \in Highest(Found(p, Requested(p, a))) : version' = [version EXCEPT ![p] = v]
  BY DEF Resolve
<1>2. v \in Candidates(User[p], Requested(p, a)) \cup Candidates(cache, Requested(p, a))
  BY <1>1 DEF Highest, Found
<1>3. v \in Versions /\ File(p, v) # None
  BY <1>2 DEF Candidates, File
<1>4. Requested(p, a) # None => v = Requested(p, a)
  BY <1>2 DEF Candidates
<1> QED BY <1>1, <1>3, <1>4, BeginFacts DEF Resolve

LEMMA AskManifestInv ==
  ASSUME IInv, NEW p \in Procs, NEW a \in Versions \cup {None}, AskManifest(p, a)
  PROVE  IInv'
<1>1. Requested(p, a) \in Versions \cup {None}
  BY ConstantTypes DEF Requested
<1>2. Candidates(User[p], Requested(p, a)) = {}
  BY DEF AskManifest, Found
<1> QED BY <1>1, <1>2, BeginFacts DEF AskManifest

LEMMA IndexInv == ASSUME IInv, NEW p \in Procs, Index(p) PROVE IInv'
<1>1. PICK i \in Indexes : \E v \in Highest(Candidates(i, version[p])) :
        /\ version' = [version EXCEPT ![p] = v]
        /\ digest' = [digest EXCEPT ![p] = i[v]]
  BY DEF Index
<1>2. PICK v \in Highest(Candidates(i, version[p])) :
        /\ version' = [version EXCEPT ![p] = v]
        /\ digest' = [digest EXCEPT ![p] = i[v]]
  BY <1>1
<1>3. v \in Versions /\ v \in Candidates(i, version[p])
  BY <1>2 DEF Highest, Candidates
<1>4. i[v] \in Digests \cup {None}
  BY <1>3, DigestsAssumption
<1>5. TypeOK'
  BY <1>2, <1>3, <1>4, Types, Zenon DEF TypeOK, Labels, Files, Index, Goto, memory
<1>6. /\ pc'[p] = "download" /\ version'[p] = v /\ digest'[p] = i[v]
      /\ \A q \in Procs \ {p} : pc'[q] = pc[q] /\ version'[q] = version[q] /\ digest'[q] = digest[q]
  BY <1>2, Types DEF Index, Goto
<1>7. /\ cache' = cache /\ arg' = arg
      /\ loaded' = loaded /\ implicit' = implicit /\ given' = given
  BY DEF Index, memory
<1>8. User[p][v] = None
  <2>1. pc[p] = "manifest"
    BY DEF Index
  <2>2. v \notin Candidates(User[p], version[p])
    BY <2>1, Own
  <2> QED BY <1>3, <2>2 DEF Candidates
<1>9. Requested(p, arg[p]) # None => v = Requested(p, arg[p])
  <2>1. pc[p] # "idle"
    BY DEF Index
  <2> QED BY <1>3, <2>1, Own DEF Candidates
<1>10. arg[p] = None => implicit[p] = None
  <2>1. pc[p] # "idle"
    BY DEF Index
  <2> QED BY <2>1, Own
<1> QED BY <1>3, <1>5, <1>6, <1>7, <1>8, <1>9, <1>10, Own, OthersInv

\* The file that is the same in the cache can be loaded.
LEMMA SameIsFile ==
  ASSUME IInv, NEW p \in Procs, pc[p] \in {"download", "payload", "publish"}, SameInCache(p)
  PROVE  version[p] \in Versions /\ File(p, version[p]) # None
  BY Own DEF SameInCache, File

LEMMA DownloadInv ==
  ASSUME IInv, NEW p \in Procs, AlreadyCached(p) \/ Request(p) \/ Payload(p)
  PROVE  IInv'
<1>1. CASE AlreadyCached(p)
  BY <1>1, SameIsFile, MoveInv DEF AlreadyCached, Labels
<1>2. CASE Request(p)
  BY <1>2, MoveInv DEF Request, Labels
<1>3. CASE Payload(p)
  <2>1. /\ pc[p] = "payload" /\ digest[p] \in Digests /\ VersionOf[digest[p]] = version[p]
        /\ UNCHANGED <<cache, proc, memory>>
    BY <1>3 DEF Payload
  <2>2. CASE Goto(p, "publish")
    BY <2>1, <2>2, MoveInv DEF Labels
  <2>3. CASE SameInCache(p) /\ Goto(p, "load")
    BY <2>1, <2>3, SameIsFile, MoveInv DEF Labels
  <2> QED BY <1>3, <2>2, <2>3 DEF Payload
<1> QED BY <1>1, <1>2, <1>3

\* A link changes no file that is there, and the one it makes is listed and valid.
LEMMA LinkInv ==
  ASSUME IInv, NEW p \in Procs, pc[p] = "publish", cache[version[p]] = None,
         cache' = [cache EXCEPT ![version[p]] = digest[p]],
         Goto(p, "load"), UNCHANGED <<proc, memory>>
  PROVE  IInv'
<1> DEFINE v == version[p]
<1>1. /\ v \in Versions /\ User[p][v] = None
      /\ digest[p] \in Digests /\ VersionOf[digest[p]] = v
      /\ \E i \in Indexes : i[v] = digest[p]
  BY Own
<1>2. /\ cache' \in Files /\ cache'[v] = digest[p]
      /\ \A w \in Versions \ {v} : cache'[w] = cache[w]
  BY <1>1, Types DEF Files
<1>3. TypeOK'
  BY <1>2, Types, Zenon DEF TypeOK, Labels, Files, Goto, proc, memory
<1>4. /\ arg' = arg /\ version' = version /\ digest' = digest
      /\ loaded' = loaded /\ implicit' = implicit /\ given' = given
      /\ pc'[p] = "load" /\ \A q \in Procs \ {p} : pc'[q] = pc[q]
  BY Types DEF Goto, proc, memory
<1>5. digest[p] # None
  BY <1>1, ConstantTypes
<1>6. \A q \in Procs : \A w \in Versions : File(q, w) # None => File(q, w)' = File(q, w)
  BY <1>2 DEF File
<1> HIDE DEF v
<1>7. Vetted'
  BY <1>1, <1>2 DEF IInv, Vetted
<1>8. Listed'
  BY <1>4 DEF IInv, Listed, Candidates
<1>9. Ready'
  <2>1. version'[p] = v /\ User[p][v] = None /\ cache'[v] # None
    BY <1>1, <1>2, <1>4, <1>5 DEF v
  <2>2. v \in Versions /\ \A q \in Procs \ {p} : pc'[q] = "load" => pc[q] = "load"
    BY <1>1, <1>4
  <2> QED BY <1>4, <1>6, <2>1, <2>2 DEF IInv, Ready, File
<1>10. LoadedIsFile'
  BY <1>4, <1>6 DEF IInv, LoadedIsFile
<1>11. Asked'
  <2>1. pc[p] # "idle"
    OBVIOUS
  <2> QED BY <1>4, <2>1 DEF IInv, Asked, Requested
<1>12. GivenIsKept'
  BY <1>4 DEF IInv, GivenIsKept
<1> QED BY <1>3, <1>7, <1>8, <1>9, <1>10, <1>11, <1>12 DEF IInv

LEMMA PublishInv == ASSUME IInv, NEW p \in Procs, Publish(p) PROVE IInv'
<1>1. CASE cache[version[p]] = None /\ cache' = [cache EXCEPT ![version[p]] = digest[p]]
  BY <1>1, LinkInv DEF Publish
<1>2. CASE SameInCache(p) /\ UNCHANGED cache
  BY <1>2, SameIsFile, MoveInv DEF Publish, Labels
<1> QED BY <1>1, <1>2 DEF Publish

LEMMA LoadInv == ASSUME IInv, NEW p \in Procs, Load(p) PROVE IInv'
<1> DEFINE v == version[p]
<1>1. v \in Versions /\ File(p, v) # None /\ pc[p] = "load"
  BY Own DEF Load
<1>2. /\ arg[p] = None => implicit[p] = None
      /\ arg[p] = None /\ Pin[p] # None => v = Pin[p]
  BY <1>1, Own DEF Requested
<1>3. File(p, v) \in Digests \cup {None}
  BY <1>1, Types, ConstantTypes DEF File, Files
<1>4. /\ implicit' \in [Procs -> Versions \cup {None}]
      /\ implicit'[p] = IF arg[p] = None THEN v ELSE implicit[p]
      /\ \A q \in Procs \ {p} : implicit'[q] = implicit[q]
  BY <1>1, Types DEF Load
<1>5. /\ given' \in [Procs -> SUBSET Versions]
      /\ given'[p] = IF arg[p] = None THEN given[p] \cup {v} ELSE given[p]
      /\ \A q \in Procs \ {p} : given'[q] = given[q]
  <2>1. given[p] \cup {v} \in SUBSET Versions
    BY <1>1, Types
  <2>2. given' = IF arg[p] = None THEN [given EXCEPT ![p] = given[p] \cup {v}] ELSE given
    BY Types DEF Load, Give
  <2> HIDE DEF v
  <2> QED BY <2>1, <2>2, Types
<1>6. /\ loaded' \in [Procs -> Files]
      /\ \A q \in Procs \ {p} : loaded'[q] = loaded[q]
      /\ \A w \in Versions : loaded'[p][w] # None => loaded'[p][w] = File(p, w)
  <2>1. CASE UNCHANGED loaded
    BY <2>1, Types, Own
  <2>2. CASE loaded' = [loaded EXCEPT ![p][v] = File(p, v)]
    <3>1. loaded[p] \in Files /\ [loaded[p] EXCEPT ![v] = File(p, v)] \in Files
      BY <1>1, <1>3, Types DEF Files
    <3>2. loaded' = [loaded EXCEPT ![p] = [loaded[p] EXCEPT ![v] = File(p, v)]]
      BY <2>2
    <3>3. loaded'[p] = [loaded[p] EXCEPT ![v] = File(p, v)] /\ loaded' \in [Procs -> Files]
          /\ \A q \in Procs \ {p} : loaded'[q] = loaded[q]
      BY <3>1, <3>2, Types
    <3>4. \A w \in Versions : loaded'[p][w] = IF w = v THEN File(p, w) ELSE loaded[p][w]
      BY <1>1, <3>1, <3>3 DEF Files
    <3> QED BY <3>3, <3>4, Own
  <2> QED BY <2>1, <2>2 DEF Load
<1>7. TypeOK' /\ cache' = cache
  <2>1. Leave(p) /\ cache' = cache
    BY DEF Load
  <2> QED BY <2>1, <1>4, <1>5, <1>6, LeaveFacts, Types DEF TypeOK, Labels, Files
<1>8. Leave(p)
  BY DEF Load
<1>9. \A w \in given'[p] : w = IF Pin[p] = None THEN implicit'[p] ELSE Pin[p]
  BY <1>2, <1>4, <1>5, Own, ConstantTypes, <1>1
<1>10. Pin[p] # None => implicit'[p] \in {None, Pin[p]}
  BY <1>2, <1>4, Own
<1>11. /\ pc'[p] = "idle"
       /\ \A q \in Procs \ {p} : /\ pc'[q] = pc[q] /\ arg'[q] = arg[q]
                                 /\ version'[q] = version[q] /\ digest'[q] = digest[q]
  BY <1>8, LeaveFacts
<1>12. ~(pc'[p] \in {"manifest", "download", "payload", "publish", "load"}) /\ ~(pc'[p] # "idle")
  BY <1>11
<1>13. \A q \in Procs \ {p} :
         /\ pc'[q] = pc[q] /\ arg'[q] = arg[q] /\ version'[q] = version[q]
         /\ digest'[q] = digest[q] /\ loaded'[q] = loaded[q]
         /\ implicit'[q] = implicit[q] /\ given'[q] = given[q]
  BY ONLY <1>4, <1>5, <1>6, <1>11
<1>14. \A w \in Versions : loaded'[p][w] # None => loaded'[p][w] = File(p, w)
  BY <1>6
<1> HIDE DEF v
<1> QED BY <1>7, <1>9, <1>10, <1>12, <1>13, <1>14, OthersInv

LEMMA RaiseInv == ASSUME IInv, NEW p \in Procs, Raise(p) PROVE IInv'
<1>1. /\ cache' = cache /\ loaded' = loaded /\ implicit' = implicit /\ given' = given
      /\ Leave(p)
  BY DEF Raise, memory
<1>2. TypeOK'
  BY <1>1, LeaveFacts, Types, Zenon DEF TypeOK, Labels, Files
<1> QED BY <1>1, <1>2, LeaveFacts, Own, OthersInv

LEMMA RestartInv == ASSUME IInv, NEW p \in Procs, Restart(p) PROVE IInv'
<1>1. cache' = cache /\ Leave(p)
  BY DEF Restart
<1>2. /\ loaded'[p] = Nothing /\ implicit'[p] = None /\ given'[p] = {}
      /\ \A q \in Procs \ {p} : /\ loaded'[q] = loaded[q] /\ implicit'[q] = implicit[q]
                                /\ given'[q] = given[q]
  BY Types DEF Restart
<1>3. /\ loaded' \in [Procs -> Files] /\ implicit' \in [Procs -> Versions \cup {None}]
      /\ given' \in [Procs -> SUBSET Versions]
  BY Types, ConstantTypes, Zenon DEF Restart
<1>4. TypeOK'
  BY <1>1, <1>3, LeaveFacts, Types, Zenon DEF TypeOK, Labels, Files
<1>5. \A v \in Versions : loaded'[p][v] = None
  BY <1>2 DEF Nothing
<1> QED BY <1>1, <1>2, <1>4, <1>5, LeaveFacts, OthersInv

LEMMA NextInv == IInv /\ [Next]_vars => IInv'
<1> SUFFICES ASSUME IInv, [Next]_vars PROVE IInv'
  OBVIOUS
<1>1. CASE UNCHANGED vars
  <2>1. /\ cache' = cache /\ pc' = pc /\ arg' = arg /\ version' = version /\ digest' = digest
        /\ loaded' = loaded /\ implicit' = implicit /\ given' = given
    BY <1>1 DEF vars, proc, memory
  <2>2. TypeOK' /\ Vetted' /\ GivenIsKept'
    BY <2>1 DEF IInv, TypeOK, Vetted, GivenIsKept
  <2>3. Listed' /\ Ready' /\ LoadedIsFile' /\ Asked'
    BY <2>1 DEF IInv, Listed, Candidates, Ready, LoadedIsFile, File, Asked, Requested
  <2> QED BY <2>2, <2>3 DEF IInv
<1>2. CASE \E p \in Procs : Step(p)
  BY <1>2, LoadAgainInv, ResolveInv, AskManifestInv, IndexInv, DownloadInv, PublishInv,
     LoadInv, RaiseInv, RestartInv DEF Step
<1> QED BY <1>1, <1>2 DEF Next

\* What the store's files, loads and memories hold is as listed, for any
\* processes, versions, packages and manifests.
THEOREM StoreInvariant == Spec => []IInv
<1> QED BY InitInv, NextInv, PTL DEF Spec

\* Nothing gets into the cache that is not listed and valid (_download_package).
THEOREM StoreVetted == Spec => []Vetted
<1>1. IInv => Vetted
  BY DEF IInv
<1> QED BY <1>1, StoreInvariant, PTL

\* All implicit loads of a process return one revision (load, _ensure_flagtune).
THEOREM StoreOneRevision == Spec => []OneRevision
<1>1. IInv => OneRevision
  BY DEF IInv, GivenIsKept, OneRevision
<1> QED BY <1>1, StoreInvariant, PTL

LEMMA InitRefines == Init => Store!Init
  BY DEF Init, Store!Init, Store!Unknown, Nothing, LoadedFromCache

\* The link registers a version; a load of a version that is not the user's learns it.
LEMMA StepRefines ==
  ASSUME IInv, IInv', NEW p \in Procs, Step(p)
  PROVE  [Store!Next]_<<cache, LoadedFromCache>>
<1>1. CASE Publish(p)
  <2>1. LoadedFromCache' = LoadedFromCache
    BY <1>1 DEF Publish, memory, LoadedFromCache
  <2>2. CASE cache[version[p]] = None /\ cache' = [cache EXCEPT ![version[p]] = digest[p]]
    <3>1. version[p] \in Versions /\ digest[p] \in Digests
      BY <1>1, Own DEF Publish
    <3>2. Store!Register(version[p], digest[p])
      BY <2>1, <2>2 DEF Store!Register
    <3> QED BY <3>1, <3>2 DEF Store!Next
  <2> QED BY <1>1, <2>1, <2>2 DEF Publish
<1>2. CASE Load(p)
  <2> DEFINE v == version[p]
  <2>1. v \in Versions /\ cache' = cache
    BY <1>2, Own DEF Load
  <2>2. CASE UNCHANGED loaded
    BY <2>1, <2>2 DEF LoadedFromCache
  <2>3. CASE loaded' = [loaded EXCEPT ![p][v] = File(p, v)] /\ File(p, v) # None
    <3>1. \A q \in Procs, w \in Versions :
            loaded'[q][w] = IF q = p /\ w = v THEN File(p, v) ELSE loaded[q][w]
      BY <2>1, <2>3, Types DEF Files
    <3>2. CASE User[p][v] # None
      <4>1. LoadedFromCache' = LoadedFromCache
        BY <3>1, <3>2 DEF LoadedFromCache
      <4> QED BY <2>1, <4>1
    <3>3. CASE User[p][v] = None
      <4>1. File(p, v) = cache[v] /\ cache[v] # None
        BY <2>3, <3>3 DEF File
      <4> DEFINE learned(q, w) == IF q = p /\ w = v THEN cache[v] ELSE LoadedFromCache[q][w]
      <4>2. LoadedFromCache' = [LoadedFromCache EXCEPT ![p][v] = cache[v]]
        <5>1. LoadedFromCache' = [q \in Procs |-> [w \in Versions |->
                                   IF User[q][w] = None THEN loaded'[q][w] ELSE None]]
          BY DEF LoadedFromCache
        <5>2. \A q \in Procs, w \in Versions :
                (IF User[q][w] = None THEN loaded'[q][w] ELSE None) = learned(q, w)
          BY <3>1, <3>3, <4>1 DEF LoadedFromCache
        <5>3. [LoadedFromCache EXCEPT ![p][v] = cache[v]]
                = [q \in Procs |-> [w \in Versions |-> learned(q, w)]]
          BY <2>1 DEF LoadedFromCache
        <5> HIDE DEF learned
        <5>4. [q \in Procs |-> [w \in Versions |->
                 IF User[q][w] = None THEN loaded'[q][w] ELSE None]]
                = [q \in Procs |-> [w \in Versions |-> learned(q, w)]]
          BY ONLY <5>2
        <5> QED BY ONLY <5>1, <5>3, <5>4, Zenon
      <4>3. Store!Learn(p, v)
        BY <2>1, <4>1, <4>2 DEF Store!Learn
      <4> QED BY <2>1, <4>3 DEF Store!Next
    <3> QED BY <3>2, <3>3
  <2> QED BY <1>2, <2>2, <2>3 DEF Load
<1>3. CASE Restart(p)
  <2>1. cache' = cache /\ loaded' = [loaded EXCEPT ![p] = Nothing]
    BY <1>3 DEF Restart
  <2>2. LoadedFromCache' = [LoadedFromCache EXCEPT ![p] = Store!Unknown]
    BY <2>1, Types DEF LoadedFromCache, Nothing, Store!Unknown
  <2>3. Store!Forget(p)
    BY <2>1, <2>2 DEF Store!Forget
  <2> QED BY <2>3 DEF Store!Next
<1>4. CASE UNCHANGED <<cache, loaded>>
  BY <1>4 DEF LoadedFromCache
<1> QED BY <1>1, <1>2, <1>3, <1>4
    DEF Step, LoadAgain, Resolve, AskManifest, Begin, Index, AlreadyCached, Request, Payload,
        Raise, memory

\* The cache is a write-once register of the versions' bytes, and what the
\* processes have loaded from it is what it holds (_publish_package_bytes).
THEOREM StoreImplementsRegistry == Spec => ImplementsRegistry
<1>1. IInv /\ IInv' /\ [Next]_vars => [Store!Next]_<<cache, LoadedFromCache>>
  <2> SUFFICES ASSUME IInv, IInv', [Next]_vars PROVE [Store!Next]_<<cache, LoadedFromCache>>
    OBVIOUS
  <2>1. CASE UNCHANGED vars
    BY <2>1 DEF vars, memory, LoadedFromCache
  <2> QED BY <2>1, StepRefines DEF Next
<1> QED BY <1>1, InitRefines, StoreInvariant, PTL DEF Spec, ImplementsRegistry, Store!Spec
=============================================================================
