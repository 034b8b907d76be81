-------------------------- MODULE FileCache_proofs --------------------------
(***************************************************************************)
(* Proofs about FileCache, for any number of processes and outputs,        *)
(* whichever of them store only the binary or always compile, and whether  *)
(* or not store_binary_only keeps the back end's binary: a group file and  *)
(* a process's list name only files that are there, the metadata among     *)
(* them once they are used, and the binary where it is stored.             *)
(***************************************************************************)
EXTENDS FileCache, TLAPS

LEMMA OutputFacts ==
  /\ Len(Outputs) \in Nat \ {0}
  /\ \A i \in 1 .. Len(Outputs) : Outputs[i] = Binary => i = Len(Outputs)
  /\ Binary \in Files
  /\ Meta \in Files
  /\ \A i \in 1 .. Len(Outputs) : Outputs[i] \in Files
<1>1. Len(Outputs) \in Nat \ {0}
  BY FilesAssumption
<1>2. \A i \in 1 .. Len(Outputs) : Outputs[i] \in Files
  BY DEF Files, OutputFiles
<1>3. Len(Outputs) \in 1 .. Len(Outputs)
  BY <1>1
<1>4. \A i \in 1 .. Len(Outputs) : Outputs[i] = Binary => i = Len(Outputs)
  BY <1>3, FilesAssumption DEF Binary
<1> QED BY <1>1, <1>2, <1>3, <1>4 DEF Binary, Files

LEMMA InitInv == Init => IInv
<1> SUFFICES ASSUME Init PROVE IInv
  OBVIOUS
<1>1. TypeOK
  BY OutputFacts DEF Init, TypeOK, Places, Contents
<1>2. GroupComplete
  BY DEF Init, GroupComplete
<1>3. LoadsSucceed /\ FilesListed
  BY DEF Init, LoadsSucceed, FilesListed, Lists
<1> QED BY <1>1, <1>2, <1>3 DEF IInv

\* Putting a file keeps every file that was there.
LEMMA PutKeeps ==
  ASSUME TypeOK, FilesListed, NEW p \in Procs, NEW f \in Files, PutFile(p, f)
  PROVE  /\ temp' \in [Procs -> {NoFile, Partial}]
         /\ disk' \in [Files -> Contents]
         /\ files' \in [Procs -> SUBSET Files]
         /\ \A g \in Files : disk[g] # NoFile => disk'[g] # NoFile
         /\ disk'[f] # NoFile
         /\ f \in files'[p]
         /\ \A q \in Procs : files[q] \subseteq files'[q]
         /\ \A q \in Procs : \A g \in files'[q] : disk'[g] # NoFile
<1> USE DEF TypeOK, PutFile, Rename, Contents
<1>1. disk' = [disk EXCEPT ![f] = p] /\ files' = [files EXCEPT ![p] = @ \cup {f}]
  OBVIOUS
<1>2. p # NoFile
  BY ContentsAssumption
<1>3. temp' \in [Procs -> {NoFile, Partial}] /\ disk' \in [Files -> Contents]
  OBVIOUS
<1>4. files' \in [Procs -> SUBSET Files]
  OBVIOUS
<1>5. (\A g \in Files : disk[g] # NoFile => disk'[g] # NoFile) /\ disk'[f] # NoFile
  BY <1>2
<1>6. f \in files'[p] /\ \A q \in Procs : files[q] \subseteq files'[q]
  OBVIOUS
<1>7. \A q \in Procs : \A g \in files'[q] : g \in files[q] \/ g = f
  OBVIOUS
<1>8. \A q \in Procs : \A g \in files[q] : g \in Files /\ disk[g] # NoFile
  BY DEF FilesListed, Lists
<1> QED BY <1>3, <1>4, <1>5, <1>6, <1>7, <1>8

\* A process that has got as far as a group stays there.
LEMMA LackStays ==
  ASSUME NEW p \in Procs, \A q \in Procs \ {p} : pc'[q] = pc[q],
         \/ pc[p] \in {"lookup", "outputs", "metadata", "group"}
         \/ pc'[p] \in {"load metadata", "load binary", "loaded", "broken"}
  PROVE  /\ \A q \in Procs : LeftOut(q) => LeftOut(q)'
         /\ \A q \in Procs : MayLackBinary(q) => MayLackBinary(q)'
<1>1. \A q \in Procs : LeftOut(q) => LeftOut(q)'
  BY DEF LeftOut, StoresBinary
<1>2. \A q \in Procs : MayLackBinary(q) => MayLackBinary(q)'
  BY <1>1 DEF MayLackBinary, StoresBinary
<1> QED BY <1>1, <1>2

LEMMA LookupInv == ASSUME IInv, NEW p \in Procs, Lookup(p) PROVE IInv'
<1> USE DEF IInv, Lookup, Goto
<1>1. FoundFiles \subseteq Files /\ \A f \in FoundFiles : disk[f] # NoFile
  BY DEF FoundFiles, TypeOK
<1>2. Meta \in FoundFiles /\ p \notin AlwaysCompile => Binary \in FoundFiles \/ MayLackBinary(p)
  BY DEF FoundFiles, GroupComplete, MayLackBinary
<1>3. /\ pc'[p] \in {"load metadata", "outputs"}
      /\ pc'[p] = "load metadata" => Meta \in FoundFiles /\ p \notin AlwaysCompile
      /\ \A q \in Procs \ {p} : pc'[q] = pc[q]
      /\ pc' \in [Procs -> Places]
  BY DEF TypeOK, Places, Begin
<1>4. /\ files' = [files EXCEPT ![p] = FoundFiles]
      /\ disk' = disk /\ group' = group /\ meta' = meta
  OBVIOUS
<1>10. files'[p] = FoundFiles /\ \A q \in Procs \ {p} : files'[q] = files[q]
  <2>1. files \in [Procs -> SUBSET Files]
    BY DEF TypeOK
  <2> HIDE DEF IInv
  <2> QED BY <2>1, <1>4
<1>5. overlap' \subseteq SUBSET Procs
  <2>1. \A q \in Compiling : {p, q} \in SUBSET Procs
    BY DEF Compiling
  <2>2. {{p, q} : q \in Compiling} \subseteq SUBSET Procs
    BY <2>1
  <2>3. overlap \subseteq SUBSET Procs
    BY DEF TypeOK
  <2> HIDE DEF IInv
  <2>4. CASE overlap' = overlap
    BY <2>3, <2>4
  <2>5. CASE overlap' = overlap \cup {{p, q} : q \in Compiling}
    BY <2>2, <2>3, <2>5
  <2>6. overlap' = overlap \/ overlap' = overlap \cup {{p, q} : q \in Compiling}
    BY DEF Begin
  <2> QED BY <2>4, <2>5, <2>6
<1>6. TypeOK'
  BY <1>1, <1>3, <1>5 DEF TypeOK
<1>11. /\ \A q \in Procs : LeftOut(q) => LeftOut(q)'
       /\ \A q \in Procs : MayLackBinary(q) => MayLackBinary(q)'
  BY <1>3, LackStays
<1>7. GroupComplete'
  BY <1>4, <1>11 DEF GroupComplete
<1>8. LoadsSucceed'
  BY <1>3, <1>4, <1>11 DEF LoadsSucceed
<1>9. FilesListed'
  <2> SUFFICES ASSUME NEW q \in Procs PROVE Lists(q)'
    BY <1>4 DEF FilesListed, Lists
  <2>1. CASE q = p
    <3> QED BY <2>1, <1>10, <1>1, <1>2, <1>3, <1>4, <1>11 DEF Lists
  <2>2. CASE q # p
    <3>1. files'[q] = files[q] /\ pc'[q] = pc[q]
      BY <2>2, <1>10, <1>3
    <3> QED BY <3>1, <1>4, <1>11 DEF FilesListed, Lists
  <2> QED BY <2>1, <2>2
<1> QED BY <1>6, <1>7, <1>8, <1>9

LEMMA PutOutputInv == ASSUME IInv, NEW p \in Procs, PutOutput(p) PROVE IInv'
<1> USE DEF IInv
<1>1. next[p] \in 1 .. Len(Outputs) /\ Outputs[next[p]] \in Files
  BY OutputFacts DEF TypeOK
<1>2. /\ \A g \in Files : disk[g] # NoFile => disk'[g] # NoFile
      /\ \A q \in Procs : files[q] \subseteq files'[q]
      /\ \A q \in Procs : \A g \in files'[q] : disk'[g] # NoFile
      /\ temp' \in [Procs -> {NoFile, Partial}]
      /\ disk' \in [Files -> Contents]
      /\ files' \in [Procs -> SUBSET Files]
  <2>1. CASE PutFile(p, Outputs[next[p]])
    BY <1>1, <2>1, PutKeeps
  <2>2. CASE UNCHANGED <<temp, disk, files>>
    BY <2>2 DEF TypeOK, FilesListed, Lists
  <2> QED BY <2>1, <2>2 DEF PutOutput
<1>3. /\ next' \in [Procs -> 1 .. Len(Outputs)]
      /\ pc' \in [Procs -> Places]
      /\ pc'[p] \in {"outputs", "metadata"}
      /\ \A q \in Procs \ {p} : pc'[q] = pc[q]
  <2>1. CASE next[p] < Len(Outputs)
    <3>1. next[p] + 1 \in 1 .. Len(Outputs)
      BY <1>1, <2>1, OutputFacts
    <3>2. next' = [next EXCEPT ![p] = next[p] + 1] /\ pc' = pc /\ pc[p] = "outputs"
      BY <2>1 DEF PutOutput
    <3>3. next' \in [Procs -> 1 .. Len(Outputs)]
      BY <3>1, <3>2 DEF TypeOK
    <3> QED BY <3>2, <3>3 DEF TypeOK
  <2>2. CASE ~(next[p] < Len(Outputs))
    BY <2>2 DEF PutOutput, TypeOK, Goto, Places
  <2> QED BY <2>1, <2>2
<1>4. pc'[p] = "metadata" /\ StoresBinary(p) => Binary \in files'[p]
  <2> SUFFICES ASSUME pc'[p] = "metadata", StoresBinary(p) PROVE Binary \in files'[p]
    OBVIOUS
  <2>1. ~(next[p] < Len(Outputs))
    BY DEF PutOutput, TypeOK
  <2>2. next[p] = Len(Outputs)
    BY <1>1, <2>1, OutputFacts
  <2>3. PutFile(p, Binary)
    BY <2>2 DEF PutOutput, Stored, StoresBinary, Binary
  <2> QED BY <2>3, OutputFacts, PutKeeps
<1>5. group' = group /\ meta' = meta /\ binary' = binary /\ overlap' = overlap
  BY DEF PutOutput
<1>6. TypeOK'
  BY <1>2, <1>3, <1>5 DEF TypeOK
<1>10. /\ \A q \in Procs : LeftOut(q) => LeftOut(q)'
       /\ \A q \in Procs : MayLackBinary(q) => MayLackBinary(q)'
  BY <1>3, LackStays DEF PutOutput
<1>7. GroupComplete'
  <2> SUFFICES ASSUME group # NoFile
               PROVE  \A f \in group : disk'[f] # NoFile
    BY <1>5, <1>10 DEF GroupComplete
  <2>1. group \subseteq Files
    BY DEF TypeOK
  <2> QED BY <2>1, <1>2 DEF GroupComplete
<1>8. LoadsSucceed'
  BY <1>3, <1>5, <1>10 DEF LoadsSucceed
<1>9. FilesListed'
  <2>1. \A q \in Procs \ {p} : pc'[q] = pc[q] /\ files[q] \subseteq files'[q]
    BY <1>2, <1>3
  <2> QED BY <2>1, <1>2, <1>3, <1>4, <1>5, <1>10 DEF FilesListed, Lists
<1> QED BY <1>6, <1>7, <1>8, <1>9

LEMMA PutMetadataInv == ASSUME IInv, NEW p \in Procs, PutMetadata(p) PROVE IInv'
<1> USE DEF IInv
<1>1. PutFile(p, Meta) /\ Meta \in Files
  BY OutputFacts DEF PutMetadata
<1>2. /\ \A g \in Files : disk[g] # NoFile => disk'[g] # NoFile
      /\ \A q \in Procs : files[q] \subseteq files'[q]
      /\ \A q \in Procs : \A g \in files'[q] : disk'[g] # NoFile
      /\ Meta \in files'[p]
      /\ temp' \in [Procs -> {NoFile, Partial}]
      /\ disk' \in [Files -> Contents]
      /\ files' \in [Procs -> SUBSET Files]
  BY <1>1, PutKeeps
<1>3. /\ pc' \in [Procs -> Places]
      /\ pc[p] = "metadata" /\ pc'[p] = "group"
      /\ \A q \in Procs \ {p} : pc'[q] = pc[q]
  BY DEF PutMetadata, TypeOK, Goto, Places
<1>4. next' = next /\ group' = group /\ meta' = meta /\ binary' = binary /\ overlap' = overlap
  BY DEF PutMetadata
<1>5. TypeOK'
  BY <1>2, <1>3, <1>4 DEF TypeOK
<1>9. /\ \A q \in Procs : LeftOut(q) => LeftOut(q)'
      /\ \A q \in Procs : MayLackBinary(q) => MayLackBinary(q)'
  BY <1>3, LackStays
<1>6. GroupComplete'
  <2> SUFFICES ASSUME group # NoFile
               PROVE  \A f \in group : disk'[f] # NoFile
    BY <1>4, <1>9 DEF GroupComplete
  <2>1. group \subseteq Files
    BY DEF TypeOK
  <2> QED BY <2>1, <1>2 DEF GroupComplete
<1>7. LoadsSucceed'
  BY <1>3, <1>4, <1>9 DEF LoadsSucceed
<1>8. FilesListed'
  <2>1. \A q \in Procs \ {p} : pc'[q] = pc[q] /\ files[q] \subseteq files'[q]
    BY <1>2, <1>3
  <2>2. StoresBinary(p) => Binary \in files'[p]
    BY <1>2, <1>3 DEF FilesListed, Lists
  <2> QED BY <2>1, <2>2, <1>2, <1>3, <1>4, <1>9 DEF FilesListed, Lists
<1> QED BY <1>5, <1>6, <1>7, <1>8

LEMMA PutGroupInv == ASSUME IInv, NEW p \in Procs, PutGroup(p) PROVE IInv'
<1> USE DEF IInv, PutGroup, Goto, Rename
<1>1. TypeOK'
  BY DEF TypeOK, Places
<1>6. /\ pc[p] = "group" /\ pc'[p] = "load metadata"
      /\ \A q \in Procs \ {p} : pc'[q] = pc[q]
  BY DEF TypeOK
<1>7. /\ \A q \in Procs : LeftOut(q) => LeftOut(q)'
      /\ \A q \in Procs : MayLackBinary(q) => MayLackBinary(q)'
  BY <1>6, LackStays
<1>8. Binary \in files[p] \/ LeftOut(p)'
  BY <1>6 DEF FilesListed, Lists, LeftOut, StoresBinary
<1>2. GroupComplete'
  <2>1. group' = files[p] /\ disk' = disk
    OBVIOUS
  <2>2. Meta \in files[p] /\ \A f \in files[p] : disk[f] # NoFile
    BY <1>6 DEF FilesListed, Lists
  <2> QED BY <2>1, <2>2, <1>8 DEF GroupComplete
<1>3. LoadsSucceed'
  BY <1>6, <1>7 DEF LoadsSucceed
<1>4. Binary \in files[p] \/ MayLackBinary(p)
  BY <1>6 DEF FilesListed, Lists, MayLackBinary
<1>5. FilesListed'
  <2>1. files' = files /\ disk' = disk /\ meta' = meta
    OBVIOUS
  <2>2. \A q \in Procs : Lists(q)
    BY DEF FilesListed
  <2> HIDE DEF IInv, PutGroup, Goto, Rename
  <2>3. ASSUME NEW q \in Procs \ {p} PROVE Lists(q)'
    BY <1>6, <1>7, <2>1, <2>2 DEF Lists, StoresBinary
  <2>4. Lists(p)'
    BY <1>4, <1>6, <1>7, <2>1, <2>2 DEF Lists, StoresBinary
  <2> QED BY <2>3, <2>4 DEF FilesListed
<1> QED BY <1>1, <1>2, <1>3, <1>5

\* A step that only moves one process, and leaves files and lists alone.
LEMMA MoveInv ==
  ASSUME IInv, NEW p \in Procs, NEW l \in Places, Goto(p, l),
         UNCHANGED <<disk, group, files>>,
         \A q \in Procs \ {p} : meta'[q] = meta[q],
         l \in {"load binary", "loaded", "stopped", "broken"},
         l \in {"load binary", "broken"} => meta'[p] # NoFile,
         l = "load binary" => Meta \in files[p] /\ (Binary \in files[p] \/ MayLackBinary(p)),
         l = "broken" => MayLackBinary(p),
         l = "stopped" => p \in Compiling
  PROVE  /\ pc' \in [Procs -> Places]
         /\ GroupComplete' /\ LoadsSucceed' /\ FilesListed'
<1> USE DEF IInv, Goto
<1>1. pc' \in [Procs -> Places] /\ pc'[p] = l /\ \A q \in Procs \ {p} : pc'[q] = pc[q]
  BY DEF TypeOK
<1>4. /\ \A q \in Procs : LeftOut(q) => LeftOut(q)'
      /\ \A q \in Procs : MayLackBinary(q) => MayLackBinary(q)'
  BY <1>1, LackStays DEF Compiling
<1>2. GroupComplete' /\ LoadsSucceed'
  BY <1>1, <1>4 DEF GroupComplete, LoadsSucceed
<1>3. FilesListed'
  <2>1. \A q \in Procs : Lists(q)
    BY DEF FilesListed
  <2> HIDE DEF IInv, Goto
  <2>2. ASSUME NEW q \in Procs \ {p} PROVE Lists(q)'
    BY <1>1, <1>4, <2>1 DEF Lists, StoresBinary
  <2>3. Lists(p)'
    BY <1>1, <1>4, <2>1 DEF Lists, StoresBinary
  <2> QED BY <2>2, <2>3 DEF FilesListed
<1> QED BY <1>1, <1>2, <1>3

\* A file that was taken from the cache is there, and whole.
LEMMA ReadsWhole ==
  ASSUME IInv, NEW p \in Procs, NEW f \in Files, f \in files[p]
  PROVE  Read(p, f) \in Procs
<1>1. disk[f] \in Contents /\ disk[f] # NoFile
  BY DEF IInv, FilesListed, Lists, TypeOK
<1> QED BY <1>1 DEF Read, Contents

LEMMA LoadInv ==
  ASSUME IInv, NEW p \in Procs, LoadMetadata(p) \/ LoadBinary(p)
  PROVE  IInv'
<1> USE DEF IInv
<1>1. CASE LoadMetadata(p)
  <2>1. Meta \in files[p] /\ (Binary \in files[p] \/ MayLackBinary(p))
    BY <1>1 DEF LoadMetadata, FilesListed, Lists
  <2>2. Read(p, Meta) \in Procs
    BY <2>1, OutputFacts, ReadsWhole
  <2>3. Goto(p, "load binary") /\ UNCHANGED <<next, temp, disk, group, files, binary, overlap>>
    BY <1>1, <2>2 DEF LoadMetadata
  <2>4. /\ meta' \in [Procs -> Contents] /\ meta'[p] # NoFile
        /\ \A q \in Procs \ {p} : meta'[q] = meta[q]
    <3>1. meta' = [meta EXCEPT ![p] = Read(p, Meta)] /\ meta \in [Procs -> Contents]
      BY <1>1 DEF LoadMetadata, TypeOK
    <3>2. Read(p, Meta) \in Contents /\ Read(p, Meta) # NoFile
      BY <2>2, ContentsAssumption DEF Contents
    <3> HIDE DEF IInv
    <3> QED BY <3>1, <3>2
  <2>5. pc' \in [Procs -> Places] /\ GroupComplete' /\ LoadsSucceed' /\ FilesListed'
    BY <2>1, <2>3, <2>4, MoveInv DEF Places
  <2> QED BY <2>3, <2>4, <2>5 DEF TypeOK
<1>2. CASE LoadBinary(p)
  <2>1. (Binary \in files[p] \/ MayLackBinary(p)) /\ meta[p] # NoFile
    BY <1>2 DEF LoadBinary, FilesListed, Lists
  <2>2. Binary \in files[p] => Read(p, Binary) \in Procs
    BY OutputFacts, ReadsWhole
  <2>3. /\ UNCHANGED <<next, temp, disk, group, files, meta, overlap>>
        /\ Goto(p, "loaded") \/ (Goto(p, "broken") /\ MayLackBinary(p))
    BY <1>2, <2>1, <2>2 DEF LoadBinary
  <2>4. binary' \in [Procs -> Contents]
    <3>1. Read(p, Binary) \in Contents
      BY <2>2 DEF Read, Contents
    <3> QED BY <1>2, <3>1 DEF LoadBinary, TypeOK
  <2>5. CASE Goto(p, "loaded")
    <3>1. pc' \in [Procs -> Places] /\ GroupComplete' /\ LoadsSucceed' /\ FilesListed'
      BY <2>3, <2>5, MoveInv DEF Places
    <3> QED BY <2>3, <2>4, <3>1 DEF TypeOK
  <2>6. CASE Goto(p, "broken") /\ MayLackBinary(p)
    <3>1. pc' \in [Procs -> Places] /\ GroupComplete' /\ LoadsSucceed' /\ FilesListed'
      BY <2>1, <2>3, <2>6, MoveInv DEF Places
    <3> QED BY <2>3, <2>4, <3>1 DEF TypeOK
  <2> QED BY <2>3, <2>5, <2>6
<1> QED BY <1>1, <1>2

LEMMA NextInv == IInv /\ [Next]_vars => IInv'
<1> SUFFICES ASSUME IInv, [Next]_vars PROVE IInv'
  OBVIOUS
<1>1. CASE UNCHANGED vars
  <2>1. /\ \A q \in Procs : LeftOut(q) <=> LeftOut(q)'
        /\ \A q \in Procs : MayLackBinary(q) <=> MayLackBinary(q)'
    BY <1>1 DEF vars, LeftOut, MayLackBinary, StoresBinary
  <2> QED BY <1>1, <2>1 DEF vars, IInv, TypeOK, GroupComplete, LoadsSucceed, FilesListed, Lists
<1>2. ASSUME NEW p \in Procs, Lookup(p) PROVE IInv'
  BY <1>2, LookupInv
<1>3. ASSUME NEW p \in Procs, Write(p) PROVE IInv'
  <2>1. temp' \in [Procs -> {NoFile, Partial}]
    BY <1>3 DEF Write, IInv, TypeOK
  <2>2. /\ \A q \in Procs : LeftOut(q) <=> LeftOut(q)'
        /\ \A q \in Procs : MayLackBinary(q) <=> MayLackBinary(q)'
    BY <1>3 DEF Write, LeftOut, MayLackBinary, StoresBinary
  <2> QED BY <1>3, <2>1, <2>2 DEF Write, IInv, TypeOK, GroupComplete, LoadsSucceed, FilesListed, Lists
<1>4. ASSUME NEW p \in Procs, PutOutput(p) PROVE IInv'
  BY <1>4, PutOutputInv
<1>5. ASSUME NEW p \in Procs, PutMetadata(p) PROVE IInv'
  BY <1>5, PutMetadataInv
<1>6. ASSUME NEW p \in Procs, PutGroup(p) PROVE IInv'
  BY <1>6, PutGroupInv
<1>7. ASSUME NEW p \in Procs, LoadMetadata(p) \/ LoadBinary(p) PROVE IInv'
  BY <1>7, LoadInv
<1>8. ASSUME NEW p \in Procs, Stop(p) PROVE IInv'
  <2>1. /\ Goto(p, "stopped") /\ p \in Compiling
        /\ UNCHANGED <<next, temp, disk, group, files, meta, binary, overlap>>
    BY <1>8 DEF Stop
  <2>2. pc' \in [Procs -> Places] /\ GroupComplete' /\ LoadsSucceed' /\ FilesListed'
    BY <2>1, MoveInv DEF Places
  <2> QED BY <2>1, <2>2 DEF IInv, TypeOK
<1> QED BY <1>1, <1>2, <1>3, <1>4, <1>5, <1>6, <1>7, <1>8 DEF Next, Step, Terminated

\* The inductive invariant holds: what a process lists, and what the group file
\* lists, is there.
THEOREM InvariantHolds == Spec => []IInv
<1>1. Init => IInv
  BY InitInv
<1>2. IInv /\ [Next]_vars => IInv'
  BY NextInv
<1> QED BY <1>1, <1>2, PTL DEF Spec

\* The types hold; in particular no file has its name while it is being written.
THEOREM TypeCorrect == Spec => []TypeOK
<1>1. IInv => TypeOK
  BY DEF IInv
<1> QED BY <1>1, InvariantHolds, PTL

\* What compile() takes for a hit has its metadata and all its files, whoever
\* died while writing, and its binary unless a process that leaves its own out has
\* got as far as a group.
THEOREM GroupsAreComplete == Spec => []GroupComplete
<1>1. IInv => GroupComplete
  BY DEF IInv
<1> QED BY <1>1, InvariantHolds, PTL

\* CompiledKernel finds the metadata always, and misses the binary only in a
\* process that leaves it out, or that is told of a hit after such a process.
THEOREM OnlyBinariesMissed == Spec => []LoadsSucceed
<1>1. IInv => LoadsSucceed
  BY DEF IInv
<1> QED BY <1>1, InvariantHolds, PTL

\* Where no process leaves its binary out, because none stores the binary only
\* or because the binary has one of the extensions that are kept, CompiledKernel
\* finds every file it needs, after a hit and after a compilation.
THEOREM KeptBinariesLoad ==
  ASSUME \A p \in Procs : StoresBinary(p)
  PROVE  Spec => []HandleReturned
<1>1. IInv => HandleReturned
  BY DEF IInv, LoadsSucceed, MayLackBinary, LeftOut, HandleReturned
<1> QED BY <1>1, InvariantHolds, PTL

----------------------------------------------------------------------------
(***************************************************************************)
(* MixedOnlyByOverlap.  Chained(x, y) is used through the sets of processes *)
(* that are closed under overlapping.                                      *)
(***************************************************************************)
LEMMA LinkedStays ==
  ASSUME NEW S \in SUBSET Procs, Closed(S), NEW x, NEW y, Linked(x, y)
  PROVE  x \in S <=> y \in S
<1>1. CASE x = y
  BY <1>1
<1>2. CASE {x, y} \in overlap
  <2>1. {x, y} \cap S = {} \/ {x, y} \subseteq S
    BY <1>2 DEF Closed
  <2> QED BY <2>1
<1> QED BY <1>1, <1>2 DEF Linked

LEMMA InitMix == Init => MixInv
<1> SUFFICES ASSUME Init PROVE MixInv
  OBVIOUS
<1>1. \A p \in Procs : pc[p] = "lookup"
  BY DEF Init
<1>2. CompilersLinked /\ MixedOnlyByOverlap
  BY <1>1 DEF CompilersLinked, Compiling, MixedOnlyByOverlap
<1>3. FirstListers /\ MetaChained
  BY <1>1 DEF Init, FirstListers, Listing, MetaChained
<1> QED BY <1>2, <1>3 DEF MixInv

\* A kernel that is loaded stays the one it was.
LEMMA LoadedStays ==
  ASSUME MixInv, overlap \subseteq overlap',
         \A p \in Procs : pc'[p] = "loaded" =>
           pc[p] = "loaded" /\ meta'[p] = meta[p] /\ binary'[p] = binary[p]
  PROVE  MixedOnlyByOverlap'
<1> SUFFICES ASSUME NEW p \in Procs, pc'[p] = "loaded", ~Unpaired(meta'[p], binary'[p]),
                    NEW S \in SUBSET Procs, meta'[p] \in S, Closed(S)'
             PROVE  binary'[p] \in S
  BY DEF MixedOnlyByOverlap, Chained, Unpaired
<1>1. Closed(S)
  BY DEF Closed
<1>2. Chained(meta[p], binary[p])
  BY DEF MixInv, MixedOnlyByOverlap
<1> QED BY <1>1, <1>2 DEF Chained

\* A step that puts no file and starts no compilation.
LEMMA QuietStep ==
  ASSUME MixInv, disk' = disk, overlap' = overlap, group' = group,
         \A q \in Procs : pc'[q] \in {"outputs", "metadata", "group"} =>
           /\ pc[q] \in {"outputs", "metadata", "group"}
           /\ pc'[q] = pc[q] \/ (pc'[q] # "group" /\ (pc'[q] = "metadata" => ~StoresBinary(q))),
         LiveMeta' \subseteq LiveMeta,
         BinaryListed' => BinaryListed
  PROVE  CompilersLinked' /\ MetaChained'
<1>1. Compiling' \subseteq Compiling
  BY DEF Compiling
<1>2. CompilersLinked'
  BY <1>1 DEF MixInv, CompilersLinked, Compiling, Linked, StoresBinary
<1>3. ASSUME NEW m \in LiveMeta, group # NoFile
      PROVE  /\ \A q \in Compiling' \ AlwaysCompile : Chained(m, q)'
             /\ BinaryListed =>
                  Chained(m, disk[Binary])' \/ Unpaired(m, disk[Binary])
  BY <1>1, <1>3 DEF MixInv, MetaChained, Chained, Closed
<1>4. ASSUME NEW q \in Compiling' \ AlwaysCompile, group # NoFile, BinaryListed
      PROVE  Chained(q, disk[Binary])' \/ disk[Binary] \in AlwaysCompile
  BY <1>1, <1>4 DEF MixInv, MetaChained, Chained, Closed
<1>5. MetaChained'
  BY <1>3, <1>4 DEF MetaChained, Unpaired, StoresBinary
<1> QED BY <1>2, <1>5

\* As long as no file is listed that was not, and nobody comes to list it.
LEMMA ListedStays ==
  ASSUME IInv, group' = group,
         \A q \in Procs : q \in Listing' => q \in Listing \/ (group # NoFile /\ Binary \in group)
  PROVE  BinaryListed' => BinaryListed
<1>1. \A q \in Listing' : q \in Procs
  BY DEF Listing
<1> QED BY <1>1 DEF BinaryListed

LEMMA LookupMix == ASSUME IInv, MixInv, NEW p \in Procs, Lookup(p) PROVE MixInv'
<1>1. /\ pc[p] = "lookup" /\ pc' = [pc EXCEPT ![p] = pc'[p]]
      /\ disk' = disk /\ group' = group /\ meta' = meta /\ binary' = binary
      /\ pc'[p] \in {"load metadata", "outputs"}
      /\ files'[p] = FoundFiles /\ \A q \in Procs \ {p} : files'[q] = files[q]
  BY DEF Lookup, Begin, Goto, IInv, TypeOK
<1>2. overlap \subseteq overlap' /\ \A q \in Procs \ {p} : pc'[q] = pc[q]
  BY <1>1 DEF Lookup, Begin, IInv, TypeOK
<1>3. LiveMeta' = LiveMeta
  <2>1. pc[p] # "load binary" /\ pc'[p] # "load binary"
    BY <1>1
  <2>2. ASSUME NEW q \in Procs PROVE pc'[q] = "load binary" <=> pc[q] = "load binary"
    BY <1>2, <2>1
  <2>3. {q \in Procs : pc'[q] = "load binary"} = {q \in Procs : pc[q] = "load binary"}
    BY <2>2
  <2> QED BY <1>1, <2>3 DEF LiveMeta
<1>4. MixedOnlyByOverlap'
  BY <1>1, <1>2, LoadedStays
<1>5. Binary \in FoundFiles => group # NoFile /\ Binary \in group
  BY DEF FoundFiles
<1>6. \A q \in Procs : q \in Listing' => q \in Listing \/ (q = p /\ Binary \in FoundFiles)
  BY <1>1, <1>2 DEF Listing
<1>7. BinaryListed' => BinaryListed
  BY <1>1, <1>5, <1>6, ListedStays
<1>8. CASE pc'[p] = "load metadata"
  <2>1. ~Begin(p)
    BY <1>8 DEF Begin, Goto, IInv, TypeOK
  <2>2. overlap' = overlap /\ Meta \in FoundFiles
    BY <2>1 DEF Lookup
  <2>3. group # NoFile
    BY <2>2 DEF FoundFiles
  <2>4. CompilersLinked' /\ MetaChained'
    BY <2>2, <1>1, <1>2, <1>3, <1>7, <1>8, QuietStep
  <2>5. FirstListers'
    BY <2>3, <1>1 DEF FirstListers
  <2> QED BY <2>4, <2>5, <1>4 DEF MixInv
<1>9. CASE pc'[p] = "outputs"
  <2>1. overlap' = overlap \cup {{p, q} : q \in Compiling}
    BY <1>9, <1>1 DEF Lookup, Begin, Goto, IInv, TypeOK
  <2>2. Compiling' = Compiling \cup {p}
    BY <1>9, <1>1, <1>2 DEF Compiling
  <2>3. group # NoFile => p \in AlwaysCompile
    <3>1. group # NoFile => Meta \in FoundFiles
      BY DEF IInv, GroupComplete, FoundFiles
    <3>2. Meta \in FoundFiles /\ p \notin AlwaysCompile => pc'[p] = "load metadata"
      BY DEF Lookup, Goto, IInv, TypeOK
    <3> QED BY <3>1, <3>2, <1>9
  <2>4. CompilersLinked'
    <3>1. \A q, r \in Compiling : Linked(q, r)'
      BY <1>2 DEF MixInv, CompilersLinked, Linked
    <3>2. \A q \in Compiling : Linked(p, q)' /\ Linked(q, p)'
      <4> TAKE q \in Compiling
      <4>1. {p, q} \in overlap' /\ {q, p} = {p, q}
        BY <2>1
      <4> QED BY <4>1 DEF Linked
    <3>3. Linked(p, p)'
      BY DEF Linked
    <3>4. \A q \in Compiling' : pc'[q] \in {"metadata", "group"} => q \in Compiling /\ pc'[q] = pc[q]
      BY <1>2, <1>9, <2>2 DEF Compiling
    <3>5. \A q \in Compiling' :
            /\ pc'[q] \in {"metadata", "group"} /\ StoresBinary(q) => Linked(disk[Binary], q)'
            /\ pc'[q] = "group" => Linked(disk[Meta], q)'
      BY <3>4, <1>1, <1>2 DEF MixInv, CompilersLinked, Linked
    <3> QED BY <2>2, <3>1, <3>2, <3>3, <3>5 DEF CompilersLinked, StoresBinary
  <2>5. FirstListers'
    BY <1>1, <1>2, <1>5, <1>6, <1>9 DEF MixInv, FirstListers, StoresBinary
  <2>6. MetaChained'
    <3>1. \A S : Closed(S)' => Closed(S)
      BY <1>2 DEF Closed
    <3>2. group # NoFile => Compiling' \ AlwaysCompile = Compiling \ AlwaysCompile
      BY <2>2, <2>3
    <3>3. ASSUME NEW x, NEW y, Chained(x, y) PROVE Chained(x, y)'
      BY <3>1, <3>3 DEF Chained
    <3>4. ASSUME group # NoFile, NEW m \in LiveMeta, NEW q \in Compiling \ AlwaysCompile
          PROVE  Chained(m, q)'
      BY <3>3, <3>4 DEF MixInv, MetaChained
    <3>5. ASSUME group # NoFile, BinaryListed, NEW m \in LiveMeta
          PROVE  Chained(m, disk[Binary])' \/ Unpaired(m, disk[Binary])
      <4>1. Chained(m, disk[Binary]) \/ Unpaired(m, disk[Binary])
        BY <3>5 DEF MixInv, MetaChained
      <4>2. disk'[Binary] = disk[Binary]
        BY <1>1
      <4> QED BY <4>1, <4>2, <3>1 DEF Chained
    <3>6. ASSUME group # NoFile, BinaryListed, NEW q \in Compiling \ AlwaysCompile
          PROVE  Chained(q, disk[Binary])' \/ disk[Binary] \in AlwaysCompile
      <4>1. Chained(q, disk[Binary]) \/ disk[Binary] \in AlwaysCompile
        BY <3>6 DEF MixInv, MetaChained
      <4>2. disk'[Binary] = disk[Binary]
        BY <1>1
      <4> QED BY <4>1, <4>2, <3>1 DEF Chained
    <3> QED BY <3>2, <3>4, <3>5, <3>6, <1>1, <1>3, <1>7 DEF MetaChained, Unpaired, StoresBinary
  <2> QED BY <1>4, <2>4, <2>5, <2>6 DEF MixInv
<1> QED BY <1>1, <1>8, <1>9

\* Putting a file: an output, the binary last of them, or then the metadata.
LEMMA PutMix ==
  ASSUME IInv, MixInv, NEW p \in Compiling, NEW f \in Files,
         disk' = [disk EXCEPT ![f] = p],
         files' = [files EXCEPT ![p] = @ \cup {f}],
         overlap' = overlap, group' = group, meta' = meta, binary' = binary,
         \A q \in Procs \ {p} : pc'[q] = pc[q],
         \/ /\ f # Meta /\ pc[p] = "outputs"
            /\ IF f = Binary THEN pc'[p] = "metadata" /\ StoresBinary(p) ELSE pc'[p] = "outputs"
         \/ f = Meta /\ pc[p] = "metadata" /\ pc'[p] = "group"
  PROVE  MixInv'
<1>1. Meta # Binary /\ Meta \in Files /\ Binary \in Files
  BY OutputFacts, FilesAssumption DEF Binary, OutputFiles
<1>2. Compiling' = Compiling /\ Compiling \subseteq Procs
  BY DEF Compiling
<1>3. disk' \in [Files -> Contents] /\ \A g \in Files : disk'[g] = IF g = f THEN p ELSE disk[g]
  BY <1>2 DEF IInv, TypeOK, Contents
<1>4. \A q \in Compiling : Linked(p, q) /\ Linked(q, p)
  BY DEF MixInv, CompilersLinked
<1>5. CompilersLinked'
  <2> SUFFICES ASSUME NEW q \in Compiling
               PROVE  /\ \A r \in Compiling : Linked(q, r)
                      /\ pc'[q] \in {"metadata", "group"} /\ StoresBinary(q) => Linked(disk'[Binary], q)
                      /\ pc'[q] = "group" => Linked(disk'[Meta], q)
    BY <1>2 DEF CompilersLinked, Linked, StoresBinary
  <2>1. \A r \in Compiling : Linked(q, r)
    BY DEF MixInv, CompilersLinked
  <2>2. pc'[q] \in {"metadata", "group"} /\ StoresBinary(q) => Linked(disk'[Binary], q)
    <3>1. CASE f = Binary
      BY <3>1, <1>1, <1>3, <1>4
    <3>2. CASE f # Binary
      <4>1. pc'[q] \in {"metadata", "group"} => pc[q] \in {"metadata", "group"}
        BY <3>2, <1>2
      <4> QED BY <4>1, <3>2, <1>1, <1>3 DEF MixInv, CompilersLinked
    <3> QED BY <3>1, <3>2
  <2>3. pc'[q] = "group" => Linked(disk'[Meta], q)
    <3>1. CASE f = Meta
      BY <3>1, <1>1, <1>3, <1>4
    <3>2. CASE f # Meta
      BY <3>2, <1>1, <1>2, <1>3 DEF MixInv, CompilersLinked
    <3> QED BY <3>1, <3>2
  <2> QED BY <2>1, <2>2, <2>3
<1>6. \A q \in Procs : q \in Listing' => q \in Listing \/ (q = p /\ f = Binary)
  <2> SUFFICES ASSUME NEW q \in Procs, q \in Listing' PROVE q \in Listing \/ (q = p /\ f = Binary)
    OBVIOUS
  <2>1. CASE q = p
    <3>1. files'[p] = files[p] \cup {f}
      BY <1>2 DEF IInv, TypeOK
    <3> QED BY <2>1, <3>1 DEF Listing
  <2>2. CASE q # p
    <3>1. files'[q] = files[q] /\ pc'[q] = pc[q]
      BY <2>2 DEF IInv, TypeOK
    <3> QED BY <3>1 DEF Listing
  <2> QED BY <2>1, <2>2
<1>7. FirstListers'
  <2> SUFFICES ASSUME group = NoFile, NEW q \in Procs
               PROVE  /\ pc'[q] \notin {"load metadata", "load binary"}
                      /\ q \in Listing' => pc'[q] \in {"metadata", "group"} /\ StoresBinary(q)
    BY DEF FirstListers, StoresBinary
  <2>1. /\ pc[q] \notin {"load metadata", "load binary"}
        /\ q \in Listing => pc[q] \in {"metadata", "group"} /\ StoresBinary(q)
    BY DEF MixInv, FirstListers
  <2>2. CASE q \in Listing
    <3>1. q # p \/ (pc[p] = "metadata" /\ pc'[p] = "group")
      BY <2>1, <2>2
    <3> QED BY <2>1, <2>2, <3>1
  <2>3. CASE q = p /\ f = Binary
    BY <2>3, <1>1
  <2>4. CASE q \notin Listing'
    <3>1. pc'[q] = pc[q] \/ pc'[q] \in {"outputs", "metadata", "group"}
      OBVIOUS
    <3> QED BY <2>1, <2>4, <3>1
  <2> QED BY <2>2, <2>3, <2>4, <1>6
<1>8. ASSUME NEW m \in LiveMeta'
      PROVE  m \in LiveMeta \/ (f = Meta /\ m = p)
  <2>1. CASE m = disk'[Meta]
    BY <2>1, <1>1, <1>3 DEF LiveMeta
  <2>2. CASE \E q \in Procs : pc'[q] = "load binary" /\ m = meta'[q]
    <3>1. PICK q \in Procs : pc'[q] = "load binary" /\ m = meta'[q]
      BY <2>2
    <3>2. q # p
      BY <3>1
    <3>3. pc[q] = "load binary" /\ m = meta[q]
      BY <3>1, <3>2
    <3> QED BY <3>3 DEF LiveMeta
  <2> QED BY <1>8, <2>1, <2>2 DEF LiveMeta
<1>9. ASSUME group # NoFile, NEW m \in LiveMeta', NEW q \in Compiling \ AlwaysCompile
      PROVE  Chained(m, q)
  <2>1. CASE m \in LiveMeta
    BY <1>9, <2>1 DEF MixInv, MetaChained
  <2>2. CASE m = p
    BY <2>2, <1>4, LinkedStays DEF Chained
  <2> QED BY <2>1, <2>2, <1>8, <1>9
<1>10. ASSUME group # NoFile, BinaryListed', NEW S \in SUBSET Procs, Closed(S)
       PROVE  /\ \A m \in LiveMeta' : m \in S => disk'[Binary] \in S \/ Unpaired(m, disk'[Binary])
              /\ \A q \in Compiling \ AlwaysCompile :
                   q \in S => disk'[Binary] \in S \/ disk'[Binary] \in AlwaysCompile
  <2>1. CASE f = Binary
    <3>1. disk'[Binary] = p /\ LiveMeta' \subseteq LiveMeta
      BY <2>1, <1>1, <1>3, <1>8
    <3>2. ASSUME NEW m \in LiveMeta', m \in S PROVE p \in S \/ Unpaired(m, p)
      <4>1. CASE p \in AlwaysCompile
        BY <4>1 DEF Unpaired
      <4>2. CASE p \notin AlwaysCompile
        <5>1. Chained(m, p)
          BY <4>2, <1>9, <1>10
        <5> QED BY <5>1, <3>2, <1>10 DEF Chained
      <4> QED BY <4>1, <4>2
    <3>3. ASSUME NEW q \in Compiling, q \in S PROVE p \in S
      BY <3>3, <1>4, <1>10, LinkedStays
    <3> QED BY <3>1, <3>2, <3>3
  <2>2. CASE f # Binary
    <3>1. disk'[Binary] = disk[Binary]
      BY <2>2, <1>1, <1>3
    <3>2. BinaryListed
      BY <2>2, <1>6, <1>10, ListedStays
    <3>3. ASSUME NEW q \in Compiling \ AlwaysCompile, q \in S
          PROVE  disk[Binary] \in S \/ disk[Binary] \in AlwaysCompile
      BY <3>2, <3>3, <1>10 DEF MixInv, MetaChained, Chained
    <3>4. ASSUME NEW m \in LiveMeta', m \in S
          PROVE  disk[Binary] \in S \/ Unpaired(m, disk[Binary])
      <4>1. CASE m \in LiveMeta
        BY <4>1, <3>2, <3>4, <1>10 DEF MixInv, MetaChained, Chained
      <4>2. CASE m = p /\ p \notin AlwaysCompile
        BY <4>2, <3>3, <3>4 DEF Unpaired
      <4>3. CASE m = p /\ p \in AlwaysCompile /\ ~StoresBinary(p)
        BY <4>3 DEF Unpaired
      <4>4. CASE m = p /\ f = Meta /\ StoresBinary(p)
        <5>1. Linked(disk[Binary], p)
          BY <4>4, <1>1 DEF MixInv, CompilersLinked
        <5> QED BY <5>1, <4>4, <3>4, <1>10, LinkedStays
      <4> QED BY <4>1, <4>2, <4>3, <4>4, <1>8
    <3> QED BY <3>1, <3>3, <3>4
  <2> QED BY <2>1, <2>2
<1>11. MetaChained'
  <2>1. \A S : Closed(S)' <=> Closed(S)
    BY DEF Closed
  <2>2. ASSUME group # NoFile, NEW m \in LiveMeta', NEW q \in Compiling' \ AlwaysCompile
        PROVE  Chained(m, q)'
    <3>1. Chained(m, q)
      BY <1>2, <1>9, <2>2
    <3> QED BY <3>1, <2>1 DEF Chained
  <2>3. ASSUME group # NoFile, BinaryListed', NEW m \in LiveMeta'
        PROVE  Chained(m, disk[Binary])' \/ Unpaired(m, disk'[Binary])
    BY <1>10, <2>1, <2>3 DEF Chained
  <2>4. ASSUME group # NoFile, BinaryListed', NEW q \in Compiling' \ AlwaysCompile
        PROVE  Chained(q, disk[Binary])' \/ disk'[Binary] \in AlwaysCompile
    BY <1>2, <1>10, <2>1, <2>4 DEF Chained
  <2> QED BY <2>2, <2>3, <2>4 DEF MetaChained, Unpaired, StoresBinary
<1>12. MixedOnlyByOverlap'
  <2>1. \A q \in Procs : pc'[q] = "loaded" => pc[q] = "loaded"
    OBVIOUS
  <2> QED BY <2>1, LoadedStays
<1> QED BY <1>5, <1>7, <1>11, <1>12 DEF MixInv

LEMMA PutOutputMix == ASSUME IInv, MixInv, NEW p \in Procs, PutOutput(p) PROVE MixInv'
<1>1. next[p] \in 1 .. Len(Outputs) /\ Outputs[next[p]] \in Files /\ Outputs[next[p]] # Meta
  BY OutputFacts, FilesAssumption DEF IInv, TypeOK, OutputFiles
<1>2. /\ pc[p] = "outputs" /\ pc'[p] \in {"outputs", "metadata"}
      /\ \A q \in Procs \ {p} : pc'[q] = pc[q]
      /\ overlap' = overlap /\ group' = group /\ meta' = meta /\ binary' = binary
      /\ pc'[p] = "metadata" <=> ~(next[p] < Len(Outputs))
  BY DEF PutOutput, Goto, IInv, TypeOK
<1>3. pc'[p] = "metadata" <=> Outputs[next[p]] = Binary
  <2>1. ~(next[p] < Len(Outputs)) <=> next[p] = Len(Outputs)
    BY <1>1, OutputFacts
  <2> QED BY <1>1, <1>2, <2>1, OutputFacts DEF Binary
<1>4. p \in Compiling
  BY <1>2 DEF Compiling
<1>5. Outputs[next[p]] = Binary => (Stored(p, next[p]) <=> StoresBinary(p))
  <2>1. Outputs[next[p]] = Binary => next[p] # 1
    BY <1>1, OutputFacts, FilesAssumption
  <2> QED BY <2>1 DEF Stored, StoresBinary
<1>6. CASE Stored(p, next[p]) /\ PutFile(p, Outputs[next[p]])
  <2> DEFINE f == Outputs[next[p]]
  <2>1. /\ f \in Files /\ f # Meta
        /\ disk' = [disk EXCEPT ![f] = p] /\ files' = [files EXCEPT ![p] = @ \cup {f}]
    BY <1>1, <1>6 DEF PutFile
  <2>2. IF f = Binary THEN pc'[p] = "metadata" /\ StoresBinary(p) ELSE pc'[p] = "outputs"
    BY <1>2, <1>3, <1>5, <1>6
  <2> HIDE DEF f
  <2> QED BY <2>1, <2>2, <1>2, <1>4, PutMix
<1>7. CASE ~Stored(p, next[p]) /\ disk' = disk /\ files' = files
  <2>1. pc'[p] = "metadata" => ~StoresBinary(p)
    BY <1>3, <1>5, <1>7
  <2>2. LiveMeta' = LiveMeta
    <3>1. \A q \in Procs : pc'[q] = "load binary" <=> pc[q] = "load binary"
      BY <1>2
    <3> QED BY <3>1, <1>2, <1>7 DEF LiveMeta
  <2>3. Listing' = Listing
    <3>1. \A q \in Procs : pc'[q] = "stopped" <=> pc[q] = "stopped"
      BY <1>2
    <3> QED BY <3>1, <1>7 DEF Listing
  <2>4. BinaryListed' => BinaryListed
    BY <2>3, <1>2 DEF BinaryListed
  <2>5. CompilersLinked' /\ MetaChained'
    BY <1>2, <1>7, <2>1, <2>2, <2>4, QuietStep
  <2>6. FirstListers'
    <3>1. group = NoFile => p \notin Listing
      BY <1>2 DEF MixInv, FirstListers
    <3> QED BY <3>1, <2>3, <1>2 DEF MixInv, FirstListers, StoresBinary
  <2>7. MixedOnlyByOverlap'
    BY <1>2, LoadedStays
  <2> QED BY <2>5, <2>6, <2>7 DEF MixInv
<1> QED BY <1>6, <1>7 DEF PutOutput

LEMMA PutMetadataMix == ASSUME IInv, MixInv, NEW p \in Procs, PutMetadata(p) PROVE MixInv'
<1>1. /\ pc[p] = "metadata" /\ pc'[p] = "group"
      /\ \A q \in Procs \ {p} : pc'[q] = pc[q]
      /\ disk' = [disk EXCEPT ![Meta] = p] /\ files' = [files EXCEPT ![p] = @ \cup {Meta}]
      /\ overlap' = overlap /\ group' = group /\ meta' = meta /\ binary' = binary
  BY DEF PutMetadata, PutFile, Goto, IInv, TypeOK
<1>2. p \in Compiling /\ Meta \in Files
  BY <1>1, OutputFacts DEF Compiling
<1> QED BY <1>1, <1>2, PutMix

LEMMA PutGroupMix == ASSUME IInv, MixInv, NEW p \in Procs, PutGroup(p) PROVE MixInv'
<1>1. /\ pc[p] = "group" /\ pc'[p] = "load metadata"
      /\ \A q \in Procs \ {p} : pc'[q] = pc[q]
      /\ disk' = disk /\ group' = files[p] /\ files' = files
      /\ overlap' = overlap /\ meta' = meta /\ binary' = binary
  BY DEF PutGroup, Goto, IInv, TypeOK
<1>2. p \in Compiling /\ Compiling' \subseteq Compiling /\ LiveMeta' = LiveMeta
  BY <1>1 DEF Compiling, LiveMeta
<1>3. group' # NoFile
  BY <1>1, ContentsAssumption DEF IInv, TypeOK
<1>4. CompilersLinked'
  <2>1. \A q \in Compiling' : q \in Compiling /\ pc'[q] = pc[q]
    BY <1>1, <1>2 DEF Compiling
  <2> QED BY <2>1, <1>1 DEF MixInv, CompilersLinked, Linked, StoresBinary
<1>5. FirstListers'
  BY <1>3 DEF FirstListers
<1>6. Listing' \subseteq Listing /\ (Binary \in group' => p \in Listing)
  BY <1>1 DEF Listing
<1>7. BinaryListed' => Listing # {}
  BY <1>6 DEF BinaryListed
<1>8. group = NoFile =>
        /\ \A m \in LiveMeta : m = disk[Meta]
        /\ \A c \in Listing : c \in Compiling /\ Linked(disk[Binary], c)
  BY DEF MixInv, FirstListers, LiveMeta, CompilersLinked, Compiling, Listing
<1>9. Linked(disk[Meta], p) /\ \A q, r \in Compiling : Linked(q, r)
  BY <1>1, <1>2 DEF MixInv, CompilersLinked
<1>10. ASSUME NEW m \in LiveMeta, NEW q \in Compiling \ AlwaysCompile
       PROVE  Chained(m, q)
  <2>1. CASE group # NoFile
    BY <1>10, <2>1 DEF MixInv, MetaChained
  <2>2. CASE group = NoFile
    BY <2>2, <1>2, <1>8, <1>9, LinkedStays DEF Chained
  <2> QED BY <2>1, <2>2
<1>11. ASSUME Listing # {}, NEW m \in LiveMeta
       PROVE  Chained(m, disk[Binary]) \/ Unpaired(m, disk[Binary])
  <2>1. CASE group # NoFile
    BY <1>11, <2>1 DEF MixInv, MetaChained, BinaryListed
  <2>2. CASE group = NoFile
    <3>1. PICK c \in Listing : c \in Compiling /\ Linked(disk[Binary], c)
      BY <1>8, <1>11, <2>2
    <3> QED BY <3>1, <2>2, <1>2, <1>8, <1>9, LinkedStays DEF Chained
  <2> QED BY <2>1, <2>2
<1>12. ASSUME Listing # {}, NEW q \in Compiling \ AlwaysCompile
       PROVE  Chained(q, disk[Binary]) \/ disk[Binary] \in AlwaysCompile
  <2>1. CASE group # NoFile
    BY <1>12, <2>1 DEF MixInv, MetaChained, BinaryListed
  <2>2. CASE group = NoFile
    <3>1. PICK c \in Listing : c \in Compiling /\ Linked(disk[Binary], c)
      BY <1>8, <1>12, <2>2
    <3> QED BY <3>1, <1>9, LinkedStays DEF Chained
  <2> QED BY <2>1, <2>2
<1>13. MetaChained'
  <2>1. \A S : Closed(S)' <=> Closed(S)
    BY <1>1 DEF Closed
  <2>2. \A x, y : Chained(x, y) => \A S \in SUBSET Procs : x \in S /\ Closed(S)' => y \in S
    BY <2>1 DEF Chained
  <2>3. ASSUME NEW m \in LiveMeta', NEW q \in Compiling' \ AlwaysCompile
        PROVE  Chained(m, q)'
    <3>1. Chained(m, q)
      BY <1>2, <1>10, <2>3
    <3> QED BY <3>1, <2>1 DEF Chained
  <2>4. ASSUME BinaryListed', NEW m \in LiveMeta'
        PROVE  Chained(m, disk[Binary])' \/ Unpaired(m, disk'[Binary])
    <3>1. Chained(m, disk[Binary]) \/ Unpaired(m, disk[Binary])
      BY <1>2, <1>7, <1>11, <2>4
    <3> QED BY <3>1, <2>1, <1>1 DEF Chained
  <2>5. ASSUME BinaryListed', NEW q \in Compiling' \ AlwaysCompile
        PROVE  Chained(q, disk[Binary])' \/ disk'[Binary] \in AlwaysCompile
    <3>1. Chained(q, disk[Binary]) \/ disk[Binary] \in AlwaysCompile
      BY <1>2, <1>7, <1>12, <2>5
    <3> QED BY <3>1, <2>1, <1>1 DEF Chained
  <2> QED BY <2>3, <2>4, <2>5 DEF MetaChained, Unpaired, StoresBinary
<1>14. MixedOnlyByOverlap'
  BY <1>1, LoadedStays
<1> QED BY <1>4, <1>5, <1>13, <1>14 DEF MixInv

LEMMA LoadMetadataMix == ASSUME IInv, MixInv, NEW p \in Procs, LoadMetadata(p) PROVE MixInv'
<1>1. /\ pc[p] = "load metadata" /\ pc'[p] \in {"load binary", "broken"}
      /\ \A q \in Procs \ {p} : pc'[q] = pc[q] /\ meta'[q] = meta[q]
      /\ meta'[p] = Read(p, Meta) /\ files' = files
      /\ disk' = disk /\ group' = group /\ overlap' = overlap /\ binary' = binary
  BY DEF LoadMetadata, Goto, IInv, TypeOK
<1>2. Read(p, Meta) = disk[Meta]
  BY <1>1 DEF Read, IInv, FilesListed, Lists
<1>3. LiveMeta' \subseteq LiveMeta
  <2>1. \A q \in Procs \ {p} : pc'[q] = pc[q] /\ meta'[q] = meta[q]
    BY <1>1
  <2>2. disk'[Meta] = disk[Meta] /\ meta'[p] = disk[Meta]
    BY <1>1, <1>2
  <2> QED BY <2>1, <2>2 DEF LiveMeta
<1>4. group # NoFile
  BY <1>1 DEF MixInv, FirstListers
<1>5. BinaryListed' => BinaryListed
  <2>1. \A q \in Procs : q \in Listing' => q \in Listing
    BY <1>1 DEF Listing
  <2> QED BY <2>1, <1>1, ListedStays
<1>6. CompilersLinked' /\ MetaChained'
  BY <1>1, <1>3, <1>5, QuietStep
<1>7. FirstListers'
  BY <1>1, <1>4 DEF FirstListers
<1>8. MixedOnlyByOverlap'
  BY <1>1, LoadedStays
<1> QED BY <1>6, <1>7, <1>8 DEF MixInv

LEMMA LoadBinaryMix == ASSUME IInv, MixInv, NEW p \in Procs, LoadBinary(p) PROVE MixInv'
<1>1. /\ pc[p] = "load binary" /\ pc'[p] \in {"loaded", "broken"}
      /\ \A q \in Procs \ {p} : pc'[q] = pc[q] /\ binary'[q] = binary[q]
      /\ binary'[p] = Read(p, Binary) /\ files' = files
      /\ pc'[p] = "loaded" => Read(p, Binary) \in Procs
      /\ disk' = disk /\ group' = group /\ overlap' = overlap /\ meta' = meta
  BY DEF LoadBinary, Goto, IInv, TypeOK
<1>2. pc'[p] = "loaded" => Binary \in files[p] /\ Read(p, Binary) = disk[Binary]
  BY <1>1, ContentsAssumption DEF Read
<1>3. LiveMeta' \subseteq LiveMeta /\ meta[p] \in LiveMeta
  BY <1>1 DEF LiveMeta
<1>4. group # NoFile
  BY <1>1 DEF MixInv, FirstListers
<1>5. BinaryListed' => BinaryListed
  <2>1. \A q \in Procs : q \in Listing' => q \in Listing
    BY <1>1 DEF Listing
  <2> QED BY <2>1, <1>1, ListedStays
<1>6. CompilersLinked' /\ MetaChained'
  BY <1>1, <1>3, <1>5, QuietStep
<1>7. FirstListers'
  BY <1>1, <1>4 DEF FirstListers
<1>8. MixedOnlyByOverlap'
  <2>1. Binary \in files[p] => BinaryListed
    BY <1>1 DEF BinaryListed, Listing
  <2>2. Binary \in files[p] => Chained(meta[p], disk[Binary]) \/ Unpaired(meta[p], disk[Binary])
    BY <1>3, <1>4, <2>1 DEF MixInv, MetaChained
  <2>3. \A q \in Procs \ {p} :
          pc[q] = "loaded" => Chained(meta[q], binary[q]) \/ Unpaired(meta[q], binary[q])
    BY DEF MixInv, MixedOnlyByOverlap
  <2> QED BY <1>1, <1>2, <2>2, <2>3 DEF MixedOnlyByOverlap, Chained, Closed, Unpaired, StoresBinary
<1> QED BY <1>6, <1>7, <1>8 DEF MixInv

LEMMA StillMix ==
  ASSUME IInv, MixInv, UNCHANGED <<pc, disk, group, files, meta, binary, overlap>>
  PROVE  MixInv'
<1>1. LiveMeta' = LiveMeta /\ Listing' = Listing /\ \A p \in Procs : pc'[p] = pc[p]
  BY DEF LiveMeta, Listing
<1>2. BinaryListed' => BinaryListed
  BY <1>1 DEF BinaryListed
<1>3. CompilersLinked' /\ MetaChained'
  BY <1>1, <1>2, QuietStep
<1>4. FirstListers'
  BY <1>1 DEF MixInv, FirstListers, StoresBinary
<1>5. MixedOnlyByOverlap'
  BY LoadedStays
<1> QED BY <1>3, <1>4, <1>5 DEF MixInv

LEMMA StopMix == ASSUME IInv, MixInv, NEW p \in Procs, Stop(p) PROVE MixInv'
<1>1. /\ pc'[p] = "stopped" /\ p \in Compiling
      /\ \A q \in Procs \ {p} : pc'[q] = pc[q]
      /\ disk' = disk /\ group' = group /\ overlap' = overlap
      /\ meta' = meta /\ binary' = binary /\ files' = files
  BY DEF Stop, Goto, IInv, TypeOK
<1>2. LiveMeta' = LiveMeta
  BY <1>1 DEF LiveMeta, Compiling
<1>3. \A q \in Procs : q \in Listing' => q \in Listing /\ q # p
  BY <1>1 DEF Listing
<1>4. BinaryListed' => BinaryListed
  BY <1>1, <1>3, ListedStays
<1>5. CompilersLinked' /\ MetaChained'
  BY <1>1, <1>2, <1>4, QuietStep
<1>6. FirstListers'
  BY <1>1, <1>3 DEF MixInv, FirstListers, StoresBinary
<1>7. MixedOnlyByOverlap'
  BY <1>1, LoadedStays
<1> QED BY <1>5, <1>6, <1>7 DEF MixInv

LEMMA NextMix == IInv /\ MixInv /\ [Next]_vars => MixInv'
<1> SUFFICES ASSUME IInv, MixInv, [Next]_vars PROVE MixInv'
  OBVIOUS
<1>1. CASE UNCHANGED vars
  BY <1>1, StillMix DEF vars
<1>2. ASSUME NEW p \in Procs, Write(p) PROVE MixInv'
  BY <1>2, StillMix DEF Write
<1>3. ASSUME NEW p \in Procs, Lookup(p) \/ PutOutput(p) \/ PutMetadata(p) \/ PutGroup(p)
      PROVE  MixInv'
  BY <1>3, LookupMix, PutOutputMix, PutMetadataMix, PutGroupMix
<1>4. ASSUME NEW p \in Procs, LoadMetadata(p) \/ LoadBinary(p) \/ Stop(p) PROVE MixInv'
  BY <1>4, LoadMetadataMix, LoadBinaryMix, StopMix
<1> QED BY <1>1, <1>2, <1>3, <1>4 DEF Next, Step, Terminated

\* CompiledKernel pairs the metadata of one compilation with the binary of
\* another only when overlapping compilations join the two, when the second
\* was told to always compile, or when the first was and left its own binary
\* out, whoever died on the way.
THEOREM MixedNeedsOverlap == Spec => []MixedOnlyByOverlap
<1>1. Init => MixInv
  BY InitMix
<1>2. IInv /\ MixInv /\ [Next]_vars => MixInv'
  BY NextMix
<1>3. MixInv => MixedOnlyByOverlap
  BY DEF MixInv
<1> QED BY <1>1, <1>2, <1>3, InvariantHolds, PTL DEF Spec
=============================================================================
