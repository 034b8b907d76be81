----------------------------- MODULE FileCache -----------------------------
(***************************************************************************)
(* The on-disk compile cache: compile() of compiler.py run by several      *)
(* processes on one cache key, over the files FileCacheManager (cache.py)  *)
(* keeps in the key's directory.  Files are put one by one, each through a *)
(* temporary file and os.replace; the group file, written last, lists them *)
(* and makes the next compile() a hit.  A process may die at any point.    *)
(***************************************************************************)
EXTENDS Naturals, Sequences, FiniteSets

CONSTANTS
  Procs,
  Outputs,       \* files put before the metadata, in order; the last is the binary
  Meta,          \* the metadata file
  BinaryOnly,    \* processes with knobs.compilation.store_binary_only
  Kept,          \* outputs with the extension cubin or hsaco
  AlwaysCompile, \* processes with knobs.compilation.always_compile
  Partial,       \* contents of a file still being written
  NoFile

Binary == Outputs[Len(Outputs)]
OutputFiles == {Outputs[i] : i \in 1 .. Len(Outputs)}
Files == OutputFiles \cup {Meta}

\* The source and the stages, of which the keys are distinct.
ASSUME FilesAssumption ==
  /\ Outputs \in Seq(OutputFiles) /\ Len(Outputs) > 1 /\ Meta \notin OutputFiles
  /\ \A i, j \in 1 .. Len(Outputs) : Outputs[i] = Outputs[j] => i = j
ASSUME ContentsAssumption ==
  /\ Partial # NoFile /\ Partial \notin Procs /\ NoFile \notin Procs
  /\ \A F \in SUBSET Files : NoFile # F

VARIABLES
  pc,     \* where each process is in compile()
  next,   \* index of the output a compiling process puts next
  temp,   \* contents of the temporary file of each process
  disk,   \* contents of the files: the process that compiled them
  group,  \* the files the group file lists, or NoFile
  files,  \* metadata_group of each process
  meta,   \* metadata and binary read by CompiledKernel
  binary,
  overlap \* history: pairs of processes that were compiling at the same time

vars == <<pc, next, temp, disk, group, files, meta, binary, overlap>>

Init ==
  /\ pc = [p \in Procs |-> "lookup"]
  /\ next = [p \in Procs |-> 1]
  /\ temp = [p \in Procs |-> NoFile]
  /\ disk = [f \in Files |-> NoFile]
  /\ group = NoFile
  /\ files = [p \in Procs |-> {}]
  /\ meta = [p \in Procs |-> NoFile]
  /\ binary = [p \in Procs |-> NoFile]
  /\ overlap = {}

Goto(p, l) == pc' = [pc EXCEPT ![p] = l]
Compiling == {p \in Procs : pc[p] \in {"outputs", "metadata", "group"}}

\* get_group: the files of the group that exist.
FoundFiles == IF group = NoFile THEN {} ELSE {f \in group : disk[f] # NoFile}

Begin(p) == Goto(p, "outputs") /\ overlap' = overlap \cup {{p, q} : q \in Compiling}

\* Mutant: a hit is compiled again.
LookupMisses(p) ==
  /\ pc[p] = "lookup"
  /\ files' = [files EXCEPT ![p] = FoundFiles]
  /\ Begin(p)
  /\ UNCHANGED <<next, temp, disk, group, meta, binary>>

\* compile() asks for the group; the metadata file in it is the hit.
Lookup(p) ==
  /\ pc[p] = "lookup"
  /\ files' = [files EXCEPT ![p] = FoundFiles]
  /\ IF Meta \in FoundFiles /\ p \notin AlwaysCompile
     THEN Goto(p, "load metadata") /\ UNCHANGED overlap
     ELSE Begin(p)
  /\ UNCHANGED <<next, temp, disk, group, meta, binary>>

\* Outputs[1] is the source, stored whatever store_binary_only says.  What else
\* that setting stores goes by a list of extensions and not by binary_ext of the
\* back end, whose binary may be none of them.
Stored(p, i) == i = 1 \/ p \notin BinaryOnly \/ Outputs[i] \in Kept

\* Whether the process is about to put a file.
Putting(p) ==
  \/ pc[p] = "outputs" /\ Stored(p, next[p])
  \/ pc[p] \in {"metadata", "group"}

\* Mutant: the metadata is written under its own name.
WriteInPlace(p) ==
  /\ Putting(p) /\ temp[p] = NoFile
  /\ temp' = [temp EXCEPT ![p] = Partial]
  /\ disk' = IF pc[p] = "metadata" THEN [disk EXCEPT ![Meta] = Partial] ELSE disk
  /\ UNCHANGED <<pc, next, group, files, meta, binary, overlap>>

\* put: the data goes to a file no other process has a name for ...
Write(p) ==
  /\ Putting(p) /\ temp[p] = NoFile
  /\ temp' = [temp EXCEPT ![p] = Partial]
  /\ UNCHANGED <<pc, next, disk, group, files, meta, binary, overlap>>

\* ... which os.replace then gives its name, at once.
Rename(p) == temp[p] = Partial /\ temp' = [temp EXCEPT ![p] = NoFile]
PutFile(p, f) ==
  /\ Rename(p)
  /\ disk' = [disk EXCEPT ![f] = p]
  /\ files' = [files EXCEPT ![p] = @ \cup {f}]

\* One turn of the stages loop; the first is the source put before it.
PutOutput(p) ==
  /\ pc[p] = "outputs"
  /\ \/ Stored(p, next[p]) /\ PutFile(p, Outputs[next[p]])
     \/ ~Stored(p, next[p]) /\ UNCHANGED <<temp, disk, files>>
  /\ IF next[p] < Len(Outputs)
     THEN next' = [next EXCEPT ![p] = @ + 1] /\ UNCHANGED pc
     ELSE Goto(p, "metadata") /\ UNCHANGED next
  /\ UNCHANGED <<group, meta, binary, overlap>>

\* Mutant: the group is put before the metadata.
PutGroupFirst(p) ==
  /\ pc[p] = "metadata"
  /\ Rename(p)
  /\ group' = files[p] \cup {Meta}
  /\ Goto(p, "group")
  /\ UNCHANGED <<next, disk, files, meta, binary, overlap>>

PutMetadata(p) ==
  /\ pc[p] = "metadata"
  /\ PutFile(p, Meta)
  /\ Goto(p, "group")
  /\ UNCHANGED <<next, group, meta, binary, overlap>>

PutGroup(p) ==
  /\ pc[p] = "group"
  /\ Rename(p)
  /\ group' = files[p]
  /\ Goto(p, "load metadata")
  /\ UNCHANGED <<next, disk, files, meta, binary, overlap>>

\* CompiledKernel reads back what the group names, also after a compilation:
\* what it needs and does not find whole makes it raise.
Read(p, f) == IF f \in files[p] THEN disk[f] ELSE NoFile

LoadMetadata(p) ==
  /\ pc[p] = "load metadata"
  /\ meta' = [meta EXCEPT ![p] = Read(p, Meta)]
  /\ Goto(p, IF Read(p, Meta) \in Procs THEN "load binary" ELSE "broken")
  /\ UNCHANGED <<next, temp, disk, group, files, binary, overlap>>

LoadBinary(p) ==
  /\ pc[p] = "load binary"
  /\ binary' = [binary EXCEPT ![p] = Read(p, Binary)]
  /\ Goto(p, IF Read(p, Binary) \in Procs THEN "loaded" ELSE "broken")
  /\ UNCHANGED <<next, temp, disk, group, files, meta, overlap>>

\* A stage raises, or the process is killed: its temporary file stays behind.
Stop(p) ==
  /\ p \in Compiling
  /\ Goto(p, "stopped")
  /\ UNCHANGED <<next, temp, disk, group, files, meta, binary, overlap>>

Step(p) ==
  \/ Lookup(p) \/ Write(p) \/ PutOutput(p) \/ PutMetadata(p) \/ PutGroup(p)
  \/ LoadMetadata(p) \/ LoadBinary(p)

Ended(p) == pc[p] \in {"loaded", "stopped", "broken"}
Terminated == (\A p \in Procs : Ended(p)) /\ UNCHANGED vars

Next == (\E p \in Procs : Step(p) \/ Stop(p)) \/ Terminated
Spec == Init /\ [][Next]_vars

----------------------------------------------------------------------------
Places == {"lookup", "outputs", "metadata", "group", "load metadata", "load binary",
           "loaded", "stopped", "broken"}
Contents == Procs \cup {NoFile}

\* The variables have their types; a file under its own name is never one
\* that is still being written (cache.py's "filepath cannot see a partial write").
TypeOK ==
  /\ pc \in [Procs -> Places]
  /\ next \in [Procs -> 1 .. Len(Outputs)]
  /\ temp \in [Procs -> {NoFile, Partial}]
  /\ disk \in [Files -> Contents]
  /\ group = NoFile \/ group \in SUBSET Files
  /\ files \in [Procs -> SUBSET Files]
  /\ meta \in [Procs -> Contents]
  /\ binary \in [Procs -> Contents]
  /\ overlap \subseteq SUBSET Procs

\* Whether a process's own settings keep the kernel it compiles.
StoresBinary(p) == p \notin BinaryOnly \/ Binary \in Kept

\* A process that leaves its binary out has got as far as a group, its own or
\* one that it was told of.
LeftOut(p) ==
  ~StoresBinary(p) /\ pc[p] \in {"load metadata", "load binary", "loaded", "broken"}

\* Whatever has died and whoever else is compiling, a group file names the
\* metadata, every file it names is there, and the binary is one of them
\* unless a process that leaves its own out has got as far as a group: what
\* compile() takes for a hit (compiler.py) is then a whole kernel.
GroupComplete ==
  group # NoFile =>
    /\ Meta \in group /\ \A f \in group : disk[f] # NoFile
    /\ Binary \in group \/ \E p \in Procs : LeftOut(p)

\* Who may be without a binary: one that leaves its own out, or one that is
\* told of a hit after such a process.
MayLackBinary(p) ==
  \/ ~StoresBinary(p)
  \/ p \notin AlwaysCompile /\ \E q \in Procs : LeftOut(q)

\* CompiledKernel never misses the metadata when it reads the kernel back, and
\* misses the binary only through store_binary_only of a back end whose binary
\* has another extension: never in a process that compiles and stores it.
LoadsSucceed ==
  \A p \in Procs : pc[p] = "broken" => meta[p] # NoFile /\ MayLackBinary(p)

\* compile() "return[s] handle to compiled kernel" (compiler.py) of a compilation
\* and of a hit: CompiledKernel finds what it reads.  This holds where every
\* process stores its binary.
HandleReturned == \A p \in Procs : pc[p] # "broken"

\* What a process lists is there; it lists the binary once it has put it, or
\* was told of a hit that does, and from the group file on the metadata.
Lists(p) ==
  /\ \A f \in files[p] : disk[f] # NoFile
  /\ pc[p] \in {"metadata", "group"} /\ StoresBinary(p) => Binary \in files[p]
  /\ pc[p] \in {"group", "load metadata", "load binary"} => Meta \in files[p]
  /\ pc[p] \in {"load metadata", "load binary"} => Binary \in files[p] \/ MayLackBinary(p)
  /\ pc[p] = "load binary" => meta[p] # NoFile

FilesListed == \A p \in Procs : Lists(p)

\* The inductive invariant: the types, the group file and the lists.
IInv == TypeOK /\ GroupComplete /\ LoadsSucceed /\ FilesListed

\* Processes that compiled at the same time, or are joined by a chain of such.
Closed(S) == \A o \in overlap : o \cap S = {} \/ o \subseteq S
Chained(p, q) == \A S \in SUBSET Procs : p \in S /\ Closed(S) => q \in S

\* CompiledKernel reads the metadata and the binary one after the other, and
\* nothing ties them together.  It gets them from two compilations only when
\* a chain of overlapping compilations joins the two, when the second was
\* told to always compile, or when the first was and left its own binary out:
\* that one's group lists the binary it found at its lookup.
Unpaired(m, b) == b \in AlwaysCompile \/ (m \in AlwaysCompile /\ ~StoresBinary(m))

MixedOnlyByOverlap ==
  \A p \in Procs :
    pc[p] = "loaded" => Chained(meta[p], binary[p]) \/ Unpaired(meta[p], binary[p])

\* Why MixedOnlyByOverlap holds.  Two that are compiling overlap; who has put
\* its binary, or its metadata, overlaps whoever put the one that is there.
Linked(x, y) == x = y \/ {x, y} \in overlap

CompilersLinked ==
  \A p \in Compiling :
    /\ \A q \in Compiling : Linked(p, q)
    /\ pc[p] \in {"metadata", "group"} /\ StoresBinary(p) => Linked(disk[Binary], p)
    /\ pc[p] = "group" => Linked(disk[Meta], p)

\* Metadata that may still be paired with a binary: the file's, and what a
\* process read that has yet to read the binary.
LiveMeta == {disk[Meta]} \cup {meta[p] : p \in {q \in Procs : pc[q] = "load binary"}}

\* Who lists the binary, and may still read it or put it in a group.
Listing == {p \in Procs : pc[p] # "stopped" /\ Binary \in files[p]}
BinaryListed == (group # NoFile /\ Binary \in group) \/ Listing # {}

\* Before there is a group, only who has put the binary lists it.
FirstListers ==
  group = NoFile =>
    \A p \in Procs :
      /\ pc[p] \notin {"load metadata", "load binary"}
      /\ p \in Listing => pc[p] \in {"metadata", "group"} /\ StoresBinary(p)

\* Once there is a group, live metadata is joined to every compiler but those
\* told to always compile, as such a compiler began before the group was there.
\* Both are joined to the binary that is listed, with the exceptions above.
MetaChained ==
  group # NoFile =>
    /\ \A m \in LiveMeta : \A p \in Compiling \ AlwaysCompile : Chained(m, p)
    /\ BinaryListed =>
         /\ \A m \in LiveMeta : Chained(m, disk[Binary]) \/ Unpaired(m, disk[Binary])
         /\ \A p \in Compiling \ AlwaysCompile :
              Chained(p, disk[Binary]) \/ disk[Binary] \in AlwaysCompile

MixInv == CompilersLinked /\ FirstListers /\ MetaChained /\ MixedOnlyByOverlap
=============================================================================
