--------------------------- MODULE EnergyGridCache ---------------------------
(***************************************************************************)
(* The on-disk cache of FrameworkEnergyGrid: runs of the program that load *)
(* a grid from the cache directory or build and store it.                  *)
(*                                                                         *)
(* The directory is shared by processes that know nothing of one another.  *)
(* A file is written in place, chunk by chunk, by one process while others *)
(* may truncate, write or read it; a process may be killed at any moment,  *)
(* and the last chunk, still in the stream's buffer when serialize checks  *)
(* the stream, may be lost without notice (disk full).                     *)
(*                                                                         *)
(* A file is a sequence of chunks: the key (with the format version), the  *)
(* shape (point counts, number of tables, first table's header), then the  *)
(* tables' values.  A write beyond the end leaves a hole of zeros.         *)
(***************************************************************************)
EXTENDS Integers, Sequences, FiniteSets

CONSTANTS
  Processes,
  Inputs,      \* framework, lattice, force field, guest species and spacing
  KeyOf,       \* KeyOf[input]: makeFrameworkEnergyGridCacheKey
  ValueChunks, \* how many chunks the values take
  Settings     \* under what circumstances the directory is used:
               \* fileOf[key]: cacheFilePath, a 64-bit hash in the name,
               \* running: how many processes use it at the same time,
               \* failing: whether processes are killed and disks run full

ASSUME CacheAssumption ==
  /\ IsFiniteSet(Processes)
  /\ Inputs # {}
  /\ ValueChunks \in Nat \ {0}
  /\ \A s \in Settings : s.running \in Nat /\ s.failing \in BOOLEAN

(* The key has all that the grid depends on, but for the mixing rule, which *)
(* the program does not let vary.                                           *)
ASSUME KeyAssumption ==
  \A i, j \in Inputs : KeyOf[i] = KeyOf[j] => i = j

Hole == [chunk |-> 0, of |-> "zeros"]

(* What serialize writes for a grid built from input. *)
KeyChunk(key) == [chunk |-> 1, of |-> key]
DataChunk(i, n) == [chunk |-> n, of |-> i]
Size == 2 + ValueChunks
Image(i) ==
  [n \in 1..Size |-> IF n = 1 THEN KeyChunk(KeyOf[i]) ELSE DataChunk(i, n)]

VARIABLES
  setting,  \* the circumstances, the same throughout
  file,     \* the cache directory: its files' names -> chunks
  pc,       \* what each process is doing
  input,    \* the input of its current or last run
  at,       \* how many chunks it has read or written
  grid      \* the chunks of the grid it has: read so far, or built

vars == <<setting, file, pc, input, at, grid>>

FileOf(key) == setting.fileOf[key]
Files == {FileOf(KeyOf[i]) : i \in Inputs}

States == {"idle", "reading", "building", "writing", "ready", "refused"}
NoGrid == << >>

File(p) == FileOf(KeyOf[input[p]])
Running == {p \in Processes : pc[p] \in {"reading", "building", "writing"}}

Init ==
  /\ setting \in Settings
  /\ file = << >>
  /\ pc = [p \in Processes |-> "idle"]
  /\ input \in [Processes -> {CHOOSE i \in Inputs : TRUE}]
  /\ at = [p \in Processes |-> 0]
  /\ grid = [p \in Processes |-> NoGrid]

Goto(p, where) == pc' = [pc EXCEPT ![p] = where]

(* Mutant: the stored key is not compared. *)
RefusedTruncated(content, n, key) == n > Len(content)

(* Reading chunk n of a file fails: it ends before, or its first chunk is   *)
(* of another key or version (that of a hole is 0).                         *)
Refused(content, n, key) ==
  \/ n > Len(content)
  \/ n = 1 /\ content[1] # KeyChunk(key)

(* Mutant: a file that does not verify is built anew. *)
StartRebuilding(p, i) ==
  /\ p \notin Running
  /\ Cardinality(Running) < setting.running
  /\ input' = [input EXCEPT ![p] = i]
  /\ at' = [at EXCEPT ![p] = 0]
  /\ grid' = [grid EXCEPT ![p] = NoGrid]
  /\ LET name == FileOf(KeyOf[i])
     IN Goto(p, IF name \in DOMAIN file /\ ~Refused(file[name], 1, KeyOf[i])
                THEN "reading" ELSE "building")
  /\ UNCHANGED <<setting, file>>

(* loadOrBuildFrameworkEnergyGrid: a file of the key's name is a hit, to be *)
(* verified; no file is a miss.                                             *)
Start(p, i) ==
  /\ p \notin Running
  /\ Cardinality(Running) < setting.running
  /\ input' = [input EXCEPT ![p] = i]
  /\ at' = [at EXCEPT ![p] = 0]
  /\ grid' = [grid EXCEPT ![p] = NoGrid]
  /\ Goto(p, IF FileOf(KeyOf[i]) \in DOMAIN file THEN "reading" ELSE "building")
  /\ UNCHANGED <<setting, file>>

-----------------------------------------------------------------------------
(* loadFromCache, chunk by chunk.  Chunk n, read as `chunk`, is the last    *)
(* one: a hole for the shape says that there are no tables.                 *)
LastChunk(n, chunk) == n = Size \/ (n = 2 /\ chunk = Hole)

(* Mutant: a file that is refused is read again. *)
ReadNextRetrying(p) ==
  /\ pc[p] = "reading"
  /\ LET n == at[p] + 1
         content == file[File(p)]
     IN IF Refused(content, n, KeyOf[input[p]])
        THEN at' = [at EXCEPT ![p] = 0] /\ grid' = [grid EXCEPT ![p] = NoGrid] /\ UNCHANGED pc
        ELSE /\ at' = [at EXCEPT ![p] = n]
             /\ grid' = [grid EXCEPT ![p] = IF n = 1 THEN NoGrid ELSE Append(@, content[n])]
             /\ Goto(p, IF LastChunk(n, content[n]) THEN "ready" ELSE "reading")
  /\ UNCHANGED <<setting, file, input>>

ReadNext(p) ==
  /\ pc[p] = "reading"
  /\ LET n == at[p] + 1
         content == file[File(p)]
     IN IF Refused(content, n, KeyOf[input[p]])
        THEN Goto(p, "refused") /\ UNCHANGED <<at, grid>>
        ELSE /\ at' = [at EXCEPT ![p] = n]
             /\ grid' = [grid EXCEPT ![p] = IF n = 1 THEN NoGrid ELSE Append(@, content[n])]
             /\ Goto(p, IF LastChunk(n, content[n]) THEN "ready" ELSE "reading")
  /\ UNCHANGED <<setting, file, input>>

-----------------------------------------------------------------------------
(* A miss: build, then serialize. *)

(* Mutant: the grid that was built is not kept. *)
BuildAndOpenOnly(p) ==
  /\ pc[p] = "building"
  /\ file' = [f \in DOMAIN file \cup {File(p)} |-> IF f = File(p) THEN << >> ELSE file[f]]
  /\ Goto(p, "writing")
  /\ UNCHANGED <<setting, input, at, grid>>

(* The stream is opened with trunc, whatever has happened to the file since *)
(* it was found missing.                                                    *)
BuildAndOpen(p) ==
  /\ pc[p] = "building"
  /\ grid' = [grid EXCEPT ![p] = Tail(Image(input[p]))]
  /\ file' = [f \in DOMAIN file \cup {File(p)} |-> IF f = File(p) THEN << >> ELSE file[f]]
  /\ Goto(p, "writing")
  /\ UNCHANGED <<setting, input, at>>

(* Content c after a write of `chunk` as its n-th. *)
Written(c, n, chunk) ==
  [k \in 1..(IF n > Len(c) THEN n ELSE Len(c)) |->
     IF k = n THEN chunk ELSE IF k <= Len(c) THEN c[k] ELSE Hole]

(* Mutant: every chunk goes to the end of the file. *)
WriteNextAppending(p) ==
  /\ pc[p] = "writing"
  /\ LET n == at[p] + 1
     IN /\ file' = [file EXCEPT ![File(p)] = Append(@, Image(input[p])[n])]
        /\ at' = [at EXCEPT ![p] = n]
        /\ Goto(p, IF n = Size THEN "ready" ELSE "writing")
  /\ UNCHANGED <<setting, input, grid>>

WriteNext(p) ==
  /\ pc[p] = "writing"
  /\ LET n == at[p] + 1
     IN /\ file' = [file EXCEPT ![File(p)] = Written(@, n, Image(input[p])[n])]
        /\ at' = [at EXCEPT ![p] = n]
        /\ Goto(p, IF n = Size THEN "ready" ELSE "writing")
  /\ UNCHANGED <<setting, input, grid>>

(* The destructor's flush of the last chunk fails: nobody notices. *)
LoseLastChunk(p) ==
  /\ setting.failing
  /\ pc[p] = "writing" /\ at[p] = Size - 1
  /\ Goto(p, "ready")
  /\ UNCHANGED <<setting, file, input, at, grid>>

(* Killed, or a write failed before the check and serialize throws. *)
Die(p) ==
  /\ setting.failing
  /\ p \in Running
  /\ Goto(p, "idle")
  /\ at' = [at EXCEPT ![p] = 0]
  /\ grid' = [grid EXCEPT ![p] = NoGrid]
  /\ UNCHANGED <<setting, file, input>>

Work(p) == ReadNext(p) \/ BuildAndOpen(p) \/ WriteNext(p) \/ LoseLastChunk(p)

Next == \E p \in Processes : Work(p) \/ Die(p) \/ \E i \in Inputs : Start(p, i)

Spec == Init /\ [][Next]_vars /\ \A p \in Processes : WF_vars(Work(p))

-----------------------------------------------------------------------------
(* --dry-run: cacheHit opens a file of the key's name and checks its header. *)
CacheHit(i) ==
  LET name == FileOf(KeyOf[i])
  IN name \in DOMAIN file /\ ~Refused(file[name], 1, KeyOf[i])

(* Whether a load of input i would get to the end now. *)
WouldLoad(i) ==
  LET content == file[FileOf(KeyOf[i])]
  IN \E n \in 2..Size : n <= Len(content) /\ LastChunk(n, content[n])

-----------------------------------------------------------------------------
(* Properties. *)

(* Every variable has its type; a process that reads or writes has not gone *)
(* beyond the last chunk, and the one that is ready has a grid.             *)
CacheTypeOK ==
  /\ DOMAIN file \subseteq Files
  /\ \A f \in DOMAIN file :
       /\ Len(file[f]) <= Size
       /\ \A n \in 1..Len(file[f]) :
            file[f][n] = Hole \/ \E i \in Inputs : file[f][n] = Image(i)[n]
  /\ \A p \in Processes :
       /\ pc[p] \in States
       /\ input[p] \in Inputs
       /\ at[p] \in 0..Size
       /\ p \in Running => at[p] < Size
       /\ pc[p] = "ready" => grid[p] # NoGrid

Serial == setting.running = 1
NoFailures == ~setting.failing
NoCollisions == \A i, j \in Inputs : FileOf(KeyOf[i]) = FileOf(KeyOf[j]) => KeyOf[i] = KeyOf[j]

(* A run that goes ahead has the grid its own inputs determine, never that  *)
(* of other inputs and never one with holes.                                *)
GridIsRight ==
  \A p \in Processes : pc[p] = "ready" => grid[p] = Tail(Image(input[p]))

(* One at a time, this is so: killed runs, truncated files and hash         *)
(* collisions end in an error, not in wrong energies.                       *)
SerialGridIsRight == Serial => GridIsRight

(* One at a time, a finished file is never changed: the entry other runs    *)
(* depend on is not overwritten, by whichever key and after whichever       *)
(* failure.                                                                 *)
Complete(content) == \E i \in Inputs : content = Image(i)
CompleteFilesStay ==
  [][Serial => \A f \in DOMAIN file : Complete(file[f]) => file'[f] = file[f]]_vars

(* However the runs that found a file missing truncate and overwrite one    *)
(* another's work, once all are done the file is complete.                  *)
FilesEndComplete ==
  NoFailures /\ NoCollisions /\ Running = {} =>
    \A f \in DOMAIN file : Complete(file[f])

(* Every run comes to an end. *)
RunsEnd == \A p \in Processes : p \in Running ~> p \notin Running

(* What a dry run reports as a hit, a real run can load. *)
DryRunIsRight == Running = {} => \A i \in Inputs : CacheHit(i) => WouldLoad(i)
=============================================================================
