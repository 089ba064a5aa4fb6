------------------------ MODULE EnergyGridCacheProofs ------------------------
(***************************************************************************)
(* One process at a time, for every set of inputs, every assignment of     *)
(* keys to files and every size of a grid: a file is always the beginning  *)
(* of one that some input would get.                                       *)
(***************************************************************************)
EXTENDS EnergyGridCache, TLAPS, FiniteSetTheorems

(* The first n chunks of a file, and the grid that they hold.               *)
First(i, n) == [k \in 1..n |-> Image(i)[k]]
Values(i, n) == [k \in 1..(n - 1) |-> Image(i)[k + 1]]

(***************************************************************************)
(* The inductive invariant.                                                *)
(***************************************************************************)
Shapes ==
  /\ setting \in Settings
  /\ pc \in [Processes -> States]
  /\ input \in [Processes -> Inputs]
  /\ at = [p \in Processes |-> at[p]]
  /\ grid = [p \in Processes |-> grid[p]]
  /\ file = [f \in DOMAIN file |-> file[f]]

OneRunning == \A p, q \in Running : p = q

FilesInv ==
  \A f \in DOMAIN file :
    \E i \in Inputs, n \in 0..Size : f = FileOf(KeyOf[i]) /\ file[f] = First(i, n)

(* A reader past the key is in a file of its own input. *)
ReaderInv(p) ==
  pc[p] = "reading" =>
    /\ File(p) \in DOMAIN file
    /\ at[p] \in 0..(Size - 1)
    /\ grid[p] = Values(input[p], at[p])
    /\ at[p] # 0 => \E n \in 0..Size : file[File(p)] = First(input[p], n)

BuilderInv(p) == pc[p] = "building" => File(p) \notin DOMAIN file /\ at[p] = 0

(* Only a writer's own chunks are in its file. *)
WriterInv(p) ==
  pc[p] = "writing" =>
    /\ File(p) \in DOMAIN file
    /\ at[p] \in 0..(Size - 1)
    /\ grid[p] = Values(input[p], Size)
    /\ file[File(p)] = First(input[p], at[p])

ReadyInv(p) == pc[p] = "ready" => grid[p] = Values(input[p], Size)

ProcessInv(p) == ReaderInv(p) /\ BuilderInv(p) /\ WriterInv(p) /\ ReadyInv(p)

SerialInv ==
  /\ Serial /\ Shapes /\ OneRunning /\ FilesInv
  /\ \A p \in Processes : ProcessInv(p)

-----------------------------------------------------------------------------
(***************************************************************************)
(* Chunks.                                                                 *)
(***************************************************************************)
LEMMA SizeIs == Size \in Nat /\ Size >= 3
BY CacheAssumption DEF Size

LEMMA Chunks ==
  ASSUME NEW i \in Inputs, NEW n \in 1..Size
  PROVE  /\ n = 1 => Image(i)[n] = KeyChunk(KeyOf[i])
         /\ n # 1 => Image(i)[n] = DataChunk(i, n) /\ Image(i)[n] # Hole
BY SizeIs DEF Image, DataChunk, Hole

LEMMA FirstIs ==
  ASSUME NEW i \in Inputs, NEW n \in 0..Size
  PROVE  /\ Len(First(i, n)) = n
         /\ \A k \in 1..n : First(i, n)[k] = Image(i)[k]
BY SizeIs DEF First

LEMMA Empty == \A i : First(i, 0) = << >> /\ Values(i, 0) = << >> /\ Values(i, 1) = << >>
BY DEF First, Values

LEMMA GridIs == ASSUME NEW i \in Inputs PROVE Tail(Image(i)) = Values(i, Size)
BY SizeIs DEF Image, Values

(* Reading on, and writing on. *)
LEMMA ValuesGrow ==
  ASSUME NEW i \in Inputs, NEW n \in 2..Size
  PROVE  Append(Values(i, n - 1), Image(i)[n]) = Values(i, n)
BY SizeIs DEF Values

LEMMA FirstGrows ==
  ASSUME NEW i \in Inputs, NEW n \in 1..Size
  PROVE  Written(First(i, n - 1), n, Image(i)[n]) = First(i, n)
<1>1. Len(First(i, n - 1)) = n - 1
  BY FirstIs, SizeIs
<1> QED
  BY <1>1, SizeIs DEF Written, First

-----------------------------------------------------------------------------
(***************************************************************************)
(* One action at a time.  A process that works is the only one that runs,  *)
(* and what the others have does not depend on the files.                  *)
(***************************************************************************)
LEMMA InitSerial == Init /\ Serial => SerialInv
<1> SUFFICES ASSUME Init, Serial PROVE SerialInv
  OBVIOUS
<1>1. (CHOOSE i \in Inputs : TRUE) \in Inputs
  BY CacheAssumption
<1> QED
  BY <1>1 DEF Init, SerialInv, Shapes, OneRunning, FilesInv, ProcessInv, ReaderInv, BuilderInv,
         WriterInv, ReadyInv, Running, States, Serial

(* Processes that do not run stay as they are. *)
LEMMA OthersRest ==
  ASSUME SerialInv, NEW p \in Running, NEW q \in Processes, q # p,
         pc'[q] = pc[q], input'[q] = input[q], grid'[q] = grid[q], setting' = setting
  PROVE  ProcessInv(q)'
<1>1. q \notin Running
  BY DEF SerialInv, OneRunning
<1>2. pc[q] \notin {"reading", "building", "writing"}
  BY <1>1 DEF Running
<1> QED
  BY <1>2 DEF SerialInv, ProcessInv, ReaderInv, BuilderInv, WriterInv, ReadyInv

(* With one place only, a process starts when none runs. *)
LEMMA NoneRuns ==
  ASSUME SerialInv, NEW p, NEW i, Start(p, i)
  PROVE  Running = {}
<1>1. IsFiniteSet(Running)
  BY CacheAssumption, FS_Subset DEF Running
<1>2. Cardinality(Running) < 1
  BY DEF SerialInv, Shapes, Serial, Start
<1>3. Cardinality(Running) \in Nat
  BY <1>1, FS_CardinalityType
<1> QED
  BY <1>1, <1>2, <1>3, FS_EmptySet

LEMMA StartKeeps ==
  ASSUME SerialInv, NEW p \in Processes, NEW i \in Inputs, Start(p, i)
  PROVE  SerialInv'
<1>1. Running = {}
  BY NoneRuns
<1>2. Serial' /\ Shapes'
  BY DEF SerialInv, Shapes, Serial, Start, Goto, States
<1>3. /\ pc'[p] \in {"reading", "building"} /\ input'[p] = i /\ at'[p] = 0 /\ grid'[p] = << >>
      /\ \A q \in Processes : q # p =>
           pc'[q] = pc[q] /\ input'[q] = input[q] /\ grid'[q] = grid[q]
      /\ file' = file /\ setting' = setting
      /\ pc'[p] = "reading" <=> FileOf(KeyOf[i]) \in DOMAIN file
  BY DEF SerialInv, Shapes, Start, Goto, NoGrid
<1>4. OneRunning'
  BY <1>1, <1>3 DEF OneRunning, Running
<1>5. FilesInv'
  BY <1>3 DEF SerialInv, FilesInv, FileOf
<1>6. ASSUME NEW q \in Processes PROVE ProcessInv(q)'
  <2>1. CASE q = p
    BY <1>3, <2>1, Empty, SizeIs DEF ProcessInv, ReaderInv, BuilderInv, WriterInv, ReadyInv, File, FileOf
  <2>2. CASE q # p
    <3>1. pc[q] \notin {"reading", "building", "writing"}
      BY <1>1 DEF Running
    <3> QED
      BY <1>3, <2>2, <3>1 DEF SerialInv, ProcessInv, ReaderInv, BuilderInv, WriterInv, ReadyInv
  <2> QED
    BY <2>1, <2>2
<1> QED
  BY <1>2, <1>4, <1>5, <1>6 DEF SerialInv

LEMMA ReadNextKeeps ==
  ASSUME SerialInv, NEW p \in Processes, ReadNext(p)
  PROVE  SerialInv'
<1> DEFINE n == at[p] + 1
           content == file[File(p)]
           i == input[p]
<1>0. /\ p \in Running /\ pc[p] = "reading" /\ i \in Inputs
      /\ File(p) \in DOMAIN file /\ n \in 1..Size /\ grid[p] = Values(i, n - 1)
  BY SizeIs DEF SerialInv, Shapes, ProcessInv, ReaderInv, ReadNext, Running
<1>1. Serial' /\ Shapes'
  BY DEF SerialInv, Shapes, Serial, ReadNext, Goto, States
<1>2. /\ pc'[p] \in {"reading", "ready", "refused"} /\ input' = input
      /\ \A q \in Processes : q # p =>
           pc'[q] = pc[q] /\ input'[q] = input[q] /\ grid'[q] = grid[q]
      /\ file' = file /\ setting' = setting
  BY DEF SerialInv, Shapes, ReadNext, Goto
<1>3. OneRunning'
  BY <1>0, <1>2 DEF SerialInv, OneRunning, Running
<1>4. FilesInv'
  BY <1>2 DEF SerialInv, FilesInv, FileOf
<1>5. ProcessInv(p)'
  <2>1. CASE Refused(content, n, KeyOf[i])
    <3>1. pc'[p] = "refused"
      BY <2>1 DEF SerialInv, Shapes, ReadNext, Goto
    <3> QED
      BY <3>1 DEF ProcessInv, ReaderInv, BuilderInv, WriterInv, ReadyInv
  <2>2. CASE ~Refused(content, n, KeyOf[i])
    <3>1. /\ at'[p] = n
          /\ grid'[p] = IF n = 1 THEN NoGrid ELSE Append(grid[p], content[n])
          /\ pc'[p] = IF LastChunk(n, content[n]) THEN "ready" ELSE "reading"
      BY <2>2 DEF SerialInv, Shapes, ReadNext, Goto
    <3>2. PICK m \in 0..Size : content = First(i, m)
      <4>1. CASE n # 1
        BY <1>0, <4>1 DEF SerialInv, ProcessInv, ReaderInv
      <4>2. CASE n = 1
        <5>1. PICK j \in Inputs, m \in 0..Size : content = First(j, m)
          BY <1>0 DEF SerialInv, FilesInv
        <5>2. m >= 1 /\ content[1] = KeyChunk(KeyOf[i])
          BY <2>2, <4>2, <5>1, FirstIs DEF Refused
        <5>3. content[1] = KeyChunk(KeyOf[j])
          BY <5>1, <5>2, FirstIs, Chunks, SizeIs
        <5>4. i = j
          BY <1>0, <5>2, <5>3, KeyAssumption DEF KeyChunk
        <5> QED
          BY <5>1, <5>4
      <4> QED
        BY <4>1, <4>2
    <3>3. n <= m /\ content[n] = Image(i)[n]
      BY <1>0, <2>2, <3>2, FirstIs, SizeIs DEF Refused
    <3>4. grid'[p] = Values(i, n)
      <4>1. CASE n = 1
        BY <3>1, <4>1, Empty DEF NoGrid
      <4>2. CASE n # 1
        BY <1>0, <3>1, <3>3, <4>2, ValuesGrow, SizeIs, SMTT(30)
      <4> QED
        BY <4>1, <4>2
    <3>5. LastChunk(n, content[n]) <=> n = Size
      BY <1>0, <3>3, Chunks, SizeIs DEF LastChunk
    <3> QED
      BY <1>0, <1>2, <3>1, <3>2, <3>4, <3>5, SizeIs
      DEF ProcessInv, ReaderInv, BuilderInv, WriterInv, ReadyInv, File, FileOf
  <2> QED
    BY <2>1, <2>2
<1>6. ASSUME NEW q \in Processes, q # p PROVE ProcessInv(q)'
  BY <1>0, <1>2, <1>6, OthersRest
<1> QED
  BY <1>1, <1>3, <1>4, <1>5, <1>6 DEF SerialInv

LEMMA BuildAndOpenKeeps ==
  ASSUME SerialInv, NEW p \in Processes, BuildAndOpen(p)
  PROVE  SerialInv'
<1>0. /\ p \in Running /\ pc[p] = "building" /\ input[p] \in Inputs /\ at[p] = 0
      /\ File(p) \notin DOMAIN file
  BY DEF SerialInv, Shapes, ProcessInv, BuilderInv, BuildAndOpen, Running
<1>1. Serial' /\ Shapes'
  BY DEF SerialInv, Shapes, Serial, BuildAndOpen, Goto, States
<1>2. /\ pc'[p] = "writing" /\ input' = input /\ at' = at /\ setting' = setting
      /\ grid'[p] = Tail(Image(input[p]))
      /\ \A q \in Processes : q # p =>
           pc'[q] = pc[q] /\ input'[q] = input[q] /\ grid'[q] = grid[q]
      /\ DOMAIN file' = DOMAIN file \cup {File(p)}
      /\ file'[File(p)] = << >>
      /\ \A f \in DOMAIN file : file'[f] = file[f]
  BY <1>0 DEF SerialInv, Shapes, BuildAndOpen, Goto
<1>3. OneRunning'
  BY <1>0, <1>2 DEF SerialInv, OneRunning, Running
<1>4. FilesInv'
  <2> SUFFICES ASSUME NEW f \in DOMAIN file'
               PROVE  \E i \in Inputs, n \in 0..Size :
                        f = FileOf(KeyOf[i])' /\ file'[f] = First(i, n)
    BY DEF FilesInv
  <2>1. CASE f = File(p)
    BY <1>0, <1>2, <2>1, Empty, SizeIs DEF File, FileOf
  <2>2. CASE f # File(p)
    BY <1>2, <2>2 DEF SerialInv, FilesInv, FileOf
  <2> QED
    BY <2>1, <2>2
<1>5. ProcessInv(p)'
  BY <1>0, <1>2, Empty, GridIs, SizeIs
  DEF ProcessInv, ReaderInv, BuilderInv, WriterInv, ReadyInv, File, FileOf
<1>6. ASSUME NEW q \in Processes, q # p PROVE ProcessInv(q)'
  BY <1>0, <1>2, <1>6, OthersRest
<1> QED
  BY <1>1, <1>3, <1>4, <1>5, <1>6 DEF SerialInv

LEMMA WriteNextKeeps ==
  ASSUME SerialInv, NEW p \in Processes, WriteNext(p)
  PROVE  SerialInv'
<1> DEFINE n == at[p] + 1
           i == input[p]
<1>0. /\ p \in Running /\ pc[p] = "writing" /\ i \in Inputs /\ n \in 1..Size
      /\ grid[p] = Values(i, Size)
      /\ File(p) \in DOMAIN file /\ file[File(p)] = First(i, n - 1)
  BY SizeIs DEF SerialInv, Shapes, ProcessInv, WriterInv, WriteNext, Running
<1>1. Serial' /\ Shapes'
  BY DEF SerialInv, Shapes, Serial, WriteNext, Goto, States
<1>2. /\ pc'[p] = IF n = Size THEN "ready" ELSE "writing"
      /\ input' = input /\ setting' = setting /\ grid' = grid /\ at'[p] = n
      /\ \A q \in Processes : q # p =>
           pc'[q] = pc[q] /\ input'[q] = input[q] /\ grid'[q] = grid[q]
      /\ DOMAIN file' = DOMAIN file
      /\ file'[File(p)] = Written(file[File(p)], n, Image(i)[n])
      /\ \A f \in DOMAIN file : f # File(p) => file'[f] = file[f]
  BY <1>0 DEF SerialInv, Shapes, WriteNext, Goto
<1>3. OneRunning'
  BY <1>0, <1>2 DEF SerialInv, OneRunning, Running
<1>4. file'[File(p)] = First(i, n)
  BY <1>0, <1>2, FirstGrows
<1>5. FilesInv'
  <2> SUFFICES ASSUME NEW f \in DOMAIN file'
               PROVE  \E j \in Inputs, m \in 0..Size :
                        f = FileOf(KeyOf[j])' /\ file'[f] = First(j, m)
    BY DEF FilesInv
  <2>1. CASE f = File(p)
    BY <1>0, <1>2, <1>4, <2>1, SizeIs DEF File, FileOf
  <2>2. CASE f # File(p)
    BY <1>2, <2>2 DEF SerialInv, FilesInv, FileOf
  <2> QED
    BY <2>1, <2>2
<1>6. ProcessInv(p)'
  BY <1>0, <1>2, <1>4, SizeIs
  DEF ProcessInv, ReaderInv, BuilderInv, WriterInv, ReadyInv, File, FileOf
<1>7. ASSUME NEW q \in Processes, q # p PROVE ProcessInv(q)'
  BY <1>0, <1>2, <1>7, OthersRest
<1> QED
  BY <1>1, <1>3, <1>5, <1>6, <1>7 DEF SerialInv

(* A lost flush, and a death, leave the files as they are. *)
LEMMA FailuresKeep ==
  ASSUME SerialInv, NEW p \in Processes, LoseLastChunk(p) \/ Die(p)
  PROVE  SerialInv'
<1>0. p \in Running
  BY DEF LoseLastChunk, Die, Running
<1>1. Serial' /\ Shapes'
  BY DEF SerialInv, Shapes, Serial, LoseLastChunk, Die, Goto, States
<1>2. /\ \/ pc'[p] = "idle"
         \/ pc'[p] = "ready" /\ pc[p] = "writing" /\ grid'[p] = grid[p]
      /\ \A q \in Processes : q # p =>
           pc'[q] = pc[q] /\ input'[q] = input[q] /\ grid'[q] = grid[q]
      /\ file' = file /\ setting' = setting /\ input' = input
  BY DEF SerialInv, Shapes, LoseLastChunk, Die, Goto
<1>3. OneRunning'
  BY <1>0, <1>2 DEF SerialInv, OneRunning, Running
<1>4. FilesInv'
  BY <1>2 DEF SerialInv, FilesInv, FileOf
<1>5. ProcessInv(p)'
  BY <1>2 DEF SerialInv, ProcessInv, ReaderInv, BuilderInv, WriterInv, ReadyInv
<1>6. ASSUME NEW q \in Processes, q # p PROVE ProcessInv(q)'
  BY <1>0, <1>2, <1>6, OthersRest
<1> QED
  BY <1>1, <1>3, <1>4, <1>5, <1>6 DEF SerialInv

LEMMA StepKeeps == SerialInv /\ [Next]_vars => SerialInv'
<1> SUFFICES ASSUME SerialInv, [Next]_vars PROVE SerialInv'
  OBVIOUS
<1>1. ASSUME NEW p \in Processes, Work(p) PROVE SerialInv'
  BY <1>1, ReadNextKeeps, BuildAndOpenKeeps, WriteNextKeeps, FailuresKeep DEF Work
<1>2. ASSUME NEW p \in Processes, Die(p) PROVE SerialInv'
  BY <1>2, FailuresKeep
<1>3. ASSUME NEW p \in Processes, NEW i \in Inputs, Start(p, i) PROVE SerialInv'
  BY <1>3, StartKeeps
<1>4. CASE UNCHANGED vars
  BY <1>4 DEF vars, SerialInv, Shapes, Serial, OneRunning, Running, FilesInv, FileOf, File,
              ProcessInv, ReaderInv, BuilderInv, WriterInv, ReadyInv
<1> QED
  BY <1>1, <1>2, <1>3, <1>4 DEF Next

-----------------------------------------------------------------------------
(***************************************************************************)
(* The theorems.                                                           *)
(***************************************************************************)
(* With one process at a time, whichever of them die and however the names *)
(* of the files collide, every file of the cache is the beginning of one   *)
(* that some input with that name would get, and a process that has read   *)
(* past the key reads its own.                                             *)
THEOREM SerialInvariant == Spec => [](Serial => SerialInv)
<1>1. Init => (Serial => SerialInv)
  BY InitSerial
<1>2. (Serial => SerialInv) /\ [Next]_vars => (Serial => SerialInv)'
  <2> SUFFICES ASSUME Serial => SerialInv, [Next]_vars, Serial' PROVE SerialInv'
    OBVIOUS
  <2>1. setting' = setting
    BY DEF Next, vars, Work, ReadNext, BuildAndOpen, WriteNext, LoseLastChunk, Die, Start
  <2> QED
    BY <2>1, StepKeeps DEF Serial
<1> QED
  BY <1>1, <1>2, PTL DEF Spec

(* With one process at a time, the grid that a run goes ahead with, loaded *)
(* or built, is the one its own inputs determine.                          *)
THEOREM SerialGridCorrect == Spec => []SerialGridIsRight
<1>1. (Serial => SerialInv) => SerialGridIsRight
  <2> SUFFICES ASSUME SerialInv, NEW p \in Processes, pc[p] = "ready"
               PROVE  grid[p] = Tail(Image(input[p]))
    BY DEF SerialGridIsRight, GridIsRight
  <2>1. input[p] \in Inputs /\ grid[p] = Values(input[p], Size)
    BY DEF SerialInv, Shapes, ProcessInv, ReadyInv
  <2> QED
    BY <2>1, GridIs
<1> QED
  BY <1>1, SerialInvariant, PTL

(* With one process at a time, no step changes a file that is complete: a  *)
(* file is truncated only where there was none, and written to only where  *)
(* it is still too short.                                                  *)
THEOREM FinishedFilesStay == Spec => CompleteFilesStay
<1> DEFINE Stays == Serial => \A f \in DOMAIN file : Complete(file[f]) => file'[f] = file[f]
<1>1. (Serial => SerialInv) /\ [Next]_vars => [Stays]_vars
  <2> SUFFICES ASSUME SerialInv, Next, NEW f \in DOMAIN file, Complete(file[f])
               PROVE  file'[f] = file[f]
    OBVIOUS
  <2>1. ASSUME NEW p \in Processes, BuildAndOpen(p) PROVE file'[f] = file[f]
    <3>1. File(p) \notin DOMAIN file
      BY <2>1 DEF SerialInv, ProcessInv, BuilderInv, BuildAndOpen
    <3> QED
      BY <2>1, <3>1 DEF BuildAndOpen
  <2>2. ASSUME NEW p \in Processes, WriteNext(p) PROVE file'[f] = file[f]
    <3>1. /\ input[p] \in Inputs /\ at[p] \in 0..(Size - 1)
          /\ file[File(p)] = First(input[p], at[p])
      BY <2>2 DEF SerialInv, Shapes, ProcessInv, WriterInv, WriteNext
    <3>2. Len(file[File(p)]) # Size
      BY <3>1, FirstIs, SizeIs
    <3>3. Len(file[f]) = Size
      BY SizeIs DEF Complete, Image
    <3> QED
      BY <2>2, <3>2, <3>3 DEF WriteNext, SerialInv, Shapes
  <2>3. ASSUME NEW p \in Processes, ReadNext(p) \/ LoseLastChunk(p) \/ Die(p)
        PROVE  file'[f] = file[f]
    BY <2>3 DEF ReadNext, LoseLastChunk, Die
  <2>4. ASSUME NEW p \in Processes, NEW i \in Inputs, Start(p, i) PROVE file'[f] = file[f]
    BY <2>4 DEF Start
  <2> QED
    BY <2>1, <2>2, <2>3, <2>4 DEF Next, Work
<1> QED
  BY <1>1, SerialInvariant, PTL DEF Spec, CompleteFilesStay

-----------------------------------------------------------------------------
(***************************************************************************)
(* Any number of processes at a time.                                      *)
(***************************************************************************)
Chunk == {Hole} \cup {Image(i)[n] : i \in Inputs, n \in 1..Size}

(* What a process has, and what is in a file, whatever the others do. *)
ProcessTypes(p) ==
  /\ at[p] \in 0..Size
  /\ grid[p] \in Seq(Chunk)
  /\ p \in Running => at[p] < Size
  /\ pc[p] = "building" => at[p] = 0
  /\ pc[p] \in {"reading", "writing"} => File(p) \in DOMAIN file
  /\ pc[p] \in {"writing", "ready"} => grid[p] # NoGrid

FileTypes(f) ==
  /\ f \in Files
  /\ file[f] \in Seq(Chunk) /\ Len(file[f]) <= Size
  /\ \A n \in 1..Len(file[f]) : file[f][n] = Hole \/ \E i \in Inputs : file[f][n] = Image(i)[n]

SharedInv ==
  /\ Shapes
  /\ \A p \in Processes : ProcessTypes(p)
  /\ \A f \in DOMAIN file : FileTypes(f)

LEMMA ImageIs ==
  ASSUME NEW i \in Inputs
  PROVE  /\ Image(i) \in Seq(Chunk) /\ Len(Image(i)) = Size
         /\ Tail(Image(i)) \in Seq(Chunk) /\ Tail(Image(i)) # NoGrid
<1>1. Size \in Nat /\ Size >= 3
  BY SizeIs
<1>2. \A n \in 1..Size : Image(i)[n] \in Chunk
  BY DEF Chunk
<1>3. Image(i) = [n \in 1..Size |-> Image(i)[n]]
  BY DEF Image
<1>4. Image(i) \in [1..Size -> Chunk]
  BY <1>2, <1>3
<1>5. Image(i) \in Seq(Chunk) /\ Len(Image(i)) = Size
  BY <1>1, <1>4
<1>6. Tail(Image(i)) \in Seq(Chunk) /\ Len(Tail(Image(i))) = Size - 1
  BY <1>1, <1>5
<1>7. Tail(Image(i)) # << >>
  <2>1. Len(<< >>) = 0
    OBVIOUS
  <2> QED
    BY <1>1, <1>6, <2>1
<1> QED
  BY <1>5, <1>6, <1>7 DEF NoGrid

(* A write keeps what the others have written, and leaves holes before it. *)
LEMMA WrittenIs ==
  ASSUME NEW c \in Seq(Chunk), NEW n \in 1..Size, NEW chunk \in Chunk, Len(c) <= Size
  PROVE  /\ Written(c, n, chunk) \in Seq(Chunk)
         /\ Len(Written(c, n, chunk)) = (IF n > Len(c) THEN n ELSE Len(c))
         /\ \A k \in 1..Len(Written(c, n, chunk)) :
              Written(c, n, chunk)[k] = IF k = n THEN chunk ELSE IF k <= Len(c) THEN c[k] ELSE Hole
<1> DEFINE m == IF n > Len(c) THEN n ELSE Len(c)
<1>1. m \in Nat /\ Size \in Nat /\ Len(c) \in Nat /\ Hole \in Chunk
  BY SizeIs DEF Chunk
<1>2. \A k \in 1..m : (IF k = n THEN chunk ELSE IF k <= Len(c) THEN c[k] ELSE Hole) \in Chunk
  BY <1>1
<1>3. Written(c, n, chunk) =
        [k \in 1..m |-> IF k = n THEN chunk ELSE IF k <= Len(c) THEN c[k] ELSE Hole]
  BY DEF Written
<1>4. Written(c, n, chunk) \in [1..m -> Chunk]
  BY <1>2, <1>3
<1> QED
  BY <1>1, <1>3, <1>4

LEMMA SharedInit == Init => SharedInv
<1> SUFFICES ASSUME Init PROVE SharedInv
  OBVIOUS
<1>1. (CHOOSE i \in Inputs : TRUE) \in Inputs
  BY CacheAssumption
<1>2. << >> \in Seq(Chunk)
  OBVIOUS
<1> QED
  BY <1>1, <1>2, SizeIs DEF Init, SharedInv, Shapes, ProcessTypes, Running, States, NoGrid

LEMMA SharedStart ==
  ASSUME SharedInv, NEW p \in Processes, NEW i \in Inputs, Start(p, i)
  PROVE  SharedInv'
<1>1. Shapes'
  BY DEF SharedInv, Shapes, Start, Goto, States
<1>2. /\ pc'[p] \in {"reading", "building"} /\ input'[p] = i /\ at'[p] = 0 /\ grid'[p] = << >>
      /\ \A q \in Processes : q # p =>
           pc'[q] = pc[q] /\ input'[q] = input[q] /\ at'[q] = at[q] /\ grid'[q] = grid[q]
      /\ file' = file /\ setting' = setting
      /\ pc'[p] = "reading" <=> FileOf(KeyOf[i]) \in DOMAIN file
  BY DEF SharedInv, Shapes, Start, Goto, NoGrid
<1>3. ASSUME NEW q \in Processes PROVE ProcessTypes(q)'
  <2>1. CASE q = p
    <3>1. << >> \in Seq(Chunk) /\ 0 \in 0..Size /\ 0 < Size
      BY SizeIs
    <3>2. File(p)' = FileOf(KeyOf[i])
      BY <1>2 DEF File, FileOf
    <3> QED
      BY <1>2, <2>1, <3>1, <3>2 DEF ProcessTypes, Running
  <2>2. CASE q # p
    BY <1>2, <2>2 DEF SharedInv, ProcessTypes, File, FileOf, Running
  <2> QED
    BY <2>1, <2>2
<1>4. \A f \in DOMAIN file' : FileTypes(f)'
  BY <1>2 DEF SharedInv, FileTypes, Files, FileOf
<1> QED
  BY <1>1, <1>3, <1>4 DEF SharedInv

LEMMA SharedReadNext ==
  ASSUME SharedInv, NEW p \in Processes, ReadNext(p)
  PROVE  SharedInv'
<1> DEFINE n == at[p] + 1
           content == file[File(p)]
<1>0. /\ pc[p] = "reading" /\ File(p) \in DOMAIN file /\ n \in 1..Size
      /\ content \in Seq(Chunk) /\ grid[p] \in Seq(Chunk)
  BY SizeIs DEF SharedInv, ProcessTypes, FileTypes, ReadNext, Running
<1>1. Shapes'
  BY DEF SharedInv, Shapes, ReadNext, Goto, States
<1>2. /\ \A q \in Processes : q # p => pc'[q] = pc[q] /\ at'[q] = at[q] /\ grid'[q] = grid[q]
      /\ file' = file /\ setting' = setting /\ input' = input
  BY DEF SharedInv, Shapes, ReadNext, Goto
<1>3. ProcessTypes(p)'
  <2>1. CASE Refused(content, n, KeyOf[input[p]])
    <3>1. pc'[p] = "refused" /\ at'[p] = at[p] /\ grid'[p] = grid[p]
      BY <2>1 DEF SharedInv, Shapes, ReadNext, Goto
    <3> QED
      BY <1>0, <3>1 DEF SharedInv, ProcessTypes, Running
  <2>2. CASE ~Refused(content, n, KeyOf[input[p]])
    <3>1. /\ at'[p] = n
          /\ grid'[p] = IF n = 1 THEN NoGrid ELSE Append(grid[p], content[n])
          /\ pc'[p] = IF LastChunk(n, content[n]) THEN "ready" ELSE "reading"
      BY <2>2 DEF SharedInv, Shapes, ReadNext, Goto
    <3>2. content[n] \in Chunk
      BY <1>0, <2>2, SizeIs DEF Refused
    <3>3. grid'[p] \in Seq(Chunk) /\ (n # 1 => grid'[p] # NoGrid)
      BY <1>0, <3>1, <3>2, SMTT(30) DEF NoGrid
    <3>4. LastChunk(n, content[n]) => n # 1
      BY SizeIs DEF LastChunk
    <3>5. ~LastChunk(n, content[n]) => n # Size
      BY DEF LastChunk
    <3> QED
      BY <1>0, <1>2, <3>1, <3>3, <3>4, <3>5, SizeIs DEF ProcessTypes, Running, File, FileOf
  <2> QED
    BY <2>1, <2>2
<1>4. ASSUME NEW q \in Processes, q # p PROVE ProcessTypes(q)'
  BY <1>2, <1>4 DEF SharedInv, ProcessTypes, File, FileOf, Running
<1>5. \A f \in DOMAIN file' : FileTypes(f)'
  BY <1>2 DEF SharedInv, FileTypes, Files, FileOf
<1> QED
  BY <1>1, <1>3, <1>4, <1>5 DEF SharedInv

LEMMA SharedBuildAndOpen ==
  ASSUME SharedInv, NEW p \in Processes, BuildAndOpen(p)
  PROVE  SharedInv'
<1>0. pc[p] = "building" /\ at[p] = 0 /\ input[p] \in Inputs
  BY DEF SharedInv, Shapes, ProcessTypes, BuildAndOpen
<1>1. Shapes'
  BY DEF SharedInv, Shapes, BuildAndOpen, Goto, States
<1>2. /\ pc'[p] = "writing" /\ grid'[p] = Tail(Image(input[p]))
      /\ \A q \in Processes : q # p => pc'[q] = pc[q] /\ grid'[q] = grid[q]
      /\ setting' = setting /\ input' = input /\ at' = at
      /\ DOMAIN file' = DOMAIN file \cup {File(p)}
      /\ file'[File(p)] = << >>
      /\ \A f \in DOMAIN file : f # File(p) => file'[f] = file[f]
  BY <1>0 DEF SharedInv, Shapes, BuildAndOpen, Goto
<1>3. ProcessTypes(p)'
  BY <1>0, <1>2, ImageIs, SizeIs DEF ProcessTypes, File, FileOf, Running
<1>4. ASSUME NEW q \in Processes, q # p PROVE ProcessTypes(q)'
  BY <1>2, <1>4 DEF SharedInv, ProcessTypes, File, FileOf, Running
<1>5. ASSUME NEW f \in DOMAIN file' PROVE FileTypes(f)'
  <2>1. File(p) \in Files /\ Files' = Files
    BY <1>0, <1>2 DEF File, Files, FileOf
  <2>2. CASE f = File(p)
    BY <1>2, <2>1, <2>2, SizeIs DEF FileTypes
  <2>3. CASE f # File(p)
    BY <1>2, <2>1, <2>3 DEF SharedInv, FileTypes
  <2> QED
    BY <2>2, <2>3
<1> QED
  BY <1>1, <1>3, <1>4, <1>5 DEF SharedInv

LEMMA SharedWriteNext ==
  ASSUME SharedInv, NEW p \in Processes, WriteNext(p)
  PROVE  SharedInv'
<1> DEFINE n == at[p] + 1
           c == file[File(p)]
           chunk == Image(input[p])[n]
<1>0. /\ pc[p] = "writing" /\ File(p) \in DOMAIN file /\ n \in 1..Size /\ input[p] \in Inputs
      /\ c \in Seq(Chunk) /\ Len(c) <= Size /\ chunk \in Chunk
  <2>1. pc[p] = "writing" /\ File(p) \in DOMAIN file /\ n \in 1..Size /\ input[p] \in Inputs
    BY SizeIs DEF SharedInv, Shapes, ProcessTypes, WriteNext, Running
  <2>2. c \in Seq(Chunk) /\ Len(c) <= Size
    BY <2>1 DEF SharedInv, FileTypes
  <2>3. chunk \in Chunk
    BY <2>1 DEF Chunk
  <2> QED
    BY <2>1, <2>2, <2>3
<1>1. Shapes'
  BY DEF SharedInv, Shapes, WriteNext, Goto, States
<1>2. /\ pc'[p] = IF n = Size THEN "ready" ELSE "writing"
      /\ at'[p] = n
      /\ \A q \in Processes : q # p => pc'[q] = pc[q] /\ at'[q] = at[q]
      /\ setting' = setting /\ input' = input /\ grid' = grid
      /\ DOMAIN file' = DOMAIN file
      /\ file'[File(p)] = Written(c, n, chunk)
      /\ \A f \in DOMAIN file : f # File(p) => file'[f] = file[f]
  BY <1>0 DEF SharedInv, Shapes, WriteNext, Goto
<1>3. ProcessTypes(p)'
  BY <1>0, <1>2, SizeIs DEF SharedInv, ProcessTypes, File, FileOf, Running
<1>4. ASSUME NEW q \in Processes, q # p PROVE ProcessTypes(q)'
  BY <1>2, <1>4 DEF SharedInv, ProcessTypes, File, FileOf, Running
<1>5. ASSUME NEW f \in DOMAIN file' PROVE FileTypes(f)'
  <2>1. File(p) \in Files /\ Files' = Files
    BY <1>0, <1>2 DEF File, Files, FileOf
  <2>2. CASE f = File(p)
    <3>1. /\ file'[f] \in Seq(Chunk)
          /\ Len(file'[f]) = (IF n > Len(c) THEN n ELSE Len(c))
          /\ \A k \in 1..Len(file'[f]) :
               file'[f][k] = IF k = n THEN chunk ELSE IF k <= Len(c) THEN c[k] ELSE Hole
      <4>1. file'[f] = Written(c, n, chunk)
        BY <1>2, <2>2
      <4> HIDE DEF c, n, chunk
      <4>2. /\ Written(c, n, chunk) \in Seq(Chunk)
            /\ Len(Written(c, n, chunk)) = (IF n > Len(c) THEN n ELSE Len(c))
            /\ \A k \in 1..Len(Written(c, n, chunk)) :
                 Written(c, n, chunk)[k] =
                   IF k = n THEN chunk ELSE IF k <= Len(c) THEN c[k] ELSE Hole
        BY <1>0, WrittenIs, ZenonT(30)
      <4> QED
        BY <4>1, <4>2
    <3>2. Len(file'[f]) <= Size
      BY <1>0, <3>1, SizeIs
    <3>3. ASSUME NEW k \in 1..Len(file'[f])
          PROVE  file'[f][k] = Hole \/ \E i \in Inputs : file'[f][k] = Image(i)[k]
      <4>1. k <= Len(c) => c[k] = Hole \/ \E i \in Inputs : c[k] = Image(i)[k]
        BY <1>0, <3>1 DEF SharedInv, FileTypes
      <4> QED
        BY <1>0, <3>1, <4>1
    <3> QED
      BY <2>1, <2>2, <3>1, <3>2, <3>3 DEF FileTypes
  <2>3. CASE f # File(p)
    BY <1>2, <2>1, <2>3 DEF SharedInv, FileTypes
  <2> QED
    BY <2>2, <2>3
<1> QED
  BY <1>1, <1>3, <1>4, <1>5 DEF SharedInv

LEMMA SharedFailures ==
  ASSUME SharedInv, NEW p \in Processes, LoseLastChunk(p) \/ Die(p)
  PROVE  SharedInv'
<1>1. Shapes'
  BY DEF SharedInv, Shapes, LoseLastChunk, Die, Goto, States
<1>2. /\ \/ pc'[p] = "idle" /\ at'[p] = 0 /\ grid'[p] = << >>
         \/ pc'[p] = "ready" /\ pc[p] = "writing" /\ at'[p] = at[p] /\ grid'[p] = grid[p]
      /\ \A q \in Processes : q # p => pc'[q] = pc[q] /\ at'[q] = at[q] /\ grid'[q] = grid[q]
      /\ file' = file /\ setting' = setting /\ input' = input
  BY DEF SharedInv, Shapes, LoseLastChunk, Die, Goto, NoGrid
<1>3. ProcessTypes(p)'
  <2>1. << >> \in Seq(Chunk) /\ 0 \in 0..Size
    BY SizeIs
  <2>2. at[p] \in 0..Size /\ grid[p] \in Seq(Chunk) /\ (pc[p] = "writing" => grid[p] # NoGrid)
    BY DEF SharedInv, ProcessTypes
  <2> QED
    BY <1>2, <2>1, <2>2 DEF ProcessTypes, Running
<1>4. ASSUME NEW q \in Processes, q # p PROVE ProcessTypes(q)'
  BY <1>2, <1>4 DEF SharedInv, ProcessTypes, File, FileOf, Running
<1>5. \A f \in DOMAIN file' : FileTypes(f)'
  BY <1>2 DEF SharedInv, FileTypes, Files, FileOf
<1> QED
  BY <1>1, <1>3, <1>4, <1>5 DEF SharedInv

LEMMA SharedStep == SharedInv /\ [Next]_vars => SharedInv'
<1> SUFFICES ASSUME SharedInv, [Next]_vars PROVE SharedInv'
  OBVIOUS
<1>1. ASSUME NEW p \in Processes, Work(p) \/ Die(p) PROVE SharedInv'
  BY <1>1, SharedReadNext, SharedBuildAndOpen, SharedWriteNext, SharedFailures DEF Work
<1>2. ASSUME NEW p \in Processes, NEW i \in Inputs, Start(p, i) PROVE SharedInv'
  BY <1>2, SharedStart
<1>3. CASE UNCHANGED vars
  BY <1>3 DEF vars, SharedInv, Shapes, ProcessTypes, FileTypes, Running, Files, FileOf, File
<1> QED
  BY <1>1, <1>2, <1>3 DEF Next

(* For any number of processes at a time and whatever fails, a process that *)
(* reads or writes has not gone beyond the last chunk, and one that goes    *)
(* ahead has a grid.                                                        *)
THEOREM SharedInvariant == Spec => []SharedInv
<1> QED
  BY SharedInit, SharedStep, PTL DEF Spec

(* Every variable has its type, for any number of processes at a time and   *)
(* whatever fails.                                                          *)
THEOREM CacheTypeCorrect == Spec => []CacheTypeOK
<1>1. SharedInv => CacheTypeOK
  BY DEF SharedInv, Shapes, ProcessTypes, FileTypes, CacheTypeOK, States
<1> QED
  BY <1>1, SharedInvariant, PTL

-----------------------------------------------------------------------------
(***************************************************************************)
(* Processes that truncate and overwrite one another's files.  A chunk     *)
(* that is not what it should be, or is not there, is still to come from a *)
(* process that has not reached it: whoever truncates the file begins at   *)
(* its beginning.                                                          *)
(***************************************************************************)
Right(f, i, n) == n <= Len(file[f]) /\ file[f][n] = Image(i)[n]
ToCome(f, n) == \E p \in Processes : pc[p] = "writing" /\ File(p) = f /\ at[p] < n
AllToCome ==
  \A f \in DOMAIN file, i \in Inputs :
    FileOf(KeyOf[i]) = f => \A n \in 1..Size : Right(f, i, n) \/ ToCome(f, n)

Orderly == NoFailures /\ NoCollisions

(* Steps that write nothing and stop nobody who writes. *)
LEMMA ToComeRests ==
  ASSUME AllToCome, file' = file, setting' = setting,
         \A q \in Processes : pc[q] = "writing" =>
           pc'[q] = "writing" /\ input'[q] = input[q] /\ at'[q] = at[q]
  PROVE  AllToCome'
<1> SUFFICES ASSUME NEW f \in DOMAIN file, NEW i \in Inputs, FileOf(KeyOf[i]) = f,
                    NEW n \in 1..Size
             PROVE  Right(f, i, n)' \/ ToCome(f, n)'
  BY DEF AllToCome, FileOf
<1>1. CASE Right(f, i, n)
  BY <1>1 DEF Right
<1>2. CASE ToCome(f, n)
  BY <1>2 DEF ToCome, File, FileOf
<1> QED
  BY <1>1, <1>2 DEF AllToCome

LEMMA BuildAndOpenToCome ==
  ASSUME SharedInv, AllToCome, NEW p \in Processes, BuildAndOpen(p)
  PROVE  AllToCome'
<1>1. /\ pc[p] = "building" /\ at[p] = 0 /\ pc'[p] = "writing"
      /\ \A q \in Processes : q # p => pc'[q] = pc[q]
      /\ setting' = setting /\ input' = input /\ at' = at
      /\ DOMAIN file' = DOMAIN file \cup {File(p)}
      /\ \A f \in DOMAIN file : f # File(p) => file'[f] = file[f]
  BY DEF SharedInv, Shapes, ProcessTypes, BuildAndOpen, Goto
<1> SUFFICES ASSUME NEW f \in DOMAIN file', NEW i \in Inputs, FileOf(KeyOf[i]) = f,
                    NEW n \in 1..Size
             PROVE  Right(f, i, n)' \/ ToCome(f, n)'
  BY <1>1 DEF AllToCome, FileOf
<1>2. CASE f = File(p)
  <2>1. File(p)' = f /\ at'[p] < n
    BY <1>1, <1>2, SizeIs DEF File, FileOf
  <2> QED
    BY <1>1, <2>1 DEF ToCome
<1>3. CASE f # File(p) /\ Right(f, i, n)
  BY <1>1, <1>3 DEF Right
<1>4. CASE f # File(p) /\ ToCome(f, n)
  <2>1. PICK q \in Processes : pc[q] = "writing" /\ File(q) = f /\ at[q] < n
    BY <1>4 DEF ToCome
  <2>2. q # p
    BY <1>1, <2>1
  <2> QED
    BY <1>1, <2>1, <2>2 DEF ToCome, File, FileOf
<1> QED
  BY <1>1, <1>2, <1>3, <1>4 DEF AllToCome

LEMMA WriteNextToCome ==
  ASSUME SharedInv, AllToCome, NoCollisions, NEW p \in Processes, WriteNext(p)
  PROVE  AllToCome'
<1> DEFINE m == at[p] + 1
           c == file[File(p)]
           chunk == Image(input[p])[m]
<1>1. /\ pc[p] = "writing" /\ File(p) \in DOMAIN file /\ m \in 1..Size /\ input[p] \in Inputs
      /\ at[p] \in Nat /\ c \in Seq(Chunk) /\ Len(c) <= Size /\ chunk \in Chunk
  <2>1. /\ pc[p] = "writing" /\ File(p) \in DOMAIN file /\ at[p] \in Nat /\ m \in 1..Size
        /\ input[p] \in Inputs
    BY SizeIs DEF SharedInv, Shapes, ProcessTypes, WriteNext, Running
  <2>2. c \in Seq(Chunk) /\ Len(c) <= Size
    BY <2>1 DEF SharedInv, FileTypes
  <2>3. chunk \in Chunk
    BY <2>1 DEF Chunk
  <2> QED
    BY <2>1, <2>2, <2>3
<1>2. /\ pc'[p] = IF m = Size THEN "ready" ELSE "writing"
      /\ at'[p] = m
      /\ \A q \in Processes : q # p => pc'[q] = pc[q] /\ at'[q] = at[q]
      /\ setting' = setting /\ input' = input
      /\ DOMAIN file' = DOMAIN file
      /\ file'[File(p)] = Written(c, m, chunk)
      /\ \A f \in DOMAIN file : f # File(p) => file'[f] = file[f]
  BY <1>1 DEF SharedInv, Shapes, WriteNext, Goto
<1>3. /\ Len(Written(c, m, chunk)) = (IF m > Len(c) THEN m ELSE Len(c))
      /\ \A k \in 1..Len(Written(c, m, chunk)) :
           Written(c, m, chunk)[k] = IF k = m THEN chunk ELSE IF k <= Len(c) THEN c[k] ELSE Hole
  <2> HIDE DEF c, m, chunk
  <2> QED
    BY <1>1, WrittenIs, ZenonT(30)
<1> SUFFICES ASSUME NEW f \in DOMAIN file, NEW i \in Inputs, FileOf(KeyOf[i]) = f,
                    NEW n \in 1..Size
             PROVE  Right(f, i, n)' \/ ToCome(f, n)'
  BY <1>2 DEF AllToCome, FileOf
<1>4. CASE f = File(p) /\ n = m
  <2>1. i = input[p]
    BY <1>1, <1>4, KeyAssumption DEF NoCollisions, File
  <2>2. n <= Len(Written(c, m, chunk)) /\ Written(c, m, chunk)[n] = chunk
    BY <1>1, <1>3, <1>4, SizeIs
  <2> QED
    BY <1>2, <1>4, <2>1, <2>2 DEF Right
<1>5. CASE f = File(p) /\ n # m /\ Right(f, i, n)
  <2>1. n <= Len(Written(c, m, chunk)) /\ Written(c, m, chunk)[n] = c[n]
    BY <1>1, <1>3, <1>5, SizeIs DEF Right
  <2> QED
    BY <1>2, <1>5, <2>1 DEF Right
<1>6. CASE f # File(p) /\ Right(f, i, n)
  BY <1>2, <1>6 DEF Right
<1>7. CASE ToCome(f, n) /\ ~(f = File(p) /\ n = m)
  <2>1. PICK q \in Processes : pc[q] = "writing" /\ File(q) = f /\ at[q] < n
    BY <1>7 DEF ToCome
  <2>2. CASE q # p
    BY <1>2, <2>1, <2>2 DEF ToCome, File, FileOf
  <2>3. CASE q = p
    <3>1. m < n /\ m # Size
      BY <1>1, <1>7, <2>1, <2>3, SizeIs
    <3>2. pc'[p] = "writing" /\ at'[p] < n /\ File(p)' = f
      BY <1>2, <2>1, <2>3, <3>1 DEF File, FileOf
    <3> QED
      BY <3>2 DEF ToCome
  <2> QED
    BY <2>2, <2>3
<1> QED
  BY <1>4, <1>5, <1>6, <1>7 DEF AllToCome

(* As long as nobody is killed, no flush is lost and no two keys share a   *)
(* name: once no process runs, each file of the directory is the whole     *)
(* grid of its input, in whatever order processes that found it missing    *)
(* have truncated it and written over one another.                         *)
THEOREM FilesComplete == Spec => []FilesEndComplete
<1>1. Init => (Orderly => AllToCome)
  BY DEF Init, AllToCome
<1>2. SharedInv /\ (Orderly => AllToCome) /\ [Next]_vars => (Orderly => AllToCome)'
  <2> SUFFICES ASSUME SharedInv, Orderly => AllToCome, [Next]_vars, Orderly' PROVE AllToCome'
    OBVIOUS
  <2>1. setting' = setting
    BY DEF Next, vars, Work, ReadNext, BuildAndOpen, WriteNext, LoseLastChunk, Die, Start
  <2>2. Orderly /\ AllToCome
    BY <2>1 DEF Orderly, NoFailures, NoCollisions, FileOf
  <2>3. ASSUME NEW p \in Processes, ReadNext(p) PROVE AllToCome'
    <3>1. \A q \in Processes : pc[q] = "writing" =>
            pc'[q] = "writing" /\ input'[q] = input[q] /\ at'[q] = at[q]
      BY <2>3 DEF SharedInv, Shapes, ReadNext, Goto
    <3> QED
      BY <2>1, <2>2, <2>3, <3>1, ToComeRests DEF ReadNext
  <2>4. ASSUME NEW p \in Processes, BuildAndOpen(p) PROVE AllToCome'
    BY <2>2, <2>4, BuildAndOpenToCome
  <2>5. ASSUME NEW p \in Processes, WriteNext(p) PROVE AllToCome'
    BY <2>2, <2>5, WriteNextToCome DEF Orderly
  <2>6. ASSUME NEW p \in Processes, LoseLastChunk(p) \/ Die(p) PROVE AllToCome'
    BY <2>2, <2>6 DEF Orderly, NoFailures, LoseLastChunk, Die
  <2>7. ASSUME NEW p \in Processes, NEW i \in Inputs, Start(p, i) PROVE AllToCome'
    <3>1. \A q \in Processes : pc[q] = "writing" =>
            pc'[q] = "writing" /\ input'[q] = input[q] /\ at'[q] = at[q]
      BY <2>7 DEF SharedInv, Shapes, Start, Goto, Running
    <3> QED
      BY <2>1, <2>2, <2>7, <3>1, ToComeRests DEF Start
  <2>8. CASE UNCHANGED vars
    BY <2>1, <2>2, <2>8, ToComeRests DEF vars
  <2> QED
    BY <2>3, <2>4, <2>5, <2>6, <2>7, <2>8 DEF Next, Work
<1>3. SharedInv /\ (Orderly => AllToCome) => FilesEndComplete
  <2> SUFFICES ASSUME SharedInv, AllToCome, Running = {}, NEW f \in DOMAIN file
               PROVE  Complete(file[f])
    BY DEF FilesEndComplete, Orderly
  <2>1. PICK i \in Inputs : FileOf(KeyOf[i]) = f
    BY DEF SharedInv, FileTypes, Files
  <2>2. \A n \in 1..Size : Right(f, i, n)
    BY <2>1 DEF AllToCome, ToCome, Running
  <2>3. file[f] \in Seq(Chunk) /\ Len(file[f]) <= Size
    BY DEF SharedInv, FileTypes
  <2>4. Size \in 1..Size /\ Len(file[f]) \in Nat
    BY <2>3, SizeIs
  <2>5. Len(file[f]) = Size /\ \A n \in 1..Size : file[f][n] = Image(i)[n]
    BY <2>2, <2>3, <2>4, SizeIs DEF Right
  <2>6. file[f] = Image(i)
    BY <2>3, <2>5, ImageIs, SizeIs
  <2> QED
    BY <2>6 DEF Complete
<1> QED
  BY <1>1, <1>2, <1>3, SharedInvariant, PTL DEF Spec
=============================================================================
