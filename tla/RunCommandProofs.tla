--------------------------- MODULE RunCommandProofs ---------------------------
(***************************************************************************)
(* Proofs about RunCommand: for every configuration file and every CIF,    *)
(* and any number of commands on them.                                     *)
(***************************************************************************)
EXTENDS RunCommand, TLAPS, WellFoundedInduction

AllCommands == {"validate", "gcmc run", "pore analyze"}
Places == {"load", "read", "replicate", "tile", "parameters", "peek", "print", "grid", "write",
           "equilibrate", "produce", "analyze", "report", "done", "undefined"}

(* Count m of cells along axis a is the least that is wide enough. *)
Least(f, w, m, a) ==
  /\ 2 * ValueOf(f, "cutoff_angstrom") < m * w.widths[a]
  /\ m > 1 => (m - 1) * w.widths[a] <= 2 * ValueOf(f, "cutoff_angstrom")

Parsed(f, w, kind) ==
  \/ kind = "Gcmc" /\ loadGcmcConfig(f, Len(w.widths))
  \/ kind = "Pore" /\ loadPoreConfig(f)

Readable(w, kind) ==
  w.wellFormed /\ (kind = "Pore" => \A p \in DOMAIN w.atoms : w.atoms[p] \in RadiusTable)

Parametrised(f, w) ==
  \A p \in DOMAIN w.atoms :
    \E i \in DOMAIN f.framework_lj : f.framework_lj[i].element = w.atoms[p]

HeaderBad(f, w) == Given(f, "energy_grid_spacing_angstrom") /\ w.cache = "bad header"

(* The counts along the axes are m; an override, if any, is no lower. *)
Counted(f, w, m) ==
  \A a \in DOMAIN w.widths :
    Least(f, w, m[a], a) /\ (f.supercell # Absent => Requested(f)[a] >= m[a])

(* What the success of a dry run says of the file and what it meets. *)
Passes(f, w, c, kind) ==
  /\ Parsed(f, w, kind)
  /\ Readable(w, kind)
  /\ kind = "Gcmc" =>
       /\ \E m \in [DOMAIN w.widths -> 1..IntMax] : Counted(f, w, m)
       /\ Parametrised(f, w)
       /\ c = "gcmc run" => ~HeaderBad(f, w)

-----------------------------------------------------------------------------
(* The inductive invariant. *)

Types ==
  /\ file \in Files /\ world \in Worlds
  /\ command \in AllCommands /\ dryRun \in BOOLEAN
  /\ pc \in Places
  /\ axis \in Nat \ {0} /\ n \in [Axes -> 1..IntMax]
  /\ supercell \in [Axes -> Nat \ {0}]
  /\ engineSteps \in Nat /\ samples \in Nat
  /\ status \in {-1, 0, 1, 136}
  /\ commands \in 0..MaxCommands

(* Which command gets where, and what it has found in order by then. *)
Course ==
  /\ command = "validate" => dryRun
  /\ pc \in {"replicate", "tile", "parameters", "peek", "grid", "equilibrate", "produce", "undefined"}
       => Kind = "Gcmc"
  /\ pc = "analyze" => Kind = "Pore"
  /\ pc \in {"grid", "write", "equilibrate", "produce", "analyze", "report"} => ~dryRun
  /\ pc \in {"peek", "print"} => dryRun
  /\ pc = "peek" => command # "validate"
  /\ pc \notin {"load", "done"} => Parsed(file, world, Kind)
  /\ pc \notin {"load", "read", "done"} => Readable(world, Kind)
  /\ pc \in {"peek", "print", "grid", "write", "equilibrate", "produce", "report"} /\ Kind = "Gcmc"
       => Parametrised(file, world)
  /\ pc = "print" /\ command = "gcmc run" => ~HeaderBad(file, world)

(* How far the loop over the axes has come. *)
Counting ==
  /\ pc \in {"load", "read"} => axis = 1 /\ n = OneCell
  /\ pc = "replicate" =>
       /\ axis \in 1..(Len(world.widths) + 1)
       /\ \A a \in Axes :
            /\ a < axis => Least(file, world, n[a], a)
            /\ a = axis /\ n[a] > 1 =>
                 (n[a] - 1) * world.widths[a] <= 2 * ValueOf(file, "cutoff_angstrom")
            /\ a > axis => n[a] = 1

(* The replication, once it is chosen. *)
Chosen ==
  pc = "tile" \/ Prepared =>
    /\ Counted(file, world, n)
    /\ supercell = IF file.supercell = Absent THEN n ELSE Requested(file)

(* The engine has made each step of the batches so far, and sampled it. *)
Sampling ==
  /\ pc \in {"produce", "report"} /\ Kind = "Gcmc" =>
       /\ stepsRun \in 0..ProductionSteps /\ inBatch \in 0..ThisBatch
       /\ samples = stepsRun + inBatch
       /\ engineSteps = ValueOf(file, "equilibration_steps") + samples
  /\ pc = "report" => stepsRun >= ProductionSteps \/ Kind # "Gcmc"
  /\ pc \notin {"produce", "report", "done"} => stepsRun = 0 /\ inBatch = 0 /\ samples = 0

Artifact == pc \in {"equilibrate", "produce", "report"} => artifact = Json

(* The success of a dry run means what Passes says, and a run that was      *)
(* vouched for does not fail.                                               *)
Vouching ==
  /\ vouched \subseteq AllCommands \X {"Gcmc", "Pore"}
  /\ \A v \in vouched : Passes(file, world, v[1], v[2])
  /\ pc = "done" /\ status = 0 => Kind \in {"Gcmc", "Pore"}
  /\ pc = "done" /\ status = 0 /\ dryRun => Passes(file, world, command, Kind)
  /\ pc \in {"replicate", "tile", "analyze"} =>
       particles = [p \in Atoms |-> [atom |-> p, image |-> [a \in Axes |-> 0]]]
  /\ VouchedRunsSucceed

(* The labels and the particles, before the cell is tiled and after.        *)
Tiling ==
  /\ pc \in {"replicate", "tile"} => sourceLabel = [p \in Atoms |-> p]
  /\ TiledInLockstep

CommandInv ==
  Types /\ Course /\ Counting /\ Chosen /\ Sampling /\ Artifact /\ Vouching /\ Tiling

-----------------------------------------------------------------------------
(* What is known of the files and of what they meet. *)

LEMMA InputFacts ==
  ASSUME file \in Files, world \in Worlds
  PROVE  /\ IsFile(file) /\ IsWorld(world)
         /\ Len(world.widths) \in Nat \ {0} /\ Axes = 1..Len(world.widths)
         /\ \A a \in Axes : world.widths[a] \in Nat \ {0}
         /\ Len(world.atoms) \in Nat /\ Atoms = 1..Len(world.atoms)
         /\ (world.atoms = << >>) <=> (Len(world.atoms) = 0)
         /\ IntMax \in Nat \ {0}
  <1>1. IsFile(file) /\ IsWorld(world) /\ UnsignedRange \in Nat /\ UnsignedRange >= 4
    BY CommandAssumption
  <1>2. /\ world.widths \in Seq(Nat \ {0}) /\ world.widths # << >>
        /\ world.atoms \in Seq({world.atoms[p] : p \in DOMAIN world.atoms})
    BY <1>1 DEF IsWorld
  <1>3. Len(world.atoms) \in Nat /\ Atoms = 1..Len(world.atoms)
    BY <1>2 DEF Atoms
  <1>4. (world.atoms = << >>) <=> (Len(world.atoms) = 0)
    BY <1>2
  <1>5. IntMax \in Nat \ {0}
    BY <1>1 DEF IntMax
  <1> QED BY <1>1, <1>2, <1>3, <1>4, <1>5 DEF Axes

(* The numbers of an accepted file, defaults included. *)
LEMMA Numbers ==
  ASSUME file \in Files, world \in Worlds, loadGcmcConfig(file, Len(world.widths))
  PROVE  /\ Cutoff \in Nat \ {0}
         /\ ProductionSteps \in Nat \ {0}
         /\ ValueOf(file, "equilibration_steps") \in Nat
  <1>1. file.node \in [Keys -> Int \cup {Absent, Mistyped, NotANumber}]
    BY InputFacts DEF IsFile
  <1>2. ASSUME NEW k \in GcmcKeys PROVE KeyOK(file, k) /\ k \in Keys
    BY <1>2 DEF loadGcmcConfig, Keys
  <1>3. {"cutoff_angstrom", "production_steps", "equilibration_steps"} \subseteq GcmcKeys
    BY DEF GcmcKeys
  <1>4. Cutoff \in Nat \ {0}
    <2>1. KeyOK(file, "cutoff_angstrom") /\ "cutoff_angstrom" \in Keys /\ "cutoff_angstrom" \in Positive
      BY <1>2, <1>3 DEF Positive
    <2>2. CASE Given(file, "cutoff_angstrom")
      BY <1>1, <2>1, <2>2 DEF KeyOK, IsPositive, Given, Cutoff, ValueOf
    <2>3. CASE ~Given(file, "cutoff_angstrom")
      BY <2>3, CommandAssumption DEF Cutoff, ValueOf
    <2> QED BY <2>2, <2>3
  <1>5. ASSUME NEW k \in {"production_steps", "equilibration_steps"}, Given(file, k)
        PROVE  ValueOf(file, k) \in Int
    <2>1. KeyOK(file, k) /\ k \in Keys /\ k \in Integral
      BY <1>2, <1>3 DEF Integral
    <2> QED BY <1>1, <1>5, <2>1 DEF KeyOK, Given, ValueOf
  <1>6. StepsOK(file)
    BY DEF loadGcmcConfig
  <1>7. ProductionSteps \in Nat \ {0}
    BY <1>5, <1>6, CommandAssumption DEF StepsOK, ProductionSteps, ValueOf
  <1>8. ValueOf(file, "equilibration_steps") \in Nat
    BY <1>5, <1>6, CommandAssumption DEF StepsOK, ValueOf
  <1> QED BY <1>4, <1>7, <1>8

(* An accepted override has an int for every axis. *)
LEMMA OverrideFacts ==
  ASSUME file \in Files, world \in Worlds, loadGcmcConfig(file, Len(world.widths)),
         file.supercell # Absent
  PROVE  Requested(file) \in [Axes -> Int]
  <1>1. file.supercell \in Seq(Int) /\ Len(file.supercell) = Len(world.widths)
    BY InputFacts DEF loadGcmcConfig, SupercellOK, IsFile
  <1>2. DOMAIN file.supercell = Axes
    BY <1>1, InputFacts
  <1>3. ASSUME NEW v \in Int PROVE AsInt(v) \in Int
    <2>1. v % UnsignedRange \in Int
      BY CommandAssumption
    <2> QED BY <2>1, CommandAssumption DEF AsInt
  <1> QED BY <1>1, <1>2, <1>3 DEF Requested

LEMMA InputKept ==
  ASSUME Next
  PROVE  file' = file /\ world' = world
  BY DEF Next, Prepare, Inspect, Run, Load, ReadCif, Widen, Choose, Tile, Parameters, PeekAtCache,
         PrintConfig, GetGrid, WriteResolvedConfig, Equilibrate, ProductionStep, EndBatch,
         EndProduction, Analyze, Report, NextCommand, input

LEMMA KindKept ==
  ASSUME file' = file, command' = command
  PROVE  Kind' = Kind
  BY DEF Kind

LEMMA OneCellFacts ==
  ASSUME file \in Files, world \in Worlds
  PROVE  OneCell \in [Axes -> 1..IntMax] /\ OneCell \in [Axes -> Nat \ {0}]
  BY InputFacts DEF OneCell

LEMMA InitInv ==
  ASSUME Init
  PROVE  CommandInv
  <1>1. /\ file \in Files /\ world \in Worlds
        /\ OneCell \in [Axes -> 1..IntMax] /\ OneCell \in [Axes -> Nat \ {0}]
    BY OneCellFacts DEF Init
  <1>2. Types
    <2>1. dryRun \in BOOLEAN
      BY Zenon DEF Init
    <2>2. /\ command \in AllCommands /\ commands = 0 /\ pc = "load" /\ status = -1
          /\ axis = 1 /\ n = OneCell /\ supercell = OneCell /\ engineSteps = 0 /\ samples = 0
      BY Zenon DEF Init, AllCommands
    <2> QED BY <1>1, <2>1, <2>2, CommandAssumption DEF Types, Places
  <1>3. Course /\ Counting /\ Chosen /\ Sampling /\ Artifact
    BY DEF Init, Course, Counting, Chosen, Prepared, Sampling, Artifact
  <1>4. Vouching
    BY DEF Init, Vouching, VouchedRunsSucceed
  <1>5. Tiling
    BY DEF Init, Tiling, TiledInLockstep, Prepared
  <1> QED BY <1>2, <1>3, <1>4, <1>5 DEF CommandInv

LEMMA TypesStep ==
  ASSUME CommandInv, Next
  PROVE  Types'
  <1>1. /\ Types /\ file' = file /\ world' = world /\ Axes' = Axes
        /\ file \in Files /\ world \in Worlds
    BY InputKept DEF CommandInv, Types, Axes
  <1> USE <1>1 DEF Types, Places, Exit, Goto, input, which, counting, structure, sampling, session
  <1>2. CASE Load
    BY <1>2 DEF Load
  <1>3. CASE ReadCif
    BY <1>3 DEF ReadCif
  <1>4. CASE Widen
    BY <1>4, InputFacts DEF Widen
  <1>5. CASE Choose
    <2>1. CASE supercell' = n /\ pc' = "tile"
      BY <1>5, <2>1, InputFacts DEF Choose
    <2>2. CASE supercell' = Requested(file) /\ pc' = "tile" /\ OverrideIsUpward
                 /\ file.supercell # Absent
      <3>1. loadGcmcConfig(file, Len(world.widths))
        BY <1>5 DEF Choose, CommandInv, Course, Parsed
      <3>2. Requested(file) \in [Axes -> Int]
        BY <2>2, <3>1, OverrideFacts
      <3>3. \A a \in Axes : Requested(file)[a] \in Nat \ {0}
        BY <2>2, <3>2, InputFacts DEF OverrideIsUpward
      <3>4. supercell' \in [Axes -> Nat \ {0}]
        BY <2>2, <3>2, <3>3
      <3> QED BY <1>5, <2>2, <3>4 DEF Choose
    <2>3. CASE supercell' = supercell /\ pc' = "done" /\ status' = 1
      BY <1>5, <2>3 DEF Choose
    <2> QED BY <1>5, <2>1, <2>2, <2>3 DEF Choose
  <1>6. CASE Tile
    BY <1>6 DEF Tile
  <1>7. CASE Parameters
    BY <1>7 DEF Parameters, AfterParameters
  <1>8. CASE Inspect
    BY <1>8 DEF Inspect, PeekAtCache, PrintConfig
  <1>9. CASE GetGrid \/ EndProduction \/ Analyze \/ Report
    <2>1. /\ UNCHANGED <<input, which, counting, structure, sampling, session>>
          /\ pc' \in Places /\ status' \in {status, 0, 1}
      BY <1>9 DEF GetGrid, AfterGrid, EndProduction, Analyze, Report
    <2> QED BY <2>1
  <1>13. CASE WriteResolvedConfig
    BY <1>13 DEF WriteResolvedConfig
  <1>10. CASE Equilibrate
    <2>1. loadGcmcConfig(file, Len(world.widths))
      BY <1>10 DEF Equilibrate, CommandInv, Course, Parsed
    <2> QED BY <1>10, <2>1, Numbers DEF Equilibrate
  <1>11. CASE ProductionStep \/ EndBatch
    BY <1>11 DEF ProductionStep, EndBatch
  <1>12. CASE NextCommand
    <2>1. OneCell \in [Axes -> 1..IntMax] /\ OneCell \in [Axes -> Nat \ {0}]
      BY OneCellFacts
    <2>2. dryRun' \in BOOLEAN
      BY <1>12, Zenon DEF NextCommand
    <2>3. /\ command' \in AllCommands /\ commands < MaxCommands /\ commands' = commands + 1
          /\ pc' = "load" /\ status' = -1 /\ axis' = 1
          /\ n' = OneCell /\ supercell' = OneCell /\ engineSteps' = 0 /\ samples' = 0
      BY <1>12, Zenon DEF NextCommand, AllCommands
    <2> QED BY <2>1, <2>2, <2>3, CommandAssumption
  <1> QED BY <1>2, <1>3, <1>4, <1>5, <1>6, <1>7, <1>8, <1>9, <1>10, <1>11, <1>12, <1>13
          DEF Next, Prepare, Run

(* A step within a command keeps what the command is. *)
LEMMA CommandKept ==
  ASSUME Prepare \/ Inspect \/ Run
  PROVE  /\ file' = file /\ world' = world /\ command' = command /\ dryRun' = dryRun
         /\ Kind' = Kind /\ vouched' = vouched /\ commands' = commands
  <1>1. /\ file' = file /\ world' = world /\ command' = command /\ dryRun' = dryRun
        /\ vouched' = vouched /\ commands' = commands
    BY DEF Prepare, Inspect, Run, Load, ReadCif, Widen, Choose, Tile, Parameters, PeekAtCache,
           PrintConfig, GetGrid, WriteResolvedConfig, Equilibrate, ProductionStep, EndBatch,
           EndProduction, Analyze, Report, input, which, session
  <1> QED BY <1>1, KindKept

LEMMA CourseStep ==
  ASSUME CommandInv, Next
  PROVE  Course'
  <1>1. Course
    BY DEF CommandInv
  <1>2. CASE NextCommand
    BY <1>2 DEF NextCommand, Course
  <1>3. CASE Prepare \/ Inspect \/ Run
    <2>1. /\ file' = file /\ world' = world /\ command' = command /\ dryRun' = dryRun
          /\ Kind' = Kind
      BY <1>3, CommandKept
    <2>2. command = "gcmc run" => Kind = "Gcmc"
      BY DEF Kind
    <2> USE <1>1, <2>1, <2>2 DEF Course, Exit, Goto
    <2>3. CASE Load
      BY <2>3 DEF Load, Parsed
    <2>4. CASE ReadCif
      <3>1. pc = "read" /\ Parsed(file, world, Kind) /\ Kind \in {"Gcmc", "Pore"}
        BY <2>4 DEF ReadCif, Parsed
      <3>2. CASE pc' = "done"
        BY <3>2
      <3>3. CASE /\ Readable(world, Kind)
                 /\ pc' = IF Kind = "Gcmc" THEN "replicate" ELSE IF dryRun THEN "print" ELSE "analyze"
        BY <3>1, <3>3
      <3> QED BY <2>4, <3>2, <3>3 DEF ReadCif, Readable, Atoms
    <2>5. CASE Widen
      BY <2>5 DEF Widen
    <2>6. CASE Choose
      BY <2>6 DEF Choose
    <2>7. CASE Tile
      BY <2>7 DEF Tile
    <2>8. CASE Parameters
      <3>1. CASE pc' = "done"
        BY <3>1
      <3>2. CASE Parametrised(file, world) /\ pc' = AfterParameters
        BY <2>8, <3>2 DEF Parameters, AfterParameters
      <3> QED BY <2>8, <3>1, <3>2 DEF Parameters, Parametrised, HasParameters, Atoms
    <2>9. CASE PeekAtCache
      BY <2>9 DEF PeekAtCache, HeaderIsBad, HeaderBad, UsesGrid
    <2>10. CASE PrintConfig \/ Report
      BY <2>10 DEF PrintConfig, Report
    <2>11. CASE GetGrid
      BY <2>11 DEF GetGrid, AfterGrid
    <2>12. CASE WriteResolvedConfig
      <3>1. CASE pc' = "done"
        BY <3>1
      <3>2. CASE pc' = IF Kind = "Gcmc" THEN "equilibrate" ELSE "report"
        BY <2>12, <3>2 DEF WriteResolvedConfig
      <3> QED BY <2>12, <3>1, <3>2 DEF WriteResolvedConfig
    <2>13. CASE Equilibrate
      BY <2>13 DEF Equilibrate
    <2>14. CASE ProductionStep \/ EndBatch
      BY <2>14 DEF ProductionStep, EndBatch
    <2>15. CASE EndProduction
      BY <2>15 DEF EndProduction
    <2>16. CASE Analyze
      BY <2>16 DEF Analyze
    <2> QED BY <1>3, <2>3, <2>4, <2>5, <2>6, <2>7, <2>8, <2>9, <2>10, <2>11, <2>12, <2>13, <2>14,
                <2>15, <2>16 DEF Prepare, Inspect, Run
  <1> QED BY <1>2, <1>3 DEF Next

LEMMA CountingStep ==
  ASSUME CommandInv, Next
  PROVE  Counting'
  <1>1. /\ Types /\ Counting /\ file' = file /\ world' = world /\ Axes' = Axes /\ OneCell' = OneCell
        /\ file \in Files /\ world \in Worlds
    BY InputKept DEF CommandInv, Types, Axes, OneCell
  <1>2. CASE NextCommand
    BY <1>1, <1>2 DEF NextCommand, Counting
  <1>3. CASE Load
    BY <1>1, <1>3 DEF Load, Counting, Exit, Goto, counting
  <1>4. CASE ReadCif
    <2>1. pc' \notin {"load", "read"} /\ axis' = 1 /\ n' = OneCell
      BY <1>1, <1>4 DEF ReadCif, Counting, Exit, Goto, counting
    <2> QED BY <1>1, <2>1, InputFacts DEF Counting, OneCell
  <1>5. CASE Widen
    <2>1. /\ axis \in Axes /\ Axes = 1..Len(world.widths) /\ Len(world.widths) \in Nat
          /\ n \in [Axes -> 1..IntMax] /\ IntMax \in Nat
          /\ \A a \in Axes : world.widths[a] \in Nat \ {0}
      BY <1>1, <1>5, InputFacts DEF Widen, Types
    <2>2. loadGcmcConfig(file, Len(world.widths))
      BY <1>5 DEF Widen, CommandInv, Course, Parsed
    <2>3. ValueOf(file, "cutoff_angstrom") \in Nat
      BY <1>1, <2>2, Numbers DEF Cutoff
    <2>4. CASE pc' = "undefined"
      BY <2>4 DEF Counting
    <2>5. CASE /\ n' = [n EXCEPT ![axis] = @ + 1] /\ axis' = axis
               /\ n[axis] * world.widths[axis] <= 2 * ValueOf(file, "cutoff_angstrom")
      <3>1. /\ n'[axis] = n[axis] + 1 /\ n'[axis] - 1 = n[axis]
            /\ \A a \in Axes \ {axis} : n'[a] = n[a]
        BY <2>1, <2>5
      <3> QED BY <1>1, <1>5, <2>1, <2>5, <3>1 DEF Counting, Widen
    <2>6. CASE /\ n' = n /\ axis' = axis + 1
               /\ ~(n[axis] * world.widths[axis] <= 2 * ValueOf(file, "cutoff_angstrom"))
      <3>1. Least(file, world, n[axis], axis)
        <4>1. n[axis] * world.widths[axis] \in Int
          BY <2>1
        <4> QED BY <1>1, <1>5, <2>1, <2>3, <2>6, <4>1 DEF Least, Counting, Widen
      <3>2. \A a \in Axes : a < axis' => a < axis \/ a = axis
        BY <2>1, <2>6
      <3> QED BY <1>1, <1>5, <2>1, <2>6, <3>1, <3>2 DEF Counting, Widen
    <2> QED BY <1>5, <2>4, <2>5, <2>6 DEF Widen, TooNarrow, Cutoff
  <1>6. CASE Choose \/ Tile \/ Parameters \/ Inspect
    BY <1>6 DEF Choose, Tile, Parameters, AfterParameters, Inspect, PeekAtCache, PrintConfig, Counting,
                Exit, Goto
  <1>7. CASE Run
    <2>1. pc' \notin {"load", "read", "replicate"}
      BY <1>7 DEF Run, GetGrid, AfterGrid, WriteResolvedConfig, Equilibrate, ProductionStep, EndBatch,
                  EndProduction, Analyze, Report, Exit, Goto
    <2> QED BY <2>1 DEF Counting
  <1> QED BY <1>2, <1>3, <1>4, <1>5, <1>6, <1>7 DEF Next, Prepare

(* Behind the last axis every count is the least. *)
LEMMA LeastAtChoice ==
  ASSUME CommandInv, Choose
  PROVE  \A a \in Axes : Least(file, world, n[a], a)
  <1>1. Counting /\ file \in Files /\ world \in Worlds
    BY DEF CommandInv, Types
  <1>2. axis \in 1..(Len(world.widths) + 1) /\ axis \notin 1..Len(world.widths)
    BY <1>1, InputFacts DEF Choose, Counting
  <1>3. \A a \in Axes : a < axis
    BY <1>1, <1>2, InputFacts
  <1> QED BY <1>1, <1>3 DEF Choose, Counting

LEMMA ChosenStep ==
  ASSUME CommandInv, Next
  PROVE  Chosen'
  <1>1. /\ Types /\ Counting /\ Chosen /\ file' = file /\ world' = world
        /\ file \in Files /\ world \in Worlds
    BY InputKept DEF CommandInv, Types
  <1>2. CASE NextCommand
    BY <1>2 DEF NextCommand, Chosen, Prepared
  <1>3. CASE Choose
    <2>1. \A a \in Axes : Least(file, world, n[a], a)
      BY <1>3, LeastAtChoice
    <2>2. CASE pc' = "tile"
      BY <1>1, <1>3, <2>1, <2>2
         DEF Choose, Chosen, Counted, OverrideIsUpward, Exit, Goto, counting, Axes
    <2>3. CASE pc' = "done"
      BY <2>3 DEF Chosen, Prepared
    <2> QED BY <1>3, <2>2, <2>3 DEF Choose, Exit, Goto
  <1>4. CASE (Prepare \/ Inspect \/ Run) /\ ~Choose
    <2>1. Kind' = Kind /\ Course
      BY <1>4, CommandKept DEF CommandInv
    <2>2. (pc = "tile" \/ Prepared)' => (pc = "tile" \/ Prepared) /\ n' = n /\ supercell' = supercell
      <3> USE <2>1 DEF Course, Prepared, Exit, Goto, counting, structure
      <3>1. CASE Load
        BY <3>1 DEF Load
      <3>2. CASE ReadCif
        BY <3>2 DEF ReadCif
      <3>3. CASE Widen
        BY <3>3 DEF Widen
      <3>4. CASE Tile
        BY <3>4 DEF Tile
      <3>5. CASE Parameters
        BY <3>5 DEF Parameters, AfterParameters
      <3>6. CASE Inspect
        BY <3>6 DEF Inspect, PeekAtCache, PrintConfig
      <3>7. CASE GetGrid
        BY <3>7 DEF GetGrid, AfterGrid
      <3>8. CASE WriteResolvedConfig
        BY <3>8 DEF WriteResolvedConfig
      <3>9. CASE Equilibrate
        BY <3>9 DEF Equilibrate
      <3>10. CASE ProductionStep \/ EndBatch
        BY <3>10 DEF ProductionStep, EndBatch
      <3>11. CASE EndProduction
        BY <3>11 DEF EndProduction
      <3>12. CASE Analyze \/ Report
        BY <3>12 DEF Analyze, Report
      <3> QED BY <1>4, <3>1, <3>2, <3>3, <3>4, <3>5, <3>6, <3>7, <3>8, <3>9, <3>10, <3>11, <3>12
              DEF Prepare, Run
    <2> QED BY <1>1, <2>2 DEF Chosen
  <1> QED BY <1>2, <1>3, <1>4 DEF Next

(* The cell that is chosen is wide enough, and no wider than it has to be.   *)
LEMMA ChosenIsMinimal ==
  ASSUME CommandInv, pc = "tile" \/ Prepared, NEW a \in Axes
  PROVE  /\ Cutoff \in Nat /\ Width(a) \in Nat /\ 2 * Cutoff < Width(a)
         /\ file.supercell = Absent /\ supercell[a] > 1 =>
              (supercell[a] - 1) * world.widths[a] <= 2 * Cutoff
  <1>1. /\ Least(file, world, n[a], a)
        /\ file.supercell # Absent => supercell[a] >= n[a]
        /\ file.supercell = Absent => supercell[a] = n[a]
    BY DEF CommandInv, Chosen, Counted, Axes
  <1>2. /\ n[a] \in Nat /\ supercell[a] \in Nat /\ world.widths[a] \in Nat
        /\ n[a] * world.widths[a] \in Nat /\ supercell[a] * world.widths[a] \in Nat
    BY InputFacts DEF CommandInv, Types
  <1>3. Cutoff \in Nat
    <2>1. Kind = "Gcmc" /\ pc \notin {"load", "done"}
      BY DEF Prepared, CommandInv, Course
    <2> QED BY <2>1, Numbers DEF CommandInv, Course, Parsed, Types
  <1>4. supercell[a] >= n[a] => n[a] * world.widths[a] <= supercell[a] * world.widths[a]
    BY <1>2
  <1> QED BY <1>1, <1>2, <1>3, <1>4 DEF Least, Width, Cutoff

-----------------------------------------------------------------------------
(* Sampling. *)

LEMMA BatchFacts ==
  ASSUME ProductionSteps \in Nat \ {0}, stepsRun \in 0..ProductionSteps
  PROVE  /\ ThisBatch \in 0..(ProductionSteps - stepsRun)
         /\ StepsPerUpdate \in Nat \ {0}
  <1>1. ProductionSteps \div kProgressUpdates \in Nat
    BY DEF kProgressUpdates
  <1>2. StepsPerUpdate \in Nat \ {0}
    BY <1>1 DEF StepsPerUpdate, AtLeast
  <1> QED BY <1>2 DEF ThisBatch, AtMost

LEMMA SamplingStep ==
  ASSUME CommandInv, Next
  PROVE  Sampling'
  <1>1. /\ Types /\ Course /\ Sampling /\ file' = file /\ ProductionSteps' = ProductionSteps
        /\ file \in Files /\ world \in Worlds
        /\ ValueOf(file, "equilibration_steps")' = ValueOf(file, "equilibration_steps")
    BY InputKept DEF CommandInv, Types, ProductionSteps
  <1>2. CASE NextCommand
    BY <1>2 DEF NextCommand, Sampling
  <1>3. CASE Prepare \/ Inspect \/ Run
    <2>1. Kind' = Kind
      BY <1>3, CommandKept
    <2>2. CASE /\ UNCHANGED <<stepsRun, inBatch, samples>>
               /\ pc \notin {"produce", "report", "done"} /\ pc' \notin {"produce", "report"}
      BY <1>1, <2>2 DEF Sampling
    <2>3. CASE pc' = "done"
      BY <2>3 DEF Sampling
    <2>4. CASE WriteResolvedConfig /\ pc' # "done"
      BY <1>1, <2>1, <2>4 DEF WriteResolvedConfig, Sampling, Goto, Exit, sampling
    <2>5. CASE pc \in {"equilibrate", "produce"}
      <3>1. Kind = "Gcmc" /\ Parsed(file, world, "Gcmc")
        BY <1>1, <2>5 DEF Course
      <3>2. ProductionSteps \in Nat \ {0} /\ ValueOf(file, "equilibration_steps") \in Nat
        BY <1>1, <3>1, Numbers DEF Parsed
      <3>3. CASE Equilibrate
        <4>1. /\ stepsRun' = 0 /\ inBatch' = 0 /\ samples' = 0 /\ pc' = "produce"
              /\ engineSteps' = ValueOf(file, "equilibration_steps")
          BY <1>1, <3>3 DEF Equilibrate, Sampling, Goto
        <4>2. ThisBatch' \in Nat
          BY <1>1, <3>2, <4>1 DEF ThisBatch, StepsPerUpdate, AtLeast, AtMost, kProgressUpdates
        <4> QED BY <1>1, <3>2, <4>1, <4>2 DEF Sampling
      <3>4. CASE ProductionStep
        <4>1. ThisBatch' = ThisBatch /\ ThisBatch \in Nat
          BY <1>1, <2>1, <3>1, <3>2, <3>4, BatchFacts
             DEF ProductionStep, Sampling, ThisBatch, StepsPerUpdate
        <4>2. /\ stepsRun \in 0..ProductionSteps /\ inBatch \in 0..ThisBatch
              /\ samples = stepsRun + inBatch
              /\ engineSteps = ValueOf(file, "equilibration_steps") + samples
          BY <1>1, <3>1, <3>4 DEF ProductionStep, Sampling
        <4>3. /\ pc' = "produce" /\ stepsRun' = stepsRun /\ inBatch' = inBatch + 1
              /\ samples' = samples + 1 /\ engineSteps' = engineSteps + 1 /\ inBatch < ThisBatch
          BY <3>4 DEF ProductionStep
        <4> QED BY <1>1, <3>2, <4>1, <4>2, <4>3 DEF Sampling
      <3>5. CASE EndBatch
        <4>1. /\ stepsRun \in 0..ProductionSteps /\ inBatch = ThisBatch
              /\ samples = stepsRun + inBatch
              /\ engineSteps = ValueOf(file, "equilibration_steps") + samples
          BY <1>1, <3>1, <3>5 DEF EndBatch, Sampling
        <4>2. ThisBatch \in 0..(ProductionSteps - stepsRun)
          BY <3>2, <4>1, BatchFacts
        <4>3. /\ pc' = "produce" /\ stepsRun' = stepsRun + ThisBatch /\ inBatch' = 0
              /\ samples' = samples /\ engineSteps' = engineSteps
          BY <3>5 DEF EndBatch
        <4>4. stepsRun' \in 0..ProductionSteps
          BY <3>2, <4>1, <4>2, <4>3
        <4>5. ThisBatch' \in Nat
          <5>1. StepsPerUpdate \in Nat \ {0} /\ StepsPerUpdate' = StepsPerUpdate
            BY <1>1, <3>2, <4>1, BatchFacts DEF StepsPerUpdate
          <5>2. ProductionSteps - stepsRun' \in Nat
            BY <3>2, <4>1, <4>2, <4>3
          <5>3. ThisBatch' \in {StepsPerUpdate', ProductionSteps' - stepsRun'}
            BY DEF ThisBatch, AtMost
          <5>4. ProductionSteps' = ProductionSteps
            BY <1>1
          <5> QED BY <5>1, <5>2, <5>3, <5>4
        <4> QED BY <1>1, <3>2, <4>1, <4>2, <4>3, <4>4, <4>5 DEF Sampling
      <3>6. CASE EndProduction
        <4>1. ThisBatch' = ThisBatch
          BY <1>1, <3>6 DEF EndProduction, ThisBatch, StepsPerUpdate, sampling
        <4> QED BY <1>1, <2>1, <3>1, <3>6, <4>1 DEF EndProduction, Sampling, Goto, sampling
      <3> QED BY <1>3, <2>5, <3>3, <3>4, <3>5, <3>6
              DEF Prepare, Inspect, Run, Load, ReadCif, Widen, Choose, Tile, Parameters, PeekAtCache,
                  PrintConfig, GetGrid, WriteResolvedConfig, Analyze, Report
    <2>6. \/ pc' = "done" \/ WriteResolvedConfig \/ pc \in {"equilibrate", "produce"}
          \/ /\ UNCHANGED <<stepsRun, inBatch, samples>>
             /\ pc \notin {"produce", "report", "done"} /\ pc' \notin {"produce", "report"}
      <3> USE DEF Exit, Goto, sampling
      <3>1. CASE Load \/ ReadCif
        BY <3>1 DEF Load, ReadCif
      <3>2. CASE Widen \/ Choose \/ Tile
        BY <3>2 DEF Widen, Choose, Tile
      <3>3. CASE Parameters
        BY <3>3 DEF Parameters, AfterParameters
      <3>4. CASE Inspect
        BY <3>4 DEF Inspect, PeekAtCache, PrintConfig
      <3>5. CASE GetGrid \/ Analyze \/ Report
        BY <3>5 DEF GetGrid, AfterGrid, Analyze, Report
      <3>6. CASE Equilibrate \/ ProductionStep \/ EndBatch \/ EndProduction
        BY <3>6 DEF Equilibrate, ProductionStep, EndBatch, EndProduction
      <3> QED BY <1>3, <3>1, <3>2, <3>3, <3>4, <3>5, <3>6 DEF Prepare, Run
    <2> QED BY <2>2, <2>3, <2>4, <2>5, <2>6
  <1> QED BY <1>2, <1>3 DEF Next

LEMMA SampledAtEnd ==
  ASSUME CommandInv
  PROVE  EveryStepSampled
  <1> SUFFICES ASSUME pc = "report", Kind = "Gcmc"
               PROVE  /\ samples = ProductionSteps /\ samples > 0
                      /\ engineSteps = ValueOf(file, "equilibration_steps") + ProductionSteps
    BY DEF EveryStepSampled
  <1>1. ProductionSteps \in Nat \ {0}
    BY Numbers DEF CommandInv, Course, Parsed, Types
  <1>2. /\ stepsRun \in 0..ProductionSteps /\ inBatch \in 0..ThisBatch
        /\ samples = stepsRun + inBatch
        /\ engineSteps = ValueOf(file, "equilibration_steps") + samples
        /\ stepsRun >= ProductionSteps
    BY DEF CommandInv, Sampling
  <1>3. stepsRun = ProductionSteps /\ inBatch = 0
    BY <1>1, <1>2, BatchFacts
  <1> QED BY <1>1, <1>2, <1>3

-----------------------------------------------------------------------------
(* The artifact. *)

LEMMA JsonKept ==
  ASSUME file' = file, Kind' = Kind, supercell' = supercell
  PROVE  Json' = Json
  BY DEF Json, SpacingText, UsesGrid

LEMMA ArtifactStep ==
  ASSUME CommandInv, Next
  PROVE  Artifact' /\ (dryRun /\ pc # "done" => UNCHANGED <<artifact, engineSteps>>)
  <1>1. Artifact /\ Course /\ file' = file
    BY InputKept DEF CommandInv
  <1>2. CASE NextCommand
    BY <1>2 DEF NextCommand, Artifact
  <1>3. CASE Prepare \/ Inspect \/ Run
    <2>1. Kind' = Kind
      BY <1>3, CommandKept
    <2>2. CASE WriteResolvedConfig
      <3>1. supercell' = supercell /\ ~dryRun
        BY <1>1, <2>2 DEF WriteResolvedConfig, structure, Course
      <3>2. Json' = Json
        BY <1>1, <2>1, <3>1, JsonKept
      <3> QED BY <2>2, <3>1, <3>2 DEF WriteResolvedConfig, Artifact, Exit, Goto
    <2>3. CASE Equilibrate \/ ProductionStep \/ EndBatch \/ EndProduction
      <3>1. /\ supercell' = supercell /\ artifact' = artifact /\ ~dryRun
            /\ pc \in {"equilibrate", "produce"}
        BY <1>1, <2>3 DEF Equilibrate, ProductionStep, EndBatch, EndProduction, structure, Course
      <3>2. Json' = Json
        BY <1>1, <2>1, <3>1, JsonKept
      <3> QED BY <1>1, <3>1, <3>2 DEF Artifact
    <2>4. CASE Prepare \/ Inspect \/ GetGrid \/ Analyze \/ Report
      <3>1. pc' \notin {"equilibrate", "produce", "report"} /\ UNCHANGED <<artifact, engineSteps>>
        <4> USE DEF Exit, Goto, sampling
        <4>1. CASE Load \/ ReadCif
          BY <4>1 DEF Load, ReadCif
        <4>2. CASE Widen \/ Choose \/ Tile
          BY <4>2 DEF Widen, Choose, Tile
        <4>3. CASE Parameters
          BY <4>3 DEF Parameters, AfterParameters
        <4>4. CASE Inspect
          BY <4>4 DEF Inspect, PeekAtCache, PrintConfig
        <4>5. CASE GetGrid \/ Analyze \/ Report
          BY <4>5 DEF GetGrid, AfterGrid, Analyze, Report
        <4> QED BY <2>4, <4>1, <4>2, <4>3, <4>4, <4>5 DEF Prepare
      <3> QED BY <3>1 DEF Artifact
    <2> QED BY <1>3, <2>2, <2>3, <2>4 DEF Run
  <1> QED BY <1>2, <1>3 DEF Next

-----------------------------------------------------------------------------
(* What a dry run vouches for. *)

(* There is only one replication that is least along every axis. *)
LEMMA LeastIsUnique ==
  ASSUME NEW w \in Nat \ {0}, NEW c \in Nat, NEW m1 \in Nat \ {0}, NEW m2 \in Nat \ {0},
         c < m1 * w, m1 > 1 => (m1 - 1) * w <= c,
         c < m2 * w, m2 > 1 => (m2 - 1) * w <= c
  PROVE  m1 = m2
  <1>1. ASSUME NEW i \in Nat \ {0}, NEW j \in Nat \ {0}, i < j, c < i * w, j > 1 => (j - 1) * w <= c
        PROVE  FALSE
    <2>1. i * w <= (j - 1) * w
      BY <1>1
    <2>2. i * w \in Int /\ (j - 1) * w \in Int
      BY <1>1
    <2> QED BY <1>1, <2>1, <2>2
  <1> QED BY <1>1

LEMMA CountsAgree ==
  ASSUME CommandInv, Parsed(file, world, "Gcmc"),
         NEW m \in [Axes -> 1..IntMax], Counted(file, world, m),
         \A a \in Axes : Least(file, world, n[a], a)
  PROVE  m = n
  <1>1. Cutoff \in Nat /\ IntMax \in Nat
    BY Numbers, InputFacts DEF CommandInv, Types, Parsed
  <1>2. ASSUME NEW a \in Axes PROVE m[a] = n[a]
    <2>1. world.widths[a] \in Nat \ {0} /\ m[a] \in Nat \ {0} /\ n[a] \in Nat \ {0} /\ 2 * Cutoff \in Nat
      BY <1>1, InputFacts DEF CommandInv, Types
    <2>2. Least(file, world, m[a], a) /\ Least(file, world, n[a], a)
      BY DEF Counted, Axes
    <2> QED BY <2>1, <2>2, LeastIsUnique DEF Least, Cutoff
  <1> QED BY <1>2 DEF CommandInv, Types

(* What is known of an input that a command before has vouched for. *)
LEMMA VouchedPasses ==
  ASSUME CommandInv, ~dryRun, Vouched, Kind \in {"Gcmc", "Pore"}
  PROVE  /\ Parsed(file, world, Kind)
         /\ Readable(world, Kind)
         /\ Kind = "Gcmc" =>
              /\ \E m \in [Axes -> 1..IntMax] : Counted(file, world, m)
              /\ Parametrised(file, world)
              /\ ~HeaderBad(file, world)
  <1>1. PICK c : <<c, Kind>> \in vouched /\ Passes(file, world, c, Kind)
                 /\ (c = command \/ (c = "validate" /\ world.cache # "bad header"))
    <2>1. \A v \in vouched : Passes(file, world, v[1], v[2])
      BY DEF CommandInv, Vouching
    <2>2. CASE <<command, Kind>> \in vouched
      <3>1. Passes(file, world, <<command, Kind>>[1], <<command, Kind>>[2])
        BY <2>1, <2>2
      <3> QED BY <2>2, <3>1
    <2>3. CASE <<"validate", Kind>> \in vouched /\ world.cache # "bad header"
      BY <2>1, <2>3
    <2> QED BY <2>2, <2>3 DEF Vouched
  <1>2. Kind = "Gcmc" => command = "gcmc run"
    BY DEF Kind, CommandInv, Course, Types, AllCommands
  <1> QED BY <1>1, <1>2 DEF Passes, Axes, HeaderBad

(* A dry run that ends well has found all in order. *)
LEMMA DryRunPasses ==
  ASSUME CommandInv, PrintConfig
  PROVE  Passes(file, world, command, Kind)
  <1>1. pc = "print" /\ Parsed(file, world, Kind) /\ Readable(world, Kind)
    BY DEF PrintConfig, CommandInv, Course
  <1>2. CASE Kind = "Gcmc"
    <2>1. Prepared /\ Parametrised(file, world) /\ (command = "gcmc run" => ~HeaderBad(file, world))
      BY <1>1, <1>2 DEF CommandInv, Course, Prepared
    <2>2. Counted(file, world, n) /\ n \in [DOMAIN world.widths -> 1..IntMax]
      BY <2>1 DEF CommandInv, Chosen, Types, Axes
    <2> QED BY <1>1, <2>1, <2>2 DEF Passes
  <1>3. CASE Kind # "Gcmc"
    BY <1>1, <1>3 DEF Passes
  <1> QED BY <1>2, <1>3

(* A CIF with atoms gives particles. *)
LEMMA ParticlesFacts ==
  ASSUME file \in Files, world \in Worlds, world.atoms # << >>,
         particles = [p \in Atoms |-> [atom |-> p, image |-> [a \in Axes |-> 0]]]
  PROVE  Originals # 0 /\ particles # << >>
  <1>1. Len(world.atoms) \in Nat \ {0} /\ Atoms = 1..Len(world.atoms)
    BY InputFacts
  <1>2. Len(particles) = Len(world.atoms)
    BY <1>1
  <1> QED BY <1>1, <1>2 DEF Originals

(* The check of the cutoff after tiling cannot fail. *)
LEMMA TileFits ==
  ASSUME CommandInv, Tile
  PROVE  CutoffFits
  <1>1. ASSUME NEW a \in Axes PROVE 2 * Cutoff <= Width(a)
    <2>1. Cutoff \in Nat /\ Width(a) \in Nat /\ 2 * Cutoff < Width(a)
      BY ChosenIsMinimal DEF Tile
    <2> QED BY <2>1
  <1> QED BY <1>1 DEF CutoffFits

(* No step of a real run that was vouched for is an exit but the last. *)
LEMMA VouchedGoesOn ==
  ASSUME CommandInv, Prepare \/ Inspect \/ Run, ~dryRun, Vouched, pc' = "done",
         world.writable, world.cache # "bad data", world.atoms # << >>
  PROVE  status' = 0
  <1>1. /\ Types /\ Course /\ Counting /\ Chosen /\ Vouching
        /\ file \in Files /\ world \in Worlds
    BY DEF CommandInv, Types
  <1>2. Kind \in {"Gcmc", "Pore"}
    BY <1>1 DEF Vouched, Vouching
  <1>3. /\ Parsed(file, world, Kind)
        /\ Readable(world, Kind)
        /\ Kind = "Gcmc" =>
             /\ \E m \in [Axes -> 1..IntMax] : Counted(file, world, m)
             /\ Parametrised(file, world)
             /\ ~HeaderBad(file, world)
    BY <1>2, VouchedPasses
  <1> USE DEF Exit, Goto
  <1>4. CASE Load
    BY <1>3, <1>4 DEF Load, Parsed
  <1>5. CASE ReadCif
    BY <1>3, <1>5 DEF ReadCif, Readable, Atoms
  <1>6. CASE Widen
    BY <1>6 DEF Widen
  <1>7. CASE Choose
    <2>1. Kind = "Gcmc"
      BY <1>1, <1>7 DEF Choose, Course
    <2>2. PICK m \in [Axes -> 1..IntMax] : Counted(file, world, m)
      BY <1>3, <2>1
    <2>3. \A a \in Axes : Least(file, world, n[a], a)
      BY <1>7, LeastAtChoice
    <2>4. m = n
      BY <1>3, <2>1, <2>2, <2>3, CountsAgree
    <2>5. file.supercell # Absent => OverrideIsUpward
      BY <2>2, <2>4 DEF Counted, OverrideIsUpward, Axes
    <2> QED BY <1>7, <2>5 DEF Choose
  <1>8. CASE Tile
    <2>1. /\ particles = [p \in Atoms |-> [atom |-> p, image |-> [a \in Axes |-> 0]]]
          /\ Kind = "Gcmc"
      BY <1>1, <1>8 DEF Tile, Vouching, Course
    <2>2. Originals # 0
      BY <1>1, <2>1, ParticlesFacts
    <2>3. CutoffFits
      BY <1>8, TileFits
    <2> QED BY <1>8, <2>2, <2>3 DEF Tile
  <1>9. CASE Parameters
    <2>1. Kind = "Gcmc"
      BY <1>1, <1>9 DEF Parameters, Course
    <2> QED BY <1>3, <1>9, <2>1 DEF Parameters, Parametrised, HasParameters, Atoms, AfterParameters
  <1>10. CASE Inspect
    BY <1>1, <1>10 DEF Inspect, PeekAtCache, PrintConfig, Course
  <1>11. CASE GetGrid
    <2>1. Kind = "Gcmc"
      BY <1>1, <1>11 DEF GetGrid, Course
    <2> QED BY <1>3, <1>11, <2>1 DEF GetGrid, AfterGrid, UsesGrid, HeaderBad
  <1>12. CASE WriteResolvedConfig
    BY <1>12 DEF WriteResolvedConfig
  <1>13. CASE Equilibrate \/ ProductionStep \/ EndBatch \/ EndProduction \/ Report
    BY <1>13 DEF Equilibrate, ProductionStep, EndBatch, EndProduction, Report
  <1>14. CASE Analyze
    <2>1. particles = [p \in Atoms |-> [atom |-> p, image |-> [a \in Axes |-> 0]]]
      BY <1>1, <1>14 DEF Analyze, Vouching
    <2>2. particles # << >>
      BY <1>1, <2>1, ParticlesFacts
    <2> QED BY <1>14, <2>2 DEF Analyze
  <1> QED BY <1>4, <1>5, <1>6, <1>7, <1>8, <1>9, <1>10, <1>11, <1>12, <1>13, <1>14
          DEF Prepare, Run

LEMMA VouchingStep ==
  ASSUME CommandInv, Next
  PROVE  Vouching'
  <1>1. Vouching /\ Types /\ Course /\ file' = file /\ world' = world
    BY InputKept DEF CommandInv
  <1>2. CASE NextCommand
    <2>1. pc' = "load" /\ pc = "done"
      BY <1>2 DEF NextCommand
    <2>2. CASE vouched' = vouched
      BY <1>1, <2>1, <2>2 DEF Vouching, VouchedRunsSucceed
    <2>3. CASE dryRun /\ status = 0 /\ vouched' = vouched \cup {<<command, Kind>>}
      <3>1. Passes(file, world, command, Kind) /\ Kind \in {"Gcmc", "Pore"} /\ command \in AllCommands
        BY <1>1, <2>1, <2>3 DEF Vouching, Types
      <3>2. ASSUME NEW v \in vouched' PROVE Passes(file', world', v[1], v[2])
        <4>1. CASE v \in vouched
          BY <1>1, <4>1 DEF Vouching
        <4>2. CASE v = <<command, Kind>>
          BY <1>1, <3>1, <4>2
        <4> QED BY <2>3, <4>1, <4>2
      <3>3. vouched' \subseteq AllCommands \X {"Gcmc", "Pore"}
        BY <1>1, <2>3, <3>1 DEF Vouching
      <3> QED BY <2>1, <3>2, <3>3 DEF Vouching, VouchedRunsSucceed
    <2> QED BY <1>2, <2>2, <2>3 DEF NextCommand
  <1>3. CASE Prepare \/ Inspect \/ Run
    <2>1. /\ command' = command /\ dryRun' = dryRun /\ Kind' = Kind /\ vouched' = vouched
      BY <1>3, CommandKept
    <2>2. pc' = "done" /\ status' = 0 => PrintConfig \/ Report
      BY <1>3 DEF Prepare, Inspect, Run, Load, ReadCif, Widen, Choose, Tile, Parameters,
                  AfterParameters, PeekAtCache, GetGrid, AfterGrid, WriteResolvedConfig, Equilibrate,
                  ProductionStep, EndBatch, EndProduction, Analyze, Exit, Goto
    <2>3. pc' = "done" /\ status' = 0 => Kind \in {"Gcmc", "Pore"}
      BY <1>1, <2>2 DEF PrintConfig, Report, Course, Parsed
    <2>4. pc' = "done" /\ status' = 0 /\ dryRun => Passes(file, world, command, Kind)
      BY <1>1, <2>2, DryRunPasses DEF Report, Course
    <2>5. pc' \in {"replicate", "tile", "analyze"} =>
            particles' = [p \in Atoms |-> [atom |-> p, image |-> [a \in Axes |-> 0]]]
      <3> USE DEF Exit, Goto, structure
      <3>1. CASE ReadCif
        BY <3>1 DEF ReadCif
      <3>2. CASE Widen \/ Choose
        BY <1>1, <3>2 DEF Widen, Choose, Vouching
      <3>3. CASE (Prepare /\ ~ReadCif /\ ~Widen /\ ~Choose) \/ Inspect
        BY <3>3 DEF Prepare, Load, Tile, Parameters, AfterParameters, Inspect, PeekAtCache,
                    PrintConfig
      <3>4. CASE Run
        BY <3>4 DEF Run, GetGrid, AfterGrid, WriteResolvedConfig, Equilibrate, ProductionStep,
                    EndBatch, EndProduction, Analyze, Report
      <3> QED BY <1>3, <3>1, <3>2, <3>3, <3>4
    <2>6. VouchedRunsSucceed'
      <3>1. Vouched' <=> Vouched
        BY <1>1, <2>1 DEF Vouched
      <3> QED BY <1>1, <1>3, <2>1, <3>1, VouchedGoesOn DEF VouchedRunsSucceed
    <2> QED BY <1>1, <2>1, <2>3, <2>4, <2>5, <2>6 DEF Vouching, Atoms, Axes
  <1> QED BY <1>2, <1>3 DEF Next

-----------------------------------------------------------------------------
(* The cells of the supercell and the images of the atoms. *)

(* Induction, for a set of naturals. *)
Below == {ss \in Nat \X Nat : ss[1] < ss[2]}

LEMMA SetInduction ==
  ASSUME NEW T, 0 \in T, \A i \in Nat : i \in T => i + 1 \in T
  PROVE  Nat \subseteq T
  <1> SUFFICES ASSUME Nat \ T # {} PROVE FALSE
    OBVIOUS
  <1>1. IsWellFoundedOn(Below, Nat)
    BY NatLessThanWellFounded DEF OpToRel, Below
  <1>2. PICK m \in Nat \ T : \A k \in Nat \ T : <<k, m>> \notin Below
    BY <1>1, WFMin
  <1>3. \A k \in Nat \ T : ~(k < m)
    <2> SUFFICES ASSUME NEW k \in Nat \ T PROVE ~(k < m)
      OBVIOUS
    <2>1. <<k, m>> \in Nat \X Nat /\ <<k, m>>[1] = k /\ <<k, m>>[2] = m
      OBVIOUS
    <2> QED BY <1>2, <2>1 DEF Below
  <1>4. m # 0 /\ m - 1 \in Nat /\ m - 1 \notin Nat \ T
    BY <1>3
  <1> QED BY <1>4

(* A function on 0..d can be given by its first value and each next one. *)
Steps(h, S, d, x, G) ==
  /\ h \in [0..d -> S]
  /\ h[0] = x /\ \A b \in 1..d : h[b] = G[<<b, h[b - 1]>>]

LEMMA Recursion ==
  ASSUME NEW S, NEW d \in Nat, NEW x \in S, NEW G \in [(1..d) \X S -> S]
  PROVE  \E h : Steps(h, S, d, x, G)
  <1> DEFINE T == {i \in Nat : i <= d => \E h : Steps(h, S, i, x, G)}
  <1>1. 0 \in T
    <2> DEFINE g == [j \in 0..0 |-> x]
    <2>1. g \in [0..0 -> S] /\ g[0] = x /\ \A b \in 1..0 : FALSE
      OBVIOUS
    <2> HIDE DEF g
    <2>2. Steps(g, S, 0, x, G)
      BY <2>1 DEF Steps
    <2> QED BY <2>2
  <1>2. ASSUME NEW i \in Nat, i \in T, i + 1 <= d PROVE \E h : Steps(h, S, i + 1, x, G)
    <2>1. PICK h : Steps(h, S, i, x, G)
      BY <1>2
    <2> DEFINE g == [j \in 0..(i + 1) |-> IF j <= i THEN h[j] ELSE G[<<i + 1, h[i]>>]]
    <2>2. G[<<i + 1, h[i]>>] \in S
      <3>1. h[i] \in S /\ i + 1 \in 1..d
        BY <1>2, <2>1 DEF Steps
      <3> QED BY <3>1
    <2>3. g \in [0..(i + 1) -> S]
      BY <2>1, <2>2 DEF Steps
    <2>4. g[0] = x
      BY <2>1 DEF Steps
    <2>5. ASSUME NEW b \in 1..(i + 1) PROVE g[b] = G[<<b, g[b - 1]>>]
      <3>1. CASE b \in 1..i
        BY <2>1, <3>1 DEF Steps
      <3>2. CASE b = i + 1
        <4>1. g[b] = G[<<i + 1, h[i]>>] /\ g[b - 1] = h[i]
          BY <3>2
        <4> QED BY <3>2, <4>1
      <3> QED BY <3>1, <3>2
    <2> HIDE DEF g
    <2>6. Steps(g, S, i + 1, x, G)
      BY <2>3, <2>4, <2>5 DEF Steps
    <2> QED BY <2>6
  <1>3. \A i \in Nat : i \in T => i + 1 \in T
    BY <1>2
  <1> HIDE DEF T
  <1>4. Nat \subseteq T
    BY <1>1, <1>3, SetInduction
  <1> QED BY <1>4 DEF T

(* Division with remainder. *)
LEMMA Division ==
  ASSUME NEW x \in Nat, NEW p \in Nat \ {0}
  PROVE  /\ x \div p \in Nat /\ x % p \in 0..(p - 1)
         /\ x = p * (x \div p) + (x % p)
  OBVIOUS

LEMMA DivisionIsUnique ==
  ASSUME NEW p \in Nat \ {0}, NEW q \in Nat, NEW r \in 0..(p - 1)
  PROVE  (p * q + r) \div p = q /\ (p * q + r) % p = r
  <1> DEFINE x == p * q + r
             k == x \div p
             t == x % p
  <1>1. x \in Nat
    OBVIOUS
  <1>2. k \in Nat /\ t \in 0..(p - 1) /\ x = p * k + t
    BY <1>1, Division
  <1> HIDE DEF k, t
  <1>3. ~(k < q)
    <2> SUFFICES ASSUME k < q PROVE FALSE
      OBVIOUS
    <2>1. p * (k + 1) <= p * q
      BY <1>2
    <2>2. p * (k + 1) = p * k + p
      BY <1>2
    <2> QED BY <1>2, <2>1, <2>2
  <1>4. ~(q < k)
    <2> SUFFICES ASSUME q < k PROVE FALSE
      OBVIOUS
    <2>1. p * (q + 1) <= p * k
      BY <1>2
    <2>2. p * (q + 1) = p * q + p
      OBVIOUS
    <2> QED BY <1>2, <2>1, <2>2
  <1>5. k = q
    BY <1>2, <1>3, <1>4
  <1>6. t = r
    BY <1>2, <1>5
  <1> QED BY <1>5, <1>6 DEF k, t

LEMMA NestedDivision ==
  ASSUME NEW x \in Nat, NEW p \in Nat \ {0}, NEW s \in Nat \ {0}
  PROVE  (x \div p) \div s = x \div (p * s)
  <1> DEFINE q == x \div p
             r == x % p
             k == q \div s
             t == q % s
  <1>1. q \in Nat /\ r \in 0..(p - 1) /\ x = p * q + r
    BY Division
  <1> HIDE DEF q, r
  <1>2. k \in Nat /\ t \in 0..(s - 1) /\ q = s * k + t
    BY <1>1, Division
  <1> HIDE DEF k, t
  <1>3. p * s \in Nat \ {0}
    OBVIOUS
  <1>4. p * (s * k + t) = (p * s) * k + p * t
    BY <1>2
  <1>5. p * t + r \in 0..(p * s - 1)
    <2>1. p * t <= p * (s - 1)
      BY <1>2
    <2>2. p * (s - 1) = p * s - p
      OBVIOUS
    <2>3. p * t \in Nat /\ p * s \in Nat
      BY <1>2
    <2> QED BY <1>1, <2>1, <2>2, <2>3
  <1>6. x = (p * s) * k + (p * t + r)
    BY <1>1, <1>2, <1>4
  <1>7. x \div (p * s) = k
    <2> DEFINE u == p * t + r
               v == p * s
    <2>1. u \in 0..(v - 1) /\ v \in Nat \ {0} /\ x = v * k + u
      BY <1>3, <1>5, <1>6
    <2> HIDE DEF u, v
    <2>2. x \div v = k
      BY <1>2, <2>1, DivisionIsUnique
    <2> QED BY <2>2 DEF v
  <1> QED BY <1>7 DEF q, k

Rank == Len(world.widths)

(* The number of cells behind an axis is a product of counts. *)
ProductFrom(f, a) ==
  /\ f \in [0..Rank -> Nat \ {0}]
  /\ CellsAfter(a) = f[Rank]
  /\ \A b \in 0..Rank : f[b] = IF b <= a THEN 1 ELSE f[b - 1] * supercell[b]

LEMMA Products ==
  ASSUME file \in Files, world \in Worlds, supercell \in [Axes -> Nat \ {0}], NEW a \in 0..Rank
  PROVE  \E f : ProductFrom(f, a)
  <1> DEFINE product[b \in 0..Rank] == IF b <= a THEN 1 ELSE product[b - 1] * supercell[b]
             G == [z \in (1..Rank) \X (Nat \ {0}) |-> IF z[1] <= a THEN 1 ELSE z[2] * supercell[z[1]]]
  <1>1. Rank \in Nat \ {0} /\ Axes = 1..Rank
    BY InputFacts DEF Rank
  <1>2. G \in [(1..Rank) \X (Nat \ {0}) -> Nat \ {0}]
    <2>1. ASSUME NEW z \in (1..Rank) \X (Nat \ {0})
          PROVE  (IF z[1] <= a THEN 1 ELSE z[2] * supercell[z[1]]) \in Nat \ {0}
      <3>1. z[1] \in 1..Rank /\ z[2] \in Nat \ {0} /\ supercell[z[1]] \in Nat \ {0}
        BY <1>1
      <3>2. z[2] * supercell[z[1]] \in Nat \ {0}
        BY <3>1
      <3> QED BY <3>2
    <2> QED BY <2>1
  <1>3. PICK h : Steps(h, Nat \ {0}, Rank, 1, G)
    <2> HIDE DEF G
    <2>1. 1 \in Nat \ {0} /\ Rank \in Nat
      BY <1>1
    <2> QED BY <1>2, <2>1, Recursion
  <1>4. ASSUME NEW b \in 0..Rank PROVE h[b] = IF b <= a THEN 1 ELSE h[b - 1] * supercell[b]
    <2>1. CASE b = 0
      BY <1>3, <2>1 DEF Steps
    <2>2. CASE b \in 1..Rank
      <3>1. h[b - 1] \in Nat \ {0}
        BY <1>1, <1>3, <2>2 DEF Steps
      <3>2. G[<<b, h[b - 1]>>] = IF b <= a THEN 1 ELSE h[b - 1] * supercell[b]
        BY <2>2, <3>1
      <3> QED BY <1>3, <2>2, <3>2 DEF Steps
    <2> QED BY <1>1, <2>1, <2>2
  <1>5. h = [b \in 0..Rank |-> IF b <= a THEN 1 ELSE h[b - 1] * supercell[b]]
    BY <1>3, <1>4 DEF Steps
  <1>6. product = CHOOSE g : g = [b \in 0..Rank |-> IF b <= a THEN 1 ELSE g[b - 1] * supercell[b]]
    OBVIOUS
  <1> HIDE DEF product
  <1>7. product = [b \in 0..Rank |-> IF b <= a THEN 1 ELSE product[b - 1] * supercell[b]]
    BY <1>5, <1>6
  <1>8. CellsAfter(a) = product[Rank]
    BY DEF CellsAfter, Rank, product
  <1>9. Nat \subseteq {i \in Nat : i <= Rank => product[i] = h[i]}
    <2> DEFINE T == {i \in Nat : i <= Rank => product[i] = h[i]}
    <2>1. 0 \in T
      BY <1>1, <1>4, <1>7
    <2>2. ASSUME NEW i \in Nat, i \in T PROVE i + 1 \in T
      BY <1>1, <1>4, <1>7, <2>2
    <2> HIDE DEF T
    <2>3. Nat \subseteq T
      BY <2>1, <2>2, SetInduction
    <2> QED BY <2>3 DEF T
  <1>10. CellsAfter(a) = h[Rank]
    BY <1>1, <1>8, <1>9
  <1> QED BY <1>3, <1>4, <1>10 DEF Steps, ProductFrom

LEMMA CellsAfterFacts ==
  ASSUME file \in Files, world \in Worlds, supercell \in [Axes -> Nat \ {0}]
  PROVE  /\ CellsAfter(Rank) = 1
         /\ \A a \in 0..Rank : CellsAfter(a) \in Nat \ {0}
         /\ \A a \in 1..Rank : CellsAfter(a - 1) = CellsAfter(a) * supercell[a]
  <1>1. Rank \in Nat \ {0} /\ Axes = 1..Rank
    BY InputFacts DEF Rank
  <1>2. \A a \in 0..Rank : \E f : ProductFrom(f, a)
    BY Products
  <1>3. CellsAfter(Rank) = 1 /\ \A a \in 0..Rank : CellsAfter(a) \in Nat \ {0}
    <2>1. ASSUME NEW a \in 0..Rank
          PROVE  CellsAfter(a) \in Nat \ {0} /\ (a = Rank => CellsAfter(a) = 1)
      <3>1. PICK f : ProductFrom(f, a)
        BY <1>2
      <3> QED BY <1>1, <3>1 DEF ProductFrom
    <2> QED BY <1>1, <2>1
  <1>4. ASSUME NEW a \in 1..Rank PROVE CellsAfter(a - 1) = CellsAfter(a) * supercell[a]
    <2> a \in 0..Rank /\ a - 1 \in 0..Rank
      BY <1>1
    <2>1. PICK f : ProductFrom(f, a)
      BY <1>2
    <2>2. PICK g : ProductFrom(g, a - 1)
      BY <1>2
    <2> DEFINE T == {i \in Nat : i \in a..Rank => g[i] = f[i] * supercell[a]}
    <2>3. 0 \in T
      BY <1>1
    <2>4. ASSUME NEW i \in Nat, i \in T, i + 1 \in a..Rank
          PROVE  g[i + 1] = f[i + 1] * supercell[a]
      <3>1. CASE i + 1 = a
        <4>1. g[i] = 1 /\ f[i + 1] = 1 /\ g[i + 1] = g[i] * supercell[a] /\ supercell[a] \in Nat
          BY <1>1, <2>1, <2>2, <3>1 DEF ProductFrom
        <4> QED BY <4>1
      <3>2. CASE i \in a..Rank
        <4>1. /\ g[i + 1] = g[i] * supercell[i + 1] /\ f[i + 1] = f[i] * supercell[i + 1]
              /\ g[i] = f[i] * supercell[a]
          BY <1>1, <2>1, <2>2, <2>4, <3>2, SMTT(30) DEF ProductFrom
        <4>2. f[i] \in Nat /\ supercell[i + 1] \in Nat /\ supercell[a] \in Nat
          BY <1>1, <2>1, <2>4, <3>2 DEF ProductFrom
        <4>3. (f[i] * supercell[a]) * supercell[i + 1] = (f[i] * supercell[i + 1]) * supercell[a]
          BY <4>2
        <4> QED BY <4>1, <4>3
      <3> QED BY <1>1, <2>4, <3>1, <3>2
    <2>5. \A i \in Nat : i \in T => i + 1 \in T
      BY <2>4
    <2> HIDE DEF T
    <2>6. Nat \subseteq T
      BY <2>3, <2>5, SetInduction
    <2>7. g[Rank] = f[Rank] * supercell[a]
      BY <1>1, <2>6 DEF T
    <2> QED BY <2>1, <2>2, <2>7 DEF ProductFrom
  <1> QED BY <1>3, <1>4

(* One axis further, one count fewer is left to divide by. *)
LEMMA OneAxisOn ==
  ASSUME file \in Files, world \in Worlds, supercell \in [Axes -> Nat \ {0}],
         NEW x \in Nat, NEW a \in 1..Rank
  PROVE  /\ x \div CellsAfter(a - 1) \in Nat /\ Image(x)[a] \in 0..(supercell[a] - 1)
         /\ x \div CellsAfter(a) = supercell[a] * (x \div CellsAfter(a - 1)) + Image(x)[a]
  <1> DEFINE c == CellsAfter(a)
             s == supercell[a]
             q == x \div c
  <1>1. Rank \in Nat \ {0} /\ Axes = 1..Rank
    BY InputFacts DEF Rank
  <1>2. c \in Nat \ {0} /\ s \in Nat \ {0} /\ CellsAfter(a - 1) = c * s
    BY <1>1, CellsAfterFacts
  <1>3. Image(x)[a] = q % s
    BY <1>1 DEF Image
  <1> HIDE DEF c, s
  <1>4. q \in Nat /\ q \div s = x \div (c * s)
    BY <1>2, Division, NestedDivision
  <1> HIDE DEF q
  <1>5. q \div s \in Nat /\ q % s \in 0..(s - 1) /\ q = s * (q \div s) + (q % s)
    BY <1>2, <1>4, Division
  <1> QED BY <1>2, <1>3, <1>4, <1>5 DEF q, c, s

(* Different cells have different images. *)
LEMMA ImageInjective ==
  ASSUME file \in Files, world \in Worlds, supercell \in [Axes -> Nat \ {0}],
         NEW x \in 0..(TotalCells - 1), NEW y \in 0..(TotalCells - 1), Image(x) = Image(y)
  PROVE  x = y
  <1>1. Rank \in Nat \ {0} /\ Axes = 1..Rank /\ TotalCells \in Nat \ {0} /\ x \in Nat /\ y \in Nat
    BY InputFacts, CellsAfterFacts DEF Rank, TotalCells
  <1> DEFINE T == {i \in Nat : i <= Rank => x \div CellsAfter(i) = y \div CellsAfter(i)}
  <1>2. 0 \in T
    <2>1. \A z \in 0..(TotalCells - 1) : z \div TotalCells = 0
      BY <1>1
    <2> QED BY <2>1 DEF TotalCells
  <1>3. ASSUME NEW i \in Nat, i \in T, i + 1 <= Rank
        PROVE  x \div CellsAfter(i + 1) = y \div CellsAfter(i + 1)
    <2>1. i + 1 \in 1..Rank /\ (i + 1) - 1 = i /\ x \div CellsAfter(i) = y \div CellsAfter(i)
      BY <1>1, <1>3
    <2>2. /\ x \div CellsAfter(i + 1) = supercell[i + 1] * (x \div CellsAfter((i + 1) - 1)) + Image(x)[i + 1]
          /\ y \div CellsAfter(i + 1) = supercell[i + 1] * (y \div CellsAfter((i + 1) - 1)) + Image(y)[i + 1]
      BY <1>1, <2>1, OneAxisOn
    <2> QED BY <2>1, <2>2
  <1>4. \A i \in Nat : i \in T => i + 1 \in T
    BY <1>3
  <1> HIDE DEF T
  <1>5. Nat \subseteq T
    BY <1>2, <1>4, SetInduction
  <1>6. x \div CellsAfter(Rank) = y \div CellsAfter(Rank)
    BY <1>1, <1>5 DEF T
  <1>7. CellsAfter(Rank) = 1
    BY CellsAfterFacts
  <1> QED BY <1>1, <1>6, <1>7

(* Every cell of the supercell is an image. *)
LEMMA ImageOnto ==
  ASSUME file \in Files, world \in Worlds, supercell \in [Axes -> Nat \ {0}],
         NEW cell \in [Axes -> Nat], \A a \in Axes : cell[a] < supercell[a]
  PROVE  \E x \in 0..(TotalCells - 1) : Image(x) = cell
  <1>1. Rank \in Nat \ {0} /\ Axes = 1..Rank /\ TotalCells \in Nat \ {0}
    BY InputFacts, CellsAfterFacts DEF Rank, TotalCells
  <1> DEFINE G == [z \in (1..Rank) \X Nat |-> supercell[z[1]] * z[2] + cell[z[1]]]
  <1>2. G \in [(1..Rank) \X Nat -> Nat]
    <2>1. ASSUME NEW z \in (1..Rank) \X Nat
          PROVE  supercell[z[1]] * z[2] + cell[z[1]] \in Nat
      <3>1. z[2] \in Nat /\ supercell[z[1]] \in Nat /\ cell[z[1]] \in Nat
        BY <1>1
      <3> QED BY <3>1
    <2> QED BY <2>1
  <1>3. PICK h : Steps(h, Nat, Rank, 0, G)
    <2> HIDE DEF G
    <2>1. 0 \in Nat /\ Rank \in Nat
      BY <1>1
    <2> QED BY <1>2, <2>1, Recursion
  <1>4. ASSUME NEW b \in 1..Rank
        PROVE  h[b - 1] \in Nat /\ h[b] = supercell[b] * h[b - 1] + cell[b]
    <2>1. h[b - 1] \in Nat
      BY <1>1, <1>3 DEF Steps
    <2>2. G[<<b, h[b - 1]>>] = supercell[b] * h[b - 1] + cell[b]
      BY <2>1
    <2> QED BY <1>3, <2>1, <2>2 DEF Steps
  <1>5. h[Rank] \in Nat /\ h[0] = 0
    BY <1>1, <1>3 DEF Steps
  <1> DEFINE x == h[Rank]
             T == {i \in Nat : i <= Rank => x \div CellsAfter(Rank - i) = h[Rank - i]}
  <1>6. x \in Nat
    BY <1>5
  <1>7. 0 \in T
    BY <1>1, <1>6, CellsAfterFacts
  <1>8. ASSUME NEW i \in Nat, i \in T, i + 1 <= Rank
        PROVE  x \div CellsAfter(Rank - (i + 1)) = h[Rank - (i + 1)]
    <2> DEFINE a == Rank - i
    <2>1. a \in 1..Rank /\ Rank - (i + 1) = a - 1 /\ x \div CellsAfter(a) = h[a]
      BY <1>1, <1>8
    <2> HIDE DEF x, a
    <2>2. /\ CellsAfter(a) \in Nat \ {0} /\ supercell[a] \in Nat \ {0}
          /\ CellsAfter(a - 1) = CellsAfter(a) * supercell[a]
      BY <1>1, <2>1, CellsAfterFacts
    <2>3. x \div CellsAfter(a - 1) = h[a] \div supercell[a]
      <3> DEFINE c == CellsAfter(a)
                 s == supercell[a]
      <3>1. c \in Nat \ {0} /\ s \in Nat \ {0}
        BY <2>2
      <3> HIDE DEF c, s
      <3>2. (x \div c) \div s = x \div (c * s)
        BY <1>6, <3>1, NestedDivision
      <3> QED BY <2>1, <2>2, <3>2 DEF c, s
    <2>4. h[a - 1] \in Nat /\ h[a] = supercell[a] * h[a - 1] + cell[a] /\ cell[a] \in 0..(supercell[a] - 1)
      BY <1>1, <1>4, <2>1, <2>2
    <2>5. h[a] \div supercell[a] = h[a - 1]
      BY <2>2, <2>4, DivisionIsUnique
    <2> QED BY <2>1, <2>3, <2>5
  <1>9. \A i \in Nat : i \in T => i + 1 \in T
    BY <1>8
  <1>10. \A a \in 0..Rank : x \div CellsAfter(a) = h[a]
    <2> HIDE DEF T
    <2>1. Nat \subseteq T
      BY <1>7, <1>9, SetInduction
    <2>2. ASSUME NEW a \in 0..Rank PROVE x \div CellsAfter(a) = h[a]
      <3>1. Rank - a \in T /\ Rank - a <= Rank /\ Rank - (Rank - a) = a
        BY <1>1, <2>1
      <3> QED BY <3>1 DEF T
    <2> QED BY <2>2
  <1> HIDE DEF x
  <1>11. ASSUME NEW a \in Axes PROVE Image(x)[a] = cell[a]
    <2>1. /\ x \div CellsAfter(a) = h[a] /\ h[a - 1] \in Nat
          /\ h[a] = supercell[a] * h[a - 1] + cell[a] /\ cell[a] \in 0..(supercell[a] - 1)
          /\ supercell[a] \in Nat \ {0}
      BY <1>1, <1>4, <1>10
    <2>2. h[a] % supercell[a] = cell[a]
      BY <2>1, DivisionIsUnique
    <2> QED BY <2>1, <2>2 DEF Image
  <1>12. Image(x) = cell
    BY <1>11 DEF Image
  <1>13. x < TotalCells
    <2>1. x \div TotalCells = 0
      BY <1>1, <1>10, <1>5 DEF TotalCells
    <2> QED BY <1>1, <1>6, <2>1
  <1> QED BY <1>1, <1>6, <1>12, <1>13

(* Cell x has the images of atoms 1..m, one after the other. *)
Tiles(m) ==
  [k \in 1..(m * TotalCells) |->
     [atom |-> ((k - 1) % m) + 1, image |-> Image((k - 1) \div m)]]

LEMMA TilesAreApart ==
  ASSUME file \in Files, world \in Worlds, supercell \in [Axes -> Nat \ {0}], NEW m \in Nat \ {0},
         NEW j \in 1..(m * TotalCells), NEW k \in 1..(m * TotalCells), Tiles(m)[j] = Tiles(m)[k]
  PROVE  j = k
  <1>1. TotalCells \in Nat \ {0} /\ m * TotalCells \in Nat
    BY InputFacts, CellsAfterFacts DEF Rank, TotalCells
  <1>2. ASSUME NEW i \in 1..(m * TotalCells)
        PROVE  /\ (i - 1) \div m \in 0..(TotalCells - 1) /\ (i - 1) % m \in Nat
               /\ i - 1 = m * ((i - 1) \div m) + ((i - 1) % m)
    <2> DEFINE q == (i - 1) \div m
               r == (i - 1) % m
               t == TotalCells
    <2>1. i - 1 \in Nat /\ i - 1 < m * t
      BY <1>1
    <2>2. q \in Nat /\ r \in 0..(m - 1) /\ i - 1 = m * q + r
      BY <2>1, Division
    <2>3. t \in Nat
      BY <1>1
    <2> HIDE DEF q, r, t
    <2>4. q < t
      <3> SUFFICES ASSUME t <= q PROVE FALSE
        BY <2>2, <2>3
      <3>1. m * t <= m * q /\ m * t \in Nat /\ m * q \in Nat
        BY <2>2, <2>3
      <3> QED BY <2>1, <2>2, <3>1
    <2> QED BY <2>2, <2>3, <2>4 DEF q, r, t
  <1>3. (j - 1) % m = (k - 1) % m
    <2>1. Tiles(m)[j].atom = ((j - 1) % m) + 1 /\ Tiles(m)[k].atom = ((k - 1) % m) + 1
      BY DEF Tiles
    <2> QED BY <1>2, <2>1
  <1>4. (j - 1) \div m = (k - 1) \div m
    <2>1. Tiles(m)[j].image = Image((j - 1) \div m) /\ Tiles(m)[k].image = Image((k - 1) \div m)
      BY DEF Tiles
    <2> QED BY <1>2, <2>1, ImageInjective
  <1>5. j - 1 = k - 1
    BY <1>2, <1>3, <1>4
  <1> QED BY <1>5

LEMMA TilesAreAll ==
  ASSUME file \in Files, world \in Worlds, supercell \in [Axes -> Nat \ {0}], NEW m \in Nat \ {0},
         NEW p \in 1..m, NEW cell \in [Axes -> Nat], \A a \in Axes : cell[a] < supercell[a]
  PROVE  \E k \in 1..(m * TotalCells) : Tiles(m)[k] = [atom |-> p, image |-> cell]
  <1>1. TotalCells \in Nat \ {0}
    BY InputFacts, CellsAfterFacts DEF Rank, TotalCells
  <1>2. PICK x \in 0..(TotalCells - 1) : Image(x) = cell
    BY ImageOnto
  <1> DEFINE k == m * x + p
             t == TotalCells
  <1>3. k \in 1..(m * t)
    <2>1. t \in Nat /\ x \in Nat /\ x <= t - 1
      BY <1>1
    <2> HIDE DEF t
    <2>2. m * x <= m * (t - 1) /\ m * (t - 1) = m * t - m /\ m * x \in Nat /\ m * t \in Nat
      BY <2>1
    <2> QED BY <2>2
  <1>4. k - 1 = m * x + (p - 1) /\ p - 1 \in 0..(m - 1) /\ x \in Nat
    BY <1>1
  <1>5. (k - 1) \div m = x /\ (k - 1) % m = p - 1
    <2> DEFINE r == p - 1
    <2> r \in 0..(m - 1) /\ k - 1 = m * x + r /\ x \in Nat
      BY <1>4
    <2> HIDE DEF k, r
    <2>1. (m * x + r) \div m = x /\ (m * x + r) % m = r
      BY DivisionIsUnique
    <2> QED BY <2>1 DEF r
  <1>6. Tiles(m)[k] = [atom |-> p, image |-> cell]
    BY <1>2, <1>3, <1>5 DEF Tiles
  <1> QED BY <1>3, <1>6

LEMMA TiledByTile ==
  ASSUME CommandInv, Tile
  PROVE  TiledInLockstep'
  <1>1. /\ file \in Files /\ world \in Worlds /\ supercell \in [Axes -> Nat \ {0}]
        /\ particles = [p \in Atoms |-> [atom |-> p, image |-> [a \in Axes |-> 0]]]
        /\ sourceLabel = [p \in Atoms |-> p]
    BY DEF Tile, CommandInv, Types, Vouching, Tiling
  <1>2. /\ world' = world /\ Axes' = Axes /\ Atoms' = Atoms /\ supercell' = supercell
        /\ TotalCells' = TotalCells
    BY DEF Tile, input, structure, Axes, Atoms, TotalCells, CellsAfter
  <1>3. /\ Len(world.atoms) \in Nat /\ Atoms = 1..Len(world.atoms) /\ TotalCells \in Nat \ {0}
    BY <1>1, InputFacts, CellsAfterFacts DEF Rank, TotalCells
  <1> DEFINE Cells == {c \in [Axes -> 0..TotalCells] : \A a \in Axes : c[a] < supercell[a]}
  <1> SUFFICES ASSUME Prepared'
      PROVE  /\ Len(sourceLabel') = Len(particles')
             /\ \A k \in DOMAIN particles' : sourceLabel'[k] = particles'[k].atom
             /\ \A j, k \in DOMAIN particles' : particles'[j] = particles'[k] => j = k
             /\ \A p \in Atoms, cell \in Cells :
                  \E k \in DOMAIN particles' : particles'[k] = [atom |-> p, image |-> cell]
    BY <1>2 DEF TiledInLockstep
  <1>4. CASE supercell = OneCell /\ UNCHANGED structure
    <2>1. particles' = particles /\ sourceLabel' = sourceLabel
      BY <1>4 DEF structure
    <2>2. /\ Len(sourceLabel) = Len(particles) /\ DOMAIN particles = Atoms
          /\ \A k \in Atoms : sourceLabel[k] = particles[k].atom
      BY <1>1, <1>3
    <2>3. \A j, k \in Atoms : particles[j] = particles[k] => j = k
      BY <1>1
    <2>4. ASSUME NEW p \in Atoms, NEW cell \in Cells
          PROVE  particles[p] = [atom |-> p, image |-> cell]
      <3>1. cell = [a \in Axes |-> 0]
        <4>1. \A a \in Axes : cell[a] \in Nat /\ cell[a] < 1
          BY <1>3, <1>4 DEF OneCell
        <4> QED BY <4>1
      <3> QED BY <1>1, <3>1
    <2> HIDE DEF Cells
    <2> QED BY <2>1, <2>2, <2>3, <2>4
  <1>5. CASE /\ Originals # 0
             /\ particles' = [k \in 1..(Originals * TotalCells) |->
                  [atom |-> particles[((k - 1) % Originals) + 1].atom,
                   image |-> Image((k - 1) \div Originals)]]
             /\ sourceLabel' = [k \in 1..(Originals * TotalCells) |-> LabelByCell(k)]
    <2> DEFINE m == Len(world.atoms)
    <2>1. Originals = m /\ m \in Nat \ {0}
      <3>1. Len(particles) = m
        BY <1>1, <1>3
      <3> QED BY <1>3, <1>5, <3>1 DEF Originals
    <2> HIDE DEF m
    <2>2. m * TotalCells \in Nat /\ Atoms = 1..m
      BY <1>3, <2>1 DEF m
    <2>3. ASSUME NEW k \in 1..(m * TotalCells)
          PROVE  /\ particles[((k - 1) % m) + 1].atom = ((k - 1) % m) + 1
                 /\ sourceLabel[((k - 1) % m) + 1] = ((k - 1) % m) + 1
      <3>1. (k - 1) % m \in 0..(m - 1)
        <4>1. k - 1 \in Nat
          BY <2>2
        <4> QED BY <2>1, <4>1, Division
      <3>2. ((k - 1) % m) + 1 \in Atoms
        BY <2>1, <2>2, <3>1
      <3> QED BY <1>1, <3>2
    <2>4. particles' = Tiles(m)
      BY <1>5, <2>1, <2>3 DEF Tiles
    <2>5. /\ DOMAIN particles' = 1..(m * TotalCells) /\ Len(particles') = m * TotalCells
          /\ Len(sourceLabel') = m * TotalCells
      BY <1>5, <2>1, <2>2
    <2>6. ASSUME NEW k \in 1..(m * TotalCells) PROVE sourceLabel'[k] = particles'[k].atom
      BY <1>5, <2>1, <2>3 DEF LabelByCell
    <2>7. ASSUME NEW j \in 1..(m * TotalCells), NEW k \in 1..(m * TotalCells),
                 particles'[j] = particles'[k]
          PROVE  j = k
      BY <1>1, <2>1, <2>4, <2>7, TilesAreApart
    <2>8. ASSUME NEW p \in Atoms, NEW cell \in Cells
          PROVE  \E k \in 1..(m * TotalCells) : particles'[k] = [atom |-> p, image |-> cell]
      <3>1. cell \in [Axes -> Nat] /\ \A a \in Axes : cell[a] < supercell[a]
        BY <1>3
      <3>2. p \in 1..m /\ m \in Nat \ {0}
        BY <2>1, <2>2
      <3> HIDE DEF Cells
      <3>3. \E k \in 1..(m * TotalCells) : Tiles(m)[k] = [atom |-> p, image |-> cell]
        BY <1>1, <3>1, <3>2, TilesAreAll
      <3> QED BY <2>4, <3>3
    <2> HIDE DEF Cells
    <2> QED BY <2>5, <2>6, <2>7, <2>8
  <1>6. Originals # 0 \/ supercell = OneCell
    BY DEF Tile, Exit, Prepared
  <1> QED BY <1>4, <1>5, <1>6 DEF Tile

LEMMA TilingStep ==
  ASSUME CommandInv, Next
  PROVE  Tiling'
  <1>1. Tiling /\ Course /\ world' = world /\ Axes' = Axes /\ Atoms' = Atoms
    BY InputKept DEF CommandInv, Axes, Atoms
  <1>2. CASE NextCommand
    BY <1>2 DEF NextCommand, Tiling, TiledInLockstep, Prepared
  <1>3. CASE Prepare \/ Inspect \/ Run
    <2> USE DEF Exit, Goto, structure
    <2>1. Kind' = Kind
      BY <1>3, CommandKept
    <2>2. CASE Load
      BY <2>1, <2>2 DEF Load, Tiling, TiledInLockstep, Prepared
    <2>3. CASE ReadCif
      <3>1. pc = "read" /\ Parsed(file, world, Kind)
        BY <1>1, <2>3 DEF ReadCif, Course
      <3>2. ~Prepared'
        BY <2>1, <2>3, <3>1 DEF ReadCif, Prepared
      <3> QED BY <1>1, <2>3, <3>2 DEF ReadCif, Tiling, TiledInLockstep
    <2>4. CASE Widen \/ Choose
      BY <1>1, <2>4 DEF Widen, Choose, Tiling, TiledInLockstep, Prepared
    <2>5. CASE Tile
      BY <2>5, TiledByTile DEF Tile, Tiling
    <2>6. CASE Parameters \/ Inspect \/ Run
      <3>1. /\ UNCHANGED structure /\ pc' \notin {"replicate", "tile"}
        BY <2>6 DEF Parameters, AfterParameters, Inspect, PeekAtCache, PrintConfig, Run, GetGrid,
                    AfterGrid, WriteResolvedConfig, Equilibrate, ProductionStep, EndBatch,
                    EndProduction, Analyze, Report
      <3>2. Prepared' => Prepared
        <4> USE <1>1, <2>1 DEF Course, Prepared
        <4>1. CASE Parameters \/ Inspect
          BY <4>1 DEF Parameters, AfterParameters, Inspect, PeekAtCache, PrintConfig
        <4>2. CASE GetGrid \/ WriteResolvedConfig
          BY <4>2 DEF GetGrid, AfterGrid, WriteResolvedConfig
        <4>3. CASE Equilibrate \/ ProductionStep \/ EndBatch
          BY <4>3 DEF Equilibrate, ProductionStep, EndBatch
        <4>4. CASE EndProduction \/ Analyze \/ Report
          BY <4>4 DEF EndProduction, Analyze, Report
        <4> QED BY <2>6, <4>1, <4>2, <4>3, <4>4 DEF Run
      <3>3. TotalCells' = TotalCells
        BY <1>1, <3>1 DEF TotalCells, CellsAfter, Axes
      <3> QED BY <1>1, <3>1, <3>2, <3>3 DEF Tiling, TiledInLockstep
    <2> QED BY <1>3, <2>2, <2>3, <2>4, <2>5, <2>6 DEF Prepare
  <1> QED BY <1>2, <1>3 DEF Next

-----------------------------------------------------------------------------
(* Any steps are steps of Next, or change nothing. *)
LEMMA StutterInv ==
  ASSUME CommandInv, UNCHANGED vars
  PROVE  CommandInv'
  <1>1. /\ UNCHANGED <<file, world, command, dryRun, pc, axis, n, supercell, particles, sourceLabel>>
        /\ artifact' = artifact
        /\ UNCHANGED <<engineSteps, stepsRun, inBatch, samples, status, vouched, commands>>
    BY DEF vars, input, which, counting, structure, sampling, session
  <1>2. /\ Kind' = Kind /\ Axes' = Axes /\ Atoms' = Atoms /\ OneCell' = OneCell /\ Json' = Json
        /\ ProductionSteps' = ProductionSteps /\ ThisBatch' = ThisBatch
    BY <1>1, KindKept, JsonKept
       DEF Axes, Atoms, OneCell, ProductionSteps, ThisBatch, StepsPerUpdate
  <1>3. Types' /\ Course'
    BY <1>1, <1>2 DEF CommandInv, Types, Course
  <1>4. Counting' /\ Chosen'
    BY <1>1, <1>2 DEF CommandInv, Counting, Chosen, Prepared
  <1>5. Sampling' /\ Artifact'
    BY <1>1, <1>2 DEF CommandInv, Sampling, Artifact
  <1>6. Vouching'
    BY <1>1, <1>2 DEF CommandInv, Vouching, VouchedRunsSucceed, Vouched
  <1>7. Tiling'
    <2>1. TotalCells' = TotalCells
      BY <1>1, <1>2 DEF TotalCells, CellsAfter
    <2>2. (Prepared' <=> Prepared) /\ Tiling
      BY <1>1, <1>2 DEF CommandInv, Prepared
    <2> QED BY <1>1, <1>2, <2>1, <2>2 DEF Tiling, TiledInLockstep
  <1> QED BY <1>3, <1>4, <1>5, <1>6, <1>7 DEF CommandInv

LEMMA CommandInvInductive == CommandInv /\ [Next]_vars => CommandInv'
  BY TypesStep, CourseStep, CountingStep, ChosenStep, SamplingStep, ArtifactStep, VouchingStep,
     TilingStep, StutterInv DEF CommandInv

LEMMA CommandInvHolds == Spec => []CommandInv
  BY InitInv, CommandInvInductive, PTL DEF Spec

(* For every file, every CIF and any number of commands: the counts of      *)
(* cells stay ints and production within its steps (main.cc).               *)
THEOREM CommandTypeCorrect == Spec => []CommandTypeOK
  <1>1. CommandInv => CommandTypeOK
    <2> SUFFICES ASSUME CommandInv PROVE CommandTypeOK
      OBVIOUS
    <2>1. pc = "produce" => stepsRun \in 0..ProductionSteps /\ inBatch \in 0..ThisBatch
      BY DEF CommandInv, Sampling, Course
    <2> QED BY <2>1 DEF CommandInv, Types, Vouching, AllCommands, Places, CommandTypeOK
  <1> QED BY <1>1, CommandInvHolds, PTL

(* minimumSupercellReplication stops at the least cell whose width exceeds  *)
(* twice the cutoff, on every axis, whatever the widths and the cutoff.     *)
THEOREM CellIsMinimal == Spec => []SupercellIsMinimal
  <1>1. CommandInv => SupercellIsMinimal
    BY ChosenIsMinimal DEF SupercellIsMinimal
  <1> QED BY <1>1, CommandInvHolds, PTL

(* replicateSupercell and the labels main.cc tiles apart from it agree, for  *)
(* any number of atoms and any replication: each atom is in each cell once. *)
THEOREM AtomsAreTiled == Spec => []TiledInLockstep
  <1>1. CommandInv => TiledInLockstep
    BY DEF CommandInv, Tiling
  <1> QED BY <1>1, CommandInvHolds, PTL

(* However many production steps there are, the batches of the progress     *)
(* updates add up to them, and each is sampled.                             *)
THEOREM StepsAreSampled == Spec => []EveryStepSampled
  BY SampledAtEnd, CommandInvHolds, PTL

(* What a dry run has accepted, a real run does not refuse later.           *)
THEOREM DryRunIsTelling == Spec => []VouchedRunsSucceed
  <1>1. CommandInv => VouchedRunsSucceed
    BY DEF CommandInv, Vouching
  <1> QED BY <1>1, CommandInvHolds, PTL

(* The engine runs, and a result is printed, only with the configuration of *)
(* this very run on disk; a dry run writes nothing.                         *)
THEOREM ArtifactStaysCurrent == Spec => ArtifactIsCurrent
  <1>1. CommandInv /\ [Next]_vars =>
          [/\ pc' \in {"equilibrate", "produce", "report"} => artifact' = Json'
           /\ dryRun /\ pc # "done" => UNCHANGED <<artifact, engineSteps>>]_vars
    BY ArtifactStep DEF Artifact
  <1> QED BY <1>1, CommandInvHolds, PTL DEF Spec, ArtifactIsCurrent
===============================================================================
