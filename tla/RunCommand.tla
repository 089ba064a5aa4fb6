----------------------------- MODULE RunCommand -----------------------------
(***************************************************************************)
(* The commands of the program (cli/main.cc) on one configuration file and *)
(* one CIF: `validate`, `gcmc run` and `pore analyze`, each with or        *)
(* without --dry-run, one after the other.  A command loads the file,      *)
(* reads the CIF and, for GCMC, replicates the cell until the cutoff fits  *)
(* (core/geometry/supercell.cc) and finds parameters for every element;    *)
(* a dry run stops there, a real run gets its energy grid, writes          *)
(* resolved_config.json and samples.                                       *)
(***************************************************************************)
EXTENDS Config

CONSTANTS
  Files,        \* configuration files explored
  Worlds,       \* what they meet: the CIF, the output directory, the cache
  NoArtifact,
  RadiusTable,  \* elements zeoPlusPlusDefaultRadiusAngstrom knows
  MaxCommands   \* bound: commands of a session

kProgressUpdates == 10
IntMax == (UnsignedRange \div 2) - 1

(* The CIF: perpendicular widths by axis, and its atoms' elements.          *)
IsWorld(w) ==
  /\ w.widths \in Seq(Nat \ {0}) /\ w.widths # << >>
  /\ w.atoms \in Seq({w.atoms[p] : p \in DOMAIN w.atoms})
  /\ w.wellFormed \in BOOLEAN /\ w.writable \in BOOLEAN
  /\ w.cache \in {"none", "whole", "bad header", "bad data"}

ASSUME CommandAssumption ==
  /\ \A f \in Files : IsFile(f)
  /\ \A w \in Worlds : IsWorld(w)
  /\ UnsignedRange \in Nat /\ UnsignedRange >= 4 /\ MaxCommands \in Nat
  /\ \A k \in Optional \ Critical : DefaultOf[k] \in Int \cup {Absent}
  /\ {Absent, Mistyped, NotANumber} \cap Int = {}
  /\ DefaultOf["cutoff_angstrom"] \in Nat \ {0}
  /\ DefaultOf["production_steps"] \in Nat \ {0}
  /\ DefaultOf["equilibration_steps"] \in Nat

VARIABLES
  file, world,
  command,      \* "validate", "gcmc run" or "pore analyze"
  dryRun,
  pc,
  axis, n,      \* minimumSupercellReplication: the axis, the counts so far
  supercell,    \* the replication that is used
  particles,    \* structure.particles: atom of the CIF and its image
  sourceLabel,  \* structure.sourceLabel
  artifact,     \* resolved_config.json
  engineSteps,  \* steps the engine has made
  stepsRun, inBatch, samples,
  status,       \* exit status, -1 before
  vouched,      \* commands, and kinds, whose dry run or validate was a success
  commands      \* commands completed

input == <<file, world>>
which == <<command, dryRun>>
counting == <<axis, n>>
structure == <<supercell, particles, sourceLabel>>
sampling == <<engineSteps, stepsRun, inBatch, samples>>
session == <<vouched, commands>>
vars == <<input, which, pc, counting, structure, artifact, sampling, status, session>>

Axes == DOMAIN world.widths
Cutoff == ValueOf(file, "cutoff_angstrom")
ProductionSteps == ValueOf(file, "production_steps")
Atoms == DOMAIN world.atoms
OneCell == [a \in Axes |-> 1]

Init ==
  /\ file \in Files /\ world \in Worlds
  /\ command \in {"validate", "gcmc run", "pore analyze"}
  /\ dryRun \in (IF command = "validate" THEN {TRUE} ELSE BOOLEAN)
  /\ artifact = NoArtifact
  /\ vouched = {} /\ commands = 0
  /\ pc = "load" /\ status = -1
  /\ axis = 1 /\ n = OneCell
  /\ supercell = OneCell /\ particles = << >> /\ sourceLabel = << >>
  /\ engineSteps = 0 /\ stepsRun = 0 /\ inBatch = 0 /\ samples = 0

Exit(s) == pc' = "done" /\ status' = s
Goto(place) == pc' = place /\ UNCHANGED status

-----------------------------------------------------------------------------
(* What the command is about, which `validate` takes from the file. *)
Kind ==
  CASE command = "gcmc run" -> "Gcmc"
    [] command = "pore analyze" -> "Pore"
    [] OTHER -> detectConfigKind(file)

Load ==
  /\ pc = "load"
  /\ IF \/ Kind = "Gcmc" /\ loadGcmcConfig(file, Len(world.widths))
        \/ Kind = "Pore" /\ loadPoreConfig(file)
     THEN Goto("read")
     ELSE Exit(1)
  /\ UNCHANGED <<input, which, counting, structure, artifact, sampling, session>>

(* readCif; for `pore analyze`, the radii of the elements as well.          *)
ReadCif ==
  /\ pc = "read"
  /\ IF world.wellFormed /\ (Kind = "Pore" => \A p \in Atoms : world.atoms[p] \in RadiusTable)
     THEN /\ Goto(IF Kind = "Gcmc" THEN "replicate" ELSE IF dryRun THEN "print" ELSE "analyze")
          /\ particles' = [p \in Atoms |-> [atom |-> p, image |-> [a \in Axes |-> 0]]]
          /\ sourceLabel' = [p \in Atoms |-> p]
     ELSE Exit(1) /\ UNCHANGED <<particles, sourceLabel>>
  /\ UNCHANGED <<input, which, counting, supercell, artifact, sampling, session>>

(* Mutant: exactly twice the cutoff is wide enough. *)
TooNarrowOrExact(a) == n[a] * world.widths[a] < 2 * Cutoff

TooNarrow(a) == n[a] * world.widths[a] <= 2 * Cutoff

(* minimumSupercellReplication: one turn of its while loop, or the next     *)
(* axis.  Past the largest int the increment is undefined.                  *)
Widen ==
  /\ pc = "replicate" /\ axis \in Axes
  /\ IF TooNarrow(axis)
     THEN IF n[axis] < IntMax
          THEN n' = [n EXCEPT ![axis] = @ + 1] /\ UNCHANGED <<axis, pc>>
          ELSE pc' = "undefined" /\ UNCHANGED counting
     ELSE axis' = axis + 1 /\ UNCHANGED <<n, pc>>
  /\ UNCHANGED <<input, which, structure, artifact, sampling, status, session>>

OverrideIsUpward == \A a \in Axes : Requested(file)[a] >= n[a]

Choose ==
  /\ pc = "replicate" /\ axis \notin Axes
  /\ IF file.supercell = Absent
     THEN supercell' = n /\ Goto("tile")
     ELSE IF OverrideIsUpward
     THEN supercell' = Requested(file) /\ Goto("tile")
     ELSE Exit(1) /\ UNCHANGED supercell
  /\ UNCHANGED <<input, which, counting, particles, sourceLabel, artifact, sampling, session>>

(* The cells of the supercell in the order of replicateSupercell's loops:   *)
(* the last axis runs fastest.                                              *)
CellsAfter(a) ==
  LET product[b \in 0..Len(world.widths)] ==
        IF b <= a THEN 1 ELSE product[b - 1] * supercell[b]
  IN product[Len(world.widths)]
TotalCells == CellsAfter(0)
Image(cell) == [a \in Axes |-> (cell \div CellsAfter(a)) % supercell[a]]

Originals == Len(particles)

(* Mutant: the labels of all images of an atom follow each other. *)
LabelByAtom(k) == sourceLabel[((k - 1) \div TotalCells) + 1]

LabelByCell(k) == sourceLabel[((k - 1) % Originals) + 1]

(* The widths of the new cell, by Lattice::perpendicularWidth. *)
Width(a) == supercell[a] * world.widths[a]
CutoffFits == \A a \in Axes : 2 * Cutoff <= Width(a)

(* With no atoms, totalCells is a division by zero. *)
Tile ==
  /\ pc = "tile"
  /\ IF supercell = OneCell
     THEN UNCHANGED structure /\ (IF CutoffFits THEN Goto("parameters") ELSE Exit(1))
     ELSE IF Originals = 0
     THEN UNCHANGED structure /\ Exit(136)
     ELSE /\ particles' = [k \in 1..(Originals * TotalCells) |->
               [atom |-> particles[((k - 1) % Originals) + 1].atom,
                image |-> Image((k - 1) \div Originals)]]
          /\ sourceLabel' = [k \in 1..(Originals * TotalCells) |-> LabelByCell(k)]
          /\ UNCHANGED supercell
          /\ IF CutoffFits THEN Goto("parameters") ELSE Exit(1)
  /\ UNCHANGED <<input, which, counting, artifact, sampling, session>>

HasParameters(element) ==
  \E i \in DOMAIN file.framework_lj : file.framework_lj[i].element = element

AfterParameters == IF ~dryRun THEN "grid" ELSE IF command = "validate" THEN "print" ELSE "peek"

Parameters ==
  /\ pc = "parameters"
  /\ IF \A p \in Atoms : HasParameters(world.atoms[p])
     THEN Goto(AfterParameters)
     ELSE Exit(1)
  /\ UNCHANGED <<input, which, counting, structure, artifact, sampling, session>>

UsesGrid == Given(file, "energy_grid_spacing_angstrom")

(* Mutant: the dry run does not look at the cache. *)
NoLook == FALSE

HeaderIsBad == UsesGrid /\ world.cache = "bad header"

(* The dry run reads the header of a cached grid only. *)
PeekAtCache ==
  /\ pc = "peek"
  /\ IF HeaderIsBad THEN Exit(1) ELSE Goto("print")
  /\ UNCHANGED <<input, which, counting, structure, artifact, sampling, session>>

PrintConfig ==
  /\ pc = "print" /\ Exit(0)
  /\ UNCHANGED <<input, which, counting, structure, artifact, sampling, session>>

-----------------------------------------------------------------------------
(* The real runs. *)

(* Mutant: the configuration is not written. *)
StraightOn == "equilibrate"

AfterGrid == "write"

GetGrid ==
  /\ pc = "grid"
  /\ IF UsesGrid /\ world.cache \in {"bad header", "bad data"} THEN Exit(1) ELSE Goto(AfterGrid)
  /\ UNCHANGED <<input, which, counting, structure, artifact, sampling, session>>

(* resolvedConfigJson.  std::to_string gives the spacing six decimals; it   *)
(* is counted in their tenths here.                                         *)
Written == (RunKeys \cup GcmcKeys) \ (Critical \cup {"energy_grid_spacing_angstrom"})
SpacingText == IF UsesGrid THEN file.node["energy_grid_spacing_angstrom"] \div 10 ELSE Absent
Json ==
  IF Kind = "Gcmc"
  THEN [settings |-> Settings(file, Written), supercell |-> supercell, lj |-> file.framework_lj,
        spacing |-> SpacingText,
        uses_peng_robinson |-> Given(file, "critical_temperature_kelvin")]
  ELSE [settings |-> Settings(file, RunKeys \cup PoreKeys)]

WriteResolvedConfig ==
  /\ pc = "write"
  /\ IF world.writable
     THEN artifact' = Json /\ Goto(IF Kind = "Gcmc" THEN "equilibrate" ELSE "report")
     ELSE Exit(1) /\ UNCHANGED artifact
  /\ UNCHANGED <<input, which, counting, structure, sampling, session>>

Equilibrate ==
  /\ pc = "equilibrate" /\ Goto("produce")
  /\ engineSteps' = ValueOf(file, "equilibration_steps")
  /\ UNCHANGED <<input, which, counting, structure, artifact, stepsRun, inBatch, samples, session>>

AtLeast(a, b) == IF a < b THEN b ELSE a
AtMost(a, b) == IF a < b THEN a ELSE b

(* Mutant: no update for less than ten steps. *)
TenthOfSteps == ProductionSteps \div kProgressUpdates

StepsPerUpdate == AtLeast(1, ProductionSteps \div kProgressUpdates)

(* Mutant: the last batch is as long as the others. *)
FullBatch == StepsPerUpdate

ThisBatch == AtMost(StepsPerUpdate, ProductionSteps - stepsRun)

ProductionStep ==
  /\ pc = "produce" /\ stepsRun < ProductionSteps /\ inBatch < ThisBatch
  /\ engineSteps' = engineSteps + 1
  /\ samples' = samples + 1
  /\ inBatch' = inBatch + 1
  /\ UNCHANGED <<input, which, pc, counting, structure, artifact, stepsRun, status, session>>

EndBatch ==
  /\ pc = "produce" /\ stepsRun < ProductionSteps /\ inBatch = ThisBatch
  /\ stepsRun' = stepsRun + ThisBatch
  /\ inBatch' = 0
  /\ UNCHANGED <<input, which, pc, counting, structure, artifact, engineSteps, samples, status,
                 session>>

EndProduction ==
  /\ pc = "produce" /\ stepsRun >= ProductionSteps /\ Goto("report")
  /\ UNCHANGED <<input, which, counting, structure, artifact, sampling, session>>

(* analyzePoreGeometry refuses a framework without atoms. *)
Analyze ==
  /\ pc = "analyze"
  /\ IF particles = << >> THEN Exit(1) ELSE Goto("write")
  /\ UNCHANGED <<input, which, counting, structure, artifact, sampling, session>>

Report ==
  /\ pc = "report" /\ Exit(0)
  /\ UNCHANGED <<input, which, counting, structure, artifact, sampling, session>>

(* Another command on the same files. *)
NextCommand ==
  /\ pc = "done" /\ commands < MaxCommands
  /\ commands' = commands + 1
  /\ vouched' = IF dryRun /\ status = 0 THEN vouched \cup {<<command, Kind>>} ELSE vouched
  /\ command' \in {"validate", "gcmc run", "pore analyze"}
  /\ dryRun' \in (IF command' = "validate" THEN {TRUE} ELSE BOOLEAN)
  /\ pc' = "load" /\ status' = -1
  /\ axis' = 1 /\ n' = OneCell
  /\ supercell' = OneCell /\ particles' = << >> /\ sourceLabel' = << >>
  /\ engineSteps' = 0 /\ stepsRun' = 0 /\ inBatch' = 0 /\ samples' = 0
  /\ UNCHANGED <<input, artifact>>

Prepare == Load \/ ReadCif \/ Widen \/ Choose \/ Tile \/ Parameters
Inspect == PeekAtCache \/ PrintConfig
Run == \/ GetGrid \/ WriteResolvedConfig \/ Equilibrate \/ ProductionStep \/ EndBatch
       \/ EndProduction \/ Analyze \/ Report

Next == Prepare \/ Inspect \/ Run \/ NextCommand
Spec == Init /\ [][Next]_vars /\ WF_vars(Prepare \/ Inspect \/ Run)

-----------------------------------------------------------------------------
(* Properties. *)

(* Every variable has its type: the counts of cells stay ints, and the      *)
(* production loop stays within its steps.                                  *)
CommandTypeOK ==
  /\ file \in Files /\ world \in Worlds
  /\ command \in {"validate", "gcmc run", "pore analyze"} /\ dryRun \in BOOLEAN
  /\ pc \in {"load", "read", "replicate", "tile", "parameters", "peek", "print", "grid", "write",
             "equilibrate", "produce", "analyze", "report", "done", "undefined"}
  /\ axis \in Nat \ {0} /\ n \in [Axes -> 1..IntMax]
  /\ supercell \in [Axes -> Nat \ {0}]
  /\ engineSteps \in Nat /\ samples \in Nat
  /\ pc = "produce" => stepsRun \in 0..ProductionSteps /\ inBatch \in 0..ThisBatch
  /\ status \in {-1, 0, 1, 136}
  /\ vouched \subseteq {"validate", "gcmc run", "pore analyze"} \X {"Gcmc", "Pore"}
  /\ commands \in 0..MaxCommands

(* The system is prepared: replicated, and its cutoff checked. *)
Prepared ==
  \/ pc \in {"parameters", "peek", "grid", "equilibrate", "produce"}
  \/ pc \in {"print", "write", "report"} /\ Kind = "Gcmc"

(* Each axis is replicated until its width exceeds twice the cutoff, and no *)
(* further unless the override says so (supercell.hpp): a cell of exactly   *)
(* twice the cutoff is too narrow.                                          *)
SupercellIsMinimal ==
  Prepared =>
    \A a \in Axes :
      /\ 2 * Cutoff < Width(a)
      /\ file.supercell = Absent /\ supercell[a] > 1 =>
           (supercell[a] - 1) * world.widths[a] <= 2 * Cutoff

(* Every atom of the CIF is in every cell once, and the labels, tiled apart *)
(* from the particles, stay with their atoms ("re-tiled here in lockstep",  *)
(* main.cc).                                                                *)
TiledInLockstep ==
  Prepared =>
    /\ Len(sourceLabel) = Len(particles)
    /\ \A k \in DOMAIN particles : sourceLabel[k] = particles[k].atom
    /\ \A j, k \in DOMAIN particles : particles[j] = particles[k] => j = k
    /\ \A p \in Atoms, cell \in {c \in [Axes -> 0..TotalCells] : \A a \in Axes : c[a] < supercell[a]} :
         \E k \in DOMAIN particles : particles[k] = [atom |-> p, image |-> cell]

(* The mean is over every production step, and over one at least; however   *)
(* the progress updates cut production into batches, the engine makes no    *)
(* step more.                                                               *)
EveryStepSampled ==
  pc = "report" /\ Kind = "Gcmc" =>
    /\ samples = ProductionSteps /\ samples > 0
    /\ engineSteps = ValueOf(file, "equilibration_steps") + ProductionSteps

(* Once the engine runs, and when the result is printed, the configuration  *)
(* of this very run is on disk, whatever an earlier command has left there  *)
(* ("a published result can be reproduced from its artifacts alone");       *)
(* --dry-run and validate run and write nothing (the usage text).           *)
ArtifactIsCurrent ==
  [][/\ pc' \in {"equilibrate", "produce", "report"} => artifact' = Json'
     /\ dryRun /\ pc # "done" => UNCHANGED <<artifact, engineSteps>>]_vars

(* A file that a dry run has accepted runs to its result, if the output     *)
(* directory can be written, a cached grid has its data and the framework   *)
(* has atoms; for validate, a cached grid must have its header as well.     *)
Vouched ==
  \/ <<command, Kind>> \in vouched
  \/ <<"validate", Kind>> \in vouched /\ world.cache # "bad header"
VouchedRunsSucceed ==
  pc = "done" /\ ~dryRun /\ Vouched
  /\ world.writable /\ world.cache # "bad data" /\ world.atoms # << >>
    => status = 0

(* Every command comes to an end, however its cell is replicated and its    *)
(* production is cut into batches; unless the count of cells leaves the     *)
(* ints, after which nothing is defined.                                    *)
CommandsEnd == (pc = "load") ~> (pc \in {"done", "undefined"})
=============================================================================
