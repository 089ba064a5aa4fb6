# TLA+ models of aleator

aleator is a toolkit for adsorption in porous crystals: grand-canonical Monte
Carlo (GCMC) of rigid molecules in a fixed framework, and geometric analysis of
the framework's pores. This directory holds TLA+ specifications of the parts of
it whose correctness is a matter of bookkeeping, order and discrete arithmetic
rather than of numerics, the TLC configurations that check them on small
instances, and the TLAPS proofs of what they say for every instance.

Paths below are relative to the repository; the source lines behind every
definition are in `PROJECT.json` (`map`).

## The system

| Component | State | Operations | Hard part |
|---|---|---|---|
| `engines/monte_carlo/monte_carlo_engine` | particle pool, molecule list (indices into the pool), guest cell list, Ewald state, accepted moves since its last resync | `run`: translation, rotation, insertion, deletion, identity swap, each proposed, then accepted or rejected | swap-with-last removal renames indices held elsewhere; trials are written into the pool and taken back; the cell list and the Ewald cache are derived state that each outcome must keep right |
| `engines/monte_carlo/gcmc_acceptance.hpp` | none | acceptance ratios | counts and activities before/after a move; the ratio must match the proposal |
| `core/math/particle_data.hpp` | parallel arrays | append, copy, drop last | order is not preserved |
| `forcefield/electrostatics/ewald_incremental_state` | S(k), self and exclusion energies | propose (pure), commit, resync | propose and commit must see the same sites; a resync reads pool and molecules directly |
| `forcefield/electrostatics/ewald`, `forcefield/pairwise` | parameters | pair and particle energies | real arithmetic |
| `engines/monte_carlo/framework_energy_grid` | a directory of cache files shared by processes | key, load, build, write; header check for `--dry-run` | killed runs, two runs at once, hash collisions, lost flush |
| `core/neighbor` (`CellList`, `VerletList`) | bins; candidate pairs and reference positions | build, scan, rebuild test | stale supersets; small grids |
| `core/geometry` | cell matrix, reduced basis | minimum image, widths, supercell | greedy reduction, replication at exact multiples |
| `engines/geometry_analysis` | Voronoi network, offset union-find | percolation, accessible volume | periodic offsets through path compression; deduplication of vertices |
| `io` | none | CIF and TOML reading, symmetry expansion | loop structure of CIF, deduplication of orbits |
| `cli/main.cc` | resolved configuration | `gcmc run`, `pore analyze`, `validate`, `--dry-run` | what is checked before the run, what during |
| `core/math/counter_based_rng`, `core/memory/arena` | counters, offset | draws, bump allocation | stream separation, alignment at the end of the buffer |
| `simd_kernels`, `peng_robinson`, `bindings` | none | numeric kernels | real arithmetic |

The command line reads a configuration and a structure, replicates the cell,
loads or builds the energy grid, and hands everything to one engine, which runs
on one thread. The engine calls the force field and the Ewald state
synchronously; there are no callbacks into it. The only concurrency is between
processes, through the cache directory. `pore analyze` goes from the structure
through Voro++ to the Voronoi network, and from there into the periodic graph.

## Modules

| Module | Models | Extends |
|---|---|---|
| `RigidMolecules` | values: sites, templates, placements, centroids, periodic distance, bins | |
| `GcmcEngine` | the engine's pool, molecules, cell list and the steps of every attempt | `RigidMolecules` |
| `MoleculeList` | abstract: a list of rigid molecules held by value | `RigidMolecules` |
| `GcmcEngineProofs` | theorems about `GcmcEngine` | `GcmcEngine` |
| `EwaldIncremental` | the Ewald cache | `RigidMolecules` |
| `ChargedGcmc` | `GcmcEngine` with energies, the Ewald cache and resyncs | `GcmcEngine`, `EwaldIncremental` |
| `ChargedGcmcProofs` | theorems about `ChargedGcmc`, with a theory of finite sums | `ChargedGcmc`, `GcmcEngineProofs` |
| `GcmcSampling` | the Markov chain: proposals, ratios, detailed balance | `RigidMolecules` |
| `GcmcSamplingProofs` | theorems about `GcmcSampling` | `GcmcSampling` |
| `EnergyGridCache` | processes over the cache directory | |
| `EnergyGridCacheProofs` | theorems about `EnergyGridCache` | `EnergyGridCache` |
| `Config` | which configuration files are accepted, and what a run gets from one | |
| `RunCommand` | the commands, one after the other, on one file and one CIF | `Config` |
| `RunCommandProofs` | theorems about `RunCommand` | `RunCommand` |
| `CifDocument` | the line parser of CIF, and the grammar it is compared with | |
| `CifStructure` | from a parsed document to atoms | |
| `ReadCif` | the two halves of `readCif` side by side | `CifDocument`, `CifStructure` |
| `ReadCifProofs` | theorems about `ReadCif` and each of its halves | `ReadCif` |
| `Lattice` | the minimum image of a cell, with the reduction of skewed ones | |
| `CellList` | bins and the scan of neighbouring bins | |
| `VerletList` | the neighbour list over a particle array that its owner changes | |
| `PeriodicGraph` | the offset union-find and the two calls made of it | |
| `PeriodicGraphProofs` | theorems about `PeriodicGraph` and `PoreAnalysis` | `PoreAnalysis` |
| `PoreAnalysis` | the Voronoi network and the analysis, down to the graph's steps | `PeriodicGraph` |
| `CounterRng` | the Philox generator | |
| `Arena` | the bump allocator | |
| `Core` | the services of `core/` side by side | `VerletList`, `CellList`, `Lattice`, `CounterRng`, `Arena` |
| `CoreProofs` | theorems about `Core` and each of its parts | `Core` |

Each `MC...` module gives the constants of one or more of these values for TLC.
`ReadCif`, `MCPoreAnalysis` and `Core` hold several components that know
nothing of one another (the two halves of `readCif`; the graph by itself and under
an analysis; the services of `core/`): one of them is chosen in the
initial state and is the only one that moves.

### GcmcEngine

The variables are the engine's members: `particles` (`particles_`), `molecules`
(`molecules_`), `cells` (`guestCellList_`, as the bin of every index at the last
build); `phase`, `trial` and `doomed` are the control point and the locals of
the attempt that is running. One attempt of the code is a chain of steps: a
`Start...` action up to the acceptance test, an `Accept...` or `Reject...`
action, one `RemoveNext` for each iteration of `removeParticleIndices`, and
`Settle` for the trailing rebuild. Nothing interleaves with an attempt (the
engine has one thread); the steps are separate so that the invariants speak of
the moments in between, where the code reads the pool, the cell list and the
Ewald cache. The random draws are nondeterministic choices, and either outcome of
the test is possible. Indices are 1-based.

Space is one-dimensional: integers on a periodic cell of length `L`. The only
proper rotation is then the reflection about the centroid. Stored positions are
not wrapped, as in the code; `Positions` bounds those that are explored.

`MoleculeList` is what all this is for: a list of molecules by value on which
each attempt performs one operation or none. The mapping (`Config`, inside
`GcmcEngine`) reads each molecule's sites from the pool, those of a running
displacement at their original positions.

### EwaldIncremental and ChargedGcmc

Charges are integers, and the reciprocal vectors of a cell of length 4 are
multiples of a quarter turn, so cosines and sines are 0, 1 and -1 and the
arithmetic is exact. Prefactors, erf and erfc are integer tables. Every trial
computes `deltaU` from the energies the code computes, at the moment the code
computes them, from the pool and the cell list as they are; every accepted trial
commits the sites it captured. `ledger` is a history variable: the sum of
accepted `deltaU`s. The acceptance ratio excludes a rejection only for a
displacement that does not go uphill; for the other moves activity and volume
enter, so both outcomes stay possible.

### GcmcSampling

Configurations are bags of placed molecules. For each move the module lists the
attempts that can be made, each with its probability and ratio as fractions
(energies are integers and exp(-1/T) is a half). `Flow` adds up the probability of
going from one configuration to another; the balance properties compare it,
times the grand-canonical weight, with the reverse flow. This ties together what the
unit tests check apart: the ratio, the draw of species and molecule, and the
geometry of the trial. The energy difference is taken as the difference of total
energies, which is what `LedgerMatchesEnergy` establishes.

### EnergyGridCache

A file is a sequence of chunks: the key, the shape, then values. A process
starts (file present: read; absent: build), reads chunk by chunk, or truncates
the file and writes chunk by chunk at its own offset; a write past the end leaves
a hole of zeros. A process may be killed at any step, and the last chunk, flushed
by the destructor after the stream was checked, may be lost. What the file system
does (`Written`, `Hole`, `Die`) is external; the rest is translated from
`framework_energy_grid.cc`. `setting` says how many processes may run at
once, whether failures happen, and which keys share a hash.

### Config and RunCommand

`Config` is the loader as predicates on a file: each key has a number (any
well-typed value, for keys that are not numbers), NaN, a node of the wrong type, or
nothing. It keeps what the code does with widths: `thread_count` and the
supercell entries are cast to 32 bits (`UnsignedRange` is 64 in the model).

`RunCommand` is one command after another on the same configuration, CIF,
output directory and cache. `Load`, `ReadCif`, `Widen` and `Choose`
(`minimumSupercellReplication`, one turn of its loop at a time, then the
override), `Tile`, `Parameters` are `prepareGcmc`; `PeekAtCache` and `PrintConfig`
are the dry run; `GetGrid`, `WriteResolvedConfig`, `Equilibrate`, `ProductionStep`,
`EndBatch`, `EndProduction`, `Analyze` and `Report` are the real runs, in the order of
the code. A division by zero exits with status 136, and an `int` that would
overflow leads to `pc = "undefined"`, after which nothing is said. `vouched` remembers
which commands have accepted the file in a dry run. The engine's steps are a
counter here; they are those of `GcmcEngine`.

### CifDocument and CifStructure

`CifDocument` reads a file whose lines are chosen as the parser comes to them,
each a sequence of tokens; its `pc` is the loop of the code that reads the line.
`Meaning` is CIF's own grammar, a recursive function over the lines of the file,
and within a line over its tokens: line ends mean nothing in it outside text
fields, a text field is a value wherever one may stand (after a tag or in a
loop), what follows its closing semicolon is read on, a loop has columns and
values, and nothing comes before the first `data_`. It differs from the parser
in all of these. It does not know save frames and the reserved words `global_`
and `stop_`; of a tag given twice it keeps the last value, as the code does,
where CIF has no such files.
`CifStructure` takes a document through the cell, the operations and the atom
sites: one step for each image of a site, compared with those kept before.
Coordinates are whole numbers of a thirtieth of a cell edge, of which the file
can write every third: thirds of an edge are rounded as they are in real files.
Each row carries the site its author meant, which the properties compare with.
`ReadCif` is both, each on its own inputs: they share only the document that the
first returns and the second is called with.

### PeriodicGraph and PoreAnalysis

`PeriodicGraph` takes `find` apart: `Descend` follows links to the root, and keeps
the call stack in `path`; `Compress` redirects one node of it. `unite` is two
finds (`TakeEdge`, `FoundFrom`) and then `CloseCycle` or `Join`. A sweep in
`percolationThreshold` may take edges of equal weight in any order. `rootOf` and
`unwrapped` are history: the component of each node, and its position in the
component's frame. `WalksFrom` defines percolation without a forest: walks along
edges that come back to their node in another image.

`PoreAnalysis` reads Voro++'s cells vertex by vertex, each off by some round-off,
wraps and keys them, adds the edges of each face with their image offsets, makes
the two calls in the graph (as steps of `PeriodicGraph`), and classifies sample
points. `truth` is the threshold of the same crystal, of which every vertex is
one point. `KeysResolve` says that no round-off takes a vertex over a border of
its key or of the cell.

### Lattice, CellList, VerletList, CounterRng, Arena

`Lattice` runs `greedyReduce` pair by pair and pass by pass on integer vectors
and then the search around the rounded coordinates. `CellList` gives, as a
function of the positions, how often the scan offers each pair. `VerletList` is
built over any metric and any offer (`Dist`, `Offered`); its owner moves,
inserts and removes particles in between. `CounterRng` is Philox for words of
any width, any odd multipliers and any number of rounds. Its exclusive or is a
constant operator, `WordXor`, of which `XorAssumption` says what the generator
relies on: it stays within a word, commutes and undoes itself. `MCCore` gives it
the bitwise operator, and TLC evaluates the assumption. `Arena` takes sums
modulo the size of `std::size_t`.

## Runs

| Run | Instance | Shows |
|---|---|---|
| `gcmc_engine` | two species of one and two sites, one framework atom, cell of 4 bins, up to 3 molecules | the pool, the index lists and the cell list stay consistent, the engine refines `MoleculeList` |
| `charged_gcmc` | the same kinds with charges, a neutral framework of two ions, up to 2 molecules, resync after 3 accepted moves | the cache and the ledger are exact in every state |
| `gcmc_sampling` | five cells, one framework atom, up to 2 molecules, template on its centroid | detailed balance of every move from every configuration |
| `swap_balance` | the same with an off-centre template | **violation**: the swap is not balanced |
| `grid_cache` | 2 processes: one at a time with failures and three keys of which two share a hash; or both at once without failures, keys in distinct files | the right grid or an error; finished files stay; files end complete; runs end |
| `grid_cache_holes` | both at once | **violation**: a reader takes a hole for values |
| `grid_cache_dry_run` | one at a time, failures | **violation**: a dry run reports a hit that a real run refuses |
| `run_command` | a good file with each key wrong in each way, cutoffs, step counts, overrides; cells of two axes; four states of the cache; two commands in a row | supercell, tiling, sampling, artifacts, what a dry run vouches for; commands end |
| `read_cif` | all files of up to 6 lines over a stock of 11, among them one with a quote left open; 500 documents with 1 to 4 operations | a laid out text is read as CIF's grammar says, what is refused could not be mended, what is accepted is well formed but for missing values; sites are filled once |
| `cif_layout` | all files of up to 6 lines over a stock with two names on one line, and text fields in loops | **violation**: two columns are read as one |
| `pore_analysis` | graphs of 3 nodes, 3 edges, 2 axes; honeycombs of one and two cells with round-off in every vertex, which lies inside its key, on a border of it, or on the border of the cell | offsets, threshold and accessibility are right; the limiting diameter is the crystal's where the keys resolve the vertices, and never above it |
| `core` | 3 particles on seven points of a 12 by 8 box; 84 cells and 18 displacements; two generators of 2-bit words; an arena of 24 bytes | exact pairs, shortest images, separate streams, disjoint blocks |

Why the bounds are enough. Three molecules of one and two sites give every
aliasing case of `removeParticleIndices`: the last particle belongs to another
molecule, to the doomed one, to the rest of the doomed list, or to the swap's
new sites. A radius of 1 on a cell of 4 gives four bins, so that neighbours are
a proper subset. In `charged_gcmc` a cell of length 4 and positions -1..4 have
unwrapped sites on both sides. An interval of 3 puts a resync after every kind of
move. In `gcmc_sampling` two molecules of each kind suffice for every pair of
counts that the ratios distinguish (0, 1, 2); five cells are more than the longest
interaction. Two processes are enough for the cache: a third would only
read what the second leaves, and processes start again after they are done.
`Init` has an empty directory; every partial file arises from kills.

In `run_command` the cutoff of 3 is exactly half of one width, so that the
equality in the replication loop is met, and the step counts 4, 9, 10 and 23 lie
on either side of the ten updates; a second command sees what the first left.
Six lines hold a data line, a header of two columns and rows that break in the
middle, or a text field. Three edges on three nodes give every shape of the
forest in which a compressed node is joined again. The honeycombs have both a
channel and a pocket. Of their vertices some lie off the centre of their key,
where round-off stays without effect; some at the very border between two keys
(10, with keys of 4), where it makes two nodes of one vertex; and some on the
border of the cell, where it makes two nodes at opposite sides. A vertex that is
split takes up to two nodes more, hence the four `Nodes`. In `core` the cutoffs
give one, two and three bins along an axis; the matrices include vectors exactly
half along one another and images several cells away; five calls exceed the low
word of the call index.

`run_command`, `read_cif`, `pore_analysis` and `core` end where the code returns
(a command is done, a file is read, a call has its answer), so their
configurations switch deadlock checking off; the same holds for the violations
over the same modules. The other runs check it.

### Properties

- Types (`TypeOK`, `ChargedTypeOK`, `CacheTypeOK`, `CommandTypeOK`,
  `ReadCifTypeOK`, `PoreTypeOK`, `CoreTypeOK`), with what holds of control:
  between attempts the cell list has exactly the guests; a resync is never late;
  a batch is within the steps; `find`'s stack is a path of parents; a pending
  row is shorter than the loop is wide.
- `GuestsOwnedOnce`: every guest index is in exactly one slot of one molecule,
  of the running trial, or of the sites being removed.
- `FrameworkFixed`: the framework occupies the first slots, unmoved.
- `TrialSeesOthers`: a trial energy is summed over the guests of the other
  molecules in reach, at present positions, and over no others.
- `MoleculesRigid`: every molecule is a rigid copy of its template.
- `ImplementsMoleculeList`: the engine refines `MoleculeList`.
- `CacheMatchesMolecules`: the Ewald cache equals the one computed from the
  accepted molecules, also while trial or removed sites are in the pool.
- `LedgerMatchesEnergy`: accepted differences add up to the true change of the
  total energy.
- `MoveBalance`, `SwapBalance`: detailed balance.
- `GridIsRight`, `SerialGridIsRight`: a run that goes ahead has the grid of its
  own inputs.
- `CompleteFilesStay`: finished files are never changed.
- `FilesEndComplete`: when all runs are done, every file is complete.
- `DryRunIsRight`: what a dry run calls a hit can be loaded.
- `SupercellIsMinimal`: every axis is replicated until it exceeds twice the cutoff,
  and no further.
- `TiledInLockstep`: labels, tiled in `main.cc`, stay with the particles, tiled in
  `supercell.cc`; every atom is in every cell once.
- `EveryStepSampled`: the mean is over every production step, whatever the batches.
- `ArtifactIsCurrent`: from the first step of the engine to the printed result,
  `resolved_config.json` is that of this run, and dry runs leave nothing.
- `VouchedRunsSucceed`: what a dry run has accepted runs to its result, apart from
  what it cannot see (see below).
- `ReadsWhatIsWritten`, `RejectsOnlyMalformed`: on files with one construct a
  line the parser and the grammar agree. `NeverSilentlyWrong`: on all files.
- `AcceptsOnlyWellFormed`: a file of which the parser looks at every word is
  accepted only if it is well formed, but for values that are missing.
- `SitesFilledOnce`: each site has one atom, special positions included, where the
  digits of the file resolve the tolerance.
- `AtomsKeepTheirElement`: element, mass, occupancy and label are those of the row.
- `OffsetsAreTrue`: an offset to the parent is the difference of unwrapped positions.
- `ThresholdIsRight`, `AccessibleIsRight`: the answers are those of a search of walks.
- `PldIsThatOfTheCrystal`: the limiting diameter is never above that of the
  crystal, whatever round-off does to the vertices, and equal to it where their
  keys resolve them.
- `AnswersAgree`: the limiting diameter and the accessible volume agree.
- `PairsExact`: while `needsRebuild` is false, `pairs()` has every pair in reach once.
- `ShortestImageFound`: no periodic image is shorter than the one returned.
- `DrawsApart`: two draws share Philox's input just when they are the same call.
- `BlocksApart`: blocks are aligned, in the buffer and apart.
- `RunsEnd`, `CommandsEnd`: liveness.

Each property of a passing run has a mutant of the code's model that breaks it
(`mutants` in `PROJECT.json`); the mutants stand in the modules before the
definition they vary, marked as such.

### Fairness

`EnergyGridCache` assumes weak fairness of each
process's own work; being killed is not fair. `RunCommand` assumes weak fairness
of the steps of a command, which is one thread; that there is a next command is
not assumed. The other modules make no statement that needs fairness.

## Findings

1. `swap_balance`. The swap puts the new template's *reference point* at the old
   molecule's *centroid* (`monte_carlo_engine.cc:713`). If the two differ in a
   template, the reverse swap cannot propose the old placement, and the swap
   moves do not sample the stated ensemble. The comment at lines 708-712 and the
   README's claim for every move type only cover the prefactor. With centred
   templates (all templates in the repository's examples) the swap is balanced.
2. `grid_cache_holes`. Cache files are written in place under their final name;
   two runs that miss the same entry can make a third one load zeros.
   A temporary file and a rename would close this.
3. `grid_cache_dry_run`. `--dry-run` reads the header only, so it reports a hit
   on a file that a killed run left truncated, which a real run refuses; the
   comment in `main.cc:326-330` promises the same problems.
4. `cif_layout`. Of a line in a loop's header only the first word becomes a column
   (`cif_document.cc:239-243`), of a line with a tag only the second word its value
   (288-290). A valid CIF with `_a _b` on one line is read with one column, its
   values dealt to the wrong rows without an error; `structure_io.hpp:48-50` says
   "never a silently wrong parse". The run's lines hold a second way, which `tlc
   -continue` lists among the violations: a text field as a value of a loop. On
   the five lines `loop_`, `_a`, `;`, `1`, `;` the code takes the semicolons and
   the text for three rows (254-271).

### Divergences without a run

What else the modelling met. The properties of the passing runs are stated so that they
do not cover these cases (`KeysResolve`, `DigitsResolve`, `NoWrap`, `LaidOut`,
`NothingIgnored`, the conditions of `VouchedRunsSucceed`); paths are below `src/`.

- `engines/geometry_analysis/periodic_graph.cc:132-137`: the threshold is the first
  percolating weight whatever its sign. Free radii are negative where atoms
  overlap, so a dense structure gets a negative limiting diameter;
  `periodic_graph.hpp:29-32` and `pore_analysis.hpp:29-31` say zero.
- `engines/geometry_analysis/voronoi_network.cc:89-92` and `139-141`: a vertex is
  wrapped and then keyed. One on the border of the cell, up to round-off, is
  wrapped to either side by different cells; one on the border of a key, anywhere
  in the cell, is rounded to either key. Both become two nodes and the passage
  through them may be cut, so that the limiting diameter comes out too small.
  `PldIsThatOfTheCrystal` says only this of them: never too large.
- `cli/main.cc:466-479`: the output directory is first touched after the energy
  grid or the pore analysis, and by real runs only; `main.cc:16` says that a
  dry run "runs every check a real run would". `VouchedRunsSucceed` assumes that the
  directory can be written.
- `cli/main.cc:215-216`: a CIF whose atom loop has no rows, in a cell that has to
  be replicated, is an integer division by zero.
- `core/geometry/supercell.cc:14-17`: `loadGcmcConfig` only asks for a positive cutoff,
  so 1e12 or infinity takes the count past the largest `int`; `config.hpp:134-139`
  promises "a cutoff that isn't absurd".
- `io/config.cc:123-131`: `thread_count` is cast to `unsigned` before it is compared
  with 1, so that 2^32 + 1 passes; `io/config.cc:223-229`: a supercell entry of 2^32 + 2
  is checked as 64 bits and used as 2.
- `cli/main.cc:347-394`: `resolved_config.json` lacks the critical constants the
  fugacity is computed from, and has the grid spacing with six decimals only;
  `main.cc:94-97` says "enough to reproduce a published result from its
  artifacts alone".
- `cli/main.cc:525-529`: `gcmc.adsorbate.charge_e` is accepted and has no effect;
  `config.cc:125-126` calls such a key "a lie to the user".
- `io/cif_document.cc:259`: the end of a loop is looked for between rows only. A
  short row takes the words of the next construct as its values; where their
  number happens to fit, the file is accepted without that construct. In the
  same way a tag whose value is missing takes the next word (`286-290`,
  `327-333`), and a loop with columns and no values is accepted (`250-261`).
  `AcceptsOnlyWellFormed` excepts these files (the grammar's state
  `interrupted`), `ReadsWhatIsWritten` and `RejectsOnlyMalformed` do not apply or
  let them be refused.
- `io/cif_document.cc:254-271`: a text field as a value of a loop is read as plain
  words: silently wrong (finding 4), or, where its text has a word of the grammar
  or a number of words that does not fit, a well-formed file is refused.
  `LaidOut` excludes such files.
- `io/cif_document.cc:207-221,243,288-290,306-309`: words after `data_`, after
  `loop_`, after a column, after the value of a tag and after the semicolon that
  closes a text field are not looked at, and tags and loops before the first
  `data_` are accepted. `AcceptsOnlyWellFormed` is about files without these
  (`NothingIgnored`); where the words mean something, `LaidOut` excludes them.
- `io/structure_io.cc:31`: images of a special position such as 1/3, 2/3, given to four
  digits in a cell of 10 Angstrom, are further apart than the tolerance of 1e-3
  Angstrom, and the atom is counted several times. `SitesFilledOnce` assumes the
  digits resolve the tolerance (`DigitsResolve`).
- `engines/monte_carlo/monte_carlo_engine.cc:572-574`: the three draws of a position are
  arguments of one call, made in an order the compiler chooses;
  `counter_based_rng.hpp:8-11` promises a bit-identical trajectory.
- `core/memory/arena.hpp:46-50`: a request near the largest `std::size_t` wraps
  around and is granted. `BlocksApart` excludes it (`NoWrap`).
- `engines/monte_carlo/gcmc_acceptance.hpp:101`: `clampToProbability` of NaN is 1.

## Proofs

| Theorem | Statement |
|---|---|
| `GcmcEngineProofs!Inductive` | `Spec => []IInv` |
| `GcmcEngineProofs!TypeCorrect` | `Spec => []TypeOK` |
| `GcmcEngineProofs!OwnedOnce` | `Spec => []GuestsOwnedOnce` |
| `GcmcEngineProofs!FrameworkStays` | `Spec => []FrameworkFixed` |
| `GcmcEngineProofs!SeesOthers` | `Spec => []TrialSeesOthers` |
| `GcmcEngineProofs!Geometry` | `Spec => []TrialGeometry` |
| `GcmcEngineProofs!Implements` | `Spec => ImplementsMoleculeList` |
| `GcmcEngineProofs!StaysRigid` | `Spec => []MoleculesRigid` |
| `ChargedGcmcProofs!ChargedInductive` | `ChargedSpec => []IInv` |
| `ChargedGcmcProofs!ChargedTypeCorrect` | `ChargedSpec => []ChargedTypeOK` |
| `ChargedGcmcProofs!CacheIsCurrent` | `ChargedSpec => []CacheMatchesMolecules` |
| `ChargedGcmcProofs!LedgerIsExact` | `ChargedSpec => []LedgerMatchesEnergy` |
| `PeriodicGraphProofs!GraphInvariant` | `Spec => []GraphInv` |
| `PeriodicGraphProofs!GraphTypeCorrect` | `Spec => []GraphTypeOK` |
| `PeriodicGraphProofs!OffsetsStayTrue` | `Spec => []OffsetsAreTrue` |
| `PeriodicGraphProofs!AccessibleCorrect` | `Spec => []AccessibleIsNotPocket` |
| `PeriodicGraphProofs!ThresholdCorrect` | `Spec => []ThresholdSeparates` |
| `PeriodicGraphProofs!AccessibleIsWalked` | `Spec => []AccessibleIsRight` |
| `PeriodicGraphProofs!ThresholdIsWalked` | `Spec => []ThresholdIsRight` |
| `PeriodicGraphProofs!PoreInvariant` | `PoreSpec => []PoreInv` |
| `PeriodicGraphProofs!PoreTypeCorrect` | `PoreSpec => []PoreTypeOK` |
| `PeriodicGraphProofs!AnswersStayInAgreement` | `PoreSpec => []AnswersAgree` |
| `PeriodicGraphProofs!GraphWithinAnalysis` | `PoreSpec => [](OffsetsAreTrue /\ AccessibleIsRight /\ ThresholdIsRight)` |
| `GcmcSamplingProofs!BagIsGood` | `Spec => [](bag \in Good)` |
| `GcmcSamplingProofs!MovesInBalance` | `Spec => []MoveBalance` |
| `GcmcSamplingProofs!CentredSwapsInBalance` | `ASSUME Centred PROVE Spec => []SwapBalance` |
| `EnergyGridCacheProofs!SerialInvariant` | `Spec => [](Serial => SerialInv)` |
| `EnergyGridCacheProofs!SerialGridCorrect` | `Spec => []SerialGridIsRight` |
| `EnergyGridCacheProofs!FinishedFilesStay` | `Spec => CompleteFilesStay` |
| `EnergyGridCacheProofs!SharedInvariant` | `Spec => []SharedInv` |
| `EnergyGridCacheProofs!CacheTypeCorrect` | `Spec => []CacheTypeOK` |
| `EnergyGridCacheProofs!FilesComplete` | `Spec => []FilesEndComplete` |
| `RunCommandProofs!CommandTypeCorrect` | `Spec => []CommandTypeOK` |
| `RunCommandProofs!CellIsMinimal` | `Spec => []SupercellIsMinimal` |
| `RunCommandProofs!AtomsAreTiled` | `Spec => []TiledInLockstep` |
| `RunCommandProofs!StepsAreSampled` | `Spec => []EveryStepSampled` |
| `RunCommandProofs!DryRunIsTelling` | `Spec => []VouchedRunsSucceed` |
| `RunCommandProofs!ArtifactStaysCurrent` | `Spec => ArtifactIsCurrent` |
| `ReadCifProofs!ParserFollowsGrammar` | `Spec => []ReadsWhatIsWritten` |
| `ReadCifProofs!RejectedIsMalformed` | `Spec => []RejectsOnlyMalformed` |
| `ReadCifProofs!CifTypeCorrect` | `Spec => []CifTypeOK` |
| `ReadCifProofs!ElementsAreKept` | `StructureSpec => []AtomsKeepTheirElement` |
| `ReadCifProofs!StructureTypeCorrect` | `StructureSpec => []StructureTypeOK` |
| `ReadCifProofs!ReadCifTypeCorrect` | `ReadCifSpec => []ReadCifTypeOK` |
| `CoreProofs!VerletTypeCorrect` | `Spec => []VerletTypeOK` |
| `CoreProofs!PairsStayExact` | `Spec => []PairsExact` |
| `CoreProofs!CellDistanceIsMetric` | `Distance` is a metric on the places of the cell |
| `CoreProofs!CellListMeetsContract` | every pair is offered at most once, every pair in reach once |
| `CoreProofs!CellListServes` | `VerletList`'s assumptions on its metric and cell list hold of `CellList` |
| `CoreProofs!ImagesOnly` | `LatticeSpec => []ImageReturned` |
| `CoreProofs!OrthorhombicShortest` | `LatticeSpec => [](IsOrthorhombic => ShortestImageFound)` |
| `CoreProofs!ReducedIsShortest` | `LatticeSpec => [](IsOrthorhombic \/ Reduced => NoShorterImage)` |
| `CoreProofs!FinishedIsReduced` | a reduction that ends before its limit of passes ends in a `Reduced` basis |
| `CoreProofs!FinishedIsShortest` | `LatticeSpec => [](iter < MaxIterations => ShortestImageFound)` |
| `CoreProofs!LatticeTypeCorrect` | `LatticeSpec => []LatticeTypeOK` |
| `CoreProofs!WordsStayWords` | `RngSpec => []RngTypeOK` |
| `CoreProofs!DrawsStayApart` | `RngSpec => []DrawsApart` |
| `CoreProofs!BlocksNeverOverlap` | `ArenaSpec => []BlocksApart` |
| `CoreProofs!ArenaTypeCorrect` | `ArenaSpec => []ArenaTypeOK` |
| `CoreProofs!CoreImplementsServices` | `CoreSpec => Spec /\ LatticeSpec /\ RngSpec /\ ArenaSpec` |
| `CoreProofs!CoreTypeCorrect` | `CoreSpec => []CoreTypeOK` |

**The engine**, for every choice of templates, framework, cell length, radius,
shifts, positions and bound that satisfies `SpeciesAssumption`, `CellAssumption`,
`CentroidAssumption` and `EngineAssumption`. `GuestsOwnedOnce` is not
inductive: it says nothing of where a trial's sites are, and `RejectAppended`
drops the last ones. `IInv` adds what the steps of an attempt hand to one
another: `AttemptShape` (the trial's sites are those of its molecule, a removal has
a non-empty list, each molecule has as many sites as its template),
`AppendedLast` (the sites of a trial insertion or swap are the last of the pool)
and `CellsFresh` (the cell list is that of the pool without the trial). The
proof has one lemma per action and conjunct. Index lists are handled through
`IndexList(m)`, with the list of unlisted sites as list 0, so that ownership is
one statement about all lists; `RemoveNext` then needs three facts: renaming
keeps lists injective, keeps them disjoint, and covers the shorter pool.
`SeesOthers` follows from `IInv` alone. `Implements` needs `TrialGeometry` as well,
an invariant relative to `IInv`: when a trial is accepted the abstract step needs
the draw it came from, which is no longer in the state. `StaysRigid` then is a matter of
the abstract list: a shift of a placed template is a placement elsewhere, and its
reflection about the centroid one with the reflected orientation (`ShiftedPlaced`,
`ReflectedPlaced`).

**Electrostatics**, for every table of charges, structure factor weights, sines,
cosines and energies, every framework and resync interval that satisfies
`EwaldAssumption` and `EnergyAssumption` in addition (tables of integers; the
pair potential is 0 beyond the cutoff). What has to be shown is about sums over
the pool, so the module begins with a theory of them: `SumFunctionOnSet` over a
finite set is additive, may be renamed, split, and counted class by class. A
fold is defined by a choice of elements in some order, so the first step is that
there is one function that is additive on all parts of the set
(`AdditiveExists`), by induction on cardinality.

- `CacheIsCurrent` is inductive relative to `IInv`. Each component of `EwaldOf`
  is a sum over the bodies of the list (`EwaldByValue`), an accepted move
  changes one body of it (`ReplacedEntry`, `AppendedEntry`, `ErasedEntry`,
  matched to the refinement), and `Commit` adds just that difference
  (`CommitFollows`). A resync sums over the pool instead of the list; that the
  two agree is `GuestsOwnedOnce` (`PoolByMolecule`), and holds only because the
  resync comes when nothing is unlisted.
- `LedgerIsExact` is not inductive: it says nothing of the trial that will be
  booked. `LedgerInv` adds that `deltaU` of a running trial is the energy of the
  list as the trial would make it (`Proposal`), less that of the list as it is.
  For every kind of move, `Interaction` is the energy of one body against all
  but those that are left out (`InteractionIsAgainst`): the real-space scan
  meets each other body's sites once because each index has one owner; the scan
  by cells misses only sites out of reach, because the bins are those of the
  pool without the trial (`CellsFresh`) and two positions within the radius are
  in neighbouring bins (`InReachIsVisited`, from the arithmetic of bins on a
  periodic cell). That a pair is counted once is `BetweenSplit`: the energy of a
  list is that of the list without a body, and that of the body against it.

**Detailed balance**, for every set of species and templates, framework, cell
length, set of shifts, activities, table of energies and bound that satisfies
`SamplingAssumption` and the assumptions of `RigidMolecules`. The interval of
shifts is symmetric (`ASSUME`d, as the code draws from -max to max), activities
are positive, energies any integers. `Good` is the invariant: a reachable bag
has a count for every placement and at most `MaxMolecules` molecules in all, so
that each is numbered once and the counts in the ratios are those of the bag.

- The weight of a configuration is a product over placements (`Product`, a
  fold), and adding a molecule at a placement multiplies it by the activity over
  the new count there (`Factorial`). The powers of two by which the weights of
  two energies differ are those of the Boltzmann factor (`Power`).
- `Flow` sums over attempts. Both flows between two configurations are paired
  draw by draw: a translation with the opposite shift, a rotation with itself,
  an insertion with the deletions of the molecule it adds, a swap with the swap
  back. A pair's odds and ratios balance by themselves, through min(1, r) = r
  min(1, 1/r), and the *number* of draws that lead from one to the other is what
  makes the counts in the ratios right: a deletion of one of several molecules
  at one placement has that many draws.
- `CentredSwapsInBalance` has the hypothesis `Centred`: the mean offset of every
  template is 0. Without it the theorem is false, which is what the run
  `swap_balance` shows. With it the old centroid is the old reference point, and
  the swap back proposes the old placement.

**The periodic graph**, for every set of nodes, set of axes and set of calls
that satisfies `GraphAssumption`. `OffsetsAreTrue` needs to know what `find`
returns while it is on its way back: `LinkInv` says that `link` leads from the
node below to the root, and `Ranked` that there is a rank which rises along
parents, so that no node is on the stack twice and a compression does not change
a link that is still to be used. `ComponentInv` says that components are those
of the united edges, `FlagInv` that a root's flag is set if and only if one of
its edges does not fit the unwrapped positions, `RigidInv` that every placement
which fits a component's edges is the unwrapped one, shifted. From the invariant
alone follow two theorems about *placements*, `AccessibleCorrect` and
`ThresholdCorrect`: a component percolates when no placement of its nodes,
without images, fits all its edges.

`AccessibleIsRight` and `ThresholdIsRight` speak of *walks* instead, and of
walks of no more steps than there are nodes. To pass from one to the other, the
proof keeps with a walk every spot it visits. A walk of more steps than there
are nodes visits one twice; if it comes back in another image, a piece of it has
already escaped, and if in the same, the piece between can be left out
(`Segment`, `Shortcut`, `EscapesShortly`). So walks of bounded length are as
good as any, reachability is symmetric, and a component in which nobody escapes
can be placed by the walks from one of its nodes (`SpreadFits`). Hence a node is
in a pocket or percolates (`PocketOrPercolating`). This needs finitely many
nodes, which `GraphAssumption` says.

**The pore analysis**, for every set of frameworks, round-off, sampling and
probe that satisfies `PoreAssumption` (well-formed cells and faces, positive
lengths, at least the two ends of an edge sampled) and `RoomAssumption` (`Nodes`
has room for every key). `PoreInv` carries `GraphInv` through both calls, as
each starts from a fresh forest, and adds three parts. `NetworkInv`: no two
nodes have one key, so that there are at most as many as keys, and edges lead
between existing nodes and are no wider than `widest`. `CallInv`: the edges a
call was given are still those of the network, and `pld` bounds every threshold
of them, which is what makes the answer of the *second* call, by another
algorithm and for another set of edges, agree with the first. `CountInv`:
nothing is counted as accessible unless some node is. `PldIsThatOfTheCrystal` is
not among the theorems: that a point and its keys correspond is geometry of the
cell's grid, which TLC checks on the crystals of the run.

**The neighbour list and its cell list.** The list is proved for every space,
metric, skin, set of cutoffs and cell list that satisfies `VerletAssumption`,
`MetricAssumption` (the triangle inequality) and `CellListAssumption` (the scan
offers each pair in reach once). The inductive invariant has the candidates as
exactly the pairs within cutoff and skin at the reference positions; with each
of two particles moved by less than half the skin, the triangle inequality does
the rest (`HalfSkin`).

The cell list discharges these assumptions. For every number of axes, widths and
radius, with particles anywhere (also outside the cell), `CellDistanceIsMetric`
and `CellListMeetsContract` hold, and `CellListServes` puts them in the words of
`VerletList`. Along one axis, the minimum image is the least of all images'
distances, from which the triangle inequality follows; two points within the
radius fall in the same or in neighbouring bins, also around the end of the cell
and also where rounding down makes bins wider than the radius. The scan's list
of neighbouring bins has no bin twice, also when an axis has one or two bins and
the neighbours on both sides are one: that is the case in which a pair could be
offered twice.

**Minimum images**, for every set of cells and displacements of whole numbers
and every positive limit on passes and search. `LatticeInv` says that the vectors being
reduced are whole combinations of the cell's, and span the same volume up to
sign; it follows, through the adjugate, that whatever the search subtracts is a
lattice vector of the *given* cell (`ImagesOnly`), also if the reduction stops
at its limit. In an orthorhombic cell, where the code takes each axis by itself,
the image returned is the shortest of all (`OrthorhombicShortest`).

A skewed cell relies on the reduction and on a search of a few cells around the
rounded coordinates. A comment says that the reduction is not a certified
Minkowski reducer (`lattice.cc:65`); `ReducedIsShortest` says that it does not
have to be one. `Reduced` is what its loop condition gives: no vector of the
basis gets shorter by a multiple of another. From such a basis the search finds
the shortest of *all* images, however far, and already with a radius of 1 (the
code has 2). The argument:

- Of the basis only its six products matter (`Gram`, `CombineLength`), and a
  displacement's distance from a cell, times the volume, has the rounding errors
  as its coordinates, each at most half (`RestInParts`, `RoundedNear`).
- Up to the order and the signs of the vectors, the length is the energy of four
  nodes on a line of which every two are joined by a spring that never pushes:
  at the origin and the three coordinates if no product of two vectors is
  positive (`ObtuseIsNear`), at the origin and the running sums of the
  coordinates in the other case (`AcuteIsNear`). That the basis is reduced in
  pairs is what makes all six springs pull.
- If a cell is further than one from the rounded coordinates, two nodes are 3/2
  apart, so that some gap between neighbouring nodes is at least 1/2
  (`GapExists`). Moving all nodes beyond the gap by one leads to another cell,
  no two nodes are further apart than before (`ClosingHelps`), so no spring has
  more energy (`ClosingPulls`), and the total spread falls (`ClosingTightens`).
  By descent one ends within one cell (`SpringsFindNearest`).
- `ReductionInv` carries it to the code: every cell can be reached along the
  basis being reduced, and a pass that has changed nothing so far has left
  reduced pairs behind it.

A reduction that ends before `kMaxIterations` ends in a `Reduced` basis
(`FinishedIsReduced`), hence `FinishedIsShortest`. It need not: with a vector
exactly half along another, as in hexagonal and face-centred cells, `std::round`
goes away from zero and the pass changes the vector for its mirror image, again
in the next pass, until the limit. A product of exactly half a square is still
within `Reduced`, so that `ReducedIsShortest`, whose hypothesis is about the
basis and not about the limit, can hold of these cells as well; the run `core`
has some, and checks `ShortestImageFound` of them directly.

**Random numbers**, for every width of the words, number of rounds, odd
multipliers, Weyl constants, seeds and streams (`RngAssumption`,
`XorAssumption`). Of `DrawsApart`, that two draws have one input just when they
are the same call is carried by `RngInv`: a generator's counter is the number of
its draw written in words, and its key and upper words are its seed and stream.
The carry into the second word of the call index is in it. That Philox permutes
the counters is a property of the round: an odd multiplier has no common factor
with the size of a word, so the low half of the product determines the factor,
and the rest of the round is undone by `WordXor`. The rounds are a recursive
function; that the chain of them is injective goes down the chain by a least
counterexample. Injective, it maps the M^4 counters to as many outputs.

**The arena**, for every capacity, alignment and set of requests that satisfies
`ArenaAssumption` and, as the property says, cannot wrap around. `ArenaInv` adds
the bound of the bump pointer, from which no sum wraps; `RoundsUp` is the
arithmetic of the alignment. `ArenaTypeCorrect` holds without that condition: a
request that wraps around is granted, but the bump pointer stays within the
buffer.

`CoreImplementsServices` carries these over to `Core`, the specification TLC runs.

**The grid's cache**, one process at a time, for every set of processes and
inputs, number of chunks and assignment of keys to file names, with deaths and
lost flushes, from `CacheAssumption` and `KeyAssumption` (no two inputs have one
key, which holds as long as the program does not let the mixing rule vary).
Neither property is inductive. `SerialInv` says that at most one process runs,
that every file is the beginning of one which some input with that name would
get (`FilesInv`: so a hole never appears), that a reader which has verified the
key is in a file of its own input, that a builder's file still does not exist
and that a writer's file holds what it has written and no more. A complete file
is then longer than one a writer writes to, and is not one a builder truncates.

With any number of processes at once `SerialInv` fails, as the run
`grid_cache_holes` shows. What still holds of types and positions is
`SharedInv`. `FilesComplete` needs more: builders truncate and overwrite one
another's files, so that "the file is a beginning" is false in the middle.
`AllToCome` says that a chunk which is missing or not yet what it should be is
still to come from a process that has not reached it, because whoever truncates
begins at the beginning; once nobody writes, nothing is left to come. The
property is about `Orderly` circumstances, without deaths or lost flushes or two
keys with one name.

**The commands**, for all files, CIFs, states of the cache and numbers of
commands that satisfy `CommandAssumption` (well-formed inputs, positive widths
and defaults). `CommandInv` has one part for each property. `Chosen`: the counts
are, axis by axis, the least that exceed twice the cutoff, or the override.
`Sampling`: `samples` is the sum of the batches done and the steps of this one.
`Vouching`: a success of a dry run or `validate` means `Passes`, a predicate on
the inputs alone, and each check a real run makes follows from it. `Tiling`: the
particles and the labels are the same function of atom and cell, because the
images in mixed radix (`CellsAfter`) are a bijection from the numbers below the
product of the counts (`ImageInjective`, `ImageOnto`, by induction over the
axes).

**The line parser of CIF**, for every stock of lines and names and every length
of a file that satisfies `CifAssumption` (lines are sequences of tokens, the
words of the grammar are no data). Neither property is inductive: they speak of
the end of a file only. `GrammarInv` says what holds line by line: unless the
lines before the cursor are past mending (`Wrong`), the parser's variables hold
what the grammar has made of them (`Follows`). `CifInv` adds the types it needs.

- What the grammar makes of one more line is one step of its own
  (`MeaningOfAppend`), and what it makes of a line goes token by token
  (`TokensChain`): the recursive functions are unwound once, and from there
  the proof is about single lines. Each action of the parser is shown to do
  what the grammar does with the line (`TopKept` to `TextKept`), or to reject
  it where the grammar breaks.
- Parser and grammar are out of step in two places. The parser has a loop as
  rows and a remainder, the grammar as one sequence of values: `DealtFacts`
  says that rows and remainder, read through by row and column (`Told`), are
  the values so far, whatever the width. And the parser knows that a loop has
  ended only when it sees the next line, which it then looks at again; in
  between, the grammar is still in the values (`Complete`).
- That each file is laid out one construct a line, and has no text field in a
  loop (`LaidOut`), is a hypothesis of both properties: without it they are
  false, which is what the run `cif_layout` shows. A file in which a value is
  missing is past mending too; the parser goes on with the next word for a
  value, and neither property says anything of what it then makes of the file.

**The CIF reader's second half**, for every document that satisfies
`StructureAssumption`. `StructureInv` adds that the list of species has no
element twice and only grows, so that a number given to an atom keeps its
meaning, and that the row under expansion has its element registered.
`StructureTypeCorrect` needs that the coordinates and the operations used are
numbers (`CellInv`): what does not parse has been rejected before.
`HalvesKept` carries both halves over to `ReadCif`, the specification TLC runs.

Induction. The library's induction theorems take an operator as an argument,
which the provers cannot instantiate. Where a proof needs induction over numbers
or finite sets it goes by a least counterexample instead: the *set* of failures,
if not empty, has a least element (`WFMin`, `NatLessThanWellFounded`). This
covers recursive functions and folds; it does not cover `RECURSIVE` operators.

What is left to TLC:

- liveness (`RunsEnd`, `CommandsEnd`), which the provers cannot
  treat under fairness;
- `AcceptsOnlyWellFormed`: the proof's invariant treats all files that are past
  mending alike;
- `SitesFilledOnce`: it is true of operations that form a group and sites that
  are either the same or well apart, as they are in the documents of the run, and
  not of any list of operations;
- `SwapBalance` for templates off their centroid, where it is false;
- `ShortestImageFound` in cells whose reduction is cut off at the limit of
  passes with a basis that is not reduced in pairs: a long enough skew needs
  more passes than any limit, and then the search may miss. That what is
  returned is an image is proved in these, too;
- `PldIsThatOfTheCrystal`: it compares the network with the crystal without
  round-off, for which every vertex must be matched to a point whatever cell
  reads it.

## Not modelled

- Floating-point rounding and NaN (all arithmetic is exact), with two exceptions:
  round-off of Voronoi vertices, and the test for a flat cell in `buildLattice`
  (`structure_io.cc:94-99`), which may go either way where its value is exactly
  zero (`Flat`). Left out are in particular the drift that resyncs of the
  Ewald state bound, the interpolation and construction arithmetic of the
  energy grid, and a difference between the width of a replicated cell and the
  multiple of the width it was chosen by (`supercell.cc:14`).
- Skewed cells beyond reach of the reference search of `ShortestImageFound`, which
  looks a fixed number of cells far in the run `core`; the theorems about
  reduced bases compare with every image.
- The Voronoi decomposition itself (Voro++, an external library): its cells are
  an input.
- SIMD kernels, the Peng-Robinson equation of state and the pair potentials:
  closed-form real arithmetic without control.
- Widom insertion, which changes no state; batch evaluators of energies and forces.
- The NVT/NPT placeholder and the PDB, LAMMPS and trajectory writers, which
  throw; the bench command, flag parsing and logging; the Python bindings, which
  export a version string.
- Velocities, `reserve` and `resize` of the particle pool; `AlignedAllocator`.
- The surface loop of the pore analysis, which classifies its points as the volume
  loop does.
