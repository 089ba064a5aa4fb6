----------------------------- MODULE GcmcEngine -----------------------------
(***************************************************************************)
(* The grand-canonical Monte Carlo engine of engines/monte_carlo: the pool *)
(* of particles, the molecules that index into it, and the guest cell list *)
(* that trial energies are read from.                                      *)
(*                                                                         *)
(* One call of attemptX() is a chain of steps that nothing interleaves:    *)
(*   Start..   build the trial in particles_, up to the acceptance test    *)
(*   Accept../Reject..   the two outcomes of the test                      *)
(*   RemoveNext          one iteration of removeParticleIndices' loop      *)
(*   Settle              the trailing maybeResyncEwald / rebuildGuestCellList *)
(* The acceptance test compares a random draw with a ratio, so either      *)
(* outcome is possible; ChargedGcmc adds the energies that enter it.       *)
(* The code's 0-based indices are 1-based here.                            *)
(***************************************************************************)
EXTENDS RigidMolecules

CONSTANT MaxMolecules   \* bound on the number of molecules

ASSUME EngineAssumption == MaxMolecules \in Nat

VARIABLES
  particles,   \* particles_: the framework, then guest sites in any order
  molecules,   \* molecules_: species and particle indices of each molecule
  cells,       \* guestCellList_: index -> bin, as of the last build
  phase,       \* where the running attempt is
  trial,       \* the locals of the running attempt
  doomed       \* removeParticleIndices' remaining `indices`

vars == <<particles, molecules, cells, phase, trial, doomed>>

Phases == {"idle", "trial", "removing", "settling"}
Moves == {"none", "displace", "insert", "delete", "swap"}

NoTrial == [move |-> "none", mol |-> 0, species |-> CHOOSE sp \in Species : TRUE,
            sites |-> << >>, original |-> << >>]

FrameworkCount == Len(Framework)

(* Sites `sites` of P moved to positions ps (setPosition in a loop). *)
Reposition(P, sites, ps) ==
  [i \in 1..Len(P) |->
     IF \E k \in 1..Len(sites) : sites[k] = i
     THEN [P[i] EXCEPT !.pos = ps[CHOOSE k \in 1..Len(sites) : sites[k] = i]]
     ELSE P[i]]

(* Mutant: the index before the new particle's. *)
AppendedSitesBefore(n) == [k \in 1..n |-> Len(particles) + k - 1]

(* The indices push_back returns for n new particles. *)
AppendedSites(n) == [k \in 1..n |-> Len(particles) + k]

(* popBack, n times. *)
PopBack(P, n) == SubSeq(P, 1, Len(P) - n)

Init ==
  /\ particles = Framework
  /\ molecules = << >>
  /\ cells = BinsOf(Framework)
  /\ phase = "idle"
  /\ trial = NoTrial
  /\ doomed = << >>

-----------------------------------------------------------------------------
(* Translation and rotation: new positions are written in place. *)

StartDisplacement(m, moved) ==
  /\ phase = "idle"
  /\ \A k \in DOMAIN moved : moved[k] \in Positions
  /\ trial' = [move |-> "displace", mol |-> m, species |-> molecules[m].species,
               sites |-> molecules[m].sites,
               original |-> [k \in 1..Len(molecules[m].sites) |->
                               particles[molecules[m].sites[k]].pos]]
  /\ particles' = Reposition(particles, molecules[m].sites, moved)
  /\ phase' = "trial"
  /\ UNCHANGED <<molecules, cells, doomed>>

StartTranslation ==
  \E m \in DOMAIN molecules, d \in Shifts :
    StartDisplacement(m, [k \in 1..Len(molecules[m].sites) |->
                            particles[molecules[m].sites[k]].pos + d])

(* A molecule with one site is not rotated; the rotation is about the centroid. *)
StartRotation ==
  \E m \in DOMAIN molecules, c \in Positions :
    /\ Len(molecules[m].sites) >= 2
    /\ IsCentroid(c, BodyOf(particles, molecules[m].sites))
    /\ StartDisplacement(m, [k \in 1..Len(molecules[m].sites) |->
                               2 * c - particles[molecules[m].sites[k]].pos])

AcceptDisplacement ==
  /\ phase = "trial" /\ trial.move = "displace"
  /\ phase' = "settling"
  /\ trial' = NoTrial
  /\ UNCHANGED <<particles, molecules, cells, doomed>>

(* Mutant: the first site is not put back. *)
RejectDisplacementPartly ==
  /\ phase = "trial" /\ trial.move = "displace"
  /\ particles' = Reposition(particles, SubSeq(trial.sites, 2, Len(trial.sites)),
                             SubSeq(trial.original, 2, Len(trial.original)))
  /\ phase' = "idle"
  /\ trial' = NoTrial
  /\ UNCHANGED <<molecules, cells, doomed>>

RejectDisplacement ==
  /\ phase = "trial" /\ trial.move = "displace"
  /\ particles' = Reposition(particles, trial.sites, trial.original)
  /\ phase' = "idle"
  /\ trial' = NoTrial
  /\ UNCHANGED <<molecules, cells, doomed>>

-----------------------------------------------------------------------------
(* Insertion: the new sites are appended to the pool. *)

(* Append a molecule of species sp as the trial of a move on molecule m. *)
StartAppending(move, m, sp, ref, o) ==
  /\ phase = "idle"
  /\ InPositions(Place(sp, ref, o))
  /\ particles' = particles \o Place(sp, ref, o)
  /\ trial' = [move |-> move, mol |-> m, species |-> sp,
               sites |-> AppendedSites(NumSites(sp)), original |-> << >>]
  /\ phase' = "trial"
  /\ UNCHANGED <<molecules, cells, doomed>>

StartInsertion ==
  /\ Len(molecules) < MaxMolecules
  /\ \E sp \in Species, ref \in 0..(L - 1) : \E o \in Orientations(sp) :
       StartAppending("insert", 0, sp, ref, o)

AcceptInsertion ==
  /\ phase = "trial" /\ trial.move = "insert"
  /\ molecules' = Append(molecules, [species |-> trial.species, sites |-> trial.sites])
  /\ phase' = "settling"
  /\ trial' = NoTrial
  /\ UNCHANGED <<particles, cells, doomed>>

(* A rejected insertion or swap truncates the pool by the new species' sites. *)
RejectAppended ==
  /\ phase = "trial" /\ trial.move \in {"insert", "swap"}
  /\ particles' = PopBack(particles, NumSites(trial.species))
  /\ phase' = "idle"
  /\ trial' = NoTrial
  /\ UNCHANGED <<molecules, cells, doomed>>

-----------------------------------------------------------------------------
(* Deletion: nothing changes until the test has been passed. *)

StartDeletion ==
  \E m \in DOMAIN molecules :
    /\ phase = "idle"
    /\ trial' = [move |-> "delete", mol |-> m, species |-> molecules[m].species,
                 sites |-> molecules[m].sites, original |-> << >>]
    /\ phase' = "trial"
    /\ UNCHANGED <<particles, molecules, cells, doomed>>

(* removeMolecule: copy the sites, erase the entry, then remove the sites. *)
AcceptDeletion ==
  /\ phase = "trial" /\ trial.move = "delete"
  /\ doomed' = molecules[trial.mol].sites
  /\ molecules' = EraseAt(molecules, trial.mol)
  /\ phase' = "removing"
  /\ trial' = NoTrial
  /\ UNCHANGED <<particles, cells>>

RejectDeletion ==
  /\ phase = "trial" /\ trial.move = "delete"
  /\ phase' = "idle"
  /\ trial' = NoTrial
  /\ UNCHANGED <<particles, molecules, cells, doomed>>

-----------------------------------------------------------------------------
(* Identity swap: the new molecule's sites are appended while the old ones *)
(* are still in the pool, with its reference point at the old centroid.    *)

StartSwap ==
  \E m \in DOMAIN molecules, c \in Positions :
    /\ IsCentroid(c, BodyOf(particles, molecules[m].sites))
    /\ \E sp \in Species \ {molecules[m].species} : \E o \in Orientations(sp) :
         StartAppending("swap", m, sp, c, o)

(* Mutant: the entry keeps its species. *)
AcceptSwapKeepingSpecies ==
  /\ phase = "trial" /\ trial.move = "swap"
  /\ doomed' = molecules[trial.mol].sites
  /\ molecules' = [molecules EXCEPT ![trial.mol].sites = trial.sites]
  /\ phase' = "removing"
  /\ trial' = NoTrial
  /\ UNCHANGED <<particles, cells>>

(* The entry is reassigned before the old sites are removed. *)
AcceptSwap ==
  /\ phase = "trial" /\ trial.move = "swap"
  /\ doomed' = molecules[trial.mol].sites
  /\ molecules' = [molecules EXCEPT ![trial.mol] =
                     [species |-> trial.species, sites |-> trial.sites]]
  /\ phase' = "removing"
  /\ trial' = NoTrial
  /\ UNCHANGED <<particles, cells>>

-----------------------------------------------------------------------------
(* Mutant: the rest of the list of doomed sites is not renamed. *)
RemoveNextKeepingRest ==
  /\ phase = "removing" /\ doomed # << >>
  /\ LET site == doomed[1]
         last == Len(particles)
         renamed(i) == IF i = last THEN site ELSE i
     IN
     /\ particles' = PopBack([particles EXCEPT ![site] = particles[last]], 1)
     /\ molecules' = [m \in 1..Len(molecules) |->
                        [molecules[m] EXCEPT !.sites =
                           [k \in 1..Len(@) |-> renamed(@[k])]]]
     /\ doomed' = SubSeq(doomed, 2, Len(doomed))
  /\ phase' = IF Len(doomed) = 1 THEN "settling" ELSE "removing"
  /\ UNCHANGED <<cells, trial>>

(* removeParticleIndices: swap with the last particle and pop.  References  *)
(* to the particle that moved are fixed in every molecule and in the rest   *)
(* of the list.  When the doomed site is the last one the code skips the    *)
(* fix-up; renaming an index to itself is the same.                         *)
RemoveNext ==
  /\ phase = "removing" /\ doomed # << >>
  /\ LET site == doomed[1]
         last == Len(particles)
         renamed(i) == IF i = last THEN site ELSE i
     IN
     /\ particles' = PopBack([particles EXCEPT ![site] = particles[last]], 1)
     /\ molecules' = [m \in 1..Len(molecules) |->
                        [species |-> molecules[m].species,
                         sites |-> [k \in 1..Len(molecules[m].sites) |->
                                      renamed(molecules[m].sites[k])]]]
     /\ doomed' = [k \in 1..(Len(doomed) - 1) |-> renamed(doomed[k + 1])]
  /\ phase' = IF Len(doomed) = 1 THEN "settling" ELSE "removing"
  /\ UNCHANGED <<cells, trial>>

(* Mutant: the cell list is not rebuilt. *)
SettleStale ==
  /\ phase = "settling"
  /\ phase' = "idle"
  /\ UNCHANGED <<particles, molecules, cells, trial, doomed>>

(* Every accepted move ends with rebuildGuestCellList. *)
Settle ==
  /\ phase = "settling"
  /\ cells' = BinsOf(particles)
  /\ phase' = "idle"
  /\ UNCHANGED <<particles, molecules, trial, doomed>>

Next ==
  \/ StartTranslation \/ StartRotation \/ AcceptDisplacement \/ RejectDisplacement
  \/ StartInsertion \/ AcceptInsertion \/ RejectAppended
  \/ StartDeletion \/ AcceptDeletion \/ RejectDeletion
  \/ StartSwap \/ AcceptSwap
  \/ RemoveNext \/ Settle

Spec == Init /\ [][Next]_vars

-----------------------------------------------------------------------------
(* Properties. *)

GuestIndices == (FrameworkCount + 1)..Len(particles)
Molecule == [species : Species, sites : Seq(Nat)]

Types ==
  /\ particles \in Seq(Site)
  /\ molecules \in Seq(Molecule)
  /\ cells \in [DOMAIN cells -> 0..(NumBins - 1)]
  /\ phase \in Phases
  /\ trial \in [move : Moves, mol : 0..Len(molecules), species : Species,
               sites : Seq(Nat), original : Seq(Int)]
  /\ doomed \in Seq(Nat)

(* Every variable has its type, and between attempts the cell list has a    *)
(* bin for exactly the guests now in the pool.                              *)
TypeOK ==
  /\ Types
  /\ phase = "idle" => DOMAIN cells = GuestIndices

(* The lists of particle indices the engine holds: each molecule's sites,   *)
(* and as list 0 the sites that belong to no molecule of molecules_, those  *)
(* of a trial insertion or swap or those still to be removed.               *)
Unlisted ==
  IF phase = "removing" THEN doomed
  ELSE IF trial.move \in {"insert", "swap"} THEN trial.sites ELSE << >>
IndexList(m) == IF m = 0 THEN Unlisted ELSE molecules[m].sites

(* Every guest particle is referenced exactly once: no two slots share an   *)
(* index, none dangles or points into the framework, none is orphaned.      *)
(* removeParticleIndices relocates the last particle at every removal, and  *)
(* whoever holds its index has to follow.                                   *)
GuestsOwnedOnce ==
  /\ \A m \in 0..Len(molecules) : \A k \in 1..Len(IndexList(m)) :
       IndexList(m)[k] \in GuestIndices
  /\ \A m1, m2 \in 0..Len(molecules) :
       \A k1 \in 1..Len(IndexList(m1)), k2 \in 1..Len(IndexList(m2)) :
         IndexList(m1)[k1] = IndexList(m2)[k2] => m1 = m2 /\ k1 = k2
  /\ \A i \in GuestIndices :
       \E m \in 0..Len(molecules) : \E k \in 1..Len(IndexList(m)) : IndexList(m)[k] = i

(* The framework atoms stay in the first frameworkCount_ slots, unmoved:    *)
(* frameworkIndices_ and the cell list's start index rely on it.            *)
FrameworkFixed ==
  /\ Len(particles) >= FrameworkCount
  /\ \A i \in 1..FrameworkCount : particles[i] = Framework[i]

(* Mutant: the molecule a swap replaces is scanned too. *)
ExcludedTrialOnly == Range(trial.sites)

(* What moleculeDispersionEnergy scans for a trial site: the cell list's    *)
(* candidates, without the trial molecule and (swap) the molecule it        *)
(* replaces.                                                                *)
Excluded ==
  Range(trial.sites) \cup
  (IF trial.move = "swap" THEN Range(molecules[trial.mol].sites) ELSE {})
Scanned(i) == {j \in DOMAIN cells : Visits(particles[i].pos, cells[j])} \ Excluded

(* The guests a trial energy is summed over are those of the other          *)
(* molecules in reach, each of them and no other, at their present          *)
(* positions: the cell list is never stale where a trial reads it.          *)
TrialSeesOthers ==
  phase = "trial" =>
    \A k \in 1..Len(trial.sites) :
      Scanned(trial.sites[k]) =
        {j \in GuestIndices :
           /\ Visits(particles[trial.sites[k]].pos, Bin(particles[j].pos))
           /\ \E m \in DOMAIN molecules \ {trial.mol} : j \in Range(molecules[m].sites)}

(* What the attempts made so far amount to: the molecules by value, those   *)
(* of a running displacement at their original positions.                   *)
Committed ==
  IF trial.move = "displace" THEN Reposition(particles, trial.sites, trial.original)
  ELSE particles
Config ==
  [m \in 1..Len(molecules) |->
     [species |-> molecules[m].species, sites |-> BodyOf(Committed, molecules[m].sites)]]

(* The pool of particles, the index lists and the swap-with-last removal    *)
(* implement a plain list of molecules: every attempt changes one molecule  *)
(* of the list or, rejected, nothing at all.                                *)
List == INSTANCE MoleculeList WITH config <- Config
ImplementsMoleculeList == List!Spec

(* Every molecule is at all times a rigid copy of its species' template:    *)
(* no sequence of moves, rejections and removals bends one or mixes up its  *)
(* sites.  The swap builds on it when it takes a centroid for a reference.  *)
MoleculesRigid == List!AllRigid

-----------------------------------------------------------------------------
(* The inductive invariant behind the properties. *)

(* What the steps of an attempt hand to one another. *)
AttemptShape ==
  /\ \A m \in 1..Len(molecules) :
       Len(molecules[m].sites) = NumSites(molecules[m].species)
  /\ phase = "trial" <=> trial.move # "none"
  /\ phase # "trial" => trial = NoTrial
  /\ phase = "removing" <=> doomed # << >>
  /\ trial.move \in {"displace", "delete", "swap"} => trial.mol \in 1..Len(molecules)
  /\ trial.move \in {"displace", "delete"} =>
       /\ trial.sites = molecules[trial.mol].sites
       /\ trial.species = molecules[trial.mol].species
  /\ trial.move = "displace" => Len(trial.original) = Len(trial.sites)
  /\ trial.move = "insert" => trial.mol = 0

(* The sites of a trial insertion or swap are the last ones of the pool. *)
Appended == IF trial.move \in {"insert", "swap"} THEN NumSites(trial.species) ELSE 0
AppendedLast ==
  /\ FrameworkCount + Appended <= Len(particles)
  /\ trial.move \in {"insert", "swap"} =>
       trial.sites = [k \in 1..Appended |-> Len(particles) - Appended + k]

(* Between attempts the cell list is that of the pool; during a trial it is *)
(* that of the pool without the trial.                                      *)
CellsFresh ==
  phase \in {"idle", "trial"} => cells = BinsOf(PopBack(Committed, Appended))

(* How the trial was generated. *)
TrialGeometry ==
  /\ trial.move = "insert" =>
       \E ref \in 0..(L - 1) : \E o \in Orientations(trial.species) :
         BodyOf(particles, trial.sites) = Place(trial.species, ref, o)
  /\ trial.move = "swap" =>
       /\ trial.species # molecules[trial.mol].species
       /\ \E c \in Positions : \E o \in Orientations(trial.species) :
            /\ IsCentroid(c, BodyOf(particles, molecules[trial.mol].sites))
            /\ BodyOf(particles, trial.sites) = Place(trial.species, c, o)
  /\ trial.move = "displace" =>
       \/ \E d \in Shifts : \A k \in 1..Len(trial.sites) :
            particles[trial.sites[k]].pos = trial.original[k] + d
       \/ \E c \in Positions :
            /\ IsCentroid(c, BodyOf(Committed, trial.sites))
            /\ \A k \in 1..Len(trial.sites) :
                 particles[trial.sites[k]].pos = 2 * c - trial.original[k]

IInv ==
  /\ Types
  /\ AttemptShape
  /\ AppendedLast
  /\ GuestsOwnedOnce
  /\ FrameworkFixed
  /\ CellsFresh
=============================================================================
