----------------------------- MODULE VerletList -----------------------------
(***************************************************************************)
(* core::VerletList over a particle array that its owner changes in place: *)
(* a superset of the pairs in reach, gathered when the list was built, is  *)
(* filtered at the present positions; needsRebuild tells the owner when    *)
(* the superset may have become too small.                                 *)
(***************************************************************************)
EXTENDS Integers, Sequences

CONSTANTS
  Positions,
  Dist(_, _),       \* minimum-image distance
  HalfWidth,        \* half the smallest perpendicular width of the cell
  Offered(_, _),    \* the cell list: Offered(xs, radius)[<<i, j>>] callbacks
  Skin,             \* skin_
  Cutoffs,          \* the cutoffs build is called with
  MaxParticles      \* bound: the size of the particle array

Arrays == UNION {[1..n -> Positions] : n \in 0..MaxParticles}
Pairs(xs) == {p \in (DOMAIN xs) \X (DOMAIN xs) : p[1] < p[2]}

(* The constructor refuses a skin that is not positive. *)
ASSUME VerletAssumption ==
  /\ Skin \in Nat \ {0}
  /\ Cutoffs \subseteq Nat \ {0}
  /\ MaxParticles \in Nat
  /\ HalfWidth \in Nat
ASSUME MetricAssumption ==
  \A x, y, z \in Positions :
    /\ Dist(x, y) \in Nat
    /\ Dist(x, x) = 0
    /\ Dist(x, y) = Dist(y, x)
    /\ Dist(x, z) <= Dist(x, y) + Dist(y, z)

(* What VerletList relies on: the scan offers every pair in reach, and      *)
(* none twice (cell_list.hpp).                                              *)
ASSUME CellListAssumption ==
  \A xs \in Arrays, c \in Cutoffs : \A p \in Pairs(xs) :
    /\ Offered(xs, c + Skin)[p] \in {0, 1}
    /\ Dist(xs[p[1]], xs[p[2]]) <= c + Skin => Offered(xs, c + Skin)[p] = 1

VARIABLES
  particles,       \* *particles_, the positions in the order of the array
  built,           \* built_
  cutoff,          \* cutoff_
  reference,       \* referenceX_, referenceY_, referenceZ_
  candidatePairs   \* candidatePairs_: pair -> number of entries

vars == <<particles, built, cutoff, reference, candidatePairs>>

Init ==
  /\ particles \in Arrays
  /\ built = FALSE
  /\ cutoff = 0
  /\ reference = << >>
  /\ candidatePairs = << >>

-----------------------------------------------------------------------------
Candidate(c, d) == d <= c + Skin

(* Mutant: the candidates of the build before are not cleared. *)
CandidatesAdded(c) ==
  [p \in Pairs(particles) |->
     Offered(particles, c + Skin)[p]
       + IF p \in DOMAIN candidatePairs THEN candidatePairs[p] ELSE 0]

CandidatesOf(c) ==
  [p \in Pairs(particles) |->
     IF Candidate(c, Dist(particles[p[1]], particles[p[2]]))
     THEN Offered(particles, c + Skin)[p] ELSE 0]

(* A cutoff beyond half the cell's width is refused before anything is set. *)
Build(c) ==
  /\ c <= HalfWidth
  /\ built' = TRUE
  /\ cutoff' = c
  /\ reference' = particles
  /\ candidatePairs' = CandidatesOf(c)
  /\ UNCHANGED particles

(* Mutant: the whole skin is given to each particle. *)
MovedSkin(i) == Dist(reference[i], particles[i]) >= Skin

MovedHalfSkin(i) == 2 * Dist(reference[i], particles[i]) >= Skin

needsRebuild ==
  \/ ~built
  \/ Len(particles) # Len(reference)
  \/ \E i \in DOMAIN particles : MovedHalfSkin(i)

(* pairs(): how often each pair is in the answer. *)
pairs ==
  [p \in DOMAIN candidatePairs |->
     IF Dist(particles[p[1]], particles[p[2]]) <= cutoff THEN candidatePairs[p] ELSE 0]

-----------------------------------------------------------------------------
(* The owner: displacements, insertion at the end, removal of any particle  *)
(* with the last one taking its place.                                      *)
Move(i, x) ==
  /\ particles' = [particles EXCEPT ![i] = x]
  /\ UNCHANGED <<built, cutoff, reference, candidatePairs>>

Insert(x) ==
  /\ Len(particles) < MaxParticles
  /\ particles' = Append(particles, x)
  /\ UNCHANGED <<built, cutoff, reference, candidatePairs>>

Remove(i) ==
  /\ particles' = [k \in 1..(Len(particles) - 1) |->
                     IF k = i THEN particles[Len(particles)] ELSE particles[k]]
  /\ UNCHANGED <<built, cutoff, reference, candidatePairs>>

Next ==
  \/ \E c \in Cutoffs : Build(c)
  \/ \E i \in DOMAIN particles, x \in Positions : Move(i, x)
  \/ \E x \in Positions : Insert(x)
  \/ \E i \in DOMAIN particles : Remove(i)

Spec == Init /\ [][Next]_vars

-----------------------------------------------------------------------------
(* Properties. *)

(* Every variable has its type; the candidates are pairs of the particles   *)
(* that were there at the build.                                            *)
VerletTypeOK ==
  /\ particles \in Arrays
  /\ reference \in Arrays
  /\ built \in BOOLEAN
  /\ built => cutoff \in Cutoffs
  /\ built => candidatePairs \in [Pairs(reference) -> {0, 1}]

(* However the particles have moved, come and gone since the build, as long *)
(* as needsRebuild is false pairs() lists every pair within the cutoff      *)
(* once, and no other (neighbor_list.hpp: "exact, not merely a candidate    *)
(* superset, as long as needsRebuild() is false").                          *)
PairsExact ==
  ~needsRebuild =>
    pairs = [p \in Pairs(particles) |->
               IF Dist(particles[p[1]], particles[p[2]]) <= cutoff THEN 1 ELSE 0]
=============================================================================
