--------------------------- MODULE RigidMolecules ---------------------------
(***************************************************************************)
(* The values the grand-canonical engine computes with: interaction sites, *)
(* rigid molecule templates, their placement in the periodic cell and the  *)
(* bins of the guest cell list.                                            *)
(*                                                                         *)
(* Space is one-dimensional: a cell of length L on the integers, in which  *)
(* the only proper rotation is the reflection about the centroid.  As in   *)
(* the code a stored position is never wrapped back into the cell; only    *)
(* distances and bins are periodic.  A kind stands for the data a site     *)
(* carries besides its position: LJ species, charge and mass.              *)
(***************************************************************************)
EXTENDS Integers, Sequences, Functions

CONSTANTS
  Kinds,       \* what a site is: (ljSpecies, charge, mass)
  Species,     \* indices of speciesList_
  Template,    \* Template[sp]: the sites of species sp in its local frame
  Framework,   \* the framework atoms, particles 0 .. frameworkCount_ - 1
  L,           \* length of the periodic cell
  Radius,      \* guestCellListRadius_, the dispersion cutoff
  Shifts,      \* displacements a translation may draw, up to maxTranslation_
  Positions    \* bound: the stored positions that are explored

Site == [pos : Int, kind : Kinds]
TemplateSite == [offset : Int, kind : Kinds]

(* The constructor refuses an empty species list and a species without sites. *)
ASSUME SpeciesAssumption ==
  /\ Species # {}
  /\ \A sp \in Species : Template[sp] \in Seq(TemplateSite) \ {<< >>}
ASSUME CellAssumption ==
  /\ Framework \in Seq(Site)
  /\ L \in Nat \ {0}
  /\ Radius \in 1..L
  /\ Shifts \subseteq Int
  /\ Positions \subseteq Int

-----------------------------------------------------------------------------
(* Templates and their placement. *)

NumSites(sp) == Len(Template[sp])

(* An orientation is drawn only for a species with more than one site. *)
Orientations(sp) == IF NumSites(sp) > 1 THEN {1, -1} ELSE {1}

LocalOffset(sp, k, o) ==
  IF o = 1 THEN Template[sp][k].offset ELSE -Template[sp][k].offset

(* The sites of species sp with its reference point at ref. *)
Place(sp, ref, o) ==
  [k \in 1..NumSites(sp) |->
     [pos |-> ref + LocalOffset(sp, k, o), kind |-> Template[sp][k].kind]]

(* The site data behind a list of particle indices. *)
BodyOf(P, sites) == [k \in 1..Len(sites) |-> P[sites[k]]]

IsCentroid(c, body) ==
  c * Len(body) = SumFunction([k \in 1..Len(body) |-> body[k].pos])

(* The unit of length is fine enough for every centroid to be an integer. *)
ASSUME CentroidAssumption ==
  \A sp \in Species : 
     SumFunction([k \in 1..NumSites(sp) |-> Template[sp][k].offset]) % NumSites(sp) = 0

(* Bound: only bodies inside Positions are explored. *)
InPositions(body) == \A k \in DOMAIN body : body[k].pos \in Positions

(* Lattice::minimumImageDisplacement, as a distance. *)
Distance(x, y) == LET d == (x - y) % L IN IF 2 * d > L THEN L - d ELSE d

(* std::vector::erase at position m. *)
EraseAt(ms, m) ==
  [j \in 1..(Len(ms) - 1) |-> IF j < m THEN ms[j] ELSE ms[j + 1]]

-----------------------------------------------------------------------------
(* The bins of core::CellList. *)

NumBins == IF L \div Radius < 1 THEN 1 ELSE L \div Radius
Bin(x) == ((x % L) * NumBins) \div L
BinOffsets == IF NumBins = 1 THEN {0} ELSE IF NumBins = 2 THEN {0, 1} ELSE {-1, 0, 1}

(* Bin b is one of those a scan around position x visits. *)
Visits(x, b) == \E d \in BinOffsets : b = (Bin(x) + d) % NumBins

(* CellList::build with startIndex = frameworkCount_. *)
BinsOf(P) == [i \in (Len(Framework) + 1)..Len(P) |-> Bin(P[i].pos)]
=============================================================================
