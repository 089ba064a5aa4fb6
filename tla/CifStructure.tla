---------------------------- MODULE CifStructure ----------------------------
(***************************************************************************)
(* readCif (structure_io.cc) from a parsed document to atoms: the cell,    *)
(* the symmetry operations, and every atom site expanded through them,     *)
(* with images that coincide kept once.                                    *)
(*                                                                         *)
(* Fractional coordinates are whole numbers of 1/Fine of a cell edge.  The *)
(* file gives them to a digit that is Coarse of those, so that a third of  *)
(* the edge, which Fine can hold, is rounded in the file as it is in a     *)
(* real one.  A row also carries the site its author meant.                *)
(***************************************************************************)
EXTENDS Integers, Sequences, SequencesExt, Functions, FiniteSets

CONSTANTS
  Fine, Coarse,
  Tolerance,     \* kOrbitDedupToleranceAngstrom, in Angstrom times 1/Fine
  ElementOf,     \* elementFromLabel: label or type symbol -> element
  Mass,          \* atomicMass: element -> amu
  Unknown,       \* the placeholder values "?" and "."
  Garbage,       \* a token that is no number
  Absent,        \* what a lookup that finds nothing returns
  Documents      \* the documents explored

XYZ == <<"x", "y", "z">>
CellTags == {"a", "b", "c", "alpha", "beta", "gamma"}
Lengths == {"a", "b", "c"}
SymmetryTags == <<"_symmetry_equiv_pos_as_xyz", "_space_group_symop_operation_xyz">>
(* A term of a symmetry operation: a sign, a fraction, and an axis or, for  *)
(* a shift of the origin, "1".                                              *)
Terms == [sign : {1, -1}, num : Nat, den : Nat \ {0}, of : Range(XYZ) \cup {"1"}]

(* A loop has rows; a coordinate is a number or none, an operation is       *)
(* made of components and these of terms, or of what is no term.            *)
LoopOK(l) ==
  /\ l.rows \in Seq(Range(l.rows))
  /\ \A r \in DOMAIN l.rows :
       /\ \A a \in 1..3 : XYZ[a] \in l.columns => l.rows[r][XYZ[a]] \in Int \cup {Unknown, Garbage}
       /\ \A t \in 1..2 : SymmetryTags[t] \in l.columns =>
            l.rows[r][SymmetryTags[t]] \in Seq(Seq(Terms \cup {Garbage}))
ASSUME StructureAssumption ==
  /\ Fine \in Nat \ {0} /\ Coarse \in Nat \ {0} /\ Fine % Coarse = 0
  /\ \A d \in Documents :
       /\ DOMAIN d.cell \subseteq CellTags /\ d.loops \in Seq(Range(d.loops))
       /\ \A k \in DOMAIN d.loops : LoopOK(d.loops[k])
  /\ Absent \notin DOMAIN ElementOf \cup DOMAIN Mass

VARIABLES
  doc,        \* the CifDocument
  ops,        \* symmetryOps
  site,       \* the row of the atom loop being expanded
  op,         \* the operation whose image comes next
  orbit,      \* the images kept
  species,    \* result.speciesSymbols; speciesIndex is its inverse
  atoms,      \* result.particles with occupancy and sourceLabel
  stage
structureVars == <<doc, ops, site, op, orbit, species, atoms, stage>>

RejectStructure == stage' = "rejected" /\ UNCHANGED <<doc, ops, site, op, orbit, species, atoms>>

(* tryParseCifNumber, parseCifNumber *)
IsNumber(token) == token \notin {Unknown, Garbage, Absent}
NumberOr(token, default) == IF IsNumber(token) THEN token ELSE default

(* findLoopWithColumns: the first loop that has them all. *)
HasColumns(columns) == {k \in DOMAIN doc.loops : columns \subseteq doc.loops[k].columns}
FirstLoop(columns) ==
  doc.loops[CHOOSE k \in HasColumns(columns) : \A l \in HasColumns(columns) : k <= l]
Field(loop, row, column) == IF column \in loop.columns THEN row[column] ELSE Absent

-----------------------------------------------------------------------------
(* An operation has one component for each axis, whose terms add up.       *)
Total(component, of, unit) ==
  LET sum[k \in 0..Len(component)] ==
        IF k = 0 THEN 0
        ELSE LET t == component[k]
             IN sum[k - 1] + IF t.of = of THEN t.sign * ((unit * t.num) \div t.den) ELSE 0
  IN sum[Len(component)]
Coefficient(component, axis) == Total(component, axis, 1)
Shift(component) == Total(component, "1", Fine)
WellWritten(operation) ==
  /\ Len(operation) = 3
  /\ \A k \in 1..3 : operation[k] # << >> /\ ~Contains(operation[k], Garbage)

Apply(operation, f) ==
  [k \in 1..3 |-> Coefficient(operation[k], "x") * f[1] + Coefficient(operation[k], "y") * f[2]
                  + Coefficient(operation[k], "z") * f[3] + Shift(operation[k])]
WrapToUnitCell(f) == [k \in 1..3 |-> f[k] % Fine]

(* d -= round(d): the nearest image along each edge. *)
Nearest(d) == IF 2 * d >= Fine THEN d - Fine ELSE IF 2 * d <= -Fine THEN d + Fine ELSE d

(* Twice the cosine, for the angles explored. *)
TwiceCos(angle) == CASE angle = 60 -> 1 [] angle = 90 -> 0 [] angle = 120 -> -1
(* The squared length of a fractional vector: buildLattice's matrix and    *)
(* fractionalToCartesian, written as the metric they amount to.            *)
SquaredLength(cell, d) ==
  LET u == [k \in 1..3 |-> d[k] * <<cell.a, cell.b, cell.c>>[k]]
  IN u[1] * u[1] + u[2] * u[2] + u[3] * u[3] + TwiceCos(cell.gamma) * u[1] * u[2]
     + TwiceCos(cell.beta) * u[1] * u[3] + TwiceCos(cell.alpha) * u[2] * u[3]

Coincide(cell, p, q) ==
  SquaredLength(cell, [k \in 1..3 |-> Nearest(p[k] - q[k])]) < Tolerance * Tolerance
(* Mutant: only the image before is looked at. *)
CoincidesWithLast(image) == orbit # << >> /\ Coincide(doc.cell, image, Last(orbit))
CoincidesWithAny(image) == \E k \in DOMAIN orbit : Coincide(doc.cell, image, orbit[k])

-----------------------------------------------------------------------------
StructureInit ==
  /\ doc \in Documents
  /\ ops = << >> /\ site = 1 /\ op = 1 /\ orbit = << >> /\ species = << >> /\ atoms = << >>
  /\ stage = "lattice"

(* The squared height of the cell is not negative just when the angles can *)
(* meet in a corner.  Where they meet flat it is 0, and its sign in        *)
(* floating point is anybody's.                                            *)
ValidAngles(alpha, beta, gamma) ==
  /\ alpha + beta + gamma <= 360
  /\ alpha <= beta + gamma /\ beta <= alpha + gamma /\ gamma <= alpha + beta
ValidCell(cell) ==
  /\ DOMAIN cell = CellTags /\ \A t \in CellTags : IsNumber(cell[t])
  /\ \A t \in Lengths : cell[t] > 0
  /\ \A t \in CellTags \ Lengths : cell[t] > 0 /\ cell[t] < 180
  /\ ValidAngles(cell.alpha, cell.beta, cell.gamma)
Flat(cell) ==
  \/ cell.alpha + cell.beta + cell.gamma = 360
  \/ cell.alpha = cell.beta + cell.gamma
  \/ cell.beta = cell.alpha + cell.gamma
  \/ cell.gamma = cell.alpha + cell.beta

BuildLattice ==
  /\ stage = "lattice"
  /\ \/ ValidCell(doc.cell) /\ stage' = "symmetry"
        /\ UNCHANGED <<doc, ops, site, op, orbit, species, atoms>>
     \/ (ValidCell(doc.cell) => Flat(doc.cell)) /\ RejectStructure

Term(axis) == [sign |-> 1, num |-> 1, den |-> 1, of |-> axis]
Identity == [k \in 1..3 |-> <<Term(XYZ[k])>>]

ReadSymmetryOperations ==
  /\ stage = "symmetry"
  /\ LET found == {k \in 1..2 : HasColumns({SymmetryTags[k]}) # {}}
         tag == SymmetryTags[CHOOSE k \in found : \A l \in found : k <= l]
         rows == FirstLoop({tag}).rows
         texts == [r \in DOMAIN rows |-> rows[r][tag]]
     IN \/ /\ found # {} /\ (texts = << >> \/ \E r \in DOMAIN texts : ~WellWritten(texts[r]))
           /\ RejectStructure
        \/ /\ ops' = IF found = {} THEN <<Identity>> ELSE texts
           /\ \A k \in DOMAIN ops' : WellWritten(ops'[k])
           /\ ops' # << >>
           /\ stage' = "site" /\ UNCHANGED <<doc, site, op, orbit, species, atoms>>

SiteColumns == {"label", "x", "y", "z"}
AtomLoop == FirstLoop(SiteColumns)
SiteRow == AtomLoop.rows[site]

(* Mutant: the label alone says what the atom is. *)
LabelElement(row) ==
  IF row.label \in DOMAIN ElementOf THEN ElementOf[row.label] ELSE Absent
(* requireElement: the type symbol first, then the label. *)
RequireElement(row) ==
  LET type == Field(AtomLoop, row, "type")
  IN IF type # Absent /\ type \in DOMAIN ElementOf THEN ElementOf[type]
     ELSE IF row.label \in DOMAIN ElementOf THEN ElementOf[row.label]
     ELSE Absent
GoodRow(row) ==
  /\ RequireElement(row) \in DOMAIN Mass
  /\ \A k \in 1..3 : IsNumber(row[XYZ[k]])

(* The species a row's atoms get: the element's, registered when new. *)
SpeciesId(element) == (CHOOSE k \in DOMAIN species : species[k] = element) - 1
StartSite ==
  /\ stage = "site"
  /\ IF HasColumns(SiteColumns) = {} THEN RejectStructure
     ELSE \/ /\ site > Len(AtomLoop.rows) /\ stage' = "done"
             /\ UNCHANGED <<doc, ops, site, op, orbit, species, atoms>>
          \/ site <= Len(AtomLoop.rows) /\ ~GoodRow(SiteRow) /\ RejectStructure
          \/ /\ site <= Len(AtomLoop.rows) /\ GoodRow(SiteRow)
             /\ species' = IF Contains(species, RequireElement(SiteRow)) THEN species
                           ELSE Append(species, RequireElement(SiteRow))
             /\ op' = 1 /\ orbit' = << >> /\ stage' = "image"
             /\ UNCHANGED <<doc, ops, site, atoms>>

Expand ==
  /\ stage = "image" /\ op <= Len(ops)
  /\ LET image == WrapToUnitCell(Apply(ops[op], [k \in 1..3 |-> Coarse * SiteRow[XYZ[k]]]))
     IN orbit' = IF CoincidesWithAny(image) THEN orbit ELSE Append(orbit, image)
  /\ op' = op + 1
  /\ UNCHANGED <<doc, ops, site, species, atoms, stage>>

Atom(position) ==
  [position |-> position, mass |-> Mass[RequireElement(SiteRow)],
   charge |-> NumberOr(Field(AtomLoop, SiteRow, "charge"), 0),
   species |-> SpeciesId(RequireElement(SiteRow)),
   occupancy |-> NumberOr(Field(AtomLoop, SiteRow, "occupancy"), 1), sourceLabel |-> SiteRow.label]

PushAtoms ==
  /\ stage = "image" /\ op > Len(ops)
  /\ atoms' = atoms \o [k \in DOMAIN orbit |-> Atom(orbit[k])]
  /\ site' = site + 1 /\ stage' = "site"
  /\ UNCHANGED <<doc, ops, op, orbit, species>>

StructureNext == BuildLattice \/ ReadSymmetryOperations \/ StartSite \/ Expand \/ PushAtoms
StructureSpec ==
  StructureInit /\ [][StructureNext]_structureVars

-----------------------------------------------------------------------------
(* Every variable has its type: positions are in the cell, and a species    *)
(* has one number.                                                          *)
StructureTypeOK ==
  /\ stage \in {"lattice", "symmetry", "site", "image", "done", "rejected"}
  /\ \A k \in DOMAIN orbit, a \in 1..3 : orbit[k][a] \in 0..(Fine - 1)
  /\ \A k \in DOMAIN atoms : atoms[k].species \in 0..(Len(species) - 1)
  /\ IsInjective(species)

(* The sites a row stands for: the images of the point its author meant,   *)
(* under the operations as the file gives them.                            *)
TrueSites(row) == {WrapToUnitCell(Apply(ops[k], row.meant)) : k \in DOMAIN ops}
AtomsOf(row) == {k \in DOMAIN atoms : atoms[k].sourceLabel = row.label}
(* A coordinate is off by half a digit, an image by a digit and a half.    *)
CloseTo(position, s) ==
  \A a \in 1..3 : LET d == Nearest(position[a] - s[a]) IN 2 * d \in -(3 * Coarse)..(3 * Coarse)

EverySiteOnce(row) ==
  /\ Cardinality(AtomsOf(row)) = Cardinality(TrueSites(row))
  /\ \A s \in TrueSites(row) : \E k \in AtomsOf(row) : CloseTo(atoms[k].position, s)

(* An edge so short that one digit of a coordinate is below the tolerance. *)
DigitsResolve == \A t \in Lengths : Coarse * doc.cell[t] < Tolerance

(* Each site of the crystal gets exactly one atom, special positions       *)
(* included, whatever the order of the operations: as long as one digit of *)
(* the file's coordinates is less than the tolerance.                      *)
SitesFilledOnce ==
  stage = "done" /\ DigitsResolve => \A r \in DOMAIN AtomLoop.rows : EverySiteOnce(AtomLoop.rows[r])

(* What an atom is follows from its own row: the element its species index *)
(* names is the one its type symbol or label says, with that mass, and     *)
(* occupancy and label stay parallel to the particles.                     *)
AtomsKeepTheirElement ==
  \A k \in DOMAIN atoms : \E r \in DOMAIN AtomLoop.rows :
    LET row == AtomLoop.rows[r]
        truth == IF Field(AtomLoop, row, "type") \in DOMAIN ElementOf
                 THEN ElementOf[row.type] ELSE ElementOf[row.label]
    IN /\ row.label = atoms[k].sourceLabel
       /\ species[atoms[k].species + 1] = truth /\ atoms[k].mass = Mass[truth]
       /\ atoms[k].occupancy = NumberOr(Field(AtomLoop, row, "occupancy"), 1)
       /\ atoms[k].charge = NumberOr(Field(AtomLoop, row, "charge"), 0)
=============================================================================
