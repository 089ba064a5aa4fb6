------------------------------ MODULE CellList ------------------------------
(***************************************************************************)
(* core::CellList: the periodic cell divided into bins at least `radius`   *)
(* wide, and the scan of neighbouring bins that offers every pair in reach *)
(* to its caller.  Axes are independent, so the cell is a box here; its    *)
(* widths stand for the perpendicular widths of a skewed one.              *)
(***************************************************************************)
EXTENDS Integers, Sequences, FiniteSets

CONSTANT Widths   \* Lattice::perpendicularWidth, by axis

ASSUME WidthAssumption == Widths \in Seq(Nat \ {0}) /\ Widths # << >>

Axes == DOMAIN Widths

(* Minimum image along one axis, and the largest of those distances.        *)
Apart(x, y, axis) ==
  LET d == (x[axis] - y[axis]) % Widths[axis]
  IN IF 2 * d > Widths[axis] THEN Widths[axis] - d ELSE d
Distance(x, y) ==
  CHOOSE m \in {Apart(x, y, axis) : axis \in Axes} :
    \A axis \in Axes : Apart(x, y, axis) <= m

NumBins(radius) ==
  [axis \in Axes |-> IF Widths[axis] < radius THEN 1 ELSE Widths[axis] \div radius]

Bin(x, bins) == [axis \in Axes |-> ((x[axis] % Widths[axis]) * bins[axis]) \div Widths[axis]]

AxisOffsets(n) == CASE n = 1 -> {0} [] n = 2 -> {0, 1} [] OTHER -> {-1, 0, 1}
Offsets(bins) == {o \in [Axes -> {-1, 0, 1}] : \A axis \in Axes : o[axis] \in AxisOffsets(bins[axis])}

Wrap(b, offset, bins) == [axis \in Axes |-> (b[axis] + offset[axis]) % bins[axis]]

(* forEachCandidatePair: how often it calls back with (i, j).  Each bin is  *)
(* a source once, and each offset takes it to one target.                   *)
Visits(xs, radius) ==
  LET bins == NumBins(radius)
  IN [ij \in {p \in (DOMAIN xs) \X (DOMAIN xs) : p[1] < p[2]} |->
        Cardinality({o \in Offsets(bins) :
          Wrap(Bin(xs[ij[1]], bins), o, bins) = Bin(xs[ij[2]], bins)})]
=============================================================================
