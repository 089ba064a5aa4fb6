------------------------------- MODULE Lattice -------------------------------
(***************************************************************************)
(* The minimum image convention of core::Lattice (lattice.cc): the shortest *)
(* of all periodic images of a displacement.  An orthorhombic cell takes   *)
(* each axis by itself; any other cell is first reduced, by taking whole   *)
(* multiples of one vector from another, and the images around the rounded *)
(* fractional coordinates are searched.  Lengths are whole numbers, so     *)
(* that a multiple of exactly one half, as in a hexagonal cell, occurs.    *)
(***************************************************************************)
EXTENDS Integers, Sequences, FiniteSets

CONSTANTS
  Matrices,        \* the cells explored: three vectors
  Displacements,   \* b - a
  MaxIterations,   \* kMaxIterations
  SearchRadius,    \* kSearchRadius
  TrueRadius       \* images that the definition of the shortest looks at

Vectors == [1..3 -> Int]
ASSUME LatticeAssumption ==
  /\ Matrices \subseteq [1..3 -> Vectors] /\ Displacements \subseteq Vectors
  /\ MaxIterations \in Nat \ {0} /\ SearchRadius \in Nat \ {0} /\ TrueRadius \in Nat

VARIABLES
  matrix,        \* matrix_
  basis,         \* v, the basis being reduced
  pair,          \* the next pair of the pass
  changed, iter,
  displacement,  \* d
  best,          \* the image returned
  pc
latticeVars == <<matrix, basis, pair, changed, iter, displacement, best, pc>>

Dot(u, v) == u[1] * v[1] + u[2] * v[2] + u[3] * v[3]
Norm2(u) == Dot(u, u)
Cross(u, v) ==
  <<u[2] * v[3] - u[3] * v[2], u[3] * v[1] - u[1] * v[3], u[1] * v[2] - u[2] * v[1]>>
Sub(u, v) == [k \in 1..3 |-> u[k] - v[k]]
Scale(u, s) == [k \in 1..3 |-> s * u[k]]
Combine(m, c) == [k \in 1..3 |-> c[1] * m[1][k] + c[2] * m[2][k] + c[3] * m[3][k]]
TripleProduct(m) == Dot(m[1], Cross(m[2], m[3]))
Magnitude(n) == IF n < 0 THEN -n ELSE n

(* std::round of a fraction: halves go away from zero. *)
RoundUp(n, m) == (2 * n + m) \div (2 * m)
Rounded(n, m) ==
  IF m < 0 THEN IF n > 0 THEN -RoundUp(n, -m) ELSE RoundUp(-n, -m)
  ELSE IF n < 0 THEN -RoundUp(-n, m) ELSE RoundUp(n, m)

Volume == TripleProduct(matrix)
IsOrthorhombic == \A i, j \in 1..3 : i # j => matrix[i][j] = 0

VectorPairs == <<<<1, 2>>, <<1, 3>>, <<2, 1>>, <<2, 3>>, <<3, 1>>, <<3, 2>>>>
Multiple(v, i, j) == Rounded(Dot(v[i], v[j]), Norm2(v[j]))

-----------------------------------------------------------------------------
LatticeInit ==
  /\ matrix \in Matrices
  /\ basis = matrix /\ pair = 1 /\ changed = FALSE /\ iter = 0
  /\ displacement = <<0, 0, 0>> /\ best = <<0, 0, 0>>
  /\ pc = "begin"

(* What minimumImageDisplacement does before it looks at images. *)
Begin ==
  /\ pc = "begin"
  /\ pc' = CASE Volume = 0 -> "throws"
             [] Volume # 0 /\ IsOrthorhombic -> "ready"
             [] OTHER -> "reduce"
  /\ UNCHANGED <<matrix, basis, pair, changed, iter, displacement, best>>

(* One vector of greedyReduce less a multiple of another. *)
Subtract ==
  /\ pc = "reduce" /\ pair <= Len(VectorPairs)
  /\ LET i == VectorPairs[pair][1]
         j == VectorPairs[pair][2]
         t == Multiple(basis, i, j)
     IN /\ basis' = IF t = 0 THEN basis ELSE [basis EXCEPT ![i] = Sub(@, Scale(basis[j], t))]
        /\ changed' = (changed \/ t # 0)
  /\ pair' = pair + 1
  /\ UNCHANGED <<matrix, iter, displacement, best, pc>>

(* A pass ends with the vectors sorted by length; which of two equally     *)
(* long ones comes first is left open.                                     *)
EndPass ==
  /\ pc = "reduce" /\ pair > Len(VectorPairs)
  /\ \E p \in [1..3 -> 1..3] :
       /\ {p[k] : k \in 1..3} = 1..3
       /\ basis' = [k \in 1..3 |-> basis[p[k]]]
       /\ \A k \in 1..2 : Norm2(basis'[k]) <= Norm2(basis'[k + 1])
  /\ iter' = iter + 1 /\ pair' = 1 /\ changed' = FALSE
  /\ pc' = IF ~changed \/ iter' = MaxIterations THEN "ready" ELSE "reduce"
  /\ UNCHANGED <<matrix, displacement, best>>

(* The fast path: each axis by itself. *)
Wrapped(d) ==
  [k \in 1..3 |-> d[k] - matrix[k][k] * Rounded(d[k], matrix[k][k])]

(* fractionalOf, rounded. *)
NearestCell(d) ==
  LET volume == TripleProduct(basis)
  IN <<Rounded(Dot(d, Cross(basis[2], basis[3])), volume),
       Rounded(Dot(d, Cross(basis[3], basis[1])), volume),
       Rounded(Dot(d, Cross(basis[1], basis[2])), volume)>>
(* Mutant: the search stays at the rounded coordinates. *)
OnlyThere(cell) == {cell}
Around(cell) ==
  LET r == -SearchRadius..SearchRadius
  IN {[k \in 1..3 |-> cell[k] + shift[k]] : shift \in r \X r \X r}
Candidates(d) == {d} \cup {Sub(d, Combine(basis, c)) : c \in Around(NearestCell(d))}
(* Which of several images equally short is returned is left open. *)
Shortest(images) == {c \in images : \A o \in images : Norm2(c) <= Norm2(o)}

MinimumImageDisplacement ==
  /\ pc = "ready"
  /\ \E d \in Displacements :
       /\ displacement' = d
       /\ best' \in IF IsOrthorhombic THEN {Wrapped(d)} ELSE Shortest(Candidates(d))
  /\ pc' = "found"
  /\ UNCHANGED <<matrix, basis, pair, changed, iter>>

LatticeNext ==
  Begin \/ Subtract \/ EndPass \/ MinimumImageDisplacement
LatticeSpec == LatticeInit /\ [][LatticeNext]_latticeVars

(* The passes are counted up to their limit.                               *)
LatticeTypeOK ==
  /\ matrix \in [1..3 -> Vectors] /\ basis \in [1..3 -> Vectors]
  /\ displacement \in Vectors /\ best \in Vectors
  /\ pair \in 1..(Len(VectorPairs) + 1) /\ changed \in BOOLEAN
  /\ pc \in {"begin", "throws", "reduce", "ready", "found"}
  /\ iter \in 0..MaxIterations /\ (pc = "reduce" => iter < MaxIterations)

-----------------------------------------------------------------------------
(* v is a whole combination of the vectors of m. *)
IsImage(m, v) ==
  /\ TripleProduct(m) # 0
  /\ \A w \in {Cross(m[2], m[3]), Cross(m[3], m[1]), Cross(m[1], m[2])} :
       Dot(v, w) % Magnitude(TripleProduct(m)) = 0

(* What is returned is an image of the displacement and no image is        *)
(* shorter, however skewed the cell: the reduction and the small search    *)
(* replace a search of all images.                                         *)
AllCells == (-TrueRadius..TrueRadius) \X (-TrueRadius..TrueRadius) \X (-TrueRadius..TrueRadius)
ShortestImageFound ==
  pc = "found" =>
    /\ IsImage(matrix, Sub(displacement, best))
    /\ \A c \in AllCells : Norm2(best) <= Norm2(Sub(displacement, Combine(matrix, c)))
===============================================================================
