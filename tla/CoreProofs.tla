----------------------------- MODULE CoreProofs -----------------------------
(***************************************************************************)
(* The services of core/: the neighbour list over every cell list, the      *)
(* cell list itself, minimum images, random numbers and the arena, and that *)
(* sharing a program changes none of them.                                  *)
(***************************************************************************)
EXTENDS Core, FiniteSetTheorems, TLAPS

-----------------------------------------------------------------------------
(* Whole numbers. *)
(* A set of numbers that has n whenever it has all numbers below n is all. *)
Below == {ss \in Nat \X Nat : ss[1] < ss[2]}
LEMMA Climb ==
  ASSUME NEW P, \A n \in Nat : (\A k \in 0..(n - 1) : k \in P) => n \in P
  PROVE  \A n \in Nat : n \in P
<1> DEFINE T == Nat \ P
<1>1. SUFFICES ASSUME T # {} PROVE FALSE
  OBVIOUS
<1>2. IsWellFoundedOn(Below, Nat)
  BY NatLessThanWellFounded DEF OpToRel, Below
<1>3. PICK m \in T : \A k \in T : <<k, m>> \notin Below
  BY <1>1, <1>2, WFMin
<1>4. ASSUME NEW k \in 0..(m - 1) PROVE k \in P
  <2>1. m \in Nat /\ k \in Nat /\ k < m
    OBVIOUS
  <2>2. <<k, m>> \in Below
    <3>1. <<k, m>> \in Nat \X Nat
      BY <2>1
    <3> QED
      BY <2>1, <3>1 DEF Below
  <2> QED
    BY <1>3, <2>1, <2>2
<1> QED
  BY <1>3, <1>4

LEMMA DivisionFacts ==
  ASSUME NEW x \in Int, NEW p \in Nat \ {0}
  PROVE  /\ x \div p \in Int /\ x % p \in 0..(p - 1)
         /\ x = p * (x \div p) + (x % p)
OBVIOUS

(* A multiple leaves no remainder. *)
LEMMA MultipleOf ==
  ASSUME NEW q \in Int, NEW m \in Nat \ {0}
  PROVE  (q * m) % m = 0
<1> DEFINE x == q * m
           r == x % m
           d == x \div m
<1>1. x \in Int /\ d \in Int /\ r \in 0..(m - 1) /\ x = d * m + r
  BY SMT
<1>2. (q - d) * m = r
  BY <1>1, SMT
<1>3. q - d \in Int
  BY <1>1
<1> HIDE DEF x, r, d
<1>4. \A k \in Int : k * m \in 0..(m - 1) => k * m = 0
  <2> SUFFICES ASSUME NEW k \in Int, k * m \in 0..(m - 1) PROVE k * m = 0
    OBVIOUS
  <2>1. CASE k >= 1
    <3>1. k * m = (k - 1) * m + m /\ (k - 1) * m >= 0
      BY <2>1, SMT
    <3> QED
      BY <3>1, SMT
  <2>2. CASE k <= -1
    <3>1. k * m = (k + 1) * m - m /\ (k + 1) * m <= 0
      BY <2>2, SMT
    <3> QED
      BY <3>1, SMT
  <2>3. CASE k = 0
    BY <2>3
  <2> QED
    BY <2>1, <2>2, <2>3
<1>5. r = 0
  BY <1>1, <1>2, <1>3, <1>4
<1> QED
  BY <1>5 DEF x, r

Size(d) == IF d < 0 THEN -d ELSE d

-----------------------------------------------------------------------------
(* The half-skin criterion. *)

(* What a build leaves behind: exactly the pairs that were within cutoff    *)
(* and skin of each other, once.                                            *)
Superset ==
  built => candidatePairs =
    [p \in Pairs(reference) |->
       IF Dist(reference[p[1]], reference[p[2]]) <= cutoff + Skin THEN 1 ELSE 0]

VerletInv ==
  /\ particles \in Arrays
  /\ reference \in Arrays
  /\ built \in BOOLEAN
  /\ built => cutoff \in Cutoffs
  /\ Superset

(* An array is a function on 1 .. n with n within the bound. *)
LEMMA ArrayShape ==
  ASSUME NEW xs \in Arrays
  PROVE  /\ Len(xs) \in 0..MaxParticles
         /\ DOMAIN xs = 1..Len(xs)
         /\ xs \in [1..Len(xs) -> Positions]
         /\ xs \in Seq(Positions)
<1>1. PICK n \in 0..MaxParticles : xs \in [1..n -> Positions]
  BY DEF Arrays
<1>2. n \in Nat
  BY <1>1, VerletAssumption
<1>3. xs \in Seq(Positions) /\ Len(xs) = n
  BY <1>1, <1>2
<1> QED
  BY <1>1, <1>2, <1>3

(* A function on 1 .. n is an array if n is within the bound. *)
LEMMA ArrayIntro ==
  ASSUME NEW n \in 0..MaxParticles, NEW xs \in [1..n -> Positions]
  PROVE  xs \in Arrays
BY DEF Arrays

(* The candidates a build collects are the pairs in reach, once each. *)
LEMMA BuildCollects ==
  ASSUME particles \in Arrays, NEW c \in Cutoffs
  PROVE  CandidatesOf(c) =
           [p \in Pairs(particles) |->
              IF Dist(particles[p[1]], particles[p[2]]) <= c + Skin THEN 1 ELSE 0]
<1>1. ASSUME NEW p \in Pairs(particles),
             Dist(particles[p[1]], particles[p[2]]) <= c + Skin
      PROVE  Offered(particles, c + Skin)[p] = 1
  BY <1>1, CellListAssumption
<1> QED
  BY <1>1 DEF CandidatesOf, Candidate

(* The inductive step, an action at a time. *)
LEMMA StepKeeps == VerletInv /\ [Next]_vars => VerletInv'
<1> SUFFICES ASSUME VerletInv, [Next]_vars PROVE VerletInv'
  OBVIOUS
<1> USE DEF VerletInv
<1>1. ASSUME NEW c \in Cutoffs, Build(c) PROVE VerletInv'
  <2>1. candidatePairs' =
          [p \in Pairs(particles) |->
             IF Dist(particles[p[1]], particles[p[2]]) <= c + Skin THEN 1 ELSE 0]
    BY <1>1, BuildCollects DEF Build
  <2> QED
    BY <1>1, <2>1 DEF Build, Superset
<1>2. ASSUME particles' \in Arrays, UNCHANGED <<built, cutoff, reference, candidatePairs>>
      PROVE  VerletInv'
  BY <1>2 DEF Superset
<1>3. ASSUME NEW i \in DOMAIN particles, NEW x \in Positions, Move(i, x) PROVE VerletInv'
  <2>1. particles' \in [1..Len(particles) -> Positions]
    BY <1>3, ArrayShape DEF Move
  <2> QED
    BY <1>2, <1>3, <2>1, ArrayShape, ArrayIntro DEF Move
<1>4. ASSUME NEW x \in Positions, Insert(x) PROVE VerletInv'
  <2>1. particles \in Seq(Positions) /\ Len(particles) \in 0..MaxParticles
    BY ArrayShape
  <2>2. particles' \in Seq(Positions) /\ Len(particles') = Len(particles) + 1
    BY <1>4, <2>1 DEF Insert
  <2>3. Len(particles) + 1 \in 0..MaxParticles
    BY <1>4, <2>1, VerletAssumption DEF Insert
  <2>4. particles' \in [1..(Len(particles) + 1) -> Positions]
    BY <2>2
  <2> QED
    BY <1>2, <1>4, <2>3, <2>4, ArrayIntro DEF Insert
<1>5. ASSUME NEW i \in DOMAIN particles, Remove(i) PROVE VerletInv'
  <2>1. /\ Len(particles) - 1 \in 0..MaxParticles
        /\ particles' \in [1..(Len(particles) - 1) -> Positions]
    BY <1>5, ArrayShape, VerletAssumption DEF Remove
  <2> QED
    BY <1>2, <1>5, <2>1, ArrayIntro DEF Remove
<1>6. CASE UNCHANGED vars
  BY <1>6 DEF vars, Superset
<1> QED
  BY <1>1, <1>3, <1>4, <1>5, <1>6 DEF Next

LEMMA VerletInvariant == Spec => []VerletInv
<1>1. Init => VerletInv
  <2>1. << >> \in Arrays
    <3>1. << >> \in [1..0 -> Positions]
      <4>1. << >> \in Seq(Positions) /\ Len(<< >>) = 0
        OBVIOUS
      <4> QED
        BY <4>1
    <3>2. 0 \in 0..MaxParticles
      BY VerletAssumption
    <3> QED
      BY <3>1, <3>2, ArrayIntro
  <2> QED
    BY <2>1 DEF Init, VerletInv, Superset
<1> QED
  BY <1>1, StepKeeps, PTL DEF Spec

(* The list's variables have their types in every state. *)
THEOREM VerletTypeCorrect == Spec => []VerletTypeOK
<1>1. VerletInv => VerletTypeOK
  BY DEF VerletInv, VerletTypeOK, Superset
<1> QED
  BY <1>1, VerletInvariant, PTL

(* Two particles that were out of reach at the build, each of which has     *)
(* moved by less than half the skin, are not within the cutoff.             *)
LEMMA HalfSkin ==
  ASSUME NEW r \in Positions, NEW s \in Positions, NEW x \in Positions, NEW y \in Positions,
         NEW c \in Nat,
         2 * Dist(r, x) < Skin, 2 * Dist(s, y) < Skin, Dist(x, y) <= c
  PROVE  Dist(r, s) <= c + Skin
<1>1. /\ Dist(r, x) \in Nat /\ Dist(x, y) \in Nat /\ Dist(y, s) \in Nat
      /\ Dist(r, y) \in Nat /\ Dist(r, s) \in Nat
  BY MetricAssumption
<1>2. Dist(s, y) = Dist(y, s)
  BY MetricAssumption
<1>3. Dist(r, y) <= Dist(r, x) + Dist(x, y)
  BY MetricAssumption
<1>4. Dist(r, s) <= Dist(r, y) + Dist(y, s)
  BY MetricAssumption
<1> QED
  BY <1>1, <1>2, <1>3, <1>4, VerletAssumption

(* pairs() is exact in every state in which no rebuild is due, whatever has *)
(* been moved, inserted and removed since the list was built.               *)
THEOREM PairsStayExact == Spec => []PairsExact
<1>1. VerletInv => PairsExact
  <2> SUFFICES ASSUME VerletInv, ~needsRebuild
               PROVE  pairs = [p \in Pairs(particles) |->
                        IF Dist(particles[p[1]], particles[p[2]]) <= cutoff THEN 1 ELSE 0]
    BY DEF PairsExact
  <2>1. built /\ Len(particles) = Len(reference) /\ cutoff \in Cutoffs /\ Superset
    BY DEF VerletInv, needsRebuild
  <2>2. Pairs(particles) = Pairs(reference)
    BY <2>1, ArrayShape DEF VerletInv, Pairs
  <2>3. ASSUME NEW p \in Pairs(particles), Dist(particles[p[1]], particles[p[2]]) <= cutoff
        PROVE  Dist(reference[p[1]], reference[p[2]]) <= cutoff + Skin
    <3>1. p[1] \in DOMAIN particles /\ p[2] \in DOMAIN particles
      BY DEF Pairs
    <3>2. /\ particles[p[1]] \in Positions /\ particles[p[2]] \in Positions
          /\ reference[p[1]] \in Positions /\ reference[p[2]] \in Positions
      BY <2>1, <3>1, ArrayShape DEF VerletInv
    <3>3. /\ ~(2 * Dist(reference[p[1]], particles[p[1]]) >= Skin)
          /\ ~(2 * Dist(reference[p[2]], particles[p[2]]) >= Skin)
      BY <3>1 DEF needsRebuild, MovedHalfSkin
    <3>4. /\ Dist(reference[p[1]], particles[p[1]]) \in Nat
          /\ Dist(reference[p[2]], particles[p[2]]) \in Nat
      BY <3>2, MetricAssumption
    <3>5. cutoff \in Nat /\ Skin \in Nat
      BY <2>1, VerletAssumption
    <3>6. /\ 2 * Dist(reference[p[1]], particles[p[1]]) < Skin
          /\ 2 * Dist(reference[p[2]], particles[p[2]]) < Skin
      BY <3>3, <3>4, <3>5
    <3> QED
      BY <2>3, <3>2, <3>5, <3>6, HalfSkin
  <2> QED
    BY <2>1, <2>2, <2>3 DEF pairs, Superset
<1> QED
  BY <1>1, VerletInvariant, PTL

-----------------------------------------------------------------------------
(* One axis of the cell list. *)

LEMMA ResidueIsUnique ==
  ASSUME NEW p \in Nat \ {0}, NEW k \in Int, NEW r \in 0..(p - 1)
  PROVE  (p * k + r) % p = r /\ (p * k + r) \div p = k
<1> DEFINE x == p * k + r
           j == x \div p
           t == x % p
<1>1. j \in Int /\ t \in 0..(p - 1) /\ x = p * j + t
  BY DivisionFacts, x \in Int
<1>2. p * k + r = p * j + t
  BY <1>1
<1> HIDE DEF x, j, t
<1>3. ~ (k < j)
  <2> SUFFICES ASSUME k < j PROVE FALSE
    OBVIOUS
  <2>1. p * (k + 1) <= p * j
    BY <1>1
  <2>2. p * (k + 1) = p * k + p /\ p * k \in Int /\ p * j \in Int
    BY <1>1
  <2> QED
    BY <1>1, <1>2, <2>1, <2>2
<1>4. ~ (j < k)
  <2> SUFFICES ASSUME j < k PROVE FALSE
    OBVIOUS
  <2>1. p * (j + 1) <= p * k
    BY <1>1
  <2>2. p * (j + 1) = p * j + p /\ p * k \in Int /\ p * j \in Int
    BY <1>1
  <2> QED
    BY <1>1, <1>2, <2>1, <2>2
<1>5. j = k
  BY <1>1, <1>3, <1>4
<1>6. t = r
  BY <1>1, <1>2, <1>5
<1> QED
  BY <1>5, <1>6 DEF j, t, x

(* The distance to the nearest image along an axis of width w. *)
Near(d, w) == LET r == d % w IN IF 2 * r > w THEN w - r ELSE r

LEMMA NearestImage ==
  ASSUME NEW w \in Nat \ {0}, NEW d \in Int
  PROVE  /\ Near(d, w) \in Nat
         /\ \E k \in Int : Size(d - w * k) = Near(d, w)
         /\ \A k \in Int : Near(d, w) <= Size(d - w * k)
<1> DEFINE q == d \div w
           r == d % w
<1>1. q \in Int /\ r \in 0..(w - 1) /\ d = w * q + r
  BY DivisionFacts
<1>2. Near(d, w) = IF 2 * r > w THEN w - r ELSE r
  BY DEF Near
<1> HIDE DEF q, r
<1>5. Near(d, w) \in Nat
  BY <1>1, <1>2
<1>3. \E k \in Int : Size(d - w * k) = Near(d, w)
  <2>1. w * (q + 1) = w * q + w /\ w * q \in Int /\ q + 1 \in Int
    BY <1>1
  <2>2. CASE 2 * r > w
    <3>1. d - w * (q + 1) = r - w
      BY <1>1, <2>1
    <3>2. Size(d - w * (q + 1)) = Near(d, w)
      BY <1>1, <1>2, <2>2, <3>1 DEF Size
    <3> QED
      BY <2>1, <3>2
  <2>3. CASE ~ (2 * r > w)
    <3>1. d - w * q = r
      BY <1>1, <2>1
    <3>2. Size(d - w * q) = Near(d, w)
      BY <1>1, <1>2, <2>3, <3>1 DEF Size
    <3> QED
      BY <1>1, <3>2
  <2> QED
    BY <2>2, <2>3
<1>4. ASSUME NEW k \in Int PROVE Near(d, w) <= Size(d - w * k)
  <2> DEFINE e == w * (q - k)
  <2>1. e \in Int /\ d - w * k = e + r
    <3>1. w * (q - k) = w * q - w * k /\ w * q \in Int /\ w * k \in Int
      BY <1>1
    <3> QED
      BY <1>1, <3>1
  <2>2. CASE q - k >= 1
    <3>1. e >= w
      BY <1>1, <2>2
    <3> HIDE DEF e
    <3> QED
      BY <1>1, <1>2, <2>1, <3>1 DEF Size
  <2>3. CASE q - k <= -1
    <3>1. e <= -w
      BY <1>1, <2>3
    <3> HIDE DEF e
    <3> QED
      BY <1>1, <1>2, <2>1, <3>1 DEF Size
  <2>4. CASE q - k = 0
    <3>1. e = 0
      BY <1>1, <2>4
    <3> HIDE DEF e
    <3> QED
      BY <1>1, <1>2, <2>1, <3>1 DEF Size
  <2> QED
    BY <1>1, <2>2, <2>3, <2>4
<1> QED
  BY <1>3, <1>4, <1>5

LEMMA NearIsMetric ==
  ASSUME NEW w \in Nat \ {0}, NEW x \in Int, NEW y \in Int, NEW z \in Int
  PROVE  /\ Near(x - x, w) = 0
         /\ Near(x - y, w) <= Near(y - x, w)
         /\ Near(x - z, w) <= Near(x - y, w) + Near(y - z, w)
<1>1. /\ Near(x - x, w) \in Nat /\ Near(x - y, w) \in Nat /\ Near(y - x, w) \in Nat
      /\ Near(x - z, w) \in Nat /\ Near(y - z, w) \in Nat
  BY NearestImage
<1>2. Near(x - x, w) = 0
  <2>1. Near(x - x, w) <= Size((x - x) - w * 0)
    BY NearestImage, x - x \in Int, 0 \in Int
  <2>2. Size((x - x) - w * 0) = 0
    BY DEF Size
  <2> QED
    BY <1>1, <2>1, <2>2
<1>3. Near(x - y, w) <= Near(y - x, w)
  <2>1. PICK k \in Int : Size((y - x) - w * k) = Near(y - x, w)
    BY NearestImage, y - x \in Int
  <2>2. -k \in Int /\ w * (-k) = -(w * k) /\ w * k \in Int
    OBVIOUS
  <2>3. Near(x - y, w) <= Size((x - y) - w * (-k))
    BY <2>2, NearestImage, x - y \in Int
  <2>4. Size((x - y) - w * (-k)) = Size((y - x) - w * k)
    BY <2>2 DEF Size
  <2> QED
    BY <1>1, <2>1, <2>3, <2>4
<1>4. Near(x - z, w) <= Near(x - y, w) + Near(y - z, w)
  <2>1. PICK k \in Int : Size((x - y) - w * k) = Near(x - y, w)
    BY NearestImage, x - y \in Int
  <2>2. PICK l \in Int : Size((y - z) - w * l) = Near(y - z, w)
    BY NearestImage, y - z \in Int
  <2>3. k + l \in Int /\ w * (k + l) = w * k + w * l /\ w * k \in Int /\ w * l \in Int
    OBVIOUS
  <2>4. Near(x - z, w) <= Size((x - z) - w * (k + l))
    BY <2>3, NearestImage, x - z \in Int
  <2> DEFINE s == (x - y) - w * k
             t == (y - z) - w * l
  <2>5. s \in Int /\ t \in Int /\ (x - z) - w * (k + l) = s + t
    BY <2>3
  <2> HIDE DEF s, t
  <2>6. Size(s + t) <= Size(s) + Size(t)
    BY <2>5 DEF Size
  <2>7. Size(s) = Near(x - y, w) /\ Size(t) = Near(y - z, w)
    BY <2>1, <2>2 DEF s, t
  <2>8. Near(x - z, w) <= Size(s + t)
    BY <2>4, <2>5
  <2>9. Size(s + t) \in Int
    BY <2>5 DEF Size
  <2> QED
    BY <1>1, <2>6, <2>7, <2>8, <2>9
<1> QED
  BY <1>2, <1>3, <1>4

(* The distance between two residues. *)
LEMMA Separation ==
  ASSUME NEW w \in Nat \ {0}, NEW x \in Int, NEW y \in Int
  PROVE  LET a == x % w
             b == y % w
         IN (x - y) % w = IF b <= a THEN a - b ELSE (a - b) + w
<1> DEFINE a == x % w
           b == y % w
           q == x \div w
           s == y \div w
           r == IF b <= a THEN a - b ELSE (a - b) + w
           k == IF b <= a THEN q - s ELSE (q - s) - 1
<1>1. /\ q \in Int /\ a \in 0..(w - 1) /\ x = w * q + a
      /\ s \in Int /\ b \in 0..(w - 1) /\ y = w * s + b
  BY DivisionFacts
<1> HIDE DEF a, b, q, s
<1>2. r \in 0..(w - 1) /\ k \in Int
  BY <1>1
<1>3. x - y = w * k + r
  <2>1. /\ w * q \in Int /\ w * s \in Int /\ w * (q - s) = w * q - w * s
        /\ w * ((q - s) - 1) = (w * q - w * s) - w
    BY <1>1
  <2>2. x - y = (w * q - w * s) + (a - b)
    BY <1>1, <2>1
  <2>3. CASE b <= a
    <3>1. r = a - b /\ k = q - s
      BY <2>3
    <3> HIDE DEF r, k
    <3> QED
      BY <1>1, <2>1, <2>2, <3>1
  <2>4. CASE ~ (b <= a)
    <3>1. r = (a - b) + w /\ k = (q - s) - 1
      BY <2>4
    <3> HIDE DEF r, k
    <3>2. w * k + r = ((w * q - w * s) - w) + ((a - b) + w)
      BY <2>1, <3>1
    <3> QED
      BY <1>1, <2>1, <2>2, <3>2
  <2> QED
    BY <2>3, <2>4
<1> HIDE DEF r, k
<1>4. (w * k + r) % w = r
  BY <1>2, ResidueIsUnique
<1>5. (x - y) % w = r
  BY <1>3, <1>4
<1> QED
  BY <1>5 DEF r, a, b

LEMMA QuotientGap ==
  ASSUME NEW p \in Nat \ {0}, NEW i \in Int, NEW j \in Int, NEW u \in Int, p * i <= u, u < p * j
  PROVE  i < j
<1> SUFFICES ASSUME j <= i PROVE FALSE
  OBVIOUS
<1>1. p * j <= p * i
  OBVIOUS
<1>2. p * j \in Int /\ p * i \in Int
  OBVIOUS
<1> QED
  BY <1>1, <1>2

(* A bin index A is that of a position a on an axis of n bins. *)
Binned(a, A, n, w) ==
  /\ a \in 0..(w - 1) /\ A \in 0..(n - 1) /\ w * A <= a * n /\ a * n < w * (A + 1)

LEMMA BinBounds ==
  ASSUME NEW w \in Nat \ {0}, NEW n \in Nat \ {0}, NEW x \in Int
  PROVE  Binned(x % w, ((x % w) * n) \div w, n, w)
<1> DEFINE a == x % w
           u == a * n
           A == u \div w
           v == u % w
<1>1. a \in 0..(w - 1)
  BY DivisionFacts
<1> HIDE DEF a
<1>2. u \in Int /\ 0 <= u /\ u < w * n
  BY <1>1
<1> HIDE DEF u
<1>3. A \in Int /\ v \in 0..(w - 1) /\ u = w * A + v
  BY <1>2, DivisionFacts
<1> HIDE DEF A, v
<1>4. w * (A + 1) = w * A + w /\ w * A \in Int
  BY <1>3
<1>5. w * A <= u /\ u < w * (A + 1)
  BY <1>3, <1>4
<1>6. A < n
  BY <1>2, <1>3, <1>5, QuotientGap
<1>7. 0 < A + 1
  <2>1. w * 0 <= u /\ A + 1 \in Int
    BY <1>2, <1>3
  <2> QED
    BY <1>2, <1>5, <2>1, QuotientGap
<1>8. A \in 0..(n - 1)
  BY <1>3, <1>6, <1>7
<1> QED
  BY <1>1, <1>5, <1>8 DEF Binned, A, u, a

(* Bins of two positions within the radius are equal or neighbours, around  *)
(* the cell.                                                                *)
Close(a, A, b, B, n, w, R) ==
  /\ w \in Nat \ {0} /\ n \in Nat \ {0} /\ R \in Nat \ {0} /\ R * n <= w
  /\ Binned(a, A, n, w) /\ Binned(b, B, n, w)
  /\ b <= a /\ (a - b <= R \/ w - (a - b) <= R)
LEMMA NeighbouringBins ==
  ASSUME NEW a, NEW A, NEW b, NEW B, NEW n, NEW w, NEW R, Close(a, A, b, B, n, w, R)
  PROVE  A = B \/ A = B + 1 \/ (B = 0 /\ A = n - 1)
<1> USE DEF Close
<1>1. /\ a \in 0..(w - 1) /\ A \in 0..(n - 1) /\ w * A <= a * n /\ a * n < w * (A + 1)
      /\ b \in 0..(w - 1) /\ B \in 0..(n - 1) /\ w * B <= b * n /\ b * n < w * (B + 1)
  BY DEF Binned
<1>2. a * n \in Int /\ b * n \in Int /\ w * A \in Int /\ w * B \in Int /\ w * n \in Int
      /\ R * n \in Int
  BY <1>1
<1>3. /\ w * (A + 1) = w * A + w /\ w * (A + 2) = w * A + w + w
      /\ w * (B + 1) = w * B + w /\ w * (B + 2) = w * B + w + w
      /\ w * (B + n) = w * B + w * n
  BY <1>1
<1>4. b * n <= a * n
  BY <1>1
<1>5. B <= A
  <2>1. w * B <= a * n /\ a * n < w * (A + 1) /\ A + 1 \in Int /\ B \in Int
    BY <1>1, <1>2, <1>4
  <2>2. B < A + 1
    BY <1>2, <2>1, QuotientGap
  <2> QED
    BY <1>1, <2>2
<1>6. CASE a - b <= R
  <2>1. (a - b) * n <= R * n
    BY <1>1, <1>6
  <2>2. (a - b) * n = a * n - b * n
    BY <1>1
  <2>3. a * n < w * (B + 2) /\ B + 2 \in Int /\ A \in Int
    BY <1>1, <1>2, <1>3, <2>1, <2>2
  <2>4. A < B + 2
    BY <1>1, <1>2, <2>3, QuotientGap
  <2> QED
    BY <1>1, <1>5, <2>4
<1>7. CASE w - (a - b) <= R
  <2>1. (w - (a - b)) * n <= R * n
    BY <1>1, <1>7
  <2>2. (w - (a - b)) * n = w * n - (a * n - b * n)
    BY <1>1
  <2>3. w * (B + n) <= a * n + w /\ a * n + w < w * (A + 2)
    BY <1>1, <1>2, <1>3, <2>1, <2>2
  <2>4. B + n \in Int /\ A + 2 \in Int /\ a * n + w \in Int
    BY <1>1, <1>2
  <2>5. B + n < A + 2
    BY <1>2, <2>3, <2>4, QuotientGap
  <2> QED
    BY <1>1, <2>5
<1> QED
  BY <1>6, <1>7

(* Which offset takes bin A to bin B: at most one, and one if they are      *)
(* neighbours.                                                              *)
LEMMA OffsetIsUnique ==
  ASSUME NEW n \in Nat \ {0}, NEW A \in 0..(n - 1),
         NEW d \in AxisOffsets(n), NEW e \in AxisOffsets(n), (A + d) % n = (A + e) % n
  PROVE  d = e
<1> DEFINE p == (A + d) \div n
           q == (A + e) \div n
<1>1. AxisOffsets(n) = IF n = 1 THEN {0} ELSE IF n = 2 THEN {0, 1} ELSE {-1, 0, 1}
  BY DEF AxisOffsets
<1>2. d \in Int /\ e \in Int /\ A + d \in Int /\ A + e \in Int /\ -n < d - e /\ d - e < n
  BY <1>1
<1>3. /\ p \in Int /\ A + d = n * p + ((A + d) % n) /\ (A + d) % n \in Int
      /\ q \in Int /\ A + e = n * q + ((A + e) % n)
  <2>1. \A x \in Int : /\ x \div n \in Int /\ x % n \in 0..(n - 1)
                       /\ x = n * (x \div n) + (x % n)
    BY DivisionFacts
  <2>2. p \in Int /\ A + d = n * p + ((A + d) % n) /\ (A + d) % n \in 0..(n - 1)
    BY <1>2, <2>1
  <2>3. q \in Int /\ A + e = n * q + ((A + e) % n)
    BY <1>2, <2>1
  <2> HIDE DEF p, q
  <2> QED
    BY <2>2, <2>3
<1> HIDE DEF p, q
<1>4. d - e = n * (p - q) /\ p - q \in Int
  <2>1. n * (p - q) = n * p - n * q /\ n * p \in Int /\ n * q \in Int
    BY <1>3
  <2> QED
    BY <1>2, <1>3, <2>1
<1>5. p - q = 0
  <2>1. ASSUME p - q >= 1 PROVE FALSE
    <3>1. n * (p - q) >= n
      BY <1>4, <2>1
    <3> QED
      BY <1>2, <1>4, <3>1
  <2>2. ASSUME p - q <= -1 PROVE FALSE
    <3>1. n * (p - q) <= -n
      BY <1>4, <2>2
    <3> QED
      BY <1>2, <1>4, <3>1
  <2> QED
    BY <1>4, <2>1, <2>2
<1>6. n * (p - q) = 0
  BY <1>5
<1> QED
  BY <1>2, <1>4, <1>6

LEMMA OffsetExists ==
  ASSUME NEW n \in Nat \ {0}, NEW A \in 0..(n - 1), NEW B \in 0..(n - 1),
         \/ A = B \/ A = B + 1 \/ B = A + 1
         \/ B = 0 /\ A = n - 1
         \/ A = 0 /\ B = n - 1
  PROVE  \E d \in AxisOffsets(n) : (A + d) % n = B
<1>1. AxisOffsets(n) = IF n = 1 THEN {0} ELSE IF n = 2 THEN {0, 1} ELSE {-1, 0, 1}
  BY DEF AxisOffsets
<1>2. CASE n = 1
  <2>1. A = 0 /\ B = 0 /\ (A + 0) % n = 0
    BY <1>2
  <2> QED
    BY <1>1, <1>2, <2>1
<1>3. CASE n = 2
  <2>1. 0 \in AxisOffsets(n) /\ 1 \in AxisOffsets(n)
    BY <1>1, <1>3
  <2>2. (A + 0) % 2 = B \/ (A + 1) % 2 = B
    BY <1>3
  <2> QED
    BY <1>3, <2>1, <2>2
<1>4. CASE n > 2
  <2>1. 0 \in AxisOffsets(n) /\ 1 \in AxisOffsets(n) /\ -1 \in AxisOffsets(n)
    BY <1>1, <1>4
  <2>2. /\ (n * 0 + B) % n = B /\ n * 0 + B = B
        /\ (n * 1 + B) % n = B /\ n * 1 + B = n + B
        /\ (n * (-1) + B) % n = B /\ n * (-1) + B = B - n
    BY ResidueIsUnique, 0 \in Int, 1 \in Int, -1 \in Int
  <2>3. CASE A = B
    BY <2>1, <2>2, <2>3, A + 0 = B
  <2>4. CASE B = A + 1
    BY <2>1, <2>2, <2>4
  <2>5. CASE A = B + 1
    <3>1. A + (-1) = B
      BY <2>5
    <3> QED
      BY <2>1, <2>2, <3>1
  <2>6. CASE B = 0 /\ A = n - 1
    <3>1. A + 1 = n + B
      BY <2>6
    <3> QED
      BY <2>1, <2>2, <3>1
  <2>7. CASE A = 0 /\ B = n - 1
    <3>1. A + (-1) = B - n
      BY <2>7
    <3> QED
      BY <2>1, <2>2, <3>1
  <2> QED
    BY <2>3, <2>4, <2>5, <2>6, <2>7
<1> QED
  BY <1>2, <1>3, <1>4

(* The bins of two positions in reach along an axis.                        *)
BinAlong(x, n, w) == ((x % w) * n) \div w
InReach(x, y, n, w, R) ==
  /\ w \in Nat \ {0} /\ n \in Nat \ {0} /\ R \in Nat \ {0} /\ (R * n <= w \/ n = 1)
  /\ x \in Int /\ y \in Int /\ Near(x - y, w) <= R
LEMMA InReachIsOffered ==
  ASSUME NEW x, NEW y, NEW n, NEW w, NEW R, InReach(x, y, n, w, R)
  PROVE  \E d \in AxisOffsets(n) : (BinAlong(x, n, w) + d) % n = BinAlong(y, n, w)
<1> DEFINE A == BinAlong(x, n, w)
           B == BinAlong(y, n, w)
<1> SUFFICES \E d \in AxisOffsets(n) : (A + d) % n = B
  OBVIOUS
<1> USE DEF InReach
<1> DEFINE a == x % w
           b == y % w
           d == (x - y) % w
<1>1. Binned(a, A, n, w) /\ Binned(b, B, n, w)
  BY BinBounds DEF BinAlong
<1> HIDE DEF A, B
<1>2. a \in 0..(w - 1) /\ b \in 0..(w - 1) /\ A \in 0..(n - 1) /\ B \in 0..(n - 1)
  BY <1>1 DEF Binned
<1>3. d = IF b <= a THEN a - b ELSE (a - b) + w
  BY Separation
<1>4. Near(x - y, w) = IF 2 * d > w THEN w - d ELSE d
  BY DEF Near
<1> HIDE DEF a, b, d
<1>5. /\ b <= a => a - b <= R \/ w - (a - b) <= R
      /\ a <= b => b - a <= R \/ w - (b - a) <= R
  BY <1>2, <1>3, <1>4
<1>6. CASE n = 1
  <2>1. A = B
    BY <1>2, <1>6
  <2> QED
    BY <1>2, <2>1, OffsetExists
<1>7. CASE R * n <= w
  <2>1. \/ A = B \/ A = B + 1 \/ B = A + 1
        \/ B = 0 /\ A = n - 1
        \/ A = 0 /\ B = n - 1
    <3>1. CASE b <= a
      <4>1. Close(a, A, b, B, n, w, R)
        BY <1>1, <1>5, <1>7, <3>1 DEF Close
      <4> QED
        BY <4>1, NeighbouringBins
    <3>2. CASE a <= b
      <4>1. Close(b, B, a, A, n, w, R)
        BY <1>1, <1>5, <1>7, <3>2 DEF Close
      <4>2. B = A \/ B = A + 1 \/ (A = 0 /\ B = n - 1)
        BY <4>1, NeighbouringBins
      <4> QED
        BY <4>2
    <3> QED
      BY <1>2, <3>1, <3>2
  <2> QED
    BY <1>2, <2>1, OffsetExists
<1> QED
  BY <1>6, <1>7

-----------------------------------------------------------------------------
(* All axes: the cell. *)
Place == [Axes -> Int]

LEMMA AxesAre ==
  /\ Len(Widths) \in Nat \ {0} /\ Axes = 1..Len(Widths)
  /\ \A axis \in Axes : Widths[axis] \in Nat \ {0}
BY WidthAssumption DEF Axes

LEMMA LargestExists ==
  ASSUME NEW n \in Nat, NEW h \in [1..(n + 1) -> Int]
  PROVE  \E m \in 1..(n + 1) : \A k \in 1..(n + 1) : h[k] <= h[m]
<1> DEFINE P == {l \in Nat : \A f \in [1..(l + 1) -> Int] :
                   \E m \in 1..(l + 1) : \A k \in 1..(l + 1) : f[k] <= f[m]}
<1>1. ASSUME NEW l \in Nat, \A k \in 0..(l - 1) : k \in P PROVE l \in P
  <2> SUFFICES ASSUME NEW f \in [1..(l + 1) -> Int]
               PROVE  \E m \in 1..(l + 1) : \A k \in 1..(l + 1) : f[k] <= f[m]
    OBVIOUS
  <2>1. CASE l = 0
    BY <2>1
  <2>2. CASE l # 0
    <3> DEFINE g == [k \in 1..((l - 1) + 1) |-> f[k]]
    <3>0. l - 1 \in 0..(l - 1) /\ (l - 1) + 1 = l /\ l + 1 \in 1..(l + 1)
      BY <2>2
    <3>1. l - 1 \in P /\ (l - 1) + 1 = l /\ l + 1 \in 1..(l + 1)
      <4> HIDE DEF P
      <4> QED
        BY <1>1, <3>0
    <3>2. g \in [1..((l - 1) + 1) -> Int]
      OBVIOUS
    <3>3. PICK m \in 1..((l - 1) + 1) : \A k \in 1..((l - 1) + 1) : g[k] <= g[m]
      BY <3>1, <3>2
    <3>4. m \in 1..(l + 1) /\ \A k \in 1..l : f[k] <= f[m]
      BY <3>1, <3>3
    <3>7. \A k \in 1..(l + 1) : f[k] \in Int /\ (k \in 1..l \/ k = l + 1)
      OBVIOUS
    <3> HIDE DEF P, g
    <3>5. CASE f[l + 1] <= f[m]
      BY <3>4, <3>5, <3>7
    <3>6. CASE f[m] < f[l + 1]
      <4>1. \A k \in 1..(l + 1) : f[k] <= f[l + 1]
        <5> TAKE k \in 1..(l + 1)
        <5>1. f[k] \in Int /\ f[m] \in Int /\ f[l + 1] \in Int
          BY <3>1, <3>4, <3>7
        <5>2. CASE k \in 1..l
          BY <3>4, <3>6, <5>1, <5>2
        <5>3. CASE k = l + 1
          BY <5>1, <5>3
        <5> QED
          BY <3>7, <5>2, <5>3
      <4> QED
        BY <3>1, <4>1
    <3> QED
      BY <3>1, <3>4, <3>5, <3>6, <3>7
  <2> QED
    BY <2>1, <2>2
<1> HIDE DEF P
<1>2. n \in P
  BY <1>1, Climb
<1> QED
  BY <1>2 DEF P

LEMMA DistanceIsLargest ==
  ASSUME NEW x \in Place, NEW y \in Place
  PROVE  /\ \E axis \in Axes : Distance(x, y) = Apart(x, y, axis)
         /\ \A axis \in Axes : Apart(x, y, axis) <= Distance(x, y)
         /\ \A axis \in Axes : Apart(x, y, axis) = Near(x[axis] - y[axis], Widths[axis])
         /\ Distance(x, y) \in Nat
<1>1. ASSUME NEW axis \in Axes
      PROVE  /\ Apart(x, y, axis) = Near(x[axis] - y[axis], Widths[axis])
             /\ Apart(x, y, axis) \in Nat
  <2>1. x[axis] - y[axis] \in Int /\ Widths[axis] \in Nat \ {0}
    BY AxesAre DEF Place
  <2>2. Apart(x, y, axis) = Near(x[axis] - y[axis], Widths[axis])
    BY DEF Apart, Near
  <2> QED
    BY <2>1, <2>2, NearestImage
<1> DEFINE n == Len(Widths) - 1
           h == [axis \in 1..(n + 1) |-> Apart(x, y, axis)]
<1>2. n \in Nat /\ 1..(n + 1) = Axes
  BY AxesAre
<1>3. h \in [1..(n + 1) -> Int]
  BY <1>1, <1>2
<1>4. PICK m \in 1..(n + 1) : \A k \in 1..(n + 1) : h[k] <= h[m]
  BY <1>2, <1>3, LargestExists
<1>5. m \in Axes /\ \A axis \in Axes : Apart(x, y, axis) <= Apart(x, y, m)
  BY <1>2, <1>4
<1> HIDE DEF n, h
<1>6. /\ Distance(x, y) \in {Apart(x, y, axis) : axis \in Axes}
      /\ \A axis \in Axes : Apart(x, y, axis) <= Distance(x, y)
  BY <1>5 DEF Distance
<1> QED
  BY <1>1, <1>6

(* The distance of the cell list is a metric, up to periodic images.        *)
THEOREM CellDistanceIsMetric ==
  \A x, y, z \in Place :
    /\ Distance(x, y) \in Nat
    /\ Distance(x, x) = 0
    /\ Distance(x, y) = Distance(y, x)
    /\ Distance(x, z) <= Distance(x, y) + Distance(y, z)
<1> SUFFICES ASSUME NEW x \in Place, NEW y \in Place, NEW z \in Place
             PROVE  /\ Distance(x, y) \in Nat
                    /\ Distance(x, x) = 0
                    /\ Distance(x, y) = Distance(y, x)
                    /\ Distance(x, z) <= Distance(x, y) + Distance(y, z)
  OBVIOUS
<1>1. ASSUME NEW u \in Place, NEW v \in Place, NEW t \in Place, NEW axis \in Axes
      PROVE  /\ Apart(u, u, axis) = 0
             /\ Apart(u, v, axis) <= Apart(v, u, axis)
             /\ Apart(u, t, axis) <= Apart(u, v, axis) + Apart(v, t, axis)
  <2>1. u[axis] \in Int /\ v[axis] \in Int /\ t[axis] \in Int /\ Widths[axis] \in Nat \ {0}
    BY AxesAre DEF Place
  <2>2. /\ Near(u[axis] - u[axis], Widths[axis]) = 0
        /\ Near(u[axis] - v[axis], Widths[axis]) <= Near(v[axis] - u[axis], Widths[axis])
        /\ Near(u[axis] - t[axis], Widths[axis])
             <= Near(u[axis] - v[axis], Widths[axis]) + Near(v[axis] - t[axis], Widths[axis])
    BY <2>1, NearIsMetric
  <2> QED
    BY <2>2, DistanceIsLargest
<1>2. ASSUME NEW u \in Place, NEW v \in Place
      PROVE  Distance(u, v) \in Nat /\ \A axis \in Axes : Apart(u, v, axis) \in Int
  <2>1. ASSUME NEW axis \in Axes PROVE Apart(u, v, axis) \in Int
    <3>0. u[axis] \in Int /\ v[axis] \in Int
      BY DEF Place
    <3>1. u[axis] - v[axis] \in Int /\ Widths[axis] \in Nat \ {0}
      BY <3>0, AxesAre
    <3> QED
      <4>1. Near(u[axis] - v[axis], Widths[axis]) \in Nat
        BY <3>1, NearestImage
      <4>2. Apart(u, v, axis) = Near(u[axis] - v[axis], Widths[axis])
        BY DistanceIsLargest
      <4> QED
        BY <4>1, <4>2
  <2> QED
    BY <2>1, DistanceIsLargest
<1>3. Distance(x, x) = 0
  BY <1>1, DistanceIsLargest
<1>4. ASSUME NEW u \in Place, NEW v \in Place PROVE Distance(u, v) <= Distance(v, u)
  <2>1. PICK axis \in Axes : Distance(u, v) = Apart(u, v, axis)
    BY DistanceIsLargest
  <2>2. Apart(u, v, axis) <= Apart(v, u, axis) /\ Apart(v, u, axis) <= Distance(v, u)
    BY <1>1, DistanceIsLargest
  <2> QED
    BY <1>2, <2>1, <2>2
<1>5. Distance(x, y) = Distance(y, x)
  <2>1. /\ Distance(x, y) <= Distance(y, x) /\ Distance(y, x) <= Distance(x, y)
        /\ Distance(x, y) \in Nat /\ Distance(y, x) \in Nat
    BY <1>2, <1>4
  <2> QED
    BY <2>1
<1>6. Distance(x, z) <= Distance(x, y) + Distance(y, z)
  <2>1. PICK axis \in Axes : Distance(x, z) = Apart(x, z, axis)
    BY DistanceIsLargest
  <2>2. /\ Apart(x, z, axis) <= Apart(x, y, axis) + Apart(y, z, axis)
        /\ Apart(x, y, axis) <= Distance(x, y) /\ Apart(y, z, axis) <= Distance(y, z)
    BY <1>1, DistanceIsLargest
  <2>3. /\ Apart(x, y, axis) \in Int /\ Apart(y, z, axis) \in Int
        /\ Distance(x, y) \in Nat /\ Distance(y, z) \in Nat
    BY <1>2
  <2> DEFINE a == Apart(x, y, axis)
             b == Apart(y, z, axis)
             d == Distance(x, y)
             e == Distance(y, z)
  <2>4. a \in Int /\ b \in Int /\ d \in Nat /\ e \in Nat /\ a <= d /\ b <= e
        /\ Distance(x, z) <= a + b
    BY <2>1, <2>2, <2>3
  <2>5. Distance(x, z) \in Nat
    BY <1>2
  <2> HIDE DEF a, b, d, e
  <2>6. Distance(x, z) <= d + e
    BY <2>4, <2>5
  <2> QED
    BY <2>6 DEF d, e
<1> QED
  BY <1>2, <1>3, <1>5, <1>6

LEMMA BinsHold ==
  ASSUME NEW radius \in Nat \ {0}, NEW axis \in Axes
  PROVE  /\ NumBins(radius)[axis] \in Nat \ {0}
         /\ radius * NumBins(radius)[axis] <= Widths[axis] \/ NumBins(radius)[axis] = 1
<1> DEFINE w == Widths[axis]
           q == w \div radius
<1>1. w \in Nat \ {0}
  BY AxesAre
<1>2. q \in Int /\ w % radius \in 0..(radius - 1) /\ w = radius * q + (w % radius)
  <2> HIDE DEF w
  <2> QED
    BY <1>1, DivisionFacts
<1>3. NumBins(radius)[axis] = IF w < radius THEN 1 ELSE q
  BY DEF NumBins
<1> HIDE DEF w, q
<1>4. CASE w < radius
  BY <1>1, <1>3, <1>4 DEF w
<1>5. CASE ~ (w < radius)
  <2>1. radius * q <= w /\ radius * q \in Int
    BY <1>1, <1>2
  <2>2. q >= 1
    <3>1. ASSUME q <= 0 PROVE FALSE
      <4>1. radius * q <= 0
        BY <1>2, <3>1
      <4> QED
        BY <1>1, <1>2, <1>5, <2>1, <4>1
    <3> QED
      BY <1>2, <3>1
  <2> QED
    BY <1>2, <1>3, <1>5, <2>1, <2>2 DEF w
<1> QED
  BY <1>4, <1>5

(* The contract forEachCandidatePair gives its callers, whatever the widths *)
(* of the cell, the radius and the positions: no pair is offered twice, and *)
(* every pair within the radius is offered.                                 *)
THEOREM CellListMeetsContract ==
  ASSUME NEW radius \in Nat \ {0}, NEW xs, \A i \in DOMAIN xs : xs[i] \in Place,
         NEW i \in DOMAIN xs, NEW j \in DOMAIN xs, i < j
  PROVE  /\ Visits(xs, radius)[<<i, j>>] \in {0, 1}
         /\ Distance(xs[i], xs[j]) <= radius => Visits(xs, radius)[<<i, j>>] = 1
<1> DEFINE bins == NumBins(radius)
           A == Bin(xs[i], bins)
           B == Bin(xs[j], bins)
           S == {o \in Offsets(bins) : Wrap(A, o, bins) = B}
<1>1. Visits(xs, radius)[<<i, j>>] = Cardinality(S)
  <2>1. <<i, j>> \in {p \in (DOMAIN xs) \X (DOMAIN xs) : p[1] < p[2]}
    OBVIOUS
  <2> QED
    BY <2>1 DEF Visits
<1>2. ASSUME NEW axis \in Axes
      PROVE  /\ Widths[axis] \in Nat \ {0} /\ bins[axis] \in Nat \ {0}
             /\ radius * bins[axis] <= Widths[axis] \/ bins[axis] = 1
             /\ xs[i][axis] \in Int /\ xs[j][axis] \in Int
             /\ A[axis] = ((xs[i][axis] % Widths[axis]) * bins[axis]) \div Widths[axis]
             /\ B[axis] = ((xs[j][axis] % Widths[axis]) * bins[axis]) \div Widths[axis]
  <2>1. xs[i] \in Place /\ xs[j] \in Place
    OBVIOUS
  <2>2. Widths[axis] \in Nat \ {0} /\ xs[i][axis] \in Int /\ xs[j][axis] \in Int
    BY <2>1, AxesAre DEF Place
  <2> QED
    BY <2>2, BinsHold DEF Bin
<1>3. DOMAIN A = Axes /\ DOMAIN B = Axes /\ B = [axis \in Axes |-> B[axis]]
  BY DEF Bin
<1> HIDE DEF A, B, bins
<1>4. ASSUME NEW axis \in Axes
      PROVE  A[axis] \in 0..(bins[axis] - 1)
  <2> DEFINE w == Widths[axis]
             n == bins[axis]
             x == xs[i][axis]
  <2>1. w \in Nat \ {0} /\ n \in Nat \ {0} /\ x \in Int /\ A[axis] = ((x % w) * n) \div w
    BY <1>2
  <2> HIDE DEF w, n, x
  <2>2. Binned(x % w, A[axis], n, w)
    BY <2>1, BinBounds
  <2> QED
    BY <2>2 DEF Binned, n
<1>5. ASSUME NEW o \in S, NEW p \in S PROVE o = p
  <2>1. /\ o \in [Axes -> {-1, 0, 1}] /\ p \in [Axes -> {-1, 0, 1}]
        /\ \A axis \in Axes : o[axis] \in AxisOffsets(bins[axis]) /\ p[axis] \in AxisOffsets(bins[axis])
        /\ Wrap(A, o, bins) = Wrap(A, p, bins)
    BY DEF Offsets
  <2>2. ASSUME NEW axis \in Axes PROVE o[axis] = p[axis]
    <3>1. (A[axis] + o[axis]) % bins[axis] = (A[axis] + p[axis]) % bins[axis]
      BY <2>1 DEF Wrap
    <3>2. o[axis] \in AxisOffsets(bins[axis]) /\ p[axis] \in AxisOffsets(bins[axis])
      BY <2>1
    <3> QED
      BY <1>2, <1>4, <3>1, <3>2, OffsetIsUnique
  <2> QED
    BY <2>1, <2>2
<1>6. CASE S = {}
  <2>1. Cardinality(S) = 0
    BY <1>6, FS_EmptySet
  <2>2. ~ (Distance(xs[i], xs[j]) <= radius)
    <3> SUFFICES ASSUME Distance(xs[i], xs[j]) <= radius PROVE S # {}
      BY <1>6
    <3>1. ASSUME NEW axis \in Axes
          PROVE  \E d \in AxisOffsets(bins[axis]) : (A[axis] + d) % bins[axis] = B[axis]
      <4>1. xs[i] \in Place /\ xs[j] \in Place
        OBVIOUS
      <4>2. /\ Near(xs[i][axis] - xs[j][axis], Widths[axis]) <= Distance(xs[i], xs[j])
            /\ Distance(xs[i], xs[j]) \in Nat
        BY <4>1, DistanceIsLargest
      <4> DEFINE w == Widths[axis]
                 n == bins[axis]
                 x == xs[i][axis]
                 y == xs[j][axis]
      <4>3. /\ w \in Nat \ {0} /\ n \in Nat \ {0} /\ x \in Int /\ y \in Int
            /\ radius * n <= w \/ n = 1
            /\ A[axis] = BinAlong(x, n, w) /\ B[axis] = BinAlong(y, n, w)
        BY <1>2 DEF BinAlong
      <4>4. Near(x - y, w) <= Distance(xs[i], xs[j])
        BY <4>2
      <4> HIDE DEF w, n, x, y
      <4>5. Near(x - y, w) \in Nat
        BY <4>3, NearestImage, x - y \in Int
      <4>6. Near(x - y, w) <= radius
        BY <4>2, <4>4, <4>5
      <4>7. \E d \in AxisOffsets(n) : (A[axis] + d) % n = B[axis]
        <5>1. InReach(x, y, n, w, radius)
          BY <4>3, <4>6 DEF InReach
        <5> QED
          BY <4>3, <5>1, InReachIsOffered
      <4> QED
        BY <4>7 DEF n
    <3> DEFINE o == [axis \in Axes |->
                       CHOOSE d \in AxisOffsets(bins[axis]) : (A[axis] + d) % bins[axis] = B[axis]]
    <3>2. ASSUME NEW axis \in Axes
          PROVE  /\ o[axis] \in AxisOffsets(bins[axis])
                 /\ (A[axis] + o[axis]) % bins[axis] = B[axis]
      BY <3>1
    <3>3. \A axis \in Axes : AxisOffsets(bins[axis]) \subseteq {-1, 0, 1}
      BY DEF AxisOffsets
    <3>4. DOMAIN o = Axes
      OBVIOUS
    <3>5. o \in [Axes -> {-1, 0, 1}]
      <4>1. \A axis \in Axes : o[axis] \in {-1, 0, 1}
        BY <3>2, <3>3
      <4> QED
        BY <4>1
    <3> HIDE DEF o
    <3>6. o \in Offsets(bins)
      BY <3>2, <3>5 DEF Offsets
    <3>7. Wrap(A, o, bins) = B
      BY <1>3, <3>2 DEF Wrap
    <3> QED
      BY <3>6, <3>7
  <2> QED
    BY <1>1, <2>1, <2>2
<1>7. CASE S # {}
  <2>1. PICK o \in S : TRUE
    BY <1>7
  <2>2. S = {o}
    BY <1>5, <2>1
  <2> QED
    BY <1>1, <2>2, FS_Singleton
<1> QED
  BY <1>6, <1>7

(* So the neighbour list may use them: its two assumptions on a cell list    *)
(* hold of this one wherever the particles are.                             *)
THEOREM CellListServes ==
  ASSUME Positions \subseteq Place
  PROVE  /\ \A x, y, z \in Positions :
              /\ Distance(x, y) \in Nat /\ Distance(x, x) = 0 /\ Distance(x, y) = Distance(y, x)
              /\ Distance(x, z) <= Distance(x, y) + Distance(y, z)
         /\ \A xs \in Arrays, c \in Cutoffs : \A p \in Pairs(xs) :
              /\ Visits(xs, c + Skin)[p] \in {0, 1}
              /\ Distance(xs[p[1]], xs[p[2]]) <= c + Skin => Visits(xs, c + Skin)[p] = 1
<1>1. ASSUME NEW x \in Positions, NEW y \in Positions, NEW z \in Positions
      PROVE  /\ Distance(x, y) \in Nat /\ Distance(x, x) = 0 /\ Distance(x, y) = Distance(y, x)
             /\ Distance(x, z) <= Distance(x, y) + Distance(y, z)
  BY CellDistanceIsMetric
<1>2. ASSUME NEW xs \in Arrays, NEW c \in Cutoffs, NEW p \in Pairs(xs)
      PROVE  /\ Visits(xs, c + Skin)[p] \in {0, 1}
             /\ Distance(xs[p[1]], xs[p[2]]) <= c + Skin => Visits(xs, c + Skin)[p] = 1
  <2>1. c + Skin \in Nat \ {0}
    BY VerletAssumption
  <2>2. \A i \in DOMAIN xs : xs[i] \in Place
    BY ArrayShape
  <2>3. p[1] \in DOMAIN xs /\ p[2] \in DOMAIN xs /\ p[1] < p[2] /\ p = <<p[1], p[2]>>
    BY DEF Pairs
  <2> QED
    BY <2>1, <2>2, <2>3, CellListMeetsContract
<1> QED
  BY <1>1, <1>2

-----------------------------------------------------------------------------
(* Vectors of whole numbers. *)
Tri(u, v, w) == Dot(u, Cross(v, w))

LEMMA VectorParts ==
  ASSUME NEW u \in Vectors
  PROVE  u[1] \in Int /\ u[2] \in Int /\ u[3] \in Int /\ u = [k \in 1..3 |-> u[k]]
BY DEF Vectors

LEMMA SameVector ==
  ASSUME NEW u \in Vectors, NEW v \in Vectors, u[1] = v[1], u[2] = v[2], u[3] = v[3]
  PROVE  u = v
<1>1. \A k \in 1..3 : u[k] = v[k]
  <2>1. \A k \in 1..3 : k = 1 \/ k = 2 \/ k = 3
    OBVIOUS
  <2> QED
    BY <2>1
<1> QED
  BY <1>1 DEF Vectors

LEMMA SubtractShape ==
  ASSUME NEW u \in Vectors, NEW v \in Vectors, NEW t \in Int
  PROVE  LET x == Sub(u, Scale(v, t))
         IN x \in Vectors /\ x[1] = u[1] - t * v[1] /\ x[2] = u[2] - t * v[2] /\ x[3] = u[3] - t * v[3]
<1>1. /\ u[1] \in Int /\ u[2] \in Int /\ u[3] \in Int
      /\ v[1] \in Int /\ v[2] \in Int /\ v[3] \in Int
  BY VectorParts
<1> DEFINE x == Sub(u, Scale(v, t))
<1>2. x = [k \in 1..3 |-> u[k] - t * v[k]]
  BY DEF Sub, Scale
<1>3. x \in Vectors
  BY <1>2 DEF Vectors
<1> QED
  BY <1>2, <1>3

LEMMA SubShape ==
  ASSUME NEW u \in Vectors, NEW v \in Vectors
  PROVE  LET x == Sub(u, v)
         IN x \in Vectors /\ x[1] = u[1] - v[1] /\ x[2] = u[2] - v[2] /\ x[3] = u[3] - v[3]
BY DEF Sub, Vectors

LEMMA CombineShape ==
  ASSUME NEW m \in [1..3 -> Vectors], NEW c \in Vectors
  PROVE  LET x == Combine(m, c)
         IN /\ x \in Vectors
            /\ \A k \in 1..3 : x[k] = c[1] * m[1][k] + c[2] * m[2][k] + c[3] * m[3][k]
<1>1. /\ m[1] \in Vectors /\ m[2] \in Vectors /\ m[3] \in Vectors
      /\ c[1] \in Int /\ c[2] \in Int /\ c[3] \in Int
  BY VectorParts
<1>2. \A k \in 1..3 : m[1][k] \in Int /\ m[2][k] \in Int /\ m[3][k] \in Int
  BY <1>1 DEF Vectors
<1> QED
  BY <1>1, <1>2 DEF Combine, Vectors

(* Taking a multiple of one vector from another leaves the volume.          *)
LEMMA ShearKeepsVolume ==
  ASSUME NEW u \in Vectors, NEW v \in Vectors, NEW w \in Vectors, NEW t \in Int
  PROVE  LET x == Sub(u, Scale(v, t))
         IN /\ Tri(x, v, w) = Tri(u, v, w) /\ Tri(x, w, v) = Tri(u, w, v)
            /\ Tri(v, x, w) = Tri(v, u, w) /\ Tri(w, x, v) = Tri(w, u, v)
            /\ Tri(v, w, x) = Tri(v, w, u) /\ Tri(w, v, x) = Tri(w, v, u)
<1> DEFINE x == Sub(u, Scale(v, t))
<1>1. /\ u[1] \in Int /\ u[2] \in Int /\ u[3] \in Int
      /\ v[1] \in Int /\ v[2] \in Int /\ v[3] \in Int
      /\ w[1] \in Int /\ w[2] \in Int /\ w[3] \in Int
  BY VectorParts
<1>2. x[1] = u[1] - t * v[1] /\ x[2] = u[2] - t * v[2] /\ x[3] = u[3] - t * v[3]
  BY SubtractShape
<1> HIDE DEF x
<1>3. Tri(x, v, w) = Tri(u, v, w) /\ Tri(x, w, v) = Tri(u, w, v)
  BY <1>1, <1>2 DEF Tri, Dot, Cross
<1>4. Tri(v, x, w) = Tri(v, u, w) /\ Tri(w, x, v) = Tri(w, u, v)
  BY <1>1, <1>2 DEF Tri, Dot, Cross
<1>5. Tri(v, w, x) = Tri(v, w, u) /\ Tri(w, v, x) = Tri(w, v, u)
  BY <1>1, <1>2 DEF Tri, Dot, Cross
<1> QED
  BY <1>3, <1>4, <1>5 DEF x

LEMMA Orders ==
  ASSUME NEW u \in Vectors, NEW v \in Vectors, NEW w \in Vectors
  PROVE  /\ Tri(u, v, w) \in Int
         /\ Tri(v, w, u) = Tri(u, v, w) /\ Tri(w, u, v) = Tri(u, v, w)
         /\ Tri(u, w, v) = -Tri(u, v, w) /\ Tri(v, u, w) = -Tri(u, v, w)
         /\ Tri(w, v, u) = -Tri(u, v, w)
<1>1. /\ u[1] \in Int /\ u[2] \in Int /\ u[3] \in Int
      /\ v[1] \in Int /\ v[2] \in Int /\ v[3] \in Int
      /\ w[1] \in Int /\ w[2] \in Int /\ w[3] \in Int
  BY VectorParts
<1>2. Tri(u, v, w) \in Int
  BY <1>1 DEF Tri, Dot, Cross
<1>3. Tri(v, w, u) = Tri(u, v, w) /\ Tri(w, u, v) = Tri(u, v, w)
  BY <1>1 DEF Tri, Dot, Cross
<1>4. Tri(u, w, v) = -Tri(u, v, w) /\ Tri(v, u, w) = -Tri(u, v, w)
  BY <1>1 DEF Tri, Dot, Cross
<1>5. Tri(w, v, u) = -Tri(u, v, w)
  BY <1>1 DEF Tri, Dot, Cross
<1> QED
  BY <1>2, <1>3, <1>4, <1>5

(* A vector of a cell that has a volume has a length. *)
LEMMA HasLength ==
  ASSUME NEW u \in Vectors, NEW v \in Vectors, NEW w \in Vectors, Tri(u, v, w) # 0
  PROVE  Norm2(u) \in Nat \ {0}
<1>1. u[1] \in Int /\ u[2] \in Int /\ u[3] \in Int
  BY VectorParts
<1>2. /\ v[1] \in Int /\ v[2] \in Int /\ v[3] \in Int
      /\ w[1] \in Int /\ w[2] \in Int /\ w[3] \in Int
  BY VectorParts
<1>3. Norm2(u) = u[1] * u[1] + u[2] * u[2] + u[3] * u[3]
  BY DEF Norm2, Dot
<1>4. /\ u[1] * u[1] \in Nat /\ u[2] * u[2] \in Nat /\ u[3] * u[3] \in Nat
      /\ (u[1] * u[1] = 0 => u[1] = 0) /\ (u[2] * u[2] = 0 => u[2] = 0)
      /\ (u[3] * u[3] = 0 => u[3] = 0)
  <2>1. \A a \in Int : a * a \in Nat /\ (a * a = 0 => a = 0)
    OBVIOUS
  <2> QED
    BY <1>1, <2>1
<1>5. ~ (u[1] = 0 /\ u[2] = 0 /\ u[3] = 0)
  <2> SUFFICES ASSUME u[1] = 0, u[2] = 0, u[3] = 0 PROVE Tri(u, v, w) = 0
    OBVIOUS
  <2> QED
    BY <1>2 DEF Tri, Dot, Cross
<1> DEFINE a == u[1] * u[1]
           b == u[2] * u[2]
           c == u[3] * u[3]
<1>6. a \in Nat /\ b \in Nat /\ c \in Nat /\ ~ (a = 0 /\ b = 0 /\ c = 0)
  BY <1>4, <1>5
<1>7. Norm2(u) = a + b + c
  BY <1>3
<1> HIDE DEF a, b, c
<1> QED
  BY <1>6, <1>7

-----------------------------------------------------------------------------
(* Rounding to the nearest whole multiple, halves away from zero.           *)
LEMMA RoundUpNear ==
  ASSUME NEW n \in Int, NEW m \in Nat \ {0}
  PROVE  LET r == RoundUp(n, m)
         IN r \in Int /\ -m <= 2 * (n - m * r) /\ 2 * (n - m * r) <= m
<1> DEFINE p == 2 * m
           x == 2 * n + m
           r == x \div p
<1>1. p \in Nat \ {0} /\ x \in Int
  OBVIOUS
<1>2. r \in Int /\ x % p \in 0..(p - 1) /\ x = p * r + (x % p)
  <2> HIDE DEF x, p
  <2> QED
    BY <1>1, DivisionFacts
<1>3. RoundUp(n, m) = r
  BY DEF RoundUp
<1> HIDE DEF r
<1>4. p * r = 2 * (m * r) /\ m * r \in Int
  BY <1>2
<1>5. 2 * n + m = 2 * (m * r) + (x % p) /\ x % p \in Int /\ 0 <= x % p /\ x % p <= 2 * m - 1
  BY <1>2, <1>4
<1>6. -m <= 2 * (n - m * r) /\ 2 * (n - m * r) <= m
  BY <1>4, <1>5
<1> QED
  BY <1>2, <1>3, <1>6

LEMMA RoundedNear ==
  ASSUME NEW n \in Int, NEW m \in Int, m # 0
  PROVE  /\ Rounded(n, m) \in Int
         /\ 2 * Size(n - m * Rounded(n, m)) <= Size(m)
<1> DEFINE r == Rounded(n, m)
<1>1. CASE m > 0 /\ n < 0
  <2> DEFINE s == RoundUp(-n, m)
  <2>1. s \in Int /\ -m <= 2 * ((-n) - m * s) /\ 2 * ((-n) - m * s) <= m /\ r = -s
    BY <1>1, RoundUpNear DEF Rounded
  <2> HIDE DEF r, s
  <2>2. m * (-s) = -(m * s) /\ m * s \in Int
    BY <2>1
  <2>3. r \in Int /\ 2 * Size(n - m * r) <= Size(m)
    BY <1>1, <2>1, <2>2 DEF Size
  <2> QED
    BY <2>3 DEF r
<1>2. CASE m > 0 /\ n >= 0
  <2>1. r \in Int /\ -m <= 2 * (n - m * r) /\ 2 * (n - m * r) <= m
    BY <1>2, RoundUpNear DEF Rounded
  <2> HIDE DEF r
  <2>2. m * r \in Int
    BY <2>1
  <2>3. 2 * Size(n - m * r) <= Size(m)
    BY <1>2, <2>1, <2>2 DEF Size
  <2> QED
    BY <2>1, <2>3 DEF r
<1>3. CASE m < 0 /\ n > 0
  <2> DEFINE s == RoundUp(n, -m)
  <2>1. s \in Int /\ m <= 2 * (n - (-m) * s) /\ 2 * (n - (-m) * s) <= -m /\ r = -s
    <3>1. -m \in Nat \ {0} /\ -(-m) = m
      BY <1>3
    <3> QED
      BY <1>3, <3>1, RoundUpNear DEF Rounded
  <2> HIDE DEF r, s
  <2>2. (-m) * s = -(m * s) /\ m * (-s) = -(m * s) /\ m * s \in Int
    BY <2>1
  <2>3. r \in Int /\ 2 * Size(n - m * r) <= Size(m)
    BY <1>3, <2>1, <2>2 DEF Size
  <2> QED
    BY <2>3 DEF r
<1>4. CASE m < 0 /\ n <= 0
  <2>1. r \in Int /\ m <= 2 * ((-n) - (-m) * r) /\ 2 * ((-n) - (-m) * r) <= -m
    <3>1. -m \in Nat \ {0} /\ -(-m) = m /\ -n \in Int
      BY <1>4
    <3> QED
      BY <1>4, <3>1, RoundUpNear DEF Rounded
  <2> HIDE DEF r
  <2>2. (-m) * r = -(m * r) /\ m * r \in Int
    BY <2>1
  <2>3. 2 * Size(n - m * r) <= Size(m)
    BY <1>4, <2>1, <2>2 DEF Size
  <2> QED
    BY <2>1, <2>3 DEF r
<1> QED
  BY <1>1, <1>2, <1>3, <1>4

(* No whole multiple comes nearer. *)
LEMMA RoundedNearest ==
  ASSUME NEW n \in Int, NEW m \in Int, m # 0, NEW k \in Int
  PROVE  (n - m * Rounded(n, m)) * (n - m * Rounded(n, m)) <= (n - m * k) * (n - m * k)
<1> DEFINE r == Rounded(n, m)
           x == n - m * r
           y == n - m * k
<1>1. r \in Int /\ 2 * Size(x) <= Size(m)
  BY RoundedNear
<1> HIDE DEF r
<1>2. x \in Int /\ y \in Int /\ y - x = m * (r - k)
  BY <1>1
<1>3. r - k = 0 => x = y
  BY <1>1
<1>4. m * (r - k) \in Int /\ (r - k # 0 => Size(m) <= Size(m * (r - k)))
  <2> DEFINE e == r - k
             p == m * e
  <2>1. e \in Int
    BY <1>1
  <2> HIDE DEF e
  <2>2. CASE e >= 1
    <3>1. (m >= 0 => p >= m) /\ (m < 0 => p <= m) /\ p \in Int
      BY <2>1, <2>2
    <3> HIDE DEF p
    <3>2. Size(m) <= Size(p)
      BY <3>1 DEF Size
    <3> QED
      BY <3>1, <3>2 DEF p, e
  <2>3. CASE e <= -1
    <3>1. (m >= 0 => p <= -m) /\ (m < 0 => p >= -m) /\ p \in Int
      BY <2>1, <2>3
    <3> HIDE DEF p
    <3>2. Size(m) <= Size(p)
      BY <3>1 DEF Size
    <3> QED
      BY <3>1, <3>2 DEF p, e
  <2>4. CASE e = 0
    <3>1. p = 0
      BY <2>4
    <3> QED
      BY <2>4, <3>1 DEF e
  <2> QED
    BY <2>1, <2>2, <2>3, <2>4
<1> HIDE DEF x, y
<1>5. Size(x) <= Size(y)
  <2>1. CASE r - k = 0
    BY <1>2, <1>3, <2>1 DEF Size
  <2>2. CASE r - k # 0
    <3> DEFINE p == m * (r - k)
    <3>1. p \in Int /\ Size(m) <= Size(p) /\ y - x = p
      BY <1>2, <1>4, <2>2
    <3> HIDE DEF p
    <3> QED
      BY <1>1, <1>2, <3>1 DEF Size
  <2> QED
    BY <2>1, <2>2
<1>6. x * x <= y * y
  <2>1. Size(x) \in Nat /\ Size(y) \in Nat
    BY <1>2 DEF Size
  <2> DEFINE a == Size(x)
             b == Size(y)
  <2>2. x * x = a * a /\ y * y = b * b
    BY <1>2 DEF Size
  <2> HIDE DEF a, b
  <2>3. a \in Nat /\ b \in Nat /\ a <= b
    BY <1>5, <2>1 DEF a, b
  <2>4. a * a <= b * a /\ b * a <= b * b /\ a * a \in Int /\ b * a \in Int /\ b * b \in Int
    BY <2>3
  <2> QED
    BY <2>2, <2>4
<1> QED
  BY <1>6 DEF x, y, r

-----------------------------------------------------------------------------
(* The inductive invariant: the vectors being reduced are whole combinations *)
(* of the cell's, and they span a cell of the same volume, which is not 0.   *)
Whole(v) == \E c \in Vectors : v = Combine(matrix, c)
Spans(b) ==
  /\ b \in [1..3 -> Vectors] /\ \A i \in 1..3 : Whole(b[i])
  /\ TripleProduct(b) \in {Volume, -Volume}
LatticeInv ==
  /\ matrix \in [1..3 -> Vectors] /\ Spans(basis)
  /\ displacement \in Vectors
  /\ pair \in Nat \ {0}
  /\ pc # "begin" /\ pc # "throws" => Volume # 0
  /\ pc = "found" => best \in Vectors /\ Whole(Sub(displacement, best))

LEMMA WholeOnes ==
  ASSUME matrix \in [1..3 -> Vectors]
  PROVE  \A i \in 1..3 : Whole(matrix[i])
<1> DEFINE e(i) == [k \in 1..3 |-> IF k = i THEN 1 ELSE 0]
<1>1. ASSUME NEW i \in 1..3 PROVE matrix[i] = Combine(matrix, e(i))
  <2>1. e(i) \in Vectors /\ matrix[i] \in Vectors
    BY DEF Vectors
  <2>2. /\ Combine(matrix, e(i)) \in Vectors
        /\ \A k \in 1..3 : Combine(matrix, e(i))[k]
             = e(i)[1] * matrix[1][k] + e(i)[2] * matrix[2][k] + e(i)[3] * matrix[3][k]
    BY <2>1, CombineShape
  <2>3. e(i)[1] = (IF i = 1 THEN 1 ELSE 0) /\ e(i)[2] = (IF i = 2 THEN 1 ELSE 0)
        /\ e(i)[3] = (IF i = 3 THEN 1 ELSE 0)
    OBVIOUS
  <2> HIDE DEF e
  <2>4. ASSUME NEW k \in 1..3 PROVE Combine(matrix, e(i))[k] = matrix[i][k]
    <3>1. matrix[1][k] \in Int /\ matrix[2][k] \in Int /\ matrix[3][k] \in Int
      BY DEF Vectors
    <3>2. i = 1 \/ i = 2 \/ i = 3
      OBVIOUS
    <3>3. CASE i = 1
      BY <2>2, <2>3, <3>1, <3>3
    <3>4. CASE i = 2
      BY <2>2, <2>3, <3>1, <3>4
    <3>5. CASE i = 3
      BY <2>2, <2>3, <3>1, <3>5
    <3> QED
      BY <3>2, <3>3, <3>4, <3>5
  <2> QED
    BY <2>1, <2>2, <2>4, SameVector
<1>2. \A i \in 1..3 : e(i) \in Vectors
  BY DEF Vectors
<1> HIDE DEF e
<1> QED
  BY <1>1, <1>2 DEF Whole

(* Whole combinations are closed under taking multiples away. *)
LEMMA WholeSubtract ==
  ASSUME matrix \in [1..3 -> Vectors], NEW u \in Vectors, NEW v \in Vectors, Whole(u), Whole(v),
         NEW t \in Int
  PROVE  Whole(Sub(u, Scale(v, t)))
<1>1. PICK c \in Vectors : u = Combine(matrix, c)
  BY DEF Whole
<1>2. PICK d \in Vectors : v = Combine(matrix, d)
  BY DEF Whole
<1> DEFINE e == Sub(c, Scale(d, t))
           x == Sub(u, Scale(v, t))
<1>3. e \in Vectors /\ e[1] = c[1] - t * d[1] /\ e[2] = c[2] - t * d[2] /\ e[3] = c[3] - t * d[3]
  BY SubtractShape
<1>4. x \in Vectors /\ \A k \in 1..3 : x[k] = u[k] - t * v[k]
  <2>1. x \in Vectors
    BY SubtractShape
  <2> QED
    BY <2>1 DEF Sub, Scale
<1> HIDE DEF e, x
<1>5. \A k \in 1..3 : x[k] = Combine(matrix, e)[k]
  <2> TAKE k \in 1..3
  <2>1. /\ u[k] = c[1] * matrix[1][k] + c[2] * matrix[2][k] + c[3] * matrix[3][k]
        /\ v[k] = d[1] * matrix[1][k] + d[2] * matrix[2][k] + d[3] * matrix[3][k]
        /\ Combine(matrix, e)[k] = e[1] * matrix[1][k] + e[2] * matrix[2][k] + e[3] * matrix[3][k]
    BY <1>1, <1>2, <1>3, CombineShape
  <2>2. /\ matrix[1][k] \in Int /\ matrix[2][k] \in Int /\ matrix[3][k] \in Int
        /\ c[1] \in Int /\ c[2] \in Int /\ c[3] \in Int /\ d[1] \in Int /\ d[2] \in Int /\ d[3] \in Int
    BY DEF Vectors
  <2> DEFINE m1 == matrix[1][k]
             m2 == matrix[2][k]
             m3 == matrix[3][k]
  <2>3. /\ e[1] * m1 = c[1] * m1 - t * (d[1] * m1)
        /\ e[2] * m2 = c[2] * m2 - t * (d[2] * m2)
        /\ e[3] * m3 = c[3] * m3 - t * (d[3] * m3)
    BY <1>3, <2>2
  <2>4. t * v[k] = t * (d[1] * m1) + t * (d[2] * m2) + t * (d[3] * m3)
    BY <2>1, <2>2
  <2>5. /\ c[1] * m1 \in Int /\ c[2] * m2 \in Int /\ c[3] * m3 \in Int
        /\ t * (d[1] * m1) \in Int /\ t * (d[2] * m2) \in Int /\ t * (d[3] * m3) \in Int
    BY <2>2
  <2> HIDE DEF m1, m2, m3
  <2> QED
    BY <1>4, <2>1, <2>3, <2>4, <2>5 DEF m1, m2, m3
<1>6. Combine(matrix, e) \in Vectors
  BY <1>3, CombineShape
<1>7. x = Combine(matrix, e)
  BY <1>4, <1>5, <1>6, SameVector
<1> QED
  BY <1>3, <1>7 DEF Whole, x

LEMMA WholeCombine ==
  ASSUME LatticeInv, NEW c \in Vectors
  PROVE  Whole(Combine(basis, c)) /\ Combine(basis, c) \in Vectors
<1>1. /\ basis \in [1..3 -> Vectors] /\ matrix \in [1..3 -> Vectors]
      /\ basis[1] \in Vectors /\ basis[2] \in Vectors /\ basis[3] \in Vectors
      /\ Whole(basis[1]) /\ Whole(basis[2]) /\ Whole(basis[3])
      /\ -c[1] \in Int /\ -c[2] \in Int /\ -c[3] \in Int
      /\ c[1] \in Int /\ c[2] \in Int /\ c[3] \in Int
  BY DEF LatticeInv, Spans, Vectors
<1> DEFINE o == [k \in 1..3 |-> 0]
           x == Sub(o, Scale(basis[1], -c[1]))
           y == Sub(x, Scale(basis[2], -c[2]))
           z == Sub(y, Scale(basis[3], -c[3]))
<1>2. o \in Vectors /\ Whole(o)
  <2>1. o \in Vectors
    BY DEF Vectors
  <2>2. o = Combine(matrix, o)
    <3>1. matrix[1] \in Vectors /\ matrix[2] \in Vectors /\ matrix[3] \in Vectors
      BY <1>1
    <3>2. \A k \in 1..3 : matrix[1][k] \in Int /\ matrix[2][k] \in Int /\ matrix[3][k] \in Int
      BY <3>1 DEF Vectors
    <3>3. \A k \in 1..3 : Combine(matrix, o)[k] = 0
      BY <3>2 DEF Combine
    <3> QED
      BY <3>3 DEF Combine
  <2> QED
    BY <2>1, <2>2 DEF Whole
<1> HIDE DEF o
<1>3. x \in Vectors /\ Whole(x)
  BY <1>1, <1>2, SubtractShape, WholeSubtract
<1> HIDE DEF x
<1>4. y \in Vectors /\ Whole(y)
  BY <1>1, <1>3, SubtractShape, WholeSubtract
<1> HIDE DEF y
<1>5. z \in Vectors /\ Whole(z)
  BY <1>1, <1>4, SubtractShape, WholeSubtract
<1>6. Combine(basis, c) \in Vectors
  BY <1>1, CombineShape
<1>7. \A k \in 1..3 : z[k] = Combine(basis, c)[k]
  <2> TAKE k \in 1..3
  <2>1. basis[1][k] \in Int /\ basis[2][k] \in Int /\ basis[3][k] \in Int
    BY <1>1 DEF Vectors
  <2>2. /\ z[k] = y[k] - (-c[3]) * basis[3][k] /\ y[k] = x[k] - (-c[2]) * basis[2][k]
        /\ x[k] = o[k] - (-c[1]) * basis[1][k] /\ o[k] = 0
    BY DEF Sub, Scale, o, x, y
  <2>3. Combine(basis, c)[k] = c[1] * basis[1][k] + c[2] * basis[2][k] + c[3] * basis[3][k]
    BY DEF Combine
  <2>4. /\ (-c[1]) * basis[1][k] = -(c[1] * basis[1][k]) /\ c[1] * basis[1][k] \in Int
        /\ (-c[2]) * basis[2][k] = -(c[2] * basis[2][k]) /\ c[2] * basis[2][k] \in Int
        /\ (-c[3]) * basis[3][k] = -(c[3] * basis[3][k]) /\ c[3] * basis[3][k] \in Int
    BY <1>1, <2>1
  <2> DEFINE p == c[1] * basis[1][k]
             q == c[2] * basis[2][k]
             r == c[3] * basis[3][k]
  <2>5. z[k] = y[k] - (-r) /\ y[k] = x[k] - (-q) /\ x[k] = 0 - (-p)
        /\ p \in Int /\ q \in Int /\ r \in Int
    BY <2>2, <2>4
  <2>6. Combine(basis, c)[k] = p + q + r
    BY <2>3
  <2> HIDE DEF p, q, r, z
  <2> QED
    BY <2>5, <2>6
<1> HIDE DEF z
<1>8. z = Combine(basis, c)
  BY <1>5, <1>6, <1>7, SameVector
<1> QED
  BY <1>5, <1>6, <1>8

LEMMA BasisHasVolume ==
  ASSUME LatticeInv, Volume # 0
  PROVE  /\ TripleProduct(basis) \in Int \ {0}
         /\ \A i \in 1..3 : Norm2(basis[i]) \in Nat \ {0}
<1>1. basis[1] \in Vectors /\ basis[2] \in Vectors /\ basis[3] \in Vectors
  BY DEF LatticeInv, Spans
<1>2. matrix[1] \in Vectors /\ matrix[2] \in Vectors /\ matrix[3] \in Vectors
  BY DEF LatticeInv
<1>3. TripleProduct(basis) = Tri(basis[1], basis[2], basis[3])
  BY DEF TripleProduct, Tri
<1>4. Volume = Tri(matrix[1], matrix[2], matrix[3])
  BY DEF Volume, TripleProduct, Tri
<1>5. Volume \in Int /\ TripleProduct(basis) \in Int
  BY <1>1, <1>2, <1>3, <1>4, Orders
<1>6. TripleProduct(basis) # 0
  BY <1>5 DEF LatticeInv, Spans
<1>7. Tri(basis[2], basis[3], basis[1]) # 0 /\ Tri(basis[3], basis[1], basis[2]) # 0
  BY <1>1, <1>3, <1>6, Orders
<1>8. Norm2(basis[1]) \in Nat \ {0} /\ Norm2(basis[2]) \in Nat \ {0} /\ Norm2(basis[3]) \in Nat \ {0}
  BY <1>1, <1>3, <1>6, <1>7, HasLength
<1> QED
  BY <1>5, <1>6, <1>8

-----------------------------------------------------------------------------
(* Each step of the reduction. *)
LEMMA LatticeBegins == LatticeInit => LatticeInv
<1> SUFFICES ASSUME LatticeInit PROVE LatticeInv
  OBVIOUS
<1>1. matrix \in [1..3 -> Vectors] /\ basis = matrix
  BY LatticeAssumption DEF LatticeInit
<1>2. <<0, 0, 0>> \in Vectors
  BY DEF Vectors
<1>3. Spans(basis)
  BY <1>1, WholeOnes DEF Spans, Volume
<1> QED
  BY <1>1, <1>2, <1>3 DEF LatticeInv, LatticeInit

LEMMA SubtractKeeps ==
  ASSUME LatticeInv, Subtract
  PROVE  LatticeInv'
<1> DEFINE i == VectorPairs[pair][1]
           j == VectorPairs[pair][2]
           t == Multiple(basis, i, j)
<1>1. /\ matrix' = matrix /\ displacement' = displacement /\ best' = best /\ pc' = pc /\ pc = "reduce"
      /\ pair' = pair + 1 /\ Volume' = Volume /\ Volume # 0
  BY DEF Subtract, LatticeInv, Volume
<1>2. i \in 1..3 /\ j \in 1..3 /\ i # j
  <2>1. pair = 1 \/ pair = 2 \/ pair = 3 \/ pair = 4 \/ pair = 5 \/ pair = 6
    BY DEF Subtract, VectorPairs, LatticeInv
  <2> QED
    BY <2>1 DEF VectorPairs
<1> HIDE DEF i, j
<1>3. basis \in [1..3 -> Vectors] /\ basis[i] \in Vectors /\ basis[j] \in Vectors
  BY <1>2 DEF LatticeInv, Spans
<1>4. t \in Int
  <2>1. Norm2(basis[j]) \in Nat \ {0}
    BY <1>1, <1>2, BasisHasVolume
  <2>2. Dot(basis[i], basis[j]) \in Int
    BY <1>3, VectorParts DEF Dot
  <2> QED
    BY <2>1, <2>2, RoundedNear DEF Multiple
<1>5. basis' = IF t = 0 THEN basis ELSE [basis EXCEPT ![i] = Sub(basis[i], Scale(basis[j], t))]
  BY DEF Subtract, i, j
<1> HIDE DEF t
<1>6. CASE t = 0
  <2>1. Spans(basis)'
    BY <1>1, <1>5, <1>6 DEF LatticeInv, Spans, Whole
  <2> QED
    BY <1>1, <2>1 DEF LatticeInv, Whole
<1>7. CASE t # 0
  <2> DEFINE x == Sub(basis[i], Scale(basis[j], t))
  <2>1. x \in Vectors /\ Whole(x)
    <3>1. Whole(basis[i]) /\ Whole(basis[j]) /\ matrix \in [1..3 -> Vectors]
      BY <1>2 DEF LatticeInv, Spans
    <3> QED
      BY <1>3, <1>4, <3>1, SubtractShape, WholeSubtract
  <2> DEFINE b == [basis EXCEPT ![i] = x]
  <2>2. b \in [1..3 -> Vectors] /\ b[i] = x /\ \A k \in 1..3 : k # i => b[k] = basis[k]
    BY <1>2, <1>3, <2>1
  <2>3. Tri(b[1], b[2], b[3]) = Tri(basis[1], basis[2], basis[3])
    <3> HIDE DEF b
    <3>1. basis[1] \in Vectors /\ basis[2] \in Vectors /\ basis[3] \in Vectors
      BY <1>3
    <3>2. ASSUME NEW k \in 1..3, k # i, k # j
          PROVE  /\ Tri(x, basis[j], basis[k]) = Tri(basis[i], basis[j], basis[k])
                 /\ Tri(x, basis[k], basis[j]) = Tri(basis[i], basis[k], basis[j])
                 /\ Tri(basis[j], x, basis[k]) = Tri(basis[j], basis[i], basis[k])
                 /\ Tri(basis[k], x, basis[j]) = Tri(basis[k], basis[i], basis[j])
                 /\ Tri(basis[j], basis[k], x) = Tri(basis[j], basis[k], basis[i])
                 /\ Tri(basis[k], basis[j], x) = Tri(basis[k], basis[j], basis[i])
      <4>1. basis[k] \in Vectors
        BY <1>3
      <4> QED
        BY <1>3, <1>4, <4>1, ShearKeepsVolume
    <3> HIDE DEF x
    <3>3. CASE i = 1 /\ j = 2
      BY <2>2, <3>2, <3>3
    <3>4. CASE i = 1 /\ j = 3
      BY <2>2, <3>2, <3>4
    <3>5. CASE i = 2 /\ j = 1
      BY <2>2, <3>2, <3>5
    <3>6. CASE i = 2 /\ j = 3
      BY <2>2, <3>2, <3>6
    <3>7. CASE i = 3 /\ j = 1
      BY <2>2, <3>2, <3>7
    <3>8. CASE i = 3 /\ j = 2
      BY <2>2, <3>2, <3>8
    <3> QED
      BY <1>2, <3>3, <3>4, <3>5, <3>6, <3>7, <3>8
  <2>4. basis' = b
    BY <1>5, <1>7
  <2>5. ASSUME NEW k \in 1..3 PROVE Whole(b[k])
    <3> HIDE DEF b, x
    <3>1. CASE k = i
      BY <2>1, <2>2, <3>1
    <3>2. CASE k # i
      BY <2>2, <3>2 DEF LatticeInv, Spans
    <3> QED
      BY <3>1, <3>2
  <2> HIDE DEF b
  <2>6. TripleProduct(b) = TripleProduct(basis)
    BY <2>3 DEF TripleProduct, Tri
  <2>7. Spans(basis)'
    <3>1. Spans(b)
      BY <2>2, <2>5, <2>6 DEF Spans, LatticeInv
    <3>2. Spans(basis')
      BY <2>4, <3>1
    <3> QED
      BY <1>1, <3>2 DEF Spans, Whole
  <2> QED
    BY <1>1, <2>7 DEF LatticeInv, Whole
<1> QED
  BY <1>6, <1>7

(* Whatever the order a pass leaves the vectors in. *)
LEMMA SortKeeps ==
  ASSUME LatticeInv, NEW p \in [1..3 -> 1..3], {p[k] : k \in 1..3} = 1..3
  PROVE  Spans([k \in 1..3 |-> basis[p[k]]])
<1> DEFINE b == [k \in 1..3 |-> basis[p[k]]]
<1>1. basis \in [1..3 -> Vectors] /\ basis[1] \in Vectors /\ basis[2] \in Vectors /\ basis[3] \in Vectors
      /\ \A k \in 1..3 : Whole(basis[k])
  BY DEF LatticeInv, Spans
<1>2. b \in [1..3 -> Vectors] /\ \A k \in 1..3 : Whole(b[k])
  BY <1>1
<1>3. b[1] = basis[p[1]] /\ b[2] = basis[p[2]] /\ b[3] = basis[p[3]]
  OBVIOUS
<1> HIDE DEF b
<1>4. /\ p[1] \in 1..3 /\ p[2] \in 1..3 /\ p[3] \in 1..3
      /\ p[1] # p[2] /\ p[1] # p[3] /\ p[2] # p[3]
  <2>1. p[1] \in 1..3 /\ p[2] \in 1..3 /\ p[3] \in 1..3
    OBVIOUS
  <2>2. \A n \in 1..3 : p[1] = n \/ p[2] = n \/ p[3] = n
    <3> TAKE n \in 1..3
    <3>1. PICK k \in 1..3 : p[k] = n
      OBVIOUS
    <3>2. k = 1 \/ k = 2 \/ k = 3
      OBVIOUS
    <3> QED
      BY <3>1, <3>2
  <2>3. /\ p[1] = 1 \/ p[2] = 1 \/ p[3] = 1
        /\ p[1] = 2 \/ p[2] = 2 \/ p[3] = 2
        /\ p[1] = 3 \/ p[2] = 3 \/ p[3] = 3
    BY <2>2
  <2> QED
    BY <2>1, <2>3
<1> DEFINE T == Tri(basis[1], basis[2], basis[3])
<1>5. /\ T \in Int
      /\ Tri(basis[2], basis[3], basis[1]) = T /\ Tri(basis[3], basis[1], basis[2]) = T
      /\ Tri(basis[1], basis[3], basis[2]) = -T /\ Tri(basis[2], basis[1], basis[3]) = -T
      /\ Tri(basis[3], basis[2], basis[1]) = -T
  BY <1>1, Orders
<1> HIDE DEF T
<1>6. Tri(b[1], b[2], b[3]) \in {T, -T}
  <2>1. \/ p[1] = 1 /\ p[2] = 2 /\ p[3] = 3
        \/ p[1] = 1 /\ p[2] = 3 /\ p[3] = 2
        \/ p[1] = 2 /\ p[2] = 1 /\ p[3] = 3
        \/ p[1] = 2 /\ p[2] = 3 /\ p[3] = 1
        \/ p[1] = 3 /\ p[2] = 1 /\ p[3] = 2
        \/ p[1] = 3 /\ p[2] = 2 /\ p[3] = 1
    BY <1>4
  <2> QED
    BY <1>3, <1>5, <2>1 DEF T
<1>7. TripleProduct(b) = Tri(b[1], b[2], b[3]) /\ TripleProduct(basis) = T
  BY DEF TripleProduct, Tri, T
<1>8. TripleProduct(basis) \in {Volume, -Volume}
  BY DEF LatticeInv, Spans
<1>9. Volume \in Int
  <2>1. matrix[1] \in Vectors /\ matrix[2] \in Vectors /\ matrix[3] \in Vectors
    BY DEF LatticeInv
  <2>2. Volume = Tri(matrix[1], matrix[2], matrix[3])
    BY DEF Volume, TripleProduct, Tri
  <2> QED
    BY <2>1, <2>2, Orders
<1>10. TripleProduct(b) \in {Volume, -Volume}
  BY <1>5, <1>6, <1>7, <1>8, <1>9
<1> QED
  BY <1>2, <1>10 DEF Spans, b

LEMMA EndPassKeeps ==
  ASSUME LatticeInv, EndPass
  PROVE  LatticeInv'
<1>1. PICK p \in [1..3 -> 1..3] :
        {p[k] : k \in 1..3} = 1..3 /\ basis' = [k \in 1..3 |-> basis[p[k]]]
  BY DEF EndPass
<1>2. Spans(basis')
  BY <1>1, SortKeeps
<1>3. /\ matrix' = matrix /\ displacement' = displacement /\ best' = best /\ pc = "reduce"
      /\ pc' \in {"ready", "reduce"} /\ pair' = 1 /\ Volume' = Volume /\ Volume # 0
  BY DEF EndPass, LatticeInv, Volume
<1>4. Spans(basis)'
  BY <1>2, <1>3 DEF Spans, Whole
<1> QED
  BY <1>3, <1>4 DEF LatticeInv

LEMMA BeginKeeps ==
  ASSUME LatticeInv, Begin
  PROVE  LatticeInv'
<1>1. /\ matrix' = matrix /\ basis' = basis /\ displacement' = displacement /\ pair' = pair
      /\ Volume' = Volume /\ pc' # "begin"
      /\ pc' = IF Volume = 0 THEN "throws" ELSE IF IsOrthorhombic THEN "ready" ELSE "reduce"
  BY DEF Begin, Volume
<1>2. Spans(basis)'
  BY <1>1 DEF LatticeInv, Spans, Whole
<1> QED
  BY <1>1, <1>2 DEF LatticeInv

(* Both paths return the displacement less a whole combination of the cell. *)
LEMMA WrappedIsImage ==
  ASSUME LatticeInv, Volume # 0, IsOrthorhombic, NEW d \in Vectors
  PROVE  /\ Wrapped(d) \in Vectors /\ Whole(Sub(d, Wrapped(d)))
         /\ \A c \in Vectors : Norm2(Wrapped(d)) <= Norm2(Sub(d, Combine(matrix, c)))
<1> DEFINE q == [k \in 1..3 |-> Rounded(d[k], matrix[k][k])]
<1>1. /\ matrix \in [1..3 -> Vectors]
      /\ matrix[1] \in Vectors /\ matrix[2] \in Vectors /\ matrix[3] \in Vectors
      /\ matrix[1][2] = 0 /\ matrix[1][3] = 0 /\ matrix[2][1] = 0
      /\ matrix[2][3] = 0 /\ matrix[3][1] = 0 /\ matrix[3][2] = 0
  BY DEF LatticeInv, IsOrthorhombic
<1>2. matrix[1][1] \in Int /\ matrix[2][2] \in Int /\ matrix[3][3] \in Int
      /\ d[1] \in Int /\ d[2] \in Int /\ d[3] \in Int
  BY <1>1, VectorParts
<1>3. matrix[1][1] # 0 /\ matrix[2][2] # 0 /\ matrix[3][3] # 0
  <2>1. Volume = matrix[1][1] * (matrix[2][2] * matrix[3][3])
    BY <1>1, <1>2 DEF Volume, TripleProduct, Dot, Cross
  <2> QED
    BY <1>2, <2>1
<1>4. /\ \A k \in 1..3 : matrix[k][k] \in Int /\ matrix[k][k] # 0 /\ d[k] \in Int
  <2>1. \A k \in 1..3 : k = 1 \/ k = 2 \/ k = 3
    OBVIOUS
  <2> QED
    BY <1>2, <1>3, <2>1
<1>5. \A k \in 1..3 : q[k] = Rounded(d[k], matrix[k][k]) /\ q[k] \in Int
  BY <1>4, RoundedNear
<1>6. q \in Vectors
  BY <1>5 DEF Vectors
<1>7. ASSUME NEW c \in Vectors
      PROVE  /\ Sub(d, Combine(matrix, c)) \in Vectors
             /\ Sub(d, Combine(matrix, c))[1] = d[1] - matrix[1][1] * c[1]
             /\ Sub(d, Combine(matrix, c))[2] = d[2] - matrix[2][2] * c[2]
             /\ Sub(d, Combine(matrix, c))[3] = d[3] - matrix[3][3] * c[3]
             /\ Combine(matrix, c) \in Vectors
             /\ Combine(matrix, c)[1] = matrix[1][1] * c[1]
             /\ Combine(matrix, c)[2] = matrix[2][2] * c[2]
             /\ Combine(matrix, c)[3] = matrix[3][3] * c[3]
  <2>1. c[1] \in Int /\ c[2] \in Int /\ c[3] \in Int
    BY VectorParts
  <2> DEFINE x == Combine(matrix, c)
  <2>2. /\ x \in Vectors
        /\ x[1] = c[1] * matrix[1][1] + c[2] * matrix[2][1] + c[3] * matrix[3][1]
        /\ x[2] = c[1] * matrix[1][2] + c[2] * matrix[2][2] + c[3] * matrix[3][2]
        /\ x[3] = c[1] * matrix[1][3] + c[2] * matrix[2][3] + c[3] * matrix[3][3]
    <3>1. x \in Vectors /\ \A k \in 1..3 : x[k] = c[1] * matrix[1][k] + c[2] * matrix[2][k] + c[3] * matrix[3][k]
      BY <1>1, CombineShape
    <3> HIDE DEF x
    <3>2. 1 \in 1..3 /\ 2 \in 1..3 /\ 3 \in 1..3
      OBVIOUS
    <3> QED
      BY <3>1, <3>2
  <2> HIDE DEF x
  <2>3. x[1] = matrix[1][1] * c[1] /\ x[2] = matrix[2][2] * c[2] /\ x[3] = matrix[3][3] * c[3]
    BY <1>1, <1>2, <2>1, <2>2
  <2>4. /\ Sub(d, x) \in Vectors /\ Sub(d, x)[1] = d[1] - x[1]
        /\ Sub(d, x)[2] = d[2] - x[2] /\ Sub(d, x)[3] = d[3] - x[3]
    BY <2>2, SubShape
  <2> QED
    BY <2>2, <2>3, <2>4 DEF x
<1>8. Wrapped(d) \in Vectors /\ \A k \in 1..3 : Wrapped(d)[k] = d[k] - matrix[k][k] * q[k]
  <2>1. \A k \in 1..3 : d[k] - matrix[k][k] * q[k] \in Int
    BY <1>4, <1>5
  <2>2. Wrapped(d) = [k \in 1..3 |-> d[k] - matrix[k][k] * q[k]]
    BY DEF Wrapped
  <2> HIDE DEF q
  <2> QED
    BY <2>1, <2>2 DEF Vectors
<1> HIDE DEF q
<1>9. Sub(d, Wrapped(d)) = Combine(matrix, q)
  <2> DEFINE x == Sub(d, Wrapped(d))
             y == Combine(matrix, q)
  <2>1. /\ x \in Vectors /\ x[1] = d[1] - Wrapped(d)[1] /\ x[2] = d[2] - Wrapped(d)[2]
        /\ x[3] = d[3] - Wrapped(d)[3]
    BY <1>8, SubShape
  <2>2. y \in Vectors /\ y[1] = matrix[1][1] * q[1] /\ y[2] = matrix[2][2] * q[2] /\ y[3] = matrix[3][3] * q[3]
    BY <1>6, <1>7
  <2>3. /\ Wrapped(d)[1] = d[1] - matrix[1][1] * q[1] /\ matrix[1][1] * q[1] \in Int
        /\ Wrapped(d)[2] = d[2] - matrix[2][2] * q[2] /\ matrix[2][2] * q[2] \in Int
        /\ Wrapped(d)[3] = d[3] - matrix[3][3] * q[3] /\ matrix[3][3] * q[3] \in Int
    BY <1>2, <1>5, <1>8
  <2> HIDE DEF x, y
  <2>4. x[1] = y[1] /\ x[2] = y[2] /\ x[3] = y[3]
    BY <1>2, <2>1, <2>2, <2>3
  <2>5. x = y
    BY <2>1, <2>2, <2>4, SameVector
  <2> QED
    BY <2>5 DEF x, y
<1>10. ASSUME NEW c \in Vectors
       PROVE  Norm2(Wrapped(d)) <= Norm2(Sub(d, Combine(matrix, c)))
  <2> DEFINE x == Wrapped(d)
             y == Sub(d, Combine(matrix, c))
  <2>1. ASSUME NEW k \in 1..3, y[k] = d[k] - matrix[k][k] * c[k]
        PROVE  x[k] * x[k] <= y[k] * y[k] /\ x[k] * x[k] \in Int /\ y[k] * y[k] \in Int
    <3>1. c[k] \in Int
      BY DEF Vectors
    <3> DEFINE n == d[k]
               m == matrix[k][k]
    <3>2. n \in Int /\ m \in Int /\ m # 0 /\ x[k] = n - m * Rounded(n, m) /\ y[k] = n - m * c[k]
      BY <1>4, <1>5, <1>8, <2>1
    <3> HIDE DEF n, m, x, y
    <3>3. Rounded(n, m) \in Int
      BY <3>2, RoundedNear
    <3> QED
      <4>1. (n - m * Rounded(n, m)) * (n - m * Rounded(n, m)) <= (n - m * c[k]) * (n - m * c[k])
        BY <3>1, <3>2, RoundedNearest
      <4>2. x[k] \in Int /\ y[k] \in Int
        BY <3>1, <3>2, <3>3
      <4> QED
        BY <3>2, <4>1, <4>2
  <2>2. /\ y[1] = d[1] - matrix[1][1] * c[1] /\ y[2] = d[2] - matrix[2][2] * c[2]
        /\ y[3] = d[3] - matrix[3][3] * c[3]
    BY <1>7
  <2> HIDE DEF x, y
  <2>3. /\ x[1] * x[1] <= y[1] * y[1] /\ x[1] * x[1] \in Int /\ y[1] * y[1] \in Int
        /\ x[2] * x[2] <= y[2] * y[2] /\ x[2] * x[2] \in Int /\ y[2] * y[2] \in Int
        /\ x[3] * x[3] <= y[3] * y[3] /\ x[3] * x[3] \in Int /\ y[3] * y[3] \in Int
    BY <2>1, <2>2
  <2>4. /\ Norm2(x) = x[1] * x[1] + x[2] * x[2] + x[3] * x[3]
        /\ Norm2(y) = y[1] * y[1] + y[2] * y[2] + y[3] * y[3]
    BY DEF Norm2, Dot
  <2> DEFINE a1 == x[1] * x[1]
             a2 == x[2] * x[2]
             a3 == x[3] * x[3]
             b1 == y[1] * y[1]
             b2 == y[2] * y[2]
             b3 == y[3] * y[3]
  <2>5. /\ a1 <= b1 /\ a2 <= b2 /\ a3 <= b3
        /\ a1 \in Int /\ a2 \in Int /\ a3 \in Int /\ b1 \in Int /\ b2 \in Int /\ b3 \in Int
        /\ Norm2(x) = a1 + a2 + a3 /\ Norm2(y) = b1 + b2 + b3
    BY <2>3, <2>4
  <2> HIDE DEF a1, a2, a3, b1, b2, b3
  <2>6. Norm2(x) <= Norm2(y)
    BY <2>5
  <2> QED
    BY <2>6 DEF x, y
<1> QED
  BY <1>6, <1>8, <1>9, <1>10 DEF Whole

LEMMA CandidateIsImage ==
  ASSUME LatticeInv, Volume # 0, NEW d \in Vectors, NEW b \in Candidates(d)
  PROVE  b \in Vectors /\ Whole(Sub(d, b))
<1>1. CASE b = d
  <2> DEFINE o == [k \in 1..3 |-> 0]
  <2>1. o \in Vectors /\ o[1] = 0 /\ o[2] = 0 /\ o[3] = 0
    BY DEF Vectors
  <2> HIDE DEF o
  <2>2. Whole(Combine(basis, o)) /\ Combine(basis, o) \in Vectors
    BY <2>1, WholeCombine
  <2>3. /\ Sub(d, d) \in Vectors /\ Sub(d, d)[1] = 0 /\ Sub(d, d)[2] = 0 /\ Sub(d, d)[3] = 0
    <3>1. d[1] \in Int /\ d[2] \in Int /\ d[3] \in Int
      BY VectorParts
    <3> QED
      BY <3>1, SubShape
  <2>4. \A k \in 1..3 : Combine(basis, o)[k] = 0
    <3>1. basis[1] \in Vectors /\ basis[2] \in Vectors /\ basis[3] \in Vectors
      BY DEF LatticeInv, Spans
    <3>2. \A k \in 1..3 : basis[1][k] \in Int /\ basis[2][k] \in Int /\ basis[3][k] \in Int
      BY <3>1 DEF Vectors
    <3> QED
      BY <2>1, <3>2 DEF Combine
  <2>5. Sub(d, d) = Combine(basis, o)
    BY <2>2, <2>3, <2>4, SameVector
  <2> QED
    BY <1>1, <2>2, <2>5
<1>2. ASSUME NEW c \in Around(NearestCell(d)), b = Sub(d, Combine(basis, c))
      PROVE  b \in Vectors /\ Whole(Sub(d, b))
  <2>1. c \in Vectors
    <3> DEFINE cell == NearestCell(d)
               volume == TripleProduct(basis)
    <3>1. volume \in Int /\ volume # 0
      BY BasisHasVolume
    <3>2. basis[1] \in Vectors /\ basis[2] \in Vectors /\ basis[3] \in Vectors
      BY DEF LatticeInv, Spans
    <3>3. /\ Dot(d, Cross(basis[2], basis[3])) \in Int /\ Dot(d, Cross(basis[3], basis[1])) \in Int
          /\ Dot(d, Cross(basis[1], basis[2])) \in Int
      BY <3>2, Orders DEF Tri
    <3>4. cell[1] \in Int /\ cell[2] \in Int /\ cell[3] \in Int
      BY <3>1, <3>3, RoundedNear DEF NearestCell
    <3> HIDE DEF cell
    <3>5. \A s \in (-SearchRadius..SearchRadius) \X (-SearchRadius..SearchRadius) \X (-SearchRadius..SearchRadius) :
            s[1] \in Int /\ s[2] \in Int /\ s[3] \in Int
      BY LatticeAssumption
    <3>6. PICK s \in (-SearchRadius..SearchRadius) \X (-SearchRadius..SearchRadius) \X (-SearchRadius..SearchRadius) :
            c = [k \in 1..3 |-> cell[k] + s[k]]
      BY <1>2 DEF Around, cell
    <3>7. \A k \in 1..3 : cell[k] \in Int /\ s[k] \in Int
      <4>1. \A k \in 1..3 : k = 1 \/ k = 2 \/ k = 3
        OBVIOUS
      <4> QED
        BY <3>4, <3>5, <4>1
    <3> QED
      BY <3>6, <3>7 DEF Vectors
  <2> DEFINE x == Combine(basis, c)
  <2>2. x \in Vectors /\ Whole(x)
    BY <2>1, WholeCombine
  <2> HIDE DEF x
  <2>3. d[1] \in Int /\ d[2] \in Int /\ d[3] \in Int /\ x[1] \in Int /\ x[2] \in Int /\ x[3] \in Int
    BY <2>2, VectorParts
  <2>4. b \in Vectors /\ b[1] = d[1] - x[1] /\ b[2] = d[2] - x[2] /\ b[3] = d[3] - x[3]
    BY <1>2, <2>2, SubShape DEF x
  <2>5. /\ Sub(d, b) \in Vectors /\ Sub(d, b)[1] = d[1] - b[1] /\ Sub(d, b)[2] = d[2] - b[2]
        /\ Sub(d, b)[3] = d[3] - b[3]
    BY <2>4, SubShape
  <2>6. Sub(d, b)[1] = x[1] /\ Sub(d, b)[2] = x[2] /\ Sub(d, b)[3] = x[3]
    BY <2>3, <2>4, <2>5
  <2>7. Sub(d, b) = x
    BY <2>2, <2>5, <2>6, SameVector
  <2> QED
    BY <2>2, <2>4, <2>7
<1> QED
  BY <1>1, <1>2 DEF Candidates

LEMMA FoundKeeps ==
  ASSUME LatticeInv, MinimumImageDisplacement
  PROVE  /\ LatticeInv'
         /\ IsOrthorhombic => best' = Wrapped(displacement') /\ displacement' \in Vectors /\ Volume # 0
<1>1. PICK d \in Displacements :
        /\ displacement' = d
        /\ best' \in IF IsOrthorhombic THEN {Wrapped(d)} ELSE Shortest(Candidates(d))
  BY DEF MinimumImageDisplacement
<1>2. /\ matrix' = matrix /\ basis' = basis /\ pair' = pair /\ pc = "ready" /\ pc' = "found"
      /\ Volume' = Volume /\ Volume # 0 /\ d \in Vectors
  BY LatticeAssumption DEF MinimumImageDisplacement, LatticeInv, Volume
<1>3. best' \in Vectors /\ Whole(Sub(d, best'))
  <2>1. CASE IsOrthorhombic
    BY <1>1, <1>2, <2>1, WrappedIsImage
  <2>2. CASE ~ IsOrthorhombic
    <3>1. best' \in Candidates(d)
      BY <1>1, <2>2 DEF Shortest
    <3> QED
      BY <1>2, <3>1, CandidateIsImage
  <2> QED
    BY <2>1, <2>2
<1>4. Spans(basis)'
  BY <1>2 DEF LatticeInv, Spans, Whole
<1>5. Whole(Sub(displacement, best))'
  BY <1>1, <1>2, <1>3 DEF Whole
<1>6. LatticeInv'
  BY <1>1, <1>2, <1>3, <1>4, <1>5 DEF LatticeInv
<1> QED
  BY <1>1, <1>2, <1>6

LEMMA LatticeInvariant == LatticeSpec => []LatticeInv
<1>1. LatticeInv /\ [LatticeNext]_latticeVars => LatticeInv'
  <2>1. ASSUME LatticeInv, UNCHANGED latticeVars PROVE LatticeInv'
    BY <2>1 DEF LatticeInv, latticeVars, Spans, Whole, Volume
  <2> QED
    BY <2>1, BeginKeeps, SubtractKeeps, EndPassKeeps, FoundKeeps DEF LatticeNext
<1> QED
  BY <1>1, LatticeBegins, PTL DEF LatticeSpec

(* Whole combinations are images in the sense of the definition. *)
LEMMA WholeIsImage ==
  ASSUME matrix \in [1..3 -> Vectors], Volume # 0, NEW v, Whole(v)
  PROVE  IsImage(matrix, v)
<1>1. PICK c \in Vectors : v = Combine(matrix, c)
  BY DEF Whole
<1> DEFINE m1 == matrix[1]
           m2 == matrix[2]
           m3 == matrix[3]
<1>2. /\ m1 \in Vectors /\ m2 \in Vectors /\ m3 \in Vectors
      /\ Volume = Tri(m1, m2, m3) /\ TripleProduct(matrix) = Volume
  BY DEF Volume, TripleProduct, Tri
<1>3. /\ v[1] = c[1] * m1[1] + c[2] * m2[1] + c[3] * m3[1]
      /\ v[2] = c[1] * m1[2] + c[2] * m2[2] + c[3] * m3[2]
      /\ v[3] = c[1] * m1[3] + c[2] * m2[3] + c[3] * m3[3]
  BY <1>1, CombineShape
<1> HIDE DEF m1, m2, m3
<1>4. /\ m1[1] \in Int /\ m1[2] \in Int /\ m1[3] \in Int
      /\ m2[1] \in Int /\ m2[2] \in Int /\ m2[3] \in Int
      /\ m3[1] \in Int /\ m3[2] \in Int /\ m3[3] \in Int
      /\ c[1] \in Int /\ c[2] \in Int /\ c[3] \in Int
  BY <1>2, VectorParts
<1>5. Dot(v, Cross(m2, m3)) = c[1] * Tri(m1, m2, m3)
  BY <1>3, <1>4 DEF Tri, Dot, Cross
<1>6. Dot(v, Cross(m3, m1)) = c[2] * Tri(m1, m2, m3)
  BY <1>3, <1>4 DEF Tri, Dot, Cross
<1>7. Dot(v, Cross(m1, m2)) = c[3] * Tri(m1, m2, m3)
  BY <1>3, <1>4 DEF Tri, Dot, Cross
<1>8. ASSUME NEW n \in Int PROVE (n * Volume) % Magnitude(Volume) = 0
  <2>1. Volume \in Int
    BY <1>2, Orders
  <2>2. CASE Volume > 0
    BY <2>1, <2>2, MultipleOf DEF Magnitude
  <2>3. CASE Volume < 0
    <3>1. n * Volume = (-n) * (-Volume) /\ -n \in Int /\ -Volume \in Nat \ {0}
      BY <2>1, <2>3
    <3>2. ((-n) * (-Volume)) % (-Volume) = 0
      BY <3>1, MultipleOf
    <3> QED
      BY <2>3, <3>1, <3>2 DEF Magnitude
  <2> QED
    BY <2>1, <2>2, <2>3
<1>9. /\ Dot(v, Cross(m2, m3)) % Magnitude(Volume) = 0
      /\ Dot(v, Cross(m3, m1)) % Magnitude(Volume) = 0
      /\ Dot(v, Cross(m1, m2)) % Magnitude(Volume) = 0
  BY <1>2, <1>4, <1>5, <1>6, <1>7, <1>8
<1> QED
  BY <1>2, <1>9 DEF IsImage, m1, m2, m3

(* In every cell of whole numbers, however the reduction goes, what is      *)
(* returned differs from the displacement by a lattice vector.              *)
ImageReturned == pc = "found" => IsImage(matrix, Sub(displacement, best))
THEOREM ImagesOnly == LatticeSpec => []ImageReturned
<1>1. LatticeInv => ImageReturned
  BY WholeIsImage DEF LatticeInv, ImageReturned
<1> QED
  BY <1>1, LatticeInvariant, PTL

(* In every orthorhombic cell it is the shortest of all images: the fast    *)
(* path that takes each axis by itself needs no search.                     *)
FastPath == pc = "found" /\ IsOrthorhombic => best = Wrapped(displacement)
THEOREM OrthorhombicShortest == LatticeSpec => [](IsOrthorhombic => ShortestImageFound)
<1>1. LatticeInit => FastPath
  BY DEF LatticeInit, FastPath
<1>2. LatticeInv /\ FastPath /\ [LatticeNext]_latticeVars => FastPath'
  <2> SUFFICES ASSUME LatticeInv, FastPath, [LatticeNext]_latticeVars, pc' = "found", IsOrthorhombic'
               PROVE  best' = Wrapped(displacement)'
    BY DEF FastPath
  <2>1. CASE UNCHANGED latticeVars
    BY <2>1 DEF latticeVars, FastPath, IsOrthorhombic, Wrapped
  <2>2. CASE MinimumImageDisplacement
    <3>1. matrix' = matrix /\ IsOrthorhombic
      BY <2>2 DEF MinimumImageDisplacement, IsOrthorhombic
    <3>2. best' = Wrapped(displacement')
      BY <2>2, <3>1, FoundKeeps
    <3> QED
      BY <3>1, <3>2 DEF Wrapped
  <2>3. ~ Begin /\ ~ Subtract /\ ~ EndPass
    BY DEF Begin, Subtract, EndPass
  <2> QED
    BY <2>1, <2>2, <2>3 DEF LatticeNext
<1>3. LatticeInv /\ FastPath => (IsOrthorhombic => ShortestImageFound)
  <2> SUFFICES ASSUME LatticeInv, FastPath, IsOrthorhombic, pc = "found"
               PROVE  /\ IsImage(matrix, Sub(displacement, best))
                      /\ \A c \in AllCells : Norm2(best) <= Norm2(Sub(displacement, Combine(matrix, c)))
    BY DEF ShortestImageFound
  <2>1. Volume # 0 /\ displacement \in Vectors /\ matrix \in [1..3 -> Vectors] /\ best = Wrapped(displacement)
    BY DEF LatticeInv, FastPath
  <2>2. IsImage(matrix, Sub(displacement, best))
    BY WholeIsImage DEF LatticeInv
  <2>3. ASSUME NEW c \in AllCells PROVE c \in Vectors
    <3>1. c[1] \in Int /\ c[2] \in Int /\ c[3] \in Int /\ c = <<c[1], c[2], c[3]>>
      BY LatticeAssumption DEF AllCells
    <3> QED
      BY <3>1 DEF Vectors
  <2> QED
    BY <2>1, <2>2, <2>3, WrappedIsImage
<1> QED
  BY <1>1, <1>2, <1>3, LatticeInvariant, PTL DEF LatticeSpec

-----------------------------------------------------------------------------
(* Which combination of three vectors is the shortest.  Of the vectors only *)
(* the products matter: g has the three squares, then those of the pairs    *)
(* 1 2, 1 3 and 2 3, and Form is the length of y[1], y[2], y[3] times them.  *)
Grams == [1..6 -> Int]
Form(g, y) ==
  g[1] * (y[1] * y[1]) + g[2] * (y[2] * y[2]) + g[3] * (y[3] * y[3])
    + 2 * (g[4] * (y[1] * y[2])) + 2 * (g[5] * (y[1] * y[3])) + 2 * (g[6] * (y[2] * y[3]))

(* Coordinates are counted in parts of which w make a whole: f is what       *)
(* rounding leaves of them.  The search around the rounded coordinates is   *)
(* as good as one of all cells.                                             *)
Moved(f, w, c) == [k \in 1..3 |-> f[k] + w * c[k]]
Neighbours == [1..3 -> -1..1]
NearIsBest(g) ==
  \A w \in Nat \ {0}, f \in Vectors, c \in Vectors :
    (\A k \in 1..3 : 2 * Size(f[k]) <= w) =>
      \E e \in Neighbours : Form(g, Moved(f, w, e)) <= Form(g, Moved(f, w, c))

(* The length as the energy of four nodes on a line, any two of them joined *)
(* by a spring.                                                             *)
Nodes == [1..4 -> Int]
Springs == [1..6 -> Nat]
Square(n) == n * n
Pull(p, y) ==
  p[1] * Square(y[2] - y[1]) + p[2] * Square(y[3] - y[1]) + p[3] * Square(y[4] - y[1])
    + p[4] * Square(y[3] - y[2]) + p[5] * Square(y[4] - y[2]) + p[6] * Square(y[4] - y[3])

(* Where two of four nodes are three halves of w apart, there is a gap of    *)
(* half of w between them.                                                  *)
LEMMA GapExists ==
  ASSUME NEW y \in Nodes, NEW w \in Nat \ {0}, NEW a \in 1..4, NEW b \in 1..4,
         2 * (y[a] - y[b]) >= 3 * w
  PROVE  \E S \in SUBSET (1..4) :
           a \in S /\ b \notin S /\ \A i \in S, j \in (1..4) \ S : 2 * (y[i] - y[j]) >= w
<1>1. \A i \in 1..4 : y[i] \in Int
  BY DEF Nodes
<1>2. a # b
  BY <1>1
<1>3. PICK u \in 1..4, v \in 1..4 : \A i \in 1..4 : i = a \/ i = b \/ i = u \/ i = v
  <2>1. \A i \in 1..4 : i = 1 \/ i = 2 \/ i = 3 \/ i = 4
    OBVIOUS
  <2>2. \E u \in 1..4, v \in 1..4 : {1, 2, 3, 4} \subseteq {a, b, u, v}
    <3> DEFINE u == CHOOSE i \in 1..4 : i # a /\ i # b
               v == CHOOSE i \in 1..4 : i # a /\ i # b /\ i # u
    <3>1. (\E i \in 1..4 : i # a /\ i # b) /\ (\A i \in 1..4 : \E j \in 1..4 : j # a /\ j # b /\ j # i)
      <4>1. \E i \in 1..4 : i # a /\ i # b
        <5>1. CASE 1 \notin {a, b}
          BY <5>1
        <5>2. CASE 2 \notin {a, b}
          BY <5>2
        <5>3. CASE 3 \notin {a, b}
          BY <5>3
        <5> QED
          BY <5>1, <5>2, <5>3
      <4>2. ASSUME NEW i \in 1..4 PROVE \E j \in 1..4 : j # a /\ j # b /\ j # i
        <5>1. CASE 1 \notin {a, b, i}
          BY <5>1
        <5>2. CASE 2 \notin {a, b, i}
          BY <5>2
        <5>3. CASE 3 \notin {a, b, i}
          BY <5>3
        <5>4. CASE 4 \notin {a, b, i}
          BY <5>4
        <5> QED
          BY <5>1, <5>2, <5>3, <5>4
      <4> QED
        BY <4>1, <4>2
    <3>2. u \in 1..4 /\ u # a /\ u # b
      BY <3>1
    <3>3. v \in 1..4 /\ v # a /\ v # b /\ v # u
      BY <3>1, <3>2
    <3> HIDE DEF u, v
    <3>4. {1, 2, 3, 4} \subseteq {a, b, u, v}
      BY <1>2, <3>2, <3>3
    <3> QED
      BY <3>2, <3>3, <3>4
  <2> QED
    BY <2>1, <2>2
<1> DEFINE Apart2(S) == \A i \in S, j \in (1..4) \ S : 2 * (y[i] - y[j]) >= w
<1>4. 2 * (y[a] - y[b]) >= w
  BY <1>1
<1>5. \/ 2 * (y[a] - y[u]) >= w /\ 2 * (y[a] - y[v]) >= w
      \/ 2 * (y[a] - y[v]) >= w /\ 2 * (y[u] - y[b]) >= w /\ 2 * (y[u] - y[v]) >= w
      \/ 2 * (y[a] - y[u]) >= w /\ 2 * (y[v] - y[b]) >= w /\ 2 * (y[v] - y[u]) >= w
      \/ 2 * (y[u] - y[b]) >= w /\ 2 * (y[v] - y[b]) >= w
  <2> DEFINE ya == y[a]
             yb == y[b]
             yu == y[u]
             yv == y[v]
  <2>1. ya \in Int /\ yb \in Int /\ yu \in Int /\ yv \in Int /\ 2 * (ya - yb) >= 3 * w
    BY <1>1
  <2> HIDE DEF ya, yb, yu, yv
  <2>2. \/ 2 * (ya - yu) >= w /\ 2 * (ya - yv) >= w
        \/ 2 * (ya - yv) >= w /\ 2 * (yu - yb) >= w /\ 2 * (yu - yv) >= w
        \/ 2 * (ya - yu) >= w /\ 2 * (yv - yb) >= w /\ 2 * (yv - yu) >= w
        \/ 2 * (yu - yb) >= w /\ 2 * (yv - yb) >= w
    BY <2>1
  <2> QED
    BY <2>2 DEF ya, yb, yu, yv
<1>6. CASE 2 * (y[a] - y[u]) >= w /\ 2 * (y[a] - y[v]) >= w
  <2> DEFINE S == {a}
  <2>1. a \in S /\ b \notin S /\ \A i \in S, j \in (1..4) \ S : i = a /\ (j = b \/ j = u \/ j = v)
    BY <1>2, <1>3
  <2> QED
    BY <1>4, <1>6, <2>1
<1>7. CASE 2 * (y[a] - y[v]) >= w /\ 2 * (y[u] - y[b]) >= w /\ 2 * (y[u] - y[v]) >= w
  <2>1. CASE u = b
    BY <1>1, <1>7, <2>1
  <2>2. CASE u # b
    <3> DEFINE S == {a, u}
    <3>1. /\ a \in S /\ b \notin S
          /\ \A i \in S, j \in (1..4) \ S : (i = a \/ i = u) /\ (j = b \/ j = v)
      BY <1>2, <1>3, <2>2
    <3> QED
      BY <1>4, <1>7, <3>1
  <2> QED
    BY <2>1, <2>2
<1>8. CASE 2 * (y[a] - y[u]) >= w /\ 2 * (y[v] - y[b]) >= w /\ 2 * (y[v] - y[u]) >= w
  <2>1. CASE v = b
    BY <1>1, <1>8, <2>1
  <2>2. CASE v # b
    <3> DEFINE S == {a, v}
    <3>1. /\ a \in S /\ b \notin S
          /\ \A i \in S, j \in (1..4) \ S : (i = a \/ i = v) /\ (j = b \/ j = u)
      BY <1>2, <1>3, <2>2
    <3> QED
      BY <1>4, <1>8, <3>1
  <2> QED
    BY <2>1, <2>2
<1>9. CASE 2 * (y[u] - y[b]) >= w /\ 2 * (y[v] - y[b]) >= w
  <2> DEFINE S == (1..4) \ {b}
  <2>1. a \in S /\ b \notin S /\ \A i \in S, j \in (1..4) \ S : j = b /\ (i = a \/ i = u \/ i = v)
    BY <1>2, <1>3
  <2> QED
    BY <1>4, <1>9, <2>1
<1> QED
  BY <1>5, <1>6, <1>7, <1>8, <1>9

(* Closing such a gap by w stretches no spring. *)
Closed(y, w, S) == [k \in 1..4 |-> IF k \in S THEN y[k] - w ELSE y[k]]
LEMMA ClosingHelps ==
  ASSUME NEW y \in Nodes, NEW w \in Nat \ {0}, NEW S \in SUBSET (1..4),
         \A i \in S, j \in (1..4) \ S : 2 * (y[i] - y[j]) >= w
  PROVE  /\ Closed(y, w, S) \in Nodes
         /\ \A i, j \in 1..4 :
              Square(Closed(y, w, S)[i] - Closed(y, w, S)[j]) <= Square(y[i] - y[j])
<1> DEFINE z == Closed(y, w, S)
<1>1. \A i \in 1..4 : y[i] \in Int
  BY DEF Nodes
<1>2. z \in Nodes
  BY <1>1 DEF Closed, Nodes
<1>3. \A i \in 1..4 : z[i] = IF i \in S THEN y[i] - w ELSE y[i]
  BY DEF Closed
<1> HIDE DEF z
<1>4. ASSUME NEW d \in Int, 2 * d >= w PROVE Square(d - w) <= Square(d) /\ Square(w - d) <= Square(d)
  <2>1. Square(d - w) = Square(d) - w * (2 * d - w) /\ Square(w - d) = Square(d) - w * (2 * d - w)
    BY DEF Square
  <2>2. w * (2 * d - w) \in Nat
    BY <1>4
  <2>3. Square(d) \in Int
    BY DEF Square
  <2> QED
    BY <2>1, <2>2, <2>3
<1>5. ASSUME NEW i \in 1..4, NEW j \in 1..4
      PROVE  Square(z[i] - z[j]) <= Square(y[i] - y[j])
  <2>1. y[i] \in Int /\ y[j] \in Int /\ Square(y[i] - y[j]) \in Int /\ Square(y[j] - y[i]) = Square(y[i] - y[j])
    BY <1>1 DEF Square
  <2>2. CASE i \in S /\ j \notin S
    <3>1. z[i] - z[j] = (y[i] - y[j]) - w /\ 2 * (y[i] - y[j]) >= w /\ y[i] - y[j] \in Int
      BY <1>3, <2>1, <2>2
    <3> QED
      BY <1>4, <3>1
  <2>3. CASE i \notin S /\ j \in S
    <3>1. z[i] - z[j] = w - (y[j] - y[i]) /\ 2 * (y[j] - y[i]) >= w /\ y[j] - y[i] \in Int
      BY <1>3, <2>1, <2>3
    <3> QED
      BY <1>4, <2>1, <3>1
  <2>4. CASE (i \in S) <=> (j \in S)
    <3>1. z[i] - z[j] = y[i] - y[j]
      BY <1>3, <2>1, <2>4
    <3> QED
      BY <2>1, <3>1
  <2> QED
    BY <2>2, <2>3, <2>4
<1> QED
  BY <1>2, <1>5 DEF z

LEMMA ClosingPulls ==
  ASSUME NEW y \in Nodes, NEW z \in Nodes, NEW p \in Springs,
         \A i, j \in 1..4 : Square(z[i] - z[j]) <= Square(y[i] - y[j])
  PROVE  Pull(p, y) \in Nat /\ Pull(p, z) \in Nat /\ Pull(p, z) <= Pull(p, y)
<1>1. \A i, j \in 1..4 : /\ Square(z[i] - z[j]) \in Nat /\ Square(y[i] - y[j]) \in Nat
  <2>1. \A n \in Int : Square(n) \in Nat
    BY DEF Square
  <2>2. \A i, j \in 1..4 : z[i] - z[j] \in Int /\ y[i] - y[j] \in Int
    BY DEF Nodes
  <2> QED
    BY <2>1, <2>2
<1>2. \A q \in Nat, m \in Nat, n \in Nat : m <= n => q * m \in Nat /\ q * n \in Nat /\ q * m <= q * n
  <2> TAKE q \in Nat, m \in Nat, n \in Nat
  <2> HAVE m <= n
  <2>1. q * n = q * m + q * (n - m) /\ q * (n - m) \in Nat /\ q * m \in Nat
    OBVIOUS
  <2> QED
    BY <2>1
<1> DEFINE Term(k, i, j, x) == p[k] * Square(x[i] - x[j])
<1>3. ASSUME NEW k \in 1..6, NEW i \in 1..4, NEW j \in 1..4
      PROVE  Term(k, i, j, y) \in Nat /\ Term(k, i, j, z) \in Nat /\ Term(k, i, j, z) <= Term(k, i, j, y)
  <2>1. p[k] \in Nat
    BY DEF Springs
  <2> QED
    BY <1>1, <1>2, <2>1
<1>4. \A x : Pull(p, x) = Term(1, 2, 1, x) + Term(2, 3, 1, x) + Term(3, 4, 1, x)
                            + Term(4, 3, 2, x) + Term(5, 4, 2, x) + Term(6, 4, 3, x)
  BY DEF Pull
<1> HIDE DEF Term
<1>5. /\ Term(1, 2, 1, y) \in Nat /\ Term(1, 2, 1, z) \in Nat /\ Term(1, 2, 1, z) <= Term(1, 2, 1, y)
      /\ Term(2, 3, 1, y) \in Nat /\ Term(2, 3, 1, z) \in Nat /\ Term(2, 3, 1, z) <= Term(2, 3, 1, y)
      /\ Term(3, 4, 1, y) \in Nat /\ Term(3, 4, 1, z) \in Nat /\ Term(3, 4, 1, z) <= Term(3, 4, 1, y)
      /\ Term(4, 3, 2, y) \in Nat /\ Term(4, 3, 2, z) \in Nat /\ Term(4, 3, 2, z) <= Term(4, 3, 2, y)
      /\ Term(5, 4, 2, y) \in Nat /\ Term(5, 4, 2, z) \in Nat /\ Term(5, 4, 2, z) <= Term(5, 4, 2, y)
      /\ Term(6, 4, 3, y) \in Nat /\ Term(6, 4, 3, z) \in Nat /\ Term(6, 4, 3, z) <= Term(6, 4, 3, y)
  BY <1>3
<1> QED
  BY <1>4, <1>5

(* Where the gap was more than half of w, some pair comes closer.           *)
Tight == [k \in 1..6 |-> 1]
LEMMA ClosingTightens ==
  ASSUME NEW y \in Nodes, NEW w \in Nat \ {0}, NEW S \in SUBSET (1..4),
         \A i \in S, j \in (1..4) \ S : 2 * (y[i] - y[j]) >= w,
         NEW a \in S, NEW b \in (1..4) \ S, 2 * (y[a] - y[b]) >= 3 * w
  PROVE  /\ Pull(Tight, y) \in Nat /\ Pull(Tight, Closed(y, w, S)) \in Nat
         /\ Pull(Tight, Closed(y, w, S)) < Pull(Tight, y)
<1> DEFINE z == Closed(y, w, S)
<1>1. z \in Nodes /\ \A i, j \in 1..4 : Square(z[i] - z[j]) <= Square(y[i] - y[j])
  BY ClosingHelps
<1>2. z[a] - z[b] = (y[a] - y[b]) - w
  BY DEF Closed, Nodes
<1> HIDE DEF z
<1>3. \A i, j \in 1..4 : z[i] - z[j] \in Int /\ y[i] - y[j] \in Int
  BY <1>1 DEF Nodes
<1>4. Square(z[a] - z[b]) < Square(y[a] - y[b]) /\ Square(z[b] - z[a]) < Square(y[b] - y[a])
  <2> DEFINE d == y[a] - y[b]
             e == z[a] - z[b]
  <2>1. d \in Int /\ e = d - w /\ 2 * d >= 3 * w
    BY <1>2, <1>3
  <2>2. Square(y[b] - y[a]) = Square(d) /\ Square(z[b] - z[a]) = Square(e)
    BY <1>1 DEF Square, Nodes
  <2> HIDE DEF d, e
  <2>3. Square(e) = Square(d) - w * (2 * d - w)
    BY <2>1 DEF Square
  <2>4. w * (2 * d - w) \in Nat \ {0} /\ Square(d) \in Int
    BY <2>1 DEF Square
  <2> QED
    BY <2>2, <2>3, <2>4 DEF d, e
<1> DEFINE G(i, j) == Square(y[i] - y[j])
           H(i, j) == Square(z[i] - z[j])
<1>5. \A i, j \in 1..4 : G(i, j) \in Nat /\ H(i, j) \in Nat /\ H(i, j) <= G(i, j)
  <2>1. \A n \in Int : Square(n) \in Nat
    BY DEF Square
  <2> QED
    BY <1>1, <1>3, <2>1
<1>6. H(a, b) < G(a, b) /\ H(b, a) < G(b, a) /\ a # b
  BY <1>4
<1>7. /\ Pull(Tight, y) = G(2, 1) + G(3, 1) + G(4, 1) + G(3, 2) + G(4, 2) + G(4, 3)
      /\ Pull(Tight, z) = H(2, 1) + H(3, 1) + H(4, 1) + H(3, 2) + H(4, 2) + H(4, 3)
  <2>1. \A i, j \in 1..4 : 1 * Square(y[i] - y[j]) = G(i, j) /\ 1 * Square(z[i] - z[j]) = H(i, j)
    BY <1>5
  <2>2. \A k \in 1..6 : Tight[k] = 1
    BY DEF Tight
  <2> QED
    BY <2>1, <2>2 DEF Pull
<1> HIDE DEF G, H
<1>8. /\ G(2, 1) \in Nat /\ H(2, 1) \in Nat /\ H(2, 1) <= G(2, 1)
      /\ G(3, 1) \in Nat /\ H(3, 1) \in Nat /\ H(3, 1) <= G(3, 1)
      /\ G(4, 1) \in Nat /\ H(4, 1) \in Nat /\ H(4, 1) <= G(4, 1)
      /\ G(3, 2) \in Nat /\ H(3, 2) \in Nat /\ H(3, 2) <= G(3, 2)
      /\ G(4, 2) \in Nat /\ H(4, 2) \in Nat /\ H(4, 2) <= G(4, 2)
      /\ G(4, 3) \in Nat /\ H(4, 3) \in Nat /\ H(4, 3) <= G(4, 3)
  BY <1>5
<1>9. \/ H(2, 1) < G(2, 1) \/ H(3, 1) < G(3, 1) \/ H(4, 1) < G(4, 1)
      \/ H(3, 2) < G(3, 2) \/ H(4, 2) < G(4, 2) \/ H(4, 3) < G(4, 3)
  <2>1. (a = 1 \/ a = 2 \/ a = 3 \/ a = 4) /\ (b = 1 \/ b = 2 \/ b = 3 \/ b = 4)
    OBVIOUS
  <2> QED
    BY <1>6, <2>1
<1> QED
  BY <1>7, <1>8, <1>9 DEF z

(* Coordinates that are differences along three of the springs. *)
Along(h, t, y) == [k \in 1..3 |-> y[h[k]] - y[t[k]]]
LEMMA SpringsFindNearest ==
  ASSUME NEW g \in Grams, NEW p \in Springs,
         NEW h \in [1..3 -> 1..4], NEW t \in [1..3 -> 1..4],
         \A c \in Vectors : \E y \in Nodes : c = Along(h, t, y),
         \A y \in Nodes : Form(g, Along(h, t, y)) = Pull(p, y)
  PROVE  NearIsBest(g)
<1> SUFFICES ASSUME NEW w \in Nat \ {0}, NEW f \in Vectors, NEW c \in Vectors,
                    \A k \in 1..3 : 2 * Size(f[k]) <= w
             PROVE  \E e \in Neighbours : Form(g, Moved(f, w, e)) <= Form(g, Moved(f, w, c))
  BY DEF NearIsBest
<1> DEFINE D(y) == Along(h, t, y)
           limit == Form(g, Moved(f, w, c))
           Reach(y) == (\E e \in Vectors : D(y) = Moved(f, w, e)) /\ Pull(p, y) <= limit
           AtHand(y) == \E e \in Neighbours : D(y) = Moved(f, w, e)
<1>1. \A y \in Nodes : D(y) \in Vectors /\ \A k \in 1..3 : D(y)[k] = y[h[k]] - y[t[k]]
  BY DEF Along, Vectors, Nodes
<1>2. \A e \in Vectors : Moved(f, w, e) \in Vectors /\ \A k \in 1..3 : Moved(f, w, e)[k] = f[k] + w * e[k]
  BY DEF Moved, Vectors
<1>3. \A y \in Nodes : /\ Pull(p, y) \in Nat /\ Pull(Tight, y) \in Nat
                       /\ Form(g, D(y)) = Pull(p, y)
  <2>1. Tight \in Springs
    BY DEF Tight, Springs
  <2>2. \A y \in Nodes, q \in Springs : Pull(q, y) \in Nat
    <3> TAKE y \in Nodes, q \in Springs
    <3>1. \A i, j \in 1..4 : Square(y[i] - y[j]) <= Square(y[i] - y[j])
      BY DEF Square, Nodes
    <3> QED
      BY <3>1, ClosingPulls
  <2> QED
    BY <2>1, <2>2
<1>4. PICK start \in Nodes : D(start) = Moved(f, w, c)
  BY <1>2
<1>5. Reach(start) /\ limit \in Nat
  BY <1>3, <1>4
(* One that is not near can be tightened. *)
<1>6. ASSUME NEW y \in Nodes, Reach(y), ~ AtHand(y)
      PROVE  \E z \in Nodes : Reach(z) /\ Pull(Tight, z) < Pull(Tight, y)
  <2>1. PICK e \in Vectors : D(y) = Moved(f, w, e)
    BY <1>6
  <2>2. PICK k \in 1..3 : e[k] \notin -1..1
    <3>1. e \notin Neighbours
      BY <1>6, <2>1
    <3> QED
      BY <3>1 DEF Neighbours, Vectors
  <2>3. \E a, b \in 1..4 : 2 * (y[a] - y[b]) >= 3 * w
    <3>1. /\ y[h[k]] - y[t[k]] = f[k] + w * e[k] /\ e[k] \in Int /\ f[k] \in Int
          /\ y[h[k]] \in Int /\ y[t[k]] \in Int /\ 2 * Size(f[k]) <= w
      <4>1. y[h[k]] - y[t[k]] = f[k] + w * e[k]
        BY <1>1, <1>2, <2>1
      <4>2. e[k] \in Int /\ f[k] \in Int /\ y[h[k]] \in Int /\ y[t[k]] \in Int
        BY DEF Vectors, Nodes
      <4> QED
        BY <4>1, <4>2
    <3> DEFINE n == e[k]
               x == f[k]
               i == y[h[k]]
               j == y[t[k]]
               m == w * n
    <3>2. CASE n >= 2
      <4>1. m >= 2 * w /\ m \in Int
        <5>1. w * (n - 2) \in Nat /\ m = 2 * w + w * (n - 2)
          BY <3>1, <3>2
        <5> QED
          BY <3>1, <5>1
      <4> HIDE DEF n, x, i, j, m
      <4>2. 2 * (i - j) >= 3 * w
        BY <3>1, <4>1 DEF Size, n, x, i, j, m
      <4> QED
        BY <4>2 DEF i, j
    <3>3. CASE n <= -2
      <4>1. m <= -(2 * w) /\ m \in Int
        <5>1. w * (-2 - n) \in Nat /\ m = -(2 * w) - w * (-2 - n)
          BY <3>1, <3>3
        <5> QED
          BY <3>1, <5>1
      <4> HIDE DEF n, x, i, j, m
      <4>2. 2 * (j - i) >= 3 * w
        BY <3>1, <4>1 DEF Size, n, x, i, j, m
      <4> QED
        BY <4>2 DEF i, j
    <3>4. n >= 2 \/ n <= -2
      BY <2>2, <3>1
    <3> HIDE DEF n, x, i, j, m
    <3> QED
      BY <3>2, <3>3, <3>4
  <2>4. PICK a \in 1..4, b \in 1..4 : 2 * (y[a] - y[b]) >= 3 * w
    BY <2>3
  <2>5. PICK S \in SUBSET (1..4) :
          a \in S /\ b \notin S /\ \A i \in S, j \in (1..4) \ S : 2 * (y[i] - y[j]) >= w
    BY <2>4, GapExists
  <2> DEFINE z == Closed(y, w, S)
  <2>6. z \in Nodes /\ \A i, j \in 1..4 : Square(z[i] - z[j]) <= Square(y[i] - y[j])
    BY <2>5, ClosingHelps
  <2>7. Pull(Tight, z) < Pull(Tight, y)
    BY <2>4, <2>5, ClosingTightens
  <2>8. Pull(p, z) <= limit
    BY <1>3, <1>5, <1>6, <2>6, ClosingPulls
  <2>9. \E q \in Vectors : D(z) = Moved(f, w, q)
    <3> DEFINE q == [i \in 1..3 |-> e[i] - (IF h[i] \in S THEN 1 ELSE 0)
                                         + (IF t[i] \in S THEN 1 ELSE 0)]
    <3>1. q \in Vectors
      BY DEF Vectors
    <3>2. ASSUME NEW i \in 1..3 PROVE D(z)[i] = Moved(f, w, q)[i]
      <4>1. D(y)[i] = f[i] + w * e[i] /\ D(y)[i] = y[h[i]] - y[t[i]] /\ D(z)[i] = z[h[i]] - z[t[i]]
        BY <1>1, <1>2, <2>1, <2>6
      <4>2. /\ z[h[i]] = y[h[i]] - (IF h[i] \in S THEN w ELSE 0)
            /\ z[t[i]] = y[t[i]] - (IF t[i] \in S THEN w ELSE 0)
            /\ y[h[i]] \in Int /\ y[t[i]] \in Int /\ e[i] \in Int /\ f[i] \in Int
        BY DEF Closed, Nodes, Vectors
      <4>3. w * q[i] = w * e[i] - (IF h[i] \in S THEN w ELSE 0) + (IF t[i] \in S THEN w ELSE 0)
        BY <4>2
      <4>4. Moved(f, w, q)[i] = f[i] + w * q[i] /\ w * e[i] \in Int
        BY <1>2, <3>1, <4>2
      <4> DEFINE u == IF h[i] \in S THEN w ELSE 0
                 v == IF t[i] \in S THEN w ELSE 0
                 m == w * e[i]
      <4>5. u \in Int /\ v \in Int /\ m \in Int
        BY <4>4
      <4>6. /\ y[h[i]] - y[t[i]] = f[i] + m /\ D(z)[i] = (y[h[i]] - u) - (y[t[i]] - v)
            /\ Moved(f, w, q)[i] = f[i] + (m - u + v)
        BY <4>1, <4>2, <4>3, <4>4
      <4> HIDE DEF u, v, m, z, q, D
      <4> QED
        BY <4>2, <4>5, <4>6
    <3>3. D(z) \in Vectors /\ Moved(f, w, q) \in Vectors
      BY <1>1, <1>2, <2>6, <3>1
    <3> HIDE DEF z, q
    <3>4. D(z) = Moved(f, w, q)
      BY <3>2, <3>3 DEF Vectors
    <3> QED
      BY <3>1, <3>4
  <2> QED
    BY <2>6, <2>7, <2>8, <2>9
<1> HIDE DEF Reach, AtHand
<1> DEFINE P == {n \in Nat : \A y \in Nodes : Reach(y) /\ Pull(Tight, y) = n =>
                                \E z \in Nodes : Reach(z) /\ AtHand(z)}
<1>7. ASSUME NEW n \in Nat, \A k \in 0..(n - 1) : k \in P PROVE n \in P
  <2> SUFFICES ASSUME NEW y \in Nodes, Reach(y), Pull(Tight, y) = n, ~ AtHand(y)
               PROVE  \E z \in Nodes : Reach(z) /\ AtHand(z)
    OBVIOUS
  <2>1. PICK z \in Nodes : Reach(z) /\ Pull(Tight, z) < n
    BY <1>6
  <2>2. Pull(Tight, z) \in 0..(n - 1)
    BY <1>3, <2>1
  <2> QED
    BY <1>7, <2>1, <2>2
<1>8. \A n \in Nat : n \in P
  <2> HIDE DEF P
  <2> QED
    BY <1>7, Climb
<1>9. PICK z \in Nodes : Reach(z) /\ AtHand(z)
  BY <1>3, <1>5, <1>8
<1>10. PICK e \in Neighbours : D(z) = Moved(f, w, e)
  BY <1>9 DEF AtHand
<1> QED
  BY <1>3, <1>9, <1>10 DEF Reach

(* Vectors of which none gets shorter by taking another from it or adding   *)
(* another to it.  Three that meet at obtuse angles are joined to one node, *)
(* which is the sum of them turned round; of three that meet at acute ones  *)
(* the nodes are the ends of a path.                                        *)
PairsReduced(g) ==
  /\ 2 * Size(g[4]) <= g[1] /\ 2 * Size(g[4]) <= g[2] /\ 2 * Size(g[5]) <= g[1]
  /\ 2 * Size(g[5]) <= g[3] /\ 2 * Size(g[6]) <= g[2] /\ 2 * Size(g[6]) <= g[3]

LEMMA ObtuseIsNear ==
  ASSUME NEW g \in Grams, PairsReduced(g), g[4] <= 0, g[5] <= 0, g[6] <= 0
  PROVE  NearIsBest(g)
<1> DEFINE p == <<g[1] + g[4] + g[5], g[2] + g[4] + g[6], g[3] + g[5] + g[6], -g[4], -g[5], -g[6]>>
           h == <<2, 3, 4>>
           t == <<1, 1, 1>>
<1>1. g[1] \in Int /\ g[2] \in Int /\ g[3] \in Int /\ g[4] \in Int /\ g[5] \in Int /\ g[6] \in Int
  BY DEF Grams
<1>2. g[1] + g[4] + g[5] \in Nat /\ g[2] + g[4] + g[6] \in Nat /\ g[3] + g[5] + g[6] \in Nat
      /\ -g[4] \in Nat /\ -g[5] \in Nat /\ -g[6] \in Nat
  <2> DEFINE g1 == g[1]
             g2 == g[2]
             g3 == g[3]
             g4 == g[4]
             g5 == g[5]
             g6 == g[6]
  <2>1. PairsReduced(g) => /\ 2 * Size(g4) <= g1 /\ 2 * Size(g4) <= g2 /\ 2 * Size(g5) <= g1
                          /\ 2 * Size(g5) <= g3 /\ 2 * Size(g6) <= g2 /\ 2 * Size(g6) <= g3
    BY DEF PairsReduced
  <2> HIDE DEF g1, g2, g3, g4, g5, g6
  <2>2. g1 \in Int /\ g2 \in Int /\ g3 \in Int /\ g4 \in Int /\ g5 \in Int /\ g6 \in Int
    BY <1>1 DEF g1, g2, g3, g4, g5, g6
  <2>3. g4 <= 0 /\ g5 <= 0 /\ g6 <= 0
    BY DEF g4, g5, g6
  <2>4. g1 + g4 + g5 \in Nat /\ g2 + g4 + g6 \in Nat /\ g3 + g5 + g6 \in Nat
      /\ -g4 \in Nat /\ -g5 \in Nat /\ -g6 \in Nat
    BY <2>1, <2>2, <2>3 DEF Size
  <2> QED
    BY <2>4 DEF g1, g2, g3, g4, g5, g6
<1>3. p \in Springs /\ h \in [1..3 -> 1..4] /\ t \in [1..3 -> 1..4]
  <2>1. p \in Springs
    BY <1>2 DEF Springs
  <2> QED
    BY <2>1
<1>4. ASSUME NEW c \in Vectors PROVE \E y \in Nodes : c = Along(h, t, y)
  <2> DEFINE y == <<0, c[1], c[2], c[3]>>
  <2>1. c[1] \in Int /\ c[2] \in Int /\ c[3] \in Int /\ c = [k \in 1..3 |-> c[k]]
    BY VectorParts
  <2>2. y \in Nodes
    BY <2>1 DEF Nodes
  <2>3. \A k \in 1..3 : y[h[k]] - y[t[k]] = c[k]
    <3>1. \A k \in 1..3 : k = 1 \/ k = 2 \/ k = 3
      OBVIOUS
    <3> QED
      BY <2>1, <3>1
  <2>4. c = Along(h, t, y)
    BY <2>1, <2>3 DEF Along
  <2> QED
    BY <2>2, <2>4
<1>5. ASSUME NEW y \in Nodes PROVE Form(g, Along(h, t, y)) = Pull(p, y)
  <2>1. y[1] \in Int /\ y[2] \in Int /\ y[3] \in Int /\ y[4] \in Int
    BY DEF Nodes
  <2>2. /\ Along(h, t, y)[1] = y[2] - y[1] /\ Along(h, t, y)[2] = y[3] - y[1]
        /\ Along(h, t, y)[3] = y[4] - y[1]
    BY DEF Along
  <2> DEFINE a == y[2] - y[1]
             b == y[3] - y[1]
             c == y[4] - y[1]
             g1 == g[1]
             g2 == g[2]
             g3 == g[3]
             g4 == g[4]
             g5 == g[5]
             g6 == g[6]
  <2>3. /\ Form(g, Along(h, t, y)) =
             g1 * (a * a) + g2 * (b * b) + g3 * (c * c)
               + 2 * (g4 * (a * b)) + 2 * (g5 * (a * c)) + 2 * (g6 * (b * c))
        /\ Pull(p, y) = 
             (g1 + g4 + g5) * Square(a) + (g2 + g4 + g6) * Square(b) + (g3 + g5 + g6) * Square(c)
               + (-g4) * Square(b - a) + (-g5) * Square(c - a) + (-g6) * Square(c - b)
    <3>1. Form(g, Along(h, t, y)) =
             g1 * (a * a) + g2 * (b * b) + g3 * (c * c)
               + 2 * (g4 * (a * b)) + 2 * (g5 * (a * c)) + 2 * (g6 * (b * c))
      BY <2>2 DEF Form
    <3>2. y[3] - y[2] = b - a /\ y[4] - y[2] = c - a /\ y[4] - y[3] = c - b
      BY <2>1
    <3>3. Pull(p, y) = 
             (g1 + g4 + g5) * Square(a) + (g2 + g4 + g6) * Square(b) + (g3 + g5 + g6) * Square(c)
               + (-g4) * Square(b - a) + (-g5) * Square(c - a) + (-g6) * Square(c - b)
      BY <3>2 DEF Pull
    <3> QED
      BY <3>1, <3>3
  <2>4. /\ a \in Int /\ b \in Int /\ c \in Int
        /\ g1 \in Int /\ g2 \in Int /\ g3 \in Int /\ g4 \in Int /\ g5 \in Int /\ g6 \in Int
    BY <1>1, <2>1
  <2> HIDE DEF a, b, c, g1, g2, g3, g4, g5, g6
  <2> QED
    BY <2>3, <2>4 DEF Square
<1> HIDE DEF p, h, t
<1> QED
  BY <1>3, <1>4, <1>5, SpringsFindNearest

LEMMA AcuteIsNear ==
  ASSUME NEW g \in Grams, PairsReduced(g), 0 <= g[5], g[5] <= g[4], g[5] <= g[6]
  PROVE  NearIsBest(g)
<1> DEFINE p == <<g[1] - g[4], g[4] - g[5], g[5], g[2] - g[4] - g[6] + g[5], g[6] - g[5], g[3] - g[6]>>
           h == <<2, 3, 4>>
           t == <<1, 2, 3>>
<1>1. g[1] \in Int /\ g[2] \in Int /\ g[3] \in Int /\ g[4] \in Int /\ g[5] \in Int /\ g[6] \in Int
  BY DEF Grams
<1>2. g[1] - g[4] \in Nat /\ g[4] - g[5] \in Nat /\ g[5] \in Nat
      /\ g[2] - g[4] - g[6] + g[5] \in Nat /\ g[6] - g[5] \in Nat /\ g[3] - g[6] \in Nat
  <2> DEFINE g1 == g[1]
             g2 == g[2]
             g3 == g[3]
             g4 == g[4]
             g5 == g[5]
             g6 == g[6]
  <2>1. PairsReduced(g) => /\ 2 * Size(g4) <= g1 /\ 2 * Size(g4) <= g2 /\ 2 * Size(g5) <= g1
                          /\ 2 * Size(g5) <= g3 /\ 2 * Size(g6) <= g2 /\ 2 * Size(g6) <= g3
    BY DEF PairsReduced
  <2> HIDE DEF g1, g2, g3, g4, g5, g6
  <2>2. g1 \in Int /\ g2 \in Int /\ g3 \in Int /\ g4 \in Int /\ g5 \in Int /\ g6 \in Int
    BY <1>1 DEF g1, g2, g3, g4, g5, g6
  <2>3. 0 <= g5 /\ g5 <= g4 /\ g5 <= g6
    BY DEF g4, g5, g6
  <2>4. g1 - g4 \in Nat /\ g4 - g5 \in Nat /\ g5 \in Nat
      /\ g2 - g4 - g6 + g5 \in Nat /\ g6 - g5 \in Nat /\ g3 - g6 \in Nat
    BY <2>1, <2>2, <2>3 DEF Size
  <2> QED
    BY <2>4 DEF g1, g2, g3, g4, g5, g6
<1>3. p \in Springs /\ h \in [1..3 -> 1..4] /\ t \in [1..3 -> 1..4]
  <2>1. p \in Springs
    BY <1>2 DEF Springs
  <2> QED
    BY <2>1
<1>4. ASSUME NEW c \in Vectors PROVE \E y \in Nodes : c = Along(h, t, y)
  <2> DEFINE y == <<0, c[1], c[1] + c[2], c[1] + c[2] + c[3]>>
  <2>1. c[1] \in Int /\ c[2] \in Int /\ c[3] \in Int /\ c = [k \in 1..3 |-> c[k]]
    BY VectorParts
  <2>2. y \in Nodes
    BY <2>1 DEF Nodes
  <2>3. \A k \in 1..3 : y[h[k]] - y[t[k]] = c[k]
    <3>1. \A k \in 1..3 : k = 1 \/ k = 2 \/ k = 3
      OBVIOUS
    <3> QED
      BY <2>1, <3>1
  <2>4. c = Along(h, t, y)
    BY <2>1, <2>3 DEF Along
  <2> QED
    BY <2>2, <2>4
<1>5. ASSUME NEW y \in Nodes PROVE Form(g, Along(h, t, y)) = Pull(p, y)
  <2>1. y[1] \in Int /\ y[2] \in Int /\ y[3] \in Int /\ y[4] \in Int
    BY DEF Nodes
  <2>2. /\ Along(h, t, y)[1] = y[2] - y[1] /\ Along(h, t, y)[2] = y[3] - y[2]
        /\ Along(h, t, y)[3] = y[4] - y[3]
    BY DEF Along
  <2> DEFINE a == y[2] - y[1]
             b == y[3] - y[2]
             c == y[4] - y[3]
             g1 == g[1]
             g2 == g[2]
             g3 == g[3]
             g4 == g[4]
             g5 == g[5]
             g6 == g[6]
  <2>3. /\ Form(g, Along(h, t, y)) =
             g1 * (a * a) + g2 * (b * b) + g3 * (c * c)
               + 2 * (g4 * (a * b)) + 2 * (g5 * (a * c)) + 2 * (g6 * (b * c))
        /\ Pull(p, y) = 
             (g1 - g4) * Square(a) + (g4 - g5) * Square(a + b) + (g5) * Square(a + b + c)
               + (g2 - g4 - g6 + g5) * Square(b) + (g6 - g5) * Square(b + c) + (g3 - g6) * Square(c)
    <3>1. Form(g, Along(h, t, y)) =
             g1 * (a * a) + g2 * (b * b) + g3 * (c * c)
               + 2 * (g4 * (a * b)) + 2 * (g5 * (a * c)) + 2 * (g6 * (b * c))
      BY <2>2 DEF Form
    <3>2. y[3] - y[1] = a + b /\ y[4] - y[1] = a + b + c /\ y[4] - y[2] = b + c
      BY <2>1
    <3>3. Pull(p, y) = 
             (g1 - g4) * Square(a) + (g4 - g5) * Square(a + b) + (g5) * Square(a + b + c)
               + (g2 - g4 - g6 + g5) * Square(b) + (g6 - g5) * Square(b + c) + (g3 - g6) * Square(c)
      BY <3>2 DEF Pull
    <3> QED
      BY <3>1, <3>3
  <2>4. /\ a \in Int /\ b \in Int /\ c \in Int
        /\ g1 \in Int /\ g2 \in Int /\ g3 \in Int /\ g4 \in Int /\ g5 \in Int /\ g6 \in Int
    BY <1>1, <2>1
  <2> HIDE DEF a, b, c, g1, g2, g3, g4, g5, g6
  <2> QED
    BY <2>3, <2>4 DEF Square
<1> HIDE DEF p, h, t
<1> QED
  BY <1>3, <1>4, <1>5, SpringsFindNearest


(* Turning a vector round, or taking two in the other order, changes        *)
(* nothing of this.                                                         *)
Turned(s, q, y) == [k \in 1..3 |-> s[k] * y[q[k]]]
LEMMA TurnedIsNear ==
  ASSUME NEW g, NEW h, NEW s \in [1..3 -> {1, -1}], NEW q \in [1..3 -> 1..3],
         \A k \in 1..3 : q[q[k]] = k /\ s[q[k]] = s[k],
         \A y \in Vectors : Form(h, Turned(s, q, y)) = Form(g, y),
         NearIsBest(h)
  PROVE  NearIsBest(g)
<1> SUFFICES ASSUME NEW w \in Nat \ {0}, NEW f \in Vectors, NEW c \in Vectors,
                    \A k \in 1..3 : 2 * Size(f[k]) <= w
             PROVE  \E e \in Neighbours : Form(g, Moved(f, w, e)) <= Form(g, Moved(f, w, c))
  BY DEF NearIsBest
<1> DEFINE T(y) == Turned(s, q, y)
<1>1. ASSUME NEW y \in Vectors PROVE T(y) \in Vectors /\ \A k \in 1..3 : T(y)[k] = s[k] * y[q[k]]
  BY DEF Turned, Vectors
<1>2. ASSUME NEW y \in Vectors PROVE Moved(f, w, y) \in Vectors /\ Moved(T(f), w, T(y)) = T(Moved(f, w, y))
  <2>1. Moved(f, w, y) \in Vectors /\ \A k \in 1..3 : Moved(f, w, y)[k] = f[k] + w * y[k]
    BY DEF Moved, Vectors
  <2>2. ASSUME NEW k \in 1..3
        PROVE  T(f)[k] + w * T(y)[k] = s[k] * Moved(f, w, y)[q[k]]
    <3> DEFINE a == f[q[k]]
               b == y[q[k]]
    <3>1. a \in Int /\ b \in Int /\ (s[k] = 1 \/ s[k] = -1)
      BY DEF Vectors
    <3>2. /\ T(f)[k] = s[k] * a /\ T(y)[k] = s[k] * b
          /\ Moved(f, w, y)[q[k]] = a + w * b
      BY <1>1, <2>1
    <3> HIDE DEF a, b, T
    <3>3. CASE s[k] = 1
      BY <3>1, <3>2, <3>3
    <3>4. CASE s[k] = -1
      <4>1. T(f)[k] = -a /\ T(y)[k] = -b /\ s[k] * Moved(f, w, y)[q[k]] = -(a + w * b)
        BY <3>1, <3>2, <3>4
      <4>2. w * (-b) = -(w * b) /\ w * b \in Int
        BY <3>1
      <4> QED
        BY <3>1, <4>1, <4>2
    <3> QED
      BY <3>1, <3>3, <3>4
  <2> QED
    BY <2>1, <2>2 DEF Moved, Turned
<1>3. ASSUME NEW y \in Vectors PROVE T(T(y)) = y
  <2>1. T(y) \in Vectors /\ T(T(y)) \in Vectors
    BY <1>1
  <2>2. ASSUME NEW k \in 1..3 PROVE T(T(y))[k] = y[k]
    <3>1. q[k] \in 1..3 /\ y[k] \in Int /\ (s[k] = 1 \/ s[k] = -1)
      BY DEF Vectors
    <3>2. T(T(y))[k] = s[k] * T(y)[q[k]] /\ T(y)[q[k]] = s[q[k]] * y[q[q[k]]]
      BY <1>1, <2>1, <3>1
    <3> HIDE DEF T
    <3>3. T(T(y))[k] = s[k] * (s[k] * y[k])
      BY <3>2
    <3> QED
      BY <3>1, <3>3
  <2> HIDE DEF T
  <2> QED
    BY <2>1, <2>2 DEF Vectors
<1>4. \A k \in 1..3 : 2 * Size(T(f)[k]) <= w
  <2> TAKE k \in 1..3
  <2>1. f[q[k]] \in Int /\ 2 * Size(f[q[k]]) <= w /\ T(f)[k] = s[k] * f[q[k]] /\ (s[k] = 1 \/ s[k] = -1)
    BY <1>1 DEF Vectors
  <2> HIDE DEF T
  <2> QED
    BY <2>1 DEF Size
<1>5. PICK e \in Neighbours : Form(h, Moved(T(f), w, e)) <= Form(h, Moved(T(f), w, T(c)))
  BY <1>1, <1>4 DEF NearIsBest
<1>6. e \in Vectors /\ T(e) \in Neighbours /\ T(e) \in Vectors
  <2>1. \A k \in 1..3 : e[k] \in -1..1 /\ (s[k] = 1 \/ s[k] = -1) /\ e[q[k]] \in -1..1
    BY DEF Neighbours
  <2>2. \A k \in 1..3 : s[k] * e[q[k]] \in -1..1
    BY <2>1
  <2>3. e \in Vectors
    BY DEF Neighbours, Vectors
  <2> QED
    BY <1>1, <2>2, <2>3 DEF Turned, Neighbours
<1> HIDE DEF T
<1>7. Form(h, Moved(T(f), w, e)) = Form(g, Moved(f, w, T(e)))
  <2>1. Moved(T(f), w, T(T(e))) = T(Moved(f, w, T(e))) /\ Moved(f, w, T(e)) \in Vectors
    BY <1>2, <1>6
  <2> QED
    BY <1>3, <1>6, <2>1 DEF T
<1>8. Form(h, Moved(T(f), w, T(c))) = Form(g, Moved(f, w, c))
  BY <1>2 DEF T
<1> QED
  BY <1>5, <1>6, <1>7, <1>8

LEMMA FirstTurned ==
  ASSUME NEW g \in Grams, NearIsBest(<<g[1], g[2], g[3], -g[4], -g[5], g[6]>>)
  PROVE  NearIsBest(g)
<1> DEFINE h == <<g[1], g[2], g[3], -g[4], -g[5], g[6]>>
           s == <<-1, 1, 1>>
           q == <<1, 2, 3>>
<1>1. s \in [1..3 -> {1, -1}] /\ q \in [1..3 -> 1..3] /\ \A k \in 1..3 : q[q[k]] = k /\ s[q[k]] = s[k]
  BY DEF Grams
<1>2. ASSUME NEW y \in Vectors PROVE Form(h, Turned(s, q, y)) = Form(g, y)
  <2>1. y[1] \in Int /\ y[2] \in Int /\ y[3] \in Int
    BY VectorParts
  <2>2. g[1] \in Int /\ g[2] \in Int /\ g[3] \in Int /\ g[4] \in Int /\ g[5] \in Int /\ g[6] \in Int
    BY DEF Grams
  <2>3. Turned(s, q, y)[1] = -y[1] /\ Turned(s, q, y)[2] = y[2] /\ Turned(s, q, y)[3] = y[3]
    BY <2>1 DEF Turned
  <2> DEFINE y1 == y[1]
             y2 == y[2]
             y3 == y[3]
  <2>4. /\ (-y1) * (-y1) = y1 * y1 /\ (-y2) * (-y2) = y2 * y2 /\ (-y3) * (-y3) = y3 * y3
        /\ (-y1) * y2 = -(y1 * y2) /\ y1 * (-y2) = -(y1 * y2) /\ (-y1) * y3 = -(y1 * y3)
        /\ y1 * (-y3) = -(y1 * y3) /\ (-y2) * y3 = -(y2 * y3) /\ y2 * (-y3) = -(y2 * y3)
        /\ y2 * y1 = y1 * y2 /\ y3 * y2 = y2 * y3 /\ y3 * y1 = y1 * y3
        /\ y1 * y2 \in Int /\ y1 * y3 \in Int /\ y2 * y3 \in Int
    BY <2>1
  <2>5. \A n, m \in Int : (-n) * (-m) = n * m
    OBVIOUS
  <2>6. /\ (-g[4]) * (-(y1 * y2)) = g[4] * (y1 * y2) /\ (-g[5]) * (-(y1 * y3)) = g[5] * (y1 * y3)
        /\ (-g[6]) * (-(y2 * y3)) = g[6] * (y2 * y3)
    BY <2>2, <2>4, <2>5
  <2>7. /\ h[1] = g[1] /\ h[2] = g[2] /\ h[3] = g[3]
        /\ h[4] = -g[4] /\ h[5] = -g[5] /\ h[6] = g[6]
    OBVIOUS
  <2>8. /\ g[1] * (y1 * y1) \in Int /\ g[2] * (y2 * y2) \in Int /\ g[3] * (y3 * y3) \in Int
        /\ g[4] * (y1 * y2) \in Int /\ g[5] * (y1 * y3) \in Int /\ g[6] * (y2 * y3) \in Int
    BY <2>1, <2>2
  <2> HIDE DEF h, s, q
  <2> QED
    BY <2>3, <2>4, <2>6, <2>7, <2>8 DEF Form
<1> HIDE DEF s, q
<1> QED
  BY <1>1, <1>2, TurnedIsNear

LEMMA SecondTurned ==
  ASSUME NEW g \in Grams, NearIsBest(<<g[1], g[2], g[3], -g[4], g[5], -g[6]>>)
  PROVE  NearIsBest(g)
<1> DEFINE h == <<g[1], g[2], g[3], -g[4], g[5], -g[6]>>
           s == <<1, -1, 1>>
           q == <<1, 2, 3>>
<1>1. s \in [1..3 -> {1, -1}] /\ q \in [1..3 -> 1..3] /\ \A k \in 1..3 : q[q[k]] = k /\ s[q[k]] = s[k]
  BY DEF Grams
<1>2. ASSUME NEW y \in Vectors PROVE Form(h, Turned(s, q, y)) = Form(g, y)
  <2>1. y[1] \in Int /\ y[2] \in Int /\ y[3] \in Int
    BY VectorParts
  <2>2. g[1] \in Int /\ g[2] \in Int /\ g[3] \in Int /\ g[4] \in Int /\ g[5] \in Int /\ g[6] \in Int
    BY DEF Grams
  <2>3. Turned(s, q, y)[1] = y[1] /\ Turned(s, q, y)[2] = -y[2] /\ Turned(s, q, y)[3] = y[3]
    BY <2>1 DEF Turned
  <2> DEFINE y1 == y[1]
             y2 == y[2]
             y3 == y[3]
  <2>4. /\ (-y1) * (-y1) = y1 * y1 /\ (-y2) * (-y2) = y2 * y2 /\ (-y3) * (-y3) = y3 * y3
        /\ (-y1) * y2 = -(y1 * y2) /\ y1 * (-y2) = -(y1 * y2) /\ (-y1) * y3 = -(y1 * y3)
        /\ y1 * (-y3) = -(y1 * y3) /\ (-y2) * y3 = -(y2 * y3) /\ y2 * (-y3) = -(y2 * y3)
        /\ y2 * y1 = y1 * y2 /\ y3 * y2 = y2 * y3 /\ y3 * y1 = y1 * y3
        /\ y1 * y2 \in Int /\ y1 * y3 \in Int /\ y2 * y3 \in Int
    BY <2>1
  <2>5. \A n, m \in Int : (-n) * (-m) = n * m
    OBVIOUS
  <2>6. /\ (-g[4]) * (-(y1 * y2)) = g[4] * (y1 * y2) /\ (-g[5]) * (-(y1 * y3)) = g[5] * (y1 * y3)
        /\ (-g[6]) * (-(y2 * y3)) = g[6] * (y2 * y3)
    BY <2>2, <2>4, <2>5
  <2>7. /\ h[1] = g[1] /\ h[2] = g[2] /\ h[3] = g[3]
        /\ h[4] = -g[4] /\ h[5] = g[5] /\ h[6] = -g[6]
    OBVIOUS
  <2>8. /\ g[1] * (y1 * y1) \in Int /\ g[2] * (y2 * y2) \in Int /\ g[3] * (y3 * y3) \in Int
        /\ g[4] * (y1 * y2) \in Int /\ g[5] * (y1 * y3) \in Int /\ g[6] * (y2 * y3) \in Int
    BY <2>1, <2>2
  <2> HIDE DEF h, s, q
  <2> QED
    BY <2>3, <2>4, <2>6, <2>7, <2>8 DEF Form
<1> HIDE DEF s, q
<1> QED
  BY <1>1, <1>2, TurnedIsNear

LEMMA ThirdTurned ==
  ASSUME NEW g \in Grams, NearIsBest(<<g[1], g[2], g[3], g[4], -g[5], -g[6]>>)
  PROVE  NearIsBest(g)
<1> DEFINE h == <<g[1], g[2], g[3], g[4], -g[5], -g[6]>>
           s == <<1, 1, -1>>
           q == <<1, 2, 3>>
<1>1. s \in [1..3 -> {1, -1}] /\ q \in [1..3 -> 1..3] /\ \A k \in 1..3 : q[q[k]] = k /\ s[q[k]] = s[k]
  BY DEF Grams
<1>2. ASSUME NEW y \in Vectors PROVE Form(h, Turned(s, q, y)) = Form(g, y)
  <2>1. y[1] \in Int /\ y[2] \in Int /\ y[3] \in Int
    BY VectorParts
  <2>2. g[1] \in Int /\ g[2] \in Int /\ g[3] \in Int /\ g[4] \in Int /\ g[5] \in Int /\ g[6] \in Int
    BY DEF Grams
  <2>3. Turned(s, q, y)[1] = y[1] /\ Turned(s, q, y)[2] = y[2] /\ Turned(s, q, y)[3] = -y[3]
    BY <2>1 DEF Turned
  <2> DEFINE y1 == y[1]
             y2 == y[2]
             y3 == y[3]
  <2>4. /\ (-y1) * (-y1) = y1 * y1 /\ (-y2) * (-y2) = y2 * y2 /\ (-y3) * (-y3) = y3 * y3
        /\ (-y1) * y2 = -(y1 * y2) /\ y1 * (-y2) = -(y1 * y2) /\ (-y1) * y3 = -(y1 * y3)
        /\ y1 * (-y3) = -(y1 * y3) /\ (-y2) * y3 = -(y2 * y3) /\ y2 * (-y3) = -(y2 * y3)
        /\ y2 * y1 = y1 * y2 /\ y3 * y2 = y2 * y3 /\ y3 * y1 = y1 * y3
        /\ y1 * y2 \in Int /\ y1 * y3 \in Int /\ y2 * y3 \in Int
    BY <2>1
  <2>5. \A n, m \in Int : (-n) * (-m) = n * m
    OBVIOUS
  <2>6. /\ (-g[4]) * (-(y1 * y2)) = g[4] * (y1 * y2) /\ (-g[5]) * (-(y1 * y3)) = g[5] * (y1 * y3)
        /\ (-g[6]) * (-(y2 * y3)) = g[6] * (y2 * y3)
    BY <2>2, <2>4, <2>5
  <2>7. /\ h[1] = g[1] /\ h[2] = g[2] /\ h[3] = g[3]
        /\ h[4] = g[4] /\ h[5] = -g[5] /\ h[6] = -g[6]
    OBVIOUS
  <2>8. /\ g[1] * (y1 * y1) \in Int /\ g[2] * (y2 * y2) \in Int /\ g[3] * (y3 * y3) \in Int
        /\ g[4] * (y1 * y2) \in Int /\ g[5] * (y1 * y3) \in Int /\ g[6] * (y2 * y3) \in Int
    BY <2>1, <2>2
  <2> HIDE DEF h, s, q
  <2> QED
    BY <2>3, <2>4, <2>6, <2>7, <2>8 DEF Form
<1> HIDE DEF s, q
<1> QED
  BY <1>1, <1>2, TurnedIsNear

LEMMA FirstSwapped ==
  ASSUME NEW g \in Grams, NearIsBest(<<g[2], g[1], g[3], g[4], g[6], g[5]>>)
  PROVE  NearIsBest(g)
<1> DEFINE h == <<g[2], g[1], g[3], g[4], g[6], g[5]>>
           s == <<1, 1, 1>>
           q == <<2, 1, 3>>
<1>1. s \in [1..3 -> {1, -1}] /\ q \in [1..3 -> 1..3] /\ \A k \in 1..3 : q[q[k]] = k /\ s[q[k]] = s[k]
  BY DEF Grams
<1>2. ASSUME NEW y \in Vectors PROVE Form(h, Turned(s, q, y)) = Form(g, y)
  <2>1. y[1] \in Int /\ y[2] \in Int /\ y[3] \in Int
    BY VectorParts
  <2>2. g[1] \in Int /\ g[2] \in Int /\ g[3] \in Int /\ g[4] \in Int /\ g[5] \in Int /\ g[6] \in Int
    BY DEF Grams
  <2>3. Turned(s, q, y)[1] = y[2] /\ Turned(s, q, y)[2] = y[1] /\ Turned(s, q, y)[3] = y[3]
    BY <2>1 DEF Turned
  <2> DEFINE y1 == y[1]
             y2 == y[2]
             y3 == y[3]
  <2>4. /\ (-y1) * (-y1) = y1 * y1 /\ (-y2) * (-y2) = y2 * y2 /\ (-y3) * (-y3) = y3 * y3
        /\ (-y1) * y2 = -(y1 * y2) /\ y1 * (-y2) = -(y1 * y2) /\ (-y1) * y3 = -(y1 * y3)
        /\ y1 * (-y3) = -(y1 * y3) /\ (-y2) * y3 = -(y2 * y3) /\ y2 * (-y3) = -(y2 * y3)
        /\ y2 * y1 = y1 * y2 /\ y3 * y2 = y2 * y3 /\ y3 * y1 = y1 * y3
        /\ y1 * y2 \in Int /\ y1 * y3 \in Int /\ y2 * y3 \in Int
    BY <2>1
  <2>5. \A n, m \in Int : (-n) * (-m) = n * m
    OBVIOUS
  <2>6. /\ (-g[4]) * (-(y1 * y2)) = g[4] * (y1 * y2) /\ (-g[5]) * (-(y1 * y3)) = g[5] * (y1 * y3)
        /\ (-g[6]) * (-(y2 * y3)) = g[6] * (y2 * y3)
    BY <2>2, <2>4, <2>5
  <2>7. /\ h[1] = g[2] /\ h[2] = g[1] /\ h[3] = g[3]
        /\ h[4] = g[4] /\ h[5] = g[6] /\ h[6] = g[5]
    OBVIOUS
  <2>8. /\ g[1] * (y1 * y1) \in Int /\ g[2] * (y2 * y2) \in Int /\ g[3] * (y3 * y3) \in Int
        /\ g[4] * (y1 * y2) \in Int /\ g[5] * (y1 * y3) \in Int /\ g[6] * (y2 * y3) \in Int
    BY <2>1, <2>2
  <2> HIDE DEF h, s, q
  <2> QED
    BY <2>3, <2>4, <2>6, <2>7, <2>8 DEF Form
<1> HIDE DEF s, q
<1> QED
  BY <1>1, <1>2, TurnedIsNear

LEMMA LastSwapped ==
  ASSUME NEW g \in Grams, NearIsBest(<<g[1], g[3], g[2], g[5], g[4], g[6]>>)
  PROVE  NearIsBest(g)
<1> DEFINE h == <<g[1], g[3], g[2], g[5], g[4], g[6]>>
           s == <<1, 1, 1>>
           q == <<1, 3, 2>>
<1>1. s \in [1..3 -> {1, -1}] /\ q \in [1..3 -> 1..3] /\ \A k \in 1..3 : q[q[k]] = k /\ s[q[k]] = s[k]
  BY DEF Grams
<1>2. ASSUME NEW y \in Vectors PROVE Form(h, Turned(s, q, y)) = Form(g, y)
  <2>1. y[1] \in Int /\ y[2] \in Int /\ y[3] \in Int
    BY VectorParts
  <2>2. g[1] \in Int /\ g[2] \in Int /\ g[3] \in Int /\ g[4] \in Int /\ g[5] \in Int /\ g[6] \in Int
    BY DEF Grams
  <2>3. Turned(s, q, y)[1] = y[1] /\ Turned(s, q, y)[2] = y[3] /\ Turned(s, q, y)[3] = y[2]
    BY <2>1 DEF Turned
  <2> DEFINE y1 == y[1]
             y2 == y[2]
             y3 == y[3]
  <2>4. /\ (-y1) * (-y1) = y1 * y1 /\ (-y2) * (-y2) = y2 * y2 /\ (-y3) * (-y3) = y3 * y3
        /\ (-y1) * y2 = -(y1 * y2) /\ y1 * (-y2) = -(y1 * y2) /\ (-y1) * y3 = -(y1 * y3)
        /\ y1 * (-y3) = -(y1 * y3) /\ (-y2) * y3 = -(y2 * y3) /\ y2 * (-y3) = -(y2 * y3)
        /\ y2 * y1 = y1 * y2 /\ y3 * y2 = y2 * y3 /\ y3 * y1 = y1 * y3
        /\ y1 * y2 \in Int /\ y1 * y3 \in Int /\ y2 * y3 \in Int
    BY <2>1
  <2>5. \A n, m \in Int : (-n) * (-m) = n * m
    OBVIOUS
  <2>6. /\ (-g[4]) * (-(y1 * y2)) = g[4] * (y1 * y2) /\ (-g[5]) * (-(y1 * y3)) = g[5] * (y1 * y3)
        /\ (-g[6]) * (-(y2 * y3)) = g[6] * (y2 * y3)
    BY <2>2, <2>4, <2>5
  <2>7. /\ h[1] = g[1] /\ h[2] = g[3] /\ h[3] = g[2]
        /\ h[4] = g[5] /\ h[5] = g[4] /\ h[6] = g[6]
    OBVIOUS
  <2>8. /\ g[1] * (y1 * y1) \in Int /\ g[2] * (y2 * y2) \in Int /\ g[3] * (y3 * y3) \in Int
        /\ g[4] * (y1 * y2) \in Int /\ g[5] * (y1 * y3) \in Int /\ g[6] * (y2 * y3) \in Int
    BY <2>1, <2>2
  <2> HIDE DEF h, s, q
  <2> QED
    BY <2>3, <2>4, <2>6, <2>7, <2>8 DEF Form
<1> HIDE DEF s, q
<1> QED
  BY <1>1, <1>2, TurnedIsNear

(* Reduced pair by pair is enough: one more cell in each direction.         *)
LEMMA ReducedIsNear ==
  ASSUME NEW g \in Grams, PairsReduced(g)
  PROVE  NearIsBest(g)
<1>1. ASSUME NEW k \in Grams, PairsReduced(k), 0 <= k[4], 0 <= k[5], 0 <= k[6] PROVE NearIsBest(k)
  <2>1. k[1] \in Int /\ k[2] \in Int /\ k[3] \in Int /\ k[4] \in Int /\ k[5] \in Int /\ k[6] \in Int
    BY DEF Grams
  <2>2. CASE k[5] <= k[4] /\ k[5] <= k[6]
    BY <1>1, <2>2, AcuteIsNear
  <2>3. CASE k[4] <= k[5] /\ k[4] <= k[6]
    <3> DEFINE m == <<k[1], k[3], k[2], k[5], k[4], k[6]>>
    <3>1. m \in Grams /\ PairsReduced(m) /\ 0 <= m[5] /\ m[5] <= m[4] /\ m[5] <= m[6]
      BY <1>1, <2>1, <2>3 DEF Grams, PairsReduced
    <3> HIDE DEF m
    <3>2. NearIsBest(m)
      BY <3>1, AcuteIsNear
    <3> QED
      BY <3>2, LastSwapped DEF m
  <2>4. CASE k[6] <= k[4] /\ k[6] <= k[5]
    <3> DEFINE m == <<k[2], k[1], k[3], k[4], k[6], k[5]>>
    <3>1. m \in Grams /\ PairsReduced(m) /\ 0 <= m[5] /\ m[5] <= m[4] /\ m[5] <= m[6]
      BY <1>1, <2>1, <2>4 DEF Grams, PairsReduced
    <3> HIDE DEF m
    <3>2. NearIsBest(m)
      BY <3>1, AcuteIsNear
    <3> QED
      BY <3>2, FirstSwapped DEF m
  <2> QED
    BY <2>1, <2>2, <2>3, <2>4
<1>2. ASSUME NEW k \in Grams, PairsReduced(k),
             \/ k[4] <= 0 /\ k[5] <= 0 /\ k[6] <= 0
             \/ 0 <= k[4] /\ 0 <= k[5] /\ 0 <= k[6]
      PROVE  NearIsBest(k)
  BY <1>1, <1>2, ObtuseIsNear
<1>3. g[1] \in Int /\ g[2] \in Int /\ g[3] \in Int /\ g[4] \in Int /\ g[5] \in Int /\ g[6] \in Int
  BY DEF Grams
<1>4. \A n \in Int : Size(-n) = Size(n) /\ -n \in Int
  BY DEF Size
<1>5. CASE (g[4] <= 0 <=> g[5] <= 0) /\ (g[4] <= 0 <=> g[6] <= 0)
  BY <1>2, <1>3, <1>5
<1>6. CASE (g[4] <= 0 <=> g[5] <= 0) /\ ~ (g[4] <= 0 <=> g[6] <= 0)
  <2> DEFINE m == <<g[1], g[2], g[3], -g[4], -g[5], g[6]>>
  <2>1. /\ m \in Grams /\ PairsReduced(m)
        /\ \/ m[4] <= 0 /\ m[5] <= 0 /\ m[6] <= 0
           \/ 0 <= m[4] /\ 0 <= m[5] /\ 0 <= m[6]
    BY <1>3, <1>4, <1>6 DEF Grams, PairsReduced
  <2> HIDE DEF m
  <2>2. NearIsBest(m)
    BY <1>2, <2>1
  <2> QED
    BY <2>2, FirstTurned DEF m
<1>7. CASE (g[4] <= 0 <=> g[6] <= 0) /\ ~ (g[4] <= 0 <=> g[5] <= 0)
  <2> DEFINE m == <<g[1], g[2], g[3], -g[4], g[5], -g[6]>>
  <2>1. /\ m \in Grams /\ PairsReduced(m)
        /\ \/ m[4] <= 0 /\ m[5] <= 0 /\ m[6] <= 0
           \/ 0 <= m[4] /\ 0 <= m[5] /\ 0 <= m[6]
    BY <1>3, <1>4, <1>7 DEF Grams, PairsReduced
  <2> HIDE DEF m
  <2>2. NearIsBest(m)
    BY <1>2, <2>1
  <2> QED
    BY <2>2, SecondTurned DEF m
<1>8. CASE (g[5] <= 0 <=> g[6] <= 0) /\ ~ (g[4] <= 0 <=> g[5] <= 0)
  <2> DEFINE m == <<g[1], g[2], g[3], g[4], -g[5], -g[6]>>
  <2>1. /\ m \in Grams /\ PairsReduced(m)
        /\ \/ m[4] <= 0 /\ m[5] <= 0 /\ m[6] <= 0
           \/ 0 <= m[4] /\ 0 <= m[5] /\ 0 <= m[6]
    BY <1>3, <1>4, <1>8 DEF Grams, PairsReduced
  <2> HIDE DEF m
  <2>2. NearIsBest(m)
    BY <1>2, <2>1
  <2> QED
    BY <2>2, ThirdTurned DEF m
<1> QED
  BY <1>5, <1>6, <1>7, <1>8

-----------------------------------------------------------------------------
(* The search of cells, with the products of the basis.                     *)
Gram(b) ==
  <<Norm2(b[1]), Norm2(b[2]), Norm2(b[3]), Dot(b[1], b[2]), Dot(b[1], b[3]), Dot(b[2], b[3])>>

LEMMA GramShape ==
  ASSUME NEW b \in [1..3 -> Vectors]
  PROVE  Gram(b) \in Grams
<1>1. b[1] \in Vectors /\ b[2] \in Vectors /\ b[3] \in Vectors
  OBVIOUS
<1>2. \A u, v \in Vectors : Dot(u, v) \in Int /\ Norm2(u) \in Int
  <2> TAKE u, v \in Vectors
  <2>1. u[1] \in Int /\ u[2] \in Int /\ u[3] \in Int /\ v[1] \in Int /\ v[2] \in Int /\ v[3] \in Int
    BY VectorParts
  <2> QED
    BY <2>1 DEF Dot, Norm2
<1> QED
  BY <1>1, <1>2 DEF Gram, Grams

LEMMA CombineLength ==
  ASSUME NEW b \in [1..3 -> Vectors], NEW y \in Vectors
  PROVE  Norm2(Combine(b, y)) = Form(Gram(b), y)
<1>1. b[1] \in Vectors /\ b[2] \in Vectors /\ b[3] \in Vectors
  OBVIOUS
<1> DEFINE x == Combine(b, y)
           u == b[1]
           v == b[2]
           w == b[3]
           p == y[1]
           q == y[2]
           r == y[3]
<1>2. /\ x[1] = p * u[1] + q * v[1] + r * w[1]
      /\ x[2] = p * u[2] + q * v[2] + r * w[2]
      /\ x[3] = p * u[3] + q * v[3] + r * w[3]
  BY CombineShape
<1>3. Form(Gram(b), y) =
        Norm2(u) * (p * p) + Norm2(v) * (q * q) + Norm2(w) * (r * r)
          + 2 * (Dot(u, v) * (p * q)) + 2 * (Dot(u, w) * (p * r)) + 2 * (Dot(v, w) * (q * r))
  BY DEF Gram, Form
<1>4. Norm2(x) = x[1] * x[1] + x[2] * x[2] + x[3] * x[3]
  BY DEF Norm2, Dot
<1>5. /\ u[1] \in Int /\ u[2] \in Int /\ u[3] \in Int
      /\ v[1] \in Int /\ v[2] \in Int /\ v[3] \in Int
      /\ w[1] \in Int /\ w[2] \in Int /\ w[3] \in Int
      /\ p \in Int /\ q \in Int /\ r \in Int
  BY <1>1, VectorParts
<1> HIDE DEF x, u, v, w, p, q, r
<1>6. ASSUME NEW i \in 1..3
      PROVE  x[i] * x[i] =
               (u[i] * u[i]) * (p * p) + (v[i] * v[i]) * (q * q) + (w[i] * w[i]) * (r * r)
                 + 2 * ((u[i] * v[i]) * (p * q)) + 2 * ((u[i] * w[i]) * (p * r))
                 + 2 * ((v[i] * w[i]) * (q * r))
  <2> DEFINE a == u[i]
             c == v[i]
             e == w[i]
  <2>1. i = 1 \/ i = 2 \/ i = 3
    OBVIOUS
  <2>2. a \in Int /\ c \in Int /\ e \in Int /\ x[i] = p * a + q * c + r * e
    BY <1>2, <1>5, <2>1
  <2> HIDE DEF a, c, e
  <2>3. x[i] * x[i] =
               (a * a) * (p * p) + (c * c) * (q * q) + (e * e) * (r * r)
                 + 2 * ((a * c) * (p * q)) + 2 * ((a * e) * (p * r)) + 2 * ((c * e) * (q * r))
    BY <1>5, <2>2
  <2> QED
    BY <2>3 DEF a, c, e
<1>7. ASSUME NEW s \in Int,
             NEW a1 \in Int, NEW a2 \in Int, NEW a3 \in Int
      PROVE  (a1 + a2 + a3) * s = a1 * s + a2 * s + a3 * s
  OBVIOUS
<1>8. /\ Norm2(u) * (p * p) = (u[1] * u[1]) * (p * p) + (u[2] * u[2]) * (p * p) + (u[3] * u[3]) * (p * p)
      /\ Norm2(v) * (q * q) = (v[1] * v[1]) * (q * q) + (v[2] * v[2]) * (q * q) + (v[3] * v[3]) * (q * q)
      /\ Norm2(w) * (r * r) = (w[1] * w[1]) * (r * r) + (w[2] * w[2]) * (r * r) + (w[3] * w[3]) * (r * r)
      /\ Dot(u, v) * (p * q) = (u[1] * v[1]) * (p * q) + (u[2] * v[2]) * (p * q) + (u[3] * v[3]) * (p * q)
      /\ Dot(u, w) * (p * r) = (u[1] * w[1]) * (p * r) + (u[2] * w[2]) * (p * r) + (u[3] * w[3]) * (p * r)
      /\ Dot(v, w) * (q * r) = (v[1] * w[1]) * (q * r) + (v[2] * w[2]) * (q * r) + (v[3] * w[3]) * (q * r)
  BY <1>5, <1>7 DEF Norm2, Dot
<1> DEFINE A(i) == (u[i] * u[i]) * (p * p)
           B(i) == (v[i] * v[i]) * (q * q)
           C(i) == (w[i] * w[i]) * (r * r)
           F(i) == (u[i] * v[i]) * (p * q)
           G(i) == (u[i] * w[i]) * (p * r)
           H(i) == (v[i] * w[i]) * (q * r)
<1>9. \A i \in 1..3 : /\ A(i) \in Int /\ B(i) \in Int /\ C(i) \in Int
                      /\ F(i) \in Int /\ G(i) \in Int /\ H(i) \in Int
  <2>1. \A i \in 1..3 : u[i] \in Int /\ v[i] \in Int /\ w[i] \in Int
    BY <1>5
  <2>2. p * p \in Int /\ q * q \in Int /\ r * r \in Int /\ p * q \in Int /\ p * r \in Int /\ q * r \in Int
    BY <1>5
  <2> QED
    BY <2>1, <2>2
<1>10. /\ Norm2(x) = (A(1) + B(1) + C(1) + 2 * F(1) + 2 * G(1) + 2 * H(1))
                       + (A(2) + B(2) + C(2) + 2 * F(2) + 2 * G(2) + 2 * H(2))
                       + (A(3) + B(3) + C(3) + 2 * F(3) + 2 * G(3) + 2 * H(3))
       /\ Form(Gram(b), y) = (A(1) + A(2) + A(3)) + (B(1) + B(2) + B(3)) + (C(1) + C(2) + C(3))
            + 2 * (F(1) + F(2) + F(3)) + 2 * (G(1) + G(2) + G(3)) + 2 * (H(1) + H(2) + H(3))
  BY <1>3, <1>4, <1>6, <1>8
<1> HIDE DEF A, B, C, F, G, H
<1>11. Norm2(x) = Form(Gram(b), y)
  <2>1. /\ A(1) \in Int /\ B(1) \in Int /\ C(1) \in Int /\ F(1) \in Int /\ G(1) \in Int /\ H(1) \in Int
        /\ A(2) \in Int /\ B(2) \in Int /\ C(2) \in Int /\ F(2) \in Int /\ G(2) \in Int /\ H(2) \in Int
        /\ A(3) \in Int /\ B(3) \in Int /\ C(3) \in Int /\ F(3) \in Int /\ G(3) \in Int /\ H(3) \in Int
    BY <1>9
  <2> QED
    BY <1>10, <2>1
<1> QED
  BY <1>11 DEF x

(* A displacement from its coordinates, times the volume. *)
Parts(b, d) == <<Dot(d, Cross(b[2], b[3])), Dot(d, Cross(b[3], b[1])), Dot(d, Cross(b[1], b[2]))>>
LEMMA FromParts ==
  ASSUME NEW b \in [1..3 -> Vectors], NEW d \in Vectors
  PROVE  /\ Parts(b, d) \in Vectors
         /\ \A k \in 1..3 : Combine(b, Parts(b, d))[k] = TripleProduct(b) * d[k]
<1> DEFINE u == b[1]
           v == b[2]
           w == b[3]
<1>1. u \in Vectors /\ v \in Vectors /\ w \in Vectors
  OBVIOUS
<1>2. /\ Tri(d, v, w) \in Int /\ Tri(d, w, u) \in Int /\ Tri(d, u, v) \in Int
      /\ Parts(b, d) = <<Tri(d, v, w), Tri(d, w, u), Tri(d, u, v)>>
  <2>1. Parts(b, d) = <<Tri(d, v, w), Tri(d, w, u), Tri(d, u, v)>>
    BY DEF Parts, Tri
  <2> HIDE DEF u, v, w
  <2> QED
    BY <1>1, <2>1, Orders
<1>3. Parts(b, d) \in Vectors
  BY <1>2 DEF Vectors
<1>4. ASSUME NEW k \in 1..3
      PROVE  Combine(b, Parts(b, d))[k] = Tri(d, v, w) * u[k] + Tri(d, w, u) * v[k] + Tri(d, u, v) * w[k]
  BY <1>2, <1>3, CombineShape
<1>5. TripleProduct(b) = Tri(u, v, w)
  BY DEF TripleProduct, Tri
<1> HIDE DEF u, v, w
<1>6. /\ u[1] \in Int /\ u[2] \in Int /\ u[3] \in Int
      /\ v[1] \in Int /\ v[2] \in Int /\ v[3] \in Int
      /\ w[1] \in Int /\ w[2] \in Int /\ w[3] \in Int
      /\ d[1] \in Int /\ d[2] \in Int /\ d[3] \in Int
  BY <1>1, VectorParts
<1>7. Tri(d, v, w) * u[1] + Tri(d, w, u) * v[1] + Tri(d, u, v) * w[1] = Tri(u, v, w) * d[1]
  BY <1>6 DEF Tri, Dot, Cross
<1>8. Tri(d, v, w) * u[2] + Tri(d, w, u) * v[2] + Tri(d, u, v) * w[2] = Tri(u, v, w) * d[2]
  BY <1>6 DEF Tri, Dot, Cross
<1>9. Tri(d, v, w) * u[3] + Tri(d, w, u) * v[3] + Tri(d, u, v) * w[3] = Tri(u, v, w) * d[3]
  BY <1>6 DEF Tri, Dot, Cross
<1> QED
  BY <1>3, <1>4, <1>5, <1>7, <1>8, <1>9

(* What is left of a displacement after a cell c is taken away, times w, in *)
(* parts of the basis.                                                      *)
LEMMA RestInParts ==
  ASSUME NEW b \in [1..3 -> Vectors], NEW d \in Vectors, NEW c \in Vectors, NEW x \in Vectors,
         NEW v \in Int, NEW w \in Nat, v = TripleProduct(b),
         \/ w = v /\ \A k \in 1..3 : x[k] = Parts(b, d)[k] - v * c[k]
         \/ w = -v /\ \A k \in 1..3 : x[k] = v * c[k] - Parts(b, d)[k]
  PROVE  (w * w) * Norm2(Sub(d, Combine(b, c))) = Form(Gram(b), x)
<1> DEFINE p == Parts(b, d)
           y == Sub(d, Combine(b, c))
           z == Combine(b, x)
<1>1. b[1] \in Vectors /\ b[2] \in Vectors /\ b[3] \in Vectors /\ Combine(b, c) \in Vectors
  BY CombineShape
<1>2. /\ y \in Vectors /\ y[1] = d[1] - Combine(b, c)[1] /\ y[2] = d[2] - Combine(b, c)[2]
      /\ y[3] = d[3] - Combine(b, c)[3]
  BY <1>1, SubShape
<1>3. p \in Vectors /\ \A k \in 1..3 : Combine(b, p)[k] = v * d[k]
  BY FromParts
<1>4. z \in Vectors
  BY CombineShape
<1>5. ASSUME NEW k \in 1..3 PROVE z[k] = w * y[k] \/ z[k] = -(w * y[k])
  <2>1. /\ z[k] = x[1] * b[1][k] + x[2] * b[2][k] + x[3] * b[3][k]
        /\ v * d[k] = p[1] * b[1][k] + p[2] * b[2][k] + p[3] * b[3][k]
        /\ Combine(b, c)[k] = c[1] * b[1][k] + c[2] * b[2][k] + c[3] * b[3][k]
    BY <1>3, CombineShape
  <2>2. y[k] = d[k] - Combine(b, c)[k]
    <3>1. k = 1 \/ k = 2 \/ k = 3
      OBVIOUS
    <3> QED
      BY <1>2, <3>1
  <2>3. /\ b[1][k] \in Int /\ b[2][k] \in Int /\ b[3][k] \in Int /\ d[k] \in Int
        /\ c[1] \in Int /\ c[2] \in Int /\ c[3] \in Int
        /\ x[1] \in Int /\ x[2] \in Int /\ x[3] \in Int
        /\ p[1] \in Int /\ p[2] \in Int /\ p[3] \in Int
    BY <1>1, <1>3 DEF Vectors
  <2>4. \/ w = v /\ x[1] = p[1] - v * c[1] /\ x[2] = p[2] - v * c[2] /\ x[3] = p[3] - v * c[3]
        \/ w = -v /\ x[1] = v * c[1] - p[1] /\ x[2] = v * c[2] - p[2] /\ x[3] = v * c[3] - p[3]
    OBVIOUS
  <2> DEFINE b1 == b[1][k]
             b2 == b[2][k]
             b3 == b[3][k]
             c1 == c[1]
             c2 == c[2]
             c3 == c[3]
             p1 == p[1]
             p2 == p[2]
             p3 == p[3]
             s == c1 * b1 + c2 * b2 + c3 * b3
  <2>5. s \in Int /\ v * s = (v * c1) * b1 + (v * c2) * b2 + (v * c3) * b3
    BY <2>3
  <2>6. v * y[k] = v * d[k] - v * s /\ v * d[k] \in Int
    <3>1. y[k] = d[k] - s
      BY <2>1, <2>2
    <3> HIDE DEF s, y
    <3> QED
      BY <2>3, <2>5, <3>1
  <2>7. CASE w = v /\ x[1] = p1 - v * c1 /\ x[2] = p2 - v * c2 /\ x[3] = p3 - v * c3
    <3>1. z[k] = (p1 - v * c1) * b1 + (p2 - v * c2) * b2 + (p3 - v * c3) * b3
      BY <2>1, <2>7
    <3> HIDE DEF b1, b2, b3, c1, c2, c3, p1, p2, p3, s, y, z
    <3>2. b1 \in Int /\ b2 \in Int /\ b3 \in Int /\ c1 \in Int /\ c2 \in Int /\ c3 \in Int
          /\ p1 \in Int /\ p2 \in Int /\ p3 \in Int
      BY <2>3 DEF b1, b2, b3, c1, c2, c3, p1, p2, p3
    <3>3. z[k] = (p1 * b1 + p2 * b2 + p3 * b3) - ((v * c1) * b1 + (v * c2) * b2 + (v * c3) * b3)
      BY <3>1, <3>2
    <3>4. v * d[k] = p1 * b1 + p2 * b2 + p3 * b3
      BY <2>1 DEF b1, b2, b3, p1, p2, p3
    <3> QED
      BY <2>5, <2>6, <2>7, <3>3, <3>4
  <2>8. CASE w = -v /\ x[1] = v * c1 - p1 /\ x[2] = v * c2 - p2 /\ x[3] = v * c3 - p3
    <3>1. z[k] = (v * c1 - p1) * b1 + (v * c2 - p2) * b2 + (v * c3 - p3) * b3
      BY <2>1, <2>8
    <3>0. y[k] \in Int
      BY <1>2 DEF Vectors
    <3> HIDE DEF b1, b2, b3, c1, c2, c3, p1, p2, p3, s, y, z
    <3>2. b1 \in Int /\ b2 \in Int /\ b3 \in Int /\ c1 \in Int /\ c2 \in Int /\ c3 \in Int
          /\ p1 \in Int /\ p2 \in Int /\ p3 \in Int
      BY <2>3 DEF b1, b2, b3, c1, c2, c3, p1, p2, p3
    <3>3. z[k] = ((v * c1) * b1 + (v * c2) * b2 + (v * c3) * b3) - (p1 * b1 + p2 * b2 + p3 * b3)
      BY <3>1, <3>2
    <3>4. v * d[k] = p1 * b1 + p2 * b2 + p3 * b3
      BY <2>1 DEF b1, b2, b3, p1, p2, p3
    <3>5. z[k] = -(v * y[k])
      BY <2>5, <2>6, <3>3, <3>4
    <3>6. w * y[k] = -(v * y[k])
      BY <2>8, <3>0
    <3> QED
      BY <3>5, <3>6
  <2> QED
    BY <2>4, <2>7, <2>8
<1>6. Norm2(z) = (w * w) * Norm2(y)
  <2> HIDE DEF y, z
  <2>1. /\ y[1] \in Int /\ y[2] \in Int /\ y[3] \in Int
    BY <1>2, VectorParts
  <2>2. ASSUME NEW k \in 1..3 PROVE z[k] * z[k] = (w * w) * (y[k] * y[k])
    <3>1. y[k] \in Int
      BY <1>2 DEF Vectors
    <3>4. \A q, t \in Int : (q * t) * (q * t) = (q * q) * (t * t) /\ q * t \in Int
      OBVIOUS
    <3>5. w \in Int
      OBVIOUS
    <3>2. (w * y[k]) * (w * y[k]) = (w * w) * (y[k] * y[k]) /\ w * y[k] \in Int
      BY <3>1, <3>4, <3>5
    <3>3. (-(w * y[k])) * (-(w * y[k])) = (w * y[k]) * (w * y[k])
      BY <3>2
    <3> QED
      BY <1>5, <3>2, <3>3
  <2>3. /\ Norm2(z) = z[1] * z[1] + z[2] * z[2] + z[3] * z[3]
        /\ Norm2(y) = y[1] * y[1] + y[2] * y[2] + y[3] * y[3]
    BY DEF Norm2, Dot
  <2>4. /\ z[1] * z[1] = (w * w) * (y[1] * y[1]) /\ z[2] * z[2] = (w * w) * (y[2] * y[2])
        /\ z[3] * z[3] = (w * w) * (y[3] * y[3])
    BY <2>2
  <2> DEFINE q == w * w
             a1 == y[1] * y[1]
             a2 == y[2] * y[2]
             a3 == y[3] * y[3]
  <2>5. q \in Int /\ a1 \in Int /\ a2 \in Int /\ a3 \in Int
    BY <2>1
  <2>6. Norm2(z) = q * a1 + q * a2 + q * a3 /\ Norm2(y) = a1 + a2 + a3
    BY <2>3, <2>4
  <2> HIDE DEF q, a1, a2, a3
  <2>7. Norm2(z) = q * Norm2(y)
    BY <2>5, <2>6
  <2> QED
    BY <2>7 DEF q
<1> QED
  BY <1>6, CombineLength

(* In a reduced basis no cell, however far, leaves less of a displacement   *)
(* than the best of those that are searched.                                *)
LEMMA SearchIsEnough ==
  ASSUME LatticeInv, Volume # 0, PairsReduced(Gram(basis)), NEW d \in Vectors, NEW m \in Vectors
  PROVE  \E c \in Around(NearestCell(d)) :
           Norm2(Sub(d, Combine(basis, c))) <= Norm2(Sub(d, Combine(basis, m)))
<1> DEFINE v == TripleProduct(basis)
           p == Parts(basis, d)
           n == NearestCell(d)
           w == Size(v)
           f == [k \in 1..3 |-> IF v > 0 THEN p[k] - v * n[k] ELSE v * n[k] - p[k]]
           Rest(c) == [k \in 1..3 |-> n[k] - c[k]]
           Left(c) == Norm2(Sub(d, Combine(basis, c)))
<1>1. basis \in [1..3 -> Vectors] /\ v \in Int /\ v # 0 /\ w \in Nat \ {0}
  <2>1. basis \in [1..3 -> Vectors] /\ v \in Int /\ v # 0
    BY BasisHasVolume DEF LatticeInv, Spans
  <2> QED
    BY <2>1 DEF Size
<1>2. p \in Vectors
  BY <1>1, FromParts
<1>3. \A k \in 1..3 : p[k] \in Int /\ n[k] = Rounded(p[k], v)
  <2>1. /\ n[1] = Rounded(p[1], v) /\ n[2] = Rounded(p[2], v) /\ n[3] = Rounded(p[3], v)
    BY DEF NearestCell, Parts
  <2>2. \A k \in 1..3 : k = 1 \/ k = 2 \/ k = 3
    OBVIOUS
  <2>3. \A k \in 1..3 : p[k] \in Int
    BY <1>2 DEF Vectors
  <2> HIDE DEF p, n, v
  <2> QED
    BY <2>1, <2>2, <2>3
<1> HIDE DEF v, p, n
<1>4. \A k \in 1..3 : n[k] \in Int /\ 2 * Size(p[k] - v * n[k]) <= w
  BY <1>1, <1>3, RoundedNear
<1>5. f \in Vectors /\ \A k \in 1..3 : 2 * Size(f[k]) <= w
  <2>1. ASSUME NEW k \in 1..3 PROVE f[k] \in Int /\ 2 * Size(f[k]) <= w
    <3>1. p[k] \in Int /\ n[k] \in Int /\ v * n[k] \in Int /\ 2 * Size(p[k] - v * n[k]) <= w
      BY <1>1, <1>3, <1>4
    <3>2. f[k] = p[k] - v * n[k] \/ f[k] = v * n[k] - p[k]
      OBVIOUS
    <3> HIDE DEF f, w
    <3> QED
      BY <3>1, <3>2 DEF Size
  <2>2. f = [k \in 1..3 |-> f[k]]
    OBVIOUS
  <2> HIDE DEF f
  <2> QED
    BY <2>1, <2>2 DEF Vectors
<1>6. ASSUME NEW c \in Vectors
      PROVE  Rest(c) \in Vectors /\ (w * w) * Left(c) = Form(Gram(basis), Moved(f, w, Rest(c)))
  <2> DEFINE x == Moved(f, w, Rest(c))
  <2>1. Rest(c) \in Vectors /\ \A k \in 1..3 : Rest(c)[k] = n[k] - c[k] /\ c[k] \in Int
    BY <1>4 DEF Vectors
  <2>2. x \in Vectors /\ \A k \in 1..3 : x[k] = f[k] + w * (n[k] - c[k])
    <3>1. x = [k \in 1..3 |-> f[k] + w * Rest(c)[k]]
      BY DEF Moved
    <3>2. \A k \in 1..3 : f[k] \in Int /\ Rest(c)[k] \in Int
      BY <1>5, <2>1 DEF Vectors
    <3> HIDE DEF f, w, Rest, x
    <3> QED
      BY <1>1, <2>1, <3>1, <3>2 DEF Vectors
  <2>3. CASE v > 0
    <3>1. w = v
      BY <1>1, <2>3 DEF Size
    <3>2. \A k \in 1..3 : x[k] = p[k] - v * c[k]
      <4> TAKE k \in 1..3
      <4>1. x[k] = (p[k] - v * n[k]) + v * (n[k] - c[k])
        BY <2>2, <2>3, <3>1
      <4>2. p[k] \in Int /\ n[k] \in Int /\ c[k] \in Int
        BY <1>3, <1>4, <2>1
      <4>4. \A a, b, o \in Int : a * (b - o) = a * b - a * o /\ a * b \in Int /\ a * o \in Int
        OBVIOUS
      <4> HIDE DEF x
      <4>3. v * (n[k] - c[k]) = v * n[k] - v * c[k] /\ v * n[k] \in Int /\ v * c[k] \in Int
        BY <1>1, <4>2, <4>4
      <4> QED
        BY <4>1, <4>2, <4>3
    <3>3. /\ v = TripleProduct(basis) /\ x = Moved(f, w, Rest(c))
          /\ \A k \in 1..3 : x[k] = Parts(basis, d)[k] - v * c[k]
      BY <3>2 DEF v, p
    <3> HIDE DEF x, w
    <3>4. \/ w = v /\ \A k \in 1..3 : x[k] = Parts(basis, d)[k] - v * c[k]
          \/ w = -v /\ \A k \in 1..3 : x[k] = v * c[k] - Parts(basis, d)[k]
      BY <3>1, <3>3
    <3>5. basis \in [1..3 -> Vectors] /\ v \in Int /\ w \in Nat /\ x \in Vectors
      BY <1>1, <2>2
    <3>6. (w * w) * Norm2(Sub(d, Combine(basis, c))) = Form(Gram(basis), x)
      BY <3>3, <3>4, <3>5, RestInParts
    <3> QED
      BY <2>1, <3>3, <3>6
  <2>4. CASE v < 0
    <3>1. w = -v
      BY <1>1, <2>4 DEF Size
    <3>2. \A k \in 1..3 : x[k] = v * c[k] - p[k]
      <4> TAKE k \in 1..3
      <4>1. x[k] = (v * n[k] - p[k]) + (-v) * (n[k] - c[k])
        BY <1>1, <2>2, <2>4, <3>1
      <4>2. p[k] \in Int /\ n[k] \in Int /\ c[k] \in Int
        BY <1>3, <1>4, <2>1
      <4>4. \A a, b, o \in Int : (-a) * (b - o) = a * o - a * b /\ a * b \in Int /\ a * o \in Int
        OBVIOUS
      <4> HIDE DEF x
      <4>3. (-v) * (n[k] - c[k]) = v * c[k] - v * n[k] /\ v * n[k] \in Int /\ v * c[k] \in Int
        BY <1>1, <4>2, <4>4
      <4> QED
        BY <4>1, <4>2, <4>3
    <3>3. /\ v = TripleProduct(basis) /\ x = Moved(f, w, Rest(c))
          /\ \A k \in 1..3 : x[k] = v * c[k] - Parts(basis, d)[k]
      BY <3>2 DEF v, p
    <3> HIDE DEF x, w
    <3>4. \/ w = v /\ \A k \in 1..3 : x[k] = Parts(basis, d)[k] - v * c[k]
          \/ w = -v /\ \A k \in 1..3 : x[k] = v * c[k] - Parts(basis, d)[k]
      BY <3>1, <3>3
    <3>5. basis \in [1..3 -> Vectors] /\ v \in Int /\ w \in Nat /\ x \in Vectors
      BY <1>1, <2>2
    <3>6. (w * w) * Norm2(Sub(d, Combine(basis, c))) = Form(Gram(basis), x)
      BY <3>3, <3>4, <3>5, RestInParts
    <3> QED
      BY <2>1, <3>3, <3>6
  <2> QED
    BY <1>1, <2>1, <2>3, <2>4
<1> HIDE DEF f, w, Rest
<1>7. PICK e \in Neighbours :
        Form(Gram(basis), Moved(f, w, e)) <= Form(Gram(basis), Moved(f, w, Rest(m)))
  <2>1. NearIsBest(Gram(basis))
    BY <1>1, GramShape, ReducedIsNear
  <2> QED
    BY <1>1, <1>5, <1>6, <2>1 DEF NearIsBest
<1> DEFINE c == [k \in 1..3 |-> n[k] - e[k]]
<1>8. c \in Vectors /\ Rest(c) = e
  <2>1. \A k \in 1..3 : n[k] \in Int /\ e[k] \in Int /\ e[k] \in -1..1
    BY <1>4 DEF Neighbours
  <2>2. c \in Vectors
    BY <2>1 DEF Vectors
  <2>3. \A k \in 1..3 : n[k] - c[k] = e[k]
    BY <2>1
  <2> QED
    BY <2>2, <2>3 DEF Rest, Neighbours
<1>9. c \in Around(n)
  <2> DEFINE r == -SearchRadius..SearchRadius
             s == <<-e[1], -e[2], -e[3]>>
  <2>1. \A k \in 1..3 : n[k] \in Int /\ e[k] \in -1..1
    BY <1>4 DEF Neighbours
  <2>2. s \in r \X r \X r
    BY <2>1, LatticeAssumption
  <2>3. \A k \in 1..3 : s[k] = -e[k]
    OBVIOUS
  <2>4. c = [k \in 1..3 |-> n[k] + s[k]]
    BY <2>1, <2>3
  <2> QED
    BY <2>2, <2>4 DEF Around
<1> HIDE DEF c
<1>10. Left(c) <= Left(m)
  <2> DEFINE q == w * w
  <2>1. q * Left(c) <= q * Left(m)
    BY <1>6, <1>7, <1>8
  <2>2. Left(c) \in Int /\ Left(m) \in Int /\ q \in Nat \ {0}
    <3>1. ASSUME NEW o \in Vectors PROVE Left(o) \in Int
      <4>1. Sub(d, Combine(basis, o)) \in Vectors
        BY <1>1, CombineShape, SubShape
      <4> QED
        BY <4>1, VectorParts DEF Norm2, Dot
    <3> QED
      BY <1>1, <1>8, <3>1
  <2> HIDE DEF q, Left
  <2>3. CASE Left(c) > Left(m)
    <3>1. q * Left(c) = q * Left(m) + q * (Left(c) - Left(m)) /\ q * (Left(c) - Left(m)) > 0
          /\ q * Left(m) \in Int
      BY <2>2, <2>3
    <3> QED
      BY <2>1, <2>2, <3>1
  <2> QED
    BY <2>2, <2>3
<1> QED
  BY <1>9, <1>10 DEF n

-----------------------------------------------------------------------------
(* No vector of the basis gets shorter by a multiple of another. *)
Reduced ==
  \A i, j \in 1..3 : i # j => 2 * Magnitude(Dot(basis[i], basis[j])) <= Norm2(basis[j])

LEMMA ReducedPairs ==
  ASSUME basis \in [1..3 -> Vectors], Reduced
  PROVE  PairsReduced(Gram(basis))
<1>1. \A u, v \in Vectors : Dot(u, v) = Dot(v, u) /\ Dot(u, v) \in Int
  <2> TAKE u, v \in Vectors
  <2>1. u[1] \in Int /\ u[2] \in Int /\ u[3] \in Int /\ v[1] \in Int /\ v[2] \in Int /\ v[3] \in Int
    BY VectorParts
  <2> QED
    BY <2>1 DEF Dot
<1>2. basis[1] \in Vectors /\ basis[2] \in Vectors /\ basis[3] \in Vectors
  OBVIOUS
<1>3. \A i, j \in 1..3 : i # j => 2 * Size(Dot(basis[i], basis[j])) <= Norm2(basis[j])
  BY DEF Reduced, Magnitude, Size
<1>4. /\ 2 * Size(Dot(basis[1], basis[2])) <= Norm2(basis[2])
      /\ 2 * Size(Dot(basis[2], basis[1])) <= Norm2(basis[1])
      /\ 2 * Size(Dot(basis[1], basis[3])) <= Norm2(basis[3])
      /\ 2 * Size(Dot(basis[3], basis[1])) <= Norm2(basis[1])
      /\ 2 * Size(Dot(basis[2], basis[3])) <= Norm2(basis[3])
      /\ 2 * Size(Dot(basis[3], basis[2])) <= Norm2(basis[2])
  BY <1>3
<1>5. /\ Dot(basis[2], basis[1]) = Dot(basis[1], basis[2])
      /\ Dot(basis[3], basis[1]) = Dot(basis[1], basis[3])
      /\ Dot(basis[3], basis[2]) = Dot(basis[2], basis[3])
  BY <1>1, <1>2
<1> QED
  BY <1>4, <1>5 DEF PairsReduced, Gram

(* While a pass has changed nothing, the pairs it has been through are       *)
(* reduced; so is a basis that is ready before the limit of passes.  Every  *)
(* cell can be reached along the basis.                                     *)
Reaches(b) == \A c \in Vectors : \E m \in Vectors : Combine(matrix, c) = Combine(b, m)
Settled(k) == Multiple(basis, VectorPairs[k][1], VectorPairs[k][2]) = 0
ReductionInv ==
  /\ Reaches(basis)
  /\ pc = "begin" => pair = 1
  /\ pc = "reduce" /\ ~ changed => \A k \in 1..6 : k < pair => Settled(k)
  /\ pc \in {"ready", "found"} /\ iter < MaxIterations => IsOrthorhombic \/ Reduced
  /\ pc = "found" => best \in IF IsOrthorhombic THEN {Wrapped(displacement)}
                                                ELSE Shortest(Candidates(displacement))

LEMMA SettledReduced ==
  ASSUME LatticeInv, Volume # 0, \A k \in 1..6 : Settled(k)
  PROVE  Reduced
<1>1. ASSUME NEW i \in 1..3, NEW j \in 1..3, i # j
      PROVE  2 * Magnitude(Dot(basis[i], basis[j])) <= Norm2(basis[j])
  <2>1. Multiple(basis, i, j) = 0
    <3>1. \E k \in 1..6 : VectorPairs[k][1] = i /\ VectorPairs[k][2] = j
      <4>1. /\ VectorPairs[1] = <<1, 2>> /\ VectorPairs[2] = <<1, 3>> /\ VectorPairs[3] = <<2, 1>>
            /\ VectorPairs[4] = <<2, 3>> /\ VectorPairs[5] = <<3, 1>> /\ VectorPairs[6] = <<3, 2>>
        BY DEF VectorPairs
      <4>2. \/ i = 1 /\ j = 2
            \/ i = 1 /\ j = 3
            \/ i = 2 /\ j = 1
            \/ i = 2 /\ j = 3
            \/ i = 3 /\ j = 1
            \/ i = 3 /\ j = 2
        BY <1>1
      <4>3. 1 \in 1..6 /\ 2 \in 1..6 /\ 3 \in 1..6 /\ 4 \in 1..6 /\ 5 \in 1..6 /\ 6 \in 1..6
        OBVIOUS
      <4> QED
        BY <4>1, <4>2, <4>3
    <3> QED
      BY <3>1 DEF Settled
  <2> DEFINE n == Dot(basis[i], basis[j])
             m == Norm2(basis[j])
  <2>2. n \in Int /\ m \in Nat \ {0}
    <3>1. basis[i] \in Vectors /\ basis[j] \in Vectors
      BY DEF LatticeInv, Spans
    <3>2. m \in Nat \ {0}
      BY BasisHasVolume
    <3>3. n \in Int
      BY <3>1, VectorParts DEF Dot
    <3> QED
      BY <3>2, <3>3
  <2>3. Rounded(n, m) = 0
    BY <2>1 DEF Multiple
  <2> HIDE DEF n, m
  <2>4. 2 * Size(n - m * 0) <= Size(m)
    BY <2>2, <2>3, RoundedNear
  <2>5. 2 * Magnitude(n) <= m
    BY <2>2, <2>4 DEF Size, Magnitude
  <2> QED
    BY <2>5 DEF n, m
<1> QED
  BY <1>1 DEF Reduced

(* Along a basis of which one vector is less a multiple of another, the     *)
(* other is taken so many times more.                                       *)
Sheared(b, i, j, t) == [b EXCEPT ![i] = Sub(b[i], Scale(b[j], t))]
LEMMA ShearedReaches ==
  ASSUME NEW b \in [1..3 -> Vectors], NEW i \in 1..3, NEW j \in 1..3, i # j, NEW t \in Int
  PROVE  \A m \in Vectors : \E n \in Vectors :
           Combine(b, m) = Combine(Sheared(b, i, j, t), n)
<1> TAKE m \in Vectors
<1> DEFINE x == Sub(b[i], Scale(b[j], t))
           o == [b EXCEPT ![i] = x]
           n == [m EXCEPT ![j] = m[j] + t * m[i]]
<1>1. x \in Vectors /\ \A k \in 1..3 : x[k] = b[i][k] - t * b[j][k]
  <2>1. b[i] \in Vectors /\ b[j] \in Vectors
    OBVIOUS
  <2>2. x \in Vectors
    BY <2>1, SubtractShape
  <2> QED
    BY <2>2 DEF Sub, Scale
<1> HIDE DEF x
<1>2. o \in [1..3 -> Vectors] /\ o[i] = x /\ \A k \in 1..3 : k # i => o[k] = b[k]
  BY <1>1
<1>3. n \in Vectors /\ n[j] = m[j] + t * m[i] /\ \A k \in 1..3 : k # j => n[k] = m[k]
  BY DEF Vectors
<1> HIDE DEF o, n
<1>4. \A k \in 1..3 : m[k] \in Int
  BY DEF Vectors
<1>5. ASSUME NEW k \in 1..3 PROVE Combine(b, m)[k] = Combine(o, n)[k]
  <2>1. /\ Combine(b, m)[k] = m[1] * b[1][k] + m[2] * b[2][k] + m[3] * b[3][k]
        /\ Combine(o, n)[k] = n[1] * o[1][k] + n[2] * o[2][k] + n[3] * o[3][k]
    BY <1>2, <1>3, CombineShape
  <2>2. \A r \in 1..3 : b[r][k] \in Int
    BY DEF Vectors
  <2>3. o[i][k] = b[i][k] - t * b[j][k] /\ \A r \in 1..3 : r # i => o[r][k] = b[r][k]
    BY <1>1, <1>2
  <2>4. ASSUME NEW a \in Int, NEW e \in Int, NEW p \in Int, NEW q \in Int
        PROVE  p * a + q * e = p * (a - t * e) + (q + t * p) * e
    BY <2>4
  <2> DEFINE P(r) == m[r] * b[r][k]
             Q(r) == n[r] * o[r][k]
  <2>5. P(i) + P(j) = Q(i) + Q(j)
    <3>1. /\ b[i][k] \in Int /\ b[j][k] \in Int /\ m[i] \in Int /\ m[j] \in Int
          /\ n[i] = m[i] /\ n[j] = m[j] + t * m[i]
          /\ o[i][k] = b[i][k] - t * b[j][k] /\ o[j][k] = b[j][k]
      BY <1>3, <1>4, <2>2, <2>3
    <3> QED
      BY <2>4, <3>1
  <2>6. \A r \in 1..3 : r # i /\ r # j => P(r) = Q(r)
    BY <1>3, <2>3
  <2>7. \A r \in 1..3 : P(r) \in Int /\ Q(r) \in Int
    <3> TAKE r \in 1..3
    <3>1. b[r][k] \in Int /\ m[r] \in Int /\ n[r] \in Int /\ o[r][k] \in Int
      BY <1>2, <1>3, <1>4, <2>2 DEF Vectors
    <3> QED
      BY <3>1
  <2>8. Combine(b, m)[k] = P(1) + P(2) + P(3) /\ Combine(o, n)[k] = Q(1) + Q(2) + Q(3)
    BY <2>1
  <2> HIDE DEF P, Q
  <2>9. /\ P(1) \in Int /\ P(2) \in Int /\ P(3) \in Int
        /\ Q(1) \in Int /\ Q(2) \in Int /\ Q(3) \in Int
    BY <2>7
  <2>10. \/ i = 1 /\ j = 2 /\ P(3) = Q(3)
         \/ i = 1 /\ j = 3 /\ P(2) = Q(2)
         \/ i = 2 /\ j = 1 /\ P(3) = Q(3)
         \/ i = 2 /\ j = 3 /\ P(1) = Q(1)
         \/ i = 3 /\ j = 1 /\ P(2) = Q(2)
         \/ i = 3 /\ j = 2 /\ P(1) = Q(1)
    BY <2>6
  <2> QED
    BY <2>5, <2>8, <2>9, <2>10
<1>6. Combine(b, m) \in Vectors /\ Combine(o, n) \in Vectors
  BY <1>2, <1>3, CombineShape
<1>7. Combine(b, m) = Combine(o, n)
  BY <1>5, <1>6, SameVector
<1> QED
  BY <1>3, <1>7 DEF o, x, Sheared

LEMMA SortedReaches ==
  ASSUME NEW b \in [1..3 -> Vectors], NEW p \in [1..3 -> 1..3], {p[k] : k \in 1..3} = 1..3,
         NEW m \in Vectors
  PROVE  \E n \in Vectors : Combine(b, m) = Combine([k \in 1..3 |-> b[p[k]]], n)
<1> DEFINE o == [k \in 1..3 |-> b[p[k]]]
           n == [k \in 1..3 |-> m[p[k]]]
<1>1. o \in [1..3 -> Vectors] /\ n \in Vectors
  BY DEF Vectors
<1>2. \A r \in 1..3 : o[r] = b[p[r]] /\ n[r] = m[p[r]]
  OBVIOUS
<1> HIDE DEF o, n
<1>3. \/ p[1] = 1 /\ p[2] = 2 /\ p[3] = 3
      \/ p[1] = 1 /\ p[2] = 3 /\ p[3] = 2
      \/ p[1] = 2 /\ p[2] = 1 /\ p[3] = 3
      \/ p[1] = 2 /\ p[2] = 3 /\ p[3] = 1
      \/ p[1] = 3 /\ p[2] = 1 /\ p[3] = 2
      \/ p[1] = 3 /\ p[2] = 2 /\ p[3] = 1
  <2>1. p[1] \in 1..3 /\ p[2] \in 1..3 /\ p[3] \in 1..3
    OBVIOUS
  <2>2. \A r \in 1..3 : p[1] = r \/ p[2] = r \/ p[3] = r
    <3> TAKE r \in 1..3
    <3>1. PICK k \in 1..3 : p[k] = r
      OBVIOUS
    <3>2. k = 1 \/ k = 2 \/ k = 3
      OBVIOUS
    <3> QED
      BY <3>1, <3>2
  <2>3. /\ p[1] = 1 \/ p[2] = 1 \/ p[3] = 1
        /\ p[1] = 2 \/ p[2] = 2 \/ p[3] = 2
        /\ p[1] = 3 \/ p[2] = 3 \/ p[3] = 3
    BY <2>2
  <2> QED
    BY <2>1, <2>3
<1>4. ASSUME NEW k \in 1..3 PROVE Combine(b, m)[k] = Combine(o, n)[k]
  <2> DEFINE P(r) == m[r] * b[r][k]
             Q(r) == n[r] * o[r][k]
  <2>1. Combine(b, m)[k] = P(1) + P(2) + P(3) /\ Combine(o, n)[k] = Q(1) + Q(2) + Q(3)
    BY <1>1, CombineShape
  <2>2. \A r \in 1..3 : Q(r) = P(p[r])
    BY <1>2
  <2>3. \A r \in 1..3 : P(r) \in Int
    <3> TAKE r \in 1..3
    <3>1. b[r][k] \in Int /\ m[r] \in Int
      BY DEF Vectors
    <3> QED
      BY <3>1
  <2> HIDE DEF P, Q
  <2>4. Q(1) = P(p[1]) /\ Q(2) = P(p[2]) /\ Q(3) = P(p[3])
    BY <2>2
  <2>5. P(1) \in Int /\ P(2) \in Int /\ P(3) \in Int
    BY <2>3
  <2> QED
    BY <1>3, <2>1, <2>4, <2>5
<1>5. Combine(b, m) \in Vectors /\ Combine(o, n) \in Vectors
  BY <1>1, CombineShape
<1>6. Combine(b, m) = Combine(o, n)
  BY <1>4, <1>5, SameVector
<1> QED
  BY <1>1, <1>6 DEF o

LEMMA SubtractReduces ==
  ASSUME LatticeInv, ReductionInv, Subtract
  PROVE  ReductionInv'
<1> DEFINE i == VectorPairs[pair][1]
           j == VectorPairs[pair][2]
           t == Multiple(basis, i, j)
<1>1. /\ matrix' = matrix /\ pc' = "reduce" /\ pc = "reduce" /\ pair' = pair + 1 /\ pair \in 1..6
      /\ Volume # 0 /\ changed' = (changed \/ t # 0)
      /\ basis' = IF t = 0 THEN basis ELSE [basis EXCEPT ![i] = Sub(basis[i], Scale(basis[j], t))]
  BY DEF Subtract, LatticeInv, VectorPairs
<1>2. i \in 1..3 /\ j \in 1..3 /\ i # j
  <2>1. pair = 1 \/ pair = 2 \/ pair = 3 \/ pair = 4 \/ pair = 5 \/ pair = 6
    BY <1>1
  <2> QED
    BY <2>1 DEF VectorPairs
<1>3. Settled(pair) <=> t = 0
  BY DEF Settled
<1> HIDE DEF i, j
<1>4. basis \in [1..3 -> Vectors] /\ basis[i] \in Vectors /\ basis[j] \in Vectors
  BY <1>2 DEF LatticeInv, Spans
<1>5. t \in Int
  <2>1. Norm2(basis[j]) \in Nat \ {0}
    BY <1>1, <1>2, BasisHasVolume
  <2>2. Dot(basis[i], basis[j]) \in Int
    BY <1>4, VectorParts DEF Dot
  <2> QED
    BY <2>1, <2>2, RoundedNear DEF Multiple
<1> HIDE DEF t
<1>6. Reaches(basis)'
  <2>1. CASE t = 0
    BY <1>1, <2>1 DEF ReductionInv, Reaches
  <2>2. CASE t # 0
    <3>1. basis' = Sheared(basis, i, j, t)
      BY <1>1, <2>2 DEF Sheared
    <3>2. ASSUME NEW c \in Vectors PROVE \E n \in Vectors : Combine(matrix, c) = Combine(basis', n)
      <4>1. PICK m \in Vectors : Combine(matrix, c) = Combine(basis, m)
        BY DEF ReductionInv, Reaches
      <4>2. \A o \in Vectors : \E n \in Vectors :
              Combine(basis, o) = Combine(Sheared(basis, i, j, t), n)
        BY <1>2, <1>4, <1>5, ShearedReaches
      <4> QED
        BY <3>1, <4>1, <4>2
    <3> QED
      BY <1>1, <3>2 DEF Reaches
  <2> QED
    BY <2>1, <2>2
<1>7. (~ changed => \A k \in 1..6 : k < pair => Settled(k))'
  <2> SUFFICES ASSUME ~ changed', NEW k \in 1..6, k < pair' PROVE Settled(k)'
    OBVIOUS
  <2>1. basis' = basis /\ ~ changed /\ t = 0
    BY <1>1
  <2>2. Settled(k)
    BY <1>1, <1>3, <2>1 DEF ReductionInv
  <2> QED
    BY <2>1, <2>2 DEF Settled
<1> QED
  BY <1>1, <1>6, <1>7 DEF ReductionInv

LEMMA EndPassReduces ==
  ASSUME LatticeInv, ReductionInv, EndPass
  PROVE  ReductionInv'
<1>1. PICK p \in [1..3 -> 1..3] :
        {p[k] : k \in 1..3} = 1..3 /\ basis' = [k \in 1..3 |-> basis[p[k]]]
  BY DEF EndPass
<1>2. /\ matrix' = matrix /\ pc = "reduce" /\ pc' \in {"ready", "reduce"} /\ pair' = 1
      /\ pair > 6 /\ iter' = iter + 1 /\ Volume # 0
      /\ pc' = "ready" /\ changed => iter' = MaxIterations
  BY DEF EndPass, LatticeInv, VectorPairs
<1>3. basis \in [1..3 -> Vectors] /\ pair \in Int
  BY DEF LatticeInv, Spans
<1>4. Reaches(basis)'
  <2>1. ASSUME NEW c \in Vectors PROVE \E n \in Vectors : Combine(matrix, c) = Combine(basis', n)
    <3>1. PICK m \in Vectors : Combine(matrix, c) = Combine(basis, m)
      BY DEF ReductionInv, Reaches
    <3>2. PICK n \in Vectors : Combine(basis, m) = Combine(basis', n)
      BY <1>1, <1>3, SortedReaches
    <3> QED
      BY <3>1, <3>2
  <2> QED
    BY <1>2, <2>1 DEF Reaches
<1>5. ASSUME ~ changed PROVE Reduced'
  <2>1. Reduced
    <3>1. \A k \in 1..6 : Settled(k)
      BY <1>2, <1>3, <1>5 DEF ReductionInv
    <3> QED
      BY <1>2, <3>1, SettledReduced
  <2>2. \A k, r \in 1..3 : k # r => p[k] # p[r]
    <3>1. p[1] \in 1..3 /\ p[2] \in 1..3 /\ p[3] \in 1..3
      OBVIOUS
    <3>2. {p[1], p[2], p[3]} = 1..3
      <4>1. {p[k] : k \in 1..3} = {p[1], p[2], p[3]}
        OBVIOUS
      <4> QED
        BY <1>1, <4>1
    <3>3. p[1] # p[2] /\ p[1] # p[3] /\ p[2] # p[3]
      BY <3>1, <3>2
    <3> QED
      BY <3>3
  <2>3. ASSUME NEW k \in 1..3, NEW r \in 1..3, k # r
        PROVE  2 * Magnitude(Dot(basis'[k], basis'[r])) <= Norm2(basis'[r])
    <3>1. basis'[k] = basis[p[k]] /\ basis'[r] = basis[p[r]] /\ p[k] \in 1..3 /\ p[r] \in 1..3
          /\ p[k] # p[r]
      BY <1>1, <2>2, <2>3
    <3> QED
      BY <2>1, <3>1 DEF Reduced
  <2> QED
    BY <2>3 DEF Reduced
<1>6. (pc \in {"ready", "found"} /\ iter < MaxIterations => IsOrthorhombic \/ Reduced)'
  <2>1. CASE changed
    BY <1>2, <2>1, LatticeAssumption
  <2> QED
    BY <1>5, <2>1
<1>7. (pc = "reduce" /\ ~ changed => \A k \in 1..6 : k < pair => Settled(k))'
  BY <1>2
<1> QED
  BY <1>2, <1>4, <1>6, <1>7 DEF ReductionInv

LEMMA BeginReduces ==
  ASSUME LatticeInv, ReductionInv, Begin
  PROVE  ReductionInv'
<1>1. /\ matrix' = matrix /\ basis' = basis /\ pair' = 1 /\ iter' = iter
      /\ pc' \in {"throws", "ready", "reduce"} /\ (pc' = "ready" => IsOrthorhombic)
  BY DEF Begin, ReductionInv
<1>2. Reaches(basis)' /\ (IsOrthorhombic => IsOrthorhombic')
  BY <1>1 DEF ReductionInv, Reaches, IsOrthorhombic
<1> QED
  BY <1>1, <1>2 DEF ReductionInv

LEMMA FoundReduces ==
  ASSUME LatticeInv, ReductionInv, MinimumImageDisplacement
  PROVE  ReductionInv'
<1>1. PICK d \in Displacements :
        /\ displacement' = d
        /\ best' \in IF IsOrthorhombic THEN {Wrapped(d)} ELSE Shortest(Candidates(d))
  BY DEF MinimumImageDisplacement
<1>2. /\ matrix' = matrix /\ basis' = basis /\ iter' = iter /\ pc = "ready" /\ pc' = "found"
  BY DEF MinimumImageDisplacement
<1>3. /\ Reaches(basis)' /\ IsOrthorhombic' = IsOrthorhombic /\ Reduced' = Reduced
      /\ Wrapped(displacement)' = Wrapped(d) /\ Candidates(displacement)' = Candidates(d)
  BY <1>1, <1>2
     DEF ReductionInv, Reaches, IsOrthorhombic, Reduced, Wrapped, Candidates, Around, NearestCell
<1>4. (best \in IF IsOrthorhombic THEN {Wrapped(displacement)} ELSE Shortest(Candidates(displacement)))'
  <2>1. Shortest(Candidates(displacement))' = Shortest(Candidates(d))
    BY <1>3 DEF Shortest
  <2> QED
    BY <1>1, <1>3, <2>1
<1>5. (iter < MaxIterations => IsOrthorhombic \/ Reduced)'
  BY <1>2, <1>3 DEF ReductionInv
<1> QED
  BY <1>2, <1>3, <1>4, <1>5 DEF ReductionInv

LEMMA ReductionInvariant == LatticeSpec => []ReductionInv
<1>1. LatticeInit => ReductionInv
  BY DEF LatticeInit, ReductionInv, Reaches
<1>2. LatticeInv /\ ReductionInv /\ [LatticeNext]_latticeVars => ReductionInv'
  <2>1. ASSUME ReductionInv, UNCHANGED latticeVars PROVE ReductionInv'
    BY <2>1 DEF ReductionInv, latticeVars, Reaches, Settled, Reduced, IsOrthorhombic, Wrapped,
                Shortest, Candidates, Around, NearestCell
  <2> QED
    BY <2>1, BeginReduces, SubtractReduces, EndPassReduces, FoundReduces DEF LatticeNext
<1> QED
  BY <1>1, <1>2, LatticeInvariant, PTL DEF LatticeSpec

(* In a cell whose basis is reduced, skewed as it may be, the image that is  *)
(* returned is the shortest of all: a pairwise reduced basis is all the      *)
(* search of minimumImageDisplacement needs.                                 *)
NoShorterImage ==
  pc = "found" => \A c \in Vectors : Norm2(best) <= Norm2(Sub(displacement, Combine(matrix, c)))
THEOREM ReducedIsShortest == LatticeSpec => [](IsOrthorhombic \/ Reduced => NoShorterImage)
<1>1. LatticeInv /\ ReductionInv => (IsOrthorhombic \/ Reduced => NoShorterImage)
  <2> SUFFICES ASSUME LatticeInv, ReductionInv, IsOrthorhombic \/ Reduced, pc = "found",
                      NEW c \in Vectors
               PROVE  Norm2(best) <= Norm2(Sub(displacement, Combine(matrix, c)))
    BY DEF NoShorterImage
  <2>1. Volume # 0 /\ displacement \in Vectors
    BY DEF LatticeInv
  <2>2. CASE IsOrthorhombic
    <3>1. best = Wrapped(displacement)
      BY <2>2 DEF ReductionInv
    <3> QED
      BY <2>1, <2>2, <3>1, WrappedIsImage
  <2>3. CASE ~ IsOrthorhombic
    <3>1. PairsReduced(Gram(basis))
      BY <2>3, ReducedPairs DEF LatticeInv, Spans
    <3>2. PICK m \in Vectors : Combine(matrix, c) = Combine(basis, m)
      BY DEF ReductionInv, Reaches
    <3>3. PICK e \in Around(NearestCell(displacement)) :
            Norm2(Sub(displacement, Combine(basis, e)))
              <= Norm2(Sub(displacement, Combine(basis, m)))
      BY <2>1, <3>1, SearchIsEnough
    <3> DEFINE x == Sub(displacement, Combine(basis, e))
    <3>4. x \in Candidates(displacement)
      BY DEF Candidates
    <3>5. best \in Vectors /\ best \in Shortest(Candidates(displacement))
      BY <2>3 DEF ReductionInv, LatticeInv
    <3>6. Norm2(best) <= Norm2(x)
      BY <3>4, <3>5 DEF Shortest
    <3>7. \A u \in Vectors : Norm2(u) \in Int
      BY VectorParts DEF Norm2, Dot
    <3>8. x \in Vectors /\ Sub(displacement, Combine(basis, m)) \in Vectors
      <4>1. basis \in [1..3 -> Vectors]
        BY DEF LatticeInv, Spans
      <4> QED
        BY <2>1, <3>4, <4>1, CandidateIsImage, CombineShape, SubShape
    <3> HIDE DEF x
    <3> QED
      BY <3>2, <3>3, <3>5, <3>6, <3>7, <3>8 DEF x
  <2> QED
    BY <2>2, <2>3
<1> QED
  BY <1>1, LatticeInvariant, ReductionInvariant, PTL

(* A reduction that ends before its limit of passes ends in such a basis.    *)
THEOREM FinishedIsReduced ==
  LatticeSpec => [](pc = "found" /\ iter < MaxIterations => IsOrthorhombic \/ Reduced)
<1>1. ReductionInv => (pc = "found" /\ iter < MaxIterations => IsOrthorhombic \/ Reduced)
  BY DEF ReductionInv
<1> QED
  BY <1>1, ReductionInvariant, PTL

(* Hence in every cell whose reduction ends before the limit the image       *)
(* returned is the shortest.                                                 *)
THEOREM FinishedIsShortest == LatticeSpec => [](iter < MaxIterations => ShortestImageFound)
<1>1. /\ ImageReturned
      /\ pc = "found" /\ iter < MaxIterations => IsOrthorhombic \/ Reduced
      /\ IsOrthorhombic \/ Reduced => NoShorterImage
      => (iter < MaxIterations => ShortestImageFound)
  <2>1. ASSUME NEW c \in AllCells PROVE c \in Vectors
    <3>1. c[1] \in Int /\ c[2] \in Int /\ c[3] \in Int /\ c = <<c[1], c[2], c[3]>>
      BY LatticeAssumption DEF AllCells
    <3> QED
      BY <3>1 DEF Vectors
  <2> QED
    BY <2>1 DEF ImageReturned, NoShorterImage, ShortestImageFound
<1> QED
  BY <1>1, ImagesOnly, ReducedIsShortest, FinishedIsReduced, PTL

(* The type invariant of the minimum images. *)
THEOREM LatticeTypeCorrect == LatticeSpec => []LatticeTypeOK
<1> DEFINE Counts ==
      /\ pair \in 1..7
      /\ pc \in {"begin", "throws", "reduce", "ready", "found"}
      /\ iter \in 0..MaxIterations /\ (pc \in {"begin", "reduce"} => iter < MaxIterations)
      /\ pc # "found" => best = <<0, 0, 0>>
    Flag == changed \in BOOLEAN
<1>0. MaxIterations \in Nat /\ MaxIterations > 0
  BY LatticeAssumption
<1>1. Len(VectorPairs) = 6
  BY DEF VectorPairs
<1>2. LatticeInit => Counts /\ Flag
  <2>1. LatticeInit => Counts
    BY <1>0 DEF LatticeInit
  <2>2. LatticeInit => Flag
    BY DEF LatticeInit
  <2> QED
    BY <2>1, <2>2
<1>3. Counts /\ Flag /\ [LatticeNext]_latticeVars => Counts' /\ Flag'
  <2> SUFFICES ASSUME Counts, Flag, [LatticeNext]_latticeVars PROVE Counts' /\ Flag'
    OBVIOUS
  <2>1. CASE Begin
    BY <2>1 DEF Begin
  <2>2. CASE Subtract
    <3>1. Flag'
      BY <2>2 DEF Subtract
    <3> QED
      BY <1>1, <2>2, <3>1 DEF Subtract
  <2>3. CASE EndPass
    <3>1. /\ iter' = iter + 1 /\ pair' = 1 /\ best' = best /\ pc = "reduce"
          /\ pc' \in {"ready", "reduce"} /\ (iter' = MaxIterations => pc' = "ready")
      BY <2>3 DEF EndPass
    <3>2. Flag'
      BY <2>3 DEF EndPass
    <3>3. Counts'
      BY <1>0, <3>1
    <3> QED
      BY <3>2, <3>3
  <2>4. CASE MinimumImageDisplacement
    BY <2>4 DEF MinimumImageDisplacement
  <2>5. CASE UNCHANGED latticeVars
    BY <2>5 DEF latticeVars
  <2> QED
    BY <2>1, <2>2, <2>3, <2>4, <2>5 DEF LatticeNext
<1>4. LatticeInv /\ Counts /\ Flag => LatticeTypeOK
  <2>1. <<0, 0, 0>> \in Vectors
    BY DEF Vectors
  <2> QED
    BY <1>1, <2>1 DEF LatticeInv, Spans, LatticeTypeOK
<1> QED
  BY <1>2, <1>3, <1>4, LatticeInvariant, PTL DEF LatticeSpec

-----------------------------------------------------------------------------
(* Philox and its generators. *)

(* Powers of two. *)
LEMMA PowerOfTwo == ASSUME NEW n \in Nat PROVE 2^n \in Nat \ {0}
<1>1. IsFiniteSet(1..n) /\ Cardinality(1..n) = n
  <2>1. 1 \in Int /\ n \in Int
    OBVIOUS
  <2>2. IsFiniteSet(1..n) /\ Cardinality(1..n) = IF 1 > n THEN 0 ELSE n - 1 + 1
    BY <2>1, FS_Interval
  <2> QED
    BY <2>2
<1>2. IsFiniteSet(SUBSET (1..n)) /\ Cardinality(SUBSET (1..n)) = 2^n
  BY <1>1, FS_SUBSET
<1>3. SUBSET (1..n) # {}
  OBVIOUS
<1> QED
  BY <1>2, <1>3, FS_CardinalityType, FS_EmptySet

(* A part of m + n things is a part of the first m and one of the others. *)
LEMMA TwoAdds == ASSUME NEW m \in Nat, NEW n \in Nat PROVE 2^(m + n) = 2^m * 2^n
<1> DEFINE S == 1..m
           T == (m + 1)..(m + n)
           U == 1..(m + n)
           f == [p \in (SUBSET S) \X (SUBSET T) |-> p[1] \cup p[2]]
<1>1. /\ IsFiniteSet(S) /\ Cardinality(S) = m /\ IsFiniteSet(T) /\ Cardinality(T) = n
      /\ IsFiniteSet(U) /\ Cardinality(U) = m + n
  <2>1. 1 \in Int /\ m \in Int /\ m + 1 \in Int /\ m + n \in Int
    OBVIOUS
  <2>2. IsFiniteSet(S) /\ Cardinality(S) = IF 1 > m THEN 0 ELSE m - 1 + 1
    BY <2>1, FS_Interval
  <2>3. IsFiniteSet(T) /\ Cardinality(T) = IF m + 1 > m + n THEN 0 ELSE (m + n) - (m + 1) + 1
    BY <2>1, FS_Interval
  <2>4. IsFiniteSet(U) /\ Cardinality(U) = IF 1 > m + n THEN 0 ELSE (m + n) - 1 + 1
    BY <2>1, FS_Interval
  <2> HIDE DEF S, T, U
  <2> QED
    BY <2>2, <2>3, <2>4
<1>2. U = S \cup T /\ S \cap T = {}
  OBVIOUS
<1>3. /\ IsFiniteSet(SUBSET S) /\ Cardinality(SUBSET S) = 2^m
      /\ IsFiniteSet(SUBSET T) /\ Cardinality(SUBSET T) = 2^n
      /\ Cardinality(SUBSET U) = 2^(m + n)
  BY <1>1, FS_SUBSET
<1> HIDE DEF S, T, U
<1>4. /\ IsFiniteSet((SUBSET S) \X (SUBSET T))
      /\ Cardinality((SUBSET S) \X (SUBSET T)) = 2^m * 2^n
  <2> DEFINE A == SUBSET S
             B == SUBSET T
  <2>1. IsFiniteSet(A) /\ Cardinality(A) = 2^m /\ IsFiniteSet(B) /\ Cardinality(B) = 2^n
    BY <1>3
  <2> HIDE DEF A, B
  <2>2. IsFiniteSet(A \X B) /\ Cardinality(A \X B) = Cardinality(A) * Cardinality(B)
    BY <2>1, FS_Product
  <2> QED
    BY <2>1, <2>2 DEF A, B
<1>5. f \in [(SUBSET S) \X (SUBSET T) -> SUBSET U]
  BY <1>2
<1>6. ASSUME NEW p \in (SUBSET S) \X (SUBSET T), NEW q \in (SUBSET S) \X (SUBSET T), f[p] = f[q]
      PROVE  p = q
  <2>1. p[1] = (p[1] \cup p[2]) \cap S /\ p[2] = (p[1] \cup p[2]) \cap T
    BY <1>2
  <2>2. q[1] = (q[1] \cup q[2]) \cap S /\ q[2] = (q[1] \cup q[2]) \cap T
    BY <1>2
  <2>3. p[1] \cup p[2] = q[1] \cup q[2]
    BY <1>6
  <2>4. p = <<p[1], p[2]>> /\ q = <<q[1], q[2]>>
    OBVIOUS
  <2> QED
    BY <2>1, <2>2, <2>3, <2>4
<1>7. ASSUME NEW u \in SUBSET U PROVE \E p \in (SUBSET S) \X (SUBSET T) : f[p] = u
  <2>1. <<u \cap S, u \cap T>> \in (SUBSET S) \X (SUBSET T) /\ f[<<u \cap S, u \cap T>>] = u
    BY <1>2
  <2> QED
    BY <2>1
<1> HIDE DEF f
<1>8. f \in Bijection((SUBSET S) \X (SUBSET T), SUBSET U)
  BY <1>5, <1>6, <1>7 DEF Bijection, Injection, IsInjective, Surjection
<1>9. ExistsBijection((SUBSET S) \X (SUBSET T), SUBSET U)
  BY <1>8 DEF ExistsBijection
<1> QED
  BY <1>3, <1>4, <1>9, FS_Bijection

LEMMA PowerOfNone == 2^0 = 1
<1>1. IsFiniteSet({}) /\ Cardinality({}) = 0
  BY FS_EmptySet
<1>2. Cardinality(SUBSET {}) = 2^0
  BY <1>1, FS_SUBSET
<1>3. SUBSET {} = {{}} /\ Cardinality({{}}) = 1
  BY FS_Singleton
<1> QED
  BY <1>2, <1>3

LEMMA PowerDoubles == ASSUME NEW n \in Nat PROVE 2^(n + 1) = 2 * 2^n
<1>1. IsFiniteSet({1}) /\ Cardinality({1}) = 1
  BY FS_Singleton
<1>2. Cardinality(SUBSET {1}) = 2^1
  BY <1>1, FS_SUBSET
<1>3. SUBSET {1} = {{}} \cup {{1}} /\ {1} # {}
  OBVIOUS
<1>4. IsFiniteSet({{}}) /\ Cardinality({{}}) = 1 /\ {1} \notin {{}}
  BY FS_Singleton
<1>5. Cardinality({{}} \cup {{1}}) = 1 + 1
  BY <1>4, FS_AddElement
<1>6. 2^1 = 2 /\ 2^n \in Nat
  BY <1>2, <1>3, <1>5, PowerOfTwo
<1>7. 2^(n + 1) = 2^n * 2^1
  BY TwoAdds, 1 \in Nat
<1> QED
  BY <1>6, <1>7

(* A power of two that divides an odd multiple of d divides d. *)
LEMMA OddMultiple ==
  ASSUME NEW m \in Nat, m % 2 = 1, NEW k \in Nat,
         NEW d \in Int, NEW j \in Int, m * d = 2^k * j
  PROVE  \E i \in Int : d = 2^k * i
<1> DEFINE P == {n \in Nat : \A u, v \in Int : m * u = 2^n * v => \E i \in Int : u = 2^n * i}
<1>1. ASSUME NEW n \in Nat, \A l \in 0..(n - 1) : l \in P PROVE n \in P
  <2>1. CASE n = 0
    <3>1. \A u \in Int : u = 1 * u
      OBVIOUS
    <3> QED
      BY <2>1, <3>1, PowerOfNone
  <2>2. CASE n > 0
    <3> DEFINE h == 2^(n - 1)
    <3>1. h \in Nat /\ 2^n = 2 * h /\ n - 1 \in Nat /\ n - 1 \in P
      <4>1. n - 1 \in Nat /\ n - 1 \in 0..(n - 1) /\ (n - 1) + 1 = n
        BY <2>2
      <4> QED
        BY <1>1, <4>1, PowerOfTwo, PowerDoubles
    <3>2. ASSUME NEW u \in Int, NEW v \in Int, m * u = 2^n * v
          PROVE  \E i \in Int : u = 2^n * i
      <4>1. PICK q \in Int : m = 2 * q + 1
        <5>1. m = 2 * (m \div 2) + (m % 2) /\ m \div 2 \in Int
          BY DivisionFacts
        <5> QED
          BY <5>1
      <4> DEFINE e == h * v - q * u
      <4> HIDE DEF h
      <4>2. h * v \in Int /\ q * u \in Int /\ (2 * h) * v = 2 * (h * v) /\ (2 * q + 1) * u = 2 * (q * u) + u
        BY <3>1
      <4>3. e \in Int /\ u = 2 * e
        BY <3>1, <3>2, <4>1, <4>2
      <4> HIDE DEF e
      <4>4. m * e = h * v
        <5>1. m * (2 * e) = 2 * (m * e) /\ m * e \in Int
          BY <4>3
        <5> QED
          BY <3>1, <3>2, <4>2, <4>3, <5>1
      <4>5. \E i \in Int : e = h * i
        BY <3>1, <4>3, <4>4 DEF h
      <4>6. PICK i \in Int : e = h * i
        BY <4>5
      <4>7. u = (2 * h) * i
        BY <3>1, <4>3, <4>6
      <4> QED
        BY <3>1, <4>7
    <3> QED
      BY <3>2
  <2> QED
    BY <2>1, <2>2
<1> HIDE DEF P
<1>2. \A n \in Nat : n \in P
  BY <1>1, Climb
<1> QED
  BY <1>2 DEF P

(* Words, and numbers of two words. *)
LEMMA WordFacts ==
  /\ M \in Nat \ {0} /\ M * M \in Nat
  /\ \A n \in Nat : High(n) \in Word /\ Low(n) \in Word
<1>1. M \in Nat \ {0}
  BY RngAssumption, PowerOfTwo DEF M
<1>2. ASSUME NEW n \in Nat PROVE High(n) \in Word /\ Low(n) \in Word
  <2>1. n \in Int /\ n \div M \in Int /\ n % M \in 0..(M - 1)
    BY <1>1, DivisionFacts
  <2>2. (n \div M) % M \in 0..(M - 1)
    BY <1>1, <2>1, DivisionFacts
  <2> QED
    BY <2>1, <2>2 DEF High, Low, Word
<1> QED
  BY <1>1, <1>2

LEMMA TwoWords ==
  ASSUME NEW n \in 0..(M * M - 1)
  PROVE  n = M * High(n) + Low(n)
<1> DEFINE q == n \div M
<1>1. M \in Nat \ {0} /\ M * M \in Nat /\ n \in Int /\ 0 <= n /\ n < M * M
  BY WordFacts
<1>2. q \in Int /\ n % M \in 0..(M - 1) /\ n = M * q + (n % M)
  BY <1>1, DivisionFacts
<1>3. q \div M \in Int /\ q % M \in 0..(M - 1) /\ q = M * (q \div M) + (q % M)
  BY <1>1, <1>2, DivisionFacts
<1>4. q >= 0
  <2>1. ASSUME q <= -1 PROVE FALSE
    <3>1. M * q <= -M
      BY <1>1, <1>2, <2>1
    <3> QED
      BY <1>1, <1>2, <3>1
  <2> QED
    BY <1>2, <2>1
<1>5. q < M
  <2>1. ASSUME q >= M PROVE FALSE
    <3>1. M * q >= M * M
      BY <1>1, <1>2, <2>1
    <3> QED
      BY <1>1, <1>2, <3>1
  <2> QED
    BY <1>1, <1>2, <2>1
<1> HIDE DEF q
<1>6. q % M = q
  BY <1>1, <1>2, <1>4, <1>5
<1>7. High(n) = q /\ Low(n) = n % M
  BY <1>6 DEF High, Low, q
<1> QED
  BY <1>2, <1>7

LEMMA SameWords ==
  ASSUME NEW m \in 0..(M * M - 1), NEW n \in 0..(M * M - 1), Low(m) = Low(n), High(m) = High(n)
  PROVE  m = n
BY TwoWords

(* Multiplying by an odd number mixes up no two words. *)
LEMMA OddInjective ==
  ASSUME NEW m \in Nat, m % 2 = 1, NEW x \in Word, NEW y \in Word, Low(m * x) = Low(m * y)
  PROVE  x = y
<1>1. M \in Nat \ {0} /\ x \in Int /\ y \in Int /\ x - y \in Int /\ m * x \in Int /\ m * y \in Int
      /\ -M < x - y /\ x - y < M
  BY WordFacts DEF Word
<1> DEFINE p == (m * x) \div M
           q == (m * y) \div M
<1>2. /\ p \in Int /\ q \in Int
      /\ m * x = M * p + ((m * x) % M) /\ (m * x) % M \in Int
      /\ m * y = M * q + ((m * y) % M) /\ (m * y) % M \in Int
  BY <1>1, DivisionFacts
<1>3. (m * x) % M = (m * y) % M
  BY DEF Low
<1> HIDE DEF p, q
<1>4. m * (x - y) = M * (p - q) /\ p - q \in Int
  <2>1. m * x - m * y = M * p - M * q
    BY <1>1, <1>2, <1>3
  <2>2. m * (x - y) = m * x - m * y /\ M * (p - q) = M * p - M * q
    BY <1>1, <1>2
  <2> QED
    BY <1>2, <2>1, <2>2
<1>5. PICK i \in Int : x - y = M * i
  <2> DEFINE d == x - y
             j == p - q
  <2>1. d \in Int /\ j \in Int /\ m * d = 2^Width * j /\ Width \in Nat
    BY <1>1, <1>4, RngAssumption DEF M
  <2> HIDE DEF d, j
  <2>2. \E i \in Int : d = 2^Width * i
    BY <2>1, OddMultiple
  <2> QED
    BY <2>2 DEF d, M
<1>6. i = 0
  <2>1. ASSUME i >= 1 PROVE FALSE
    <3>1. M * i >= M
      BY <1>1, <2>1
    <3> QED
      BY <1>1, <1>5, <3>1
  <2>2. ASSUME i <= -1 PROVE FALSE
    <3>1. M * i <= -M
      BY <1>1, <2>2
    <3> QED
      BY <1>1, <1>5, <3>1
  <2> QED
    BY <2>1, <2>2
<1>7. M * 0 = 0
  BY <1>1
<1> QED
  BY <1>1, <1>5, <1>6, <1>7

LEMMA XorCancels ==
  ASSUME NEW a \in Word, NEW b \in Word, NEW k \in Word
  PROVE  /\ WordXor(a, b) \in Word
         /\ WordXor(a, k) = WordXor(b, k) => a = b
         /\ WordXor(k, a) = WordXor(k, b) => a = b
BY XorAssumption

(* A round keeps counters apart. *)
LEMMA RoundShape ==
  ASSUME NEW c \in Words(4), NEW k \in Words(2)
  PROVE  PhiloxRound(c, k) \in Words(4)
<1>1. /\ c[1] \in Word /\ c[2] \in Word /\ c[3] \in Word /\ c[4] \in Word
      /\ k[1] \in Word /\ k[2] \in Word
  BY DEF Words
<1>2. Mul0 * c[1] \in Nat /\ Mul1 * c[3] \in Nat
  <2>1. Mul0 \in Nat /\ Mul1 \in Nat
    BY RngAssumption
  <2>2. c[1] \in Nat /\ c[3] \in Nat
    BY <1>1, WordFacts DEF Word
  <2> QED
    BY <2>1, <2>2
<1> DEFINE h == High(Mul1 * c[3])
           i == High(Mul0 * c[1])
           l == Low(Mul1 * c[3])
           o == Low(Mul0 * c[1])
<1>3. h \in Word /\ i \in Word /\ l \in Word /\ o \in Word
  BY <1>2, WordFacts
<1> HIDE DEF h, i, l, o
<1>4. WordXor(h, c[2]) \in Word /\ WordXor(i, c[4]) \in Word
  BY <1>1, <1>3, XorCancels
<1>5. WordXor(WordXor(h, c[2]), k[1]) \in Word /\ WordXor(WordXor(i, c[4]), k[2]) \in Word
  BY <1>1, <1>4, XorCancels
<1>6. PhiloxRound(c, k) = <<WordXor(WordXor(h, c[2]), k[1]), l, WordXor(WordXor(i, c[4]), k[2]), o>>
  BY DEF PhiloxRound, h, i, l, o
<1> QED
  BY <1>3, <1>5, <1>6 DEF Words

LEMMA RoundInjective ==
  ASSUME NEW c \in Words(4), NEW d \in Words(4), NEW k \in Words(2),
         PhiloxRound(c, k) = PhiloxRound(d, k)
  PROVE  c = d
<1>1. /\ c[1] \in Word /\ c[2] \in Word /\ c[3] \in Word /\ c[4] \in Word
      /\ d[1] \in Word /\ d[2] \in Word /\ d[3] \in Word /\ d[4] \in Word
      /\ k[1] \in Word /\ k[2] \in Word
  BY DEF Words
<1>2. /\ Low(Mul1 * c[3]) = Low(Mul1 * d[3]) /\ Low(Mul0 * c[1]) = Low(Mul0 * d[1])
      /\ WordXor(WordXor(High(Mul1 * c[3]), c[2]), k[1]) = WordXor(WordXor(High(Mul1 * d[3]), d[2]), k[1])
      /\ WordXor(WordXor(High(Mul0 * c[1]), c[4]), k[2]) = WordXor(WordXor(High(Mul0 * d[1]), d[4]), k[2])
  BY DEF PhiloxRound
<1>3. c[3] = d[3] /\ c[1] = d[1]
  BY <1>1, <1>2, OddInjective, RngAssumption
<1> DEFINE h == High(Mul1 * c[3])
           i == High(Mul0 * c[1])
<1>4. h \in Word /\ i \in Word
  <2>1. Mul0 * c[1] \in Nat /\ Mul1 * c[3] \in Nat
    BY <1>1, RngAssumption, WordFacts DEF Word
  <2> QED
    BY <2>1, WordFacts
<1>5. /\ WordXor(WordXor(h, c[2]), k[1]) = WordXor(WordXor(h, d[2]), k[1])
      /\ WordXor(WordXor(i, c[4]), k[2]) = WordXor(WordXor(i, d[4]), k[2])
  BY <1>2, <1>3
<1> HIDE DEF h, i
<1>6. /\ WordXor(h, c[2]) \in Word /\ WordXor(h, d[2]) \in Word
      /\ WordXor(i, c[4]) \in Word /\ WordXor(i, d[4]) \in Word
  BY <1>1, <1>4, XorCancels
<1>7. WordXor(h, c[2]) = WordXor(h, d[2]) /\ WordXor(i, c[4]) = WordXor(i, d[4])
  <2> DEFINE a == WordXor(h, c[2])
             b == WordXor(h, d[2])
             e == WordXor(i, c[4])
             f == WordXor(i, d[4])
  <2>1. a \in Word /\ b \in Word /\ e \in Word /\ f \in Word
    BY <1>6
  <2>2. WordXor(a, k[1]) = WordXor(b, k[1]) /\ WordXor(e, k[2]) = WordXor(f, k[2])
    BY <1>5
  <2> HIDE DEF a, b, e, f
  <2>3. a = b /\ e = f
    BY <1>1, <2>1, <2>2, XorCancels
  <2> QED
    BY <2>3 DEF a, b, e, f
<1>8. c[2] = d[2] /\ c[4] = d[4]
  BY <1>1, <1>4, <1>7, XorCancels
<1> QED
  BY <1>3, <1>8 DEF Words

LEMMA KeyShape ==
  ASSUME NEW k \in Words(2), NEW r \in Nat
  PROVE  RoundKey(k, r) \in Words(2)
<1>1. k[1] \in Int /\ k[2] \in Int /\ M \in Nat \ {0}
  BY WordFacts DEF Words, Word
<1>2. k[1] + r * Weyl0 \in Int /\ k[2] + r * Weyl1 \in Int
  BY <1>1, RngAssumption
<1>3. (k[1] + r * Weyl0) % M \in Word /\ (k[2] + r * Weyl1) % M \in Word
  BY <1>1, <1>2, DivisionFacts DEF Word
<1> QED
  BY <1>3 DEF RoundKey, Words

(* The rounds one after another. *)
Chain(f, c, k) ==
  /\ f[0] = c
  /\ \A r \in 1..Rounds : f[r] = PhiloxRound(f[r - 1], RoundKey(k, r - 1))

LEMMA ChainExists ==
  ASSUME NEW c \in Words(4), NEW k \in Words(2)
  PROVE  \E f \in [0..Rounds -> Words(4)] : Chain(f, c, k)
<1> DEFINE Upto(f, n) == f[0] = c /\ \A r \in 1..n : f[r] = PhiloxRound(f[r - 1], RoundKey(k, r - 1))
           P == {n \in Nat : \E f \in [0..n -> Words(4)] : Upto(f, n)}
<1>1. ASSUME NEW n \in Nat, \A l \in 0..(n - 1) : l \in P PROVE n \in P
  <2>1. CASE n = 0
    <3> DEFINE f == [r \in 0..0 |-> c]
    <3>1. f \in [0..0 -> Words(4)] /\ f[0] = c
      OBVIOUS
    <3>2. \A r \in 1..0 : FALSE
      OBVIOUS
    <3> HIDE DEF f
    <3> QED
      BY <2>1, <3>1, <3>2
  <2>2. CASE n > 0
    <3>1. n - 1 \in Nat /\ n - 1 \in P
      BY <1>1, <2>2
    <3>2. PICK g \in [0..(n - 1) -> Words(4)] : Upto(g, n - 1)
      BY <3>1
    <3> DEFINE f == [r \in 0..n |-> IF r = n THEN PhiloxRound(g[n - 1], RoundKey(k, n - 1)) ELSE g[r]]
    <3>3. PhiloxRound(g[n - 1], RoundKey(k, n - 1)) \in Words(4)
      BY <3>1, <3>2, RoundShape, KeyShape
    <3>4. f \in [0..n -> Words(4)]
      BY <3>3
    <3>5. f[0] = c
      BY <2>2, <3>2
    <3>6. ASSUME NEW r \in 1..n PROVE f[r] = PhiloxRound(f[r - 1], RoundKey(k, r - 1))
      <4>1. r - 1 \in 0..n /\ r - 1 # n /\ r \in 0..n
        OBVIOUS
      <4>2. f[r - 1] = g[r - 1]
        BY <4>1
      <4>3. CASE r = n
        BY <4>1, <4>2, <4>3
      <4>4. CASE r # n
        <5>1. r \in 1..(n - 1)
          BY <4>4
        <5>2. g[r] = PhiloxRound(g[r - 1], RoundKey(k, r - 1))
          BY <3>2, <5>1
        <5> QED
          BY <4>1, <4>2, <4>4, <5>2
      <4> QED
        BY <4>3, <4>4
    <3> HIDE DEF f
    <3> QED
      BY <3>4, <3>5, <3>6
  <2> QED
    BY <2>1, <2>2
<1> HIDE DEF P
<1>2. Rounds \in P
  BY <1>1, Climb, RngAssumption
<1> QED
  BY <1>2 DEF P, Chain

LEMMA PhiloxChain ==
  ASSUME NEW c \in Words(4), NEW k \in Words(2)
  PROVE  \E f \in [0..Rounds -> Words(4)] : Chain(f, c, k) /\ Philox(c, k) = f[Rounds]
<1> DEFINE Made(f) == [r \in 0..Rounds |->
              IF r = 0 THEN c ELSE PhiloxRound(f[r - 1], RoundKey(k, r - 1))]
           after == CHOOSE f : f = Made(f)
<1>1. PICK g \in [0..Rounds -> Words(4)] : Chain(g, c, k)
  BY ChainExists
<1>2. g = Made(g)
  <2>1. \A r \in 0..Rounds : g[r] = IF r = 0 THEN c ELSE PhiloxRound(g[r - 1], RoundKey(k, r - 1))
    BY <1>1, RngAssumption DEF Chain
  <2> QED
    BY <2>1
<1>3. after = Made(after)
  <2> HIDE DEF Made
  <2> QED
    BY <1>2
<1>4. Philox(c, k) = after[Rounds]
  BY DEF Philox
<1> HIDE DEF after
<1>5. /\ after = [r \in 0..Rounds |-> after[r]]
      /\ \A r \in 0..Rounds :
           after[r] = IF r = 0 THEN c ELSE PhiloxRound(after[r - 1], RoundKey(k, r - 1))
  BY <1>3
<1> HIDE DEF Made
<1>6. Chain(after, c, k)
  <2>1. 0 \in 0..Rounds /\ \A r \in 1..Rounds : r \in 0..Rounds /\ r # 0
    BY RngAssumption
  <2>2. after[0] = c
    BY <1>5, <2>1
  <2>3. \A r \in 1..Rounds : after[r] = PhiloxRound(after[r - 1], RoundKey(k, r - 1))
    BY <1>5, <2>1
  <2> QED
    BY <2>2, <2>3 DEF Chain
<1> DEFINE P == {n \in Nat : n \in 0..Rounds => after[n] \in Words(4)}
<1>7. ASSUME NEW n \in Nat, \A l \in 0..(n - 1) : l \in P PROVE n \in P
  <2> SUFFICES ASSUME n \in 0..Rounds PROVE after[n] \in Words(4)
    OBVIOUS
  <2>1. CASE n = 0
    BY <1>5, <2>1
  <2>2. CASE n # 0
    <3>1. n - 1 \in 0..(n - 1) /\ n - 1 \in 0..Rounds /\ n - 1 \in Nat
      BY <2>2, RngAssumption
    <3>2. after[n - 1] \in Words(4)
      BY <1>7, <3>1
    <3> QED
      BY <1>5, <2>2, <3>1, <3>2, RoundShape, KeyShape
  <2> QED
    BY <2>1, <2>2
<1> HIDE DEF P
<1>8. \A n \in Nat : n \in P
  BY <1>7, Climb
<1>9. \A r \in 0..Rounds : after[r] \in Words(4)
  BY <1>8, RngAssumption DEF P
<1>10. after \in [0..Rounds -> Words(4)]
  BY <1>5, <1>9
<1> QED
  BY <1>4, <1>6, <1>10

LEMMA PhiloxShape ==
  ASSUME NEW c \in Words(4), NEW k \in Words(2)
  PROVE  Philox(c, k) \in Words(4)
BY PhiloxChain, RngAssumption

(* Under one key no two counters meet, from the last round back to the first. *)
LEMMA PhiloxInjective ==
  ASSUME NEW c \in Words(4), NEW d \in Words(4), NEW k \in Words(2),
         Philox(c, k) = Philox(d, k)
  PROVE  c = d
<1>1. PICK f \in [0..Rounds -> Words(4)] : Chain(f, c, k) /\ Philox(c, k) = f[Rounds]
  BY PhiloxChain
<1>2. PICK g \in [0..Rounds -> Words(4)] : Chain(g, d, k) /\ Philox(d, k) = g[Rounds]
  BY PhiloxChain
<1> DEFINE P == {n \in Nat : n \in 0..Rounds => f[Rounds - n] = g[Rounds - n]}
<1>3. ASSUME NEW n \in Nat, \A l \in 0..(n - 1) : l \in P PROVE n \in P
  <2> SUFFICES ASSUME n \in 0..Rounds PROVE f[Rounds - n] = g[Rounds - n]
    OBVIOUS
  <2>1. CASE n = 0
    <3>1. Rounds - n = Rounds
      BY <2>1, RngAssumption
    <3> QED
      BY <1>1, <1>2, <3>1, Philox(c, k) = Philox(d, k)
  <2>2. CASE n # 0
    <3> DEFINE r == Rounds - (n - 1)
    <3>1. /\ n - 1 \in 0..(n - 1) /\ n - 1 \in 0..Rounds /\ r \in 1..Rounds
          /\ r - 1 = Rounds - n /\ r - 1 \in Nat /\ r - 1 \in 0..Rounds
      BY <2>2, RngAssumption
    <3>2. f[r] = g[r]
      BY <1>3, <3>1
    <3> HIDE DEF r
    <3>3. /\ f[r] = PhiloxRound(f[r - 1], RoundKey(k, r - 1))
          /\ g[r] = PhiloxRound(g[r - 1], RoundKey(k, r - 1))
      BY <1>1, <1>2, <3>1 DEF Chain
    <3>4. RoundKey(k, r - 1) \in Words(2) /\ f[r - 1] \in Words(4) /\ g[r - 1] \in Words(4)
      BY <3>1, KeyShape
    <3>5. f[r - 1] = g[r - 1]
      BY <3>2, <3>3, <3>4, RoundInjective
    <3> QED
      BY <3>1, <3>5
  <2> QED
    BY <2>1, <2>2
<1> HIDE DEF P
<1>4. Rounds \in P /\ Rounds \in Nat
  BY <1>3, Climb, RngAssumption
<1>5. f[Rounds - Rounds] = g[Rounds - Rounds]
  BY <1>4 DEF P
<1>6. f[0] = g[0]
  BY <1>4, <1>5
<1> QED
  BY <1>1, <1>2, <1>6 DEF Chain

LEMMA WordCount ==
  IsFiniteSet(Words(4)) /\ Cardinality(Words(4)) = M * M * M * M
<1> DEFINE W2 == Word \X Word
           W3 == W2 \X Word
           W4 == W3 \X Word
           f == [p \in W4 |-> <<p[1][1][1], p[1][1][2], p[1][2], p[2]>>]
<1>1. IsFiniteSet(Word) /\ Cardinality(Word) = M
  <2>1. 0 \in Int /\ M - 1 \in Int /\ M \in Nat \ {0}
    BY WordFacts
  <2>2. IsFiniteSet(0..(M - 1)) /\ Cardinality(0..(M - 1)) = IF 0 > M - 1 THEN 0 ELSE (M - 1) - 0 + 1
    BY <2>1, FS_Interval
  <2> QED
    BY <2>1, <2>2 DEF Word
<1>2. IsFiniteSet(W2) /\ Cardinality(W2) = M * M
  BY <1>1, FS_Product
<1>3. f \in [W4 -> Words(4)]
  <2>1. ASSUME NEW p \in W4 PROVE f[p] \in Words(4)
    <3>1. p[1][1][1] \in Word /\ p[1][1][2] \in Word /\ p[1][2] \in Word /\ p[2] \in Word
      OBVIOUS
    <3> QED
      BY <3>1 DEF Words
  <2> QED
    BY <2>1
<1>4. ASSUME NEW p \in W4, NEW q \in W4, f[p] = f[q] PROVE p = q
  <2>1. /\ p[1][1][1] = q[1][1][1] /\ p[1][1][2] = q[1][1][2] /\ p[1][2] = q[1][2] /\ p[2] = q[2]
    BY <1>4
  <2>2. p[1] \in W3 /\ q[1] \in W3 /\ p[1][1] \in W2 /\ q[1][1] \in W2
    OBVIOUS
  <2>3. p[1][1] = q[1][1]
    BY <2>1, <2>2
  <2> HIDE DEF W2
  <2>4. p[1] = q[1]
    BY <2>1, <2>2, <2>3
  <2> HIDE DEF W3
  <2> QED
    BY <2>1, <2>4
<1>5. ASSUME NEW w \in Words(4) PROVE \E p \in W4 : f[p] = w
  <2> DEFINE p == <<<<<<w[1], w[2]>>, w[3]>>, w[4]>>
  <2>1. w[1] \in Word /\ w[2] \in Word /\ w[3] \in Word /\ w[4] \in Word /\ w = <<w[1], w[2], w[3], w[4]>>
    BY DEF Words
  <2>2. p \in W4 /\ f[p] = <<w[1], w[2], w[3], w[4]>>
    BY <2>1
  <2> QED
    BY <2>1, <2>2
<1>6. f \in Bijection(W4, Words(4))
  <2> HIDE DEF f, W4
  <2> QED
    BY <1>3, <1>4, <1>5 DEF Bijection, Injection, IsInjective, Surjection
<1> HIDE DEF f, W2
<1>7. IsFiniteSet(W3) /\ Cardinality(W3) = M * M * M
  BY <1>1, <1>2, FS_Product
<1> HIDE DEF W3
<1>8. IsFiniteSet(W4) /\ Cardinality(W4) = M * M * M * M
  BY <1>1, <1>7, FS_Product
<1> HIDE DEF W4
<1> QED
  BY <1>6, <1>8, FS_Bijection DEF ExistsBijection

(* Under one key Philox is a permutation of the counters. *)
LEMMA PhiloxPermutes ==
  ASSUME NEW k \in Words(2)
  PROVE  Cardinality({Philox(c, k) : c \in Words(4)}) = M * M * M * M
<1> DEFINE I == {Philox(c, k) : c \in Words(4)}
           f == [c \in Words(4) |-> Philox(c, k)]
<1>1. f \in [Words(4) -> I]
  OBVIOUS
<1>2. ASSUME NEW c \in Words(4), NEW d \in Words(4), f[c] = f[d] PROVE c = d
  BY <1>2, PhiloxInjective
<1>3. \A i \in I : \E c \in Words(4) : f[c] = i
  OBVIOUS
<1> HIDE DEF f, I
<1>4. f \in Bijection(Words(4), I)
  BY <1>1, <1>2, <1>3 DEF Bijection, Injection, IsInjective, Surjection
<1>5. Cardinality(I) = M * M * M * M
  BY <1>4, WordCount, FS_Bijection DEF ExistsBijection
<1> QED
  BY <1>5 DEF I

-----------------------------------------------------------------------------
(* The inductive invariant: the key is the seed, the upper half of the      *)
(* counter is the stream, and every draw was recorded with what these and   *)
(* the number of its call were.                                             *)
InputOf(s, t, n) == <<<<Low(n), High(n), Low(t), High(t)>>, <<Low(s), High(s)>>>>
GeneratorOK(g) ==
  /\ seed[g] \in Seeds /\ stream[g] \in Streams
  /\ key[g] = <<Low(seed[g]), High(seed[g])>>
  /\ counter[g] \in Words(4) /\ counter[g][3] = Low(stream[g]) /\ counter[g][4] = High(stream[g])
  /\ callIndex[g] \in 0..MaxCalls /\ drawn[g] = callIndex[g]
DrawOK(d) ==
  /\ d.seed \in Seeds /\ d.stream \in Streams /\ d.index \in 0..(M * M - 1)
  /\ d.input = InputOf(d.seed, d.stream, d.index)
  /\ d.output \in 0..(M * M - 1)
RngInv ==
  /\ seed \in [Generators -> Seeds] /\ stream \in [Generators -> Streams]
  /\ DOMAIN key = Generators /\ DOMAIN counter = Generators
  /\ DOMAIN callIndex = Generators /\ DOMAIN drawn = Generators
  /\ \A g \in Generators : GeneratorOK(g)
  /\ \A d \in draws : DrawOK(d)

LEMMA LongNumbers ==
  /\ \A s \in Seeds : s \in Nat /\ s \in 0..(M * M - 1) /\ High(s) \in Word /\ Low(s) \in Word
  /\ \A s \in Streams : s \in Nat /\ s \in 0..(M * M - 1) /\ High(s) \in Word /\ Low(s) \in Word
BY RngAssumption, WordFacts

LEMMA InputsApart ==
  ASSUME NEW d, NEW e, DrawOK(d), DrawOK(e)
  PROVE  d.input = e.input <=> SameCall(d, e)
<1>1. ASSUME d.input = e.input PROVE SameCall(d, e)
  <2>1. InputOf(d.seed, d.stream, d.index) = InputOf(e.seed, e.stream, e.index)
    BY <1>1 DEF DrawOK
  <2>2. /\ Low(d.seed) = Low(e.seed) /\ High(d.seed) = High(e.seed)
        /\ Low(d.stream) = Low(e.stream) /\ High(d.stream) = High(e.stream)
        /\ Low(d.index) = Low(e.index) /\ High(d.index) = High(e.index)
    BY <2>1 DEF InputOf
  <2>3. /\ d.seed \in 0..(M * M - 1) /\ e.seed \in 0..(M * M - 1)
        /\ d.stream \in 0..(M * M - 1) /\ e.stream \in 0..(M * M - 1)
        /\ d.index \in 0..(M * M - 1) /\ e.index \in 0..(M * M - 1)
    BY LongNumbers DEF DrawOK
  <2>4. d.seed = e.seed
    BY <2>2, <2>3, SameWords
  <2>5. d.stream = e.stream
    BY <2>2, <2>3, SameWords
  <2>6. d.index = e.index
    BY <2>2, <2>3, SameWords
  <2> QED
    BY <2>4, <2>5, <2>6 DEF SameCall
<1>2. ASSUME SameCall(d, e) PROVE d.input = e.input
  BY <1>2 DEF SameCall, DrawOK
<1> QED
  BY <1>1, <1>2

(* The counter and the key of a generator are words. *)
LEMMA GeneratorWords ==
  ASSUME NEW g \in Generators, GeneratorOK(g)
  PROVE  /\ key[g] \in Words(2) /\ callIndex[g] \in Nat
         /\ CounterOf(g, callIndex[g]) \in Words(4)
         /\ <<CounterOf(g, callIndex[g]), key[g]>> = InputOf(seed[g], stream[g], drawn[g])
<1>1. /\ Low(seed[g]) \in Word /\ High(seed[g]) \in Word
      /\ Low(stream[g]) \in Word /\ High(stream[g]) \in Word
  BY LongNumbers DEF GeneratorOK
<1>2. callIndex[g] \in Nat
  BY RngAssumption, WordFacts DEF GeneratorOK
<1>3. Low(callIndex[g]) \in Word /\ High(callIndex[g]) \in Word
  BY <1>2, WordFacts
<1>4. CounterOf(g, callIndex[g]) = <<Low(callIndex[g]), High(callIndex[g]), Low(stream[g]), High(stream[g])>>
  BY DEF CounterOf, GeneratorOK
<1>5. key[g] = <<Low(seed[g]), High(seed[g])>> /\ drawn[g] = callIndex[g]
  BY DEF GeneratorOK
<1> QED
  BY <1>1, <1>2, <1>3, <1>4, <1>5 DEF InputOf, Words

LEMMA OutputShape ==
  ASSUME NEW g \in Generators, GeneratorOK(g)
  PROVE  Output(g) \in 0..(M * M - 1)
<1> DEFINE out == Philox(CounterOf(g, callIndex[g]), key[g])
<1>1. out \in Words(4)
  BY GeneratorWords, PhiloxShape
<1>2. out[1] \in Word /\ out[2] \in Word
  BY <1>1 DEF Words
<1>3. Output(g) = out[1] * M + out[2]
  BY DEF Output
<1> HIDE DEF out
<1>4. ASSUME NEW a \in 0..(M - 1), NEW b \in 0..(M - 1) PROVE a * M + b \in 0..(M * M - 1)
  <2>1. M \in Nat \ {0} /\ a \in Int /\ b \in Int /\ 0 <= a /\ a <= M - 1 /\ 0 <= b /\ b <= M - 1
    BY WordFacts
  <2>2. a * M <= (M - 1) * M /\ 0 <= a * M /\ a * M \in Int
    BY <2>1
  <2>3. (M - 1) * M = M * M - M /\ M * M \in Int
    BY <2>1
  <2> QED
    BY <2>1, <2>2, <2>3
<1> QED
  BY <1>2, <1>3, <1>4 DEF Word

LEMMA RngBegins == RngInit => RngInv
<1> SUFFICES ASSUME RngInit PROVE RngInv
  OBVIOUS
<1> USE DEF RngInit
<1>1. 0 \in Word /\ 0 \in 0..MaxCalls
  BY WordFacts, RngAssumption DEF Word
<1>2. ASSUME NEW g \in Generators PROVE GeneratorOK(g)
  <2>1. seed[g] \in Seeds /\ stream[g] \in Streams
    OBVIOUS
  <2>2. Low(stream[g]) \in Word /\ High(stream[g]) \in Word
    BY <2>1, LongNumbers
  <2>3. counter[g] = <<0, 0, Low(stream[g]), High(stream[g])>>
    OBVIOUS
  <2>4. counter[g] \in Words(4)
    BY <1>1, <2>2, <2>3 DEF Words
  <2> QED
    BY <1>1, <2>1, <2>3, <2>4 DEF GeneratorOK
<1> QED
  BY <1>2 DEF RngInv

(* seed() starts a generator again; the draws of the past keep their record. *)
LEMMA SeedKeeps ==
  ASSUME RngInv, NEW g \in Generators, NEW s \in Seeds, NEW t \in Streams, Seed(g, s, t)
  PROVE  RngInv'
<1> USE DEF RngInv, Seed
<1>1. ASSUME NEW h \in Generators PROVE GeneratorOK(h)'
  <2>1. CASE h = g
    <3>1. /\ seed'[g] = s /\ stream'[g] = t /\ key'[g] = <<Low(s), High(s)>>
          /\ counter'[g] = <<0, 0, Low(t), High(t)>> /\ callIndex'[g] = 0 /\ drawn'[g] = 0
      OBVIOUS
    <3>2. 0 \in Word /\ 0 \in 0..MaxCalls /\ Low(t) \in Word /\ High(t) \in Word
      BY WordFacts, RngAssumption, LongNumbers DEF Word
    <3>3. <<0, 0, Low(t), High(t)>> \in Words(4)
      BY <3>2 DEF Words
    <3> QED
      BY <2>1, <3>1, <3>2, <3>3 DEF GeneratorOK
  <2>2. CASE h # g
    <3>1. /\ seed'[h] = seed[h] /\ stream'[h] = stream[h] /\ key'[h] = key[h]
          /\ counter'[h] = counter[h] /\ callIndex'[h] = callIndex[h] /\ drawn'[h] = drawn[h]
      BY <2>2
    <3>2. GeneratorOK(h)
      OBVIOUS
    <3> QED
      BY <3>1, <3>2 DEF GeneratorOK
  <2> QED
    BY <2>1, <2>2
<1>2. \A d \in draws' : DrawOK(d)
  OBVIOUS
<1> QED
  BY <1>1, <1>2

(* next_u64() records a draw that is what the generator stands for. *)
LEMMA NextU64Keeps ==
  ASSUME RngInv, NEW g \in Generators, NextU64(g)
  PROVE  RngInv'
<1> USE DEF RngInv
<1> DEFINE n == callIndex[g]
           c == CounterOf(g, n)
<1>1. GeneratorOK(g) /\ n \in 0..MaxCalls /\ n < MaxCalls /\ drawn[g] = n
  BY DEF GeneratorOK, NextU64
<1>2. MaxCalls \in Nat /\ MaxCalls <= M * M /\ M * M \in Nat
  BY RngAssumption, WordFacts
<1>3. c \in Words(4) /\ c[3] = Low(stream[g]) /\ c[4] = High(stream[g])
      /\ <<c, key[g]>> = InputOf(seed[g], stream[g], drawn[g])
  <2>1. c[3] = counter[g][3] /\ c[4] = counter[g][4]
    BY DEF CounterOf
  <2> QED
    BY <1>1, <2>1, GeneratorWords DEF GeneratorOK
<1>4. DrawOK(DrawOf(g))
  <2> DEFINE d == DrawOf(g)
  <2>1. /\ d.seed = seed[g] /\ d.stream = stream[g] /\ d.index = drawn[g]
        /\ d.input = <<c, key[g]>> /\ d.output = Output(g)
    BY DEF DrawOf
  <2>2. drawn[g] \in 0..(M * M - 1)
    BY <1>1, <1>2
  <2>3. Output(g) \in 0..(M * M - 1)
    BY <1>1, OutputShape
  <2> HIDE DEF d, c
  <2> QED
    BY <1>1, <1>3, <2>1, <2>2, <2>3 DEF DrawOK, GeneratorOK, d
<1>5. ASSUME NEW h \in Generators PROVE GeneratorOK(h)'
  <2>1. /\ seed'[h] = seed[h] /\ stream'[h] = stream[h] /\ key'[h] = key[h]
    BY DEF NextU64
  <2>2. CASE h = g
    <3>1. counter'[g] = c /\ callIndex'[g] = n + 1 /\ drawn'[g] = drawn[g] + 1
      BY DEF NextU64
    <3>2. n + 1 \in 0..MaxCalls
      BY <1>1, <1>2
    <3> HIDE DEF c
    <3> QED
      BY <1>1, <1>3, <2>1, <2>2, <3>1, <3>2 DEF GeneratorOK
  <2>3. CASE h # g
    <3>1. counter'[h] = counter[h] /\ callIndex'[h] = callIndex[h] /\ drawn'[h] = drawn[h]
      BY <2>3 DEF NextU64
    <3>2. GeneratorOK(h)
      OBVIOUS
    <3> QED
      BY <2>1, <3>1, <3>2 DEF GeneratorOK
  <2> QED
    BY <2>2, <2>3
<1>6. \A d \in draws' : DrawOK(d)
  BY <1>4 DEF NextU64
<1>7. /\ DOMAIN key' = Generators /\ DOMAIN counter' = Generators
      /\ DOMAIN callIndex' = Generators /\ DOMAIN drawn' = Generators
      /\ seed' = seed /\ stream' = stream
  BY DEF NextU64
<1> QED
  BY <1>5, <1>6, <1>7

LEMMA RngInvariant == RngSpec => []RngInv
<1>1. RngInv /\ [RngNext]_rngVars => RngInv'
  <2>1. ASSUME RngInv, UNCHANGED rngVars PROVE RngInv'
    BY <2>1 DEF RngInv, rngVars, GeneratorOK
  <2> QED
    BY <2>1, SeedKeeps, NextU64Keeps DEF RngNext
<1> QED
  BY <1>1, RngBegins, PTL DEF RngSpec

(* Counters, keys and outputs stay within their words. *)
THEOREM WordsStayWords == RngSpec => []RngTypeOK
<1>1. RngInv => RngTypeOK
  <2> SUFFICES ASSUME RngInv PROVE RngTypeOK
    OBVIOUS
  <2>1. ASSUME NEW g \in Generators
        PROVE  key[g] \in Words(2) /\ counter[g] \in Words(4) /\ callIndex[g] \in 0..MaxCalls
    BY GeneratorWords DEF RngInv, GeneratorOK
  <2>2. \A d \in draws : d.output \in 0..(M * M - 1)
    BY DEF RngInv, DrawOK
  <2> QED
    BY <2>1, <2>2 DEF RngTypeOK
<1> QED
  BY <1>1, RngInvariant, PTL

(* For every width of the words, number of rounds, odd multipliers and Weyl  *)
(* constants: however generators are seeded again and drawn from, two draws  *)
(* have the same input just when they are the same call of the same seed and *)
(* stream, and under each generator's key Philox is a permutation of the     *)
(* counters.                                                                 *)
THEOREM DrawsStayApart == RngSpec => []DrawsApart
<1>1. RngInv => DrawsApart
  <2> SUFFICES ASSUME RngInv PROVE DrawsApart
    OBVIOUS
  <2>1. ASSUME NEW d \in draws, NEW e \in draws PROVE d.input = e.input <=> SameCall(d, e)
    BY InputsApart DEF RngInv
  <2>2. ASSUME NEW g \in Generators
        PROVE  Cardinality({Philox(c, key[g]) : c \in Words(4)}) = M * M * M * M
    BY GeneratorWords, PhiloxPermutes DEF RngInv
  <2> QED
    BY <2>1, <2>2 DEF DrawsApart
<1> QED
  BY <1>1, RngInvariant, PTL

-----------------------------------------------------------------------------
(* The arena. *)

(* The inductive invariant: below the bump pointer the blocks are packed in *)
(* the order of the calls, so a new one, which starts no lower, meets none. *)
ArenaInv ==
  /\ offset \in 0..Capacity
  /\ \A b \in blocks : b.start \in Nat /\ b.bytes \in Nat /\ Fits(b)
  /\ \A b, c \in blocks : b # c => Disjoint(b, c)

(* Rounding up to a multiple. *)
LEMMA RoundsUp ==
  ASSUME NEW n \in Nat, NEW m \in Nat \ {0}
  PROVE  LET r == ((n + m - 1) \div m) * m
         IN r \in Nat /\ r % m = 0 /\ n <= r /\ r < n + m
<1> DEFINE q == (n + m - 1) \div m
<1>1. q \in Int /\ (n + m - 1) % m \in 0..(m - 1) /\ n + m - 1 = q * m + ((n + m - 1) % m)
  BY SMT
<1>2. q * m \in Int /\ n <= q * m /\ q * m < n + m
  BY <1>1, SMT
<1>3. (q * m) % m = 0
  BY <1>1, MultipleOf
<1> QED
  BY <1>2, <1>3

(* Where the next block starts. *)
LEMMA AlignedUp ==
  ASSUME offset \in 0..Capacity
  PROVE  /\ AlignedOffset \in Nat /\ AlignedOffset % Alignment = 0
         /\ offset <= AlignedOffset /\ AlignedOffset < Capacity + Alignment
<1>1. offset \in Nat /\ Alignment \in Nat \ {0} /\ Capacity \in Nat /\ offset <= Capacity
  BY ArenaAssumption
<1> DEFINE r == ((offset + Alignment - 1) \div Alignment) * Alignment
<1>2. r \in Nat /\ r % Alignment = 0 /\ offset <= r /\ r < offset + Alignment
  BY <1>1, RoundsUp
<1>3. AlignedOffset = r
  BY DEF AlignedOffset
<1> HIDE DEF r
<1> QED
  BY <1>1, <1>2, <1>3

(* A block is packed above the others, or refused. *)
LEMMA AllocateKeeps ==
  ASSUME NoWrap, ArenaInv, NEW bytes \in Requests, Allocate(bytes)
  PROVE  ArenaInv'
<1>1. CASE UNCHANGED arenaVars
  BY <1>1 DEF arenaVars, ArenaInv, Fits
<1>2. CASE /\ End(bytes) <= Capacity
           /\ offset' = End(bytes)
           /\ blocks' = blocks \cup {[start |-> AlignedOffset, bytes |-> bytes]}
  <2> DEFINE a == AlignedOffset
             new == [start |-> a, bytes |-> bytes]
  <2>1. /\ bytes \in Nat /\ SizeRange \in Nat /\ Capacity \in Nat /\ Alignment \in Nat
        /\ Capacity + Alignment + bytes < SizeRange
    BY ArenaAssumption DEF NoWrap
  <2>2. /\ a \in Nat /\ a % Alignment = 0 /\ offset \in Nat /\ offset <= a
        /\ a < Capacity + Alignment
    BY <2>1, AlignedUp DEF ArenaInv
  <2> HIDE DEF a
  <2>3. (a + bytes) % SizeRange = a + bytes
    BY <2>1, <2>2, SMT
  <2>4. offset' = a + bytes /\ offset' \in 0..Capacity /\ blocks' = blocks \cup {new}
    BY <1>2, <2>1, <2>2, <2>3 DEF End, a
  <2>5. new.start = a /\ new.bytes = bytes
    OBVIOUS
  <2>6. ASSUME NEW b \in blocks
        PROVE  /\ b.start \in Nat /\ b.bytes \in Nat
               /\ b.start % Alignment = 0 /\ b.start + b.bytes <= offset
    BY <2>6 DEF ArenaInv, Fits
  <2>7. ASSUME NEW b \in blocks'
        PROVE  b.start \in Nat /\ b.bytes \in Nat /\ Fits(b)'
    <3>1. CASE b \in blocks
      BY <2>1, <2>2, <2>4, <2>6, <3>1 DEF Fits
    <3>2. CASE b = new
      BY <2>1, <2>2, <2>4, <2>5, <3>2 DEF Fits
    <3> QED
      BY <2>4, <3>1, <3>2
  <2>8. ASSUME NEW b \in blocks', NEW c \in blocks', b # c
        PROVE  Disjoint(b, c)
    <3>1. CASE b \in blocks /\ c \in blocks
      BY <2>8, <3>1 DEF ArenaInv
    <3>2. CASE b \in blocks /\ c = new
      BY <2>2, <2>5, <2>6, <3>2 DEF Disjoint
    <3>3. CASE b = new /\ c \in blocks
      BY <2>2, <2>5, <2>6, <3>3 DEF Disjoint
    <3> QED
      BY <2>4, <2>8, <3>1, <3>2, <3>3
  <2> QED
    BY <2>4, <2>7, <2>8 DEF ArenaInv
<1> QED
  BY <1>1, <1>2 DEF Allocate

(* Unless a request is so large that the sum wraps around, the blocks that *)
(* are in use lie in the buffer, start aligned and share no byte, through  *)
(* every sequence of requests, refusals and resets.                        *)
THEOREM BlocksNeverOverlap == ArenaSpec => []BlocksApart
<1>1. ArenaInit => (NoWrap => ArenaInv)
  BY ArenaAssumption DEF ArenaInit, ArenaInv
<1>2. (NoWrap => ArenaInv) /\ [ArenaNext]_arenaVars => (NoWrap => ArenaInv)'
  <2> SUFFICES ASSUME NoWrap, ArenaInv, [ArenaNext]_arenaVars PROVE ArenaInv'
    BY DEF NoWrap
  <2>1. CASE Reset
    BY <2>1, ArenaAssumption DEF Reset, ArenaInv
  <2>2. CASE UNCHANGED arenaVars
    BY <2>2 DEF arenaVars, ArenaInv, Fits
  <2> QED
    BY <2>1, <2>2, AllocateKeeps DEF ArenaNext
<1>3. (NoWrap => ArenaInv) => BlocksApart
  BY DEF ArenaInv, BlocksApart
<1> QED
  BY <1>1, <1>2, <1>3, PTL DEF ArenaSpec

(* The bump pointer stays within the buffer and every block has its type,   *)
(* even when a request is so large that the sum wraps around.               *)
THEOREM ArenaTypeCorrect == ArenaSpec => []ArenaTypeOK
<1>1. ArenaInit => ArenaTypeOK
  BY ArenaAssumption DEF ArenaInit, ArenaTypeOK
<1>2. ArenaTypeOK /\ [ArenaNext]_arenaVars => ArenaTypeOK'
  <2> SUFFICES ASSUME ArenaTypeOK, [ArenaNext]_arenaVars PROVE ArenaTypeOK'
    OBVIOUS
  <2>1. ASSUME NEW bytes \in Requests, Allocate(bytes), ~ UNCHANGED arenaVars PROVE ArenaTypeOK'
    <3>1. AlignedOffset \in 0..(Capacity + Alignment)
      <4>1. AlignedOffset \in Nat /\ AlignedOffset < Capacity + Alignment
        BY AlignedUp DEF ArenaTypeOK
      <4> QED
        BY <4>1, ArenaAssumption
    <3>2. /\ End(bytes) <= Capacity /\ offset' = End(bytes)
          /\ blocks' = blocks \cup {[start |-> AlignedOffset, bytes |-> bytes]}
      BY <2>1 DEF Allocate
    <3>3. End(bytes) \in Nat
      <4>1. SizeRange \in Nat \ {0} /\ AlignedOffset + bytes \in Int
        BY <3>1, ArenaAssumption
      <4>2. (AlignedOffset + bytes) % SizeRange \in 0..(SizeRange - 1)
        BY <4>1, DivisionFacts
      <4> QED
        BY <4>1, <4>2 DEF End
    <3>4. offset' \in 0..Capacity
      BY <3>2, <3>3, ArenaAssumption
    <3> QED
      BY <3>1, <3>2, <3>4 DEF ArenaTypeOK
  <2>2. CASE Reset
    BY <2>2, ArenaAssumption DEF Reset, ArenaTypeOK
  <2>3. CASE UNCHANGED arenaVars
    BY <2>3 DEF arenaVars, ArenaTypeOK
  <2> QED
    BY <2>1, <2>2, <2>3 DEF ArenaNext
<1> QED
  BY <1>1, <1>2, PTL DEF ArenaSpec

-----------------------------------------------------------------------------
(* The services together. *)

(* What a program does that uses one service is, for every other service,   *)
(* nothing: each behaviour of core/ is a behaviour of the neighbour list, of *)
(* the lattice, of the generators and of the arena.                         *)
THEOREM CoreImplementsServices == CoreSpec => Spec /\ LatticeSpec /\ RngSpec /\ ArenaSpec
<1>1. CoreInit => Init /\ LatticeInit /\ RngInit /\ ArenaInit
  BY DEF CoreInit
<1>2. [CoreNext]_<<vars, latticeVars, rngVars, arenaVars, service>> =>
        [Next]_vars /\ [LatticeNext]_latticeVars /\ [RngNext]_rngVars /\ [ArenaNext]_arenaVars
  BY DEF CoreNext
<1> QED
  BY <1>1, <1>2, PTL DEF CoreSpec, Spec, LatticeSpec, RngSpec, ArenaSpec

(* Every variable of every service keeps its type. *)
THEOREM CoreTypeCorrect == CoreSpec => []CoreTypeOK
BY CoreImplementsServices, VerletTypeCorrect, LatticeTypeCorrect, WordsStayWords, ArenaTypeCorrect, PTL
   DEF CoreTypeOK
=============================================================================
