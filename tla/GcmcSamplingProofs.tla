-------------------------- MODULE GcmcSamplingProofs --------------------------
(***************************************************************************)
(* Detailed balance of the grand-canonical moves, for every set of species,*)
(* every template, cell, field, activity and interaction table.            *)
(*                                                                         *)
(* A move and the one back differ from a common bag of molecules by one    *)
(* molecule each (Taken, Added), so the weights, the draws and the ratios  *)
(* of the two are products of the same few factors (PairBalance); what is  *)
(* left to each kind of move is which draws lead where (Leading).          *)
(***************************************************************************)
EXTENDS GcmcSampling, FiniteSetTheorems, TLAPS

-----------------------------------------------------------------------------

-----------------------------------------------------------------------------
(* Folds over finite sets: sums of integers, products of positive numbers. *)

Below == {ss \in Nat \X Nat : ss[1] < ss[2]}

LEMMA PartInduction ==
  ASSUME NEW S, IsFiniteSet(S), NEW P,
         \A s \in SUBSET S : (\A y \in s : s \ {y} \in P) => s \in P
  PROVE  S \in P
<1> DEFINE T == {i \in Nat : \E s \in SUBSET S : s \notin P /\ Cardinality(s) = i}
<1>1. ASSUME NEW s \in SUBSET S PROVE IsFiniteSet(s) /\ Cardinality(s) \in Nat
  BY FS_Subset, FS_CardinalityType
<1>2. SUFFICES ASSUME T # {} PROVE FALSE
  BY <1>1
<1>3. IsWellFoundedOn(Below, Nat)
  BY NatLessThanWellFounded DEF OpToRel, Below
<1>4. PICK m \in T : \A k \in T : <<k, m>> \notin Below
  BY <1>2, <1>3, WFMin
<1>5. PICK s \in SUBSET S : s \notin P /\ Cardinality(s) = m
  OBVIOUS
<1>6. PICK y \in s : s \ {y} \notin P
  BY <1>5
<1>7. Cardinality(s \ {y}) = m - 1 /\ m - 1 \in Nat
  <2>1. IsFiniteSet(s) /\ m \in Nat /\ m # 0
    BY <1>1, <1>5, <1>6, FS_EmptySet
  <2>2. Cardinality(s \ {y}) = Cardinality(s) - 1
    BY <2>1, FS_RemoveElement
  <2> QED
    BY <1>5, <2>1, <2>2
<1>8. m - 1 \in T /\ <<m - 1, m>> \in Below
  BY <1>6, <1>7 DEF Below
<1> QED
  BY <1>4, <1>8

-----------------------------------------------------------------------------
(***************************************************************************)
(* Folds of an operation in which two terms may change places.             *)
(***************************************************************************)
Exchangeable(op, V) ==
  /\ op \in [V -> [V -> V]]
  /\ \A x, y, z \in V : op[x][op[y][z]] = op[y][op[x][z]]

(* a gives the fold of f over every part of S, whichever element is taken   *)
(* out first.                                                              *)
FoldedBy(a, op, one, V, f, S) ==
  /\ a \in [SUBSET S -> V] /\ a[{}] = one
  /\ \A s \in SUBSET S : \A y \in s : a[s] = op[f[y]][a[s \ {y}]]

LEMMA FoldExists ==
  ASSUME NEW V, NEW op, Exchangeable(op, V), NEW one \in V,
         NEW S, IsFiniteSet(S), NEW f, \A x \in S : f[x] \in V
  PROVE  \E a : FoldedBy(a, op, one, V, f, S)
<1> DEFINE P == {s \in SUBSET S : \E a : FoldedBy(a, op, one, V, f, s)}
<1>0. /\ \A u, v \in V : op[u][v] \in V
      /\ \A u, v, w \in V : op[u][op[v][w]] = op[v][op[u][w]]
  BY DEF Exchangeable
<1>1. ASSUME NEW s \in SUBSET S, \A y \in s : s \ {y} \in P PROVE s \in P
  <2>1. CASE s = {}
    <3> DEFINE a == [t \in SUBSET {} |-> one]
    <3>1. a \in [SUBSET {} -> V] /\ a[{}] = one /\ SUBSET {} = {{}}
      OBVIOUS
    <3> HIDE DEF a
    <3>2. FoldedBy(a, op, one, V, f, {})
      BY <3>1 DEF FoldedBy
    <3> QED
      BY <2>1, <3>2
  <2>2. ASSUME NEW x \in s PROVE s \in P
    <3> DEFINE r == s \ {x}
    <3>1. PICK a : FoldedBy(a, op, one, V, f, r)
      BY <1>1, <2>2
    <3> DEFINE b == [t \in SUBSET s |-> IF x \in t THEN op[f[x]][a[t \ {x}]] ELSE a[t]]
    <3>2. \A t \in SUBSET r : a[t] \in V
      BY <3>1 DEF FoldedBy
    <3>3. \A t \in SUBSET s : t \ {x} \in SUBSET r /\ (x \notin t => t \in SUBSET r)
      OBVIOUS
    <3>4. \A y \in s : f[y] \in V
      OBVIOUS
    <3>5. \A t \in SUBSET s : b[t] \in V
      <4>1. ASSUME NEW t \in SUBSET s, x \in t PROVE b[t] \in V
        <5>1. b[t] = op[f[x]][a[t \ {x}]] /\ f[x] \in V /\ a[t \ {x}] \in V
          BY <3>2, <3>3, <3>4, <4>1
        <5> HIDE DEF b
        <5> QED
          BY <1>0, <5>1
      <4> QED
        BY <3>2, <3>3, <4>1
    <3>6. b[{}] = one
      BY <3>1 DEF FoldedBy
    <3>7. ASSUME NEW t \in SUBSET s, NEW y \in t PROVE b[t] = op[f[y]][b[t \ {y}]]
      <4> DEFINE u == (t \ {x}) \ {y}
      <4>1. CASE y = x
        BY <4>1
      <4>2. CASE y # x /\ x \in t
        <5>1. b[t] = op[f[x]][a[t \ {x}]] /\ b[t \ {y}] = op[f[x]][a[(t \ {y}) \ {x}]]
          BY <4>2
        <5>2. (t \ {y}) \ {x} = u /\ u \in SUBSET r /\ y \in t \ {x} /\ t \ {x} \in SUBSET r
          BY <4>2
        <5>3. a[t \ {x}] = op[f[y]][a[u]]
          BY <3>1, <5>2 DEF FoldedBy
        <5>4. a[u] \in V /\ f[x] \in V /\ f[y] \in V
          BY <3>2, <3>4, <5>2
        <5>5. b[t \ {y}] = op[f[x]][a[u]]
          BY <5>1, <5>2
        <5> HIDE DEF b, u
        <5>6. op[f[x]][op[f[y]][a[u]]] = op[f[y]][op[f[x]][a[u]]]
          BY <1>0, <5>4
        <5> QED
          BY <5>1, <5>3, <5>5, <5>6
      <4>3. CASE x \notin t
        <5>1. b[t] = a[t] /\ b[t \ {y}] = a[t \ {y}] /\ t \in SUBSET r
          BY <3>3, <4>3
        <5> QED
          BY <3>1, <5>1 DEF FoldedBy
      <4> QED
        BY <4>1, <4>2, <4>3
    <3>8. b \in [SUBSET s -> V]
      BY <3>5
    <3> HIDE DEF b
    <3>9. FoldedBy(b, op, one, V, f, s)
      BY <3>6, <3>7, <3>8 DEF FoldedBy
    <3> QED
      BY <3>9
  <2> QED
    BY <2>1, <2>2
<1> HIDE DEF P
<1>2. S \in P
  BY <1>1, PartInduction
<1> QED
  BY <1>2 DEF P

(* The fold of the community modules takes out whatever CHOOSE finds.       *)
Picked(s) == CHOOSE x \in s : TRUE

Positive == Nat \ {0}
Adding == [x \in Int |-> [y \in Int |-> x + y]]
Multiplying == [x \in Positive |-> [y \in Positive |-> x * y]]

LEMMA ProductPositive == \A x, y \in Positive : x * y \in Positive
BY SMT DEF Positive

LEMMA AddingExchanges == Exchangeable(Adding, Int)
BY DEF Exchangeable, Adding

LEMMA MultiplyingExchanges == Exchangeable(Multiplying, Positive)
<1>1. \A x, y \in Positive : Multiplying[x][y] = x * y /\ x * y \in Positive
  BY ProductPositive DEF Multiplying
<1>2. Multiplying \in [Positive -> [Positive -> Positive]]
  BY ProductPositive DEF Multiplying
<1>3. ASSUME NEW x \in Positive, NEW y \in Positive, NEW z \in Positive
      PROVE  Multiplying[x][Multiplying[y][z]] = Multiplying[y][Multiplying[x][z]]
  <2>1. x * (y * z) = y * (x * z)
    BY SMT DEF Positive
  <2> QED
    BY <1>1, <2>1
<1> QED
  BY <1>2, <1>3 DEF Exchangeable

(* The sums of the model, and its products. *)
LEMMA SumsFold ==
  ASSUME NEW S, IsFiniteSet(S), NEW f, NEW a, FoldedBy(a, Adding, 0, Int, f, S),
         \A x \in S : f[x] \in Int
  PROVE  SumFunctionOnSet(f, S) = a[S]
<1> DEFINE SumsDown(h) ==
             h = [s \in SUBSET S |-> IF s = {} THEN 0 ELSE f[Picked(s)] + h[s \ {Picked(s)}]]
<1>1. SumsDown(a)
  <2>1. ASSUME NEW s \in SUBSET S
        PROVE  a[s] = IF s = {} THEN 0 ELSE f[Picked(s)] + a[s \ {Picked(s)}]
    <3>1. s # {} => Picked(s) \in s
      BY DEF Picked
    <3>2. s # {} => f[Picked(s)] \in Int /\ a[s \ {Picked(s)}] \in Int
      BY <3>1 DEF FoldedBy
    <3> QED
      BY <3>1, <3>2 DEF FoldedBy, Adding
  <2> QED
    BY <2>1 DEF FoldedBy
<1>2. PICK h : h = (CHOOSE g : SumsDown(g)) /\ SumFunctionOnSet(f, S) = h[S]
  BY DEF SumFunctionOnSet, FoldFunctionOnSet, MapThenFoldSet, Picked
<1>3. SumsDown(h)
  BY <1>1, <1>2
<1> DEFINE P == {s \in SUBSET S : h[s] = a[s]}
<1>4. ASSUME NEW s \in SUBSET S, \A y \in s : s \ {y} \in P PROVE s \in P
  <2>1. h[s] = IF s = {} THEN 0 ELSE f[Picked(s)] + h[s \ {Picked(s)}]
    BY <1>3
  <2>2. a[s] = IF s = {} THEN 0 ELSE f[Picked(s)] + a[s \ {Picked(s)}]
    BY <1>1
  <2>3. s # {} => Picked(s) \in s
    BY DEF Picked
  <2> QED
    BY <1>4, <2>1, <2>2, <2>3
<1> HIDE DEF P
<1>5. S \in P
  BY <1>4, PartInduction
<1> QED
  BY <1>2, <1>5 DEF P

ProductOn(f, S) == FoldFunctionOnSet(LAMBDA x, y : x * y, 1, f, S)

LEMMA ProductsFold ==
  ASSUME NEW S, IsFiniteSet(S), NEW f, NEW a, FoldedBy(a, Multiplying, 1, Positive, f, S),
         \A x \in S : f[x] \in Positive
  PROVE  ProductOn(f, S) = a[S]
<1> DEFINE TimesDown(h) ==
             h = [s \in SUBSET S |-> IF s = {} THEN 1 ELSE f[Picked(s)] * h[s \ {Picked(s)}]]
<1>1. TimesDown(a)
  <2>1. ASSUME NEW s \in SUBSET S
        PROVE  a[s] = IF s = {} THEN 1 ELSE f[Picked(s)] * a[s \ {Picked(s)}]
    <3>1. s # {} => Picked(s) \in s
      BY DEF Picked
    <3>2. s # {} => f[Picked(s)] \in Positive /\ a[s \ {Picked(s)}] \in Positive
      BY <3>1 DEF FoldedBy
    <3> QED
      BY <3>1, <3>2 DEF FoldedBy, Multiplying
  <2> QED
    BY <2>1 DEF FoldedBy
<1>2. PICK h : h = (CHOOSE g : TimesDown(g)) /\ ProductOn(f, S) = h[S]
  BY DEF ProductOn, FoldFunctionOnSet, MapThenFoldSet, Picked
<1>3. TimesDown(h)
  BY <1>1, <1>2
<1> DEFINE P == {s \in SUBSET S : h[s] = a[s]}
<1>4. ASSUME NEW s \in SUBSET S, \A y \in s : s \ {y} \in P PROVE s \in P
  <2>1. h[s] = IF s = {} THEN 1 ELSE f[Picked(s)] * h[s \ {Picked(s)}]
    BY <1>3
  <2>2. a[s] = IF s = {} THEN 1 ELSE f[Picked(s)] * a[s \ {Picked(s)}]
    BY <1>1
  <2>3. s # {} => Picked(s) \in s
    BY DEF Picked
  <2> QED
    BY <1>4, <2>1, <2>2, <2>3
<1> HIDE DEF P
<1>5. S \in P
  BY <1>4, PartInduction
<1> QED
  BY <1>2, <1>5 DEF P

LEMMA SumIsInt ==
  ASSUME NEW S, IsFiniteSet(S), NEW f, \A x \in S : f[x] \in Int
  PROVE  SumFunctionOnSet(f, S) \in Int
<1>1. 0 \in Int
  OBVIOUS
<1>2. \E a : FoldedBy(a, Adding, 0, Int, f, S)
  BY <1>1, AddingExchanges, FoldExists
<1>3. PICK a : FoldedBy(a, Adding, 0, Int, f, S)
  BY <1>2
<1>4. a[S] \in Int
  BY <1>3 DEF FoldedBy
<1> QED
  BY <1>3, <1>4, SumsFold

LEMMA ProductFacts ==
  ASSUME NEW S, IsFiniteSet(S), NEW f, \A x \in S : f[x] \in Positive
  PROVE  /\ ProductOn(f, S) \in Positive /\ ProductOn(f, {}) = 1
         /\ \A x \in S : /\ ProductOn(f, S) = f[x] * ProductOn(f, S \ {x})
                         /\ ProductOn(f, S \ {x}) \in Positive
<1>1. 1 \in Positive
  BY DEF Positive
<1>2. PICK a : FoldedBy(a, Multiplying, 1, Positive, f, S)
  BY <1>1, MultiplyingExchanges, FoldExists
<1>3. ASSUME NEW s \in SUBSET S PROVE ProductOn(f, s) = a[s] /\ a[s] \in Positive
  <2> DEFINE b == [t \in SUBSET s |-> a[t]]
  <2>1. b \in [SUBSET s -> Positive] /\ b[{}] = 1 /\ b[s] = a[s]
        /\ \A t \in SUBSET s : \A y \in t : b[t] = Multiplying[f[y]][b[t \ {y}]]
    BY <1>2 DEF FoldedBy
  <2>2. IsFiniteSet(s)
    BY FS_Subset
  <2> HIDE DEF b
  <2>3. FoldedBy(b, Multiplying, 1, Positive, f, s)
    BY <2>1 DEF FoldedBy
  <2> QED
    BY <2>1, <2>2, <2>3, ProductsFold
<1>4. ASSUME NEW x \in S PROVE a[S] = f[x] * a[S \ {x}]
  <2>1. a[S] = Multiplying[f[x]][a[S \ {x}]] /\ f[x] \in Positive /\ a[S \ {x}] \in Positive
    BY <1>2 DEF FoldedBy
  <2> QED
    BY <2>1 DEF Multiplying
<1>5. a[{}] = 1
  BY <1>2 DEF FoldedBy
<1> QED
  BY <1>3, <1>4, <1>5

(* Only the factors matter. *)
LEMMA ProductSame ==
  ASSUME NEW S, IsFiniteSet(S), NEW f, NEW g, \A x \in S : f[x] \in Positive /\ g[x] = f[x]
  PROVE  ProductOn(g, S) = ProductOn(f, S)
<1>1. 1 \in Positive
  BY DEF Positive
<1>2. PICK a : FoldedBy(a, Multiplying, 1, Positive, f, S)
  BY <1>1, MultiplyingExchanges, FoldExists
<1>3. FoldedBy(a, Multiplying, 1, Positive, g, S)
  <2>1. ASSUME NEW s \in SUBSET S, NEW y \in s PROVE a[s] = Multiplying[g[y]][a[s \ {y}]]
    <3>1. a[s] = Multiplying[f[y]][a[s \ {y}]] /\ g[y] = f[y]
      BY <1>2 DEF FoldedBy
    <3> QED
      BY <3>1
  <2> QED
    BY <1>2, <2>1 DEF FoldedBy
<1> QED
  BY <1>2, <1>3, ProductsFold

LEMMA ProductIsOnDomain == \A f : Product(f) = ProductOn(f, DOMAIN f)
BY DEF Product, FoldFunction, ProductOn

-----------------------------------------------------------------------------
(* Boltzmann factors and acceptance probabilities. *)

LEMMA Cancel ==
  ASSUME NEW a \in Positive, NEW x \in Int, NEW y \in Int, a * x = a * y
  PROVE  x = y
<1>1. a \in Int /\ a >= 1
  BY DEF Positive
<1>2. a * (x - y) = 0
  BY <1>1
<1>3. ASSUME x - y >= 1 PROVE FALSE
  BY <1>1, <1>2, <1>3
<1>4. ASSUME x - y <= -1 PROVE FALSE
  BY <1>1, <1>2, <1>4
<1> QED
  BY <1>3, <1>4

LEMMA TwoIsPositive == ASSUME NEW n \in Nat PROVE 2^n \in Positive
<1>1. IsFiniteSet(1..n) /\ Cardinality(1..n) = n
  BY FS_Interval
<1>2. IsFiniteSet(SUBSET (1..n)) /\ Cardinality(SUBSET (1..n)) = 2^n
  BY <1>1, FS_SUBSET
<1>3. SUBSET (1..n) # {}
  OBVIOUS
<1> QED
  BY <1>2, <1>3, FS_CardinalityType, FS_EmptySet DEF Positive

LEMMA TwoAdds == ASSUME NEW m \in Nat, NEW n \in Nat PROVE 2^(m + n) = 2^m * 2^n
<1> DEFINE S == 1..m
           T == (m + 1)..(m + n)
           U == 1..(m + n)
           f == [p \in (SUBSET S) \X (SUBSET T) |-> p[1] \cup p[2]]
<1>1. /\ IsFiniteSet(S) /\ Cardinality(S) = m /\ IsFiniteSet(T) /\ Cardinality(T) = n
      /\ IsFiniteSet(U) /\ Cardinality(U) = m + n
  <2>1. 1 \in Int /\ m \in Int /\ m + 1 \in Int /\ m + n \in Int
    OBVIOUS
  <2>2. IsFiniteSet(S) /\ Cardinality(S) = IF 1 > m THEN 0 ELSE m - 1 + 1
    BY <2>1, FS_Interval
  <2>3. IsFiniteSet(T) /\ Cardinality(T) = IF m + 1 > m + n THEN 0 ELSE (m + n) - (m + 1) + 1
    BY <2>1, FS_Interval
  <2>4. IsFiniteSet(U) /\ Cardinality(U) = IF 1 > m + n THEN 0 ELSE (m + n) - 1 + 1
    BY <2>1, FS_Interval
  <2> HIDE DEF S, T, U
  <2> QED
    BY <2>2, <2>3, <2>4
<1>2. U = S \cup T /\ S \cap T = {}
  OBVIOUS
<1>3. /\ IsFiniteSet(SUBSET S) /\ Cardinality(SUBSET S) = 2^m
      /\ IsFiniteSet(SUBSET T) /\ Cardinality(SUBSET T) = 2^n
      /\ Cardinality(SUBSET U) = 2^(m + n)
  BY <1>1, FS_SUBSET
<1> HIDE DEF S, T, U
<1>4. /\ IsFiniteSet((SUBSET S) \X (SUBSET T))
      /\ Cardinality((SUBSET S) \X (SUBSET T)) = 2^m * 2^n
  <2> DEFINE A == SUBSET S
             B == SUBSET T
  <2>1. IsFiniteSet(A) /\ Cardinality(A) = 2^m /\ IsFiniteSet(B) /\ Cardinality(B) = 2^n
    BY <1>3
  <2> HIDE DEF A, B
  <2>2. IsFiniteSet(A \X B) /\ Cardinality(A \X B) = Cardinality(A) * Cardinality(B)
    BY <2>1, FS_Product
  <2> QED
    BY <2>1, <2>2 DEF A, B
<1>5. f \in [(SUBSET S) \X (SUBSET T) -> SUBSET U]
  BY <1>2
<1>6. ASSUME NEW p \in (SUBSET S) \X (SUBSET T), NEW q \in (SUBSET S) \X (SUBSET T), f[p] = f[q]
      PROVE  p = q
  <2>1. p[1] = (p[1] \cup p[2]) \cap S /\ p[2] = (p[1] \cup p[2]) \cap T
    BY <1>2
  <2>2. q[1] = (q[1] \cup q[2]) \cap S /\ q[2] = (q[1] \cup q[2]) \cap T
    BY <1>2
  <2>3. p[1] \cup p[2] = q[1] \cup q[2]
    BY <1>6
  <2>4. p = <<p[1], p[2]>> /\ q = <<q[1], q[2]>>
    OBVIOUS
  <2> QED
    BY <2>1, <2>2, <2>3, <2>4
<1>7. ASSUME NEW u \in SUBSET U PROVE \E p \in (SUBSET S) \X (SUBSET T) : f[p] = u
  <2>1. <<u \cap S, u \cap T>> \in (SUBSET S) \X (SUBSET T) /\ f[<<u \cap S, u \cap T>>] = u
    BY <1>2
  <2> QED
    BY <2>1
<1> HIDE DEF f
<1>8. f \in Bijection((SUBSET S) \X (SUBSET T), SUBSET U)
  BY <1>5, <1>6, <1>7 DEF Bijection, Injection, IsInjective, Surjection
<1>9. ExistsBijection((SUBSET S) \X (SUBSET T), SUBSET U)
  BY <1>8 DEF ExistsBijection
<1> QED
  BY <1>3, <1>4, <1>9, FS_Bijection

Up(e) == Boltzmann(e)[1]
Down(e) == Boltzmann(e)[2]

LEMMA BoltzmannShape ==
  ASSUME NEW e \in Int
  PROVE  /\ Boltzmann(e) = <<Up(e), Down(e)>>
         /\ Up(e) \in Positive /\ Down(e) \in Positive
         /\ e >= 0 => Up(e) = 1 /\ Down(e) = 2^e
         /\ e < 0 => Up(e) = 2^(-e) /\ Down(e) = 1
<1>1. 1 \in Positive
  BY DEF Positive
<1>2. CASE e >= 0
  <2>1. Boltzmann(e) = <<1, 2^e>> /\ 2^e \in Positive
    BY <1>2, TwoIsPositive DEF Boltzmann
  <2> QED
    BY <1>1, <1>2, <2>1 DEF Up, Down
<1>3. CASE e < 0
  <2>1. Boltzmann(e) = <<2^(-e), 1>> /\ 2^(-e) \in Positive
    BY <1>3, TwoIsPositive DEF Boltzmann
  <2> QED
    BY <1>1, <1>3, <2>1 DEF Up, Down
<1> QED
  BY <1>2, <1>3

(* exp(-(d + e)) = exp(-d) exp(-e) *)
LEMMA BoltzmannAdds ==
  ASSUME NEW d \in Int, NEW e \in Int
  PROVE  (Up(d) * Up(e)) * Down(d + e) = (Down(d) * Down(e)) * Up(d + e)
<1>0. ASSUME NEW x \in Nat, NEW y \in Nat, NEW z \in Nat, z = x + y
      PROVE  2^z = 2^x * 2^y /\ 2^z \in Int /\ 2^x \in Int /\ 2^y \in Int
  BY <1>0, TwoAdds, TwoIsPositive DEF Positive
<1>1. /\ Up(d) \in Int /\ Down(d) \in Int /\ Up(e) \in Int /\ Down(e) \in Int
      /\ Up(d + e) \in Int /\ Down(d + e) \in Int
  BY BoltzmannShape DEF Positive
<1>2. CASE d >= 0 /\ e >= 0
  <2>1. 2^(d + e) = 2^d * 2^e
    BY <1>0, <1>2
  <2>2. Up(d) = 1 /\ Up(e) = 1 /\ Up(d + e) = 1 /\ Down(d) = 2^d /\ Down(e) = 2^e /\ Down(d + e) = 2^(d + e)
    BY <1>2, BoltzmannShape
  <2> QED
    BY <1>1, <2>1, <2>2
<1>3. CASE d < 0 /\ e < 0
  <2>1. 2^(-(d + e)) = 2^(-d) * 2^(-e)
    BY <1>0, <1>3
  <2>2. /\ Down(d) = 1 /\ Down(e) = 1 /\ Down(d + e) = 1
        /\ Up(d) = 2^(-d) /\ Up(e) = 2^(-e) /\ Up(d + e) = 2^(-(d + e))
    BY <1>3, BoltzmannShape
  <2> QED
    BY <1>1, <2>1, <2>2
<1>4. CASE d >= 0 /\ e < 0 /\ d + e >= 0
  <2>1. 2^d = 2^(-e) * 2^(d + e)
    BY <1>0, <1>4
  <2>2. /\ Up(d) = 1 /\ Down(e) = 1 /\ Up(d + e) = 1
        /\ Down(d) = 2^d /\ Up(e) = 2^(-e) /\ Down(d + e) = 2^(d + e)
    BY <1>4, BoltzmannShape
  <2> QED
    BY <1>1, <2>1, <2>2
<1>5. CASE d >= 0 /\ e < 0 /\ d + e < 0
  <2>1. 2^(-e) = 2^d * 2^(-(d + e))
    BY <1>0, <1>5
  <2>2. /\ Up(d) = 1 /\ Down(e) = 1 /\ Down(d + e) = 1
        /\ Down(d) = 2^d /\ Up(e) = 2^(-e) /\ Up(d + e) = 2^(-(d + e))
    BY <1>5, BoltzmannShape
  <2> QED
    BY <1>1, <2>1, <2>2
<1>6. CASE d < 0 /\ e >= 0 /\ d + e >= 0
  <2>1. 2^e = 2^(-d) * 2^(d + e)
    BY <1>0, <1>6
  <2>2. /\ Up(e) = 1 /\ Down(d) = 1 /\ Up(d + e) = 1
        /\ Down(e) = 2^e /\ Up(d) = 2^(-d) /\ Down(d + e) = 2^(d + e)
    BY <1>6, BoltzmannShape
  <2> QED
    BY <1>1, <2>1, <2>2
<1>7. CASE d < 0 /\ e >= 0 /\ d + e < 0
  <2>1. 2^(-d) = 2^e * 2^(-(d + e))
    BY <1>0, <1>7
  <2>2. /\ Up(e) = 1 /\ Down(d) = 1 /\ Down(d + e) = 1
        /\ Down(e) = 2^e /\ Up(d) = 2^(-d) /\ Up(d + e) = 2^(-(d + e))
    BY <1>7, BoltzmannShape
  <2> QED
    BY <1>1, <2>1, <2>2
<1> QED
  BY <1>2, <1>3, <1>4, <1>5, <1>6, <1>7

(* Metropolis: f and g are what flows each way before a ratio is applied. *)
LEMMA ClampBalances ==
  ASSUME NEW f \in Int, NEW g \in Int,
         NEW r1 \in Positive, NEW r2 \in Positive, NEW s1 \in Positive, NEW s2 \in Positive,
         r1 * s1 = r2 * s2, f * r1 = g * r2
  PROVE  f * (ClampToProbability(<<r1, r2>>)[1] * ClampToProbability(<<s1, s2>>)[2])
           = g * (ClampToProbability(<<s1, s2>>)[1] * ClampToProbability(<<r1, r2>>)[2])
<1>1. r1 \in Int /\ r2 \in Int /\ s1 \in Int /\ s2 \in Int /\ r1 >= 1 /\ r2 >= 1 /\ s1 >= 1 /\ s2 >= 1
  BY DEF Positive
<1>2. CASE r1 < r2
  <2>1. ~(s1 < s2)
    <3>1. ASSUME s1 < s2 PROVE FALSE
      <4>1. r1 * s1 < r2 * s1
        BY <1>1, <1>2
      <4>2. r2 * s1 < r2 * s2
        BY <1>1, <3>1
      <4>3. r1 * s1 \in Int /\ r2 * s1 \in Int /\ r2 * s2 \in Int
        BY <1>1
      <4> QED
        BY <4>1, <4>2, <4>3
    <3> QED
      BY <3>1
  <2>2. /\ ClampToProbability(<<r1, r2>>) = <<r1, r2>>
        /\ ClampToProbability(<<s1, s2>>) = <<1, 1>>
    BY <1>2, <2>1 DEF ClampToProbability
  <2> QED
    BY <1>1, <2>2
<1>3. CASE r1 = r2
  <2>1. s1 = s2
    <3>1. r1 * s1 = r1 * s2
      BY <1>3
    <3> QED
      BY <1>1, <3>1, Cancel
  <2>2. f = g
    <3>1. r1 * f = r1 * g
      BY <1>1, <1>3
    <3> QED
      BY <1>1, <3>1, Cancel
  <2>3. /\ ClampToProbability(<<r1, r2>>) = <<1, 1>>
        /\ ClampToProbability(<<s1, s2>>) = <<1, 1>>
    BY <1>1, <1>3, <2>1 DEF ClampToProbability
  <2> QED
    BY <2>2, <2>3
<1>4. CASE r1 > r2
  <2>1. s1 < s2
    <3>1. ASSUME s1 >= s2 PROVE FALSE
      <4>1. r1 * s1 > r2 * s1
        BY <1>1, <1>4
      <4>2. r2 * s1 >= r2 * s2
        BY <1>1, <3>1
      <4>3. r1 * s1 \in Int /\ r2 * s1 \in Int /\ r2 * s2 \in Int
        BY <1>1
      <4> QED
        BY <4>1, <4>2, <4>3
    <3> QED
      BY <1>1, <3>1
  <2>2. /\ ClampToProbability(<<r1, r2>>) = <<1, 1>>
        /\ ClampToProbability(<<s1, s2>>) = <<s1, s2>>
    BY <1>1, <1>4, <2>1 DEF ClampToProbability
  <2>3. r1 * (f * s2) = r1 * (g * s1)
    <3>1. r1 * (f * s2) = (f * r1) * s2
      BY <1>1
    <3>2. r1 * (g * s1) = g * (r1 * s1)
      BY <1>1
    <3>3. g * (r2 * s2) = (g * r2) * s2
      BY <1>1
    <3> QED
      BY <3>1, <3>2, <3>3
  <2>4. f * s2 = g * s1
    BY <1>1, <2>3, Cancel
  <2> QED
    BY <1>1, <2>2, <2>4
<1> QED
  BY <1>1, <1>2, <1>3, <1>4

-----------------------------------------------------------------------------
(* Bags of placed molecules. *)

Bags == [Placements -> Nat]
Added(m, p) == [m EXCEPT ![p] = @ + 1]
Ways(p) == Cardinality(Orientations(p.species))

LEMMA PlacementShape ==
  ASSUME NEW p \in Placements
  PROVE  /\ p.species \in Species /\ p.ref \in 0..(L - 1) /\ p.o \in Orientations(p.species)
         /\ p = [species |-> p.species, ref |-> p.ref, o |-> p.o]
<1>1. PICK sp \in Species : p \in [species : {sp}, ref : 0..(L - 1), o : Orientations(sp)]
  BY DEF Placements
<1> QED
  BY <1>1

LEMMA PlacementIntro ==
  ASSUME NEW sp \in Species, NEW r \in 0..(L - 1), NEW o \in Orientations(sp)
  PROVE  [species |-> sp, ref |-> r, o |-> o] \in Placements
BY DEF Placements

LEMMA SignsFinite == IsFiniteSet({1, -1})
<1>1. IsFiniteSet({1})
  BY FS_Singleton
<1>2. IsFiniteSet({1} \cup {-1})
  BY <1>1, FS_AddElement
<1>3. {1} \cup {-1} = {1, -1}
  OBVIOUS
<1> QED
  BY <1>2, <1>3

LEMMA OrientationsFinite ==
  ASSUME NEW sp \in Species
  PROVE  /\ Orientations(sp) \subseteq {1, -1} /\ 1 \in Orientations(sp)
         /\ IsFiniteSet(Orientations(sp)) /\ Cardinality(Orientations(sp)) \in Positive
<1>1. Orientations(sp) \subseteq {1, -1} /\ 1 \in Orientations(sp)
  BY DEF Orientations
<1>2. IsFiniteSet({1, -1})
  BY SignsFinite
<1>3. IsFiniteSet(Orientations(sp))
  BY <1>1, <1>2, FS_Subset
<1> QED
  BY <1>1, <1>3, FS_CardinalityType, FS_EmptySet DEF Positive

LEMMA PlacementsFinite == IsFiniteSet(Placements)
<1> DEFINE D == (Species \X (0..(L - 1))) \X {1, -1}
           R == [species : Species, ref : 0..(L - 1), o : {1, -1}]
           f == [t \in D |-> [species |-> t[1][1], ref |-> t[1][2], o |-> t[2]]]
<1>1. IsFiniteSet(Species) /\ IsFiniteSet(0..(L - 1)) /\ IsFiniteSet({1, -1})
  <2>1. L - 1 \in Int /\ 0 \in Int
    BY CellAssumption
  <2>2. IsFiniteSet({1, -1})
    BY SignsFinite
  <2> QED
    BY <2>1, <2>2, SamplingAssumption, FS_Interval
<1>2. IsFiniteSet(Species \X (0..(L - 1)))
  BY <1>1, FS_Product
<1>3. IsFiniteSet(D)
  BY <1>1, <1>2, FS_Product
<1>4. f \in Surjection(D, R)
  <2>1. f \in [D -> R]
    OBVIOUS
  <2>2. ASSUME NEW r \in R PROVE \E t \in D : f[t] = r
    <3>1. <<<<r.species, r.ref>>, r.o>> \in D
      OBVIOUS
    <3>2. f[<<<<r.species, r.ref>>, r.o>>] = r
      BY <3>1
    <3> QED
      BY <3>1, <3>2
  <2> HIDE DEF f, D, R
  <2> QED
    BY <2>1, <2>2 DEF Surjection
<1>5. Placements \in SUBSET R
  BY PlacementShape, OrientationsFinite
<1> HIDE DEF f, D, R
<1>6. IsFiniteSet(R)
  BY <1>3, <1>4, FS_Surjection
<1> QED
  BY <1>5, <1>6, FS_Subset

(* How many molecules there are. *)
LEMMA MoleculesFinite ==
  ASSUME NEW b \in Bags, NEW S
  PROVE  IsFiniteSet(MoleculesOf(b, S)) /\ Count(b, S) \in Nat
<1>1. IsFiniteSet(1..MaxMolecules)
  BY SamplingAssumption, FS_Interval
<1>2. IsFiniteSet(Placements \X (1..MaxMolecules))
  BY <1>1, PlacementsFinite, FS_Product
<1>3. MoleculesOf(b, S) \in SUBSET (Placements \X (1..MaxMolecules))
  BY DEF MoleculesOf
<1>4. IsFiniteSet(MoleculesOf(b, S))
  BY <1>2, <1>3, FS_Subset
<1> QED
  BY <1>4, FS_CardinalityType DEF Count

LEMMA AddedShape ==
  ASSUME NEW m \in Bags, NEW p \in Placements
  PROVE  /\ Added(m, p) \in Bags /\ Added(m, p)[p] = m[p] + 1 /\ m[p] \in Nat
         /\ \A x \in Placements : x # p => Added(m, p)[x] = m[x]
BY DEF Bags, Added

LEMMA CountAdded ==
  ASSUME NEW m \in Bags, NEW p \in Placements, NEW S, m[p] < MaxMolecules
  PROVE  /\ p.species \in S => Count(Added(m, p), S) = Count(m, S) + 1
         /\ p.species \notin S => Count(Added(m, p), S) = Count(m, S)
<1> DEFINE b == Added(m, p)
           new == <<p, m[p] + 1>>
<1>1. /\ b \in Bags /\ b[p] = m[p] + 1 /\ m[p] \in Nat /\ MaxMolecules \in Nat
      /\ \A x \in Placements : x # p => b[x] = m[x]
  BY AddedShape, SamplingAssumption
<1> HIDE DEF b
<1>2. CASE p.species \in S
  <2>1. MoleculesOf(b, S) = MoleculesOf(m, S) \cup {new}
    <3>1. ASSUME NEW q \in Placements \X (1..MaxMolecules), q[1] # p
          PROVE  q \in MoleculesOf(b, S) <=> q \in MoleculesOf(m, S)
      BY <1>1, <3>1 DEF MoleculesOf
    <3>2. ASSUME NEW k \in 1..MaxMolecules
          PROVE  /\ <<p, k>> \in MoleculesOf(b, S) <=> k <= m[p] + 1
                 /\ <<p, k>> \in MoleculesOf(m, S) <=> k <= m[p]
      BY <1>1, <1>2, <3>2 DEF MoleculesOf
    <3>3. new \in Placements \X (1..MaxMolecules)
      BY <1>1
    <3>4. ASSUME NEW q \in Placements \X (1..MaxMolecules), q[1] = p
          PROVE  q \in MoleculesOf(b, S) <=> q \in MoleculesOf(m, S) \cup {new}
      <4>1. q = <<p, q[2]>> /\ q[2] \in 1..MaxMolecules
        BY <3>4
      <4>2. q[2] <= m[p] + 1 <=> (q[2] <= m[p] \/ q[2] = m[p] + 1)
        BY <1>1, <4>1
      <4> QED
        BY <3>2, <4>1, <4>2
    <3>5. /\ MoleculesOf(b, S) \subseteq Placements \X (1..MaxMolecules)
          /\ MoleculesOf(m, S) \subseteq Placements \X (1..MaxMolecules)
      BY DEF MoleculesOf
    <3>6. ASSUME NEW q \in Placements \X (1..MaxMolecules)
          PROVE  q \in MoleculesOf(b, S) <=> q \in MoleculesOf(m, S) \cup {new}
      BY <3>1, <3>4
    <3> QED
      BY <3>3, <3>5, <3>6
  <2>2. new \notin MoleculesOf(m, S)
    BY <1>1 DEF MoleculesOf
  <2>3. IsFiniteSet(MoleculesOf(m, S))
    BY MoleculesFinite
  <2>4. Cardinality(MoleculesOf(m, S) \cup {new}) = Cardinality(MoleculesOf(m, S)) + 1
    BY <2>2, <2>3, FS_AddElement
  <2> QED
    BY <1>2, <2>1, <2>4 DEF Count, b
<1>3. CASE p.species \notin S
  <2>1. MoleculesOf(b, S) = MoleculesOf(m, S)
    BY <1>1, <1>3 DEF MoleculesOf
  <2> QED
    BY <1>3, <2>1 DEF Count, b
<1> QED
  BY <1>2, <1>3

LEMMA UpTo == ASSUME NEW n \in Nat PROVE IsFiniteSet(1..n) /\ Cardinality(1..n) = n
<1>1. 1 \in Int /\ n \in Int
  OBVIOUS
<1>2. IsFiniteSet(1..n) /\ Cardinality(1..n) = IF 1 > n THEN 0 ELSE n - 1 + 1
  BY <1>1, FS_Interval
<1> QED
  BY <1>2

LEMMA AtMostCount ==
  ASSUME NEW b \in Bags, NEW p \in Placements, b[p] <= MaxMolecules
  PROVE  b[p] <= Count(b, Species)
<1>1. b[p] \in Nat /\ MaxMolecules \in Nat /\ p.species \in Species
  BY PlacementShape, SamplingAssumption DEF Bags
<1>2. IsFiniteSet(1..b[p]) /\ Cardinality(1..b[p]) = b[p]
  BY <1>1, UpTo
<1> DEFINE f == [k \in 1..b[p] |-> <<p, k>>]
<1>3. f \in Injection(1..b[p], MoleculesOf(b, Species))
  <2>1. \A k \in 1..b[p] : <<p, k>> \in MoleculesOf(b, Species)
    BY <1>1 DEF MoleculesOf
  <2>2. \A k, l \in 1..b[p] : f[k] = f[l] => k = l
    OBVIOUS
  <2>3. f \in [1..b[p] -> MoleculesOf(b, Species)]
    BY <2>1
  <2> HIDE DEF f
  <2> QED
    BY <2>2, <2>3 DEF Injection, IsInjective
<1> HIDE DEF f
<1>4. IsFiniteSet(MoleculesOf(b, Species))
  BY MoleculesFinite
<1>5. Cardinality(1..b[p]) <= Cardinality(MoleculesOf(b, Species))
  BY <1>3, <1>4, FS_Injection
<1> QED
  BY <1>2, <1>5 DEF Count

(* The activities and the counting factors of a configuration. *)
Activities(b) == Product([p \in Placements |-> Power(Activity[p.species], b[p])])
Copies(b) == Product([p \in Placements |-> Power(Ways(p), b[p]) * Factorial(b[p])])

LEMMA PowerFacts ==
  ASSUME NEW x \in Positive, NEW n \in Nat
  PROVE  /\ Power(x, n) \in Positive
         /\ Power(x, n + 1) = x * Power(x, n)
<1> DEFINE f == [i \in 1..n |-> x]
           g == [i \in 1..(n + 1) |-> x]
<1>1. IsFiniteSet(1..n) /\ IsFiniteSet(1..(n + 1))
  BY FS_Interval
<1>2. \A i \in 1..n : f[i] \in Positive /\ g[i] = f[i]
  OBVIOUS
<1>3. \A i \in 1..(n + 1) : g[i] \in Positive
  OBVIOUS
<1>4. Power(x, n) = ProductOn(f, 1..n) /\ Power(x, n + 1) = ProductOn(g, 1..(n + 1))
  BY ProductIsOnDomain DEF Power
<1>5. n + 1 \in 1..(n + 1) /\ (1..(n + 1)) \ {n + 1} = 1..n /\ g[n + 1] = x
  OBVIOUS
<1> HIDE DEF f, g
<1>6. ProductOn(f, 1..n) \in Positive
  BY <1>1, <1>2, ProductFacts
<1>7. ProductOn(g, 1..(n + 1)) = g[n + 1] * ProductOn(g, (1..(n + 1)) \ {n + 1})
  BY <1>1, <1>3, <1>5, ProductFacts
<1>8. ProductOn(g, 1..n) = ProductOn(f, 1..n)
  BY <1>1, <1>2, ProductSame
<1> QED
  BY <1>4, <1>5, <1>6, <1>7, <1>8

LEMMA FactorialFacts ==
  ASSUME NEW n \in Nat
  PROVE  /\ Factorial(n) \in Positive
         /\ Factorial(n + 1) = (n + 1) * Factorial(n)
<1> DEFINE f == [i \in 1..n |-> i]
           g == [i \in 1..(n + 1) |-> i]
<1>1. IsFiniteSet(1..n) /\ IsFiniteSet(1..(n + 1))
  BY FS_Interval
<1>2. \A i \in 1..n : f[i] \in Positive /\ g[i] = f[i]
  BY DEF Positive
<1>3. \A i \in 1..(n + 1) : g[i] \in Positive
  BY DEF Positive
<1>4. Factorial(n) = ProductOn(f, 1..n) /\ Factorial(n + 1) = ProductOn(g, 1..(n + 1))
  BY ProductIsOnDomain DEF Factorial
<1>5. n + 1 \in 1..(n + 1) /\ (1..(n + 1)) \ {n + 1} = 1..n /\ g[n + 1] = n + 1
  OBVIOUS
<1> HIDE DEF f, g
<1>6. ProductOn(f, 1..n) \in Positive
  BY <1>1, <1>2, ProductFacts
<1>7. ProductOn(g, 1..(n + 1)) = g[n + 1] * ProductOn(g, (1..(n + 1)) \ {n + 1})
  BY <1>1, <1>3, <1>5, ProductFacts
<1>8. ProductOn(g, 1..n) = ProductOn(f, 1..n)
  BY <1>1, <1>2, ProductSame
<1> QED
  BY <1>4, <1>5, <1>6, <1>7, <1>8

(* A product one factor of which is multiplied by y. *)
LEMMA ProductScaledAt ==
  ASSUME NEW S, IsFiniteSet(S), NEW f, NEW g, NEW p \in S, NEW y \in Positive,
         \A x \in S : f[x] \in Positive,
         \A x \in S \ {p} : g[x] = f[x], g[p] = y * f[p]
  PROVE  ProductOn(f, S) \in Positive /\ ProductOn(g, S) = ProductOn(f, S) * y
<1>1. IsFiniteSet(S \ {p}) /\ f[p] \in Positive /\ (\A x \in S \ {p} : f[x] \in Positive)
  BY FS_RemoveElement
<1>2. \A x \in S : g[x] \in Positive
  BY ProductPositive
<1>3. ProductOn(g, S \ {p}) = ProductOn(f, S \ {p})
  BY <1>1, ProductSame
<1>4. /\ ProductOn(f, S) \in Positive /\ ProductOn(f, S) = f[p] * ProductOn(f, S \ {p})
      /\ ProductOn(f, S \ {p}) \in Positive
  BY ProductFacts
<1>5. ProductOn(g, S) = g[p] * ProductOn(g, S \ {p})
  BY <1>2, ProductFacts
<1>6. \A u, v \in Positive : (y * u) * v = (u * v) * y
  BY DEF Positive
<1> QED
  BY <1>1, <1>3, <1>4, <1>5, <1>6

LEMMA ActivitiesAdded ==
  ASSUME NEW m \in Bags, NEW p \in Placements
  PROVE  /\ Activities(m) \in Positive /\ Activity[p.species] \in Positive
         /\ Activities(Added(m, p)) = Activities(m) * Activity[p.species]
<1> DEFINE b == Added(m, p)
           f == [x \in Placements |-> Power(Activity[x.species], m[x])]
           g == [x \in Placements |-> Power(Activity[x.species], b[x])]
<1>1. \A x \in Placements : Activity[x.species] \in Positive /\ m[x] \in Nat
  BY PlacementShape, SamplingAssumption DEF Positive, Bags
<1>2. b[p] = m[p] + 1 /\ \A x \in Placements : x # p => b[x] = m[x]
  BY AddedShape
<1> HIDE DEF b
<1>3. \A x \in Placements : f[x] \in Positive
  BY <1>1, PowerFacts
<1>4. \A x \in Placements \ {p} : g[x] = f[x]
  BY <1>2
<1>5. g[p] = Activity[p.species] * f[p]
  BY <1>1, <1>2, PowerFacts
<1>6. Activities(m) = ProductOn(f, Placements) /\ Activities(b) = ProductOn(g, Placements)
  BY ProductIsOnDomain DEF Activities
<1> HIDE DEF f, g
<1>7. ProductOn(f, Placements) \in Positive /\ ProductOn(g, Placements) = ProductOn(f, Placements) * Activity[p.species]
  BY <1>1, <1>3, <1>4, <1>5, PlacementsFinite, ProductScaledAt
<1> QED
  BY <1>1, <1>6, <1>7 DEF b

LEMMA CopiesAdded ==
  ASSUME NEW m \in Bags, NEW p \in Placements
  PROVE  /\ Copies(m) \in Positive /\ Ways(p) \in Positive /\ m[p] + 1 \in Positive
         /\ Copies(Added(m, p)) = Copies(m) * (Ways(p) * (m[p] + 1))
<1> DEFINE b == Added(m, p)
           f == [x \in Placements |-> Power(Ways(x), m[x]) * Factorial(m[x])]
           g == [x \in Placements |-> Power(Ways(x), b[x]) * Factorial(b[x])]
<1>1. \A x \in Placements : Ways(x) \in Positive /\ m[x] \in Nat
  BY PlacementShape, OrientationsFinite DEF Ways, Bags
<1>2. b[p] = m[p] + 1 /\ \A x \in Placements : x # p => b[x] = m[x]
  BY AddedShape
<1>3. m[p] + 1 \in Positive /\ Ways(p) * (m[p] + 1) \in Positive
  BY <1>1, ProductPositive DEF Positive
<1> HIDE DEF b
<1>4. \A x \in Placements : f[x] \in Positive
  BY <1>1, PowerFacts, FactorialFacts, ProductPositive
<1>5. \A x \in Placements \ {p} : g[x] = f[x]
  BY <1>2
<1>6. g[p] = (Ways(p) * (m[p] + 1)) * f[p]
  <2>1. /\ Power(Ways(p), m[p] + 1) = Ways(p) * Power(Ways(p), m[p])
        /\ Factorial(m[p] + 1) = (m[p] + 1) * Factorial(m[p])
        /\ Power(Ways(p), m[p]) \in Positive /\ Factorial(m[p]) \in Positive
    BY <1>1, PowerFacts, FactorialFacts
  <2>2. \A w, n, x, y \in Positive : (w * x) * (n * y) = (w * n) * (x * y)
    BY DEF Positive
  <2> QED
    BY <1>1, <1>2, <1>3, <2>1, <2>2
<1>7. Copies(m) = ProductOn(f, Placements) /\ Copies(b) = ProductOn(g, Placements)
  BY ProductIsOnDomain DEF Copies
<1> HIDE DEF f, g
<1>8. ProductOn(f, Placements) \in Positive
      /\ ProductOn(g, Placements) = ProductOn(f, Placements) * (Ways(p) * (m[p] + 1))
  BY <1>3, <1>4, <1>5, <1>6, PlacementsFinite, ProductScaledAt
<1> QED
  BY <1>1, <1>3, <1>7, <1>8 DEF b

-----------------------------------------------------------------------------
(* Energies and flows. *)

(* Energies are integers. *)
LEMMA DistanceBound ==
  ASSUME NEW x \in Int, NEW y \in Int
  PROVE  Distance(x, y) \in 0..(L \div 2)
<1> DEFINE d == (x - y) % L
<1>1. L \in Int /\ L > 0 /\ d \in 0..(L - 1)
  BY CellAssumption
<1> HIDE DEF d
<1>2. L = (2 * (L \div 2)) + (L % 2) /\ (L % 2) \in 0..1 /\ L \div 2 \in Int
  BY <1>1
<1>3. Distance(x, y) = IF 2 * d > L THEN L - d ELSE d
  BY DEF Distance, d
<1>4. CASE 2 * d > L
  BY <1>1, <1>2, <1>3, <1>4
<1>5. CASE ~(2 * d > L)
  BY <1>1, <1>2, <1>3, <1>5
<1> QED
  BY <1>4, <1>5

LEMMA InteractionIsInt ==
  ASSUME NEW body1 \in Seq(Site), NEW body2 \in Seq(Site)
  PROVE  Interaction(body1, body2) \in Int
<1> DEFINE K == (DOMAIN body1) \X (DOMAIN body2)
           f == [k \in K |->
                   SiteEnergy[<<body1[k[1]].kind, body2[k[2]].kind>>]
                             [Distance(body1[k[1]].pos, body2[k[2]].pos) + 1]]
<1>1. IsFiniteSet(K)
  <2>1. /\ DOMAIN body1 = 1..Len(body1) /\ Len(body1) \in Nat
        /\ DOMAIN body2 = 1..Len(body2) /\ Len(body2) \in Nat
    OBVIOUS
  <2>2. IsFiniteSet(DOMAIN body1) /\ IsFiniteSet(DOMAIN body2)
    BY <2>1, UpTo
  <2> QED
    BY <2>2, FS_Product
<1>2. ASSUME NEW k \in K PROVE f[k] \in Int
  <2>1. k[1] \in DOMAIN body1 /\ k[2] \in DOMAIN body2
    OBVIOUS
  <2>2. body1[k[1]] \in Site /\ body2[k[2]] \in Site
    BY <2>1
  <2>3. /\ body1[k[1]].kind \in Kinds /\ body2[k[2]].kind \in Kinds
        /\ body1[k[1]].pos \in Int /\ body2[k[2]].pos \in Int
    BY <2>2 DEF Site
  <2>4. Distance(body1[k[1]].pos, body2[k[2]].pos) \in 0..(L \div 2)
    BY <2>3, DistanceBound
  <2> QED
    BY <2>3, <2>4, SamplingAssumption
<1>3. Interaction(body1, body2) = SumFunctionOnSet(f, K)
  BY DEF Interaction, SumFunction
<1> HIDE DEF f, K
<1> QED
  BY <1>1, <1>2, <1>3, SumIsInt

LEMMA BodiesAreSites == ASSUME NEW p \in Placements PROVE Bodies[p] \in Seq(Site)
<1> DEFINE sp == p.species
           n == NumSites(sp)
<1>1. sp \in Species /\ p.ref \in Int /\ p.o \in {1, -1}
  BY PlacementShape, OrientationsFinite, CellAssumption
<1>2. Template[sp] \in Seq(TemplateSite)
  BY <1>1, SpeciesAssumption
<1>3. n \in Nat /\ \A k \in 1..n : Template[sp][k] \in TemplateSite
  BY <1>2 DEF NumSites
<1>4. \A k \in 1..n : /\ Template[sp][k].offset \in Int /\ Template[sp][k].kind \in Kinds
  BY <1>3 DEF TemplateSite
<1>5. Bodies[p] = Place(sp, p.ref, p.o)
  BY DEF Bodies
<1>6. Place(sp, p.ref, p.o) =
        [k \in 1..n |->
           [pos |-> p.ref + LocalOffset(sp, k, p.o), kind |-> Template[sp][k].kind]]
  BY DEF Place
<1> HIDE DEF n, sp
<1>7. ASSUME NEW k \in 1..n
      PROVE  [pos |-> p.ref + LocalOffset(sp, k, p.o), kind |-> Template[sp][k].kind] \in Site
  <2>1. LocalOffset(sp, k, p.o) \in Int
    BY <1>4 DEF LocalOffset
  <2> QED
    BY <1>1, <1>4, <2>1 DEF Site
<1> QED
  BY <1>3, <1>5, <1>6, <1>7

LEMMA EnergyIsInt == ASSUME NEW b \in Bags PROVE Energy(b) \in Int
<1> DEFINE Q == MoleculesOf(b, Species)
           f == [q \in Q |-> Interaction(Bodies[q[1]], Framework)]
           R == {r \in Q \X Q : r[1] # r[2]}
           g == [pair \in R |-> Interaction(Bodies[pair[1][1]], Bodies[pair[2][1]])]
<1>1. IsFiniteSet(Q) /\ \A q \in Q : q[1] \in Placements
  BY MoleculesFinite DEF MoleculesOf
<1>2. IsFiniteSet(R)
  <2>1. IsFiniteSet(Q \X Q)
    BY <1>1, FS_Product
  <2>2. R \in SUBSET (Q \X Q)
    OBVIOUS
  <2> QED
    BY <2>1, <2>2, FS_Subset
<1>3. \A q \in Q : f[q] \in Int
  BY <1>1, BodiesAreSites, InteractionIsInt, CellAssumption
<1>4. \A r \in R : g[r] \in Int
  <2>1. \A r \in R : r[1][1] \in Placements /\ r[2][1] \in Placements
    BY <1>1
  <2> QED
    BY <2>1, BodiesAreSites, InteractionIsInt
<1>5. Energy(b) = SumFunctionOnSet(f, Q) + SumFunctionOnSet(g, R) \div 2
  BY DEF Energy, DoubledGuestEnergy, SumFunction
<1> HIDE DEF f, g, Q, R
<1>6. SumFunctionOnSet(f, Q) \in Int /\ SumFunctionOnSet(g, R) \in Int
  BY <1>1, <1>2, <1>3, <1>4, SumIsInt
<1> QED
  BY <1>5, <1>6

(* D are the draws of X whose attempts at[x] lead to c, all with odds o and *)
(* ratio r.                                                                *)
Leading(attempts, X, at, c, D, o, r) ==
  /\ attempts = {at[x] : x \in X} /\ \A x \in X : at[x].draw = x
  /\ D = {x \in X : at[x].next = c} /\ IsFiniteSet(D) /\ D # {}
  /\ \A x \in D : at[x].odds = o /\ at[x].ratio = r

LEMMA FlowIs ==
  ASSUME NEW attempts, NEW X, NEW at, NEW c, NEW D, NEW o, NEW r,
         Leading(attempts, X, at, c, D, o, r)
  PROVE  /\ Flow(attempts, c) = Times(<<Cardinality(D), o>>, ClampToProbability(r))
         /\ Cardinality(D) \in Positive
<1>0. /\ attempts = {at[x] : x \in X} /\ \A x \in X : at[x].draw = x
      /\ D = {x \in X : at[x].next = c} /\ IsFiniteSet(D) /\ D # {}
      /\ \A x \in D : at[x].odds = o /\ at[x].ratio = r
  BY DEF Leading
<1> DEFINE leading == {a \in attempts : a.next = c}
           h == [x \in D |-> at[x]]
<1>1. h \in Bijection(D, leading)
  <2>1. \A x \in D : h[x] \in leading
    BY <1>0
  <2>2. \A x, y \in D : h[x] = h[y] => x = y
    <3>1. \A x \in D : h[x] = at[x] /\ at[x].draw = x
      BY <1>0
    <3> HIDE DEF h
    <3> QED
      BY <3>1
  <2>3. \A a \in leading : \E x \in D : h[x] = a
    BY <1>0
  <2>4. h \in [D -> leading]
    BY <2>1
  <2> HIDE DEF h, leading
  <2> QED
    BY <2>2, <2>3, <2>4 DEF Bijection, Injection, Surjection, IsInjective
<1>2. Cardinality(leading) = Cardinality(D)
  BY <1>0, <1>1, FS_Bijection DEF ExistsBijection
<1>3. PICK x \in D : TRUE
  BY <1>0
<1>4. leading # {}
  BY <1>0, <1>3
<1> DEFINE one == CHOOSE a \in leading : TRUE
<1>5. one \in leading
  BY <1>4
<1>6. one.odds = o /\ one.ratio = r
  BY <1>0, <1>5
<1>7. Flow(attempts, c) = Times(<<Cardinality(leading), one.odds>>, ClampToProbability(one.ratio))
  BY <1>4 DEF Flow
<1> HIDE DEF one, leading
<1>8. Cardinality(D) \in Positive
  BY <1>0, FS_CardinalityType, FS_EmptySet DEF Positive
<1> QED
  BY <1>2, <1>6, <1>7, <1>8

-----------------------------------------------------------------------------
(* The balance of a pair of moves. *)

LEMMA RatioShape ==
  ASSUME NEW al \in Positive, NEW be \in Positive, NEW dU \in Int
  PROVE  /\ Times(<<al, be>>, Boltzmann(dU)) = <<al * Up(dU), be * Down(dU)>>
         /\ al * Up(dU) \in Positive /\ be * Down(dU) \in Positive
BY BoltzmannShape, ProductPositive DEF Times

LEMMA ClampIsInt ==
  ASSUME NEW x \in Positive, NEW y \in Positive
  PROVE  /\ ClampToProbability(<<x, y>>)[1] \in Int
         /\ ClampToProbability(<<x, y>>)[2] \in Int
BY DEF ClampToProbability, Positive

LEMMA UpDownReciprocal ==
  ASSUME NEW d \in Int PROVE Up(d) * Up(-d) = Down(d) * Down(-d)
<1>0. -d \in Int /\ d + (-d) = 0 /\ 0 \in Int
  OBVIOUS
<1>1. (Up(d) * Up(-d)) * Down(0) = (Down(d) * Down(-d)) * Up(0)
  BY <1>0, BoltzmannAdds
<1>2. Up(0) = 1 /\ Down(0) = 2^0
  <2>1. 0 \in Int /\ 0 >= 0
    OBVIOUS
  <2>2. \A k \in Int : k >= 0 => Up(k) = 1 /\ Down(k) = 2^k
    BY BoltzmannShape
  <2> QED
    BY <2>1, <2>2
<1>3. 2^0 = 1
  <2>1. 0 \in Nat /\ 0 + 0 = 0
    OBVIOUS
  <2>2. 2^0 = 2^0 * 2^0 /\ 2^0 \in Positive
    BY <2>1, TwoAdds, TwoIsPositive
  <2>3. 2^0 \in Int /\ 2^0 * 1 = 2^0 * 2^0
    BY <2>2 DEF Positive
  <2> QED
    BY <2>2, <2>3, Cancel
<1>4. /\ Up(d) \in Int /\ Up(-d) \in Int /\ Down(d) \in Int /\ Down(-d) \in Int
  BY <1>0, BoltzmannShape DEF Positive
<1> QED
  BY <1>1, <1>2, <1>3, <1>4

(* What the weights, the draws and the ratios of a move and of the one back *)
(* must satisfy, once the Boltzmann factors have cancelled.                *)
LEMMA PairBalance ==
  ASSUME NEW b \in Bags, NEW c \in Bags,
         NEW A \in Positive, NEW C \in Positive, Activities(b) = A, Copies(b) = C,
         NEW A2 \in Positive, NEW C2 \in Positive, Activities(c) = A2, Copies(c) = C2,
         NEW n \in Positive, NEW o \in Positive, NEW n2 \in Positive, NEW o2 \in Positive,
         NEW al \in Positive, NEW be \in Positive, NEW al2 \in Positive, NEW be2 \in Positive,
         al * al2 = be * be2,
         ((A * n) * (C2 * o2)) * al = ((A2 * n2) * (C * o)) * be,
         NEW forth, NEW back,
         forth = Times(<<n, o>>, ClampToProbability(Times(<<al, be>>, Boltzmann(DeltaU(b, c))))),
         back = Times(<<n2, o2>>, ClampToProbability(Times(<<al2, be2>>, Boltzmann(DeltaU(c, b)))))
  PROVE  Times(Weight(b), forth)[1] * Times(Weight(c), back)[2]
           = Times(Weight(c), back)[1] * Times(Weight(b), forth)[2]
<1> DEFINE e == Energy(b)
           d == Energy(c) - Energy(b)
           r1 == al * Up(d)
           r2 == be * Down(d)
           s1 == al2 * Up(-d)
           s2 == be2 * Down(-d)
           f == ((A * Up(e)) * n) * ((C2 * Down(e + d)) * o2)
           g == ((A2 * Up(e + d)) * n2) * ((C * Down(e)) * o)
<1>1. e \in Int /\ d \in Int /\ -d \in Int /\ Energy(c) = e + d /\ e + d \in Int
  BY EnergyIsInt
<1>2. DeltaU(b, c) = d /\ DeltaU(c, b) = -d
  BY EnergyIsInt DEF DeltaU
<1>3. Weight(b) = <<A * Up(e), C * Down(e)>> /\ Weight(c) = <<A2 * Up(e + d), C2 * Down(e + d)>>
  <2>1. /\ Weight(b) = Times(<<A, C>>, Boltzmann(e))
        /\ Weight(c) = Times(<<A2, C2>>, Boltzmann(Energy(c)))
    BY DEF Weight, Activities, Copies, Ways
  <2>2. Weight(c) = Times(<<A2, C2>>, Boltzmann(e + d))
    BY <1>1, <2>1
  <2> HIDE DEF e, d
  <2> QED
    BY <1>1, <2>1, <2>2, RatioShape
<1> HIDE DEF e, d
<1>4. /\ Up(d) \in Positive /\ Down(d) \in Positive /\ Up(-d) \in Positive /\ Down(-d) \in Positive
      /\ Up(e) \in Positive /\ Down(e) \in Positive
      /\ Up(e + d) \in Positive /\ Down(e + d) \in Positive
  BY <1>1, BoltzmannShape
<1>5. r1 \in Positive /\ r2 \in Positive /\ s1 \in Positive /\ s2 \in Positive
  BY <1>4, ProductPositive
<1>6. r1 * s1 = r2 * s2
  <2>1. \A u, v, x, y \in Positive : (u * x) * (v * y) = (u * v) * (x * y)
    BY DEF Positive
  <2>2. r1 * s1 = (al * al2) * (Up(d) * Up(-d)) /\ r2 * s2 = (be * be2) * (Down(d) * Down(-d))
    BY <1>4, <2>1
  <2>3. Up(d) * Up(-d) = Down(d) * Down(-d)
    BY <1>1, UpDownReciprocal
  <2> QED
    BY <2>2, <2>3
<1>7. f * r1 = g * r2
  <2>1. ASSUME NEW u \in Positive, NEW v \in Positive, NEW w \in Positive
        PROVE  (u * v) * w = (u * w) * v /\ (u * v) * w = (v * w) * u
    BY DEF Positive
  <2> DEFINE Eight == [1..8 -> Positive]
             Given(t) == (((t[1] * t[2]) * t[3]) * ((t[4] * t[5]) * t[6])) * (t[7] * t[8])
             Grouped(t) == (((t[1] * t[3]) * (t[4] * t[6])) * t[7]) * ((t[2] * t[5]) * t[8])
             there == <<A, Up(e), n, C2, Down(e + d), o2, al, Up(d)>>
             again == <<A2, Up(e + d), n2, C, Down(e), o, be, Down(d)>>
  <2>2. ASSUME NEW t \in Eight PROVE Given(t) = Grouped(t)
    <3> DEFINE x1 == t[1]
               u == t[2]
               m1 == t[3]
               x2 == t[4]
               v == t[5]
               m2 == t[6]
               q == t[7]
               w == t[8]
    <3>0. /\ x1 \in Positive /\ m1 \in Positive /\ u \in Positive /\ v \in Positive
          /\ x2 \in Positive /\ m2 \in Positive /\ q \in Positive /\ w \in Positive
      OBVIOUS
    <3> HIDE DEF x1, u, m1, x2, v, m2, q, w
    <3>1. (x1 * u) * m1 = (x1 * m1) * u /\ (x2 * v) * m2 = (x2 * m2) * v
      BY <2>1, <3>0
    <3>2. x1 * m1 \in Positive /\ x2 * m2 \in Positive /\ u * v \in Positive
      BY <3>0, ProductPositive
    <3> DEFINE y1 == x1 * m1
               y2 == x2 * m2
    <3>3. ((x1 * m1) * u) * ((x2 * m2) * v) = ((x1 * m1) * (x2 * m2)) * (u * v)
      <4>1. y1 \in Positive /\ y2 \in Positive
        BY <3>2
      <4> HIDE DEF y1, y2
      <4>2. (y1 * u) * (y2 * v) = (y1 * y2) * (u * v)
        BY <3>0, <4>1 DEF Positive
      <4> QED
        BY <4>2 DEF y1, y2
    <3>4. (((x1 * m1) * (x2 * m2)) * (u * v)) * (q * w) = (((x1 * m1) * (x2 * m2)) * q) * ((u * v) * w)
      <4> DEFINE y == y1 * y2
                 z == u * v
      <4>1. y \in Positive /\ z \in Positive
        BY <3>2, ProductPositive
      <4> HIDE DEF y, z
      <4>2. (y * z) * (q * w) = (y * q) * (z * w)
        BY <3>0, <4>1 DEF Positive
      <4> QED
        BY <4>2 DEF y, z
    <3>5. (((x1 * u) * m1) * ((x2 * v) * m2)) * (q * w) = (((x1 * m1) * (x2 * m2)) * q) * ((u * v) * w)
      BY <3>1, <3>3, <3>4
    <3> QED
      BY <3>5 DEF x1, u, m1, x2, v, m2, q, w
  <2>3. there \in Eight /\ again \in Eight
    BY <1>4
  <2>4. Given(there) = Grouped(there) /\ Given(again) = Grouped(again)
    <3> HIDE DEF Given, Grouped, there, again, Eight
    <3> QED
      BY <2>2, <2>3
  <2>5. f * r1 = (((A * n) * (C2 * o2)) * al) * ((Up(e) * Down(e + d)) * Up(d))
    BY <2>4
  <2>6. g * r2 = (((A2 * n2) * (C * o)) * be) * ((Up(e + d) * Down(e)) * Down(d))
    BY <2>4
  <2>7. /\ (Up(e) * Down(e + d)) * Up(d) = (Up(d) * Up(e)) * Down(e + d)
        /\ (Up(e + d) * Down(e)) * Down(d) = (Down(d) * Down(e)) * Up(e + d)
    <3>1. \A u, v, w \in Positive : (u * v) * w = (w * u) * v /\ (v * u) * w = (w * u) * v
      BY DEF Positive
    <3> QED
      BY <1>4, <3>1
  <2>8. (Up(d) * Up(e)) * Down(d + e) = (Down(d) * Down(e)) * Up(d + e) /\ d + e = e + d
    BY <1>1, BoltzmannAdds
  <2> QED
    BY <2>5, <2>6, <2>7, <2>8
<1>8. f \in Int /\ g \in Int
  <2>1. f \in Positive /\ g \in Positive
    BY <1>4, ProductPositive
  <2> QED
    BY <2>1 DEF Positive
<1> DEFINE cr == ClampToProbability(<<r1, r2>>)
           cs == ClampToProbability(<<s1, s2>>)
<1>9. f * (cr[1] * cs[2]) = g * (cs[1] * cr[2])
  <2> HIDE DEF f, g, r1, r2, s1, s2
  <2> QED
    BY <1>5, <1>6, <1>7, <1>8, ClampBalances
<1>10. forth = Times(<<n, o>>, cr) /\ back = Times(<<n2, o2>>, cs)
  <2>1. Times(<<al, be>>, Boltzmann(d)) = <<r1, r2>> /\ Times(<<al2, be2>>, Boltzmann(-d)) = <<s1, s2>>
    BY <1>1, RatioShape, SMTT(40)
  <2> HIDE DEF r1, r2, s1, s2
  <2> QED
    BY <1>2, <2>1
<1>11. cr[1] \in Int /\ cr[2] \in Int /\ cs[1] \in Int /\ cs[2] \in Int
  BY <1>5, ClampIsInt
<1> HIDE DEF cr, cs
<1>12. /\ Times(Weight(b), forth) = <<(A * Up(e)) * (n * cr[1]), (C * Down(e)) * (o * cr[2])>>
       /\ Times(Weight(c), back) = <<(A2 * Up(e + d)) * (n2 * cs[1]), (C2 * Down(e + d)) * (o2 * cs[2])>>
  BY <1>3, <1>10 DEF Times
<1>13. /\ A * Up(e) \in Int /\ C * Down(e) \in Int
       /\ A2 * Up(e + d) \in Int /\ C2 * Down(e + d) \in Int
       /\ n \in Int /\ o \in Int /\ n2 \in Int /\ o2 \in Int
  BY <1>4, ProductPositive DEF Positive
<1>14. \A x, m, u, y, p, v \in Int : (x * (m * u)) * (y * (p * v)) = ((x * m) * (y * p)) * (u * v)
  OBVIOUS
<1>15. /\ ((A * Up(e)) * (n * cr[1])) * ((C2 * Down(e + d)) * (o2 * cs[2])) = f * (cr[1] * cs[2])
       /\ ((A2 * Up(e + d)) * (n2 * cs[1])) * ((C * Down(e)) * (o * cr[2])) = g * (cs[1] * cr[2])
  BY <1>11, <1>13, <1>14
<1> HIDE DEF f, g
<1> QED
  BY <1>9, <1>12, <1>15

-----------------------------------------------------------------------------
(* Taking a molecule out and putting one in. *)

LEMMA EuclideanDivision ==
  ASSUME NEW x \in Int, NEW p \in Nat \ {0}
  PROVE  /\ x \div p \in Int /\ x % p \in 0..(p - 1)
         /\ x = p * (x \div p) + (x % p)
  OBVIOUS

LEMMA ResidueIsUnique ==
  ASSUME NEW p \in Nat \ {0}, NEW k \in Int, NEW r \in 0..(p - 1)
  PROVE  (p * k + r) % p = r
  <1> DEFINE x == p * k + r
             j == x \div p
             t == x % p
  <1>1. j \in Int /\ t \in 0..(p - 1) /\ x = p * j + t
    BY EuclideanDivision, x \in Int
  <1>2. p * k + r = p * j + t
    BY <1>1
  <1> HIDE DEF x, j, t
  <1>3. ~ (k < j)
    <2> SUFFICES ASSUME k < j PROVE FALSE
      OBVIOUS
    <2>1. p * (k + 1) <= p * j
      BY <1>1
    <2>2. p * (k + 1) = p * k + p /\ p * k \in Int /\ p * j \in Int
      BY <1>1
    <2> QED BY <1>1, <1>2, <2>1, <2>2
  <1>4. ~ (j < k)
    <2> SUFFICES ASSUME j < k PROVE FALSE
      OBVIOUS
    <2>1. p * (j + 1) <= p * k
      BY <1>1
    <2>2. p * (j + 1) = p * j + p /\ p * k \in Int /\ p * j \in Int
      BY <1>1
    <2> QED BY <1>1, <1>2, <2>1, <2>2
  <1>5. j = k
    BY <1>1, <1>3, <1>4
  <1>6. t = r
    BY <1>1, <1>2, <1>5
  <1> QED BY <1>6 DEF t, x


(* A reference point moved there and back. *)
LEMMA ThereAndBack ==
  ASSUME NEW x \in 0..(L - 1), NEW d \in Int
  PROVE  /\ (x + d) % L \in 0..(L - 1)
         /\ (((x + d) % L) - d) % L = x
<1>1. L \in Nat \ {0} /\ x + d \in Int /\ x \in Int
  BY CellAssumption
<1> DEFINE r == (x + d) % L
           k == (x + d) \div L
<1>2. r \in 0..(L - 1) /\ k \in Int /\ x + d = L * k + r
  BY <1>1, EuclideanDivision
<1> HIDE DEF r, k
<1>3. L * k \in Int /\ L * (-k) = -(L * k)
  BY <1>1, <1>2
<1>4. r - d = L * (-k) + x /\ -k \in Int
  BY <1>1, <1>2, <1>3
<1>5. (L * (-k) + x) % L = x
  BY <1>1, <1>4, ResidueIsUnique
<1> QED
  BY <1>2, <1>4, <1>5 DEF r

LEMMA AtShape ==
  ASSUME NEW p \in Placements, NEW r \in Int, NEW o \in Orientations(p.species)
  PROVE  /\ At(p, r, o) \in Placements
         /\ At(p, r, o) = [species |-> p.species, ref |-> r % L, o |-> o]
<1>1. /\ p.species \in Species
      /\ p = [species |-> p.species, ref |-> p.ref, o |-> p.o]
  BY PlacementShape
<1>2. r % L \in 0..(L - 1)
  BY CellAssumption
<1> DEFINE R == [species : Species, ref : Int, o : {1, -1}]
           z == At(p, r, o)
<1>3. z = [species |-> p.species, ref |-> r % L, o |-> o]
  <2>1. p \in R /\ r % L \in Int /\ o \in {1, -1}
    BY <1>1, <1>2, PlacementShape, OrientationsFinite, CellAssumption
  <2>2. z \in R /\ z.species = p.species /\ z.ref = r % L /\ z.o = o
    BY <2>1 DEF At
  <2> HIDE DEF z
  <2>3. z = [species |-> z.species, ref |-> z.ref, o |-> z.o]
    BY <2>2
  <2> QED
    BY <2>2, <2>3
<1> QED
  BY <1>1, <1>2, <1>3, PlacementIntro

(* The configurations the chain visits. *)
Good == {b \in Bags : /\ \A p \in Placements : b[p] <= MaxMolecules
                      /\ Count(b, Species) <= MaxMolecules}
Taken(b, p) == [b EXCEPT ![p] = @ - 1]
Slots(b, p) == {q \in MoleculesOf(b, Species) : q[1] = p}

LEMMA SlotsCount ==
  ASSUME NEW b \in Good, NEW p \in Placements
  PROVE  /\ IsFiniteSet(Slots(b, p)) /\ Cardinality(Slots(b, p)) = b[p]
         /\ Slots(b, p) = {p} \X (1..b[p])
<1>1. b[p] \in Nat /\ b[p] <= MaxMolecules /\ MaxMolecules \in Nat /\ p.species \in Species
  BY PlacementShape, SamplingAssumption DEF Good, Bags
<1>2. Slots(b, p) = {p} \X (1..b[p])
  BY <1>1 DEF Slots, MoleculesOf
<1>3. IsFiniteSet(1..b[p]) /\ Cardinality(1..b[p]) = b[p]
  BY <1>1, UpTo
<1>4. IsFiniteSet({p}) /\ Cardinality({p}) = 1
  BY FS_Singleton
<1>5. IsFiniteSet({p} \X (1..b[p])) /\ Cardinality({p} \X (1..b[p])) = 1 * b[p]
  <2> DEFINE A == {p}
             B == 1..b[p]
  <2>1. IsFiniteSet(A) /\ Cardinality(A) = 1 /\ IsFiniteSet(B) /\ Cardinality(B) = b[p]
    BY <1>3, <1>4
  <2> HIDE DEF A, B
  <2>2. IsFiniteSet(A \X B) /\ Cardinality(A \X B) = Cardinality(A) * Cardinality(B)
    BY <2>1, FS_Product
  <2> QED
    BY <2>1, <2>2 DEF A, B
<1> QED
  BY <1>1, <1>2, <1>5

LEMMA TakenFacts ==
  ASSUME NEW b \in Good, NEW p \in Placements, b[p] >= 1
  PROVE  /\ Taken(b, p) \in Good /\ Taken(b, p)[p] = b[p] - 1
         /\ b = Added(Taken(b, p), p)
         /\ \A q \in Placements : /\ Replaced(b, p, q) = Added(Taken(b, p), q)
                                  /\ Taken(b, p)[q] < MaxMolecules
                                  /\ Added(Taken(b, p), q) \in Good
         /\ \A S : /\ p.species \in S => Count(b, S) = Count(Taken(b, p), S) + 1
                   /\ p.species \notin S => Count(b, S) = Count(Taken(b, p), S)
<1> DEFINE m == Taken(b, p)
<1>1. b \in Bags /\ b[p] \in Nat /\ MaxMolecules \in Nat /\ p.species \in Species
      /\ \A q \in Placements : b[q] \in Nat /\ b[q] <= MaxMolecules
  BY PlacementShape, SamplingAssumption DEF Good, Bags
<1>2. /\ m \in Bags /\ m[p] = b[p] - 1 /\ \A q \in Placements : q # p => m[q] = b[q]
      /\ b = Added(m, p) /\ \A q \in Placements : Replaced(b, p, q) = Added(m, q)
  <2>1. m \in Bags /\ m[p] = b[p] - 1 /\ \A q \in Placements : q # p => m[q] = b[q]
    <3>1. \A q \in Placements : m[q] = IF q = p THEN b[p] - 1 ELSE b[q]
      BY <1>1 DEF Taken, Bags
    <3>2. m = [q \in Placements |-> m[q]]
      BY <1>1 DEF Taken, Bags
    <3> HIDE DEF m
    <3>3. \A q \in Placements : m[q] \in Nat
      BY <1>1, <3>1
    <3> QED
      BY <3>1, <3>2, <3>3 DEF Bags
  <2>2. b = Added(m, p)
    <3>1. /\ Added(m, p) \in Bags /\ Added(m, p)[p] = m[p] + 1
          /\ \A x \in Placements : x # p => Added(m, p)[x] = m[x]
      BY <2>1, AddedShape
    <3>2. \A x \in Placements : Added(m, p)[x] = b[x]
      BY <1>1, <2>1, <3>1
    <3> HIDE DEF m
    <3>3. Added(m, p) = [x \in Placements |-> Added(m, p)[x]] /\ b = [x \in Placements |-> b[x]]
      BY <1>1, <3>1 DEF Bags
    <3> QED
      BY <3>2, <3>3
  <2>3. \A q \in Placements : Replaced(b, p, q) = Added(m, q)
    BY DEF Replaced, Added, Taken
  <2> QED
    BY <2>1, <2>2, <2>3
<1> HIDE DEF m
<1>3. \A S : /\ p.species \in S => Count(b, S) = Count(m, S) + 1
             /\ p.species \notin S => Count(b, S) = Count(m, S)
  BY <1>1, <1>2, CountAdded
<1>4. Count(m, Species) < MaxMolecules
  BY <1>1, <1>2, <1>3, MoleculesFinite DEF Good
<1>5. \A q \in Placements : m[q] \in Nat /\ m[q] <= MaxMolecules
  BY <1>1, <1>2
<1>6. m \in Good
  BY <1>2, <1>4, <1>5, <1>1, MoleculesFinite DEF Good
<1>7. ASSUME NEW q \in Placements PROVE m[q] < MaxMolecules /\ Added(m, q) \in Good
  <2>1. m[q] <= Count(m, Species)
    BY <1>2, <1>5, AtMostCount
  <2>2. m[q] < MaxMolecules
    BY <1>1, <1>2, <1>4, <1>5, <2>1, MoleculesFinite
  <2>3. /\ Added(m, q) \in Bags /\ Added(m, q)[q] = m[q] + 1
        /\ \A x \in Placements : x # q => Added(m, q)[x] = m[x]
    BY <1>2, AddedShape
  <2>4. Count(Added(m, q), Species) = Count(m, Species) + 1
    BY <1>2, <2>2, CountAdded, PlacementShape
  <2>5. \A x \in Placements : Added(m, q)[x] <= MaxMolecules
    BY <1>1, <1>5, <2>2, <2>3
  <2>6. Count(Added(m, q), Species) <= MaxMolecules
    BY <1>1, <1>2, <1>4, <2>4, MoleculesFinite
  <2> QED
    BY <2>2, <2>3, <2>5, <2>6 DEF Good
<1> QED
  BY <1>2, <1>3, <1>6, <1>7 DEF m

LEMMA PutBack ==
  ASSUME NEW m \in Good, NEW q \in Placements
  PROVE  Taken(Added(m, q), q) = m
<1>1. m \in Bags /\ \A x \in Placements : m[x] \in Nat
  BY DEF Good, Bags
<1> DEFINE a == Added(m, q)
<1>2. a \in Bags /\ a[q] = m[q] + 1 /\ \A x \in Placements : x # q => a[x] = m[x]
  BY <1>1, AddedShape
<1> HIDE DEF a
<1>3. \A x \in Placements : Taken(a, q)[x] = m[x]
  BY <1>1, <1>2 DEF Taken, Bags
<1>4. Taken(a, q) = [x \in Placements |-> Taken(a, q)[x]] /\ m = [x \in Placements |-> m[x]]
  BY <1>1, <1>2 DEF Taken, Bags
<1> QED
  BY <1>3, <1>4 DEF a

(* The placements a replacement is between can be read off its result. *)
LEMMA UniqueSource ==
  ASSUME NEW b \in Bags, NEW p \in Placements, NEW q \in Placements, p # q,
         NEW p2 \in Placements, NEW q2 \in Placements,
         Replaced(b, p2, q2) = Replaced(b, p, q)
  PROVE  p2 = p /\ q2 = q
<1>1. \A x \in Placements : b[x] \in Int
  BY DEF Bags
<1>2. ASSUME NEW u \in Placements, NEW v \in Placements, u # v
      PROVE  /\ Replaced(b, u, v)[u] = b[u] - 1 /\ Replaced(b, u, v)[v] = b[v] + 1
             /\ \A x \in Placements : x # u /\ x # v => Replaced(b, u, v)[x] = b[x]
  BY <1>2 DEF Replaced, Bags
<1>3. ASSUME NEW u \in Placements, NEW x \in Placements PROVE Replaced(b, u, u)[x] = b[x]
  BY <1>1 DEF Replaced, Bags
<1>4. Replaced(b, p, q)[p] = b[p] - 1 /\ Replaced(b, p, q)[q] = b[q] + 1
  BY <1>2
<1>5. p2 # q2
  <2> SUFFICES ASSUME p2 = q2 PROVE FALSE
    OBVIOUS
  <2>1. Replaced(b, p2, q2)[p] = b[p]
    BY <1>3
  <2> QED
    BY <1>1, <1>4, <2>1
<1>6. /\ Replaced(b, p2, q2)[p2] = b[p2] - 1 /\ Replaced(b, p2, q2)[q2] = b[q2] + 1
      /\ \A x \in Placements : x # p2 /\ x # q2 => Replaced(b, p2, q2)[x] = b[x]
  BY <1>2, <1>5
<1>7. b[p] \in Int /\ b[q] \in Int /\ b[p2] \in Int /\ b[q2] \in Int
  BY <1>1
<1>8. p = p2
  <2>1. p = p2 \/ p = q2
    BY <1>4, <1>6, <1>7
  <2> QED
    BY <1>4, <1>6, <1>7, <2>1
<1>9. q = q2
  <2>1. q = p2 \/ q = q2
    BY <1>4, <1>6, <1>7
  <2> QED
    BY <1>4, <1>6, <1>7, <2>1
<1> QED
  BY <1>8, <1>9

(* The weights of two configurations that differ in one molecule. *)
LEMMA WeightsOf ==
  ASSUME NEW b \in Good, NEW p \in Placements, b[p] >= 1
  PROVE  /\ Activities(Taken(b, p)) \in Positive /\ Copies(Taken(b, p)) \in Positive
         /\ b[p] \in Positive /\ Ways(p) \in Positive /\ Activity[p.species] \in Positive
         /\ Activities(b) = Activities(Taken(b, p)) * Activity[p.species]
         /\ Copies(b) = Copies(Taken(b, p)) * (Ways(p) * b[p])
         /\ Count(b, Species) \in Positive /\ Count(b, {p.species}) \in Positive
<1> DEFINE m == Taken(b, p)
<1>1. /\ m \in Bags /\ b = Added(m, p) /\ m[p] = b[p] - 1 /\ b[p] \in Nat
      /\ \A S : p.species \in S => Count(b, S) = Count(m, S) + 1
  BY TakenFacts DEF Good, Bags
<1>2. m[p] + 1 = b[p]
  BY <1>1
<1>3. p.species \in Species
  BY PlacementShape
<1>4. /\ Count(b, Species) = Count(m, Species) + 1 /\ Count(m, Species) \in Nat
      /\ Count(b, {p.species}) = Count(m, {p.species}) + 1 /\ Count(m, {p.species}) \in Nat
  BY <1>1, <1>3, MoleculesFinite
<1>5. Count(b, Species) \in Positive /\ Count(b, {p.species}) \in Positive /\ b[p] \in Positive
  BY <1>1, <1>4 DEF Positive
<1> HIDE DEF m
<1>6. /\ Activities(m) \in Positive /\ Activity[p.species] \in Positive
      /\ Activities(b) = Activities(m) * Activity[p.species]
  BY <1>1, ActivitiesAdded
<1>7. Copies(m) \in Positive /\ Ways(p) \in Positive /\ Copies(b) = Copies(m) * (Ways(p) * b[p])
  BY <1>1, <1>2, CopiesAdded
<1> QED
  BY <1>5, <1>6, <1>7 DEF m

(* Two displacements of one molecule, there and back, made by k draws each. *)
LEMMA DisplacedBalance ==
  ASSUME NEW b \in Good, NEW p \in Placements, NEW q \in Placements, p # q, b[p] >= 1,
         p.species = q.species, NEW c, c = Replaced(b, p, q),
         NEW k \in Positive, NEW s \in Positive, NEW forth, NEW back,
         forth = Times(<<b[p] * k, Count(b, Species) * s>>,
                       ClampToProbability(MetropolisRatio(DeltaU(b, c)))),
         back = Times(<<c[q] * k, Count(c, Species) * s>>,
                      ClampToProbability(MetropolisRatio(DeltaU(c, b))))
  PROVE  Times(Weight(b), forth)[1] * Times(Weight(c), back)[2]
           = Times(Weight(c), back)[1] * Times(Weight(b), forth)[2]
<1> DEFINE m == Taken(b, p)
           A == Activities(m)
           C == Copies(m)
           a == Activity[p.species]
           w == Ways(p)
           o == Count(b, Species) * s
<1>1. /\ m \in Good /\ b = Added(m, p) /\ c = Added(m, q) /\ c \in Good /\ Taken(c, q) = m
  BY TakenFacts, PutBack
<1>2. c[q] >= 1 /\ b \in Bags /\ c \in Bags
  <2>1. m \in Bags
    BY <1>1 DEF Good
  <2>2. c[q] = m[q] + 1 /\ m[q] \in Nat
    BY <1>1, <2>1, AddedShape
  <2> QED
    BY <1>1, <2>2 DEF Good
<1>3. /\ A \in Positive /\ C \in Positive /\ b[p] \in Positive /\ w \in Positive /\ a \in Positive
      /\ Activities(b) = A * a /\ Copies(b) = C * (w * b[p]) /\ Count(b, Species) \in Positive
  BY WeightsOf
<1>4. /\ c[q] \in Positive
      /\ Activities(c) = A * a /\ Copies(c) = C * (w * c[q])
  <2>1. w = Ways(q)
    BY DEF Ways
  <2> QED
    BY <1>1, <1>2, <2>1, WeightsOf
<1>5. Count(c, Species) = Count(b, Species)
  <2>1. p.species \in Species /\ q.species \in Species
    BY PlacementShape
  <2> QED
    BY <1>1, <1>2, <2>1, TakenFacts
<1> HIDE DEF m, A, C, a, w
<1>6. /\ A * a \in Positive /\ C * (w * b[p]) \in Positive /\ C * (w * c[q]) \in Positive
      /\ o \in Positive /\ b[p] * k \in Positive /\ c[q] * k \in Positive /\ 1 \in Positive /\ 1 * 1 = 1 * 1
  BY <1>3, <1>4, ProductPositive DEF Positive
<1>7. (((A * a) * (b[p] * k)) * ((C * (w * c[q])) * o)) * 1
        = (((A * a) * (c[q] * k)) * ((C * (w * b[p])) * o)) * 1
  <2> DEFINE x == A * a
             n == b[p]
             n2 == c[q]
  <2>1. x \in Positive /\ n \in Positive /\ n2 \in Positive
    BY <1>3, <1>4, <1>6
  <2> HIDE DEF x, n, n2
  <2> HIDE DEF o
  <2>2. ((x * (n * k)) * ((C * (w * n2)) * o)) * 1 = ((x * (n2 * k)) * ((C * (w * n)) * o)) * 1
    BY <1>3, <1>6, <2>1 DEF Positive
  <2> QED
    BY <2>2 DEF x, n, n2
<1>8. ASSUME NEW d \in Int PROVE MetropolisRatio(d) = Times(<<1, 1>>, Boltzmann(d))
  <2>1. 1 \in Positive
    BY DEF Positive
  <2>2. Times(<<1, 1>>, Boltzmann(d)) = <<1 * Up(d), 1 * Down(d)>>
    BY <2>1, RatioShape
  <2>3. Boltzmann(d) = <<Up(d), Down(d)>> /\ Up(d) \in Int /\ Down(d) \in Int
    BY BoltzmannShape DEF Positive
  <2> QED
    BY <2>2, <2>3 DEF MetropolisRatio
<1>9. DeltaU(b, c) \in Int /\ DeltaU(c, b) \in Int
  BY <1>2, EnergyIsInt DEF DeltaU
<1>10. /\ forth = Times(<<b[p] * k, o>>, ClampToProbability(Times(<<1, 1>>, Boltzmann(DeltaU(b, c)))))
       /\ back = Times(<<c[q] * k, o>>, ClampToProbability(Times(<<1, 1>>, Boltzmann(DeltaU(c, b)))))
  BY <1>5, <1>8, <1>9
<1> HIDE DEF o
<1> QED
  BY <1>2, <1>3, <1>4, <1>6, <1>7, <1>10, PairBalance

-----------------------------------------------------------------------------
(* Translations. *)

LEMMA DisplacedShape ==
  ASSUME NEW b, NEW draw, NEW odds, NEW p, NEW q
  PROVE  LET a == Displaced(b, draw, odds, p, q)
         IN  /\ a.draw = draw /\ a.odds = odds /\ a.next = Replaced(b, p, q)
             /\ a.ratio = MetropolisRatio(DeltaU(b, Replaced(b, p, q)))
BY DEF Displaced, Attempt

LEMMA ReplacedSelf ==
  ASSUME NEW b \in Bags, NEW p \in Placements PROVE Replaced(b, p, p) = b
<1>1. \A x \in Placements : b[x] \in Nat /\ Replaced(b, p, p)[x] = b[x]
  BY DEF Replaced, Bags
<1>2. /\ Replaced(b, p, p) = [x \in Placements |-> Replaced(b, p, p)[x]]
      /\ b = [x \in Placements |-> b[x]]
  BY DEF Replaced, Bags
<1> QED
  BY <1>1, <1>2

LEMMA MoleculeShape ==
  ASSUME NEW b \in Good, NEW q \in MoleculesOf(b, Species)
  PROVE  q[1] \in Placements /\ q[2] \in 1..b[q[1]] /\ b[q[1]] >= 1 /\ q = <<q[1], q[2]>>
<1>1. q[1] \in Placements /\ q[2] \in 1..MaxMolecules /\ q[2] <= b[q[1]] /\ q = <<q[1], q[2]>>
  BY DEF MoleculesOf
<1>2. b[q[1]] \in Nat
  BY <1>1 DEF Good, Bags
<1> QED
  BY <1>1, <1>2, SamplingAssumption

(* The displacements that take a molecule from one placement to another. *)
Steps(p, q) == {d \in Shifts : At(p, p.ref + d, p.o) = q}

LEMMA StepsBack ==
  ASSUME NEW p \in Placements, NEW q \in Placements, Steps(p, q) # {}
  PROVE  /\ IsFiniteSet(Steps(p, q)) /\ Cardinality(Steps(p, q)) \in Positive
         /\ p.species = q.species /\ Steps(q, p) # {}
         /\ Cardinality(Steps(q, p)) = Cardinality(Steps(p, q))
<1>1. ASSUME NEW u \in Placements, NEW v \in Placements, NEW d \in Steps(u, v)
      PROVE  -d \in Steps(v, u) /\ u.species = v.species /\ d \in Int
  <2>1. /\ d \in Int /\ -d \in Shifts /\ At(u, u.ref + d, u.o) = v
    BY SamplingAssumption, CellAssumption DEF Steps
  <2>2. /\ u.ref \in 0..(L - 1) /\ u.ref \in Int /\ u.o \in Orientations(u.species)
        /\ u = [species |-> u.species, ref |-> u.ref, o |-> u.o]
    BY PlacementShape, CellAssumption
  <2>3. v = [species |-> u.species, ref |-> (u.ref + d) % L, o |-> u.o]
    <3>1. u.ref + d \in Int
      BY <2>1, <2>2
    <3> QED
      BY <2>1, <2>2, <3>1, AtShape
  <2>4. v.ref = (u.ref + d) % L /\ v.species = u.species /\ v.o = u.o
    BY <2>3
  <2>5. (u.ref + d) % L \in 0..(L - 1) /\ (((u.ref + d) % L) - d) % L = u.ref
    BY <2>1, <2>2, ThereAndBack
  <2>6. v.ref + (-d) = ((u.ref + d) % L) - d /\ v.ref + (-d) \in Int
    BY <2>1, <2>4, <2>5, CellAssumption, SMTT(40)
  <2>7. At(v, v.ref + (-d), v.o) = [species |-> u.species, ref |-> u.ref, o |-> u.o]
    BY <2>2, <2>4, <2>5, <2>6, AtShape
  <2>8. At(v, v.ref + (-d), v.o) = u
    BY <2>2, <2>7
  <2> QED
    BY <2>1, <2>4, <2>8 DEF Steps
<1>2. ASSUME NEW u \in Placements, NEW v \in Placements PROVE IsFiniteSet(Steps(u, v))
  <2>1. Steps(u, v) \in SUBSET Shifts
    BY DEF Steps
  <2> QED
    BY <2>1, SamplingAssumption, FS_Subset
<1> DEFINE f == [d \in Steps(p, q) |-> -d]
<1>3. f \in Bijection(Steps(p, q), Steps(q, p))
  <2>1. f \in [Steps(p, q) -> Steps(q, p)]
    BY <1>1
  <2>2. \A d \in Steps(p, q), e \in Steps(p, q) : f[d] = f[e] => d = e
    BY <1>1
  <2>3. \A e \in Steps(q, p) : \E d \in Steps(p, q) : f[d] = e
    <3>1. ASSUME NEW e \in Steps(q, p) PROVE -e \in Steps(p, q) /\ -(-e) = e
      BY <1>1
    <3> QED
      BY <3>1
  <2> HIDE DEF f
  <2> QED
    BY <2>1, <2>2, <2>3 DEF Bijection, Injection, Surjection, IsInjective
<1> HIDE DEF f
<1>4. Cardinality(Steps(q, p)) = Cardinality(Steps(p, q))
  BY <1>2, <1>3, FS_Bijection DEF ExistsBijection
<1>5. PICK d \in Steps(p, q) : TRUE
  OBVIOUS
<1>6. Steps(q, p) # {} /\ p.species = q.species
  BY <1>1, <1>5
<1>7. Cardinality(Steps(p, q)) \in Positive
  BY <1>2, FS_CardinalityType, FS_EmptySet DEF Positive
<1> QED
  BY <1>2, <1>4, <1>6, <1>7

LEMMA TranslationFlow ==
  ASSUME NEW b \in Good, NEW p \in Placements, NEW q \in Placements, p # q, b[p] >= 1,
         Steps(p, q) # {}, NEW c, c = Replaced(b, p, q)
  PROVE  Flow(Translations(b), c) =
           Times(<<b[p] * Cardinality(Steps(p, q)), Count(b, Species) * Cardinality(Shifts)>>,
                 ClampToProbability(MetropolisRatio(DeltaU(b, c))))
<1> DEFINE X == MoleculesOf(b, Species) \X Shifts
           o == Count(b, Species) * Cardinality(Shifts)
           to(x) == At(x[1][1], x[1][1].ref + x[2], x[1][1].o)
           at == [x \in X |-> Displaced(b, x, o, x[1][1], to(x))]
           D == Slots(b, p) \X Steps(p, q)
           r == MetropolisRatio(DeltaU(b, c))
<1>1. Translations(b) = {at[x] : x \in X}
  <2>1. ASSUME NEW k \in MoleculesOf(b, Species), NEW d \in Shifts
        PROVE  /\ <<k, d>> \in X
               /\ at[<<k, d>>] = Displaced(b, <<k, d>>, o, k[1], At(k[1], k[1].ref + d, k[1].o))
    OBVIOUS
  <2>2. ASSUME NEW x \in X
        PROVE  /\ x[1] \in MoleculesOf(b, Species) /\ x[2] \in Shifts
               /\ at[x] = at[<<x[1], x[2]>>]
    OBVIOUS
  <2>3. ASSUME NEW a \in Translations(b) PROVE \E x \in X : a = at[x]
    <3>1. PICK k \in MoleculesOf(b, Species), d \in Shifts :
             a = Displaced(b, <<k, d>>, o, k[1], At(k[1], k[1].ref + d, k[1].o))
      BY DEF Translations
    <3>2. <<k, d>> \in X /\ a = at[<<k, d>>]
      BY <2>1, <3>1
    <3> HIDE DEF X, at
    <3> QED
      BY <3>2
  <2>4. ASSUME NEW x \in X PROVE at[x] \in Translations(b)
    <3>1. at[x] = Displaced(b, <<x[1], x[2]>>, o, x[1][1], At(x[1][1], x[1][1].ref + x[2], x[1][1].o))
      BY <2>1, <2>2
    <3> QED
      BY <2>2, <3>1 DEF Translations
  <2> HIDE DEF X, at, o
  <2> QED
    BY <2>3, <2>4
<1>2. \A x \in X : /\ at[x].draw = x /\ at[x].odds = o
                   /\ at[x].next = Replaced(b, x[1][1], to(x))
                   /\ at[x].ratio = MetropolisRatio(DeltaU(b, at[x].next))
  BY DisplacedShape
<1>3. D = {x \in X : at[x].next = c}
  <2>1. ASSUME NEW x \in D PROVE x \in X /\ at[x].next = c
    <3>1. /\ x[1] \in MoleculesOf(b, Species) /\ x[1][1] = p /\ x[2] \in Shifts
          /\ At(p, p.ref + x[2], p.o) = q /\ x = <<x[1], x[2]>>
      BY DEF Slots, Steps
    <3>2. x \in X /\ to(x) = q
      BY <3>1
    <3> QED
      BY <1>2, <3>1, <3>2
  <2>2. ASSUME NEW x \in X, at[x].next = c PROVE x \in D
    <3>1. x[1] \in MoleculesOf(b, Species) /\ x[2] \in Shifts /\ x = <<x[1], x[2]>>
      OBVIOUS
    <3> DEFINE u == x[1][1]
    <3>2. u \in Placements
      BY <3>1, MoleculeShape
    <3>3. to(x) \in Placements
      <4>1. u.ref \in Int /\ u.o \in Orientations(u.species) /\ x[2] \in Int
        BY <3>1, <3>2, PlacementShape, CellAssumption
      <4> QED
        BY <3>2, <4>1, AtShape
    <3>4. Replaced(b, u, to(x)) = Replaced(b, p, q)
      BY <1>2, <2>2
    <3>5. b \in Bags
      BY DEF Good
    <3>6. u = p /\ to(x) = q
      <4> HIDE DEF u, to
      <4> QED
        BY <3>2, <3>3, <3>4, <3>5, UniqueSource
    <3>7. x[1] \in Slots(b, p) /\ x[2] \in Steps(p, q)
      BY <3>1, <3>6 DEF Slots, Steps
    <3> QED
      BY <3>1, <3>7
  <2> HIDE DEF D, X, at
  <2>3. \A x : x \in D <=> x \in X /\ at[x].next = c
    BY <2>1, <2>2
  <2> QED
    BY <2>3
<1>4. IsFiniteSet(D) /\ Cardinality(D) = b[p] * Cardinality(Steps(p, q)) /\ D # {}
  <2>1. IsFiniteSet(Slots(b, p)) /\ Cardinality(Slots(b, p)) = b[p] /\ Slots(b, p) # {}
    <3>1. b[p] \in Nat
      BY DEF Good, Bags
    <3> QED
      BY <3>1, SlotsCount, FS_EmptySet
  <2>2. IsFiniteSet(Steps(p, q))
    BY StepsBack
  <2>3. D # {}
    <3>1. PICK k \in Slots(b, p), d \in Steps(p, q) : TRUE
      BY <2>1
    <3>2. <<k, d>> \in D
      OBVIOUS
    <3> QED
      BY <3>2
  <2> QED
    BY <2>1, <2>2, <2>3, FS_Product
<1>5. \A x \in D : at[x].odds = o /\ at[x].ratio = r
  <2>1. \A x \in D : x \in X /\ at[x].next = c
    BY <1>3
  <2> HIDE DEF D, X, at
  <2> QED
    BY <1>2, <2>1
<1> HIDE DEF D, X, at, o, r
<1>6. Flow(Translations(b), c) = Times(<<Cardinality(D), o>>, ClampToProbability(r))
  <2>1. Leading(Translations(b), X, at, c, D, o, r)
    BY <1>1, <1>2, <1>3, <1>4, <1>5 DEF Leading
  <2> QED
    BY <2>1, FlowIs
<1> QED
  BY <1>4, <1>6 DEF o, r

LEMMA TranslationsBalance ==
  ASSUME NEW b \in Good PROVE InBalance(Translations, Translations, b)
<1> DEFINE there(c) == Times(Weight(b), Flow(Translations(b), c))
           back(c) == Times(Weight(c), Flow(Translations(c), b))
<1>1. ASSUME NEW a \in Translations(b)
      PROVE  there(a.next)[1] * back(a.next)[2] = back(a.next)[1] * there(a.next)[2]
  <2> DEFINE c == a.next
  <2>1. PICK k \in MoleculesOf(b, Species), d \in Shifts :
           a = Displaced(b, <<k, d>>, Count(b, Species) * Cardinality(Shifts), k[1],
                         At(k[1], k[1].ref + d, k[1].o))
    BY DEF Translations
  <2> DEFINE p == k[1]
             q == At(p, p.ref + d, p.o)
  <2>2. p \in Placements /\ b[p] >= 1
    BY MoleculeShape
  <2>3. q \in Placements
    <3>1. p.ref \in Int /\ p.o \in Orientations(p.species) /\ d \in Int
      BY <2>2, PlacementShape, CellAssumption
    <3> QED
      BY <2>2, <3>1, AtShape
  <2>4. c = Replaced(b, p, q)
    BY <2>1, DisplacedShape
  <2>5. d \in Steps(p, q)
    BY DEF Steps
  <2> HIDE DEF c, p, q
  <2>6. CASE p = q
    <3>1. c = b
      BY <2>2, <2>4, <2>6, ReplacedSelf DEF Good
    <3> QED
      BY <3>1 DEF c
  <2>7. CASE p # q
    <3> DEFINE k1 == Cardinality(Steps(p, q))
               s == Cardinality(Shifts)
    <3>1. /\ k1 \in Positive /\ p.species = q.species /\ Steps(q, p) # {} /\ Cardinality(Steps(q, p)) = k1
      BY <2>2, <2>3, <2>5, StepsBack
    <3>2. s \in Positive
      <4>1. Shifts # {} /\ IsFiniteSet(Shifts)
        BY SamplingAssumption
      <4> QED
        BY <4>1, FS_CardinalityType, FS_EmptySet DEF Positive
    <3>3. c \in Good /\ c[q] >= 1 /\ b = Replaced(c, q, p)
      <4> DEFINE m == Taken(b, p)
      <4>1. m \in Good /\ c = Added(m, q) /\ c \in Good /\ b = Added(m, p)
        BY <2>2, <2>3, <2>4, TakenFacts
      <4> HIDE DEF m
      <4>2. m \in Bags /\ c[q] = m[q] + 1 /\ m[q] \in Nat
        BY <2>3, <4>1, AddedShape DEF Good
      <4>3. c[q] >= 1
        BY <4>2
      <4>4. Taken(c, q) = m
        BY <2>3, <4>1, PutBack
      <4>5. Replaced(c, q, p) = Added(Taken(c, q), p)
        BY <2>2, <2>3, <4>1, <4>3, TakenFacts
      <4> QED
        BY <4>1, <4>3, <4>4, <4>5
    <3>4. Flow(Translations(b), c) =
            Times(<<b[p] * k1, Count(b, Species) * s>>, ClampToProbability(MetropolisRatio(DeltaU(b, c))))
      BY <2>2, <2>3, <2>4, <2>5, <2>7, TranslationFlow
    <3>5. Flow(Translations(c), b) =
            Times(<<c[q] * k1, Count(c, Species) * s>>, ClampToProbability(MetropolisRatio(DeltaU(c, b))))
      BY <2>2, <2>3, <2>7, <3>1, <3>3, TranslationFlow
    <3> HIDE DEF k1, s
    <3>6. there(c)[1] * back(c)[2] = back(c)[1] * there(c)[2]
      BY <2>2, <2>3, <2>4, <2>7, <3>1, <3>2, <3>4, <3>5, DisplacedBalance
    <3> QED
      BY <3>6 DEF c
  <2> QED
    BY <2>6, <2>7
<1> QED
  BY <1>1 DEF InBalance

-----------------------------------------------------------------------------
(* Rotations. *)

LEMMA MeanOffsetIsInt == ASSUME NEW sp \in Species PROVE MeanOffset(sp) \in Int
<1> DEFINE n == NumSites(sp)
           f == [k \in 1..n |-> Template[sp][k].offset]
<1>1. Template[sp] \in Seq(TemplateSite) /\ Template[sp] # << >>
  BY SpeciesAssumption
<1>2. n \in Nat /\ n # 0 /\ \A k \in 1..n : Template[sp][k] \in TemplateSite
  BY <1>1 DEF NumSites
<1>3. \A k \in 1..n : f[k] \in Int
  BY <1>2 DEF TemplateSite
<1>4. IsFiniteSet(1..n)
  BY <1>2, UpTo
<1>5. MeanOffset(sp) = SumFunctionOnSet(f, 1..n) \div n
  BY DEF MeanOffset, SumFunction
<1> HIDE DEF n, f
<1>6. SumFunctionOnSet(f, 1..n) \in Int
  BY <1>3, <1>4, SumIsInt
<1> QED
  BY <1>2, <1>5, <1>6

(* A molecule after a half turn about its centroid. *)
Turned(p) == At(p, p.ref + 2 * Arm(p), -p.o)

LEMMA TurnedBack ==
  ASSUME NEW p \in Placements, NumSites(p.species) > 1
  PROVE  /\ Turned(p) \in Placements /\ Turned(p) # p
         /\ Turned(p).species = p.species /\ Turned(Turned(p)) = p
<1> DEFINE s == p.species
           x == p.ref
           o == p.o
           d == 2 * Arm(p)
           q == Turned(p)
<1>1. /\ s \in Species /\ x \in 0..(L - 1) /\ x \in Int /\ o \in {1, -1}
      /\ p = [species |-> s, ref |-> x, o |-> o]
  BY PlacementShape, OrientationsFinite, CellAssumption
<1>2. Orientations(s) = {1, -1} /\ -o \in Orientations(s) /\ o \in Orientations(s) /\ -o # o /\ -(-o) = o
  BY <1>1 DEF Orientations
<1>3. MeanOffset(s) \in Int
  BY <1>1, MeanOffsetIsInt
<1>4. d \in Int /\ d = 2 * (o * MeanOffset(s))
  BY <1>1, <1>3 DEF Arm
<1>5. q = [species |-> s, ref |-> (x + d) % L, o |-> -o] /\ q \in Placements
  BY <1>1, <1>2, <1>4, AtShape DEF Turned
<1>6. q.species = s /\ q.ref = (x + d) % L /\ q.o = -o
  BY <1>5
<1>7. 2 * Arm(q) = -d
  <2>1. Arm(q) = (-o) * MeanOffset(s)
    BY <1>6 DEF Arm
  <2>2. (-o) * MeanOffset(s) = -(o * MeanOffset(s)) /\ o * MeanOffset(s) \in Int
    BY <1>1, <1>3
  <2> HIDE DEF d
  <2> QED
    BY <1>4, <2>1, <2>2
<1> HIDE DEF q, s, x, o, d
<1>8. q # p
  BY <1>1, <1>2, <1>6 DEF o
<1>9. (x + d) % L \in 0..(L - 1) /\ (((x + d) % L) - d) % L = x
  BY <1>1, <1>4, ThereAndBack
<1>10. q.ref + 2 * Arm(q) = ((x + d) % L) - d /\ q.ref + 2 * Arm(q) \in Int
  <2> DEFINE y == (x + d) % L
             z == 2 * Arm(q)
  <2>1. y \in Int /\ q.ref = y /\ z = -d
    BY <1>6, <1>7, <1>9, CellAssumption
  <2> HIDE DEF y, z
  <2>2. q.ref + z = y - d /\ q.ref + z \in Int
    BY <1>4, <2>1
  <2> QED
    BY <2>2 DEF y, z
<1>11. At(q, q.ref + 2 * Arm(q), -q.o) = [species |-> q.species, ref |-> x, o |-> o]
  <2>1. -q.o \in Orientations(q.species) /\ -q.o = o
    BY <1>2, <1>6
  <2> QED
    BY <1>5, <1>9, <1>10, <2>1, AtShape
<1>12. At(q, q.ref + 2 * Arm(q), -q.o) = p
  BY <1>1, <1>6, <1>11
<1> QED
  BY <1>5, <1>6, <1>8, <1>12 DEF q, s, Turned

LEMMA TupleCount ==
  ASSUME NEW S, IsFiniteSet(S)
  PROVE  IsFiniteSet({<<k>> : k \in S}) /\ Cardinality({<<k>> : k \in S}) = Cardinality(S)
<1> DEFINE T == {<<k>> : k \in S}
           f == [k \in S |-> <<k>>]
<1>1. f \in Bijection(S, T)
  <2>1. f \in [S -> T]
    OBVIOUS
  <2>2. \A k, l \in S : f[k] = f[l] => k = l
    OBVIOUS
  <2>3. \A t \in T : \E k \in S : f[k] = t
    OBVIOUS
  <2> HIDE DEF f, T
  <2> QED
    BY <2>1, <2>2, <2>3 DEF Bijection, Injection, Surjection, IsInjective
<1> HIDE DEF f, T
<1>2. IsFiniteSet(T) /\ Cardinality(T) = Cardinality(S)
  BY <1>1, FS_Bijection DEF ExistsBijection
<1> QED
  BY <1>2 DEF T

Turning(b) == {r \in MoleculesOf(b, Species) : NumSites(r[1].species) > 1}

LEMMA RotationFlow ==
  ASSUME NEW b \in Good, NEW p \in Placements, b[p] >= 1, NumSites(p.species) > 1,
         NEW c, c = Replaced(b, p, Turned(p))
  PROVE  Flow(Rotations(b), c) =
           Times(<<b[p], Count(b, Species)>>, ClampToProbability(MetropolisRatio(DeltaU(b, c))))
<1> DEFINE X == {<<k>> : k \in Turning(b)}
           o == Count(b, Species)
           at == [x \in X |-> Displaced(b, x, o, x[1][1], Turned(x[1][1]))]
           D == {<<k>> : k \in Slots(b, p)}
           r == MetropolisRatio(DeltaU(b, c))
<1>1. Rotations(b) = {at[x] : x \in X}
  <2>1. ASSUME NEW k \in Turning(b)
        PROVE  <<k>> \in X /\ at[<<k>>] = Displaced(b, <<k>>, o, k[1], Turned(k[1]))
    OBVIOUS
  <2>2. Rotations(b) = {Displaced(b, <<k>>, o, k[1], Turned(k[1])) : k \in Turning(b)}
    BY DEF Rotations, Turned, Turning
  <2>3. \A x \in X : \E k \in Turning(b) : x = <<k>>
    OBVIOUS
  <2> HIDE DEF X, at, o
  <2> QED
    BY <2>1, <2>2, <2>3
<1>2. \A x \in X : /\ at[x].draw = x /\ at[x].odds = o
                   /\ at[x].next = Replaced(b, x[1][1], Turned(x[1][1]))
                   /\ at[x].ratio = MetropolisRatio(DeltaU(b, at[x].next))
  BY DisplacedShape
<1>3. D = {x \in X : at[x].next = c}
  <2>1. ASSUME NEW k \in Slots(b, p) PROVE <<k>> \in X /\ at[<<k>>].next = c
    <3>1. k \in Turning(b) /\ k[1] = p
      BY DEF Slots, Turning
    <3>2. <<k>> \in X
      BY <3>1
    <3> HIDE DEF X, at
    <3> QED
      BY <1>2, <3>1, <3>2
  <2>2. ASSUME NEW k \in Turning(b), at[<<k>>].next = c PROVE k \in Slots(b, p)
    <3>1. <<k>> \in X /\ k \in MoleculesOf(b, Species) /\ NumSites(k[1].species) > 1
      BY DEF Turning
    <3>2. k[1] \in Placements /\ b \in Bags
      BY <3>1, MoleculeShape DEF Good
    <3>3. Turned(k[1]) \in Placements /\ Turned(p) \in Placements /\ Turned(p) # p
      BY <3>1, <3>2, TurnedBack
    <3> HIDE DEF X, at
    <3>4. Replaced(b, k[1], Turned(k[1])) = Replaced(b, p, Turned(p))
      BY <1>2, <2>2, <3>1
    <3>5. k[1] = p
      BY <3>2, <3>3, <3>4, UniqueSource
    <3> QED
      BY <3>1, <3>5 DEF Slots
  <2> HIDE DEF at, o, r
  <2>3. ASSUME NEW x \in D PROVE x \in X /\ at[x].next = c
    BY <2>1
  <2>4. ASSUME NEW x \in X, at[x].next = c PROVE x \in D
    BY <2>2, <2>4
  <2> HIDE DEF D, X
  <2>5. \A x : x \in D <=> x \in X /\ at[x].next = c
    BY <2>3, <2>4
  <2> QED
    BY <2>5
<1>4. IsFiniteSet(D) /\ Cardinality(D) = b[p] /\ D # {}
  <2>1. IsFiniteSet(Slots(b, p)) /\ Cardinality(Slots(b, p)) = b[p] /\ Slots(b, p) # {}
    <3>1. b[p] \in Nat
      BY DEF Good, Bags
    <3> QED
      BY <3>1, SlotsCount, FS_EmptySet
  <2>2. D # {}
    BY <2>1
  <2> QED
    BY <2>1, <2>2, TupleCount
<1>5. \A x \in D : at[x].odds = o /\ at[x].ratio = r
  <2>1. \A x \in D : x \in X /\ at[x].next = c
    BY <1>3
  <2> HIDE DEF D, X, at
  <2> QED
    BY <1>2, <2>1
<1> HIDE DEF D, X, at, o, r
<1>6. Flow(Rotations(b), c) = Times(<<Cardinality(D), o>>, ClampToProbability(r))
  <2>1. Leading(Rotations(b), X, at, c, D, o, r)
    BY <1>1, <1>2, <1>3, <1>4, <1>5 DEF Leading
  <2> QED
    BY <2>1, FlowIs
<1> QED
  BY <1>4, <1>6 DEF o, r

LEMMA ReplacedBack ==
  ASSUME NEW b \in Good, NEW p \in Placements, NEW q \in Placements, b[p] >= 1
  PROVE  LET c == Replaced(b, p, q) IN
         /\ c \in Good /\ c[q] \in Nat /\ c[q] >= 1 /\ b = Replaced(c, q, p)
         /\ Taken(c, q) = Taken(b, p)
<1> DEFINE m == Taken(b, p)
           c == Replaced(b, p, q)
<1>1. m \in Good /\ c = Added(m, q) /\ c \in Good /\ b = Added(m, p)
  BY TakenFacts
<1> HIDE DEF m, c
<1>2. m \in Bags /\ c[q] = m[q] + 1 /\ m[q] \in Nat
  BY <1>1, AddedShape DEF Good
<1>3. Taken(c, q) = m
  BY <1>1, PutBack
<1>4. c[q] \in Nat /\ c[q] >= 1
  BY <1>2
<1>5. Replaced(c, q, p) = Added(Taken(c, q), p)
  BY <1>1, <1>4, TakenFacts
<1>6. c \in Good /\ c[q] \in Nat /\ c[q] >= 1 /\ b = Replaced(c, q, p) /\ Taken(c, q) = m
  BY <1>1, <1>3, <1>4, <1>5
<1> QED
  BY <1>6 DEF c, m

LEMMA RotationsBalance ==
  ASSUME NEW b \in Good PROVE InBalance(Rotations, Rotations, b)
<1> DEFINE there(c) == Times(Weight(b), Flow(Rotations(b), c))
           back(c) == Times(Weight(c), Flow(Rotations(c), b))
<1>1. ASSUME NEW a \in Rotations(b)
      PROVE  there(a.next)[1] * back(a.next)[2] = back(a.next)[1] * there(a.next)[2]
  <2> DEFINE c == a.next
  <2>1. PICK k \in Turning(b) : a = Displaced(b, <<k>>, Count(b, Species), k[1], Turned(k[1]))
    BY DEF Rotations, Turned, Turning
  <2> DEFINE p == k[1]
             q == Turned(p)
  <2>2. p \in Placements /\ b[p] >= 1 /\ NumSites(p.species) > 1
    BY MoleculeShape DEF Turning
  <2>3. q \in Placements /\ q # p /\ q.species = p.species /\ Turned(q) = p
    BY <2>2, TurnedBack
  <2>4. c = Replaced(b, p, q)
    BY <2>1, DisplacedShape
  <2>5. NumSites(q.species) > 1
    BY <2>2, <2>3
  <2> HIDE DEF c, p
  <2>6. c \in Good /\ c[q] \in Nat /\ c[q] >= 1 /\ b = Replaced(c, q, p)
    BY <2>2, <2>3, <2>4, ReplacedBack
  <2>7. Flow(Rotations(b), c) =
          Times(<<b[p], Count(b, Species)>>, ClampToProbability(MetropolisRatio(DeltaU(b, c))))
    BY <2>2, <2>4, RotationFlow
  <2>8. Flow(Rotations(c), b) =
          Times(<<c[q], Count(c, Species)>>, ClampToProbability(MetropolisRatio(DeltaU(c, b))))
    <3> HIDE DEF q
    <3> QED
      BY <2>3, <2>5, <2>6, RotationFlow
  <2> HIDE DEF q
  <2>9. /\ b[p] = b[p] * 1 /\ c[q] = c[q] * 1 /\ Count(b, Species) = Count(b, Species) * 1
        /\ Count(c, Species) = Count(c, Species) * 1 /\ 1 \in Positive
    <3>1. /\ b[p] \in Int /\ c[q] \in Int /\ Count(b, Species) \in Int /\ Count(c, Species) \in Int
      BY <2>2, <2>6, MoleculesFinite DEF Good, Bags
    <3> QED
      BY <3>1 DEF Positive
  <2>10. Flow(Rotations(b), c) =
           Times(<<b[p] * 1, Count(b, Species) * 1>>,
                 ClampToProbability(MetropolisRatio(DeltaU(b, c))))
    BY <2>7, <2>9
  <2>11. Flow(Rotations(c), b) =
           Times(<<c[q] * 1, Count(c, Species) * 1>>,
                 ClampToProbability(MetropolisRatio(DeltaU(c, b))))
    BY <2>8, <2>9
  <2>12. there(c)[1] * back(c)[2] = back(c)[1] * there(c)[2]
    BY <2>2, <2>3, <2>4, <2>9, <2>10, <2>11, DisplacedBalance
  <2> QED
    BY <2>12 DEF c
<1> QED
  BY <1>1 DEF InBalance

-----------------------------------------------------------------------------
(* Deletions and insertions. *)

Deletion(b, k) ==
  Attempt(<<k>>, Cardinality(Species) * Count(b, {k[1].species}), Taken(b, k[1]),
          DeletionRatio(k[1].species, Count(b, {k[1].species}), DeltaU(b, Taken(b, k[1]))))
Insertion(m, p) ==
  Attempt(<<p>>, Cardinality(Species) * L * Cardinality(Orientations(p.species)), Added(m, p),
          InsertionRatio(p.species, Count(m, {p.species}), DeltaU(m, Added(m, p))))

LEMMA DeletionsAre == \A b : Deletions(b) = {Deletion(b, k) : k \in MoleculesOf(b, Species)}
BY DEF Deletions, Deletion, Taken
LEMMA InsertionsAre == \A m : Insertions(m) = {Insertion(m, p) : p \in Placements}
BY DEF Insertions, Insertion, Added

LEMMA DeletionFlow ==
  ASSUME NEW b \in Good, NEW p \in Placements, b[p] >= 1, NEW c, c = Taken(b, p),
         NEW n, n = Count(b, {p.species})
  PROVE  Flow(Deletions(b), c) =
           Times(<<b[p], Cardinality(Species) * n>>,
                 ClampToProbability(DeletionRatio(p.species, n, DeltaU(b, c))))
<1> DEFINE Q == MoleculesOf(b, Species)
           X == {<<k>> : k \in Q}
           at == [x \in X |-> Deletion(b, x[1])]
           D == {<<k>> : k \in Slots(b, p)}
           o == Cardinality(Species) * n
           r == DeletionRatio(p.species, n, DeltaU(b, c))
<1>1. Deletions(b) = {at[x] : x \in X}
  <2>1. ASSUME NEW k \in Q PROVE <<k>> \in X /\ at[<<k>>] = Deletion(b, k)
    OBVIOUS
  <2>2. Deletions(b) = {Deletion(b, k) : k \in Q}
    BY DeletionsAre
  <2>3. \A x \in X : \E k \in Q : x = <<k>>
    OBVIOUS
  <2> HIDE DEF X, at, Q
  <2> QED
    BY <2>1, <2>2, <2>3
<1>2. ASSUME NEW k \in Q
      PROVE  /\ <<k>> \in X /\ at[<<k>>].draw = <<k>> /\ at[<<k>>].next = Taken(b, k[1])
             /\ k[1] = p => at[<<k>>].odds = o /\ at[<<k>>].ratio = r
  BY DEF Deletion, Attempt
<1>3. \A k \in Q : Taken(b, k[1]) = c <=> k \in Slots(b, p)
  <2> SUFFICES ASSUME NEW k \in Q, Taken(b, k[1]) = c PROVE k[1] = p
    BY DEF Slots
  <2>1. k[1] \in Placements /\ b[k[1]] \in Int /\ b[p] \in Int /\ b[k[1]] >= 1
    BY MoleculeShape DEF Good, Bags
  <2>2. b \in Bags
    BY DEF Good
  <2>3. Taken(b, p)[p] = b[p] - 1 /\ (k[1] # p => Taken(b, k[1])[p] = b[p])
    BY <2>1, <2>2 DEF Taken, Bags
  <2> QED
    BY <2>1, <2>3
<1>4. D = {x \in X : at[x].next = c}
  <2>1. \A k \in Slots(b, p) : k \in Q
    BY DEF Slots
  <2>2. ASSUME NEW x \in D PROVE x \in X /\ at[x].next = c
    <3>1. PICK k \in Slots(b, p) : x = <<k>>
      OBVIOUS
    <3> HIDE DEF D, X, at, Q
    <3> QED
      BY <1>2, <1>3, <2>1, <3>1
  <2>3. ASSUME NEW x \in X, at[x].next = c PROVE x \in D
    <3>1. PICK k \in Q : x = <<k>>
      OBVIOUS
    <3>2. k \in Slots(b, p)
      <4> HIDE DEF D, X, at, Q
      <4> QED
        BY <1>2, <1>3, <2>3, <3>1
    <3> QED
      BY <3>1, <3>2
  <2> HIDE DEF D, X, at
  <2>4. \A x : x \in D <=> x \in X /\ at[x].next = c
    BY <2>2, <2>3
  <2> QED
    BY <2>4
<1>5. IsFiniteSet(D) /\ Cardinality(D) = b[p] /\ D # {}
  <2>1. IsFiniteSet(Slots(b, p)) /\ Cardinality(Slots(b, p)) = b[p] /\ Slots(b, p) # {}
    <3>1. b[p] \in Nat
      BY DEF Good, Bags
    <3> QED
      BY <3>1, SlotsCount, FS_EmptySet
  <2>2. D # {}
    BY <2>1
  <2> QED
    BY <2>1, <2>2, TupleCount
<1>6. \A x \in D : at[x].odds = o /\ at[x].ratio = r
  <2>1. ASSUME NEW k \in Slots(b, p) PROVE at[<<k>>].odds = o /\ at[<<k>>].ratio = r
    <3>1. k \in Q /\ k[1] = p
      BY DEF Slots
    <3> HIDE DEF at, Q, o, r
    <3> QED
      BY <1>2, <3>1
  <2> HIDE DEF at, o, r
  <2> QED
    BY <2>1
<1>7. \A x \in X : at[x].draw = x
  <2> HIDE DEF at
  <2> QED
    BY <1>2
<1> HIDE DEF D, X, at, o, r, Q
<1>8. Flow(Deletions(b), c) = Times(<<Cardinality(D), o>>, ClampToProbability(r))
  <2>1. Leading(Deletions(b), X, at, c, D, o, r)
    BY <1>1, <1>4, <1>5, <1>6, <1>7 DEF Leading
  <2> QED
    BY <2>1, FlowIs
<1> QED
  BY <1>5, <1>8 DEF o, r

LEMMA InsertionFlow ==
  ASSUME NEW m \in Bags, NEW p \in Placements, NEW c, c = Added(m, p),
         NEW n, n = Count(m, {p.species})
  PROVE  Flow(Insertions(m), c) =
           Times(<<1, Cardinality(Species) * L * Ways(p)>>,
                 ClampToProbability(InsertionRatio(p.species, n, DeltaU(m, c))))
<1> DEFINE X == {<<k>> : k \in Placements}
           at == [x \in X |-> Insertion(m, x[1])]
           D == {<<p>>}
           o == Cardinality(Species) * L * Ways(p)
           r == InsertionRatio(p.species, n, DeltaU(m, c))
<1>1. Insertions(m) = {at[x] : x \in X}
  <2>1. ASSUME NEW k \in Placements PROVE <<k>> \in X /\ at[<<k>>] = Insertion(m, k)
    OBVIOUS
  <2>2. Insertions(m) = {Insertion(m, k) : k \in Placements}
    BY InsertionsAre
  <2>3. ASSUME NEW x \in X PROVE at[x] \in Insertions(m)
    <3>1. PICK k \in Placements : x = <<k>>
      OBVIOUS
    <3> HIDE DEF X, at
    <3> QED
      BY <2>1, <2>2, <3>1
  <2>4. ASSUME NEW a \in Insertions(m) PROVE \E x \in X : a = at[x]
    <3>1. PICK k \in Placements : a = Insertion(m, k)
      BY <2>2
    <3> HIDE DEF X, at
    <3> QED
      BY <2>1, <3>1
  <2> HIDE DEF X, at
  <2> QED
    BY <2>3, <2>4
<1>2. ASSUME NEW k \in Placements
      PROVE  /\ <<k>> \in X /\ at[<<k>>].draw = <<k>> /\ at[<<k>>].next = Added(m, k)
             /\ k = p => at[<<k>>].odds = o /\ at[<<k>>].ratio = r
  BY DEF Insertion, Attempt, Ways
<1>3. \A k \in Placements : Added(m, k) = c <=> k = p
  <2> SUFFICES ASSUME NEW k \in Placements, Added(m, k) = Added(m, p) PROVE k = p
    OBVIOUS
  <2>1. Added(m, p)[p] = m[p] + 1 /\ (k # p => Added(m, k)[p] = m[p]) /\ m[p] \in Nat
    BY AddedShape
  <2> QED
    BY <2>1
<1>4. D = {x \in X : at[x].next = c}
  <2>1. <<p>> \in X /\ at[<<p>>].next = c
    BY <1>2, <1>3
  <2>2. ASSUME NEW x \in X, at[x].next = c PROVE x = <<p>>
    <3>1. PICK k \in Placements : x = <<k>>
      OBVIOUS
    <3> HIDE DEF X, at
    <3> QED
      BY <1>2, <1>3, <2>2, <3>1
  <2> HIDE DEF X, at
  <2> QED
    BY <2>1, <2>2
<1>5. IsFiniteSet(D) /\ Cardinality(D) = 1 /\ D # {}
  BY FS_Singleton
<1>6. \A x \in D : at[x].odds = o /\ at[x].ratio = r
  BY <1>2
<1>7. \A x \in X : at[x].draw = x
  <2> HIDE DEF at
  <2> QED
    BY <1>2
<1> HIDE DEF D, X, at, o, r
<1>8. Flow(Insertions(m), c) = Times(<<Cardinality(D), o>>, ClampToProbability(r))
  <2>1. Leading(Insertions(m), X, at, c, D, o, r)
    BY <1>1, <1>4, <1>5, <1>6, <1>7 DEF Leading
  <2> QED
    BY <2>1, FlowIs
<1> QED
  BY <1>5, <1>8 DEF o, r

LEMMA SpeciesCount == L \in Positive /\ Cardinality(Species) \in Positive
BY CellAssumption, SamplingAssumption, SpeciesAssumption, FS_CardinalityType, FS_EmptySet DEF Positive

LEMMA DeletionsBalance ==
  ASSUME NEW b \in Good PROVE InBalance(Deletions, Insertions, b)
<1> DEFINE there(c) == Times(Weight(b), Flow(Deletions(b), c))
           back(c) == Times(Weight(c), Flow(Insertions(c), b))
<1>1. ASSUME NEW a \in Deletions(b)
      PROVE  there(a.next)[1] * back(a.next)[2] = back(a.next)[1] * there(a.next)[2]
  <2> DEFINE c == a.next
  <2>1. PICK k \in MoleculesOf(b, Species) : a = Deletion(b, k)
    BY DeletionsAre
  <2> DEFINE p == k[1]
             n == Count(b, {p.species})
             A == Activities(c)
             C == Copies(c)
             f == Activity[p.species]
             w == Ways(p)
             s == Cardinality(Species)
  <2>2. p \in Placements /\ b[p] >= 1
    BY MoleculeShape
  <2>3. c = Taken(b, p)
    BY <2>1 DEF Deletion, Attempt
  <2> HIDE DEF c, p
  <2>4. /\ A \in Positive /\ C \in Positive /\ b[p] \in Positive /\ w \in Positive /\ f \in Positive
        /\ Activities(b) = A * f /\ Copies(b) = C * (w * b[p]) /\ n \in Positive
    BY <2>2, <2>3, WeightsOf
  <2>5. c \in Good /\ c \in Bags /\ b \in Bags /\ b = Added(c, p)
    BY <2>2, <2>3, TakenFacts DEF Good
  <2>6. Count(c, {p.species}) \in Nat /\ Count(c, {p.species}) + 1 = n
    BY <2>2, <2>3, <2>5, TakenFacts, MoleculesFinite
  <2>7. Flow(Deletions(b), c) =
          Times(<<b[p], s * n>>, ClampToProbability(Times(<<n, f * L>>, Boltzmann(DeltaU(b, c)))))
    BY <2>2, <2>3, DeletionFlow DEF DeletionRatio
  <2>8. Flow(Insertions(c), b) =
          Times(<<1, s * L * w>>, ClampToProbability(Times(<<f * L, n>>, Boltzmann(DeltaU(c, b)))))
    BY <2>2, <2>5, <2>6, InsertionFlow DEF InsertionRatio
  <2>9. L \in Positive /\ s \in Positive
    BY SpeciesCount
  <2> HIDE DEF A, C, f, w, s, n
  <2>10. /\ A * f \in Positive /\ C * (w * b[p]) \in Positive /\ s * n \in Positive /\ s * L * w \in Positive
         /\ f * L \in Positive /\ 1 \in Positive /\ n * (f * L) = (f * L) * n
    BY <2>4, <2>9, ProductPositive DEF Positive
  <2>11. (((A * f) * b[p]) * (C * (s * L * w))) * n = ((A * 1) * ((C * (w * b[p])) * (s * n))) * (f * L)
    <3> DEFINE x == b[p]
    <3>1. x \in Positive
      BY <2>4
    <3> HIDE DEF x
    <3>2. (((A * f) * x) * (C * (s * L * w))) * n = ((A * 1) * ((C * (w * x)) * (s * n))) * (f * L)
      BY <2>4, <2>9, <3>1 DEF Positive
    <3> QED
      BY <3>2 DEF x
  <2>12. Activities(c) = A /\ Copies(c) = C
    BY DEF A, C
  <2>13. there(c)[1] * back(c)[2] = back(c)[1] * there(c)[2]
    BY <2>4, <2>5, <2>7, <2>8, <2>9, <2>10, <2>11, <2>12, PairBalance
  <2> QED
    BY <2>13 DEF c
<1> QED
  BY <1>1 DEF InBalance

-----------------------------------------------------------------------------
(* Identity swaps. *)

Swapping(b, k, new) ==
  Attempt(<<k, new>>,
          Cardinality(Species) * Count(b, {k[1].species}) * (Cardinality(Species) - 1)
            * Ways(new),
          Replaced(b, k[1], new),
          SwapRatio(k[1].species, new.species, Count(b, {k[1].species}), Count(b, {new.species}),
                    DeltaU(b, Replaced(b, k[1], new))))

LEMMA SwapsAre ==
  \A b : Swaps(b) = UNION {{Swapping(b, k, new) : new \in Swapped(k[1])} : k \in MoleculesOf(b, Species)}
BY DEF Swaps, Swapping, Ways

(* Where the reference point of every species is its centroid. *)
Centred == \A sp \in Species : MeanOffset(sp) = 0

LEMMA SwappedBack ==
  ASSUME Centred, NEW p \in Placements, NEW q \in Swapped(p)
  PROVE  q \in Placements /\ p \in Swapped(q) /\ q.species # p.species /\ p # q
<1>1. /\ p.species \in Species /\ p.ref \in 0..(L - 1) /\ p.ref \in Int /\ p.o \in {1, -1}
  BY PlacementShape, OrientationsFinite, CellAssumption
<1>2. q \in Placements /\ q.species # p.species /\ q.ref = (p.ref + Arm(p)) % L
  BY DEF Swapped
<1>3. /\ q.species \in Species /\ q.o \in {1, -1} /\ q.ref \in 0..(L - 1) /\ q.ref \in Int
  BY <1>2, PlacementShape, OrientationsFinite, CellAssumption
<1>4. Arm(p) = 0 /\ Arm(q) = 0
  BY <1>1, <1>3 DEF Arm, Centred
<1>5. ASSUME NEW x \in 0..(L - 1) PROVE (x + 0) % L = x
  BY CellAssumption
<1>6. q.ref = p.ref /\ p.ref = (q.ref + Arm(q)) % L
  BY <1>1, <1>2, <1>3, <1>4, <1>5
<1> QED
  BY <1>2, <1>6 DEF Swapped

LEMMA SwapFlow ==
  ASSUME NEW b \in Good, NEW p \in Placements, b[p] >= 1, NEW q \in Placements, q \in Swapped(p),
         NEW c, c = Replaced(b, p, q), p # q
  PROVE  Flow(Swaps(b), c) =
           Times(<<b[p], Cardinality(Species) * Count(b, {p.species}) * (Cardinality(Species) - 1)
                           * Ways(q)>>,
                 ClampToProbability(SwapRatio(p.species, q.species, Count(b, {p.species}),
                                              Count(b, {q.species}), DeltaU(b, c))))
<1> DEFINE n == Count(b, {p.species})
           n2 == Count(b, {q.species})
           Q == MoleculesOf(b, Species)
           X == {x \in Q \X Placements : x[2] \in Swapped(x[1][1])}
           at == [x \in X |-> Swapping(b, x[1], x[2])]
           D == Slots(b, p) \X {q}
           o == Cardinality(Species) * n * (Cardinality(Species) - 1) * Ways(q)
           r == SwapRatio(p.species, q.species, n, n2, DeltaU(b, c))
<1>1. Swaps(b) = {at[x] : x \in X}
  <2>1. ASSUME NEW k \in Q, NEW new \in Swapped(k[1])
        PROVE  <<k, new>> \in X /\ at[<<k, new>>] = Swapping(b, k, new)
    BY DEF Swapped
  <2>2. ASSUME NEW x \in X PROVE at[x] \in Swaps(b)
    <3>1. x[1] \in Q /\ x[2] \in Swapped(x[1][1]) /\ at[x] = Swapping(b, x[1], x[2])
      OBVIOUS
    <3> HIDE DEF X, at
    <3> QED
      BY <3>1, SwapsAre
  <2>3. ASSUME NEW a \in Swaps(b) PROVE \E x \in X : a = at[x]
    <3>1. PICK k \in Q : a \in {Swapping(b, k, new) : new \in Swapped(k[1])}
      BY SwapsAre
    <3>2. PICK new \in Swapped(k[1]) : a = Swapping(b, k, new)
      BY <3>1
    <3> HIDE DEF X, at, Q
    <3> QED
      BY <2>1, <3>2
  <2> HIDE DEF X, at
  <2> QED
    BY <2>2, <2>3
<1>2. \A x \in X : /\ at[x].draw = x /\ at[x].next = Replaced(b, x[1][1], x[2])
                   /\ x[1][1] = p /\ x[2] = q => at[x].odds = o /\ at[x].ratio = r
  <2>1. \A x \in X : x = <<x[1], x[2]>> /\ at[x] = Swapping(b, x[1], x[2])
    OBVIOUS
  <2>2. ASSUME NEW k, NEW new
        PROVE  /\ Swapping(b, k, new).draw = <<k, new>>
               /\ Swapping(b, k, new).next = Replaced(b, k[1], new)
               /\ k[1] = p /\ new = q => Swapping(b, k, new).odds = o /\ Swapping(b, k, new).ratio = r
    BY DEF Swapping, Attempt
  <2> HIDE DEF X, at, o, r
  <2> QED
    BY <2>1, <2>2
<1>3. D = {x \in X : at[x].next = c}
  <2>1. ASSUME NEW x \in D PROVE x \in X /\ at[x].next = c
    <3>1. x[1] \in Q /\ x[1][1] = p /\ x[2] = q /\ x = <<x[1], x[2]>>
      BY DEF Slots
    <3>2. x \in X
      BY <3>1
    <3> QED
      BY <1>2, <3>1, <3>2
  <2>2. ASSUME NEW x \in X, at[x].next = c PROVE x \in D
    <3>1. x[1] \in Q /\ x[2] \in Placements /\ x = <<x[1], x[2]>>
      OBVIOUS
    <3>2. x[1][1] \in Placements /\ b \in Bags
      BY <3>1, MoleculeShape DEF Good
    <3>3. Replaced(b, x[1][1], x[2]) = Replaced(b, p, q)
      BY <1>2, <2>2
    <3>4. x[1][1] = p /\ x[2] = q
      <4> HIDE DEF Q, X
      <4> QED
        BY <3>1, <3>2, <3>3, UniqueSource
    <3>5. x[1] \in Slots(b, p)
      BY <3>1, <3>4 DEF Slots
    <3> QED
      BY <3>1, <3>4, <3>5
  <2> HIDE DEF D, X, at
  <2>3. \A x : x \in D <=> x \in X /\ at[x].next = c
    BY <2>1, <2>2
  <2> QED
    BY <2>3
<1>4. IsFiniteSet(D) /\ Cardinality(D) = b[p] /\ D # {}
  <2>1. IsFiniteSet(Slots(b, p)) /\ Cardinality(Slots(b, p)) = b[p] /\ Slots(b, p) # {} /\ b[p] \in Nat
    <3>1. b[p] \in Nat
      BY DEF Good, Bags
    <3> QED
      BY <3>1, SlotsCount, FS_EmptySet
  <2>2. IsFiniteSet({q}) /\ Cardinality({q}) = 1
    BY FS_Singleton
  <2>3. D # {}
    <3>1. PICK k \in Slots(b, p) : TRUE
      BY <2>1
    <3>2. <<k, q>> \in D
      OBVIOUS
    <3> QED
      BY <3>2
  <2>4. IsFiniteSet(D) /\ Cardinality(D) = b[p] * 1
    BY <2>1, <2>2, FS_Product
  <2> HIDE DEF D
  <2> QED
    BY <2>1, <2>3, <2>4
<1>5. \A x \in D : at[x].odds = o /\ at[x].ratio = r
  <2>1. \A x \in D : x \in X /\ x[1][1] = p /\ x[2] = q
    BY <1>3 DEF Slots
  <2> HIDE DEF D, X, at, o, r
  <2> QED
    BY <1>2, <2>1
<1> HIDE DEF D, X, at, o, r, Q
<1>6. Flow(Swaps(b), c) = Times(<<Cardinality(D), o>>, ClampToProbability(r))
  <2>1. Leading(Swaps(b), X, at, c, D, o, r)
    BY <1>1, <1>2, <1>3, <1>4, <1>5 DEF Leading
  <2> QED
    BY <2>1, FlowIs
<1> QED
  BY <1>4, <1>6 DEF o, r

LEMMA SwapsBalance ==
  ASSUME Centred, NEW b \in Good PROVE InBalance(Swaps, Swaps, b)
<1> DEFINE there(c) == Times(Weight(b), Flow(Swaps(b), c))
           back(c) == Times(Weight(c), Flow(Swaps(c), b))
<1>1. ASSUME NEW a \in Swaps(b)
      PROVE  there(a.next)[1] * back(a.next)[2] = back(a.next)[1] * there(a.next)[2]
  <2> DEFINE c == a.next
  <2>0. PICK k \in MoleculesOf(b, Species) : a \in {Swapping(b, k, new) : new \in Swapped(k[1])}
    BY SwapsAre
  <2>1. PICK new \in Swapped(k[1]) : a = Swapping(b, k, new)
    BY <2>0
  <2> DEFINE p == k[1]
             q == new
             m == Taken(b, p)
             A == Activities(m)
             C == Copies(m)
             f == Activity[p.species]
             f2 == Activity[q.species]
             w == Ways(p)
             w2 == Ways(q)
             n == Count(b, {p.species})
             n2 == Count(c, {q.species})
             s == Cardinality(Species)
             t == s - 1
  <2>2. p \in Placements /\ b[p] >= 1
    BY MoleculeShape
  <2>3. c = Replaced(b, p, q)
    BY <2>1 DEF Swapping, Attempt
  <2>4. q \in Placements /\ p \in Swapped(q) /\ q \in Swapped(p) /\ q.species # p.species /\ p # q
    <3> HIDE DEF c
    <3> QED
      BY <2>1, <2>2, SwappedBack
  <2> HIDE DEF c, p, q
  <2>5. c \in Good /\ c[q] \in Nat /\ c[q] >= 1 /\ b = Replaced(c, q, p) /\ Taken(c, q) = m
    BY <2>2, <2>3, <2>4, ReplacedBack
  <2>6. /\ A \in Positive /\ C \in Positive /\ b[p] \in Positive /\ w \in Positive /\ f \in Positive
        /\ Activities(b) = A * f /\ Copies(b) = C * (w * b[p]) /\ n \in Positive
    BY <2>2, WeightsOf
  <2>7. /\ c[q] \in Positive /\ w2 \in Positive /\ f2 \in Positive
        /\ Activities(c) = A * f2 /\ Copies(c) = C * (w2 * c[q]) /\ n2 \in Positive
    BY <2>4, <2>5, WeightsOf
  <2>8. Count(b, {q.species}) + 1 = n2 /\ Count(c, {p.species}) + 1 = n
    <3>1. m \in Bags
      BY <2>2, TakenFacts DEF Good
    <3>2. Count(b, {q.species}) = Count(m, {q.species}) /\ n = Count(m, {p.species}) + 1
      BY <2>2, <2>4, TakenFacts
    <3>3. Count(c, {p.species}) = Count(m, {p.species}) /\ n2 = Count(m, {q.species}) + 1
      BY <2>4, <2>5, TakenFacts
    <3> QED
      BY <3>2, <3>3
  <2>9. Flow(Swaps(b), c) =
          Times(<<b[p], s * n * t * w2>>,
                ClampToProbability(Times(<<f2 * n, f * n2>>, Boltzmann(DeltaU(b, c)))))
    <3> DEFINE n0 == Count(b, {q.species})
    <3>1. Flow(Swaps(b), c) =
            Times(<<b[p], Cardinality(Species) * n * (Cardinality(Species) - 1) * Ways(q)>>,
                  ClampToProbability(SwapRatio(p.species, q.species, n, n0, DeltaU(b, c))))
      BY <2>2, <2>3, <2>4, SwapFlow
    <3>2. SwapRatio(p.species, q.species, n, n0, DeltaU(b, c)) =
            Times(<<f2 * n, f * n2>>, Boltzmann(DeltaU(b, c)))
      BY <2>8 DEF SwapRatio
    <3> QED
      BY <3>1, <3>2
  <2>10. Flow(Swaps(c), b) =
          Times(<<c[q], s * n2 * t * w>>,
                ClampToProbability(Times(<<f * n2, f2 * n>>, Boltzmann(DeltaU(c, b)))))
    <3> DEFINE n0 == Count(c, {p.species})
    <3>1. Flow(Swaps(c), b) =
            Times(<<c[q], Cardinality(Species) * n2 * (Cardinality(Species) - 1) * Ways(p)>>,
                  ClampToProbability(SwapRatio(q.species, p.species, n2, n0, DeltaU(c, b))))
      BY <2>2, <2>4, <2>5, SwapFlow
    <3>2. SwapRatio(q.species, p.species, n2, n0, DeltaU(c, b)) =
            Times(<<f * n2, f2 * n>>, Boltzmann(DeltaU(c, b)))
      BY <2>8 DEF SwapRatio
    <3> QED
      BY <3>1, <3>2
  <2>11. s \in Positive /\ t \in Positive
    <3>1. p.species \in Species /\ q.species \in Species
      BY <2>2, <2>4, PlacementShape
    <3>2. s \in Positive
      BY SpeciesCount
    <3>3. s # 1
      <4> SUFFICES ASSUME s = 1 PROVE FALSE
        OBVIOUS
      <4>1. \E x : Species = {x}
        BY SamplingAssumption, FS_Singleton
      <4> QED
        BY <2>4, <3>1, <4>1
    <3> HIDE DEF s
    <3> QED
      BY <3>2, <3>3 DEF Positive
  <2> HIDE DEF A, C, f, f2, w, w2, s, t, n, n2
  <2>12. /\ A * f \in Positive /\ C * (w * b[p]) \in Positive
         /\ A * f2 \in Positive /\ C * (w2 * c[q]) \in Positive
         /\ s * n * t * w2 \in Positive /\ s * n2 * t * w \in Positive
         /\ f2 * n \in Positive /\ f * n2 \in Positive
         /\ (f2 * n) * (f * n2) = (f * n2) * (f2 * n)
    BY <2>6, <2>7, <2>11, ProductPositive DEF Positive
  <2>13. (((A * f) * b[p]) * ((C * (w2 * c[q])) * (s * n2 * t * w))) * (f2 * n)
           = (((A * f2) * c[q]) * ((C * (w * b[p])) * (s * n * t * w2))) * (f * n2)
    <3> DEFINE x == b[p]
               y == c[q]
    <3>1. x \in Positive /\ y \in Positive
      BY <2>6, <2>7
    <3> HIDE DEF x, y
    <3>2. (((A * f) * x) * ((C * (w2 * y)) * (s * n2 * t * w))) * (f2 * n)
            = (((A * f2) * y) * ((C * (w * x)) * (s * n * t * w2))) * (f * n2)
      BY <2>6, <2>7, <2>11, <3>1 DEF Positive
    <3> QED
      BY <3>2 DEF x, y
  <2>14. b \in Bags /\ c \in Bags
    BY <2>5 DEF Good
  <2>15. there(c)[1] * back(c)[2] = back(c)[1] * there(c)[2]
    BY <2>6, <2>7, <2>9, <2>10, <2>12, <2>13, <2>14, PairBalance, SMTT(40)
  <2> QED
    BY <2>15 DEF c
<1> QED
  BY <1>1 DEF InBalance

-----------------------------------------------------------------------------
(* The chain. *)

LEMMA StartGood == Init => bag \in Good
<1> SUFFICES ASSUME Init PROVE bag \in Good
  OBVIOUS
<1>1. bag \in Bags /\ \A p \in Placements : bag[p] = 0
  BY DEF Init, Bags
<1>2. MoleculesOf(bag, Species) = {}
  BY <1>1 DEF MoleculesOf
<1>3. Count(bag, Species) = 0
  BY <1>2, FS_EmptySet DEF Count
<1> QED
  BY <1>1, <1>3, SamplingAssumption DEF Good

LEMMA DisplacedGood ==
  ASSUME NEW b \in Good, NEW a \in Translations(b) \cup Rotations(b) PROVE a.next \in Good
<1>1. CASE a \in Translations(b)
  <2>1. PICK k \in MoleculesOf(b, Species), d \in Shifts :
           a = Displaced(b, <<k, d>>, Count(b, Species) * Cardinality(Shifts), k[1],
                         At(k[1], k[1].ref + d, k[1].o))
    BY <1>1 DEF Translations
  <2>2. k[1] \in Placements /\ b[k[1]] >= 1
    BY MoleculeShape
  <2>3. k[1].ref \in Int /\ k[1].o \in Orientations(k[1].species) /\ k[1].ref + d \in Int
    BY <2>2, PlacementShape, CellAssumption
  <2>4. At(k[1], k[1].ref + d, k[1].o) \in Placements
    BY <2>2, <2>3, AtShape
  <2>5. a.next = Replaced(b, k[1], At(k[1], k[1].ref + d, k[1].o))
    BY <2>1, DisplacedShape
  <2> QED
    BY <2>2, <2>4, <2>5, ReplacedBack
<1>2. CASE a \in Rotations(b)
  <2>1. PICK k \in Turning(b) : a = Displaced(b, <<k>>, Count(b, Species), k[1], Turned(k[1]))
    BY <1>2 DEF Rotations, Turned, Turning
  <2>2. k[1] \in Placements /\ b[k[1]] >= 1 /\ NumSites(k[1].species) > 1
    BY MoleculeShape DEF Turning
  <2>3. Turned(k[1]) \in Placements
    BY <2>2, TurnedBack
  <2>4. a.next = Replaced(b, k[1], Turned(k[1]))
    BY <2>1, DisplacedShape
  <2> QED
    BY <2>2, <2>3, <2>4, ReplacedBack
<1> QED
  BY <1>1, <1>2

LEMMA DeletedGood ==
  ASSUME NEW b \in Good, NEW a \in Deletions(b) PROVE a.next \in Good
<1>1. PICK k \in MoleculesOf(b, Species) : a = Deletion(b, k)
  BY DeletionsAre
<1>2. k[1] \in Placements /\ b[k[1]] >= 1 /\ a.next = Taken(b, k[1])
  BY <1>1, MoleculeShape DEF Deletion, Attempt
<1> QED
  BY <1>2, TakenFacts

LEMMA InsertedGood ==
  ASSUME NEW b \in Good, Count(b, Species) < MaxMolecules, NEW a \in Insertions(b)
  PROVE  a.next \in Good
<1>1. PICK p \in Placements : a = Insertion(b, p)
  BY InsertionsAre
<1>2. a.next = Added(b, p)
  BY <1>1 DEF Insertion, Attempt
<1>3. /\ b \in Bags /\ p.species \in Species /\ MaxMolecules \in Nat /\ Count(b, Species) \in Nat
      /\ \A x \in Placements : b[x] \in Nat /\ b[x] <= MaxMolecules
  BY PlacementShape, SamplingAssumption, MoleculesFinite DEF Good, Bags
<1>4. b[p] < MaxMolecules
  BY <1>3, AtMostCount
<1>5. /\ Added(b, p) \in Bags /\ Added(b, p)[p] = b[p] + 1
      /\ \A x \in Placements : x # p => Added(b, p)[x] = b[x]
  BY <1>3, AddedShape
<1>6. Count(Added(b, p), Species) = Count(b, Species) + 1
  BY <1>3, <1>4, CountAdded
<1>7. \A x \in Placements : Added(b, p)[x] <= MaxMolecules
  BY <1>3, <1>4, <1>5
<1> QED
  BY <1>2, <1>3, <1>5, <1>6, <1>7 DEF Good

LEMMA SwappedGood ==
  ASSUME NEW b \in Good, NEW a \in Swaps(b) PROVE a.next \in Good
<1>1. PICK k \in MoleculesOf(b, Species) : a \in {Swapping(b, k, new) : new \in Swapped(k[1])}
  BY SwapsAre
<1>2. PICK new \in Swapped(k[1]) : a = Swapping(b, k, new)
  BY <1>1
<1>3. new \in Placements /\ k[1] \in Placements /\ b[k[1]] >= 1
  BY MoleculeShape DEF Swapped
<1>4. a.next = Replaced(b, k[1], new)
  BY <1>2 DEF Swapping, Attempt
<1> QED
  BY <1>3, <1>4, ReplacedBack

(* A configuration the chain reaches holds at most MaxMolecules molecules, *)
(* so all of them are numbered and the counts of the ratios are right.     *)
THEOREM BagIsGood == Spec => [](bag \in Good)
<1>1. ASSUME bag \in Good, Next PROVE bag' \in Good
  <2>1. CASE Translate
    BY <1>1, <2>1, DisplacedGood DEF Translate, Make
  <2>2. CASE Rotate
    BY <1>1, <2>2, DisplacedGood DEF Rotate, Make
  <2>3. CASE Insert
    BY <1>1, <2>3, InsertedGood DEF Insert, Make
  <2>4. CASE Delete
    BY <1>1, <2>4, DeletedGood DEF Delete, Make
  <2>5. CASE Swap
    BY <1>1, <2>5, SwappedGood DEF Swap, Make
  <2> QED
    BY <1>1, <2>1, <2>2, <2>3, <2>4, <2>5 DEF Next
<1>2. bag \in Good /\ [Next]_bag => (bag \in Good)'
  BY <1>1
<1> QED
  BY StartGood, <1>2, PTL DEF Spec

(* Translations, rotations, insertions and deletions are in detailed       *)
(* balance from every configuration the chain reaches: the proposal        *)
(* probabilities of the trials and the ratios of gcmc_acceptance.hpp fit.  *)
THEOREM MovesInBalance == Spec => []MoveBalance
<1>1. bag \in Good => MoveBalance
  BY TranslationsBalance, RotationsBalance, DeletionsBalance DEF MoveBalance
<1> QED
  BY <1>1, BagIsGood, PTL

(* So are the identity swaps, provided that the reference point of every   *)
(* species is its centroid.                                                *)
THEOREM CentredSwapsInBalance == ASSUME Centred PROVE Spec => []SwapBalance
<1>1. bag \in Good => SwapBalance
  BY SwapsBalance DEF SwapBalance
<1> QED
  BY <1>1, BagIsGood, PTL
=============================================================================
