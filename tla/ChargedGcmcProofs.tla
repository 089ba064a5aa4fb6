-------------------------- MODULE ChargedGcmcProofs --------------------------
(***************************************************************************)
(* Proofs about ChargedGcmc, for every mixture, framework, cell, table of  *)
(* charges and energies and resync interval.  A theory of finite sums      *)
(* comes first.  The Ewald cache is a sum over the bodies of the list, and *)
(* a commit changes one term of it.  The energy of the pairs is a sum over *)
(* pairs of bodies, and a trial is charged the terms of one body.          *)
(***************************************************************************)
EXTENDS ChargedGcmc, GcmcEngineProofs, FiniteSetTheorems

-----------------------------------------------------------------------------
(* Induction over the parts of a finite set. *)

Below == {ss \in Nat \X Nat : ss[1] < ss[2]}

LEMMA PartInduction ==
  ASSUME NEW S, IsFiniteSet(S), NEW P,
         \A s \in SUBSET S : (\A y \in s : s \ {y} \in P) => s \in P
  PROVE  \A s \in SUBSET S : s \in P
  <1> DEFINE T == {i \in Nat : \E s \in SUBSET S : s \notin P /\ Cardinality(s) = i}
  <1>1. ASSUME NEW s \in SUBSET S PROVE IsFiniteSet(s) /\ Cardinality(s) \in Nat
    BY FS_Subset, FS_CardinalityType
  <1>2. SUFFICES ASSUME T # {} PROVE FALSE
    BY <1>1
  <1>3. IsWellFoundedOn(Below, Nat)
    BY NatLessThanWellFounded DEF OpToRel, Below
  <1>4. PICK m \in T : \A k \in T : <<k, m>> \notin Below
    BY <1>2, <1>3, WFMin
  <1>5. PICK s \in SUBSET S : s \notin P /\ Cardinality(s) = m
    OBVIOUS
  <1>6. PICK y \in s : s \ {y} \notin P
    BY <1>5
  <1>7. Cardinality(s \ {y}) = m - 1 /\ m - 1 \in Nat
    <2>1. IsFiniteSet(s) /\ m \in Nat /\ m # 0
      BY <1>1, <1>5, <1>6, FS_EmptySet
    <2>2. Cardinality(s \ {y}) = Cardinality(s) - 1
      BY <2>1, FS_RemoveElement
    <2> QED BY <1>5, <2>1, <2>2
  <1>8. m - 1 \in T
    BY <1>6, <1>7
  <1>9. <<m - 1, m>> \in Below
    BY <1>7 DEF Below
  <1> QED BY <1>4, <1>8, <1>9

LEMMA GrowingInduction ==
  ASSUME NEW S, IsFiniteSet(S), NEW P, {} \in P,
         \A s \in SUBSET S : \A x \in S \ s : s \in P => s \cup {x} \in P
  PROVE  S \in P
  <1>1. ASSUME NEW s \in SUBSET S, \A y \in s : s \ {y} \in P PROVE s \in P
    <2>1. CASE s = {}
      BY <2>1
    <2>2. CASE s # {}
      <3>1. PICK y \in s : TRUE
        BY <2>2
      <3>2. (s \ {y}) \cup {y} = s /\ s \ {y} \in SUBSET S /\ y \in S \ (s \ {y})
        OBVIOUS
      <3> QED BY <1>1, <3>2
    <2> QED BY <2>1, <2>2
  <1> QED BY <1>1, PartInduction, ZenonT(30)

-----------------------------------------------------------------------------
(* Sums. *)

Picked(s) == CHOOSE x \in s : TRUE

(* h gives the sum of f over every part of S, as SumFunction adds it up. *)
Sums(h, f, S) ==
  h = [s \in SUBSET S |-> IF s = {} THEN 0 ELSE f[Picked(s)] + h[s \ {Picked(s)}]]

(* The same, whichever element is taken out. *)
Additive(a, f, S) ==
  /\ a \in [SUBSET S -> Int] /\ a[{}] = 0
  /\ \A s \in SUBSET S : \A y \in s : a[s] = f[y] + a[s \ {y}]

LEMMA AdditiveExists ==
  ASSUME NEW S, IsFiniteSet(S), NEW f, \A x \in S : f[x] \in Int
  PROVE  \E a : Additive(a, f, S)
  <1> DEFINE P == {s \in SUBSET S : \E a : Additive(a, f, s)}
  <1>1. {} \in P
    <2> DEFINE a == [s \in SUBSET {} |-> 0]
    <2>1. a \in [SUBSET {} -> Int] /\ a[{}] = 0 /\ SUBSET {} = {{}}
      OBVIOUS
    <2> HIDE DEF a
    <2>2. Additive(a, f, {})
      BY <2>1 DEF Additive
    <2> QED BY <2>2
  <1>2. ASSUME NEW s \in SUBSET S, NEW x \in S \ s, s \in P PROVE s \cup {x} \in P
    <2>1. PICK a : Additive(a, f, s)
      BY <1>2
    <2> DEFINE U == s \cup {x}
               b == [t \in SUBSET U |-> IF x \in t THEN f[x] + a[t \ {x}] ELSE a[t]]
    <2>2. \A t \in SUBSET s : a[t] \in Int
      BY <2>1 DEF Additive
    <2>3. \A t \in SUBSET U : t \ {x} \in SUBSET s /\ (x \notin t => t \in SUBSET s)
      OBVIOUS
    <2>4. \A t \in SUBSET U : b[t] \in Int
      BY <2>2, <2>3
    <2>5. b[{}] = 0
      BY <2>1 DEF Additive
    <2>6. ASSUME NEW t \in SUBSET U, NEW y \in t PROVE b[t] = f[y] + b[t \ {y}]
      <3> DEFINE r == (t \ {x}) \ {y}
      <3>1. f[y] \in Int /\ f[x] \in Int /\ t \ {y} \in SUBSET U
        OBVIOUS
      <3>2. CASE y = x
        BY <3>1, <3>2
      <3>3. CASE y # x /\ x \in t
        <4>1. b[t] = f[x] + a[t \ {x}] /\ b[t \ {y}] = f[x] + a[(t \ {y}) \ {x}]
          BY <3>3
        <4>2. (t \ {y}) \ {x} = r /\ r \in SUBSET s /\ y \in t \ {x}
          BY <2>3, <3>3
        <4>3. a[t \ {x}] = f[y] + a[r]
          BY <2>1, <2>3, <4>2 DEF Additive
        <4>4. a[r] \in Int
          BY <2>2, <4>2
        <4>5. b[t \ {y}] = f[x] + a[r]
          BY <4>1, <4>2
        <4> HIDE DEF b, r
        <4> QED BY <3>1, <4>1, <4>3, <4>4, <4>5
      <3>4. CASE x \notin t
        <4>1. b[t] = a[t] /\ b[t \ {y}] = a[t \ {y}] /\ t \in SUBSET s
          BY <2>3, <3>4
        <4> QED BY <2>1, <4>1 DEF Additive
      <3> QED BY <3>2, <3>3, <3>4
    <2>7. b \in [SUBSET U -> Int]
      BY <2>4
    <2> HIDE DEF b, U
    <2>8. Additive(b, f, U)
      BY <2>5, <2>6, <2>7 DEF Additive
    <2> QED BY <2>8 DEF U
  <1> HIDE DEF P
  <1>3. S \in P
    BY <1>1, <1>2, GrowingInduction
  <1> QED BY <1>3 DEF P

LEMMA SumIsAdditive ==
  ASSUME NEW S, IsFiniteSet(S), NEW f, NEW a, Additive(a, f, S)
  PROVE  SumFunctionOnSet(f, S) = a[S]
  <1>1. Sums(a, f, S)
    <2>1. ASSUME NEW s \in SUBSET S
          PROVE  a[s] = IF s = {} THEN 0 ELSE f[Picked(s)] + a[s \ {Picked(s)}]
      <3>1. s # {} => Picked(s) \in s
        BY DEF Picked
      <3> QED BY <3>1 DEF Additive
    <2> QED BY <2>1 DEF Additive, Sums
  <1>2. PICK h : h = (CHOOSE g : Sums(g, f, S)) /\ SumFunctionOnSet(f, S) = h[S]
    BY DEF SumFunctionOnSet, FoldFunctionOnSet, MapThenFoldSet, Sums, Picked
  <1>3. Sums(h, f, S)
    BY <1>1, <1>2
  <1> DEFINE P == {s \in SUBSET S : h[s] = a[s]}
  <1>4. ASSUME NEW s \in SUBSET S, \A y \in s : s \ {y} \in P PROVE s \in P
    <2>1. h[s] = IF s = {} THEN 0 ELSE f[Picked(s)] + h[s \ {Picked(s)}]
      BY <1>3 DEF Sums
    <2>2. a[s] = IF s = {} THEN 0 ELSE f[Picked(s)] + a[s \ {Picked(s)}]
      BY <1>1 DEF Sums
    <2>3. s # {} => Picked(s) \in s
      BY DEF Picked
    <2> QED BY <1>4, <2>1, <2>2, <2>3
  <1> HIDE DEF P
  <1>5. S \in P
    BY <1>4, PartInduction
  <1> QED BY <1>2, <1>5 DEF P

(* Every part of S has a sum, and the sums are those of one function. *)
LEMMA SumsOfParts ==
  ASSUME NEW S, IsFiniteSet(S), NEW f, \A x \in S : f[x] \in Int
  PROVE  \E a : Additive(a, f, S) /\ \A s \in SUBSET S : SumFunctionOnSet(f, s) = a[s]
  <1>1. PICK a : Additive(a, f, S)
    BY AdditiveExists
  <1>2. ASSUME NEW s \in SUBSET S PROVE SumFunctionOnSet(f, s) = a[s]
    <2> DEFINE b == [t \in SUBSET s |-> a[t]]
    <2>1. b \in [SUBSET s -> Int] /\ b[{}] = 0
      BY <1>1 DEF Additive
    <2>2. \A t \in SUBSET s : \A y \in t : b[t] = f[y] + b[t \ {y}]
      BY <1>1 DEF Additive
    <2>3. b[s] = a[s] /\ IsFiniteSet(s)
      BY FS_Subset
    <2> HIDE DEF b
    <2>4. Additive(b, f, s)
      BY <2>1, <2>2 DEF Additive
    <2> QED BY <2>3, <2>4, SumIsAdditive
  <1> QED BY <1>1, <1>2

LEMMA SumFacts ==
  ASSUME NEW S, IsFiniteSet(S), NEW f, \A x \in S : f[x] \in Int
  PROVE  /\ SumFunctionOnSet(f, S) \in Int /\ SumFunctionOnSet(f, {}) = 0
         /\ \A x \in S : SumFunctionOnSet(f, S) = f[x] + SumFunctionOnSet(f, S \ {x})
  <1>1. PICK a : Additive(a, f, S) /\ \A s \in SUBSET S : SumFunctionOnSet(f, s) = a[s]
    BY SumsOfParts
  <1>2. S \in SUBSET S /\ {} \in SUBSET S /\ \A x \in S : S \ {x} \in SUBSET S
    OBVIOUS
  <1> QED BY <1>1, <1>2 DEF Additive

(* One element more. *)
LEMMA SumGrows ==
  ASSUME NEW S, IsFiniteSet(S), NEW f, \A x \in S : f[x] \in Int,
         NEW s \in SUBSET S, NEW x \in S \ s
  PROVE  /\ SumFunctionOnSet(f, s \cup {x}) = f[x] + SumFunctionOnSet(f, s)
         /\ SumFunctionOnSet(f, s) \in Int /\ f[x] \in Int
  <1> DEFINE U == s \cup {x}
  <1>1. /\ U \in SUBSET S /\ x \in U /\ U \ {x} = s /\ s \in SUBSET S
        /\ IsFiniteSet(U) /\ IsFiniteSet(s)
        /\ (\A y \in U : f[y] \in Int) /\ (\A y \in s : f[y] \in Int)
    BY FS_Subset
  <1> HIDE DEF U
  <1>2. \A y \in U : SumFunctionOnSet(f, U) = f[y] + SumFunctionOnSet(f, U \ {y})
    BY <1>1, SumFacts
  <1>3. SumFunctionOnSet(f, s) \in Int
    BY <1>1, SumFacts
  <1> QED BY <1>1, <1>2, <1>3 DEF U

(* Only the terms matter. *)
LEMMA SumSame ==
  ASSUME NEW S, IsFiniteSet(S), NEW f, NEW g, \A x \in S : f[x] \in Int /\ g[x] = f[x]
  PROVE  SumFunctionOnSet(g, S) = SumFunctionOnSet(f, S)
  <1> DEFINE P == {s \in SUBSET S : SumFunctionOnSet(g, s) = SumFunctionOnSet(f, s)}
  <1>1. {} \in P
    BY SumFacts
  <1>2. ASSUME NEW s \in SUBSET S, NEW x \in S \ s, s \in P PROVE s \cup {x} \in P
    <2>1. SumFunctionOnSet(f, s \cup {x}) = f[x] + SumFunctionOnSet(f, s)
      BY SumGrows
    <2>2. SumFunctionOnSet(g, s \cup {x}) = g[x] + SumFunctionOnSet(g, s)
      BY SumGrows
    <2> QED BY <1>2, <2>1, <2>2
  <1> HIDE DEF P
  <1>3. S \in P
    BY <1>1, <1>2, GrowingInduction
  <1> QED BY <1>3 DEF P

LEMMA SumOfZeros ==
  ASSUME NEW S, IsFiniteSet(S), NEW f, \A x \in S : f[x] = 0
  PROVE  SumFunctionOnSet(f, S) = 0
  <1> DEFINE P == {s \in SUBSET S : SumFunctionOnSet(f, s) = 0}
  <1>1. {} \in P
    BY SumFacts
  <1>2. ASSUME NEW s \in SUBSET S, NEW x \in S \ s, s \in P PROVE s \cup {x} \in P
    <2>1. SumFunctionOnSet(f, s \cup {x}) = f[x] + SumFunctionOnSet(f, s)
      BY SumGrows
    <2> QED BY <1>2, <2>1
  <1> HIDE DEF P
  <1>3. S \in P
    BY <1>1, <1>2, GrowingInduction
  <1> QED BY <1>3 DEF P

LEMMA SumPlus ==
  ASSUME NEW S, IsFiniteSet(S), NEW f, NEW g, NEW h,
         \A x \in S : f[x] \in Int /\ g[x] \in Int /\ h[x] = f[x] + g[x]
  PROVE  SumFunctionOnSet(h, S) = SumFunctionOnSet(f, S) + SumFunctionOnSet(g, S)
  <1> DEFINE P == {s \in SUBSET S :
                     SumFunctionOnSet(h, s) = SumFunctionOnSet(f, s) + SumFunctionOnSet(g, s)}
  <1>1. {} \in P
    <2>1. \A x \in S : h[x] \in Int
      OBVIOUS
    <2>2. /\ SumFunctionOnSet(f, {}) = 0 /\ SumFunctionOnSet(g, {}) = 0
          /\ SumFunctionOnSet(h, {}) = 0
      BY <2>1, SumFacts
    <2> QED BY <2>2
  <1>2. ASSUME NEW s \in SUBSET S, NEW x \in S \ s, s \in P PROVE s \cup {x} \in P
    <2>1. /\ SumFunctionOnSet(f, s \cup {x}) = f[x] + SumFunctionOnSet(f, s)
          /\ SumFunctionOnSet(f, s) \in Int /\ f[x] \in Int
      BY SumGrows
    <2>2. /\ SumFunctionOnSet(g, s \cup {x}) = g[x] + SumFunctionOnSet(g, s)
          /\ SumFunctionOnSet(g, s) \in Int /\ g[x] \in Int
      BY SumGrows
    <2>3. SumFunctionOnSet(h, s \cup {x}) = h[x] + SumFunctionOnSet(h, s)
      <3>1. \A y \in S : h[y] \in Int
        OBVIOUS
      <3> QED BY <3>1, SumGrows
    <2> QED BY <1>2, <2>1, <2>2, <2>3
  <1> HIDE DEF P
  <1>3. S \in P
    BY <1>1, <1>2, GrowingInduction
  <1> QED BY <1>3 DEF P

(* Two parts without a common element. *)
LEMMA SumOfTwo ==
  ASSUME NEW S, IsFiniteSet(S), NEW f, \A x \in S : f[x] \in Int,
         NEW A \in SUBSET S, NEW B \in SUBSET S, A \cap B = {}
  PROVE  SumFunctionOnSet(f, A \cup B) = SumFunctionOnSet(f, A) + SumFunctionOnSet(f, B)
  <1> DEFINE P == {s \in SUBSET B :
              SumFunctionOnSet(f, A \cup s) = SumFunctionOnSet(f, A) + SumFunctionOnSet(f, s)}
  <1>1. IsFiniteSet(A) /\ IsFiniteSet(B) /\ SumFunctionOnSet(f, A) \in Int
    <2>1. IsFiniteSet(A) /\ IsFiniteSet(B)
      BY FS_Subset
    <2> QED BY <2>1, SumFacts
  <1>2. {} \in P
    <2>1. A \cup {} = A /\ SumFunctionOnSet(f, {}) = 0
      BY SumFacts
    <2> QED BY <1>1, <2>1
  <1>3. ASSUME NEW s \in SUBSET B, NEW x \in B \ s, s \in P PROVE s \cup {x} \in P
    <2>1. /\ s \in SUBSET S /\ x \in S \ s /\ A \cup s \in SUBSET S /\ x \in S \ (A \cup s)
          /\ (A \cup s) \cup {x} = A \cup (s \cup {x})
      OBVIOUS
    <2>2. /\ SumFunctionOnSet(f, s \cup {x}) = f[x] + SumFunctionOnSet(f, s)
          /\ SumFunctionOnSet(f, s) \in Int /\ f[x] \in Int
      BY <2>1, SumGrows
    <2>3. SumFunctionOnSet(f, (A \cup s) \cup {x}) = f[x] + SumFunctionOnSet(f, A \cup s)
      BY <2>1, SumGrows
    <2>4. SumFunctionOnSet(f, A \cup s) = SumFunctionOnSet(f, A) + SumFunctionOnSet(f, s)
      BY <1>3
    <2>5. SumFunctionOnSet(f, A \cup (s \cup {x}))
            = SumFunctionOnSet(f, A) + SumFunctionOnSet(f, s \cup {x})
      <3>1. SumFunctionOnSet(f, A \cup (s \cup {x})) = SumFunctionOnSet(f, (A \cup s) \cup {x})
        BY <2>1
      <3> QED BY <1>1, <2>2, <2>3, <2>4, <3>1
    <2> QED BY <2>5
  <1> HIDE DEF P
  <1>4. B \in P
    BY <1>1, <1>2, <1>3, GrowingInduction
  <1> QED BY <1>4 DEF P

(* The same terms under other names. *)
LEMMA SumRenamed ==
  ASSUME NEW S, IsFiniteSet(S), NEW f, \A x \in S : f[x] \in Int,
         NEW T, NEW g, NEW b \in [S -> T],
         \A x, y \in S : b[x] = b[y] => x = y,
         \A z \in T : \E x \in S : b[x] = z,
         \A x \in S : g[b[x]] = f[x]
  PROVE  IsFiniteSet(T) /\ SumFunctionOnSet(g, T) = SumFunctionOnSet(f, S)
  <1>1. IsFiniteSet(T)
    <2>1. b \in Surjection(S, T)
      BY DEF Surjection
    <2> QED BY <2>1, FS_Surjection
  <1>2. \A z \in T : g[z] \in Int
    OBVIOUS
  <1> DEFINE Of(s) == {b[x] : x \in s}
             P == {s \in SUBSET S : SumFunctionOnSet(g, Of(s)) = SumFunctionOnSet(f, s)}
  <1>3. {} \in P
    <2>1. Of({}) = {}
      OBVIOUS
    <2>2. SumFunctionOnSet(g, {}) = 0 /\ SumFunctionOnSet(f, {}) = 0
      BY <1>1, <1>2, SumFacts
    <2> HIDE DEF Of
    <2> QED BY <2>1, <2>2
  <1>4. ASSUME NEW s \in SUBSET S, NEW x \in S \ s, s \in P PROVE s \cup {x} \in P
    <2>1. Of(s) \in SUBSET T /\ b[x] \in T \ Of(s) /\ Of(s \cup {x}) = Of(s) \cup {b[x]}
      OBVIOUS
    <2>2. SumFunctionOnSet(f, s \cup {x}) = f[x] + SumFunctionOnSet(f, s)
      BY SumGrows
    <2> HIDE DEF Of
    <2>3. SumFunctionOnSet(g, Of(s) \cup {b[x]}) = g[b[x]] + SumFunctionOnSet(g, Of(s))
      BY <1>1, <1>2, <2>1, SumGrows
    <2> QED BY <1>4, <2>1, <2>2, <2>3
  <1>5. Of(S) = T
    OBVIOUS
  <1> HIDE DEF P, Of
  <1>6. S \in P
    BY <1>3, <1>4, GrowingInduction
  <1> QED BY <1>1, <1>5, <1>6 DEF P

LEMMA SumGrowsOver ==
  ASSUME NEW T, IsFiniteSet(T), NEW g, \A e \in T : g[e] \in Int
  PROVE  \A s \in SUBSET T : \A x \in T \ s :
           /\ SumFunctionOnSet(g, s \cup {x}) = g[x] + SumFunctionOnSet(g, s)
           /\ SumFunctionOnSet(g, s) \in Int
  <1> TAKE s \in SUBSET T
  <1> TAKE x \in T \ s
  <1> QED BY SumGrows

(* The terms class by class. *)
SumsOfClasses(g, f, S, c, B) ==
  \A d \in B : g[d] = SumFunctionOnSet(f, {x \in S : c[x] = d})

LEMMA SumByClass ==
  ASSUME NEW S, IsFiniteSet(S), NEW f, \A x \in S : f[x] \in Int,
         NEW T, IsFiniteSet(T), NEW c \in [S -> T], NEW g, SumsOfClasses(g, f, S, c, T)
  PROVE  SumFunctionOnSet(f, S) = SumFunctionOnSet(g, T)
  <1>1. ASSUME NEW z \in T PROVE g[z] \in Int
    <2>1. {x \in S : c[x] = z} \in SUBSET S
      OBVIOUS
    <2>2. IsFiniteSet({x \in S : c[x] = z})
      BY <2>1, FS_Subset
    <2>3. SumFunctionOnSet(f, {x \in S : c[x] = z}) \in Int
      BY <2>2, SumFacts
    <2> QED BY <2>3 DEF SumsOfClasses
  <1>0. \A e \in T : g[e] \in Int
    BY <1>1
  <1>a. ASSUME NEW s \in SUBSET T, NEW x \in T \ s
        PROVE  /\ SumFunctionOnSet(g, s \cup {x}) = g[x] + SumFunctionOnSet(g, s)
               /\ SumFunctionOnSet(g, s) \in Int
    BY <1>0, SumGrowsOver
  <1> DEFINE In(s) == {x \in S : c[x] \in s}
             P == {s \in SUBSET T : SumFunctionOnSet(f, In(s)) = SumFunctionOnSet(g, s)}
  <1>2. {} \in P
    <2>1. In({}) = {}
      OBVIOUS
    <2>2. SumFunctionOnSet(g, {}) = 0 /\ SumFunctionOnSet(f, {}) = 0
      BY <1>1, SumFacts
    <2> HIDE DEF In
    <2> QED BY <2>1, <2>2
  <1>3. ASSUME NEW s \in SUBSET T, NEW z \in T \ s, s \in P PROVE s \cup {z} \in P
    <2> DEFINE D == {x \in S : c[x] = z}
    <2>1. /\ In(s) \in SUBSET S /\ D \in SUBSET S /\ In(s) \cap D = {}
          /\ In(s \cup {z}) = In(s) \cup D
      OBVIOUS
    <2>2. /\ SumFunctionOnSet(g, s \cup {z}) = g[z] + SumFunctionOnSet(g, s)
          /\ SumFunctionOnSet(g, s) \in Int
      BY <1>a
    <2>3. g[z] = SumFunctionOnSet(f, D) /\ g[z] \in Int
      BY <1>1 DEF SumsOfClasses
    <2> HIDE DEF In, D
    <2>4. SumFunctionOnSet(f, In(s) \cup D) = SumFunctionOnSet(f, In(s)) + SumFunctionOnSet(f, D)
      BY <2>1, SumOfTwo
    <2>5. SumFunctionOnSet(f, In(s)) = SumFunctionOnSet(g, s)
      BY <1>3
    <2>6. SumFunctionOnSet(f, In(s \cup {z})) = SumFunctionOnSet(f, In(s) \cup D)
      BY <2>1
    <2>7. SumFunctionOnSet(f, In(s \cup {z})) = SumFunctionOnSet(g, s \cup {z})
      BY <2>2, <2>3, <2>4, <2>5, <2>6
    <2> QED BY <2>7
  <1>4. In(T) = S
    OBVIOUS
  <1> HIDE DEF P, In
  <1>5. T \in P
    BY <1>2, <1>3, GrowingInduction
  <1> QED BY <1>4, <1>5 DEF P
LEMMA SumScaled ==
  ASSUME NEW S, IsFiniteSet(S), NEW f, NEW g, NEW c \in Int,
         \A x \in S : f[x] \in Int /\ g[x] = c * f[x]
  PROVE  SumFunctionOnSet(g, S) = c * SumFunctionOnSet(f, S)
  <1> DEFINE P == {s \in SUBSET S : SumFunctionOnSet(g, s) = c * SumFunctionOnSet(f, s)}
  <1>0. \A x \in S : g[x] \in Int
    OBVIOUS
  <1>1. {} \in P
    <2>1. SumFunctionOnSet(f, {}) = 0 /\ SumFunctionOnSet(g, {}) = 0
      BY <1>0, SumFacts
    <2> QED BY <2>1
  <1>2. ASSUME NEW s \in SUBSET S, NEW x \in S \ s, s \in P PROVE s \cup {x} \in P
    <2>1. /\ SumFunctionOnSet(f, s \cup {x}) = f[x] + SumFunctionOnSet(f, s)
          /\ SumFunctionOnSet(f, s) \in Int /\ f[x] \in Int
      BY SumGrows
    <2>2. SumFunctionOnSet(g, s \cup {x}) = g[x] + SumFunctionOnSet(g, s)
      BY <1>0, SumGrows
    <2>3. c * (f[x] + SumFunctionOnSet(f, s)) = c * f[x] + c * SumFunctionOnSet(f, s)
      BY <2>1
    <2> QED BY <1>2, <2>1, <2>2, <2>3
  <1> HIDE DEF P
  <1>3. S \in P
    BY <1>1, <1>2, GrowingInduction
  <1> QED BY <1>3 DEF P

(* One term is another. *)
DifferOnlyAt(m, f, g, S) ==
  /\ IsFiniteSet(S) /\ m \in S
  /\ \A x \in S : f[x] \in Int /\ g[x] \in Int
  /\ \A x \in S : x # m => g[x] = f[x]

LEMMA SumReplaced ==
  ASSUME NEW S, NEW f, NEW g, NEW m, DifferOnlyAt(m, f, g, S)
  PROVE  SumFunctionOnSet(g, S) = SumFunctionOnSet(f, S) + (g[m] - f[m])
  <1>0. /\ IsFiniteSet(S) /\ m \in S
        /\ \A x \in S : f[x] \in Int /\ g[x] \in Int
        /\ \A x \in S : x # m => g[x] = f[x]
    BY DEF DifferOnlyAt
  <1> DEFINE R == S \ {m}
  <1>1. IsFiniteSet(R) /\ \A x \in R : f[x] \in Int /\ g[x] = f[x]
    BY <1>0, FS_RemoveElement
  <1>2. SumFunctionOnSet(g, R) = SumFunctionOnSet(f, R) /\ SumFunctionOnSet(f, R) \in Int
    <2> HIDE DEF R
    <2> QED BY <1>1, SumSame, SumFacts
  <1>3. SumFunctionOnSet(f, S) = f[m] + SumFunctionOnSet(f, R)
    BY <1>0, SumFacts
  <1>4. SumFunctionOnSet(g, S) = g[m] + SumFunctionOnSet(g, R)
    BY <1>0, SumFacts
  <1> HIDE DEF R
  <1> QED BY <1>0, <1>2, <1>3, <1>4

(* One term more, or one less with the later ones moved up. *)
LEMMA SumAppended ==
  ASSUME NEW lo \in Nat, NEW n \in Nat, lo <= n + 1, NEW f, NEW g,
         \A x \in lo..n : f[x] \in Int /\ g[x] = f[x], g[n + 1] \in Int
  PROVE  SumFunctionOnSet(g, lo..(n + 1)) = SumFunctionOnSet(f, lo..n) + g[n + 1]
  <1>0. IsFiniteSet(lo..(n + 1)) /\ IsFiniteSet(lo..n)
    BY FS_Interval, n \in Int, lo \in Int, n + 1 \in Int
  <1> DEFINE S == lo..(n + 1)
             R == lo..n
  <1>1. /\ IsFiniteSet(S) /\ n + 1 \in S /\ S \ {n + 1} = R
        /\ IsFiniteSet(R)
    BY <1>0
  <1>2. (\A x \in S : g[x] \in Int) /\ (\A x \in R : f[x] \in Int /\ g[x] = f[x])
    OBVIOUS
  <1> DEFINE y == n + 1
  <1> HIDE DEF S, R, y
  <1>3. SumFunctionOnSet(g, R) = SumFunctionOnSet(f, R) /\ SumFunctionOnSet(f, R) \in Int
    BY <1>1, <1>2, SumSame, SumFacts
  <1>4. \A x \in S : SumFunctionOnSet(g, S) = g[x] + SumFunctionOnSet(g, S \ {x})
    BY <1>1, <1>2, SumFacts
  <1>5. y \in S /\ S \ {y} = R /\ g[y] \in Int
    BY <1>1 DEF y
  <1>6. SumFunctionOnSet(g, S) = SumFunctionOnSet(f, R) + g[y]
    BY <1>3, <1>4, <1>5
  <1> QED BY <1>6 DEF S, R, y

ClosesUpAt(m, f, g, lo, n) ==
  /\ lo \in Nat /\ n \in Nat /\ m \in lo..n
  /\ \A x \in lo..n : f[x] \in Int
  /\ \A x \in lo..(n - 1) : g[x] = IF x < m THEN f[x] ELSE f[x + 1]

LEMMA SumErased ==
  ASSUME NEW lo, NEW n, NEW m, NEW f, NEW g, ClosesUpAt(m, f, g, lo, n)
  PROVE  SumFunctionOnSet(g, lo..(n - 1)) = SumFunctionOnSet(f, lo..n) - f[m]
  <1>a. /\ lo \in Nat /\ n \in Nat /\ m \in lo..n
        /\ \A x \in lo..n : f[x] \in Int
        /\ \A x \in lo..(n - 1) : g[x] = IF x < m THEN f[x] ELSE f[x + 1]
    BY DEF ClosesUpAt
  <1>0. IsFiniteSet(lo..n) /\ IsFiniteSet(lo..(n - 1)) /\ IsFiniteSet((lo..n) \ {m})
    <2>1. IsFiniteSet(lo..n) /\ IsFiniteSet(lo..(n - 1))
      BY <1>a, FS_Interval, n \in Int, lo \in Int, n - 1 \in Int
    <2> QED BY <2>1, FS_RemoveElement
  <1> DEFINE S == lo..n
             R == S \ {m}
             T == lo..(n - 1)
             b == [x \in R |-> IF x < m THEN x ELSE x - 1]
  <1>1. IsFiniteSet(S) /\ IsFiniteSet(R) /\ IsFiniteSet(T) /\ m \in S
    BY <1>0, <1>a
  <1>2. b \in [R -> T]
    BY <1>a
  <1>3. \A x, y \in R : b[x] = b[y] => x = y
    BY <1>a
  <1>4. \A z \in T : \E x \in R : b[x] = z
    <2> SUFFICES ASSUME NEW z \in T PROVE \E x \in R : b[x] = z
      OBVIOUS
    <2>1. CASE z < m
      <3>1. z \in R /\ b[z] = z
        BY <1>a, <2>1
      <3> QED BY <3>1
    <2>2. CASE ~ (z < m)
      <3>1. z + 1 \in R /\ b[z + 1] = z
        BY <1>a, <2>2
      <3> QED BY <3>1
    <2> QED BY <2>1, <2>2
  <1>5. \A x \in R : g[b[x]] = f[x]
    <2> SUFFICES ASSUME NEW x \in R PROVE g[b[x]] = f[x]
      OBVIOUS
    <2>1. CASE x < m
      <3>1. x \in T /\ b[x] = x
        BY <1>a, <2>1
      <3> QED BY <1>a, <2>1, <3>1
    <2>2. CASE ~ (x < m)
      <3>1. x - 1 \in T /\ b[x] = x - 1 /\ ~ (x - 1 < m) /\ (x - 1) + 1 = x
        BY <1>a, <2>2
      <3>2. g[x - 1] = f[(x - 1) + 1]
        BY <1>a, <3>1
      <3> QED BY <3>1, <3>2
    <2> QED BY <2>1, <2>2
  <1>6. (\A x \in R : f[x] \in Int) /\ (\A x \in S : f[x] \in Int)
    BY <1>a
  <1> HIDE DEF S, T, b
  <1>7. SumFunctionOnSet(f, S) = f[m] + SumFunctionOnSet(f, R)
    BY <1>1, <1>6, SumFacts
  <1> HIDE DEF R
  <1>8. SumFunctionOnSet(g, T) = SumFunctionOnSet(f, R)
    BY <1>1, <1>2, <1>3, <1>4, <1>5, <1>6, SumRenamed
  <1>9. SumFunctionOnSet(f, R) \in Int /\ f[m] \in Int
    BY <1>1, <1>6, SumFacts
  <1>10. SumFunctionOnSet(g, T) = SumFunctionOnSet(f, S) - f[m]
    BY <1>7, <1>8, <1>9
  <1> QED BY <1>10 DEF S, T

-----------------------------------------------------------------------------
(* The Ewald terms of a body as sums over its sites. *)

BodySum(val, body) == SumFunctionOnSet([k \in 1..Len(body) |-> val[body[k]]], 1..Len(body))

CosValue(t) == [s \in Site |-> Charge[s.kind] * CosTable[t][(s.pos % L) + 1]]
SinValue(t) == [s \in Site |-> Charge[s.kind] * SinTable[t][(s.pos % L) + 1]]
SelfValue == [s \in Site |-> -SelfFactor * (Charge[s.kind] * Charge[s.kind])]

LEMMA ProductInt ==
  ASSUME NEW a \in Int, NEW b \in Int
  PROVE  a * b \in Int /\ -a * b \in Int
  OBVIOUS

(* What a table is looked up with. *)
LEMMA ResidueRange ==
  ASSUME NEW x \in Int
  PROVE  x % L \in 0..(L - 1) /\ (x % L) + 1 \in 1..L
  <1>1. L \in Nat \ {0}
    BY CellAssumption
  <1> QED BY <1>1

LEMMA DistanceRange ==
  ASSUME NEW x \in Int, NEW y \in Int
  PROVE  Distance(x, y) \in 0..(L \div 2) /\ Distance(x, y) \in Nat
  <1>1. L \in Nat \ {0}
    BY CellAssumption
  <1> DEFINE d == (x - y) % L
  <1>2. d \in 0..(L - 1)
    BY <1>1
  <1>3. Distance(x, y) = IF 2 * d > L THEN L - d ELSE d
    BY DEF Distance
  <1> HIDE DEF d
  <1> QED BY <1>1, <1>2, <1>3

LEMMA ValueTypes ==
  /\ \A t \in Terms : CosValue(t) \in [Site -> Int] /\ SinValue(t) \in [Site -> Int]
  /\ SelfValue \in [Site -> Int]
  <1>1. ASSUME NEW s \in Site
        PROVE  Charge[s.kind] \in Int /\ (s.pos % L) + 1 \in 1..L
    <2>1. s.kind \in Kinds /\ s.pos \in Int
      BY DEF Site
    <2> QED BY <2>1, EwaldAssumption, ResidueRange
  <1>2. ASSUME NEW t \in Terms, NEW s \in Site
        PROVE  /\ Charge[s.kind] * CosTable[t][(s.pos % L) + 1] \in Int
               /\ Charge[s.kind] * SinTable[t][(s.pos % L) + 1] \in Int
    <2>1. /\ CosTable[t][(s.pos % L) + 1] \in Int
          /\ SinTable[t][(s.pos % L) + 1] \in Int
      BY <1>1, EwaldAssumption
    <2> QED BY <1>1, <2>1, ProductInt
  <1>3. ASSUME NEW s \in Site
        PROVE  -SelfFactor * (Charge[s.kind] * Charge[s.kind]) \in Int
    <2>1. Charge[s.kind] * Charge[s.kind] \in Int
      BY <1>1, ProductInt
    <2> QED BY <2>1, EwaldAssumption, ProductInt
  <1>4. \A t \in Terms : CosValue(t) \in [Site -> Int] /\ SinValue(t) \in [Site -> Int]
    BY <1>2 DEF CosValue, SinValue
  <1>5. SelfValue \in [Site -> Int]
    BY <1>3 DEF SelfValue
  <1> QED BY <1>4, <1>5

LEMMA BodySumFacts ==
  ASSUME NEW val \in [Site -> Int], NEW body \in Seq(Site)
  PROVE  BodySum(val, body) \in Int /\ BodySum(val, << >>) = 0
  <1>1. IsFiniteSet(1..Len(body)) /\ Len(body) \in Nat
    BY FS_Interval, Len(body) \in Nat, Len(body) \in Int, 1 \in Int
  <1> DEFINE f == [k \in 1..Len(body) |-> val[body[k]]]
             none == [k \in 1..0 |-> val[<< >>[k]]]
  <1>2. \A k \in 1..Len(body) : f[k] \in Int
    OBVIOUS
  <1>3. BodySum(val, body) = SumFunctionOnSet(f, 1..Len(body))
    BY DEF BodySum
  <1>4. BodySum(val, << >>) = SumFunctionOnSet(none, {})
    <2>1. Len(<< >>) = 0 /\ 1..0 = {}
      BY EmptySeq
    <2> QED BY <2>1 DEF BodySum
  <1>5. IsFiniteSet({}) /\ \A x \in {} : none[x] \in Int
    BY FS_EmptySet
  <1> HIDE DEF f, none
  <1>6. SumFunctionOnSet(f, 1..Len(body)) \in Int
    BY <1>1, <1>2, SumFacts
  <1>7. SumFunctionOnSet(none, {}) = 0
    BY <1>5, SumFacts
  <1> QED BY <1>3, <1>4, <1>6, <1>7

LEMMA FactorIsSum ==
  ASSUME NEW t \in Terms, NEW body \in Seq(Site)
  PROVE  /\ StructureFactor(CosTable, t, body) = BodySum(CosValue(t), body)
         /\ StructureFactor(SinTable, t, body) = BodySum(SinValue(t), body)
  <1>1. \A k \in 1..Len(body) : body[k] \in Site
    OBVIOUS
  <1>2. [k \in 1..Len(body) |-> Charge[body[k].kind] * CosTable[t][(body[k].pos % L) + 1]]
          = [k \in 1..Len(body) |-> CosValue(t)[body[k]]]
    BY <1>1 DEF CosValue
  <1>3. [k \in 1..Len(body) |-> Charge[body[k].kind] * SinTable[t][(body[k].pos % L) + 1]]
          = [k \in 1..Len(body) |-> SinValue(t)[body[k]]]
    BY <1>1 DEF SinValue
  <1>4. /\ StructureFactor(CosTable, t, body) =
             SumFunctionOnSet([k \in 1..Len(body) |-> CosValue(t)[body[k]]], 1..Len(body))
        /\ StructureFactor(SinTable, t, body) =
             SumFunctionOnSet([k \in 1..Len(body) |-> SinValue(t)[body[k]]], 1..Len(body))
    BY <1>2, <1>3 DEF StructureFactor, SumFunction
  <1> QED BY <1>4 DEF BodySum

LEMMA SelfIsSum ==
  ASSUME NEW body \in Seq(Site)
  PROVE  SelfEnergy(body) = BodySum(SelfValue, body)
  <1>1. IsFiniteSet(1..Len(body)) /\ \A k \in 1..Len(body) : body[k] \in Site
    BY FS_Interval, Len(body) \in Int, 1 \in Int
  <1> DEFINE S == 1..Len(body)
             f == [k \in 1..Len(body) |-> Charge[body[k].kind] * Charge[body[k].kind]]
             g == [k \in 1..Len(body) |-> SelfValue[body[k]]]
             c == -SelfFactor
  <1>2. c \in Int /\ SelfFactor \in Int
    BY EwaldAssumption
  <1>3. \A k \in S : f[k] \in Int /\ g[k] = c * f[k]
    <2> SUFFICES ASSUME NEW k \in S PROVE f[k] \in Int /\ g[k] = c * f[k]
      OBVIOUS
    <2>1. Charge[body[k].kind] \in Int
      BY <1>1, EwaldAssumption DEF Site
    <2>2. f[k] \in Int
      BY <2>1, ProductInt
    <2>3. g[k] = -SelfFactor * f[k]
      BY <1>1 DEF SelfValue
    <2> HIDE DEF f, g
    <2> QED BY <1>2, <2>2, <2>3
  <1>4. SelfEnergy(body) = -SelfFactor * SumFunctionOnSet(f, S)
    BY DEF SelfEnergy, SumFunction
  <1>5. BodySum(SelfValue, body) = SumFunctionOnSet(g, S)
    BY DEF BodySum
  <1>6. IsFiniteSet(S)
    BY <1>1
  <1> HIDE DEF f, g, S
  <1>7. SumFunctionOnSet(f, S) \in Int
    BY <1>3, <1>6, SumFacts
  <1> HIDE DEF c
  <1>8. SumFunctionOnSet(g, S) = c * SumFunctionOnSet(f, S)
    BY <1>2, <1>3, <1>6, SumScaled
  <1> USE DEF c
  <1> QED BY <1>2, <1>4, <1>5, <1>7, <1>8

(* The pairs of sites of a body. *)
PairsOf(n) == {q \in (1..n) \X (1..n) : q[1] < q[2]}
PairTerms(body) ==
  [p \in PairsOf(Len(body)) |->
     Charge[body[p[1]].kind] * Charge[body[p[2]].kind]
       * ErfOverR[Distance(body[p[1]].pos, body[p[2]].pos) + 1]]

LEMMA ExclusionFacts ==
  ASSUME NEW body \in Seq(Site)
  PROVE  PairExclusionSum(body) \in Int /\ PairExclusionSum(<< >>) = 0
  <1>0. Len(body) \in Nat
    OBVIOUS
  <1>1. IsFiniteSet(PairsOf(Len(body)))
    <2>1. IsFiniteSet(1..Len(body))
      BY FS_Interval, Len(body) \in Int, 1 \in Int
    <2>2. IsFiniteSet((1..Len(body)) \X (1..Len(body)))
      BY <2>1, FS_Product
    <2>3. PairsOf(Len(body)) \subseteq (1..Len(body)) \X (1..Len(body))
      BY DEF PairsOf
    <2> QED BY <2>2, <2>3, FS_Subset
  <1>2. \A p \in PairsOf(Len(body)) : PairTerms(body)[p] \in Int
    <2> SUFFICES ASSUME NEW p \in PairsOf(Len(body)) PROVE PairTerms(body)[p] \in Int
      OBVIOUS
    <2>1. PICK i \in 1..Len(body), j \in 1..Len(body) : p[1] = i /\ p[2] = j
      BY DEF PairsOf
    <2>2. body[i] \in Site /\ body[j] \in Site
      OBVIOUS
    <2>3. /\ Charge[body[i].kind] \in Int /\ Charge[body[j].kind] \in Int
          /\ body[i].pos \in Int /\ body[j].pos \in Int
      BY <2>2, EwaldAssumption DEF Site
    <2>4. ErfOverR[Distance(body[i].pos, body[j].pos) + 1] \in Int
      BY <2>3, DistanceRange, EwaldAssumption
    <2>5. Charge[body[i].kind] * Charge[body[j].kind] \in Int
      BY <2>3, ProductInt
    <2>6. Charge[body[i].kind] * Charge[body[j].kind]
            * ErfOverR[Distance(body[i].pos, body[j].pos) + 1] \in Int
      BY <2>4, <2>5, ProductInt
    <2> QED BY <2>1, <2>6 DEF PairTerms
  <1>3. \A any : PairExclusionSum(any) = SumFunctionOnSet(PairTerms(any), PairsOf(Len(any)))
    BY DEF PairExclusionSum, PairTerms, PairsOf, SumFunction
  <1>4. SumFunctionOnSet(PairTerms(body), PairsOf(Len(body))) \in Int
    BY <1>1, <1>2, SumFacts
  <1>5. PairsOf(Len(<< >>)) = {}
    BY EmptySeq DEF PairsOf
  <1>6. IsFiniteSet({}) /\ \A x \in {} : PairTerms(<< >>)[x] \in Int
    BY FS_EmptySet
  <1>7. SumFunctionOnSet(PairTerms(<< >>), {}) = 0
    BY <1>6, SumFacts
  <1> QED BY <1>3, <1>4, <1>5, <1>7

-----------------------------------------------------------------------------
(* The Ewald terms of a list of molecules as sums over its bodies. *)

Bodies(val, config) == [b \in 0..Len(config) |-> BodySum(val, PoolOf(config)[b])]
PoolSum(val, config) == SumFunctionOnSet(Bodies(val, config), 0..Len(config))
Exclusions(config) == [b \in 1..Len(config) |-> PairExclusionSum(PoolOf(config)[b])]
ExclusionOf(config) == SumFunctionOnSet(Exclusions(config), 1..Len(config))

LEMMA PoolOfFacts ==
  ASSUME NEW config \in Seq(ListMolecule)
  PROVE  /\ Len(config) \in Nat /\ DOMAIN PoolOf(config) = 0..Len(config)
         /\ PoolOf(config)[0] = Framework
         /\ \A m \in 1..Len(config) : PoolOf(config)[m] = config[m].sites
         /\ \A b \in 0..Len(config) : PoolOf(config)[b] \in Seq(Site)
  <1>1. Framework \in Seq(Site)
    BY CellAssumption
  <1>2. \A m \in 1..Len(config) : config[m].sites \in Seq(Site)
    <2>1. \A m \in 1..Len(config) : config[m] \in ListMolecule
      OBVIOUS
    <2> QED BY <2>1 DEF ListMolecule
  <1>3. Len(config) \in Nat
    OBVIOUS
  <1>4. /\ PoolOf(config)[0] = Framework /\ DOMAIN PoolOf(config) = 0..Len(config)
        /\ \A m \in 1..Len(config) : PoolOf(config)[m] = config[m].sites
    BY <1>3 DEF PoolOf
  <1>5. \A b \in 0..Len(config) : b = 0 \/ b \in 1..Len(config)
    BY <1>3
  <1> QED BY <1>1, <1>2, <1>3, <1>4, <1>5

LEMMA BodiesFacts ==
  ASSUME NEW config \in Seq(ListMolecule)
  PROVE  /\ IsFiniteSet(0..Len(config)) /\ IsFiniteSet(1..Len(config))
         /\ \A val \in [Site -> Int] : \A b \in 0..Len(config) :
              /\ Bodies(val, config)[b] = BodySum(val, PoolOf(config)[b])
              /\ Bodies(val, config)[b] \in Int
         /\ \A b \in 1..Len(config) :
              /\ Exclusions(config)[b] = PairExclusionSum(PoolOf(config)[b])
              /\ Exclusions(config)[b] \in Int
         /\ ExclusionOf(config) \in Int
         /\ \A val \in [Site -> Int] : PoolSum(val, config) \in Int
  <1>1. IsFiniteSet(0..Len(config)) /\ IsFiniteSet(1..Len(config))
    BY FS_Interval, Len(config) \in Int, 1 \in Int, 0 \in Int
  <1>2. ASSUME NEW val \in [Site -> Int], NEW b \in 0..Len(config)
        PROVE  /\ Bodies(val, config)[b] = BodySum(val, PoolOf(config)[b])
               /\ Bodies(val, config)[b] \in Int
    BY PoolOfFacts, BodySumFacts DEF Bodies
  <1>3. ASSUME NEW b \in 1..Len(config)
        PROVE  /\ Exclusions(config)[b] = PairExclusionSum(PoolOf(config)[b])
               /\ Exclusions(config)[b] \in Int
    <2>1. PoolOf(config)[b] \in Seq(Site)
      <3>1. b \in 0..Len(config)
        OBVIOUS
      <3> QED BY <3>1, PoolOfFacts
    <2> QED BY <2>1, ExclusionFacts DEF Exclusions
  <1>4. ExclusionOf(config) \in Int
    BY <1>1, <1>3, SumFacts DEF ExclusionOf
  <1>5. ASSUME NEW val \in [Site -> Int] PROVE PoolSum(val, config) \in Int
    BY <1>1, <1>2, SumFacts DEF PoolSum
  <1> QED BY <1>1, <1>2, <1>3, <1>4, <1>5

LEMMA EwaldByValue ==
  ASSUME NEW config \in Seq(ListMolecule)
  PROVE  EwaldOf(config) =
           [re |-> [t \in Terms |-> PoolSum(CosValue(t), config)],
            im |-> [t \in Terms |-> PoolSum(SinValue(t), config)],
            self |-> PoolSum(SelfValue, config),
            exclusion |-> -ExclusionOf(config)]
  <1> DEFINE pool == PoolOf(config)
             D == 0..Len(config)
  <1>1. DOMAIN pool = D /\ \A b \in D : pool[b] \in Seq(Site)
    BY PoolOfFacts
  <1> HIDE DEF pool, D
  <1>2. ASSUME NEW t \in Terms
        PROVE  /\ [b \in D |-> StructureFactor(CosTable, t, pool[b])]
                    = [b \in D |-> BodySum(CosValue(t), pool[b])]
               /\ [b \in D |-> StructureFactor(SinTable, t, pool[b])]
                    = [b \in D |-> BodySum(SinValue(t), pool[b])]
    BY <1>1, FactorIsSum
  <1>3. [b \in D |-> SelfEnergy(pool[b])] = [b \in D |-> BodySum(SelfValue, pool[b])]
    BY <1>1, SelfIsSum
  <1>4. EwaldOf(config) =
          [re |-> [t \in Terms |->
                     SumFunctionOnSet([b \in D |-> StructureFactor(CosTable, t, pool[b])], D)],
           im |-> [t \in Terms |->
                     SumFunctionOnSet([b \in D |-> StructureFactor(SinTable, t, pool[b])], D)],
           self |-> SumFunctionOnSet([b \in D |-> SelfEnergy(pool[b])], D),
           exclusion |-> -ExclusionOf(config)]
    BY <1>1 DEF EwaldOf, SumFunction, ExclusionOf, Exclusions, pool
  <1>5. \A val : PoolSum(val, config) = SumFunctionOnSet([b \in D |-> BodySum(val, pool[b])], D)
    BY DEF PoolSum, Bodies, pool, D
  <1>6. [t \in Terms |-> SumFunctionOnSet([b \in D |-> StructureFactor(CosTable, t, pool[b])], D)]
          = [t \in Terms |-> PoolSum(CosValue(t), config)]
    BY <1>2, <1>5
  <1>7. [t \in Terms |-> SumFunctionOnSet([b \in D |-> StructureFactor(SinTable, t, pool[b])], D)]
          = [t \in Terms |-> PoolSum(SinValue(t), config)]
    BY <1>2, <1>5
  <1> QED BY <1>3, <1>4, <1>5, <1>6, <1>7

-----------------------------------------------------------------------------
(* What a change of the list does to the sums. *)

(* The list next differs from config by a body taken out and one put in. *)
Exchanged(config, next, removed, added) ==
  /\ \A val \in [Site -> Int] :
       PoolSum(val, next) = PoolSum(val, config) + (BodySum(val, added) - BodySum(val, removed))
  /\ ExclusionOf(next) =
       ExclusionOf(config) + (PairExclusionSum(added) - PairExclusionSum(removed))

LEMMA ReplacedEntry ==
  ASSUME NEW config \in Seq(ListMolecule), NEW m \in 1..Len(config), NEW entry \in ListMolecule
  PROVE  LET next == [config EXCEPT ![m] = entry]
         IN next \in Seq(ListMolecule) /\ Exchanged(config, next, config[m].sites, entry.sites)
  <1> DEFINE next == [config EXCEPT ![m] = entry]
  <1>1. next \in Seq(ListMolecule) /\ Len(next) = Len(config) /\ m \in 0..Len(config)
    OBVIOUS
  <1>2. next[m] = entry /\ \A x \in 1..Len(config) : x # m => next[x] = config[x]
    OBVIOUS
  <1> HIDE DEF next
  <1>3. /\ PoolOf(next)[m] = entry.sites /\ PoolOf(config)[m] = config[m].sites
        /\ \A x \in 0..Len(config) : x # m => PoolOf(next)[x] = PoolOf(config)[x]
    <2>1. \A x \in 0..Len(config) : x = 0 \/ x \in 1..Len(config)
      OBVIOUS
    <2> QED BY <1>1, <1>2, <2>1, PoolOfFacts
  <1>4. ASSUME NEW val \in [Site -> Int]
        PROVE  PoolSum(val, next) = PoolSum(val, config)
                 + (BodySum(val, entry.sites) - BodySum(val, config[m].sites))
    <2> DEFINE f == Bodies(val, config)
               g == Bodies(val, next)
               S == 0..Len(config)
    <2>1. /\ IsFiniteSet(S) /\ m \in S
          /\ \A x \in S : f[x] \in Int /\ g[x] \in Int
      BY <1>1, BodiesFacts
    <2>2. \A x \in S : x # m => g[x] = f[x]
      BY <1>1, <1>3, BodiesFacts
    <2>3. g[m] = BodySum(val, entry.sites) /\ f[m] = BodySum(val, config[m].sites)
      BY <1>1, <1>3, BodiesFacts
    <2>4. PoolSum(val, next) = SumFunctionOnSet(g, S) /\ PoolSum(val, config) = SumFunctionOnSet(f, S)
      BY <1>1 DEF PoolSum
    <2>5. DifferOnlyAt(m, f, g, S)
      BY <2>1, <2>2 DEF DifferOnlyAt
    <2> HIDE DEF f, g, S
    <2>6. SumFunctionOnSet(g, S) = SumFunctionOnSet(f, S) + (g[m] - f[m])
      BY <2>5, SumReplaced
    <2> QED BY <2>3, <2>4, <2>6
  <1>5. ExclusionOf(next) = ExclusionOf(config)
          + (PairExclusionSum(entry.sites) - PairExclusionSum(config[m].sites))
    <2> DEFINE f == Exclusions(config)
               g == Exclusions(next)
               S == 1..Len(config)
    <2>0. S \subseteq 0..Len(config)
      OBVIOUS
    <2>1. /\ IsFiniteSet(S) /\ m \in S
          /\ \A x \in S : f[x] \in Int /\ g[x] \in Int
      BY <1>1, BodiesFacts
    <2>2. \A x \in S : x # m => g[x] = f[x]
      BY <1>1, <1>3, <2>0, BodiesFacts
    <2>3. g[m] = PairExclusionSum(entry.sites) /\ f[m] = PairExclusionSum(config[m].sites)
      BY <1>1, <1>3, BodiesFacts
    <2>4. ExclusionOf(next) = SumFunctionOnSet(g, S) /\ ExclusionOf(config) = SumFunctionOnSet(f, S)
      BY <1>1 DEF ExclusionOf
    <2>5. DifferOnlyAt(m, f, g, S)
      BY <2>1, <2>2 DEF DifferOnlyAt
    <2> HIDE DEF f, g, S
    <2>6. SumFunctionOnSet(g, S) = SumFunctionOnSet(f, S) + (g[m] - f[m])
      BY <2>5, SumReplaced
    <2> QED BY <2>3, <2>4, <2>6
  <1> QED BY <1>1, <1>4, <1>5 DEF next, Exchanged

LEMMA AppendedEntry ==
  ASSUME NEW config \in Seq(ListMolecule), NEW entry \in ListMolecule
  PROVE  LET next == Append(config, entry)
         IN next \in Seq(ListMolecule) /\ Exchanged(config, next, << >>, entry.sites)
  <1> DEFINE next == Append(config, entry)
             n == Len(config)
  <1>1. next \in Seq(ListMolecule) /\ Len(next) = n + 1 /\ n \in Nat
    OBVIOUS
  <1>2. next[n + 1] = entry /\ \A x \in 1..n : next[x] = config[x]
    OBVIOUS
  <1>0. 0..n \subseteq 0..(n + 1) /\ 1..n \subseteq 1..(n + 1) /\ 1..n \subseteq 0..n
        /\ n + 1 \in 1..(n + 1) /\ n + 1 \in 0..(n + 1)
    BY <1>1
  <1> HIDE DEF next
  <1>3. /\ PoolOf(next)[n + 1] = entry.sites
        /\ \A x \in 0..n : PoolOf(next)[x] = PoolOf(config)[x]
    <2>1. \A x \in 0..n : x = 0 \/ x \in 1..n
      BY <1>1
    <2> QED BY <1>0, <1>1, <1>2, <2>1, PoolOfFacts
  <1>4. ASSUME NEW val \in [Site -> Int]
        PROVE  PoolSum(val, next) = PoolSum(val, config)
                 + (BodySum(val, entry.sites) - BodySum(val, << >>))
    <2> DEFINE f == Bodies(val, config)
               g == Bodies(val, next)
    <2>1. \A x \in 0..n : f[x] \in Int /\ g[x] = f[x]
      BY <1>0, <1>1, <1>3, BodiesFacts
    <2>2. g[n + 1] = BodySum(val, entry.sites) /\ g[n + 1] \in Int
      BY <1>0, <1>1, <1>3, BodiesFacts
    <2>3. /\ PoolSum(val, next) = SumFunctionOnSet(g, 0..(n + 1))
          /\ PoolSum(val, config) = SumFunctionOnSet(f, 0..n)
      BY <1>1 DEF PoolSum
    <2>4. BodySum(val, << >>) = 0
      BY BodySumFacts, EmptySeq
    <2> HIDE DEF f, g, n
    <2>5. SumFunctionOnSet(g, 0..(n + 1)) = SumFunctionOnSet(f, 0..n) + g[n + 1]
      BY <1>1, <2>1, <2>2, 0 \in Nat, 0 <= n + 1, SumAppended
    <2> QED BY <2>2, <2>3, <2>4, <2>5
  <1>5. ExclusionOf(next) = ExclusionOf(config)
          + (PairExclusionSum(entry.sites) - PairExclusionSum(<< >>))
    <2> DEFINE f == Exclusions(config)
               g == Exclusions(next)
    <2>1. \A x \in 1..n : f[x] \in Int /\ g[x] = f[x]
      BY <1>0, <1>1, <1>3, BodiesFacts
    <2>2. g[n + 1] = PairExclusionSum(entry.sites) /\ g[n + 1] \in Int
      BY <1>0, <1>1, <1>3, BodiesFacts
    <2>3. /\ ExclusionOf(next) = SumFunctionOnSet(g, 1..(n + 1))
          /\ ExclusionOf(config) = SumFunctionOnSet(f, 1..n)
      BY <1>1 DEF ExclusionOf
    <2>4. PairExclusionSum(<< >>) = 0
      BY ExclusionFacts, EmptySeq
    <2> HIDE DEF f, g, n
    <2>5. SumFunctionOnSet(g, 1..(n + 1)) = SumFunctionOnSet(f, 1..n) + g[n + 1]
      BY <1>1, <2>1, <2>2, 1 \in Nat, 1 <= n + 1, SumAppended
    <2> QED BY <2>2, <2>3, <2>4, <2>5
  <1> QED BY <1>1, <1>4, <1>5 DEF next, Exchanged

LEMMA ErasedEntry ==
  ASSUME NEW config \in Seq(ListMolecule), NEW m \in 1..Len(config)
  PROVE  LET next == EraseAt(config, m)
         IN next \in Seq(ListMolecule) /\ Exchanged(config, next, config[m].sites, << >>)
  <1> DEFINE next == EraseAt(config, m)
             n == Len(config)
  <1>1. /\ next \in Seq(ListMolecule) /\ Len(next) = n - 1 /\ n \in Nat /\ n - 1 \in Nat
        /\ m \in 0..n /\ m \in 1..n /\ m # 0
        /\ 1..(n - 1) \subseteq 0..(n - 1) /\ 0..(n - 1) \subseteq 0..n /\ 1..n \subseteq 0..n
    BY EraseAtFacts
  <1>2. \A x \in 1..(n - 1) : next[x] = IF x < m THEN config[x] ELSE config[x + 1]
    BY EraseAtFacts
  <1> HIDE DEF next
  <1>3. /\ PoolOf(config)[m] = config[m].sites
        /\ \A x \in 0..(n - 1) :
             PoolOf(next)[x] = IF x < m THEN PoolOf(config)[x] ELSE PoolOf(config)[x + 1]
    <2> SUFFICES ASSUME NEW x \in 0..(n - 1)
                 PROVE  PoolOf(next)[x] =
                          IF x < m THEN PoolOf(config)[x] ELSE PoolOf(config)[x + 1]
      BY PoolOfFacts
    <2>1. CASE x = 0
      <3>1. 0 < m
        BY <1>1
      <3> QED BY <1>1, <2>1, <3>1, PoolOfFacts
    <2>2. CASE x # 0
      <3>1. x \in 1..(n - 1) /\ x \in 1..n /\ x + 1 \in 1..n
        BY <1>1, <2>2
      <3> QED BY <1>1, <1>2, <3>1, PoolOfFacts, ZenonT(30)
    <2> QED BY <2>1, <2>2
  <1>4. \A x \in 0..(n - 1) : x \in 0..n /\ x + 1 \in 0..n /\ (x \in 1..(n - 1) => x \in 1..n /\ x + 1 \in 1..n)
    BY <1>1
  <1>5. ASSUME NEW val \in [Site -> Int]
        PROVE  PoolSum(val, next) = PoolSum(val, config)
                 + (BodySum(val, << >>) - BodySum(val, config[m].sites))
    <2> DEFINE f == Bodies(val, config)
               g == Bodies(val, next)
    <2>1. \A x \in 0..n : f[x] \in Int
      BY BodiesFacts
    <2>2. \A x \in 0..(n - 1) : g[x] = IF x < m THEN f[x] ELSE f[x + 1]
      <3> SUFFICES ASSUME NEW x \in 0..(n - 1)
                   PROVE  g[x] = IF x < m THEN f[x] ELSE f[x + 1]
        OBVIOUS
      <3>1. g[x] = BodySum(val, PoolOf(next)[x])
        BY <1>1, BodiesFacts
      <3>2. f[x] = BodySum(val, PoolOf(config)[x]) /\ f[x + 1] = BodySum(val, PoolOf(config)[x + 1])
        BY <1>4, BodiesFacts
      <3> QED BY <1>3, <3>1, <3>2
    <2>3. f[m] = BodySum(val, config[m].sites) /\ f[m] \in Int
      BY <1>1, <1>3, BodiesFacts
    <2>4. /\ PoolSum(val, next) = SumFunctionOnSet(g, 0..(n - 1))
          /\ PoolSum(val, config) = SumFunctionOnSet(f, 0..n)
          /\ PoolSum(val, config) \in Int
      BY <1>1, BodiesFacts DEF PoolSum
    <2>5. BodySum(val, << >>) = 0
      BY BodySumFacts, EmptySeq
    <2>6. ClosesUpAt(m, f, g, 0, n)
      BY <1>1, <2>1, <2>2 DEF ClosesUpAt
    <2> HIDE DEF f, g, n
    <2>7. SumFunctionOnSet(g, 0..(n - 1)) = SumFunctionOnSet(f, 0..n) - f[m]
      BY <2>6, SumErased
    <2> QED BY <2>3, <2>4, <2>5, <2>7
  <1>6. ExclusionOf(next) = ExclusionOf(config)
          + (PairExclusionSum(<< >>) - PairExclusionSum(config[m].sites))
    <2> DEFINE f == Exclusions(config)
               g == Exclusions(next)
    <2>1. \A x \in 1..n : f[x] \in Int
      BY BodiesFacts
    <2>2. \A x \in 1..(n - 1) : g[x] = IF x < m THEN f[x] ELSE f[x + 1]
      BY <1>1, <1>3, <1>4, BodiesFacts
    <2>3. f[m] = PairExclusionSum(config[m].sites) /\ f[m] \in Int
      BY <1>1, <1>3, BodiesFacts
    <2>4. /\ ExclusionOf(next) = SumFunctionOnSet(g, 1..(n - 1))
          /\ ExclusionOf(config) = SumFunctionOnSet(f, 1..n)
          /\ ExclusionOf(config) \in Int
      BY <1>1, BodiesFacts DEF ExclusionOf
    <2>5. PairExclusionSum(<< >>) = 0
      BY ExclusionFacts, EmptySeq
    <2>6. ClosesUpAt(m, f, g, 1, n)
      BY <1>1, <2>1, <2>2 DEF ClosesUpAt
    <2> HIDE DEF f, g, n
    <2>7. SumFunctionOnSet(g, 1..(n - 1)) = SumFunctionOnSet(f, 1..n) - f[m]
      BY <2>6, SumErased
    <2> QED BY <2>3, <2>4, <2>5, <2>7
  <1> QED BY <1>1, <1>5, <1>6 DEF next, Exchanged

-----------------------------------------------------------------------------
(* Commit and resync. *)

Applied(e, d) ==
  [re |-> Sum(e.re, d.re), im |-> Sum(e.im, d.im),
   self |-> e.self + d.self, exclusion |-> e.exclusion + d.exclusion]

(* Applying the delta of what left and what came takes the sums of the one  *)
(* list to those of the other.                                              *)
LEMMA AppliedDelta ==
  ASSUME NEW config \in Seq(ListMolecule), NEW next \in Seq(ListMolecule),
         NEW removed \in Seq(Site), NEW added \in Seq(Site),
         Exchanged(config, next, removed, added)
  PROVE  Applied(EwaldOf(config), Delta(removed, added)) = EwaldOf(next)
  <1> DEFINE d == Delta(removed, added)
             e == EwaldOf(config)
  <1>1. e = [re |-> [t \in Terms |-> PoolSum(CosValue(t), config)],
             im |-> [t \in Terms |-> PoolSum(SinValue(t), config)],
             self |-> PoolSum(SelfValue, config),
             exclusion |-> -ExclusionOf(config)]
    BY EwaldByValue
  <1>2. /\ d.re = [t \in Terms |-> BodySum(CosValue(t), added) - BodySum(CosValue(t), removed)]
        /\ d.im = [t \in Terms |-> BodySum(SinValue(t), added) - BodySum(SinValue(t), removed)]
        /\ d.self = BodySum(SelfValue, added) - BodySum(SelfValue, removed)
        /\ d.exclusion = PairExclusionSum(removed) - PairExclusionSum(added)
    BY FactorIsSum, SelfIsSum DEF Delta
  <1> HIDE DEF d, e
  <1>3. \A val \in [Site -> Int] :
          PoolSum(val, next) = PoolSum(val, config) + (BodySum(val, added) - BodySum(val, removed))
    BY DEF Exchanged
  <1>4. Sum(e.re, d.re) = [t \in Terms |-> PoolSum(CosValue(t), next)]
    <2>1. \A t \in Terms : e.re[t] + d.re[t] = PoolSum(CosValue(t), next)
      BY <1>1, <1>2, <1>3, ValueTypes
    <2> QED BY <2>1 DEF Sum
  <1>5. Sum(e.im, d.im) = [t \in Terms |-> PoolSum(SinValue(t), next)]
    <2>1. \A t \in Terms : e.im[t] + d.im[t] = PoolSum(SinValue(t), next)
      BY <1>1, <1>2, <1>3, ValueTypes
    <2> QED BY <2>1 DEF Sum
  <1>6. e.self + d.self = PoolSum(SelfValue, next)
    BY <1>1, <1>2, <1>3, ValueTypes
  <1>7. e.exclusion + d.exclusion = -ExclusionOf(next)
    <2>1. ExclusionOf(config) \in Int /\ PairExclusionSum(removed) \in Int
          /\ PairExclusionSum(added) \in Int
      BY BodiesFacts, ExclusionFacts
    <2>2. e.exclusion = -ExclusionOf(config)
      BY <1>1
    <2> QED BY <1>2, <2>1, <2>2 DEF Exchanged
  <1>8. Applied(e, d) = EwaldOf(next)
    BY <1>4, <1>5, <1>6, <1>7, EwaldByValue DEF Applied
  <1> QED BY <1>8 DEF d, e

(* So a commit takes the cache of the one list to that of the other.        *)
LEMMA CommitFollows ==
  ASSUME NEW config \in Seq(ListMolecule), NEW next \in Seq(ListMolecule),
         NEW removed \in Seq(Site), NEW added \in Seq(Site),
         Exchanged(config, next, removed, added),
         ewald = EwaldOf(config), Commit(removed, added)
  PROVE  ewald' = EwaldOf(next)
  <1>1. ewald' = Applied(ewald, Delta(removed, added))
    BY DEF Commit, Applied
  <1> QED BY <1>1, AppliedDelta

(* When no trial or removed sites are in it, every particle of the pool is  *)
(* one of the framework's or of one molecule's.                             *)
Owner(i) ==
  CHOOSE m \in 0..Len(molecules) :
    IF m = 0 THEN i <= FrameworkCount
    ELSE \E k \in 1..Len(molecules[m].sites) : molecules[m].sites[k] = i

LEMMA PoolOwners ==
  ASSUME IInv, phase \in {"idle", "settling"}
  PROVE  /\ \A i \in 1..Len(particles) :
              /\ Owner(i) \in 0..Len(molecules)
              /\ Owner(i) = 0 => i \in 1..FrameworkCount
              /\ Owner(i) # 0 => \E k \in 1..Len(molecules[Owner(i)].sites) :
                                   molecules[Owner(i)].sites[k] = i
         /\ \A i \in 1..FrameworkCount : i \in 1..Len(particles) /\ Owner(i) = 0
         /\ \A m \in 1..Len(molecules) : \A k \in 1..Len(molecules[m].sites) :
              /\ molecules[m].sites[k] \in 1..Len(particles)
              /\ Owner(molecules[m].sites[k]) = m
  <1>1. Types /\ GuestsOwnedOnce /\ AttemptShape /\ FrameworkFixed
    BY DEF IInv
  <1>2. Len(molecules) \in Nat /\ Len(particles) \in Nat /\ FrameworkCount \in Nat
        /\ FrameworkCount <= Len(particles)
    BY <1>1, TypeFacts DEF FrameworkFixed
  <1>3. Unlisted = << >>
    BY <1>1, NoTrialFacts DEF AttemptShape, Unlisted
  <1> DEFINE Owns(m, i) == IF m = 0 THEN i <= FrameworkCount
                           ELSE \E k \in 1..Len(molecules[m].sites) : molecules[m].sites[k] = i
  <1>4. \A m \in 1..Len(molecules) : \A k \in 1..Len(molecules[m].sites) :
          /\ molecules[m].sites[k] \in (FrameworkCount + 1)..Len(particles)
          /\ molecules[m].sites[k] \in 1..Len(particles)
    BY <1>1, MemberFacts
  <1>5. ASSUME NEW i \in 1..Len(particles) PROVE \E m \in 0..Len(molecules) : Owns(m, i)
    <2>1. CASE i <= FrameworkCount
      <3>1. 0 \in 0..Len(molecules) /\ Owns(0, i)
        BY <1>2, <2>1
      <3> QED BY <3>1
    <2>2. CASE ~ (i <= FrameworkCount)
      <3>1. i \in GuestIndices
        BY <1>2, <2>2 DEF GuestIndices
      <3>2. PICK m \in 0..Len(molecules) : \E k \in 1..Len(IndexList(m)) : IndexList(m)[k] = i
        BY <1>1, <3>1 DEF GuestsOwnedOnce
      <3>3. m # 0
        BY <1>3, <3>2, EmptySeq DEF IndexList
      <3>4. Owns(m, i)
        BY <3>2, <3>3 DEF IndexList
      <3> QED BY <3>4
    <2> QED BY <2>1, <2>2
  <1>6. ASSUME NEW i \in 1..Len(particles), NEW m1 \in 0..Len(molecules), NEW m2 \in 0..Len(molecules),
               Owns(m1, i), Owns(m2, i)
        PROVE  m1 = m2
    <2>1. CASE m1 = 0 \/ m2 = 0
      <3>1. \A m \in 0..Len(molecules) : m # 0 => m \in 1..Len(molecules)
        BY <1>2
      <3> QED BY <1>2, <1>4, <1>6, <2>1, <3>1
    <2>2. CASE m1 # 0 /\ m2 # 0
      <3>1. m1 \in 1..Len(molecules) /\ m2 \in 1..Len(molecules)
        BY <1>2, <2>2
      <3>2. PICK k1 \in 1..Len(molecules[m1].sites) : molecules[m1].sites[k1] = i
        BY <1>6, <2>2
      <3>3. PICK k2 \in 1..Len(molecules[m2].sites) : molecules[m2].sites[k2] = i
        BY <1>6, <2>2
      <3> QED BY <1>1, <3>1, <3>2, <3>3, DistinctSites
    <2> QED BY <2>1, <2>2
  <1>7. \A i : Owner(i) = CHOOSE m \in 0..Len(molecules) : Owns(m, i)
    BY DEF Owner
  <1>8. \A i \in 1..Len(particles) : Owner(i) \in 0..Len(molecules) /\ Owns(Owner(i), i)
    <2> HIDE DEF Owns
    <2> QED BY <1>5, <1>7
  <1>9. \A i \in 1..Len(particles) : \A m \in 0..Len(molecules) : Owns(m, i) => Owner(i) = m
    <2> HIDE DEF Owns
    <2> QED BY <1>6, <1>8
  <1>10. \A i \in 1..FrameworkCount : i \in 1..Len(particles) /\ Owner(i) = 0
    <2> SUFFICES ASSUME NEW i \in 1..FrameworkCount PROVE i \in 1..Len(particles) /\ Owner(i) = 0
      OBVIOUS
    <2>1. i \in 1..Len(particles) /\ 0 \in 0..Len(molecules) /\ Owns(0, i)
      BY <1>2
    <2> HIDE DEF Owns
    <2> QED BY <1>9, <2>1
  <1>11. \A m \in 1..Len(molecules) : \A k \in 1..Len(molecules[m].sites) :
           Owner(molecules[m].sites[k]) = m
    <2> SUFFICES ASSUME NEW m \in 1..Len(molecules), NEW k \in 1..Len(molecules[m].sites)
                 PROVE  Owner(molecules[m].sites[k]) = m
      OBVIOUS
    <2>1. m \in 0..Len(molecules) /\ Owns(m, molecules[m].sites[k])
      BY <1>2
    <2>2. molecules[m].sites[k] \in 1..Len(particles)
      BY <1>4
    <2> HIDE DEF Owns
    <2> QED BY <1>9, <2>1, <2>2
  <1>12. \A i \in 1..Len(particles) :
           /\ Owner(i) = 0 => i \in 1..FrameworkCount
           /\ Owner(i) # 0 => \E k \in 1..Len(molecules[Owner(i)].sites) :
                                molecules[Owner(i)].sites[k] = i
    BY <1>2, <1>8
  <1> QED BY <1>4, <1>8, <1>10, <1>11, <1>12

(* idx are the indices of the sites of body d in the pool.                  *)
IndicesOf(d, idx) ==
  LET body == PoolOf(Config)[d]
  IN /\ idx \in [1..Len(body) -> {i \in 1..Len(particles) : Owner(i) = d}]
     /\ \A k, l \in 1..Len(body) : idx[k] = idx[l] => k = l
     /\ \A i \in 1..Len(particles) : Owner(i) = d => \E k \in 1..Len(body) : idx[k] = i
     /\ \A k \in 1..Len(body) : particles[idx[k]] = body[k]

LEMMA BodyIndices ==
  ASSUME IInv, phase \in {"idle", "settling"}, NEW d \in 0..Len(molecules)
  PROVE  /\ Len(Config) = Len(molecules) /\ PoolOf(Config)[d] \in Seq(Site)
         /\ d # 0 => PoolOf(Config)[d] = BodyOf(particles, molecules[d].sites)
         /\ \E idx : /\ IndicesOf(d, idx)
                     /\ d # 0 => idx = [k \in 1..Len(molecules[d].sites) |-> molecules[d].sites[k]]
  <1>1. Types /\ FrameworkFixed /\ GuestsOwnedOnce
    BY DEF IInv
  <1>2. /\ Len(molecules) \in Nat /\ Framework \in Seq(Site) /\ Len(Framework) = FrameworkCount
        /\ FrameworkCount \in Nat
    BY <1>1, TypeFacts, CellAssumption DEF Types, FrameworkCount
  <1>3. Committed = particles
    BY NoTrialFacts DEF IInv, AttemptShape, Committed
  <1>4. /\ Config \in Seq(ListMolecule) /\ Len(Config) = Len(molecules)
        /\ \A m \in 1..Len(molecules) :
             /\ Config[m].sites = BodyOf(particles, molecules[m].sites)
             /\ Len(Config[m].sites) = Len(molecules[m].sites)
             /\ \A k \in 1..Len(molecules[m].sites) :
                  Config[m].sites[k] = particles[molecules[m].sites[k]]
    BY <1>3, ConfigFacts
  <1> DEFINE body == PoolOf(Config)[d]
             idx == [k \in 1..Len(body) |-> IF d = 0 THEN k ELSE molecules[d].sites[k]]
  <1>5. body \in Seq(Site)
    BY <1>4, PoolOfFacts
  <1>6. CASE d = 0
    <2>1. body = Framework /\ Len(body) = FrameworkCount
      BY <1>2, <1>4, <1>6, PoolOfFacts
    <2>2. \A k \in 1..Len(body) : /\ idx[k] = k /\ k \in 1..Len(particles) /\ Owner(k) = d
                                  /\ particles[k] = body[k]
      BY <1>1, <1>6, <2>1, PoolOwners DEF FrameworkFixed
    <2>3. \A i \in 1..Len(particles) : Owner(i) = d => i \in 1..Len(body)
      BY <1>6, <2>1, PoolOwners
    <2>4. idx \in [1..Len(body) -> {i \in 1..Len(particles) : Owner(i) = d}]
      BY <2>2
    <2> HIDE DEF idx, body
    <2>5. IndicesOf(d, idx)
      BY <2>2, <2>3, <2>4 DEF IndicesOf, body
    <2> QED BY <1>4, <1>5, <1>6, <2>5 DEF body
  <1>7. CASE d # 0
    <2>0. d \in 1..Len(molecules)
      BY <1>2, <1>7
    <2>1. /\ body = Config[d].sites /\ body = BodyOf(particles, molecules[d].sites)
          /\ Len(body) = Len(molecules[d].sites)
      BY <1>4, <2>0, PoolOfFacts
    <2>2. \A k \in 1..Len(body) : /\ idx[k] = molecules[d].sites[k]
                                  /\ molecules[d].sites[k] \in 1..Len(particles)
                                  /\ Owner(molecules[d].sites[k]) = d
                                  /\ particles[molecules[d].sites[k]] = body[k]
      BY <1>4, <1>7, <2>0, <2>1, PoolOwners
    <2>3. \A i \in 1..Len(particles) : Owner(i) = d => \E k \in 1..Len(body) : idx[k] = i
      <3>1. \A i \in 1..Len(particles) :
              Owner(i) = d => \E k \in 1..Len(body) : molecules[d].sites[k] = i
        BY <1>7, <2>1, PoolOwners
      <3> QED BY <2>2, <3>1
    <2>4. idx \in [1..Len(body) -> {i \in 1..Len(particles) : Owner(i) = d}]
      BY <2>2
    <2>5. \A k, l \in 1..Len(body) : idx[k] = idx[l] => k = l
      BY <1>1, <2>0, <2>1, <2>2, DistinctSites
    <2>6. idx = [k \in 1..Len(molecules[d].sites) |-> molecules[d].sites[k]]
      BY <1>7, <2>1
    <2> HIDE DEF idx, body
    <2>7. IndicesOf(d, idx)
      BY <2>2, <2>3, <2>4, <2>5 DEF IndicesOf, body
    <2> QED BY <1>4, <1>5, <2>1, <2>6, <2>7 DEF body
  <1> QED BY <1>6, <1>7

LEMMA PoolByMolecule ==
  ASSUME IInv, phase = "settling", NEW val \in [Site -> Int]
  PROVE  BodySum(val, particles) = PoolSum(val, Config)
  <1>1. /\ particles \in Seq(Site) /\ Len(particles) \in Nat /\ Len(molecules) \in Nat
        /\ Config \in Seq(ListMolecule) /\ Len(Config) = Len(molecules)
    BY TypeFacts, ConfigFacts DEF IInv, Types
  <1> DEFINE S == 1..Len(particles)
             f == [i \in 1..Len(particles) |-> val[particles[i]]]
             B == 0..Len(molecules)
             c == [i \in 1..Len(particles) |-> Owner(i)]
             g == Bodies(val, Config)
  <1>2. /\ \A i \in S : f[i] \in Int
        /\ IsFiniteSet(S) /\ IsFiniteSet(B)
        /\ c \in [S -> B]
    <2>1. \A i \in S : particles[i] \in Site
      BY <1>1
    <2>2. IsFiniteSet(S) /\ IsFiniteSet(B)
      BY <1>1, FS_Interval, Len(particles) \in Int, Len(molecules) \in Int, 0 \in Int, 1 \in Int
    <2>3. c \in [S -> B]
      BY PoolOwners
    <2> QED BY <2>1, <2>2, <2>3
  <1>3. ASSUME NEW d \in B PROVE g[d] = SumFunctionOnSet(f, {i \in S : c[i] = d})
    <2> DEFINE body == PoolOf(Config)[d]
               U == {i \in S : c[i] = d}
               K == 1..Len(body)
               w == [k \in 1..Len(body) |-> val[body[k]]]
    <2>1. PICK idx : IndicesOf(d, idx)
      BY BodyIndices
    <2>2. d \in 0..Len(Config) /\ body \in Seq(Site)
      BY <1>1, PoolOfFacts
    <2>3. g[d] = SumFunctionOnSet(w, K)
      <3>1. g[d] = BodySum(val, body)
        BY <1>1, <2>2, BodiesFacts
      <3> QED BY <3>1 DEF BodySum
    <2>4. IsFiniteSet(K) /\ \A k \in K : w[k] \in Int
      <3>1. Len(body) \in Int /\ \A k \in K : body[k] \in Site
        BY <2>2
      <3>2. IsFiniteSet(K)
        BY <3>1, FS_Interval, 1 \in Int
      <3> QED BY <3>1, <3>2
    <2>5. /\ idx \in [K -> U] /\ \A k, l \in K : idx[k] = idx[l] => k = l
          /\ \A z \in U : \E k \in K : idx[k] = z
          /\ \A k \in K : particles[idx[k]] = body[k]
      BY <2>1 DEF IndicesOf
    <2>6. \A k \in K : f[idx[k]] = w[k]
      BY <2>5
    <2> HIDE DEF f, w, U, K, S
    <2>7. SumFunctionOnSet(f, U) = SumFunctionOnSet(w, K)
      BY <2>4, <2>5, <2>6, SumRenamed
    <2> QED BY <2>3, <2>7 DEF U
  <1>4. BodySum(val, particles) = SumFunctionOnSet(f, S) /\ PoolSum(val, Config) = SumFunctionOnSet(g, B)
    BY <1>1 DEF BodySum, PoolSum
  <1> HIDE DEF S, f, B, c, g
  <1>5. SumsOfClasses(g, f, S, c, B)
    BY <1>3 DEF SumsOfClasses
  <1>6. SumFunctionOnSet(f, S) = SumFunctionOnSet(g, B)
    BY <1>2, <1>5, SumByClass
  <1> QED BY <1>4, <1>6

(* A resync computes what the cache held already.                           *)
LEMMA ResyncFollows ==
  ASSUME IInv, phase = "settling"
  PROVE  Resynced(particles, [m \in 1..Len(molecules) |-> molecules[m].sites]) = EwaldOf(Config)
  <1>1. particles \in Seq(Site) /\ Len(molecules) \in Nat
    BY TypeFacts DEF IInv, Types
  <1>2. Committed = particles
    BY NoTrialFacts DEF IInv, AttemptShape, Committed
  <1>3. /\ Config \in Seq(ListMolecule) /\ Len(Config) = Len(molecules)
        /\ \A m \in 1..Len(molecules) : Config[m].sites = BodyOf(particles, molecules[m].sites)
    BY <1>2, ConfigFacts
  <1> DEFINE lists == [m \in 1..Len(molecules) |-> molecules[m].sites]
  <1>4. [m \in DOMAIN lists |-> PairExclusionSum(BodyOf(particles, lists[m]))] = Exclusions(Config)
    BY <1>3, PoolOfFacts DEF Exclusions
  <1>5. SumFunction([m \in DOMAIN lists |-> PairExclusionSum(BodyOf(particles, lists[m]))])
          = ExclusionOf(Config)
    BY <1>3, <1>4 DEF SumFunction, ExclusionOf
  <1>6. /\ [t \in Terms |-> StructureFactor(CosTable, t, particles)]
             = [t \in Terms |-> PoolSum(CosValue(t), Config)]
        /\ [t \in Terms |-> StructureFactor(SinTable, t, particles)]
             = [t \in Terms |-> PoolSum(SinValue(t), Config)]
        /\ SelfEnergy(particles) = PoolSum(SelfValue, Config)
    BY <1>1, FactorIsSum, SelfIsSum, ValueTypes, PoolByMolecule
  <1>7. Resynced(particles, lists) =
          [EwaldOfFramework(particles) EXCEPT !.exclusion = -ExclusionOf(Config)]
    <2>1. \A P, ls : Resynced(P, ls) =
            [EwaldOfFramework(P) EXCEPT !.exclusion =
               -SumFunction([m \in DOMAIN ls |-> PairExclusionSum(BodyOf(P, ls[m]))])]
      BY DEF Resynced
    <2> HIDE DEF lists
    <2> QED BY <1>5, <2>1
  <1>8. EwaldOfFramework(particles) =
          [re |-> [t \in Terms |-> PoolSum(CosValue(t), Config)],
           im |-> [t \in Terms |-> PoolSum(SinValue(t), Config)],
           self |-> PoolSum(SelfValue, Config),
           exclusion |-> 0]
    BY <1>6 DEF EwaldOfFramework
  <1>9. EwaldOf(Config) = [re |-> [t \in Terms |-> PoolSum(CosValue(t), Config)],
                           im |-> [t \in Terms |-> PoolSum(SinValue(t), Config)],
                           self |-> PoolSum(SelfValue, Config),
                           exclusion |-> -ExclusionOf(Config)]
    BY <1>3, EwaldByValue
  <1> HIDE DEF lists
  <1>10. Resynced(particles, lists) = EwaldOf(Config)
    BY <1>7, <1>8, <1>9
  <1> QED BY <1>10 DEF lists

-----------------------------------------------------------------------------
(* The engine's invariant holds with electrostatics too: every step here is *)
(* one of the engine's with something booked besides.                       *)

LEMMA EngineStep ==
  ASSUME ChargedNext
  PROVE  Next
  <1>1. ASSUME ProposeDisplacement PROVE Next
    BY <1>1 DEF ProposeDisplacement, Next
  <1>2. ASSUME ProposeInsertion PROVE Next
    BY <1>2 DEF ProposeInsertion, Next
  <1>3. ASSUME ProposeDeletion PROVE Next
    BY <1>3 DEF ProposeDeletion, Next
  <1>4. ASSUME ProposeSwap PROVE Next
    BY <1>4 DEF ProposeSwap, Next
  <1>5. ASSUME CommitDisplacement PROVE Next
    BY <1>5 DEF CommitDisplacement, Next
  <1>6. ASSUME CommitInsertion PROVE Next
    BY <1>6 DEF CommitInsertion, Next
  <1>7. ASSUME CommitDeletion PROVE Next
    BY <1>7 DEF CommitDeletion, Next
  <1>8. ASSUME CommitSwap PROVE Next
    BY <1>8 DEF CommitSwap, Next
  <1>9. ASSUME Discard PROVE Next
    BY <1>9 DEF Discard, Next
  <1>10. ASSUME Remove PROVE Next
    BY <1>10 DEF Remove, Next
  <1>11. ASSUME Finalize PROVE Next
    BY <1>11 DEF Finalize, Next
  <1> QED BY <1>1, <1>2, <1>3, <1>4, <1>5, <1>6, <1>7, <1>8, <1>9, <1>10, <1>11 DEF ChargedNext

LEMMA EngineInvariant ==
  /\ ChargedInit => IInv
  /\ IInv /\ [ChargedNext]_chargedVars => IInv'
  <1>1. ChargedInit => IInv
    BY InitIInv DEF ChargedInit
  <1>2. ASSUME IInv, ChargedNext PROVE IInv'
    <2>1. Next
      BY <1>2, EngineStep
    <2> QED BY <1>2, <2>1, TypesStep, AttemptShapeStep, AppendedLastStep, GuestsOwnedOnceStep,
               FrameworkFixedStep, CellsFreshStep DEF IInv
  <1>3. ASSUME IInv, UNCHANGED chargedVars PROVE IInv'
    <2>1. UNCHANGED vars
      BY <1>3 DEF chargedVars
    <2> QED BY <1>3, <2>1, StutterIInv
  <1> QED BY <1>1, <1>2, <1>3

-----------------------------------------------------------------------------
(* The cache is that of the molecules accepted so far. *)

LEMMA TrialBody ==
  ASSUME IInv, phase = "trial"
  PROVE  /\ BodyOf(particles, trial.sites) \in Seq(Site)
         /\ [species |-> trial.species, sites |-> BodyOf(particles, trial.sites)] \in ListMolecule
  <1>1. Types /\ GuestsOwnedOnce
    BY DEF IInv
  <1>2. particles \in Seq(Site) /\ trial.sites \in Seq(Nat) /\ trial.species \in Species
    BY <1>1 DEF Types
  <1>3. \A k \in 1..Len(trial.sites) : trial.sites[k] \in 1..Len(particles)
    <2>1. CASE trial.move \in {"displace", "delete"}
      <3>1. PICK m \in 1..Len(molecules) : trial.sites = molecules[m].sites
        BY <2>1 DEF IInv, AttemptShape
      <3> QED BY <1>1, <3>1, MemberFacts
    <2>2. CASE trial.move \in {"insert", "swap"}
      <3>1. IndexList(0) = trial.sites /\ 0 \in 0..Len(molecules)
        BY <1>1, <2>2, TypeFacts DEF IndexList, Unlisted
      <3>2. \A k \in 1..Len(trial.sites) : trial.sites[k] \in GuestIndices
        BY <1>1, <3>1 DEF GuestsOwnedOnce
      <3> QED BY <1>1, <3>2, TypeFacts DEF GuestIndices
    <2> QED BY <2>1, <2>2, TrialLists
  <1>4. BodyOf(particles, trial.sites) \in Seq(Site)
    BY <1>2, <1>3, BodyFacts
  <1> QED BY <1>2, <1>4 DEF ListMolecule

LEMMA DisplacementBooked ==
  ASSUME IInv, IInv', CacheMatchesMolecules, CommitDisplacement
  PROVE  CacheMatchesMolecules'
  <1>1. /\ AcceptDisplacement /\ phase = "trial" /\ trial.move = "displace"
        /\ Commit(BodyOf(Committed, trial.sites), BodyOf(particles, trial.sites))
    BY DEF CommitDisplacement, AcceptDisplacement, Book
  <1> DEFINE entry == [species |-> molecules[trial.mol].species,
                       sites |-> BodyOf(particles, trial.sites)]
  <1>2. /\ trial.mol \in 1..Len(Config) /\ Config \in Seq(ListMolecule)
        /\ Config[trial.mol].sites = BodyOf(Committed, trial.sites)
        /\ Config' = [Config EXCEPT ![trial.mol] = entry]
    BY <1>1, DisplacementEntry, ConfigFacts
  <1>3. entry \in ListMolecule /\ entry.sites = BodyOf(particles, trial.sites)
    BY <1>1, TrialBody DEF IInv, AttemptShape
  <1>4. Config[trial.mol].sites \in Seq(Site) /\ entry.sites \in Seq(Site)
    <2>1. Config[trial.mol] \in ListMolecule
      BY <1>2
    <2> HIDE DEF entry
    <2> QED BY <1>3, <2>1 DEF ListMolecule
  <1> HIDE DEF entry
  <1>5. /\ Config' \in Seq(ListMolecule)
        /\ Exchanged(Config, Config', Config[trial.mol].sites, entry.sites)
    BY <1>2, <1>3, ReplacedEntry
  <1>6. ewald' = EwaldOf(Config')
    BY <1>1, <1>2, <1>3, <1>4, <1>5, CommitFollows DEF CacheMatchesMolecules
  <1> QED BY <1>6 DEF CacheMatchesMolecules

LEMMA InsertionBooked ==
  ASSUME IInv, CacheMatchesMolecules, CommitInsertion
  PROVE  CacheMatchesMolecules'
  <1>1. /\ AcceptInsertion /\ phase = "trial"
        /\ Commit(<< >>, BodyOf(particles, trial.sites))
    BY DEF CommitInsertion, AcceptInsertion, Book
  <1> DEFINE entry == [species |-> trial.species, sites |-> BodyOf(particles, trial.sites)]
  <1>2. Config \in Seq(ListMolecule) /\ Config' = Append(Config, entry)
    BY <1>1, InsertionEntry, ConfigFacts
  <1>3. entry \in ListMolecule /\ entry.sites = BodyOf(particles, trial.sites)
    BY <1>1, TrialBody
  <1>4. << >> \in Seq(Site) /\ entry.sites \in Seq(Site)
    BY <1>1, <1>3, TrialBody
  <1> HIDE DEF entry
  <1>5. Config' \in Seq(ListMolecule) /\ Exchanged(Config, Config', << >>, entry.sites)
    BY <1>2, <1>3, AppendedEntry
  <1>6. ewald' = EwaldOf(Config')
    BY <1>1, <1>2, <1>3, <1>4, <1>5, CommitFollows DEF CacheMatchesMolecules
  <1> QED BY <1>6 DEF CacheMatchesMolecules

LEMMA DeletionBooked ==
  ASSUME IInv, CacheMatchesMolecules, CommitDeletion
  PROVE  CacheMatchesMolecules'
  <1>1. /\ AcceptDeletion /\ phase = "trial"
        /\ Commit(BodyOf(particles, trial.sites), << >>)
    BY DEF CommitDeletion, AcceptDeletion, Book
  <1>2. /\ trial.mol \in 1..Len(Config) /\ Config \in Seq(ListMolecule)
        /\ Config[trial.mol].sites = BodyOf(particles, trial.sites)
        /\ Config' = EraseAt(Config, trial.mol)
    BY <1>1, DeletionEntry, ConfigFacts
  <1>3. << >> \in Seq(Site) /\ Config[trial.mol].sites \in Seq(Site)
    BY <1>1, <1>2, TrialBody
  <1>4. Config' \in Seq(ListMolecule) /\ Exchanged(Config, Config', Config[trial.mol].sites, << >>)
    BY <1>2, ErasedEntry
  <1>5. ewald' = EwaldOf(Config')
    BY <1>1, <1>2, <1>3, <1>4, CommitFollows DEF CacheMatchesMolecules
  <1> QED BY <1>5 DEF CacheMatchesMolecules

LEMMA SwapBooked ==
  ASSUME IInv, IInv', CacheMatchesMolecules, CommitSwap
  PROVE  CacheMatchesMolecules'
  <1>1. /\ AcceptSwap /\ phase = "trial"
        /\ Commit(BodyOf(particles, molecules[trial.mol].sites), BodyOf(particles, trial.sites))
    BY DEF CommitSwap, AcceptSwap, Book
  <1> DEFINE entry == [species |-> trial.species, sites |-> BodyOf(particles, trial.sites)]
  <1>2. /\ trial.mol \in 1..Len(Config) /\ Config \in Seq(ListMolecule)
        /\ Config[trial.mol].sites = BodyOf(particles, molecules[trial.mol].sites)
        /\ Config' = [Config EXCEPT ![trial.mol] = entry]
    BY <1>1, SwapEntry, ConfigFacts
  <1>3. entry \in ListMolecule /\ entry.sites = BodyOf(particles, trial.sites)
    BY <1>1, TrialBody
  <1>4. Config[trial.mol].sites \in Seq(Site) /\ entry.sites \in Seq(Site)
    <2>1. Config[trial.mol] \in ListMolecule
      BY <1>2
    <2> HIDE DEF entry
    <2> QED BY <1>3, <2>1 DEF ListMolecule
  <1> HIDE DEF entry
  <1>5. /\ Config' \in Seq(ListMolecule)
        /\ Exchanged(Config, Config', Config[trial.mol].sites, entry.sites)
    BY <1>2, <1>3, ReplacedEntry
  <1>6. ewald' = EwaldOf(Config')
    BY <1>1, <1>2, <1>3, <1>4, <1>5, CommitFollows DEF CacheMatchesMolecules
  <1> QED BY <1>6 DEF CacheMatchesMolecules

(* Every other step leaves the list alone, and the cache or its value.      *)
LEMMA OthersKeepCache ==
  ASSUME IInv, IInv', CacheMatchesMolecules,
         \/ ProposeDisplacement \/ ProposeInsertion \/ ProposeDeletion \/ ProposeSwap
         \/ Discard \/ Remove \/ Finalize
  PROVE  CacheMatchesMolecules'
  <1>1. Config' = Config
    BY OthersStutter, RemovalStutters
       DEF ProposeDisplacement, ProposeInsertion, ProposeDeletion, ProposeSwap, Discard, Remove,
           Finalize
  <1>2. ewald' = ewald
    <2>1. CASE Finalize
      <3>1. phase = "settling"
        BY <2>1 DEF Finalize, Settle
      <3>2. \/ ewald' = Resynced(particles, [m \in 1..Len(molecules) |-> molecules[m].sites])
            \/ ewald' = ewald
        BY <2>1 DEF Finalize, MaybeResync
      <3> QED BY <3>1, <3>2, ResyncFollows DEF CacheMatchesMolecules
    <2>2. CASE ~ Finalize
      BY <2>2 DEF ProposeDisplacement, ProposeInsertion, ProposeDeletion, ProposeSwap, Discard,
                  Remove
    <2> QED BY <2>1, <2>2
  <1>3. ewald' = EwaldOf(Config')
    BY <1>1, <1>2 DEF CacheMatchesMolecules
  <1> QED BY <1>3 DEF CacheMatchesMolecules

LEMMA CacheStarts ==
  ASSUME ChargedInit
  PROVE  CacheMatchesMolecules
  <1>1. Config = << >> /\ ewald = EwaldOfFramework(Framework)
    BY EmptySeq DEF ChargedInit, Init, Config
  <1>2. << >> \in Seq(ListMolecule) /\ Len(<< >>) = 0 /\ 0..0 = {0} /\ 1..0 = {}
    BY EmptySeq
  <1>3. Framework \in Seq(Site)
    BY CellAssumption
  <1>4. ASSUME NEW val \in [Site -> Int]
        PROVE  PoolSum(val, << >>) = BodySum(val, Framework)
    <2>1. PICK config \in Seq(ListMolecule), b \in Nat : config = << >> /\ Len(config) = 0 /\ b = 0
      BY <1>2
    <2> DEFINE f == Bodies(val, config)
    <2>2. b \in 0..Len(config) /\ 0..Len(config) = {b}
      BY <2>1
    <2>3. PoolOf(config)[b] = Framework
      BY <2>1, PoolOfFacts
    <2>4. f[b] = BodySum(val, Framework) /\ f[b] \in Int
      BY <2>2, <2>3, BodiesFacts
    <2>5. PoolSum(val, config) = SumFunctionOnSet(f, {b})
      BY <2>2 DEF PoolSum
    <2>6. IsFiniteSet({b}) /\ {b} \ {b} = {} /\ \A x \in {b} : f[x] \in Int
      BY <2>4, FS_Singleton
    <2> HIDE DEF f
    <2>7. /\ SumFunctionOnSet(f, {}) = 0
          /\ \A x \in {b} : SumFunctionOnSet(f, {b}) = f[x] + SumFunctionOnSet(f, {b} \ {x})
      BY <2>6, SumFacts
    <2>8. SumFunctionOnSet(f, {b}) = f[b] + 0
      BY <2>6, <2>7
    <2> QED BY <2>1, <2>4, <2>5, <2>8
  <1>5. ExclusionOf(<< >>) = 0
    <2>1. ExclusionOf(<< >>) = SumFunctionOnSet(Exclusions(<< >>), {})
      BY <1>2 DEF ExclusionOf
    <2>2. IsFiniteSet({}) /\ \A x \in {} : Exclusions(<< >>)[x] = 0
      BY FS_EmptySet
    <2> QED BY <2>1, <2>2, SumOfZeros
  <1>6. /\ [t \in Terms |-> StructureFactor(CosTable, t, Framework)]
             = [t \in Terms |-> PoolSum(CosValue(t), << >>)]
        /\ [t \in Terms |-> StructureFactor(SinTable, t, Framework)]
             = [t \in Terms |-> PoolSum(SinValue(t), << >>)]
        /\ SelfEnergy(Framework) = PoolSum(SelfValue, << >>)
    BY <1>3, <1>4, FactorIsSum, SelfIsSum, ValueTypes
  <1>7. EwaldOf(<< >>) = EwaldOfFramework(Framework)
    <2>1. EwaldOf(<< >>) = [re |-> [t \in Terms |-> PoolSum(CosValue(t), << >>)],
                            im |-> [t \in Terms |-> PoolSum(SinValue(t), << >>)],
                            self |-> PoolSum(SelfValue, << >>),
                            exclusion |-> -ExclusionOf(<< >>)]
      BY <1>2, EwaldByValue
    <2>2. EwaldOfFramework(Framework) = [re |-> [t \in Terms |-> PoolSum(CosValue(t), << >>)],
                            im |-> [t \in Terms |-> PoolSum(SinValue(t), << >>)],
                            self |-> PoolSum(SelfValue, << >>),
                            exclusion |-> 0]
      BY <1>6 DEF EwaldOfFramework
    <2> QED BY <1>5, <2>1, <2>2
  <1> QED BY <1>1, <1>7 DEF CacheMatchesMolecules

LEMMA CacheStep ==
  ASSUME IInv, IInv', CacheMatchesMolecules, [ChargedNext]_chargedVars
  PROVE  CacheMatchesMolecules'
  <1>1. CASE ChargedNext
    BY <1>1, DisplacementBooked, InsertionBooked, DeletionBooked, SwapBooked, OthersKeepCache
       DEF ChargedNext
  <1>2. CASE UNCHANGED chargedVars
    <2>1. Config' = Config /\ ewald' = ewald
      BY <1>2 DEF chargedVars, vars, Config, Committed
    <2> QED BY <2>1 DEF CacheMatchesMolecules
  <1> QED BY <1>1, <1>2

(* With electrostatics, too, the engine's invariant holds.                  *)
THEOREM ChargedInductive == ChargedSpec => []IInv
  BY EngineInvariant, PTL DEF ChargedSpec

(* The Ewald cache, kept up to date by the difference each accepted move    *)
(* makes and recomputed from the pool now and then, is at all times that of *)
(* the molecules accepted so far, whatever trial or removal is under way.   *)
THEOREM CacheIsCurrent == ChargedSpec => []CacheMatchesMolecules
  <1>1. ChargedInit => CacheMatchesMolecules
    BY CacheStarts
  <1>2. IInv /\ IInv' /\ CacheMatchesMolecules /\ [ChargedNext]_chargedVars
          => CacheMatchesMolecules'
    BY CacheStep
  <1> QED BY <1>1, <1>2, ChargedInductive, PTL DEF ChargedSpec

-----------------------------------------------------------------------------
(* Types, the resync counter and the energy of the running trial. *)

Counted == sinceResync \in 0..(ResyncInterval - 1) /\ (phase # "trial" => deltaU = 0)

LEMMA CountedStep ==
  ASSUME Counted, [ChargedNext]_chargedVars
  PROVE  Counted'
  <1>1. ResyncInterval \in Nat \ {0} /\ sinceResync \in 0..(ResyncInterval - 1)
    BY EnergyAssumption DEF Counted
  <1>2. ASSUME ProposeDisplacement \/ ProposeInsertion \/ ProposeDeletion \/ ProposeSwap
        PROVE  phase' = "trial" /\ sinceResync' = sinceResync
    BY <1>2 DEF ProposeDisplacement, ProposeInsertion, ProposeDeletion, ProposeSwap,
                StartTranslation, StartRotation, StartDisplacement, StartInsertion,
                StartAppending, StartDeletion, StartSwap
  <1>3. ASSUME CommitDisplacement \/ CommitInsertion \/ CommitDeletion \/ CommitSwap \/ Discard
        PROVE  deltaU' = 0 /\ sinceResync' = sinceResync
    BY <1>3 DEF CommitDisplacement, CommitInsertion, CommitDeletion, CommitSwap, Book, Discard
  <1>4. ASSUME Remove PROVE deltaU' = deltaU /\ sinceResync' = sinceResync /\ phase # "trial"
    BY <1>4 DEF Remove, RemoveNext
  <1>5. ASSUME Finalize
        PROVE  /\ deltaU' = deltaU /\ phase # "trial"
               /\ \/ sinceResync' = 0
                  \/ sinceResync' = sinceResync + 1 /\ ~ (sinceResync + 1 >= ResyncInterval)
    BY <1>5 DEF Finalize, Settle, MaybeResync
  <1>6. sinceResync' \in 0..(ResyncInterval - 1)
    <2>1. CASE UNCHANGED chargedVars
      BY <1>1, <2>1 DEF chargedVars
    <2>2. CASE Finalize
      <3>1. CASE sinceResync' = 0
        BY <1>1, <3>1
      <3>2. CASE sinceResync' = sinceResync + 1 /\ ~ (sinceResync + 1 >= ResyncInterval)
        BY <1>1, <3>2
      <3> QED BY <1>5, <2>2, <3>1, <3>2
    <2>3. CASE ChargedNext /\ ~ Finalize
      <3>1. sinceResync' = sinceResync
        BY <1>2, <1>3, <1>4, <2>3 DEF ChargedNext
      <3> QED BY <1>1, <3>1
    <2> QED BY <2>1, <2>2, <2>3
  <1>7. phase' # "trial" => deltaU' = 0
    <2>1. CASE UNCHANGED chargedVars
      BY <2>1 DEF chargedVars, vars, Counted
    <2>2. CASE ChargedNext
      BY <1>2, <1>3, <1>4, <1>5, <2>2 DEF ChargedNext, Counted
    <2> QED BY <2>1, <2>2
  <1> QED BY <1>6, <1>7 DEF Counted

(* Every variable has its type; the counter is reset before it reaches the  *)
(* resync interval, and no energy is left over from a finished trial.       *)
THEOREM ChargedTypeCorrect == ChargedSpec => []ChargedTypeOK
  <1>1. ChargedInit => Counted
    BY EnergyAssumption DEF ChargedInit, Counted
  <1>2. Counted /\ [ChargedNext]_chargedVars => Counted'
    BY CountedStep
  <1>3. IInv /\ CacheMatchesMolecules /\ Counted => ChargedTypeOK
    <2> SUFFICES ASSUME IInv, CacheMatchesMolecules, Counted PROVE ChargedTypeOK
      OBVIOUS
    <2>1. TypeOK
      BY TypeHolds
    <2>2. Config \in Seq(ListMolecule)
      BY ConfigFacts
    <2>3. ewald = [re |-> [t \in Terms |-> PoolSum(CosValue(t), Config)],
                   im |-> [t \in Terms |-> PoolSum(SinValue(t), Config)],
                   self |-> PoolSum(SelfValue, Config),
                   exclusion |-> -ExclusionOf(Config)]
      BY <2>2, EwaldByValue DEF CacheMatchesMolecules
    <2>4. \A t \in Terms : PoolSum(CosValue(t), Config) \in Int /\ PoolSum(SinValue(t), Config) \in Int
      BY <2>2, BodiesFacts, ValueTypes
    <2>5. /\ DOMAIN ewald.re = Terms /\ DOMAIN ewald.im = Terms
          /\ \A t \in Terms : ewald.re[t] \in Int /\ ewald.im[t] \in Int
      BY <2>3, <2>4
    <2> QED BY <2>1, <2>5 DEF ChargedTypeOK, Counted
  <1> QED BY <1>1, <1>2, <1>3, ChargedInductive, CacheIsCurrent, PTL DEF ChargedSpec

-----------------------------------------------------------------------------
(* The geometry of the cell list: whoever is in reach is in a bin that a    *)
(* scan visits.                                                             *)

LEMMA EuclideanDivision ==
  ASSUME NEW x \in Int, NEW p \in Nat \ {0}
  PROVE  /\ x \div p \in Int /\ x % p \in 0..(p - 1)
         /\ x = p * (x \div p) + (x % p)
  OBVIOUS

LEMMA ResidueIsUnique ==
  ASSUME NEW p \in Nat \ {0}, NEW k \in Int, NEW r \in 0..(p - 1)
  PROVE  (p * k + r) % p = r
  <1> DEFINE x == p * k + r
             j == x \div p
             t == x % p
  <1>1. j \in Int /\ t \in 0..(p - 1) /\ x = p * j + t
    BY EuclideanDivision, x \in Int
  <1>2. p * k + r = p * j + t
    BY <1>1
  <1> HIDE DEF x, j, t
  <1>3. ~ (k < j)
    <2> SUFFICES ASSUME k < j PROVE FALSE
      OBVIOUS
    <2>1. p * (k + 1) <= p * j
      BY <1>1
    <2>2. p * (k + 1) = p * k + p /\ p * k \in Int /\ p * j \in Int
      BY <1>1
    <2> QED BY <1>1, <1>2, <2>1, <2>2
  <1>4. ~ (j < k)
    <2> SUFFICES ASSUME j < k PROVE FALSE
      OBVIOUS
    <2>1. p * (j + 1) <= p * k
      BY <1>1
    <2>2. p * (j + 1) = p * j + p /\ p * k \in Int /\ p * j \in Int
      BY <1>1
    <2> QED BY <1>1, <1>2, <2>1, <2>2
  <1>5. j = k
    BY <1>1, <1>3, <1>4
  <1>6. t = r
    BY <1>1, <1>2, <1>5
  <1> QED BY <1>6 DEF t, x

(* The distance between two residues. *)
LEMMA Separation ==
  ASSUME NEW x \in Int, NEW y \in Int
  PROVE  LET a == x % L
             b == y % L
         IN (x - y) % L = IF b <= a THEN a - b ELSE (a - b) + L
  <1> DEFINE a == x % L
             b == y % L
             q == x \div L
             s == y \div L
             r == IF b <= a THEN a - b ELSE (a - b) + L
             k == IF b <= a THEN q - s ELSE (q - s) - 1
  <1>1. L \in Nat \ {0}
    BY CellAssumption
  <1>2. /\ q \in Int /\ a \in 0..(L - 1) /\ x = L * q + a
        /\ s \in Int /\ b \in 0..(L - 1) /\ y = L * s + b
    BY <1>1, EuclideanDivision
  <1> HIDE DEF a, b, q, s
  <1>3. r \in 0..(L - 1) /\ k \in Int
    BY <1>1, <1>2
  <1>4. x - y = L * k + r
    <2>1. /\ L * q \in Int /\ L * s \in Int /\ L * (q - s) = L * q - L * s
          /\ L * ((q - s) - 1) = (L * q - L * s) - L
      BY <1>1, <1>2
    <2>2. CASE b <= a
      <3>1. r = a - b /\ k = q - s
        BY <2>2
      <3> HIDE DEF r, k
      <3>2. L * k + r = (L * q - L * s) + (a - b)
        BY <2>1, <3>1
      <3> QED BY <1>1, <1>2, <2>1, <3>2
    <2>3. CASE ~ (b <= a)
      <3>1. r = (a - b) + L /\ k = (q - s) - 1
        BY <2>3
      <3> HIDE DEF r, k
      <3>2. L * k + r = ((L * q - L * s) - L) + ((a - b) + L)
        BY <2>1, <3>1
      <3>3. L * q - L * s + (a - b) = (L * q + a) - (L * s + b)
        BY <1>2, <2>1
      <3> QED BY <1>1, <1>2, <2>1, <3>2, <3>3
    <2> QED BY <2>2, <2>3
  <1> HIDE DEF r, k
  <1>5. (L * k + r) % L = r
    BY <1>1, <1>3, ResidueIsUnique
  <1>6. (x - y) % L = r
    BY <1>4, <1>5
  <1> QED BY <1>6 DEF r, a, b

LEMMA DistanceSymmetric ==
  ASSUME NEW x \in Int, NEW y \in Int
  PROVE  Distance(x, y) = Distance(y, x)
  <1> DEFINE a == x % L
             b == y % L
  <1>1. L \in Nat \ {0}
    BY CellAssumption
  <1>2. a \in 0..(L - 1) /\ b \in 0..(L - 1)
    BY <1>1
  <1>3. /\ (x - y) % L = IF b <= a THEN a - b ELSE (a - b) + L
        /\ (y - x) % L = IF a <= b THEN b - a ELSE (b - a) + L
    BY Separation
  <1> DEFINE d == (x - y) % L
             e == (y - x) % L
  <1>4. /\ Distance(x, y) = IF 2 * d > L THEN L - d ELSE d
        /\ Distance(y, x) = IF 2 * e > L THEN L - e ELSE e
    BY DEF Distance
  <1>5. /\ d = IF b <= a THEN a - b ELSE (a - b) + L
        /\ e = IF a <= b THEN b - a ELSE (b - a) + L
    BY <1>3
  <1> HIDE DEF a, b, d, e
  <1> QED BY <1>1, <1>2, <1>4, <1>5

(* Between equals and neighbours, multiples of L tell the quotients.        *)
LEMMA QuotientGap ==
  ASSUME NEW p \in Nat \ {0}, NEW i \in Int, NEW j \in Int, NEW u \in Int, p * i <= u, u < p * j
  PROVE  i < j
  <1> SUFFICES ASSUME j <= i PROVE FALSE
    OBVIOUS
  <1>1. p * j <= p * i
    OBVIOUS
  <1>2. p * j \in Int /\ p * i \in Int
    OBVIOUS
  <1> QED BY <1>1, <1>2

LEMMA BinBounds ==
  ASSUME NEW x \in Int
  PROVE  /\ NumBins \in Nat \ {0} /\ Radius * NumBins <= L
         /\ Bin(x) \in 0..(NumBins - 1)
         /\ (x % L) * NumBins \in Nat
         /\ L * Bin(x) <= (x % L) * NumBins /\ (x % L) * NumBins < L * (Bin(x) + 1)
  <1>1. L \in Nat \ {0} /\ Radius \in 1..L
    BY CellAssumption
  <1>2. x % L \in 0..(L - 1)
    BY <1>1
  <1>3. NumBins \in Nat \ {0} /\ Radius * NumBins <= L
    <2> DEFINE q == L \div Radius
    <2>1. q \in Int /\ L % Radius \in 0..(Radius - 1) /\ L = Radius * q + (L % Radius)
      BY <1>1, EuclideanDivision
    <2>2. NumBins = IF q < 1 THEN 1 ELSE q
      BY DEF NumBins
    <2> HIDE DEF q
    <2>3. Radius * 1 <= L /\ Radius * q <= L
      BY <1>1, <2>1
    <2> QED BY <2>1, <2>2, <2>3
  <1> DEFINE a == x % L
             n == NumBins
             u == a * n
  <1>4. u \in Nat
    BY <1>2, <1>3
  <1>5. Bin(x) = u \div L
    BY DEF Bin
  <1>6. Bin(x) \in 0..(NumBins - 1)
    BY BinInRange
  <1> HIDE DEF u
  <1> DEFINE v == u % L
             B == Bin(x)
  <1>7. v \in 0..(L - 1) /\ u = L * B + v
    BY <1>1, <1>4, <1>5, EuclideanDivision
  <1> HIDE DEF v, B
  <1>8. B \in Int
    BY <1>3, <1>6 DEF B
  <1>9. L * (B + 1) = L * B + L /\ L * B \in Int
    BY <1>1, <1>8
  <1>10. L * B <= u /\ u < L * (B + 1)
    BY <1>1, <1>7, <1>9
  <1> QED BY <1>3, <1>4, <1>6, <1>10 DEF u, B

(* Bins of two positions within the radius are equal or neighbours, around  *)
(* the cell.                                                                *)
LEMMA NeighbouringBins ==
  ASSUME NEW a \in 0..(L - 1), NEW b \in 0..(L - 1), NEW n \in Nat \ {0}, Radius * n <= L,
         NEW A \in 0..(n - 1), L * A <= a * n, a * n < L * (A + 1),
         NEW B \in 0..(n - 1), L * B <= b * n, b * n < L * (B + 1),
         b <= a, a - b <= Radius \/ L - (a - b) <= Radius
  PROVE  A = B \/ A = B + 1 \/ (B = 0 /\ A = n - 1)
  <1>1. L \in Nat \ {0} /\ Radius \in 1..L
    BY CellAssumption
  <1>2. a * n \in Int /\ b * n \in Int /\ L * A \in Int /\ L * B \in Int /\ L * n \in Int
        /\ Radius * n \in Int
    BY <1>1
  <1>3. /\ L * (A + 1) = L * A + L /\ L * (A + 2) = L * A + L + L
        /\ L * (B + 1) = L * B + L /\ L * (B + 2) = L * B + L + L
        /\ L * (B + n) = L * B + L * n
    BY <1>1
  <1>4. b * n <= a * n
    OBVIOUS
  <1>5. B <= A
    <2>1. L * B <= a * n /\ a * n < L * (A + 1)
      BY <1>2, <1>4
    <2>2. B < A + 1
      BY <1>1, <1>2, <2>1, QuotientGap, A + 1 \in Int
    <2> QED BY <2>2
  <1>6. CASE a - b <= Radius
    <2>1. (a - b) * n <= Radius * n
      BY <1>1, <1>6
    <2>2. (a - b) * n = a * n - b * n
      OBVIOUS
    <2>3. a * n < L * (B + 2)
      BY <1>1, <1>2, <1>3, <2>1, <2>2
    <2>4. A < B + 2
      BY <1>1, <1>2, <2>3, QuotientGap, B + 2 \in Int
    <2> QED BY <1>5, <2>4
  <1>7. CASE L - (a - b) <= Radius
    <2>1. (L - (a - b)) * n <= Radius * n
      BY <1>1, <1>7
    <2>2. (L - (a - b)) * n = L * n - (a * n - b * n)
      BY <1>1
    <2>3. L * (B + n) <= a * n + L /\ a * n + L < L * (A + 2)
      BY <1>1, <1>2, <1>3, <2>1, <2>2
    <2>4. B + n < A + 2
      BY <1>1, <1>2, <2>3, QuotientGap, B + n \in Int, A + 2 \in Int, a * n + L \in Int
    <2> QED BY <2>4
  <1> QED BY <1>6, <1>7

LEMMA InReachIsVisited ==
  ASSUME NEW x \in Int, NEW y \in Int, Distance(x, y) <= Radius
  PROVE  Visits(x, Bin(y))
  <1> DEFINE a == x % L
             b == y % L
             n == NumBins
             A == Bin(x)
             B == Bin(y)
  <1>1. L \in Nat \ {0} /\ Radius \in 1..L /\ a \in 0..(L - 1) /\ b \in 0..(L - 1)
    BY CellAssumption
  <1>2. /\ n \in Nat \ {0} /\ Radius * n <= L
        /\ A \in 0..(n - 1) /\ L * A <= a * n /\ a * n < L * (A + 1)
        /\ B \in 0..(n - 1) /\ L * B <= b * n /\ b * n < L * (B + 1)
    BY BinBounds
  <1>3. /\ (x - y) % L = IF b <= a THEN a - b ELSE (a - b) + L
    BY Separation
  <1>4. /\ b <= a => a - b <= Radius \/ L - (a - b) <= Radius
        /\ a <= b => b - a <= Radius \/ L - (b - a) <= Radius
    <2> DEFINE d == (x - y) % L
    <2>1. Distance(x, y) = IF 2 * d > L THEN L - d ELSE d
      BY DEF Distance
    <2>2. d = IF b <= a THEN a - b ELSE (a - b) + L
      BY <1>3
    <2> HIDE DEF d, a, b
    <2> QED BY <1>1, <2>1, <2>2
  <1> HIDE DEF a, b, n, A, B
  <1>5. \/ A = B \/ A = B + 1 \/ B = A + 1
        \/ B = 0 /\ A = n - 1
        \/ A = 0 /\ B = n - 1
    <2>1. CASE b <= a
      BY <1>1, <1>2, <1>4, <2>1, NeighbouringBins
    <2>2. CASE a <= b
      BY <1>1, <1>2, <1>4, <2>2, NeighbouringBins
    <2> QED BY <1>1, <2>1, <2>2
  <1>6. BinOffsets = IF n = 1 THEN {0} ELSE IF n = 2 THEN {0, 1} ELSE {-1, 0, 1}
    BY DEF BinOffsets, n
  <1>7. \E d \in BinOffsets : B = (A + d) % n
    <2>1. CASE n = 1
      <3>1. A = 0 /\ B = 0 /\ (A + 0) % n = 0
        BY <1>2, <2>1
      <3> QED BY <1>6, <2>1, <3>1
    <2>2. CASE n = 2
      <3>1. 0 \in BinOffsets /\ 1 \in BinOffsets
        BY <1>6, <2>2
      <3>2. B = (A + 0) % 2 \/ B = (A + 1) % 2
        BY <1>2, <2>2
      <3> QED BY <2>2, <3>1, <3>2
    <2>3. CASE n > 2
      <3>1. 0 \in BinOffsets /\ 1 \in BinOffsets /\ -1 \in BinOffsets
        BY <1>2, <1>6, <2>3
      <3>2. CASE A = B
        <4>1. (n * 0 + B) % n = B
          BY <1>2, ResidueIsUnique, 0 \in Int
        <4> QED BY <1>2, <3>1, <3>2, <4>1
      <3>3. CASE B = A + 1
        <4>1. (n * 0 + B) % n = B
          BY <1>2, ResidueIsUnique, 0 \in Int
        <4> QED BY <1>2, <3>1, <3>3, <4>1
      <3>4. CASE A = B + 1
        <4>1. (n * 0 + B) % n = B /\ n * 0 + B = A + (-1)
          BY <1>2, <3>4, ResidueIsUnique, 0 \in Int
        <4> QED BY <1>2, <3>1, <3>4, <4>1
      <3>5. CASE B = 0 /\ A = n - 1
        <4>1. (n * 1 + 0) % n = 0 /\ n * 1 + 0 = A + 1
          BY <1>2, <3>5, ResidueIsUnique, 1 \in Int, 0 \in 0..(n - 1)
        <4> QED BY <1>2, <3>1, <3>5, <4>1
      <3>6. CASE A = 0 /\ B = n - 1
        <4>1. (n * (-1) + B) % n = B /\ n * (-1) + B = A + (-1)
          BY <1>2, <3>6, ResidueIsUnique, -1 \in Int
        <4> QED BY <1>2, <3>1, <3>6, <4>1
      <3> QED BY <1>5, <3>2, <3>3, <3>4, <3>5, <3>6
    <2> QED BY <1>2, <2>1, <2>2, <2>3
  <1> QED BY <1>7 DEF Visits, A, B, n

-----------------------------------------------------------------------------
(* The energy of pairs of sites, of pairs of bodies and of a set of bodies. *)

PairValue(a, b) == PairDispersion(a, b) + PairRealSpace(a, b)

LEMMA PairFacts ==
  ASSUME NEW a \in Site, NEW b \in Site
  PROVE  /\ PairDispersion(a, b) \in Int /\ PairRealSpace(a, b) \in Int
         /\ PairValue(a, b) \in Int /\ PairValue(a, b) = PairValue(b, a)
         /\ ~ (Distance(a.pos, b.pos) <= Radius) => PairDispersion(a, b) = 0
  <1>1. /\ a.pos \in Int /\ b.pos \in Int
        /\ Strength[a.kind] \in Int /\ Strength[b.kind] \in Int
        /\ Charge[a.kind] \in Int /\ Charge[b.kind] \in Int
    BY EwaldAssumption, EnergyAssumption DEF Site
  <1> DEFINE d == Distance(a.pos, b.pos)
             s == Strength[a.kind] * Strength[b.kind]
             q == Charge[a.kind] * Charge[b.kind]
  <1>2. d \in 0..(L \div 2) /\ Distance(b.pos, a.pos) = d
    BY <1>1, DistanceRange, DistanceSymmetric
  <1>3. PairTable[d + 1] \in Int /\ RealTable[d + 1] \in Int
    BY <1>2, EnergyAssumption
  <1>4. /\ s \in Int /\ q \in Int
        /\ Strength[b.kind] * Strength[a.kind] = s /\ Charge[b.kind] * Charge[a.kind] = q
    BY <1>1
  <1>5. /\ PairDispersion(a, b) = s * PairTable[d + 1] /\ PairDispersion(b, a) = s * PairTable[d + 1]
        /\ PairRealSpace(a, b) = q * RealTable[d + 1] /\ PairRealSpace(b, a) = q * RealTable[d + 1]
    BY <1>2, <1>4 DEF PairDispersion, PairRealSpace
  <1> HIDE DEF s, q
  <1>6. s * PairTable[d + 1] \in Int /\ q * RealTable[d + 1] \in Int
    BY <1>3, <1>4, ProductInt
  <1>7. ASSUME ~ (d <= Radius) PROVE PairDispersion(a, b) = 0
    <2>1. Radius \in Nat /\ L \div 2 \in Int /\ d \in Int
      BY <1>2, CellAssumption
    <2>2. d \in (Radius + 1)..(L \div 2)
      BY <1>2, <1>7, <2>1
    <2>3. PairTable[d + 1] = 0
      BY <2>2, EnergyAssumption
    <2> QED BY <1>4, <1>5, <2>3
  <1> HIDE DEF d
  <1> QED BY <1>5, <1>6, <1>7 DEF PairValue, d

SitePairs(x, y) == (1..Len(x)) \X (1..Len(y))
SiteTerms(x, y) == [q \in SitePairs(x, y) |-> PairValue(x[q[1]], y[q[2]])]
BodyPair(x, y) == SumFunctionOnSet(SiteTerms(x, y), SitePairs(x, y))

LEMMA SiteTermFacts ==
  ASSUME NEW x \in Seq(Site), NEW y \in Seq(Site)
  PROVE  /\ IsFiniteSet(SitePairs(x, y))
         /\ \A q \in SitePairs(x, y) : SiteTerms(x, y)[q] \in Int
         /\ BodyPair(x, y) \in Int
  <1>1. IsFiniteSet(SitePairs(x, y))
    <2>1. IsFiniteSet(1..Len(x)) /\ IsFiniteSet(1..Len(y))
      BY FS_Interval, Len(x) \in Int, Len(y) \in Int, 1 \in Int
    <2> QED BY <2>1, FS_Product DEF SitePairs
  <1>2. ASSUME NEW q \in SitePairs(x, y) PROVE SiteTerms(x, y)[q] \in Int
    <2>1. q[1] \in 1..Len(x) /\ q[2] \in 1..Len(y)
      BY DEF SitePairs
    <2>2. x[q[1]] \in Site /\ y[q[2]] \in Site
      BY <2>1
    <2> QED BY <2>2, PairFacts DEF SiteTerms
  <1> QED BY <1>1, <1>2, SumFacts DEF BodyPair

LEMMA BodyPairSymmetric ==
  ASSUME NEW x \in Seq(Site), NEW y \in Seq(Site)
  PROVE  BodyPair(x, y) = BodyPair(y, x)
  <1> DEFINE S == SitePairs(x, y)
             T == SitePairs(y, x)
             f == SiteTerms(x, y)
             g == SiteTerms(y, x)
             r == [q \in SitePairs(x, y) |-> <<q[2], q[1]>>]
  <1>1. IsFiniteSet(S) /\ \A q \in S : f[q] \in Int
    BY SiteTermFacts
  <1>2. r \in [S -> T] /\ \A q \in S : r[q] = <<q[2], q[1]>>
    BY DEF SitePairs
  <1>3. \A p, q \in S : r[p] = r[q] => p = q
    BY DEF SitePairs
  <1>4. \A z \in T : \E q \in S : r[q] = z
    <2> SUFFICES ASSUME NEW z \in T PROVE \E q \in S : r[q] = z
      OBVIOUS
    <2>1. <<z[2], z[1]>> \in S /\ r[<<z[2], z[1]>>] = z
      BY DEF SitePairs
    <2> QED BY <2>1
  <1>5. \A q \in S : g[r[q]] = f[q]
    <2> SUFFICES ASSUME NEW q \in S PROVE g[r[q]] = f[q]
      OBVIOUS
    <2>1. r[q] \in T /\ r[q][1] = q[2] /\ r[q][2] = q[1]
      BY <1>2
    <2>2. x[q[1]] \in Site /\ y[q[2]] \in Site
      BY DEF SitePairs
    <2>3. g[r[q]] = PairValue(y[q[2]], x[q[1]]) /\ f[q] = PairValue(x[q[1]], y[q[2]])
      BY <2>1 DEF SiteTerms
    <2> QED BY <2>2, <2>3, PairFacts
  <1> HIDE DEF S, T, f, g, r
  <1>6. SumFunctionOnSet(g, T) = SumFunctionOnSet(f, S)
    BY <1>1, <1>2, <1>3, <1>4, <1>5, SumRenamed
  <1> QED BY <1>6 DEF BodyPair, S, T, f, g

(* The body x against those of the pool numbered in D, and those among      *)
(* themselves.                                                              *)
AgainstTerms(x, pool, D) == [b \in D |-> BodyPair(x, pool[b])]
Against(x, pool, D) == SumFunctionOnSet(AgainstTerms(x, pool, D), D)
IndexPairs(D) == {q \in D \X D : q[1] < q[2]}
BetweenTerms(pool, D) == [q \in IndexPairs(D) |-> BodyPair(pool[q[1]], pool[q[2]])]
Between(pool, D) == SumFunctionOnSet(BetweenTerms(pool, D), IndexPairs(D))

Bodied(pool, D) == IsFiniteSet(D) /\ D \subseteq Nat /\ \A b \in D : pool[b] \in Seq(Site)

LEMMA BetweenFacts ==
  ASSUME NEW pool, NEW D, Bodied(pool, D)
  PROVE  /\ IsFiniteSet(IndexPairs(D))
         /\ \A q \in IndexPairs(D) : BetweenTerms(pool, D)[q] \in Int
         /\ Between(pool, D) \in Int
         /\ \A x \in Seq(Site) : /\ \A b \in D : AgainstTerms(x, pool, D)[b] \in Int
                                 /\ Against(x, pool, D) \in Int
  <1>1. IsFiniteSet(IndexPairs(D))
    <2>1. IsFiniteSet(D \X D) /\ IndexPairs(D) \subseteq D \X D
      BY FS_Product DEF Bodied, IndexPairs
    <2> QED BY <2>1, FS_Subset
  <1>2. ASSUME NEW q \in IndexPairs(D) PROVE BetweenTerms(pool, D)[q] \in Int
    <2>1. q[1] \in D /\ q[2] \in D
      BY DEF IndexPairs
    <2>2. pool[q[1]] \in Seq(Site) /\ pool[q[2]] \in Seq(Site)
      BY <2>1 DEF Bodied
    <2> QED BY <2>2, SiteTermFacts DEF BetweenTerms
  <1>3. Between(pool, D) \in Int
    BY <1>1, <1>2, SumFacts DEF Between
  <1>4. ASSUME NEW x \in Seq(Site), NEW b \in D PROVE AgainstTerms(x, pool, D)[b] \in Int
    BY SiteTermFacts DEF AgainstTerms, Bodied
  <1>5. ASSUME NEW x \in Seq(Site) PROVE Against(x, pool, D) \in Int
    BY <1>4, SumFacts DEF Against, Bodied
  <1> QED BY <1>1, <1>2, <1>3, <1>4, <1>5

(* Only the bodies numbered in D count.                                     *)
LEMMA SamePool ==
  ASSUME NEW pool, NEW pool2, NEW D, \A b \in D : pool2[b] = pool[b]
  PROVE  /\ Between(pool2, D) = Between(pool, D)
         /\ \A x : Against(x, pool2, D) = Against(x, pool, D)
  <1>1. BetweenTerms(pool2, D) = BetweenTerms(pool, D)
    <2>1. \A q \in IndexPairs(D) : q[1] \in D /\ q[2] \in D
      BY DEF IndexPairs
    <2>2. \A q \in IndexPairs(D) :
            BodyPair(pool2[q[1]], pool2[q[2]]) = BodyPair(pool[q[1]], pool[q[2]])
      BY <2>1
    <2> QED BY <2>2 DEF BetweenTerms
  <1>2. \A x : AgainstTerms(x, pool2, D) = AgainstTerms(x, pool, D)
    BY DEF AgainstTerms
  <1> QED BY <1>1, <1>2 DEF Between, Against

(* The energy of one body is what it adds to that of the others.            *)
LEMMA BetweenSplit ==
  ASSUME NEW pool, NEW D, Bodied(pool, D), NEW m \in D
  PROVE  /\ Bodied(pool, D \ {m})
         /\ Between(pool, D) = Between(pool, D \ {m}) + Against(pool[m], pool, D \ {m})
  <1> DEFINE R == D \ {m}
             S == IndexPairs(D)
             A == IndexPairs(R)
             B == {q \in S : q[1] = m \/ q[2] = m}
             f == BetweenTerms(pool, D)
             g == AgainstTerms(pool[m], pool, R)
             r == [b \in R |-> IF b < m THEN <<b, m>> ELSE <<m, b>>]
  <1>1. Bodied(pool, R)
    BY FS_RemoveElement DEF Bodied
  <1>2. IsFiniteSet(S) /\ (\A q \in S : f[q] \in Int) /\ IsFiniteSet(R)
    BY <1>1, BetweenFacts DEF Bodied
  <1>3. A \in SUBSET S /\ B \in SUBSET S /\ A \cap B = {} /\ A \cup B = S
    BY DEF IndexPairs
  <1>4. D \subseteq Nat
    BY DEF Bodied
  <1>5. /\ r \in [R -> B]
        /\ \A b \in R : r[b] = IF b < m THEN <<b, m>> ELSE <<m, b>>
    <2>1. \A b \in R : /\ b < m => <<b, m>> \in B
                       /\ ~ (b < m) => <<m, b>> \in B
      BY <1>4 DEF IndexPairs
    <2> QED BY <2>1
  <1>6. \A a, b \in R : r[a] = r[b] => a = b
    BY <1>4, <1>5
  <1>7. \A z \in B : \E b \in R : r[b] = z
    <2> SUFFICES ASSUME NEW z \in B PROVE \E b \in R : r[b] = z
      OBVIOUS
    <2>1. z[1] \in D /\ z[2] \in D /\ z[1] < z[2] /\ z = <<z[1], z[2]>> /\ (z[1] = m \/ z[2] = m)
      BY DEF IndexPairs
    <2>2. CASE z[1] = m
      <3>1. z[2] \in R /\ ~ (z[2] < m)
        BY <1>4, <2>1, <2>2
      <3>2. r[z[2]] = z
        BY <1>5, <2>1, <2>2, <3>1
      <3> QED BY <3>1, <3>2
    <2>3. CASE z[2] = m
      <3>1. z[1] \in R /\ z[1] < m
        BY <1>4, <2>1, <2>3
      <3>2. r[z[1]] = z
        BY <1>5, <2>1, <2>3, <3>1
      <3> QED BY <3>1, <3>2
    <2> QED BY <2>1, <2>2, <2>3
  <1>8. \A b \in R : g[b] \in Int /\ f[r[b]] = g[b]
    <2> SUFFICES ASSUME NEW b \in R PROVE g[b] \in Int /\ f[r[b]] = g[b]
      OBVIOUS
    <2>1. pool[b] \in Seq(Site) /\ pool[m] \in Seq(Site)
      BY DEF Bodied
    <2>2. r[b] \in S /\ r[b] \in B
      BY <1>3, <1>5
    <2>3. g[b] = BodyPair(pool[m], pool[b]) /\ g[b] = BodyPair(pool[b], pool[m]) /\ g[b] \in Int
      BY <2>1, BodyPairSymmetric, SiteTermFacts DEF AgainstTerms
    <2>4. f[r[b]] = BodyPair(pool[r[b][1]], pool[r[b][2]])
      BY <2>2 DEF BetweenTerms
    <2>5. CASE b < m
      <3>1. r[b][1] = b /\ r[b][2] = m
        BY <1>5, <2>5
      <3> QED BY <2>3, <2>4, <3>1
    <2>6. CASE ~ (b < m)
      <3>1. r[b][1] = m /\ r[b][2] = b
        BY <1>5, <2>6
      <3> QED BY <2>3, <2>4, <3>1
    <2> QED BY <2>5, <2>6
  <1>9. BetweenTerms(pool, R) = [q \in A |-> f[q]]
    BY <1>3 DEF BetweenTerms
  <1>10. IsFiniteSet(A) /\ \A q \in A : f[q] \in Int /\ BetweenTerms(pool, R)[q] = f[q]
    BY <1>1, <1>2, <1>3, <1>9, BetweenFacts
  <1>11. /\ Between(pool, D) = SumFunctionOnSet(f, S)
         /\ Between(pool, R) = SumFunctionOnSet(BetweenTerms(pool, R), A)
         /\ Against(pool[m], pool, R) = SumFunctionOnSet(g, R)
    BY DEF Between, Against
  <1> HIDE DEF S, A, B, f, g, r, R
  <1>12. SumFunctionOnSet(f, S) = SumFunctionOnSet(f, A) + SumFunctionOnSet(f, B)
    BY <1>2, <1>3, SumOfTwo
  <1>13. SumFunctionOnSet(BetweenTerms(pool, R), A) = SumFunctionOnSet(f, A)
    BY <1>10, SumSame
  <1>14. SumFunctionOnSet(f, B) = SumFunctionOnSet(g, R)
    BY <1>2, <1>5, <1>6, <1>7, <1>8, SumRenamed
  <1>15. Between(pool, D) = Between(pool, R) + Against(pool[m], pool, R)
    BY <1>11, <1>12, <1>13, <1>14
  <1> QED BY <1>1, <1>15 DEF R

(* What the numbers are does not matter, as long as their order is kept.    *)
Renumbers(r, pool, D, pool2, E) ==
  /\ Bodied(pool, D) /\ r \in [D -> E] /\ E \subseteq Nat
  /\ \A a, b \in D : a < b <=> r[a] < r[b]
  /\ \A e \in E : \E b \in D : r[b] = e
  /\ \A b \in D : pool2[r[b]] = pool[b]

LEMMA BetweenRenumbered ==
  ASSUME NEW r, NEW pool, NEW D, NEW pool2, NEW E, Renumbers(r, pool, D, pool2, E)
  PROVE  Between(pool2, E) = Between(pool, D)
  <1>0. /\ Bodied(pool, D) /\ r \in [D -> E] /\ E \subseteq Nat /\ D \subseteq Nat
        /\ \A a, b \in D : a < b <=> r[a] < r[b]
        /\ \A e \in E : \E b \in D : r[b] = e
        /\ \A b \in D : pool2[r[b]] = pool[b]
    BY DEF Renumbers, Bodied
  <1> DEFINE S == IndexPairs(D)
             T == IndexPairs(E)
             f == BetweenTerms(pool, D)
             g == BetweenTerms(pool2, E)
             c == [q \in IndexPairs(D) |-> <<r[q[1]], r[q[2]]>>]
  <1>1. IsFiniteSet(S) /\ \A q \in S : f[q] \in Int
    BY <1>0, BetweenFacts
  <1>2. \A q \in S : q[1] \in D /\ q[2] \in D /\ q[1] < q[2] /\ q = <<q[1], q[2]>>
    BY DEF IndexPairs
  <1>3. \A q \in S : c[q] = <<r[q[1]], r[q[2]]>> /\ c[q] \in T
    <2> SUFFICES ASSUME NEW q \in S PROVE c[q] = <<r[q[1]], r[q[2]]>> /\ c[q] \in T
      OBVIOUS
    <2>1. r[q[1]] \in E /\ r[q[2]] \in E /\ r[q[1]] < r[q[2]]
      BY <1>0, <1>2
    <2> QED BY <2>1 DEF IndexPairs
  <1>4. c \in [S -> T]
    BY <1>3
  <1>5. \A a, b \in D : r[a] = r[b] => a = b
    <2> SUFFICES ASSUME NEW a \in D, NEW b \in D, r[a] = r[b] PROVE a = b
      OBVIOUS
    <2>1. ~ (r[a] < r[b]) /\ ~ (r[b] < r[a])
      BY <1>0
    <2>2. ~ (a < b) /\ ~ (b < a)
      BY <1>0, <2>1
    <2> QED BY <1>0, <2>2
  <1>6. \A p, q \in S : c[p] = c[q] => p = q
    <2> SUFFICES ASSUME NEW p \in S, NEW q \in S, c[p] = c[q] PROVE p = q
      OBVIOUS
    <2>1. r[p[1]] = r[q[1]] /\ r[p[2]] = r[q[2]]
      BY <1>3
    <2> QED BY <1>2, <1>5, <2>1
  <1>7. \A z \in T : \E q \in S : c[q] = z
    <2> SUFFICES ASSUME NEW z \in T PROVE \E q \in S : c[q] = z
      OBVIOUS
    <2>1. z[1] \in E /\ z[2] \in E /\ z[1] < z[2] /\ z = <<z[1], z[2]>>
      BY DEF IndexPairs
    <2>2. PICK a \in D : r[a] = z[1]
      BY <1>0, <2>1
    <2>3. PICK b \in D : r[b] = z[2]
      BY <1>0, <2>1
    <2>4. a < b
      BY <1>0, <2>1, <2>2, <2>3
    <2>5. <<a, b>> \in S
      BY <2>4 DEF IndexPairs
    <2>6. c[<<a, b>>] = z
      BY <1>3, <2>1, <2>2, <2>3, <2>5
    <2> QED BY <2>5, <2>6
  <1>8. \A q \in S : g[c[q]] = f[q]
    <2> SUFFICES ASSUME NEW q \in S PROVE g[c[q]] = f[q]
      OBVIOUS
    <2>1. c[q] \in T /\ c[q][1] = r[q[1]] /\ c[q][2] = r[q[2]]
      BY <1>3
    <2>2. g[c[q]] = BodyPair(pool2[r[q[1]]], pool2[r[q[2]]])
      BY <2>1 DEF BetweenTerms
    <2>3. pool2[r[q[1]]] = pool[q[1]] /\ pool2[r[q[2]]] = pool[q[2]]
      BY <1>0, <1>2
    <2> QED BY <2>2, <2>3 DEF BetweenTerms
  <1> HIDE DEF S, T, f, g, c
  <1>9. SumFunctionOnSet(g, T) = SumFunctionOnSet(f, S)
    BY <1>1, <1>4, <1>6, <1>7, <1>8, SumRenamed
  <1> QED BY <1>9 DEF Between, S, T, f, g

-----------------------------------------------------------------------------
(* The energy of the pairs of a list of molecules, and what a change of the *)
(* list does to it.                                                         *)

PairsIn(config) == Between(PoolOf(config), 0..Len(config))
Others(config, m) == (0..Len(config)) \ {m}

LEMMA PoolIsBodied ==
  ASSUME NEW config \in Seq(ListMolecule)
  PROVE  Bodied(PoolOf(config), 0..Len(config)) /\ PairsIn(config) \in Int
  <1>1. IsFiniteSet(0..Len(config)) /\ 0..Len(config) \subseteq Nat
    BY BodiesFacts
  <1>2. Bodied(PoolOf(config), 0..Len(config))
    BY <1>1, PoolOfFacts DEF Bodied
  <1> QED BY <1>2, BetweenFacts DEF PairsIn

(* What one entry has to do with the rest of the list.                      *)
LEMMA EntrySplit ==
  ASSUME NEW config \in Seq(ListMolecule), NEW m \in 0..Len(config)
  PROVE  /\ Bodied(PoolOf(config), Others(config, m))
         /\ PairsIn(config) = Between(PoolOf(config), Others(config, m))
              + Against(PoolOf(config)[m], PoolOf(config), Others(config, m))
         /\ Between(PoolOf(config), Others(config, m)) \in Int
         /\ \A x \in Seq(Site) : Against(x, PoolOf(config), Others(config, m)) \in Int
  <1>1. Bodied(PoolOf(config), 0..Len(config))
    BY PoolIsBodied
  <1>2. /\ Bodied(PoolOf(config), Others(config, m))
        /\ PairsIn(config) = Between(PoolOf(config), Others(config, m))
             + Against(PoolOf(config)[m], PoolOf(config), Others(config, m))
    BY <1>1, BetweenSplit DEF PairsIn, Others
  <1> QED BY <1>2, BetweenFacts

LEMMA ReplacedPairs ==
  ASSUME NEW config \in Seq(ListMolecule), NEW m \in 1..Len(config), NEW entry \in ListMolecule
  PROVE  PairsIn([config EXCEPT ![m] = entry]) = PairsIn(config)
           + (Against(entry.sites, PoolOf(config), Others(config, m))
                - Against(config[m].sites, PoolOf(config), Others(config, m)))
  <1> DEFINE next == [config EXCEPT ![m] = entry]
             R == Others(config, m)
  <1>1. next \in Seq(ListMolecule) /\ Len(next) = Len(config) /\ m \in 0..Len(config)
    OBVIOUS
  <1>2. next[m] = entry /\ \A x \in 1..Len(config) : x # m => next[x] = config[x]
    OBVIOUS
  <1> HIDE DEF next
  <1>3. PoolOf(next)[m] = entry.sites /\ PoolOf(config)[m] = config[m].sites
    BY <1>1, <1>2, PoolOfFacts
  <1>4. \A x \in R : PoolOf(next)[x] = PoolOf(config)[x]
    <2>1. \A x \in R : x = 0 \/ (x \in 1..Len(config) /\ x # m)
      BY DEF Others
    <2> QED BY <1>1, <1>2, <2>1, PoolOfFacts
  <1>5. Others(next, m) = R
    BY <1>1 DEF Others
  <1> HIDE DEF R
  <1>6. /\ Between(PoolOf(next), R) = Between(PoolOf(config), R)
        /\ \A x : Against(x, PoolOf(next), R) = Against(x, PoolOf(config), R)
    BY <1>4, SamePool
  <1>7. PairsIn(next) = Between(PoolOf(next), R) + Against(entry.sites, PoolOf(next), R)
    BY <1>1, <1>3, <1>5, EntrySplit
  <1>8. /\ PairsIn(config) = Between(PoolOf(config), R) + Against(config[m].sites, PoolOf(config), R)
        /\ Between(PoolOf(config), R) \in Int
        /\ \A x \in Seq(Site) : Against(x, PoolOf(config), R) \in Int
    BY <1>1, <1>3, EntrySplit DEF R
  <1>9. entry.sites \in Seq(Site) /\ config[m].sites \in Seq(Site)
    <2>1. config[m] \in ListMolecule
      OBVIOUS
    <2> QED BY <2>1 DEF ListMolecule
  <1>10. /\ Against(entry.sites, PoolOf(config), R) \in Int
         /\ Against(config[m].sites, PoolOf(config), R) \in Int
    BY <1>8, <1>9
  <1>11. PairsIn(next) = PairsIn(config) + (Against(entry.sites, PoolOf(config), R)
                                              - Against(config[m].sites, PoolOf(config), R))
    BY <1>6, <1>7, <1>8, <1>10
  <1> QED BY <1>11 DEF next, R

LEMMA AppendedPairs ==
  ASSUME NEW config \in Seq(ListMolecule), NEW entry \in ListMolecule
  PROVE  PairsIn(Append(config, entry)) = PairsIn(config)
           + Against(entry.sites, PoolOf(config), 0..Len(config))
  <1> DEFINE next == Append(config, entry)
             n == Len(config)
             R == 0..n
  <1>1. next \in Seq(ListMolecule) /\ Len(next) = n + 1 /\ n \in Nat
    OBVIOUS
  <1>2. next[n + 1] = entry /\ \A x \in 1..n : next[x] = config[x]
    OBVIOUS
  <1> HIDE DEF next
  <1>3. n + 1 \in 0..Len(next) /\ PoolOf(next)[n + 1] = entry.sites
    BY <1>1, <1>2, PoolOfFacts
  <1>4. \A x \in R : PoolOf(next)[x] = PoolOf(config)[x]
    <2>1. \A x \in R : x = 0 \/ (x \in 1..n /\ x \in 1..(n + 1))
      BY <1>1
    <2> QED BY <1>1, <1>2, <2>1, PoolOfFacts
  <1>5. Others(next, n + 1) = R
    BY <1>1 DEF Others
  <1> HIDE DEF R
  <1>6. /\ Between(PoolOf(next), R) = Between(PoolOf(config), R)
        /\ Against(entry.sites, PoolOf(next), R) = Against(entry.sites, PoolOf(config), R)
    BY <1>4, SamePool
  <1>7. PairsIn(next) = Between(PoolOf(next), R) + Against(entry.sites, PoolOf(next), R)
    BY <1>1, <1>3, <1>5, EntrySplit
  <1>8. PairsIn(config) = Between(PoolOf(config), R)
    BY DEF PairsIn, R
  <1>9. PairsIn(next) = PairsIn(config) + Against(entry.sites, PoolOf(config), R)
    BY <1>6, <1>7, <1>8
  <1> QED BY <1>9 DEF next, R

LEMMA ErasedPairs ==
  ASSUME NEW config \in Seq(ListMolecule), NEW m \in 1..Len(config)
  PROVE  PairsIn(EraseAt(config, m)) = PairsIn(config)
           - Against(config[m].sites, PoolOf(config), Others(config, m))
  <1> DEFINE next == EraseAt(config, m)
             n == Len(config)
             R == Others(config, m)
             T == 0..(n - 1)
             r == [x \in R |-> IF x < m THEN x ELSE x - 1]
  <1>1. /\ next \in Seq(ListMolecule) /\ Len(next) = n - 1 /\ n \in Nat /\ n - 1 \in Nat
        /\ m \in 0..n /\ m \in 1..n
    BY EraseAtFacts
  <1>2. \A x \in 1..(n - 1) : next[x] = IF x < m THEN config[x] ELSE config[x + 1]
    BY EraseAtFacts
  <1> HIDE DEF next
  <1>3. PoolOf(config)[m] = config[m].sites
    BY <1>1, PoolOfFacts
  <1>4. R \subseteq 0..n /\ m \notin R /\ \A x \in R : x \in Nat /\ x # m /\ x <= n
    BY <1>1 DEF Others
  <1>5. r \in [R -> T] /\ \A x \in R : r[x] = IF x < m THEN x ELSE x - 1
    BY <1>1, <1>4
  <1>6. \A a, b \in R : a < b <=> r[a] < r[b]
    <2> SUFFICES ASSUME NEW a \in R, NEW b \in R PROVE a < b <=> r[a] < r[b]
      OBVIOUS
    <2>1. /\ r[a] = IF a < m THEN a ELSE a - 1
          /\ r[b] = IF b < m THEN b ELSE b - 1
          /\ a \in Nat /\ a # m /\ b \in Nat /\ b # m
      BY <1>4, <1>5
    <2> QED BY <1>1, <2>1
  <1>7. \A e \in T : \E x \in R : r[x] = e
    <2> SUFFICES ASSUME NEW e \in T PROVE \E x \in R : r[x] = e
      OBVIOUS
    <2>1. CASE e < m
      <3>1. e \in R
        BY <1>1, <2>1 DEF Others
      <3>2. r[e] = e
        BY <1>5, <2>1, <3>1
      <3> QED BY <3>1, <3>2
    <2>2. CASE ~ (e < m)
      <3>1. e + 1 \in R /\ ~ (e + 1 < m)
        BY <1>1, <2>2 DEF Others
      <3>2. r[e + 1] = e
        BY <1>5, <3>1
      <3> QED BY <3>1, <3>2
    <2> QED BY <2>1, <2>2
  <1>8. \A x \in R : PoolOf(next)[r[x]] = PoolOf(config)[x]
    <2> SUFFICES ASSUME NEW x \in R PROVE PoolOf(next)[r[x]] = PoolOf(config)[x]
      OBVIOUS
    <2>1. CASE x = 0
      <3>1. r[x] = 0
        BY <1>1, <1>5, <2>1
      <3> QED BY <1>1, <2>1, <3>1, PoolOfFacts
    <2>2. CASE x # 0 /\ x < m
      <3>1. r[x] = x /\ x \in 1..(n - 1) /\ x \in 1..n
        BY <1>1, <1>4, <1>5, <2>2
      <3>2. next[x] = config[x]
        BY <1>2, <2>2, <3>1
      <3> QED BY <1>1, <3>1, <3>2, PoolOfFacts
    <2>3. CASE x # 0 /\ ~ (x < m)
      <3>1. r[x] = x - 1 /\ x - 1 \in 1..(n - 1) /\ x \in 1..n /\ ~ (x - 1 < m) /\ (x - 1) + 1 = x
        BY <1>1, <1>4, <1>5, <2>3
      <3>2. next[x - 1] = config[(x - 1) + 1]
        BY <1>2, <3>1
      <3>3. next[x - 1] = config[x]
        BY <3>1, <3>2
      <3> QED BY <1>1, <3>1, <3>3, PoolOfFacts
    <2> QED BY <2>1, <2>2, <2>3
  <1>9. /\ Bodied(PoolOf(config), R)
        /\ PairsIn(config) = Between(PoolOf(config), R) + Against(config[m].sites, PoolOf(config), R)
        /\ Between(PoolOf(config), R) \in Int
        /\ Against(config[m].sites, PoolOf(config), R) \in Int
    <2>1. config[m].sites \in Seq(Site)
      BY <1>1, <1>3, PoolOfFacts
    <2> QED BY <1>1, <1>3, <2>1, EntrySplit
  <1>10. PairsIn(next) = Between(PoolOf(next), T)
    BY <1>1 DEF PairsIn
  <1>11. T \subseteq Nat
    BY <1>1
  <1> HIDE DEF R, T, r
  <1>12. Renumbers(r, PoolOf(config), R, PoolOf(next), T)
    BY <1>5, <1>6, <1>7, <1>8, <1>9, <1>11 DEF Renumbers
  <1>13. PairsIn(next) = PairsIn(config) - Against(config[m].sites, PoolOf(config), R)
    BY <1>9, <1>10, <1>12, BetweenRenumbered
  <1> QED BY <1>13 DEF next, R

-----------------------------------------------------------------------------
(* The Ewald energy a trial is charged with. *)

LEMMA ReciprocalInt ==
  ASSUME NEW re, NEW im, \A t \in Terms : re[t] \in Int /\ im[t] \in Int
  PROVE  Reciprocal(re, im) \in Int
  <1> DEFINE f == [t \in Terms |-> Weight[t] * (re[t] * re[t] + im[t] * im[t])]
  <1>1. \A t \in Terms : f[t] \in Int
    <2> SUFFICES ASSUME NEW t \in Terms
                 PROVE  Weight[t] * (re[t] * re[t] + im[t] * im[t]) \in Int
      OBVIOUS
    <2>1. re[t] * re[t] \in Int /\ im[t] * im[t] \in Int
      BY ProductInt
    <2>2. re[t] * re[t] + im[t] * im[t] \in Int /\ Weight[t] \in Int
      BY <2>1, EwaldAssumption
    <2> QED BY <2>2, ProductInt
  <1>2. Reciprocal(re, im) = SumFunctionOnSet(f, Terms)
    BY DEF Reciprocal, SumFunction
  <1> HIDE DEF f
  <1> QED BY <1>1, <1>2, EwaldAssumption, SumFacts

LEMMA EwaldEnergyInt ==
  ASSUME NEW config \in Seq(ListMolecule)
  PROVE  LET e == EwaldOf(config)
         IN /\ Reciprocal(e.re, e.im) \in Int /\ e.self \in Int /\ e.exclusion \in Int
            /\ CommittedEnergy(e) \in Int
  <1> DEFINE e == EwaldOf(config)
  <1>1. e = [re |-> [t \in Terms |-> PoolSum(CosValue(t), config)],
             im |-> [t \in Terms |-> PoolSum(SinValue(t), config)],
             self |-> PoolSum(SelfValue, config),
             exclusion |-> -ExclusionOf(config)]
    BY EwaldByValue
  <1> HIDE DEF e
  <1>2. \A t \in Terms : e.re[t] \in Int /\ e.im[t] \in Int
    BY <1>1, BodiesFacts, ValueTypes
  <1>3. e.self \in Int /\ e.exclusion \in Int
    <2>1. PoolSum(SelfValue, config) \in Int /\ ExclusionOf(config) \in Int
      BY BodiesFacts, ValueTypes
    <2> QED BY <1>1, <2>1
  <1>4. Reciprocal(e.re, e.im) \in Int
    BY <1>2, ReciprocalInt
  <1>5. CommittedEnergy(e) \in Int
    BY <1>3, <1>4 DEF CommittedEnergy
  <1> QED BY <1>3, <1>4, <1>5 DEF e

(* It is the change of the energy of the cache, were the trial committed.   *)
LEMMA ProposedEnergy ==
  ASSUME NEW config \in Seq(ListMolecule), NEW next \in Seq(ListMolecule),
         NEW removed \in Seq(Site), NEW added \in Seq(Site),
         Exchanged(config, next, removed, added), ewald = EwaldOf(config)
  PROVE  Proposed(removed, added) =
           CommittedEnergy(EwaldOf(next)) - CommittedEnergy(EwaldOf(config))
  <1> DEFINE d == Delta(removed, added)
             e == EwaldOf(next)
  <1>1. e = [re |-> Sum(ewald.re, d.re), im |-> Sum(ewald.im, d.im),
             self |-> ewald.self + d.self, exclusion |-> ewald.exclusion + d.exclusion]
    BY AppliedDelta DEF Applied
  <1>2. Proposed(removed, added) =
          Reciprocal(Sum(ewald.re, d.re), Sum(ewald.im, d.im)) - Reciprocal(ewald.re, ewald.im)
            + d.self + d.exclusion
    BY DEF Proposed
  <1>3. d.self \in Int /\ d.exclusion \in Int
    <2>1. /\ d.self = SelfEnergy(added) - SelfEnergy(removed)
          /\ d.exclusion = PairExclusionSum(removed) - PairExclusionSum(added)
      BY DEF Delta
    <2>2. SelfEnergy(added) \in Int /\ SelfEnergy(removed) \in Int
      BY SelfIsSum, BodySumFacts, ValueTypes
    <2>3. PairExclusionSum(removed) \in Int /\ PairExclusionSum(added) \in Int
      BY ExclusionFacts
    <2> HIDE DEF d
    <2> QED BY <2>1, <2>2, <2>3
  <1>4. /\ Reciprocal(ewald.re, ewald.im) \in Int /\ ewald.self \in Int /\ ewald.exclusion \in Int
        /\ Reciprocal(e.re, e.im) \in Int
    BY EwaldEnergyInt
  <1> HIDE DEF d, e
  <1>5. /\ e.re = Sum(ewald.re, d.re) /\ e.im = Sum(ewald.im, d.im)
        /\ e.self = ewald.self + d.self /\ e.exclusion = ewald.exclusion + d.exclusion
    BY <1>1
  <1>6. CommittedEnergy(e) = Reciprocal(e.re, e.im) + (ewald.self + d.self)
                               + (ewald.exclusion + d.exclusion)
    BY <1>5 DEF CommittedEnergy
  <1>7. CommittedEnergy(ewald) = Reciprocal(ewald.re, ewald.im) + ewald.self + ewald.exclusion
    BY DEF CommittedEnergy
  <1>8. Proposed(removed, added) = Reciprocal(e.re, e.im) - Reciprocal(ewald.re, ewald.im)
                                     + d.self + d.exclusion
    BY <1>2, <1>5
  <1>9. Proposed(removed, added) = CommittedEnergy(e) - CommittedEnergy(ewald)
    BY <1>3, <1>4, <1>6, <1>7, <1>8, SMTT(30)
  <1> QED BY <1>9 DEF e

-----------------------------------------------------------------------------
(* What a trial sums over the pool is the energy of its body against those  *)
(* of the others.                                                           *)

LEMMA SumOfPart ==
  ASSUME NEW S, IsFiniteSet(S), NEW f, \A x \in S : f[x] \in Int,
         NEW A \in SUBSET S, \A x \in S \ A : f[x] = 0
  PROVE  SumFunctionOnSet(f, A) = SumFunctionOnSet(f, S)
  <1> DEFINE B == S \ A
  <1>1. B \in SUBSET S /\ A \cap B = {} /\ A \cup B = S /\ \A x \in B : f[x] = 0
    OBVIOUS
  <1> HIDE DEF B
  <1>2. IsFiniteSet(A) /\ IsFiniteSet(B) /\ \A x \in A : f[x] \in Int
    BY <1>1, FS_Subset
  <1>3. SumFunctionOnSet(f, S) = SumFunctionOnSet(f, A) + SumFunctionOnSet(f, B)
    BY <1>1, SumOfTwo
  <1>4. SumFunctionOnSet(f, B) = 0 /\ SumFunctionOnSet(f, A) \in Int
    BY <1>1, <1>2, SumOfZeros, SumFacts
  <1> QED BY <1>3, <1>4

(* Between attempts, what a scan around the given sites of the pool P does  *)
(* not exclude are the sites of the bodies numbered in D, where they were.  *)
SeesBodies(P, sites, ex, D) ==
  /\ P \in Seq(Site) /\ sites \in Seq(Nat) /\ D \subseteq 0..Len(molecules)
  /\ \A k \in 1..Len(sites) : sites[k] \in 1..Len(P)
  /\ \A k, l \in 1..Len(sites) : sites[k] = sites[l] => k = l
  /\ (1..Len(P)) \ (Range(sites) \cup Range(ex)) = {j \in 1..Len(particles) : Owner(j) \in D}
  /\ \A j \in 1..Len(particles) : Owner(j) \in D => P[j] = particles[j]

(* The cell list between attempts misses nobody in reach.                   *)
LEMMA CandidatesSuffice ==
  ASSUME IInv, phase = "idle", NEW a \in Site, NEW j \in 1..Len(particles),
         j \notin (1..FrameworkCount) \cup {i \in DOMAIN cells : Visits(a.pos, cells[i])}
  PROVE  PairDispersion(a, particles[j]) = 0
  <1>1. Types /\ cells = BinsOf(particles)
    <2>1. trial = NoTrial /\ Types /\ particles \in Seq(Site)
      BY DEF IInv, AttemptShape, Types
    <2>2. Appended = 0 /\ Committed = particles
      BY <2>1, NoTrialFacts DEF Appended, Committed
    <2>3. PopBack(particles, 0) = particles
      <3>1. PopBack(particles, 0) = SubSeq(particles, 1, Len(particles))
        BY <2>1 DEF PopBack
      <3> QED BY <2>1, <3>1
    <2> QED BY <2>1, <2>2, <2>3 DEF IInv, CellsFresh
  <1>2. FrameworkCount \in Nat /\ particles[j] \in Site /\ particles[j].pos \in Int /\ a.pos \in Int
    BY <1>1, TypeFacts DEF Site
  <1>3. j \in (FrameworkCount + 1)..Len(particles)
    BY <1>2
  <1>4. j \in DOMAIN cells /\ cells[j] = Bin(particles[j].pos)
    BY <1>1, <1>3 DEF BinsOf, FrameworkCount
  <1>5. ~ Visits(a.pos, Bin(particles[j].pos))
    BY <1>4
  <1>6. ~ (Distance(a.pos, particles[j].pos) <= Radius)
    BY <1>2, <1>5, InReachIsVisited
  <1> QED BY <1>2, <1>6, PairFacts

LEMMA InteractionIsAgainst ==
  ASSUME IInv, phase = "idle", NEW P, NEW sites, NEW ex, NEW D, SeesBodies(P, sites, ex, D)
  PROVE  Interaction(P, sites, ex) = Against(BodyOf(P, sites), PoolOf(Config), D)
  <1> DEFINE Rs == Range(sites)
             Out == Range(sites) \cup Range(ex)
             J == {j \in 1..Len(particles) : Owner(j) \in D}
             Near(i) == (1..FrameworkCount) \cup {j \in DOMAIN cells : Visits(P[i].pos, cells[j])}
             S == Rs \X J
             A == {p \in Rs \X (1..Len(P)) : p[2] \in Near(p[1]) \ Out}
             fd == [p \in A |-> PairDispersion(P[p[1]], P[p[2]])]
             fr == [p \in S |-> PairRealSpace(P[p[1]], P[p[2]])]
             u == [p \in S |-> PairDispersion(P[p[1]], P[p[2]])]
             v == [p \in S |-> PairValue(P[p[1]], P[p[2]])]
             c == [p \in S |-> Owner(p[2])]
             body == BodyOf(P, sites)
             g == AgainstTerms(body, PoolOf(Config), D)
  <1>1. /\ P \in Seq(Site) /\ sites \in Seq(Nat) /\ D \subseteq 0..Len(molecules)
        /\ \A k \in 1..Len(sites) : sites[k] \in 1..Len(P)
        /\ \A k, l \in 1..Len(sites) : sites[k] = sites[l] => k = l
        /\ (1..Len(P)) \ Out = J
        /\ \A j \in 1..Len(particles) : Owner(j) \in D => P[j] = particles[j]
    BY DEF SeesBodies
  <1>2. Rs = {sites[k] : k \in 1..Len(sites)} /\ Rs \subseteq 1..Len(P)
    BY <1>1 DEF Range
  <1>3. /\ Interaction(P, sites, ex) = SumFunctionOnSet(fd, A) + SumFunctionOnSet(fr, S)
    <2>1. DispersionEnergy(P, sites, ex) = SumFunctionOnSet(fd, A)
      BY DEF DispersionEnergy, SumFunction
    <2>2. Rs \X ((1..Len(P)) \ Out) = S
      BY <1>1
    <2>3. RealSpaceEnergy(P, sites, ex)
            = SumFunction([p \in Rs \X ((1..Len(P)) \ Out) |-> PairRealSpace(P[p[1]], P[p[2]])])
      BY DEF RealSpaceEnergy
    <2>4. RealSpaceEnergy(P, sites, ex) = SumFunctionOnSet(fr, S)
      BY <2>2, <2>3 DEF SumFunction
    <2> QED BY <2>1, <2>4 DEF Interaction
  <1>4. J \subseteq 1..Len(P) /\ J \subseteq 1..Len(particles) /\ J \cap Out = {}
    BY <1>1
  <1>5. A \in SUBSET S
    <2> SUFFICES ASSUME NEW p \in A PROVE p \in S
      OBVIOUS
    <2>1. p \in Rs \X (1..Len(P)) /\ p[2] \notin Out
      OBVIOUS
    <2>2. p[1] \in Rs /\ p[2] \in J /\ p = <<p[1], p[2]>>
      BY <1>1, <2>1
    <2> QED BY <2>2
  <1>6. IsFiniteSet(S)
    <2>1. IsFiniteSet(1..Len(P))
      BY <1>1, FS_Interval, Len(P) \in Int, 1 \in Int
    <2>2. IsFiniteSet(Rs) /\ IsFiniteSet(J)
      BY <1>2, <1>4, <2>1, FS_Subset
    <2> QED BY <2>2, FS_Product
  <1>7. \A p \in S : /\ p[1] \in Rs /\ p[2] \in J /\ p = <<p[1], p[2]>>
                     /\ P[p[1]] \in Site /\ P[p[2]] \in Site /\ P[p[2]] = particles[p[2]]
    <2> SUFFICES ASSUME NEW p \in S
                 PROVE /\ p[1] \in Rs /\ p[2] \in J /\ p = <<p[1], p[2]>>
                       /\ P[p[1]] \in Site /\ P[p[2]] \in Site /\ P[p[2]] = particles[p[2]]
      OBVIOUS
    <2>1. p[1] \in Rs /\ p[2] \in J /\ p = <<p[1], p[2]>>
      OBVIOUS
    <2>2. p[1] \in 1..Len(P) /\ p[2] \in 1..Len(P)
      BY <1>2, <1>4, <2>1
    <2> QED BY <1>1, <2>1, <2>2
  <1>8. \A p \in S : u[p] \in Int /\ fr[p] \in Int /\ v[p] \in Int /\ v[p] = u[p] + fr[p]
    BY <1>7, PairFacts DEF PairValue
  <1>9. \A p \in S \ A : u[p] = 0
    <2> SUFFICES ASSUME NEW p \in S, p \notin A PROVE u[p] = 0
      OBVIOUS
    <2>1. p[2] \in 1..Len(particles) /\ p[2] \notin Out /\ p \in Rs \X (1..Len(P))
      BY <1>4, <1>7
    <2>2. p[2] \notin Near(p[1])
      BY <2>1
    <2>3. PairDispersion(P[p[1]], particles[p[2]]) = 0
      BY <1>7, <2>1, <2>2, CandidatesSuffice
    <2> QED BY <1>7, <2>3
  <1>10. \A p \in A : u[p] \in Int /\ fd[p] = u[p]
    BY <1>5, <1>8
  <1>11. IsFiniteSet(A)
    BY <1>5, <1>6, FS_Subset
  <1>12. c \in [S -> D] /\ IsFiniteSet(D)
    <2>1. c \in [S -> D]
      BY <1>7
    <2>2. IsFiniteSet(0..Len(molecules))
      BY ConfigFacts, BodiesFacts
    <2> QED BY <1>1, <2>1, <2>2, FS_Subset
  <1>13. body \in Seq(Site) /\ Len(body) = Len(sites) /\ \A k \in 1..Len(sites) : body[k] = P[sites[k]]
    BY <1>1, BodyFacts
  <1>14. ASSUME NEW d \in D PROVE g[d] = SumFunctionOnSet(v, {p \in S : c[p] = d})
    <2> DEFINE other == PoolOf(Config)[d]
               U == {p \in S : c[p] = d}
               K == SitePairs(body, other)
               w == SiteTerms(body, other)
    <2>1. PICK idx : IndicesOf(d, idx)
      BY <1>1, BodyIndices
    <2>2. other \in Seq(Site)
      BY <1>1, BodyIndices
    <2>3. /\ idx \in [1..Len(other) -> {i \in 1..Len(particles) : Owner(i) = d}]
          /\ \A k, l \in 1..Len(other) : idx[k] = idx[l] => k = l
          /\ \A i \in 1..Len(particles) : Owner(i) = d => \E k \in 1..Len(other) : idx[k] = i
          /\ \A k \in 1..Len(other) : particles[idx[k]] = other[k]
      BY <2>1 DEF IndicesOf
    <2> DEFINE r == [q \in SitePairs(body, other) |-> <<sites[q[1]], idx[q[2]]>>]
    <2>4. IsFiniteSet(K) /\ \A q \in K : w[q] \in Int
      BY <1>13, <2>2, SiteTermFacts
    <2>5. g[d] = SumFunctionOnSet(w, K)
      BY DEF AgainstTerms, BodyPair
    <2>6. \A q \in K : /\ q[1] \in 1..Len(sites) /\ q[2] \in 1..Len(other) /\ q = <<q[1], q[2]>>
                       /\ r[q] = <<sites[q[1]], idx[q[2]]>>
      BY <1>13 DEF SitePairs
    <2>7. \A q \in K : r[q] \in U
      <3> SUFFICES ASSUME NEW q \in K PROVE r[q] \in U
        OBVIOUS
      <3>0. q[1] \in 1..Len(sites) /\ q[2] \in 1..Len(other)
        BY <2>6
      <3>1. sites[q[1]] \in Rs /\ idx[q[2]] \in J /\ Owner(idx[q[2]]) = d
        <4>1. sites[q[1]] \in Rs
          BY <1>2, <3>0
        <4>2. idx[q[2]] \in {i \in 1..Len(particles) : Owner(i) = d}
          <5> HIDE DEF other
          <5> QED BY <2>3, <3>0
        <4> QED BY <4>1, <4>2
      <3>2. <<sites[q[1]], idx[q[2]]>> \in S
        BY <3>1
      <3>3. c[<<sites[q[1]], idx[q[2]]>>] = d
        BY <3>1, <3>2
      <3> QED BY <2>6, <3>2, <3>3
    <2>8. r \in [K -> U]
      BY <2>7
    <2>9. \A p, q \in K : r[p] = r[q] => p = q
      <3> SUFFICES ASSUME NEW p \in K, NEW q \in K, r[p] = r[q] PROVE p = q
        OBVIOUS
      <3>1. sites[p[1]] = sites[q[1]] /\ idx[p[2]] = idx[q[2]]
        BY <2>6
      <3>2. p[1] = q[1]
        BY <1>1, <2>6, <3>1
      <3>3. p[2] = q[2]
        BY <2>3, <2>6, <3>1
      <3> QED BY <2>6, <3>2, <3>3
    <2>10. \A z \in U : \E q \in K : r[q] = z
      <3> SUFFICES ASSUME NEW z \in U PROVE \E q \in K : r[q] = z
        OBVIOUS
      <3>1. z[1] \in Rs /\ z[2] \in 1..Len(particles) /\ Owner(z[2]) = d /\ z = <<z[1], z[2]>>
        BY <1>4, <1>7
      <3>2. PICK k \in 1..Len(sites) : sites[k] = z[1]
        BY <1>2, <3>1
      <3>3. PICK l \in 1..Len(other) : idx[l] = z[2]
        BY <2>3, <3>1
      <3>4. <<k, l>> \in K
        BY <1>13 DEF SitePairs
      <3>5. r[<<k, l>>] = z
        BY <2>6, <3>1, <3>2, <3>3, <3>4
      <3> QED BY <3>4, <3>5
    <2>11. \A q \in K : v[r[q]] = w[q]
      <3> SUFFICES ASSUME NEW q \in K PROVE v[r[q]] = w[q]
        OBVIOUS
      <3>1. r[q] \in S /\ r[q][1] = sites[q[1]] /\ r[q][2] = idx[q[2]]
        BY <2>6, <2>7
      <3>2. P[sites[q[1]]] = body[q[1]] /\ P[idx[q[2]]] = other[q[2]]
        BY <1>7, <1>13, <2>3, <2>6, <3>1
      <3>3. v[r[q]] = PairValue(P[sites[q[1]]], P[idx[q[2]]])
        BY <3>1
      <3> QED BY <3>2, <3>3 DEF SiteTerms
    <2> HIDE DEF other, U, K, w, r, v, g, S, c
    <2>12. SumFunctionOnSet(v, U) = SumFunctionOnSet(w, K)
      BY <2>4, <2>8, <2>9, <2>10, <2>11, SumRenamed
    <2> QED BY <2>5, <2>12 DEF U
  <1>15. Against(body, PoolOf(Config), D) = SumFunctionOnSet(g, D)
    BY DEF Against
  <1> HIDE DEF A, S, J, Rs, Out, Near, fd, fr, u, v, c, g, body
  <1>16. SumFunctionOnSet(fd, A) = SumFunctionOnSet(u, A)
    BY <1>10, <1>11, SumSame
  <1>17. SumFunctionOnSet(u, A) = SumFunctionOnSet(u, S)
    BY <1>5, <1>6, <1>8, <1>9, SumOfPart
  <1>18. SumFunctionOnSet(v, S) = SumFunctionOnSet(u, S) + SumFunctionOnSet(fr, S)
    BY <1>6, <1>8, SumPlus
  <1>19. SumsOfClasses(g, v, S, c, D)
    BY <1>14 DEF SumsOfClasses
  <1>20. SumFunctionOnSet(v, S) = SumFunctionOnSet(g, D)
    BY <1>6, <1>8, <1>12, <1>19, SumByClass
  <1>21. Interaction(P, sites, ex) = Against(body, PoolOf(Config), D)
    BY <1>3, <1>15, <1>16, <1>17, <1>18, <1>20
  <1> QED BY <1>21 DEF body

-----------------------------------------------------------------------------
(* The energy every trial is charged with. *)

LEMMA ListRange ==
  /\ \A s \in Seq(Nat) : Range(s) = {s[k] : k \in 1..Len(s)}
  /\ << >> \in Seq(Nat) /\ Range(<< >>) = {}
  <1>1. \A s \in Seq(Nat) : Range(s) = {s[k] : k \in 1..Len(s)}
    BY DEF Range
  <1>2. << >> \in Seq(Nat) /\ 1..Len(<< >>) = {}
    BY EmptySeq
  <1> QED BY <1>1, <1>2

(* Between attempts a molecule's list has just the particles it owns.       *)
LEMMA OwnedRange ==
  ASSUME IInv, phase = "idle", NEW m \in 1..Len(molecules)
  PROVE  /\ Range(molecules[m].sites) = {j \in 1..Len(particles) : Owner(j) = m}
         /\ molecules[m].sites \in Seq(Nat)
         /\ \A k \in 1..Len(molecules[m].sites) : molecules[m].sites[k] \in 1..Len(particles)
         /\ \A k, l \in 1..Len(molecules[m].sites) :
              molecules[m].sites[k] = molecules[m].sites[l] => k = l
         /\ Config[m].sites = BodyOf(particles, molecules[m].sites)
         /\ Config[m].sites \in Seq(Site) /\ m \in 1..Len(Config) /\ Config \in Seq(ListMolecule)
         /\ molecules[m].species \in Species
  <1>1. Types /\ GuestsOwnedOnce /\ m # 0 /\ Len(molecules) \in Nat
    BY TypeFacts DEF IInv
  <1>2. molecules[m].sites \in Seq(Nat) /\ molecules[m].species \in Species
    BY <1>1, TypeFacts
  <1>3. Range(molecules[m].sites) = {molecules[m].sites[k] : k \in 1..Len(molecules[m].sites)}
    BY <1>2, ListRange
  <1>4. \A j \in 1..Len(particles) :
          Owner(j) = m => \E k \in 1..Len(molecules[m].sites) : molecules[m].sites[k] = j
    BY <1>1, PoolOwners
  <1>5. \A k \in 1..Len(molecules[m].sites) :
          molecules[m].sites[k] \in 1..Len(particles) /\ Owner(molecules[m].sites[k]) = m
    BY PoolOwners
  <1>6. Range(molecules[m].sites) = {j \in 1..Len(particles) : Owner(j) = m}
    BY <1>3, <1>4, <1>5
  <1>7. \A k, l \in 1..Len(molecules[m].sites) :
          molecules[m].sites[k] = molecules[m].sites[l] => k = l
    BY <1>1, DistinctSites
  <1>8. Committed = particles
    BY NoTrialFacts DEF IInv, AttemptShape, Committed
  <1>9. /\ Config[m].sites = BodyOf(particles, molecules[m].sites)
        /\ Config[m].sites \in Seq(Site) /\ m \in 1..Len(Config) /\ Config \in Seq(ListMolecule)
    BY <1>8, ConfigFacts
  <1> QED BY <1>2, <1>5, <1>6, <1>7, <1>9

(* A molecule in the pool, where it is or moved, sees all bodies but its    *)
(* own.                                                                     *)
LEMMA MoleculeSees ==
  ASSUME IInv, phase = "idle", NEW m \in 1..Len(molecules), NEW P \in Seq(Site),
         Len(P) = Len(particles),
         \A j \in 1..Len(particles) : Owner(j) # m => P[j] = particles[j]
  PROVE  SeesBodies(P, molecules[m].sites, << >>, Others(Config, m))
  <1>1. Len(Config) = Len(molecules)
    BY ConfigFacts
  <1>2. \A j \in 1..Len(particles) : Owner(j) \in 0..Len(molecules)
    BY PoolOwners
  <1>3. Others(Config, m) = (0..Len(molecules)) \ {m}
    BY <1>1 DEF Others
  <1>4. (1..Len(P)) \ (Range(molecules[m].sites) \cup Range(<< >>))
          = {j \in 1..Len(particles) : Owner(j) \in Others(Config, m)}
    <2>1. Range(molecules[m].sites) \cup Range(<< >>) = {j \in 1..Len(particles) : Owner(j) = m}
      BY OwnedRange, ListRange
    <2> QED BY <1>2, <1>3, <2>1
  <1>5. \A j \in 1..Len(particles) : Owner(j) \in Others(Config, m) => P[j] = particles[j]
    BY <1>3
  <1>6. /\ molecules[m].sites \in Seq(Nat)
        /\ \A k \in 1..Len(molecules[m].sites) : molecules[m].sites[k] \in 1..Len(P)
        /\ \A k, l \in 1..Len(molecules[m].sites) :
             molecules[m].sites[k] = molecules[m].sites[l] => k = l
    BY OwnedRange
  <1>7. Others(Config, m) \subseteq 0..Len(molecules)
    BY <1>3
  <1> QED BY <1>4, <1>5, <1>6, <1>7 DEF SeesBodies

(* An appended body sees all the bodies but the one it replaces.            *)
LEMMA AppendedSees ==
  ASSUME IInv, phase = "idle", NEW move, NEW m, NEW sp \in Species, NEW ref \in Int,
         NEW o \in Orientations(sp), StartAppending(move, m, sp, ref, o)
  PROVE  /\ SeesBodies(particles', trial'.sites, << >>, 0..Len(Config))
         /\ m \in 1..Len(molecules) =>
              SeesBodies(particles', trial'.sites, molecules[m].sites, Others(Config, m))
         /\ BodyOf(particles', trial'.sites) \in Seq(Site)
         /\ [species |-> sp, sites |-> BodyOf(particles', trial'.sites)] \in ListMolecule
         /\ trial'.move = move /\ trial'.mol = m /\ trial'.species = sp
  <1>1. Types /\ Len(particles) \in Nat /\ Len(Config) = Len(molecules)
    BY TypeFacts, ConfigFacts DEF IInv
  <1>2. /\ NumSites(sp) \in Nat \ {0}
        /\ particles' \in Seq(Site) /\ Len(particles') = Len(particles) + NumSites(sp)
        /\ \A i \in 1..Len(particles) : particles'[i] = particles[i]
        /\ trial'.sites \in Seq(Nat) /\ Len(trial'.sites) = NumSites(sp)
        /\ \A k \in 1..NumSites(sp) : trial'.sites[k] = Len(particles) + k
        /\ trial'.move = move /\ trial'.mol = m /\ trial'.species = sp
    BY <1>1, AppendingFacts
  <1>3. PICK n, new, s, P : /\ n = Len(particles) /\ new = trial'.sites /\ s = NumSites(sp)
                            /\ P = particles'
    OBVIOUS
  <1>4. /\ n \in Nat /\ s \in Nat /\ P \in Seq(Site) /\ Len(P) = n + s
        /\ new \in Seq(Nat) /\ Len(new) = s /\ \A k \in 1..s : new[k] = n + k
        /\ \A i \in 1..n : P[i] = particles[i]
    BY <1>1, <1>2, <1>3
  <1>5. /\ \A k \in 1..Len(new) : new[k] \in 1..Len(P)
        /\ \A k, l \in 1..Len(new) : new[k] = new[l] => k = l
    BY <1>4
  <1>6. (1..Len(P)) \ Range(new) = 1..n
    <2>1. Range(new) = {new[k] : k \in 1..s}
      BY <1>4, ListRange
    <2>2. \A j \in 1..(n + s) : j \in 1..n \/ (j - n \in 1..s /\ n + (j - n) = j)
      BY <1>4
    <2>3. \A k \in 1..s : n + k \notin 1..n
      BY <1>4
    <2>4. \A j \in 1..(n + s) : j \notin 1..n => \E k \in 1..s : new[k] = j
      <3> TAKE j \in 1..(n + s)
      <3> HAVE j \notin 1..n
      <3>1. j - n \in 1..s /\ n + (j - n) = j
        BY <2>2
      <3>2. new[j - n] = n + (j - n)
        BY <1>4, <3>1
      <3> QED BY <3>1, <3>2
    <2>5. 1..n \subseteq 1..(n + s)
      BY <1>4
    <2>6. Len(P) = n + s
      BY <1>4
    <2>7. \A j \in 1..(n + s) : j \in Range(new) <=> \E k \in 1..s : new[k] = j
      BY <2>1
    <2>8. \A j \in 1..(n + s) : j \in 1..n => ~ \E k \in 1..s : new[k] = j
      BY <1>4, <2>3
    <2>9. \A j \in 1..(n + s) : j \notin Range(new) <=> j \in 1..n
      BY <2>4, <2>7, <2>8
    <2> QED BY <2>5, <2>6, <2>9
  <1>7. \A j \in 1..n : Owner(j) \in 0..Len(molecules)
    BY <1>3, PoolOwners
  <1>8. SeesBodies(P, new, << >>, 0..Len(Config))
    <2>1. (1..Len(P)) \ (Range(new) \cup Range(<< >>)) = 1..n
      BY <1>6, ListRange
    <2>2. 1..n = {j \in 1..Len(particles) : Owner(j) \in 0..Len(Config)}
      BY <1>1, <1>3, <1>7
    <2>3. \A j \in 1..Len(particles) : P[j] = particles[j]
      BY <1>3, <1>4
    <2> QED BY <1>1, <1>4, <1>5, <2>1, <2>2, <2>3 DEF SeesBodies
  <1>9. ASSUME m \in 1..Len(molecules)
        PROVE  SeesBodies(P, new, molecules[m].sites, Others(Config, m))
    <2>1. Range(molecules[m].sites) = {j \in 1..n : Owner(j) = m}
      BY <1>3, <1>9, OwnedRange
    <2>2. (1..Len(P)) \ (Range(new) \cup Range(molecules[m].sites))
            = (1..n) \ Range(molecules[m].sites)
      BY <1>6
    <2>3. Others(Config, m) = (0..Len(molecules)) \ {m}
      BY <1>1 DEF Others
    <2>4. (1..n) \ Range(molecules[m].sites)
            = {j \in 1..Len(particles) : Owner(j) \in Others(Config, m)}
      BY <1>3, <1>7, <2>1, <2>3
    <2>5. \A j \in 1..Len(particles) : P[j] = particles[j]
      BY <1>3, <1>4
    <2>6. Others(Config, m) \subseteq 0..Len(molecules)
      BY <2>3
    <2> QED BY <1>4, <1>5, <2>2, <2>4, <2>5, <2>6 DEF SeesBodies
  <1>10. BodyOf(P, new) \in Seq(Site)
    BY <1>4, <1>5, BodyFacts
  <1>11. [species |-> sp, sites |-> BodyOf(P, new)] \in ListMolecule
    BY <1>10 DEF ListMolecule
  <1> QED BY <1>2, <1>3, <1>8, <1>9, <1>10, <1>11

GrossEnergy(config) == PairsIn(config) + CommittedEnergy(EwaldOf(config))

(* The list as it will be, should the running trial be accepted.            *)
TrialEntry == [species |-> trial.species, sites |-> BodyOf(particles, trial.sites)]
Proposal ==
  IF trial.move = "insert" THEN Append(Config, TrialEntry)
  ELSE IF trial.move = "delete" THEN EraseAt(Config, trial.mol)
  ELSE [Config EXCEPT ![trial.mol] = TrialEntry]

LEMMA GrossEnergyInt ==
  ASSUME NEW config \in Seq(ListMolecule)
  PROVE  /\ GrossEnergy(config) \in Int /\ PairsIn(config) \in Int
         /\ CommittedEnergy(EwaldOf(config)) \in Int
  BY PoolIsBodied, EwaldEnergyInt DEF GrossEnergy

(* The pairs and the cache together make the change.                        *)
LEMMA EnergyChange ==
  ASSUME NEW config \in Seq(ListMolecule), NEW next \in Seq(ListMolecule), NEW x \in Int,
         PairsIn(next) = PairsIn(config) + x
  PROVE  x + (CommittedEnergy(EwaldOf(next)) - CommittedEnergy(EwaldOf(config)))
           = GrossEnergy(next) - GrossEnergy(config)
  <1>1. PICK p, q, c, d \in Int :
          /\ p = PairsIn(config) /\ q = PairsIn(next)
          /\ c = CommittedEnergy(EwaldOf(config)) /\ d = CommittedEnergy(EwaldOf(next))
    BY GrossEnergyInt
  <1>2. GrossEnergy(config) = p + c /\ GrossEnergy(next) = q + d /\ q = p + x
    BY <1>1 DEF GrossEnergy
  <1>3. x + (d - c) = (q + d) - (p + c)
    BY <1>2
  <1> QED BY <1>1, <1>2, <1>3

LEMMA DisplacementCharged ==
  ASSUME IInv, IInv', CacheMatchesMolecules, ProposeDisplacement
  PROVE  deltaU' = GrossEnergy(Proposal') - GrossEnergy(Config)
  <1>1. Types /\ GuestsOwnedOnce /\ (StartTranslation \/ StartRotation)
    BY DEF IInv, ProposeDisplacement
  <1>0. PICK m \in 1..Len(molecules), moved \in Seq(Int), original \in Seq(Int) :
          /\ StartDisplacement(m, moved) /\ Len(moved) = Len(molecules[m].sites)
          /\ trial' = [move |-> "displace", mol |-> m, species |-> molecules[m].species,
                       sites |-> molecules[m].sites, original |-> original]
    BY <1>1, DisplacementFacts
  <1>2. /\ StartDisplacement(m, moved) /\ Len(moved) = Len(molecules[m].sites)
        /\ trial'.move = "displace" /\ trial'.mol = m /\ trial'.species = molecules[m].species
        /\ trial'.sites = molecules[m].sites
    BY <1>0
  <1>3. PICK sites, P, old, new, entry :
          /\ sites = molecules[m].sites /\ P = particles'
          /\ old = BodyOf(particles, sites) /\ new = BodyOf(P, sites)
          /\ entry = [species |-> molecules[m].species, sites |-> new]
    OBVIOUS
  <1>4. phase = "idle" /\ P = Reposition(particles, sites, moved)
    BY <1>2, <1>3 DEF StartDisplacement
  <1>5. /\ Config \in Seq(ListMolecule) /\ m \in 1..Len(Config) /\ Config[m].sites = old
        /\ sites \in Seq(Nat) /\ old \in Seq(Site) /\ molecules[m].species \in Species
        /\ \A k \in 1..Len(sites) : sites[k] \in 1..Len(particles)
        /\ Range(sites) = {j \in 1..Len(particles) : Owner(j) = m}
    BY <1>3, <1>4, OwnedRange
  <1>6. /\ P \in Seq(Site) /\ Len(P) = Len(particles)
        /\ \A j \in 1..Len(particles) : Owner(j) # m => P[j] = particles[j]
    <2>1. particles \in Seq(Site) /\ Len(moved) = Len(sites)
      BY <1>1, <1>2, <1>3 DEF Types
    <2>2. /\ P \in Seq(Site) /\ Len(P) = Len(particles)
          /\ \A i \in 1..Len(particles) :
               (\A k \in 1..Len(sites) : sites[k] # i) => P[i] = particles[i]
      BY <1>4, <1>5, <2>1, RepositionFacts
    <2>3. \A j \in 1..Len(particles) : Owner(j) # m => \A k \in 1..Len(sites) : sites[k] # j
      BY <1>5, ListRange
    <2> QED BY <2>2, <2>3
  <1>7. particles \in Seq(Site) /\ Len(particles) = Len(particles)
    BY <1>1 DEF Types
  <1>8. /\ SeesBodies(P, sites, << >>, Others(Config, m))
        /\ SeesBodies(particles, sites, << >>, Others(Config, m))
    BY <1>3, <1>4, <1>6, <1>7, MoleculeSees
  <1>9. new \in Seq(Site) /\ entry \in ListMolecule /\ entry.sites = new
    <2>1. new \in Seq(Site)
      BY <1>3, <1>5, <1>6, BodyFacts
    <2> QED BY <1>3, <1>5, <2>1 DEF ListMolecule
  <1>10. /\ Interaction(P, sites, << >>) = Against(new, PoolOf(Config), Others(Config, m))
         /\ Interaction(particles, sites, << >>) = Against(old, PoolOf(Config), Others(Config, m))
    BY <1>3, <1>4, <1>8, InteractionIsAgainst
  <1>11. deltaU' = Against(new, PoolOf(Config), Others(Config, m))
                     - Against(old, PoolOf(Config), Others(Config, m)) + Proposed(old, new)
    BY <1>2, <1>3, <1>10 DEF ProposeDisplacement
  <1>12. PICK next : next = [Config EXCEPT ![m] = entry]
    OBVIOUS
  <1>13. /\ next \in Seq(ListMolecule) /\ Exchanged(Config, next, old, new)
         /\ PairsIn(next) = PairsIn(Config) + (Against(new, PoolOf(Config), Others(Config, m))
                                                 - Against(old, PoolOf(Config), Others(Config, m)))
    BY <1>5, <1>9, <1>12, ReplacedEntry, ReplacedPairs
  <1>14. Proposed(old, new) = CommittedEnergy(EwaldOf(next)) - CommittedEnergy(EwaldOf(Config))
    BY <1>5, <1>9, <1>13, ProposedEnergy DEF CacheMatchesMolecules
  <1>15. Proposal' = next
    <2>1. Config' = Config
      BY <1>1, OthersStutter
    <2>2. TrialEntry' = entry
      BY <1>2, <1>3 DEF TrialEntry
    <2> QED BY <1>2, <1>12, <2>1, <2>2 DEF Proposal
  <1>16. /\ Against(new, PoolOf(Config), Others(Config, m)) \in Int
         /\ Against(old, PoolOf(Config), Others(Config, m)) \in Int
    BY <1>5, <1>9, EntrySplit
  <1>17. deltaU' = GrossEnergy(next) - GrossEnergy(Config)
    <2>1. PICK x \in Int : x = Against(new, PoolOf(Config), Others(Config, m))
                                  - Against(old, PoolOf(Config), Others(Config, m))
      BY <1>16
    <2>2. x + (CommittedEnergy(EwaldOf(next)) - CommittedEnergy(EwaldOf(Config)))
            = GrossEnergy(next) - GrossEnergy(Config)
      BY <1>5, <1>13, <2>1, EnergyChange
    <2> QED BY <1>11, <1>14, <2>1, <2>2
  <1> QED BY <1>15, <1>17

LEMMA InsertionCharged ==
  ASSUME IInv, IInv', CacheMatchesMolecules, ProposeInsertion
  PROVE  deltaU' = GrossEnergy(Proposal') - GrossEnergy(Config)
  <1>1. PICK sp \in Species, ref \in 0..(L - 1) : \E o \in Orientations(sp) :
          StartAppending("insert", 0, sp, ref, o)
    BY DEF ProposeInsertion, StartInsertion
  <1>2. PICK o \in Orientations(sp) : StartAppending("insert", 0, sp, ref, o)
    BY <1>1
  <1>3. phase = "idle" /\ ref \in Int
    BY <1>2, ReferenceFacts DEF StartAppending
  <1>4. PICK sites, P, new, entry :
          /\ sites = trial'.sites /\ P = particles' /\ new = BodyOf(P, sites)
          /\ entry = [species |-> sp, sites |-> new]
    OBVIOUS
  <1>5. /\ SeesBodies(P, sites, << >>, 0..Len(Config))
        /\ new \in Seq(Site) /\ entry \in ListMolecule /\ entry.sites = new
        /\ trial'.move = "insert" /\ trial'.species = sp
    BY <1>2, <1>3, <1>4, AppendedSees
  <1>6. Interaction(P, sites, << >>) = Against(new, PoolOf(Config), 0..Len(Config))
    BY <1>3, <1>4, <1>5, InteractionIsAgainst
  <1>7. deltaU' = Against(new, PoolOf(Config), 0..Len(Config)) + Proposed(<< >>, new)
    BY <1>4, <1>6 DEF ProposeInsertion
  <1>8. Config \in Seq(ListMolecule)
    BY ConfigFacts
  <1>9. PICK next : next = Append(Config, entry)
    OBVIOUS
  <1>10. /\ next \in Seq(ListMolecule) /\ Exchanged(Config, next, << >>, new)
         /\ PairsIn(next) = PairsIn(Config) + Against(new, PoolOf(Config), 0..Len(Config))
    BY <1>5, <1>8, <1>9, AppendedEntry, AppendedPairs
  <1>11. Proposed(<< >>, new) = CommittedEnergy(EwaldOf(next)) - CommittedEnergy(EwaldOf(Config))
    <2>1. << >> \in Seq(Site)
      OBVIOUS
    <2> QED BY <1>5, <1>8, <1>10, <2>1, ProposedEnergy DEF CacheMatchesMolecules
  <1>12. Proposal' = next
    <2>1. Config' = Config
      BY OthersStutter DEF ProposeInsertion
    <2>2. TrialEntry' = entry
      BY <1>4, <1>5 DEF TrialEntry
    <2> QED BY <1>5, <1>9, <2>1, <2>2 DEF Proposal
  <1>13. Against(new, PoolOf(Config), 0..Len(Config)) \in Int
    BY <1>5, <1>8, PoolIsBodied, BetweenFacts
  <1>14. deltaU' = GrossEnergy(next) - GrossEnergy(Config)
    <2>1. PICK x \in Int : x = Against(new, PoolOf(Config), 0..Len(Config))
      BY <1>13
    <2>2. x + (CommittedEnergy(EwaldOf(next)) - CommittedEnergy(EwaldOf(Config)))
            = GrossEnergy(next) - GrossEnergy(Config)
      BY <1>8, <1>10, <2>1, EnergyChange
    <2> QED BY <1>7, <1>11, <2>1, <2>2
  <1> QED BY <1>12, <1>14

LEMMA DeletionCharged ==
  ASSUME IInv, IInv', CacheMatchesMolecules, ProposeDeletion
  PROVE  deltaU' = GrossEnergy(Proposal') - GrossEnergy(Config)
  <1>1. Types /\ phase = "idle"
    BY DEF IInv, ProposeDeletion, StartDeletion
  <1>2. PICK m \in 1..Len(molecules) :
          trial' = [move |-> "delete", mol |-> m, species |-> molecules[m].species,
                    sites |-> molecules[m].sites, original |-> << >>]
    BY <1>1, TypeFacts DEF ProposeDeletion, StartDeletion
  <1>3. trial'.move = "delete" /\ trial'.mol = m /\ trial'.sites = molecules[m].sites
    BY <1>2
  <1>4. PICK sites, old : sites = molecules[m].sites /\ old = BodyOf(particles, sites)
    OBVIOUS
  <1>5. /\ Config \in Seq(ListMolecule) /\ m \in 1..Len(Config) /\ Config[m].sites = old
        /\ old \in Seq(Site)
    BY <1>1, <1>4, OwnedRange
  <1>6. particles \in Seq(Site) /\ Len(particles) = Len(particles)
    BY <1>1 DEF Types
  <1>7. SeesBodies(particles, sites, << >>, Others(Config, m))
    BY <1>1, <1>4, <1>6, MoleculeSees
  <1>8. Interaction(particles, sites, << >>) = Against(old, PoolOf(Config), Others(Config, m))
    BY <1>1, <1>4, <1>7, InteractionIsAgainst
  <1>9. deltaU' = Proposed(old, << >>) - Against(old, PoolOf(Config), Others(Config, m))
    BY <1>3, <1>4, <1>8 DEF ProposeDeletion
  <1>10. PICK next : next = EraseAt(Config, m)
    OBVIOUS
  <1>11. /\ next \in Seq(ListMolecule) /\ Exchanged(Config, next, old, << >>)
         /\ PairsIn(next) = PairsIn(Config) - Against(old, PoolOf(Config), Others(Config, m))
    BY <1>5, <1>10, ErasedEntry, ErasedPairs
  <1>12. Proposed(old, << >>) = CommittedEnergy(EwaldOf(next)) - CommittedEnergy(EwaldOf(Config))
    <2>1. << >> \in Seq(Site)
      OBVIOUS
    <2> QED BY <1>5, <1>11, <2>1, ProposedEnergy DEF CacheMatchesMolecules
  <1>13. Proposal' = next
    <2>1. Config' = Config
      BY OthersStutter DEF ProposeDeletion
    <2> QED BY <1>3, <1>10, <2>1 DEF Proposal
  <1>14. deltaU' = GrossEnergy(next) - GrossEnergy(Config)
    <2>1. PICK a \in Int : a = Against(old, PoolOf(Config), Others(Config, m))
      BY <1>5, EntrySplit
    <2>2. PICK x \in Int : x = -a
      BY <2>1
    <2>3. PairsIn(next) = PairsIn(Config) + x
      BY <1>5, <1>11, <2>1, <2>2, GrossEnergyInt
    <2>4. x + (CommittedEnergy(EwaldOf(next)) - CommittedEnergy(EwaldOf(Config)))
            = GrossEnergy(next) - GrossEnergy(Config)
      BY <1>5, <1>11, <2>3, EnergyChange
    <2>5. PICK c \in Int : c = CommittedEnergy(EwaldOf(next)) - CommittedEnergy(EwaldOf(Config))
      BY <1>5, <1>11, GrossEnergyInt
    <2>6. deltaU' = c - a /\ x + c = c - a
      BY <1>9, <1>12, <2>1, <2>2, <2>5
    <2> QED BY <2>4, <2>5, <2>6
  <1> QED BY <1>13, <1>14

LEMMA SwapCharged ==
  ASSUME IInv, IInv', CacheMatchesMolecules, ProposeSwap
  PROVE  deltaU' = GrossEnergy(Proposal') - GrossEnergy(Config)
  <1>0. PICK m \in DOMAIN molecules, c \in Positions :
          \E sp \in Species \ {molecules[m].species} : \E o \in Orientations(sp) :
            StartAppending("swap", m, sp, c, o)
    BY DEF ProposeSwap, StartSwap
  <1>1. PICK sp \in Species : \E o \in Orientations(sp) : StartAppending("swap", m, sp, c, o)
    BY <1>0
  <1>2. PICK o \in Orientations(sp) : StartAppending("swap", m, sp, c, o)
    BY <1>1
  <1>3. /\ Types /\ phase = "idle" /\ m \in 1..Len(molecules) /\ sp \in Species /\ c \in Int
    BY <1>2, TypeFacts, ReferenceFacts DEF IInv, StartAppending
  <1>4. PICK sites, ex, P, new, old, entry :
          /\ sites = trial'.sites /\ ex = molecules[m].sites /\ P = particles'
          /\ new = BodyOf(P, sites) /\ old = BodyOf(particles, ex)
          /\ entry = [species |-> sp, sites |-> new]
    OBVIOUS
  <1>5. /\ SeesBodies(P, sites, ex, Others(Config, m))
        /\ new \in Seq(Site) /\ entry \in ListMolecule /\ entry.sites = new
        /\ trial'.move = "swap" /\ trial'.mol = m /\ trial'.species = sp
    BY <1>2, <1>3, <1>4, AppendedSees
  <1>6. /\ Config \in Seq(ListMolecule) /\ m \in 1..Len(Config) /\ Config[m].sites = old
        /\ old \in Seq(Site)
    BY <1>3, <1>4, OwnedRange
  <1>7. particles \in Seq(Site) /\ Len(particles) = Len(particles)
    BY <1>3 DEF Types
  <1>8. SeesBodies(particles, ex, << >>, Others(Config, m))
    BY <1>3, <1>4, <1>7, MoleculeSees
  <1>9. /\ Interaction(P, sites, ex) = Against(new, PoolOf(Config), Others(Config, m))
        /\ Interaction(particles, ex, << >>) = Against(old, PoolOf(Config), Others(Config, m))
    BY <1>3, <1>4, <1>5, <1>8, InteractionIsAgainst
  <1>10. deltaU' = Against(new, PoolOf(Config), Others(Config, m))
                     - Against(old, PoolOf(Config), Others(Config, m)) + Proposed(old, new)
    <2>1. molecules[trial'.mol].sites = ex
      BY <1>4, <1>5
    <2>2. deltaU' = Interaction(P, sites, ex) - Interaction(particles, ex, << >>)
                      + Proposed(old, new)
      BY <1>4, <2>1 DEF ProposeSwap
    <2> QED BY <1>9, <2>2
  <1>11. PICK next : next = [Config EXCEPT ![m] = entry]
    OBVIOUS
  <1>12. /\ next \in Seq(ListMolecule) /\ Exchanged(Config, next, old, new)
         /\ PairsIn(next) = PairsIn(Config) + (Against(new, PoolOf(Config), Others(Config, m))
                                                 - Against(old, PoolOf(Config), Others(Config, m)))
    BY <1>5, <1>6, <1>11, ReplacedEntry, ReplacedPairs
  <1>13. Proposed(old, new) = CommittedEnergy(EwaldOf(next)) - CommittedEnergy(EwaldOf(Config))
    BY <1>5, <1>6, <1>12, ProposedEnergy DEF CacheMatchesMolecules
  <1>14. Proposal' = next
    <2>1. Config' = Config
      BY OthersStutter DEF ProposeSwap
    <2>2. TrialEntry' = entry
      BY <1>4, <1>5 DEF TrialEntry
    <2> QED BY <1>5, <1>11, <2>1, <2>2 DEF Proposal
  <1>15. /\ Against(new, PoolOf(Config), Others(Config, m)) \in Int
         /\ Against(old, PoolOf(Config), Others(Config, m)) \in Int
    BY <1>5, <1>6, EntrySplit
  <1>16. deltaU' = GrossEnergy(next) - GrossEnergy(Config)
    <2>1. PICK x \in Int : x = Against(new, PoolOf(Config), Others(Config, m))
                                  - Against(old, PoolOf(Config), Others(Config, m))
      BY <1>15
    <2>2. x + (CommittedEnergy(EwaldOf(next)) - CommittedEnergy(EwaldOf(Config)))
            = GrossEnergy(next) - GrossEnergy(Config)
      BY <1>6, <1>12, <2>1, EnergyChange
    <2> QED BY <1>10, <1>13, <2>1, <2>2
  <1> QED BY <1>14, <1>16

-----------------------------------------------------------------------------
(* The pairs of sites, counted one by one as the property does. *)

(* Every body has room for its sites' numbers.                              *)
Fits(config) ==
  /\ config \in Seq(ListMolecule)
  /\ Len(particles) \in Nat
  /\ \A b \in 0..Len(config) : Len(PoolOf(config)[b]) <= Len(particles)

LEMMA EveryBodyFits ==
  ASSUME IInv
  PROVE  Fits(Config) /\ Fits(<< >>)
  <1>1. Types /\ GuestsOwnedOnce /\ Len(particles) \in Nat /\ Len(molecules) \in Nat
    BY TypeFacts DEF IInv
  <1>2. Len(Framework) <= Len(particles)
    BY DEF IInv, FrameworkFixed, FrameworkCount
  <1>3. ASSUME NEW m \in 1..Len(molecules) PROVE Len(molecules[m].sites) <= Len(particles)
    <2>1. PICK n \in Nat, k \in Nat, s \in Seq(Nat) :
            n = Len(particles) /\ k = Len(s) /\ s = molecules[m].sites
      BY <1>1, TypeFacts
    <2>2. /\ \A x \in 1..k : s[x] \in 1..n
          /\ \A x, y \in 1..k : s[x] = s[y] => x = y
      BY <1>1, <2>1, MemberFacts, DistinctSites
    <2>3. /\ IsFiniteSet(1..k) /\ Cardinality(1..k) = k
          /\ IsFiniteSet(1..n) /\ Cardinality(1..n) = n
      <3>1. \A a, b \in Int : /\ IsFiniteSet(a..b)
                              /\ Cardinality(a..b) = IF a > b THEN 0 ELSE b - a + 1
        BY FS_Interval
      <3>2. n \in Int /\ k \in Int /\ 1 \in Int
        OBVIOUS
      <3>3. Cardinality(1..k) = IF 1 > k THEN 0 ELSE k - 1 + 1
        BY <3>1, <3>2
      <3>4. Cardinality(1..n) = IF 1 > n THEN 0 ELSE n - 1 + 1
        BY <3>1, <3>2
      <3> QED BY <3>1, <3>2, <3>3, <3>4
    <2>4. PICK S, T, f : S = 1..k /\ T = 1..n /\ f = [x \in 1..k |-> s[x]]
      OBVIOUS
    <2>5. ASSUME n < k PROVE FALSE
      <3>1. /\ IsFiniteSet(S) /\ IsFiniteSet(T) /\ Cardinality(T) < Cardinality(S)
            /\ f \in [S -> T] /\ \A x \in S : f[x] = s[x]
        BY <2>2, <2>3, <2>4, <2>5
      <3>2. \E x, y \in S : x # y /\ f[x] = f[y]
        BY <3>1, FS_PigeonHole
      <3>3. \A x, y \in S : f[x] = f[y] => x = y
        BY <2>2, <2>4, <3>1
      <3> QED BY <3>2, <3>3
    <2>6. k <= n
      BY <2>1, <2>5
    <2> QED BY <2>1, <2>6
  <1>4. ASSUME NEW b \in 0..Len(Config) PROVE Len(PoolOf(Config)[b]) <= Len(particles)
    <2>1. CASE b = 0
      BY <1>2, <2>1, ConfigFacts, PoolOfFacts
    <2>2. CASE b # 0
      <3>1. b \in 1..Len(molecules) /\ b \in 1..Len(Config)
        BY <2>2, ConfigFacts
      <3>2. PoolOf(Config)[b] = Config[b].sites
        BY <3>1, ConfigFacts, PoolOfFacts
      <3>3. Len(Config[b].sites) = Len(molecules[b].sites)
        BY <3>1, ConfigFacts
      <3> QED BY <1>3, <3>1, <3>2, <3>3
    <2> QED BY <2>1, <2>2
  <1>5. Fits(Config)
    BY <1>1, <1>4, ConfigFacts DEF Fits
  <1>6. Fits(<< >>)
    <2>1. << >> \in Seq(ListMolecule) /\ Len(<< >>) = 0 /\ 0..0 = {0}
      BY EmptySeq
    <2>2. PoolOf(<< >>)[0] = Framework
      BY <2>1, PoolOfFacts
    <2> QED BY <1>1, <1>2, <2>1, <2>2 DEF Fits
  <1> QED BY <1>5, <1>6

(* The pairs of sites of two bodies of the list, numbered as in SitesOf.    *)
Numbered(x, y, d) == [q \in SitePairs(x, y) |-> << <<d[1], q[1]>>, <<d[2], q[2]>> >>]

LEMMA PairsAreThose ==
  ASSUME NEW config, Fits(config)
  PROVE  PairEnergy(config) = PairsIn(config)
  <1> DEFINE n == Len(config)
             D == 0..n
             K == Len(particles)
             pool == PoolOf(config)
             Sites == SitesOf(config)
             S == {q \in Sites \X Sites : q[1][1] < q[2][1]}
             T == IndexPairs(D)
             f == [p \in S |-> PairDispersion(SiteAt(config, p[1]), SiteAt(config, p[2]))
                                 + PairRealSpace(SiteAt(config, p[1]), SiteAt(config, p[2]))]
             c == [p \in S |-> <<p[1][1], p[2][1]>>]
             g == BetweenTerms(pool, D)
  <1>1. /\ config \in Seq(ListMolecule) /\ n \in Nat /\ K \in Nat
        /\ \A b \in D : pool[b] \in Seq(Site) /\ Len(pool[b]) \in Nat /\ Len(pool[b]) <= K
    BY PoolOfFacts DEF Fits
  <1>2. Bodied(pool, D) /\ IsFiniteSet(D) /\ IsFiniteSet(1..K)
    BY <1>1, PoolIsBodied, FS_Interval, K \in Int, 1 \in Int DEF Bodied
  <1>3. Sites = {s \in D \X (1..K) : s[2] <= Len(pool[s[1]])}
    BY DEF SitesOf
  <1>4. IsFiniteSet(Sites)
    <2>1. IsFiniteSet(D \X (1..K)) /\ Sites \in SUBSET (D \X (1..K))
      BY <1>2, <1>3, FS_Product
    <2> QED BY <2>1, FS_Subset
  <1>5. IsFiniteSet(S)
    <2>1. IsFiniteSet(Sites \X Sites) /\ S \in SUBSET (Sites \X Sites)
      BY <1>4, FS_Product
    <2> QED BY <2>1, FS_Subset
  <1>6. \A s \in Sites : s[1] \in D /\ s[2] \in 1..Len(pool[s[1]])
    <2> SUFFICES ASSUME NEW s \in Sites PROVE s[1] \in D /\ s[2] \in 1..Len(pool[s[1]])
      OBVIOUS
    <2>1. s[1] \in D /\ s[2] \in 1..K /\ s[2] <= Len(pool[s[1]])
      BY <1>3
    <2> QED BY <1>1, <2>1
  <1>7. \A p \in S : /\ p[1] \in Sites /\ p[2] \in Sites /\ p[1][1] < p[2][1]
                     /\ f[p] = PairValue(pool[p[1][1]][p[1][2]], pool[p[2][1]][p[2][2]])
    BY DEF PairValue, SiteAt
  <1>8. \A p \in S : f[p] \in Int
    <2> SUFFICES ASSUME NEW p \in S PROVE f[p] \in Int
      OBVIOUS
    <2>1. /\ p[1][1] \in D /\ p[1][2] \in 1..Len(pool[p[1][1]])
          /\ p[2][1] \in D /\ p[2][2] \in 1..Len(pool[p[2][1]])
      BY <1>6, <1>7
    <2>2. pool[p[1][1]][p[1][2]] \in Site /\ pool[p[2][1]][p[2][2]] \in Site
      <3>1. pool[p[1][1]] \in Seq(Site) /\ pool[p[2][1]] \in Seq(Site)
        BY <1>1, <2>1
      <3> HIDE DEF pool, D
      <3> QED BY <2>1, <3>1
    <2> QED BY <1>7, <2>2, PairFacts
  <1>9. IsFiniteSet(T) /\ c \in [S -> T]
    <2>1. IsFiniteSet(T)
      BY <1>2, BetweenFacts
    <2>2. \A p \in S : <<p[1][1], p[2][1]>> \in T
      <3> SUFFICES ASSUME NEW p \in S PROVE <<p[1][1], p[2][1]>> \in T
        OBVIOUS
      <3>1. p[1][1] \in D /\ p[2][1] \in D /\ p[1][1] < p[2][1]
        BY <1>6, <1>7
      <3> HIDE DEF D, S
      <3> QED BY <3>1 DEF IndexPairs
    <2> HIDE DEF S, T
    <2> QED BY <2>1, <2>2
  <1>10. ASSUME NEW d \in T PROVE g[d] = SumFunctionOnSet(f, {p \in S : c[p] = d})
    <2> DEFINE C == {p \in S : c[p] = d}
               x == pool[d[1]]
               y == pool[d[2]]
               r == Numbered(x, y, d)
    <2>1. d[1] \in D /\ d[2] \in D /\ d[1] < d[2] /\ d = <<d[1], d[2]>>
      BY DEF IndexPairs
    <2>2. /\ x \in Seq(Site) /\ y \in Seq(Site) /\ Len(x) \in Nat /\ Len(y) \in Nat
          /\ Len(x) <= K /\ Len(y) <= K
      BY <1>1, <2>1
    <2>3. g[d] = SumFunctionOnSet(SiteTerms(x, y), SitePairs(x, y))
      BY DEF BetweenTerms, BodyPair
    <2>4. \A i \in 1..Len(x), j \in 1..Len(y) :
            <<d[1], i>> \in Sites /\ <<d[2], j>> \in Sites
      <3> SUFFICES ASSUME NEW i \in 1..Len(x), NEW j \in 1..Len(y)
                   PROVE  <<d[1], i>> \in Sites /\ <<d[2], j>> \in Sites
        OBVIOUS
      <3>1. i \in 1..K /\ j \in 1..K /\ i <= Len(x) /\ j <= Len(y)
        BY <1>1, <2>2
      <3> QED BY <1>3, <2>1, <3>1
    <2>5. \A q \in SitePairs(x, y) :
            /\ q[1] \in 1..Len(x) /\ q[2] \in 1..Len(y) /\ q = <<q[1], q[2]>>
            /\ r[q] = << <<d[1], q[1]>>, <<d[2], q[2]>> >>
            /\ r[q][1] = <<d[1], q[1]>> /\ r[q][2] = <<d[2], q[2]>>
      BY DEF SitePairs, Numbered
    <2>6. \A q \in SitePairs(x, y) : r[q] \in S /\ c[r[q]] = d
      <3> SUFFICES ASSUME NEW q \in SitePairs(x, y) PROVE r[q] \in S /\ c[r[q]] = d
        OBVIOUS
      <3>1. <<d[1], q[1]>> \in Sites /\ <<d[2], q[2]>> \in Sites
        BY <2>4, <2>5
      <3>2. r[q] \in S
        <4> HIDE DEF Sites, r, T, D
        <4> QED BY <2>1, <2>5, <3>1
      <3>3. c[r[q]] = <<d[1], d[2]>>
        <4>1. c[r[q]] = <<r[q][1][1], r[q][2][1]>>
          BY <3>2
        <4> HIDE DEF c, r
        <4> QED BY <2>5, <4>1
      <3> QED BY <2>1, <3>2, <3>3
    <2>7. r \in [SitePairs(x, y) -> C]
      <3>1. DOMAIN r = SitePairs(x, y) /\ r = [q \in SitePairs(x, y) |-> r[q]]
        BY DEF Numbered
      <3> HIDE DEF r, S, c
      <3> QED BY <2>6, <3>1
    <2>8. \A p, q \in SitePairs(x, y) : r[p] = r[q] => p = q
      <3> TAKE p \in SitePairs(x, y)
      <3> TAKE q \in SitePairs(x, y)
      <3> HAVE r[p] = r[q]
      <3> HIDE DEF r
      <3>1. <<d[1], p[1]>> = <<d[1], q[1]>> /\ <<d[2], p[2]>> = <<d[2], q[2]>>
        BY <2>5
      <3>2. p[1] = q[1] /\ p[2] = q[2]
        BY <3>1
      <3> QED BY <2>5, <3>2
    <2>9. \A z \in C : \E q \in SitePairs(x, y) : r[q] = z
      <3> TAKE z \in C
      <3>1. z \in S /\ z[1] \in Sites /\ z[2] \in Sites /\ z = <<z[1], z[2]>>
        BY <1>7
      <3>2. z[1][1] = d[1] /\ z[2][1] = d[2]
        <4>1. c[z] = <<z[1][1], z[2][1]>> /\ c[z] = d
          OBVIOUS
        <4> HIDE DEF c
        <4> QED BY <2>1, <4>1
      <3>3. z[1][2] \in 1..Len(x) /\ z[2][2] \in 1..Len(y)
        BY <1>6, <3>1, <3>2
      <3>4. z[1] = <<z[1][1], z[1][2]>> /\ z[2] = <<z[2][1], z[2][2]>>
        BY <1>3, <3>1
      <3>5. PICK q : q = <<z[1][2], z[2][2]>>
        OBVIOUS
      <3>6. q \in SitePairs(x, y) /\ q[1] = z[1][2] /\ q[2] = z[2][2]
        BY <3>3, <3>5 DEF SitePairs
      <3>7. r[q] = << <<d[1], z[1][2]>>, <<d[2], z[2][2]>> >>
        BY <2>5, <3>6
      <3>8. r[q] = z
        <4> HIDE DEF r
        <4> QED BY <3>1, <3>2, <3>4, <3>7
      <3> QED BY <3>6, <3>8
    <2>10. \A q \in SitePairs(x, y) : f[r[q]] = SiteTerms(x, y)[q] /\ SiteTerms(x, y)[q] \in Int
      <3> SUFFICES ASSUME NEW q \in SitePairs(x, y)
                   PROVE  f[r[q]] = SiteTerms(x, y)[q] /\ SiteTerms(x, y)[q] \in Int
        OBVIOUS
      <3>1. r[q] \in S
        BY <2>6
      <3>2. f[r[q]] = PairValue(pool[r[q][1][1]][r[q][1][2]], pool[r[q][2][1]][r[q][2][2]])
        BY <1>7, <3>1
      <3>3. r[q][1][1] = d[1] /\ r[q][1][2] = q[1] /\ r[q][2][1] = d[2] /\ r[q][2][2] = q[2]
        <4> HIDE DEF r
        <4> QED BY <2>5
      <3>4. SiteTerms(x, y)[q] = PairValue(x[q[1]], y[q[2]])
        BY DEF SiteTerms
      <3>5. f[r[q]] = PairValue(x[q[1]], y[q[2]])
        <4> HIDE DEF r, f
        <4> QED BY <3>2, <3>3
      <3> QED BY <2>2, <3>4, <3>5, SiteTermFacts
    <2>11. IsFiniteSet(SitePairs(x, y))
      BY <2>2, SiteTermFacts
    <2> HIDE DEF C, r, x, y, f, g, c, S, T
    <2>12. SumFunctionOnSet(f, C) = SumFunctionOnSet(SiteTerms(x, y), SitePairs(x, y))
      BY <2>7, <2>8, <2>9, <2>10, <2>11, SumRenamed
    <2> QED BY <2>3, <2>12 DEF C
  <1>11. PairEnergy(config) = SumFunctionOnSet(f, S)
    BY DEF PairEnergy, SumFunction
  <1>12. SumsOfClasses(g, f, S, c, T)
    BY <1>10 DEF SumsOfClasses
  <1>13. PairsIn(config) = SumFunctionOnSet(g, T)
    BY DEF PairsIn, Between
  <1> HIDE DEF f, g, c, S, T, pool, Sites, D
  <1>14. SumFunctionOnSet(f, S) = SumFunctionOnSet(g, T)
    BY <1>5, <1>8, <1>9, <1>12, SumByClass
  <1> QED BY <1>11, <1>13, <1>14

-----------------------------------------------------------------------------
(* The ledger. *)

(* The books balance, and a running trial is charged its worth.             *)
LedgerInv ==
  /\ ledger = GrossEnergy(Config) - GrossEnergy(<< >>)
  /\ phase = "trial" => deltaU = GrossEnergy(Proposal) - GrossEnergy(Config)

LEMMA ProposedCharged ==
  ASSUME IInv, IInv', CacheMatchesMolecules, LedgerInv,
         ProposeDisplacement \/ ProposeInsertion \/ ProposeDeletion \/ ProposeSwap
  PROVE  LedgerInv'
  <1>1. Config' = Config
    BY OthersStutter DEF ProposeDisplacement, ProposeInsertion, ProposeDeletion, ProposeSwap
  <1>2. ledger' = ledger
    BY DEF ProposeDisplacement, ProposeInsertion, ProposeDeletion, ProposeSwap
  <1>3. deltaU' = GrossEnergy(Proposal') - GrossEnergy(Config)
    BY DisplacementCharged, InsertionCharged, DeletionCharged, SwapCharged
  <1>4. PICK e, z : e = GrossEnergy(Config) /\ z = GrossEnergy(<< >>) /\ ledger = e - z
    BY DEF LedgerInv
  <1> QED BY <1>1, <1>2, <1>3, <1>4 DEF LedgerInv

(* An accepted trial turns the list into the one proposed.                  *)
LEMMA AcceptedProposal ==
  ASSUME IInv, IInv',
         CommitDisplacement \/ CommitInsertion \/ CommitDeletion \/ CommitSwap
  PROVE  phase = "trial" /\ phase' # "trial" /\ Config' = Proposal
  <1>1. CASE CommitDisplacement
    <2>1. AcceptDisplacement /\ phase = "trial" /\ phase' # "trial" /\ trial.move = "displace"
      BY <1>1 DEF CommitDisplacement, AcceptDisplacement
    <2>2. trial.species = molecules[trial.mol].species
      BY <2>1 DEF IInv, AttemptShape
    <2> QED BY <2>1, <2>2, DisplacementEntry DEF Proposal, TrialEntry
  <1>2. CASE CommitInsertion
    <2>1. AcceptInsertion /\ phase = "trial" /\ phase' # "trial" /\ trial.move = "insert"
      BY <1>2 DEF CommitInsertion, AcceptInsertion
    <2> QED BY <2>1, InsertionEntry DEF Proposal, TrialEntry
  <1>3. CASE CommitDeletion
    <2>1. AcceptDeletion /\ phase = "trial" /\ phase' # "trial" /\ trial.move = "delete"
      BY <1>3 DEF CommitDeletion, AcceptDeletion
    <2> QED BY <2>1, DeletionEntry DEF Proposal
  <1>4. CASE CommitSwap
    <2>1. AcceptSwap /\ phase = "trial" /\ phase' # "trial" /\ trial.move = "swap"
      BY <1>4 DEF CommitSwap, AcceptSwap
    <2> QED BY <2>1, SwapEntry DEF Proposal, TrialEntry
  <1> QED BY <1>1, <1>2, <1>3, <1>4

LEMMA ConfigTyped == IInv => Config \in Seq(ListMolecule)
  BY ConfigFacts

LEMMA AcceptedBooked ==
  ASSUME IInv, IInv', LedgerInv,
         CommitDisplacement \/ CommitInsertion \/ CommitDeletion \/ CommitSwap
  PROVE  LedgerInv'
  <1>1. phase = "trial" /\ phase' # "trial" /\ Config' = Proposal
    BY AcceptedProposal
  <1>2. ledger' = ledger + deltaU
    BY DEF CommitDisplacement, CommitInsertion, CommitDeletion, CommitSwap, Book
  <1>3. << >> \in Seq(ListMolecule) /\ Config \in Seq(ListMolecule) /\ Config' \in Seq(ListMolecule)
    <2>1. (Config \in Seq(ListMolecule))'
      BY ConfigTyped, PTL
    <2> QED BY <2>1, ConfigFacts, EmptySeq
  <1>4. PICK e, d, z \in Int :
          e = GrossEnergy(Config) /\ d = GrossEnergy(Config') /\ z = GrossEnergy(<< >>)
    BY <1>3, GrossEnergyInt
  <1>5. ledger = e - z /\ deltaU = d - e
    BY <1>1, <1>4 DEF LedgerInv
  <1>6. ledger' = d - z
    BY <1>2, <1>5
  <1> QED BY <1>1, <1>4, <1>6 DEF LedgerInv

LEMMA OthersKeepBooks ==
  ASSUME IInv, IInv', LedgerInv, Discard \/ Remove \/ Finalize
  PROVE  LedgerInv'
  <1>1. Config' = Config
    BY OthersStutter, RemovalStutters DEF Discard, Remove, Finalize
  <1>2. ledger' = ledger
    BY DEF Discard, Remove, Finalize
  <1>3. phase' # "trial"
    BY DEF Discard, Remove, Finalize, RejectDisplacement, RejectAppended, RejectDeletion,
           RemoveNext, Settle
  <1> QED BY <1>1, <1>2, <1>3 DEF LedgerInv

LEMMA LedgerStep ==
  ASSUME IInv, IInv', CacheMatchesMolecules, LedgerInv, [ChargedNext]_chargedVars
  PROVE  LedgerInv'
  <1>1. CASE ChargedNext
    BY <1>1, ProposedCharged, AcceptedBooked, OthersKeepBooks DEF ChargedNext
  <1>2. CASE UNCHANGED chargedVars
    <2>1. /\ phase' = phase /\ trial' = trial /\ particles' = particles
          /\ molecules' = molecules /\ ledger' = ledger /\ deltaU' = deltaU
      BY <1>2 DEF chargedVars, vars
    <2>2. Config' = Config
      BY <2>1 DEF Config, Committed
    <2>3. Proposal' = Proposal
      BY <2>1, <2>2 DEF Proposal, TrialEntry
    <2> QED BY <2>1, <2>2, <2>3 DEF LedgerInv
  <1> QED BY <1>1, <1>2

(* The energy differences the acceptance test was given add up to the real  *)
(* change of the total energy: the cell list's candidates, the exclusions   *)
(* and the incremental cache together miss no pair, count none twice, and   *)
(* count none against a molecule that is leaving.                           *)
THEOREM LedgerIsExact == ChargedSpec => []LedgerMatchesEnergy
  <1>1. ChargedInit => LedgerInv
    <2> SUFFICES ASSUME ChargedInit PROVE LedgerInv
      OBVIOUS
    <2>1. Config = << >> /\ ledger = 0 /\ phase = "idle"
      BY EmptySeq DEF ChargedInit, Init, Config
    <2>2. PICK z \in Int : z = GrossEnergy(<< >>)
      BY EmptySeq, GrossEnergyInt
    <2> QED BY <2>1, <2>2 DEF LedgerInv
  <1>2. IInv /\ IInv' /\ CacheMatchesMolecules /\ LedgerInv /\ [ChargedNext]_chargedVars
          => LedgerInv'
    BY LedgerStep
  <1>3. IInv /\ LedgerInv => LedgerMatchesEnergy
    <2> SUFFICES ASSUME IInv, LedgerInv PROVE LedgerMatchesEnergy
      OBVIOUS
    <2>1. PairEnergy(Config) = PairsIn(Config) /\ PairEnergy(<< >>) = PairsIn(<< >>)
      BY EveryBodyFits, PairsAreThose
    <2>2. TotalEnergy(Config) = GrossEnergy(Config) /\ TotalEnergy(<< >>) = GrossEnergy(<< >>)
      BY <2>1 DEF TotalEnergy, GrossEnergy
    <2> QED BY <2>2 DEF LedgerInv, LedgerMatchesEnergy
  <1> QED BY <1>1, <1>2, <1>3, ChargedInductive, CacheIsCurrent, PTL DEF ChargedSpec
=============================================================================
