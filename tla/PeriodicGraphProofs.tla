------------------------ MODULE PeriodicGraphProofs ------------------------
(* The periodic graph, and the analysis that calls it. *)
EXTENDS PoreAnalysis, TLAPS, SequenceTheorems, FiniteSetTheorems

(***************************************************************************)
(* Offsets are vectors.                                                    *)
(***************************************************************************)
LEMMA Vectors ==
  /\ Zero \in Offsets
  /\ \A p, q \in Offsets : Plus(p, q) \in Offsets /\ Minus(p, q) \in Offsets
BY DEF Offsets, Zero, Plus, Minus

(* The way over a stop is the way to it and the way from it. *)
LEMMA Chasles ==
  ASSUME NEW p \in Offsets, NEW q \in Offsets, NEW r \in Offsets
  PROVE  Plus(Minus(q, p), Minus(r, q)) = Minus(r, p)
BY DEF Offsets, Plus, Minus

LEMMA MinusSelf == ASSUME NEW p \in Offsets PROVE Minus(p, p) = Zero
BY DEF Offsets, Minus, Zero

(* unite's cycle offset is zero if and only if the edge leads from one      *)
(* end's position to the other's.                                           *)
LEMMA CycleVector ==
  ASSUME NEW r \in Offsets, NEW u \in Offsets, NEW v \in Offsets, NEW e \in Offsets
  PROVE  Minus(Plus(e, Minus(r, v)), Minus(r, u)) = Zero <=> v = Plus(u, e)
<1>1. ASSUME NEW a \in Axes
      PROVE  /\ Minus(Plus(e, Minus(r, v)), Minus(r, u))[a] = (e[a] + (r[a] - v[a])) - (r[a] - u[a])
             /\ Zero[a] = 0
             /\ Plus(u, e)[a] = u[a] + e[a]
             /\ r[a] \in Int /\ u[a] \in Int /\ v[a] \in Int /\ e[a] \in Int
  BY <1>1 DEF Offsets, Plus, Minus, Zero
<1>2. ASSUME Minus(Plus(e, Minus(r, v)), Minus(r, u)) = Zero PROVE v = Plus(u, e)
  <2>1. \A a \in Axes : v[a] = Plus(u, e)[a]
    BY <1>1, <1>2
  <2> QED
    BY <2>1 DEF Offsets, Plus
<1>3. ASSUME v = Plus(u, e) PROVE Minus(Plus(e, Minus(r, v)), Minus(r, u)) = Zero
  <2>1. \A a \in Axes : Minus(Plus(e, Minus(r, v)), Minus(r, u))[a] = Zero[a]
    BY <1>1, <1>3
  <2> QED
    BY <2>1 DEF Minus, Zero
<1> QED
  BY <1>2, <1>3

(* unite's link is the way from rootV, moved with its component, to rootU. *)
LEMMA JoinVector ==
  ASSUME NEW u \in Offsets, NEW v \in Offsets, NEW e \in Offsets,
         NEW ru \in Offsets, NEW rv \in Offsets
  PROVE  Minus(Minus(ru, u), Plus(e, Minus(rv, v)))
           = Minus(ru, Plus(rv, Minus(Plus(u, e), v)))
BY DEF Offsets, Plus, Minus

(* The moved component meets the edge. *)
LEMMA ShiftMeets ==
  ASSUME NEW u \in Offsets, NEW v \in Offsets, NEW e \in Offsets
  PROVE  Plus(v, Minus(Plus(u, e), v)) = Plus(u, e)
BY DEF Offsets, Plus, Minus

(* A shift changes no difference. *)
LEMMA ShiftKeeps ==
  ASSUME NEW p \in Offsets, NEW q \in Offsets, NEW s \in Offsets
  PROVE  Minus(Plus(p, s), Plus(q, s)) = Minus(p, q)
BY DEF Offsets, Plus, Minus

LEMMA ShiftFits ==
  ASSUME NEW p \in Offsets, NEW q \in Offsets, NEW s \in Offsets, NEW e \in Offsets
  PROVE  Plus(q, s) = Plus(Plus(p, s), e) <=> q = Plus(p, e)
<1>1. ASSUME NEW a \in Axes
      PROVE  /\ Plus(q, s)[a] = q[a] + s[a]
             /\ Plus(Plus(p, s), e)[a] = (p[a] + s[a]) + e[a]
             /\ Plus(p, e)[a] = p[a] + e[a]
             /\ p[a] \in Int /\ q[a] \in Int /\ s[a] \in Int /\ e[a] \in Int
  BY <1>1 DEF Offsets, Plus
<1>2. ASSUME Plus(q, s) = Plus(Plus(p, s), e) PROVE q = Plus(p, e)
  <2>1. ASSUME NEW a \in Axes PROVE q[a] = Plus(p, e)[a]
    <3>1. Plus(q, s)[a] = Plus(Plus(p, s), e)[a]
      BY <1>2
    <3> DEFINE i == p[a]  j == q[a]  k == s[a]  l == e[a]
    <3>2. j + k = (i + k) + l /\ i \in Int /\ j \in Int /\ k \in Int /\ l \in Int
      BY <3>1, <1>1
    <3> HIDE DEF i, j, k, l
    <3>3. j = i + l
      BY <3>2
    <3> QED
      BY <3>3, <1>1 DEF i, j, l
  <2> QED
    BY <2>1 DEF Offsets, Plus
<1>3. ASSUME q = Plus(p, e) PROVE Plus(q, s) = Plus(Plus(p, s), e)
  <2>1. \A a \in Axes : Plus(q, s)[a] = Plus(Plus(p, s), e)[a]
    BY <1>1, <1>3
  <2> QED
    BY <2>1 DEF Plus
<1> QED
  BY <1>2, <1>3

(* Vectors axis by axis, for the lemmas with equations as hypotheses. *)
LEMMA PointMinus ==
  ASSUME NEW p \in Offsets, NEW q \in Offsets, NEW r \in Offsets, NEW s \in Offsets
  PROVE  Minus(p, q) = Minus(r, s) <=> \A a \in Axes : p[a] - q[a] = r[a] - s[a]
<1>1. ASSUME NEW a \in Axes
      PROVE  Minus(p, q)[a] = p[a] - q[a] /\ Minus(r, s)[a] = r[a] - s[a]
  BY DEF Minus
<1>2. ASSUME Minus(p, q) = Minus(r, s), NEW a \in Axes PROVE p[a] - q[a] = r[a] - s[a]
  BY <1>1, <1>2
<1>3. ASSUME \A a \in Axes : p[a] - q[a] = r[a] - s[a] PROVE Minus(p, q) = Minus(r, s)
  BY <1>3 DEF Minus
<1> QED
  BY <1>2, <1>3

LEMMA PointPlus ==
  ASSUME NEW p \in Offsets, NEW q \in Offsets, NEW e \in Offsets
  PROVE  p = Plus(q, e) <=> \A a \in Axes : p[a] = q[a] + e[a]
<1>1. ASSUME NEW a \in Axes PROVE Plus(q, e)[a] = q[a] + e[a]
  BY DEF Plus
<1>2. ASSUME p = Plus(q, e), NEW a \in Axes PROVE p[a] = q[a] + e[a]
  BY <1>1, <1>2
<1>3. ASSUME \A a \in Axes : p[a] = q[a] + e[a] PROVE p = Plus(q, e)
  BY <1>3 DEF Offsets, Plus
<1> QED
  BY <1>2, <1>3

(* An edge fits both or neither of two placements of its ends that differ   *)
(* by a shift.                                                              *)
LEMMA SameDifference ==
  ASSUME NEW p \in Offsets, NEW q \in Offsets, NEW r \in Offsets, NEW s \in Offsets,
         NEW e \in Offsets, Minus(p, q) = Minus(r, s), p = Plus(q, e)
  PROVE  r = Plus(s, e)
<1> SUFFICES ASSUME NEW a \in Axes PROVE r[a] = s[a] + e[a]
  BY PointPlus
<1> DEFINE i == p[a]  j == q[a]  k == r[a]  l == s[a]  m == e[a]
<1>1. i \in Int /\ j \in Int /\ k \in Int /\ l \in Int /\ m \in Int
  BY DEF Offsets
<1>2. i - j = k - l /\ i = j + m
  BY PointMinus, PointPlus
<1> HIDE DEF i, j, k, l, m
<1>3. k = l + m
  BY <1>1, <1>2
<1> QED
  BY <1>3 DEF k, l, m

LEMMA Flip ==
  ASSUME NEW p \in Offsets, NEW q \in Offsets, NEW r \in Offsets, NEW s \in Offsets,
         Minus(p, q) = Minus(r, s)
  PROVE  Minus(q, p) = Minus(s, r)
<1> SUFFICES ASSUME NEW a \in Axes PROVE q[a] - p[a] = s[a] - r[a]
  BY PointMinus
<1> DEFINE i == p[a]  j == q[a]  k == r[a]  l == s[a]
<1>1. i \in Int /\ j \in Int /\ k \in Int /\ l \in Int
  BY DEF Offsets
<1>2. i - j = k - l
  BY PointMinus
<1> HIDE DEF i, j, k, l
<1>3. j - i = l - k
  BY <1>1, <1>2
<1> QED
  BY <1>3 DEF i, j, k, l

LEMMA PlusZero == ASSUME NEW p \in Offsets PROVE Plus(p, Zero) = p
BY DEF Offsets, Plus, Zero

-----------------------------------------------------------------------------
(***************************************************************************)
(* What percolates, without walks: edges that no placement of the nodes    *)
(* fits.  A pocket is a set of nodes that no edge leaves, with a placement *)
(* that fits its edges.                                                    *)
(***************************************************************************)
Placements == [Nodes -> Offsets]
Fits(place, e) == place[e.to] = Plus(place[e.from], e.imageOffset)
Closed(C, es) == \A e \in es : e.from \in C <=> e.to \in C
Pocket(n, es) ==
  \E C \in SUBSET Nodes, place \in Placements :
    n \in C /\ Closed(C, es) /\ \A e \in es : e.from \in C => Fits(place, e)

(* accessibleComponents leaves out the nodes of pockets, and no others. *)
AccessibleIsNotPocket ==
  pc = "done" /\ ~Sweeping =>
    result = {n \in Nodes : ~Pocket(n, Wider(input.radius))}

(* percolationThreshold returns a weight above which a placement fits the   *)
(* edges, and none fits those of that weight as well; or 0, when one fits   *)
(* all edges.                                                               *)
ThresholdSeparates ==
  pc = "done" /\ Sweeping =>
    \E w \in Int :
      /\ result = {w}
      /\ \E place \in Placements : \A e \in input.edges : e.weight > w => Fits(place, e)
      /\ \/ \A place \in Placements : \E e \in Wider(w) : ~Fits(place, e)
         \/ w = 0 /\ \E place \in Placements : \A e \in input.edges : Fits(place, e)

(***************************************************************************)
(* The inductive invariant.                                                *)
(***************************************************************************)
Typed ==
  /\ IsInput(input)
  /\ pc \in {"sweep", "descend", "compress", "done"}
  /\ parent \in [Nodes -> Nodes]
  /\ offsetToParent \in [Nodes -> Offsets]
  /\ percolates \in [Nodes -> BOOLEAN]
  /\ todo \subseteq {e \in input.edges : Passes(e)}
  /\ asked \subseteq Nodes
  /\ path \in Seq(Nodes)
  /\ rootOf \in [Nodes -> Nodes]
  /\ unwrapped \in Placements

(* rootOf is where following parents leads. *)
Forest ==
  \A n \in Nodes :
    /\ rootOf[parent[n]] = rootOf[n]
    /\ rootOf[rootOf[n]] = rootOf[n]
    /\ parent[rootOf[n]] = rootOf[n]
    /\ parent[n] = n => rootOf[n] = n

(* Parents never lead in a circle, so no node is twice on find's stack. *)
Ranks(h) ==
  /\ \A n \in Nodes : parent[n] # n => h[n] < h[parent[n]]
  /\ \A n \in Nodes : rootOf[n] # n => h[n] < h[rootOf[n]]
  /\ \A i, j \in 1..Len(path) : i < j => h[path[i]] < h[path[j]]
Ranked == \E h \in [Nodes -> Int] : Ranks(h)

(* The node find was called for, and the one whose offset is in link. *)
Target == IF todo = {} THEN NextNode ELSE IF ends = << >> THEN edge.from ELSE edge.to
Below == IF path = << >> THEN Target ELSE parent[path[Len(path)]]

Finding == pc \in {"descend", "compress"}

StackInv ==
  /\ ~Finding => path = << >>
  /\ pc = "descend" => path # << >>
  /\ Finding =>
       /\ Target \in Nodes
       /\ path # << >> => path[1] = Target
       /\ \A i \in 1..Len(path) : rootOf[path[i]] = rootOf[Target]
       /\ \A i \in 1..(Len(path) - 1) : parent[path[i]] = path[i + 1]

LinkInv ==
  pc = "compress" =>
    /\ link \in Links
    /\ link.root = rootOf[Target]
    /\ link.offset = Minus(unwrapped[link.root], unwrapped[Below])

EndsInv ==
  Finding =>
    /\ todo = {} => ~Sweeping /\ asked # Nodes
    /\ todo # {} =>
         /\ edge \in todo /\ IsNext(edge)
         /\ \/ ends = << >>
            \/ /\ ends = <<ends[1]>> /\ ends[1] \in Links
               /\ ends[1].root = rootOf[edge.from]
               /\ ends[1].offset = Minus(unwrapped[ends[1].root], unwrapped[edge.from])

(* The edges that are in the forest, or have closed a cycle. *)
United == {e \in input.edges : Passes(e)} \ todo

(* The components are those of the united edges: no edge leaves one, and no *)
(* set that edges do not leave cuts one.                                    *)
ComponentInv ==
  /\ \A e \in United : rootOf[e.from] = rootOf[e.to]
  /\ \A C \in SUBSET Nodes : Closed(C, United) =>
       \A x, y \in Nodes : rootOf[x] = rootOf[y] => (x \in C <=> y \in C)

FlagInv ==
  \A n \in Nodes :
    percolates[rootOf[n]] <=>
      \E e \in United : rootOf[e.from] = rootOf[n] /\ ~Fits(unwrapped, e)

(* A placement that fits a component's edges is the unwrapped one, shifted. *)
RigidInv ==
  \A place \in Placements : \A x, y \in Nodes :
    /\ rootOf[x] = rootOf[y]
    /\ \A e \in United : rootOf[e.from] = rootOf[x] => Fits(place, e)
    => Minus(place[x], place[y]) = Minus(unwrapped[x], unwrapped[y])

OrderInv == Sweeping => \A d \in United, e \in todo : e.weight <= d.weight

AnswerInv ==
  /\ Sweeping /\ pc # "done" => \A e \in United : Fits(unwrapped, e)
  /\ ~Sweeping =>
       /\ result = {n \in asked : percolates[rootOf[n]]}
       /\ asked # {} => todo = {}
       /\ pc = "done" => asked = Nodes /\ todo = {}
  /\ ThresholdSeparates

GraphInv ==
  /\ Typed /\ Forest /\ OffsetsAreTrue /\ Ranked
  /\ StackInv /\ LinkInv /\ EndsInv
  /\ ComponentInv /\ FlagInv /\ RigidInv /\ OrderInv /\ AnswerInv

-----------------------------------------------------------------------------
(* From x to y over the edge from u to v that joins their components.       *)
LEMMA BridgeVector ==
  \A x, u, v, y, e \in Offsets :
    Minus(Plus(Minus(x, u), Minus(v, y)), e) = Minus(x, Plus(y, Minus(Plus(u, e), v)))
<1> TAKE x, u, v, y, e \in Offsets
<1> QED
  BY DEF Offsets, Plus, Minus

LEMMA Bridge ==
  ASSUME NEW p \in Placements, NEW x \in Nodes, NEW u \in Nodes, NEW v \in Nodes,
         NEW y \in Nodes, NEW e \in Offsets
  PROVE  Minus(Plus(Minus(p[x], p[u]), Minus(p[v], p[y])), e)
           = Minus(p[x], Plus(p[y], Minus(Plus(p[u], e), p[v])))
<1>1. p[x] \in Offsets /\ p[u] \in Offsets /\ p[v] \in Offsets /\ p[y] \in Offsets
  BY DEF Placements
<1> QED
  BY <1>1, BridgeVector, SMTT(30)

-----------------------------------------------------------------------------
(* Facts about a state. *)

LEMMA EdgeShape ==
  ASSUME IsInput(input), NEW e \in input.edges
  PROVE  /\ e.from \in Nodes /\ e.to \in Nodes
         /\ e.weight \in Int /\ e.imageOffset \in Offsets
BY DEF IsInput, IsEdge

LEMMA FrontShape ==
  ASSUME NEW p \in Seq(Nodes), p # << >>
  PROVE  /\ Front(p) \in Seq(Nodes)
         /\ Len(p) \in Nat \ {0}
         /\ Len(Front(p)) = Len(p) - 1
         /\ \A i \in 1..(Len(p) - 1) : Front(p)[i] = p[i]
<1>1. Len(p) \in Nat \ {0}
  BY EmptySeq
<1>2. \A i \in 1..(Len(p) - 1) : p[i] \in Nodes
  OBVIOUS
<1>3. /\ SubSeq(p, 1, Len(p) - 1) \in Seq(Nodes)
      /\ Len(SubSeq(p, 1, Len(p) - 1)) = Len(p) - 1
      /\ \A i \in 1..(Len(p) - 1) : SubSeq(p, 1, Len(p) - 1)[i] = p[i]
  <2>1. PICK n \in Nat : n = Len(p) - 1
    BY <1>1
  <2>2. 1 \in Int /\ n \in Int /\ \A i \in 1..n : p[i] \in Nodes
    BY <1>2, <2>1
  <2>3. /\ SubSeq(p, 1, n) \in Seq(Nodes)
        /\ Len(SubSeq(p, 1, n)) = IF 1 <= n THEN n - 1 + 1 ELSE 0
        /\ \A i \in 1..(n - 1 + 1) : SubSeq(p, 1, n)[i] = p[1 + i - 1]
    BY <2>2, SubSeqProperties
  <2>4. Len(SubSeq(p, 1, n)) = n
    BY <2>3
  <2>5. \A i \in 1..n : SubSeq(p, 1, n)[i] = p[i]
    BY <2>3
  <2> QED
    BY <2>1, <2>3, <2>4, <2>5
<1> QED
  BY <1>1, <1>3 DEF Front

(* A call before its first step, or one with no edges at all. *)
Fresh ==
  /\ IsInput(input)
  /\ parent = [n \in Nodes |-> n] /\ rootOf = parent
  /\ offsetToParent = [n \in Nodes |-> Zero] /\ unwrapped = offsetToParent
  /\ percolates = [n \in Nodes |-> FALSE]
  /\ todo = {e \in input.edges : Passes(e)}
  /\ path = << >> /\ asked = {}
  /\ \/ pc = "sweep" /\ result = {}
     \/ pc = "done" /\ Sweeping /\ input.edges = {} /\ result = {0}

LEMMA FreshGraph == Fresh => GraphInv
<1> SUFFICES ASSUME Fresh PROVE GraphInv
  OBVIOUS
<1> USE DEF Fresh
<1>1. Typed
  <2>1. path \in Seq(Nodes)
    OBVIOUS
  <2>2. unwrapped \in Placements /\ offsetToParent \in [Nodes -> Offsets]
    BY Vectors DEF Placements
  <2> QED
    BY <2>1, <2>2 DEF Typed
<1>2. Forest /\ StackInv /\ LinkInv /\ EndsInv
  BY DEF Forest, StackInv, LinkInv, EndsInv, Finding
<1>3. OffsetsAreTrue
  BY Vectors, MinusSelf DEF OffsetsAreTrue
<1>4. Ranked
  <2> DEFINE h == [n \in Nodes |-> 0]
  <2>1. Ranks(h)
    BY DEF Ranks
  <2> QED
    BY <2>1 DEF Ranked
<1>5. United = {}
  BY DEF United
<1>6. ComponentInv /\ FlagInv /\ OrderInv /\ AnswerInv
  <2>1. ThresholdSeparates
    <3>1. CASE pc = "done"
      <4>1. unwrapped \in Placements /\ 0 \in Int
        BY <1>1 DEF Typed
      <4> QED
        BY <3>1, <4>1 DEF ThresholdSeparates
    <3> QED
      BY <3>1 DEF ThresholdSeparates
  <2> QED
    BY <1>5, <2>1 DEF ComponentInv, FlagInv, OrderInv, AnswerInv
<1>7. RigidInv
  <2>1. \A n, m \in Nodes : rootOf[n] = rootOf[m] => n = m
    OBVIOUS
  <2>2. \A n \in Nodes : unwrapped[n] = Zero
    OBVIOUS
  <2>3. \A place \in Placements, n \in Nodes : Minus(place[n], place[n]) = Zero
    BY MinusSelf DEF Placements
  <2>4. Minus(Zero, Zero) = Zero
    BY Vectors, MinusSelf
  <2> QED
    BY <2>1, <2>2, <2>3, <2>4 DEF RigidInv
<1> QED
  BY <1>1, <1>2, <1>3, <1>4, <1>6, <1>7 DEF GraphInv

LEMMA InitGraph == Init => GraphInv
<1>1. Init => Fresh
  BY GraphAssumption DEF Init, Fresh
<1> QED
  BY <1>1, FreshGraph

-----------------------------------------------------------------------------
(* Steps that leave the forest and the edges to do as they are.             *)

LEMMA RootsKept ==
  ASSUME GraphInv, UNCHANGED <<input, todo, percolates, rootOf, unwrapped>>
  PROVE  /\ ComponentInv' /\ FlagInv' /\ RigidInv' /\ OrderInv'
         /\ United' = United /\ Sweeping' = Sweeping
<1>1. United' = United /\ Sweeping' = Sweeping
  BY DEF United, Passes, Sweeping
<1>2. ComponentInv'
  BY <1>1 DEF GraphInv, ComponentInv
<1>3. FlagInv'
  BY <1>1 DEF GraphInv, FlagInv, Fits
<1>4. RigidInv'
  BY <1>1 DEF GraphInv, RigidInv
<1>5. OrderInv'
  BY <1>1 DEF GraphInv, OrderInv
<1> QED
  BY <1>1, <1>2, <1>3, <1>4, <1>5

LEMMA GraphKept ==
  ASSUME GraphInv, UNCHANGED <<input, todo, forest>>
  PROVE  /\ Forest' /\ OffsetsAreTrue' /\ ComponentInv' /\ FlagInv' /\ RigidInv' /\ OrderInv'
         /\ United' = United /\ Sweeping' = Sweeping
<1>1. Forest' /\ OffsetsAreTrue'
  BY DEF GraphInv, Forest, OffsetsAreTrue, forest
<1> QED
  BY <1>1, RootsKept DEF forest

LEMMA DescendKeeps == ASSUME GraphInv, Descend PROVE GraphInv'
<1> DEFINE x == path[Len(path)]
<1>0. /\ Typed /\ Forest /\ OffsetsAreTrue /\ Ranked /\ StackInv /\ LinkInv /\ EndsInv /\ AnswerInv
      /\ pc = "descend"
  BY DEF GraphInv, Descend
<1>1. path \in Seq(Nodes) /\ path # << >> /\ Len(path) \in Nat \ {0} /\ x \in Nodes
  <2>1. path \in Seq(Nodes) /\ path # << >>
    BY <1>0 DEF Typed, StackInv
  <2> QED
    BY <2>1, FrontShape
<1>2. /\ Forest' /\ OffsetsAreTrue' /\ ComponentInv' /\ FlagInv' /\ RigidInv' /\ OrderInv'
      /\ United' = United /\ Sweeping' = Sweeping
  BY GraphKept DEF Descend
<1>3. UNCHANGED <<input, todo, edge, ends, asked, result, parent, offsetToParent,
                  percolates, rootOf, unwrapped>> /\ pc' \in {"descend", "compress"}
  BY <1>0 DEF Descend, forest
<1>4. Target' = Target /\ Target \in Nodes
  BY <1>0, <1>3 DEF Target, NextNode, StackInv, Finding
<1>5. EndsInv'
  BY <1>0, <1>2, <1>3 DEF EndsInv, Finding, IsNext
<1>6. AnswerInv'
  BY <1>0, <1>2, <1>3 DEF AnswerInv, ThresholdSeparates, Fits
<1>7. CASE parent[x] = x
  <2>1. link' = [root |-> x, offset |-> Zero] /\ path' = Front(path) /\ pc' = "compress"
    BY <1>7 DEF Descend
  <2>2. /\ path' \in Seq(Nodes) /\ Len(path') = Len(path) - 1
        /\ \A i \in 1..(Len(path) - 1) : path'[i] = path[i]
    BY <2>1, <1>1, FrontShape
  <2>3. Typed'
    BY <1>0, <1>2, <1>3, <2>1, <2>2 DEF Typed, Passes
  <2>4. Ranked'
    <3>1. PICK h \in [Nodes -> Int] : Ranks(h)
      BY <1>0 DEF Ranked
    <3>2. ASSUME NEW i \in 1..Len(path'), NEW j \in 1..Len(path'), i < j
          PROVE  h[path'[i]] < h[path'[j]]
      <4>1. /\ i \in 1..(Len(path) - 1) /\ j \in 1..(Len(path) - 1)
            /\ i \in 1..Len(path) /\ j \in 1..Len(path)
        BY <2>2, <1>1
      <4>2. h[path[i]] < h[path[j]]
        BY <4>1, <3>1, <3>2 DEF Ranks
      <4> QED
        BY <4>1, <4>2, <2>2
    <3>3. Ranks(h)'
      BY <3>1, <3>2, <1>3 DEF Ranks
    <3> QED
      BY <3>3 DEF Ranked
  <2>5. StackInv'
    <3>1. path' # << >> => path'[1] = Target'
      BY <1>0, <1>1, <1>4, <2>2 DEF StackInv, Finding
    <3>2. \A i \in 1..Len(path') : rootOf'[path'[i]] = rootOf'[Target']
      BY <1>0, <1>1, <1>3, <1>4, <2>2 DEF StackInv, Finding
    <3>3. \A i \in 1..(Len(path') - 1) : parent'[path'[i]] = path'[i + 1]
      BY <1>0, <1>1, <1>3, <2>2 DEF StackInv, Finding
    <3> QED
      BY <1>4, <2>1, <3>1, <3>2, <3>3 DEF StackInv, Finding
  <2>6. LinkInv'
    <3>1. rootOf[x] = x /\ rootOf[x] = rootOf[Target]
      BY <1>0, <1>1, <1>7 DEF Forest, StackInv, Finding
    <3>2. Below' = x
      <4>1. CASE Len(path) = 1
        <5>1. path' = << >>
          BY <4>1, <2>2, EmptySeq
        <5>2. path[1] = Target
          BY <1>0, <1>1 DEF StackInv, Finding
        <5> QED
          BY <4>1, <5>1, <5>2, <1>4 DEF Below
      <4>2. CASE Len(path) # 1
        <5>1. path' # << >> /\ Len(path') \in 1..(Len(path) - 1)
          BY <4>2, <2>2, <1>1, EmptySeq
        <5>0. Len(path) - 1 \in 1..(Len(path) - 1)
          BY <4>2, <1>1, SMTT(30)
        <5>2. parent[path[Len(path) - 1]] = path[Len(path) - 1 + 1]
          BY <5>0, <1>0 DEF StackInv, Finding
        <5>3. Len(path) - 1 + 1 = Len(path)
          BY <1>1
        <5> QED
          BY <5>1, <5>2, <5>3, <2>2, <1>1, <1>3 DEF Below
      <4> QED
        BY <4>1, <4>2
    <3>3. Minus(unwrapped'[x], unwrapped'[x]) = Zero
      BY <1>0, <1>1, <1>3, MinusSelf DEF Typed, Placements
    <3> QED
      BY <3>1, <3>2, <3>3, <2>1, <1>1, <1>3, <1>4, Vectors DEF LinkInv, Links
  <2> QED
    BY <1>2, <1>5, <1>6, <2>3, <2>4, <2>5, <2>6 DEF GraphInv
<1>8. CASE parent[x] # x
  <2>1. path' = Append(path, parent[x]) /\ link' = link /\ pc' = "descend"
    BY <1>8, <1>0 DEF Descend
  <2>2. parent[x] \in Nodes
    BY <1>0, <1>1 DEF Typed
  <2>3. /\ path' \in Seq(Nodes) /\ Len(path') = Len(path) + 1 /\ path' # << >>
        /\ \A i \in 1..Len(path) : path'[i] = path[i]
        /\ path'[Len(path) + 1] = parent[x]
    BY <2>1, <2>2, <1>1
  <2>4. Typed'
    BY <1>0, <1>2, <1>3, <2>1, <2>3 DEF Typed, Passes
  <2>5. Ranked'
    <3>1. PICK h \in [Nodes -> Int] : Ranks(h)
      BY <1>0 DEF Ranked
    <3>2. h[x] < h[parent[x]]
      BY <3>1, <1>8, <1>1 DEF Ranks
    <3>3. ASSUME NEW i \in 1..Len(path'), NEW j \in 1..Len(path'), i < j
          PROVE  h[path'[i]] < h[path'[j]]
      <4>1. i \in 1..Len(path) /\ path[i] \in Nodes
        BY <3>3, <2>3, <1>1
      <4>2. CASE j = Len(path) + 1
        <5>1. h[path[i]] \in Int /\ h[x] \in Int /\ h[parent[x]] \in Int
          BY <4>1, <1>1, <2>2
        <5>2. h[path[i]] < h[x] \/ h[path[i]] = h[x]
          BY <3>1, <4>1, <1>1 DEF Ranks
        <5> QED
          BY <4>1, <4>2, <5>1, <5>2, <3>2, <2>3
      <4>3. CASE j # Len(path) + 1
        <5>1. j \in 1..Len(path)
          BY <4>3, <2>3, <1>1
        <5> QED
          BY <4>1, <5>1, <3>1, <3>3, <2>3 DEF Ranks
      <4> QED
        BY <4>2, <4>3
    <3>4. Ranks(h)'
      BY <3>1, <3>3, <1>3 DEF Ranks
    <3> QED
      BY <3>4 DEF Ranked
  <2>6. StackInv'
    <3>1. path'[1] = Target'
      BY <1>0, <1>1, <1>4, <2>3 DEF StackInv, Finding
    <3>2. \A i \in 1..Len(path') : rootOf'[path'[i]] = rootOf'[Target']
      <4>1. \A i \in 1..Len(path) : rootOf[path[i]] = rootOf[Target]
        BY <1>0 DEF StackInv, Finding
      <4>2. rootOf[parent[x]] = rootOf[Target]
        BY <4>1, <1>0, <1>1 DEF Forest
      <4> QED
        BY <4>1, <4>2, <2>3, <1>1, <1>3, <1>4
    <3>3. \A i \in 1..(Len(path') - 1) : parent'[path'[i]] = path'[i + 1]
      <4>1. \A i \in 1..(Len(path) - 1) : parent[path[i]] = path[i + 1]
        BY <1>0 DEF StackInv, Finding
      <4> QED
        BY <4>1, <2>3, <1>1, <1>3
    <3> QED
      BY <1>4, <2>1, <2>3, <3>1, <3>2, <3>3 DEF StackInv, Finding
  <2>7. LinkInv'
    BY <2>1 DEF LinkInv
  <2> QED
    BY <1>2, <1>5, <1>6, <2>4, <2>5, <2>6, <2>7 DEF GraphInv
<1> QED
  BY <1>7, <1>8

LEMMA CompressKeeps == ASSUME GraphInv, Compress PROVE GraphInv'
<1> DEFINE x == path[Len(path)]
           n == Len(path)
<1>0. /\ Typed /\ Forest /\ OffsetsAreTrue /\ Ranked /\ StackInv /\ LinkInv /\ EndsInv /\ AnswerInv
      /\ pc = "compress" /\ path # << >>
  BY DEF GraphInv, Compress
<1>1. path \in Seq(Nodes) /\ n \in Nat \ {0} /\ x \in Nodes /\ n \in 1..n
  <2>1. path \in Seq(Nodes)
    BY <1>0 DEF Typed
  <2> QED
    BY <1>0, <2>1, FrontShape
<1>2. UNCHANGED <<input, todo, edge, ends, asked, result, pc, percolates, rootOf, unwrapped>>
  BY DEF Compress
<1>3. /\ ComponentInv' /\ FlagInv' /\ RigidInv' /\ OrderInv'
      /\ United' = United /\ Sweeping' = Sweeping
  BY <1>2, RootsKept
<1>4. Target' = Target /\ Target \in Nodes
  BY <1>0, <1>2 DEF Target, NextNode, StackInv, Finding
<1>5. /\ link \in Links /\ link.root = rootOf[Target] /\ link.root \in Nodes /\ link.offset \in Offsets
      /\ link.offset = Minus(unwrapped[link.root], unwrapped[parent[x]])
  BY <1>0 DEF LinkInv, Links, Below
<1>6. rootOf[x] = link.root
  BY <1>0, <1>1, <1>5 DEF StackInv, Finding
<1>7. /\ parent' = [parent EXCEPT ![x] = link.root]
      /\ offsetToParent' = [offsetToParent EXCEPT ![x] = OffsetToRoot(x)]
      /\ link' = [link EXCEPT !.offset = OffsetToRoot(x)]
      /\ path' = Front(path)
  BY DEF Compress
<1>8. OffsetToRoot(x) = Minus(unwrapped[link.root], unwrapped[x]) /\ OffsetToRoot(x) \in Offsets
  <2>1. /\ unwrapped[x] \in Offsets /\ unwrapped[parent[x]] \in Offsets
        /\ unwrapped[link.root] \in Offsets
    BY <1>0, <1>1, <1>5 DEF Typed, Placements
  <2>2. offsetToParent[x] = Minus(unwrapped[parent[x]], unwrapped[x])
    BY <1>0, <1>1 DEF OffsetsAreTrue
  <2>3. Plus(Minus(unwrapped[parent[x]], unwrapped[x]),
             Minus(unwrapped[link.root], unwrapped[parent[x]]))
          = Minus(unwrapped[link.root], unwrapped[x])
    BY <2>1, Chasles
  <2>4. OffsetToRoot(x) = Minus(unwrapped[link.root], unwrapped[x])
    BY <2>2, <2>3, <1>5 DEF OffsetToRoot
  <2> QED
    BY <2>1, <2>4, Vectors
<1>9. /\ path' \in Seq(Nodes) /\ Len(path') = n - 1
      /\ \A i \in 1..(n - 1) : path'[i] = path[i]
  BY <1>0, <1>1, <1>7, FrontShape
<1>10. Typed'
  BY <1>0, <1>2, <1>3, <1>5, <1>7, <1>8, <1>9 DEF Typed, Passes
<1>11. Forest'
  <2> SUFFICES ASSUME NEW m \in Nodes
               PROVE  /\ rootOf[parent'[m]] = rootOf[m]
                      /\ rootOf[rootOf[m]] = rootOf[m]
                      /\ parent'[rootOf[m]] = rootOf[m]
                      /\ parent'[m] = m => rootOf[m] = m
    BY <1>2 DEF Forest
  <2>1. parent'[m] = IF m = x THEN link.root ELSE parent[m]
    BY <1>0, <1>7 DEF Typed
  <2>2. rootOf[m] \in Nodes
    BY <1>0 DEF Typed
  <2>3. parent'[rootOf[m]] = IF rootOf[m] = x THEN link.root ELSE parent[rootOf[m]]
    BY <1>0, <1>7, <2>2 DEF Typed
  <2> QED
    BY <1>0, <1>6, <2>1, <2>2, <2>3 DEF Forest
<1>12. OffsetsAreTrue'
  <2> SUFFICES ASSUME NEW m \in Nodes
               PROVE  offsetToParent'[m] = Minus(unwrapped[parent'[m]], unwrapped[m])
    BY <1>2 DEF OffsetsAreTrue
  <2>1. CASE m = x
    BY <2>1, <1>0, <1>7, <1>8 DEF Typed
  <2>2. CASE m # x
    BY <2>2, <1>0, <1>7 DEF Typed, OffsetsAreTrue
  <2> QED
    BY <2>1, <2>2
<1>13. ASSUME NEW h \in [Nodes -> Int], Ranks(h) PROVE Ranks(h)'
  <2>1. ASSUME NEW m \in Nodes, parent'[m] # m PROVE h[m] < h[parent'[m]]
    BY <2>1, <1>0, <1>1, <1>6, <1>7, <1>13 DEF Typed, Ranks
  <2>2. ASSUME NEW m \in Nodes, rootOf'[m] # m PROVE h[m] < h[rootOf'[m]]
    BY <2>2, <1>2, <1>13 DEF Ranks
  <2>3. ASSUME NEW i \in 1..Len(path'), NEW j \in 1..Len(path'), i < j
        PROVE  h[path'[i]] < h[path'[j]]
    <3>1. i \in 1..(n - 1) /\ j \in 1..(n - 1) /\ i \in 1..n /\ j \in 1..n
      BY <1>1, <1>9
    <3>2. h[path[i]] < h[path[j]]
      BY <3>1, <2>3, <1>13 DEF Ranks
    <3> QED
      BY <3>1, <3>2, <1>9
  <2> QED
    BY <2>1, <2>2, <2>3 DEF Ranks
<1>14. Ranked'
  BY <1>0, <1>13 DEF Ranked
(* The nodes further up are not x: its link may change. *)
<1>15. \A i \in 1..(n - 1) : path[i] # x /\ path[i] \in Nodes
  <2>1. PICK h \in [Nodes -> Int] : Ranks(h)
    BY <1>0 DEF Ranked
  <2> SUFFICES ASSUME NEW i \in 1..(n - 1) PROVE path[i] # x /\ path[i] \in Nodes
    OBVIOUS
  <2>2. i \in 1..n /\ i < n
    BY <1>1
  <2>3. h[path[i]] < h[x]
    BY <2>1, <2>2, <1>1 DEF Ranks
  <2>4. path[i] \in Nodes /\ h[path[i]] \in Int
    BY <2>2, <1>1
  <2> QED
    BY <2>3, <2>4
<1>16. StackInv'
  <2>1. path' # << >> => path'[1] = Target'
    <3>1. path' # << >> => 1 \in 1..(n - 1)
      BY <1>9, <1>1, EmptySeq
    <3> QED
      BY <3>1, <1>0, <1>4, <1>9 DEF StackInv, Finding
  <2>2. \A i \in 1..Len(path') : rootOf'[path'[i]] = rootOf'[Target']
    BY <1>0, <1>1, <1>2, <1>4, <1>9 DEF StackInv, Finding
  <2>3. ASSUME NEW i \in 1..(Len(path') - 1) PROVE parent'[path'[i]] = path'[i + 1]
    <3>1. i \in 1..(n - 1) /\ i + 1 \in 1..(n - 1)
      BY <1>1, <1>9
    <3>2. parent[path[i]] = path[i + 1]
      BY <3>1, <1>0 DEF StackInv, Finding
    <3>3. parent'[path[i]] = parent[path[i]]
      BY <3>1, <1>7, <1>15, <1>0 DEF Typed
    <3> QED
      BY <3>1, <3>2, <3>3, <1>9
  <2> QED
    BY <1>0, <1>2, <1>4, <2>1, <2>2, <2>3 DEF StackInv, Finding
<1>17. Below' = x
  <2>1. CASE n = 1
    <3>1. path' = << >>
      BY <2>1, <1>9, EmptySeq
    <3>2. path[1] = Target
      BY <1>0 DEF StackInv, Finding
    <3> QED
      BY <2>1, <3>1, <3>2, <1>4 DEF Below
  <2>2. CASE n # 1
    <3> HIDE DEF n
    <3>0. (n - 1) + 1 = n
      BY <1>1
    <3>1. n - 1 \in 1..(n - 1)
      BY <2>2, <1>1
    <3> USE DEF n
    <3>2. path' # << >> /\ path'[Len(path')] = path[n - 1]
      BY <3>1, <1>9, EmptySeq
    <3>3. parent[path[n - 1]] = x
      BY <3>0, <3>1, <1>0 DEF StackInv, Finding
    <3>4. parent'[path[n - 1]] = parent[path[n - 1]]
      BY <3>1, <1>7, <1>15, <1>0 DEF Typed
    <3> QED
      BY <3>2, <3>3, <3>4 DEF Below
  <2> QED
    BY <2>1, <2>2
<1>18. LinkInv'
  BY <1>2, <1>4, <1>5, <1>7, <1>8, <1>17 DEF LinkInv, Links
<1>19. EndsInv'
  BY <1>0, <1>2, <1>3 DEF EndsInv, Finding, IsNext
<1>20. AnswerInv'
  BY <1>0, <1>2, <1>3 DEF AnswerInv, ThresholdSeparates, Fits
<1> QED
  BY <1>3, <1>10, <1>11, <1>12, <1>14, <1>16, <1>18, <1>19, <1>20 DEF GraphInv

LEMMA TakeEdgeKeeps == ASSUME GraphInv, NEW e \in todo, TakeEdge(e) PROVE GraphInv'
<1>0. /\ Typed /\ Ranked /\ StackInv /\ AnswerInv /\ e \in input.edges /\ todo # {} /\ IsNext(e)
  BY DEF GraphInv, Typed, TakeEdge
<1>1. /\ Forest' /\ OffsetsAreTrue' /\ ComponentInv' /\ FlagInv' /\ RigidInv' /\ OrderInv'
      /\ United' = United /\ Sweeping' = Sweeping
  BY GraphKept DEF TakeEdge
<1>2. /\ UNCHANGED <<input, todo, asked, result, parent, offsetToParent, percolates,
                     rootOf, unwrapped>>
      /\ pc' = "descend" /\ edge' = e /\ ends' = << >> /\ path' = <<e.from>>
  BY DEF TakeEdge, forest
<1>3. e.from \in Nodes
  BY <1>0, EdgeShape DEF Typed
<1>4. path' \in Seq(Nodes) /\ Len(path') = 1 /\ path'[1] = e.from /\ path' # << >>
  BY <1>2, <1>3
<1>5. Target' = e.from
  BY <1>0, <1>2 DEF Target
<1>6. Typed'
  BY <1>0, <1>1, <1>2, <1>4 DEF Typed, Passes
<1>7. Ranked'
  <2>1. PICK h \in [Nodes -> Int] : Ranks(h)
    BY <1>0 DEF Ranked
  <2>2. Ranks(h)'
    BY <2>1, <1>2, <1>4 DEF Ranks
  <2> QED
    BY <2>2 DEF Ranked
<1>8. StackInv' /\ LinkInv'
  BY <1>2, <1>3, <1>4, <1>5 DEF StackInv, LinkInv, Finding
<1>9. EndsInv'
  BY <1>0, <1>1, <1>2 DEF EndsInv, Finding, IsNext
<1>10. AnswerInv'
  BY <1>0, <1>1, <1>2 DEF AnswerInv, ThresholdSeparates, Fits, TakeEdge
<1> QED
  BY <1>1, <1>6, <1>7, <1>8, <1>9, <1>10 DEF GraphInv

(* When find has returned: its answer is the root and the way to it. *)
LEMMA WhenFound ==
  ASSUME GraphInv, Found
  PROVE  /\ path = << >> /\ pc = "compress" /\ Finding
         /\ Target \in Nodes /\ link \in Links /\ link.root = rootOf[Target]
         /\ link.offset = Minus(unwrapped[link.root], unwrapped[Target])
BY DEF GraphInv, Found, StackInv, LinkInv, Finding, Below

LEMMA FoundFromKeeps == ASSUME GraphInv, FoundFrom PROVE GraphInv'
<1>0. /\ Typed /\ Ranked /\ StackInv /\ EndsInv /\ AnswerInv
      /\ Found /\ todo # {} /\ ends = << >>
  BY DEF GraphInv, FoundFrom
<1>1. /\ Forest' /\ OffsetsAreTrue' /\ ComponentInv' /\ FlagInv' /\ RigidInv' /\ OrderInv'
      /\ United' = United /\ Sweeping' = Sweeping
  BY GraphKept DEF FoundFrom
<1>2. /\ UNCHANGED <<input, todo, edge, asked, result, parent, offsetToParent, percolates,
                     rootOf, unwrapped>>
      /\ pc' = "descend" /\ ends' = <<link>> /\ path' = <<edge.to>>
  BY DEF FoundFrom, forest
<1>3. Target = edge.from
  BY <1>0 DEF Target
<1>4. edge \in todo /\ IsNext(edge) /\ edge \in input.edges
  BY <1>0, WhenFound DEF EndsInv, Typed
<1>5. edge.to \in Nodes
  BY <1>0, <1>4, EdgeShape DEF Typed
<1>6. path' \in Seq(Nodes) /\ Len(path') = 1 /\ path'[1] = edge.to /\ path' # << >>
  BY <1>2, <1>5
<1>7. ends' # << >> /\ ends'[1] = link /\ ends' = <<ends'[1]>>
  BY <1>2
<1>8. Target' = edge.to
  BY <1>0, <1>2, <1>7 DEF Target
<1>9. Typed'
  BY <1>0, <1>1, <1>2, <1>6 DEF Typed, Passes
<1>10. Ranked'
  <2>1. PICK h \in [Nodes -> Int] : Ranks(h)
    BY <1>0 DEF Ranked
  <2>2. Ranks(h)'
    BY <2>1, <1>2, <1>6 DEF Ranks
  <2> QED
    BY <2>2 DEF Ranked
<1>11. StackInv' /\ LinkInv'
  BY <1>2, <1>5, <1>6, <1>8 DEF StackInv, LinkInv, Finding
<1>12. EndsInv'
  BY <1>0, <1>1, <1>2, <1>3, <1>4, <1>7, WhenFound DEF EndsInv, Finding, IsNext
<1>13. AnswerInv'
  BY <1>0, <1>1, <1>2, WhenFound DEF AnswerInv, ThresholdSeparates, Fits
<1> QED
  BY <1>1, <1>9, <1>10, <1>11, <1>12, <1>13 DEF GraphInv

LEMMA AskKeeps == ASSUME GraphInv, Ask PROVE GraphInv'
<1>0. /\ Typed /\ Ranked /\ StackInv /\ AnswerInv
      /\ pc = "sweep" /\ todo = {} /\ ~Sweeping /\ asked # Nodes
  BY DEF GraphInv, Ask
<1>1. /\ Forest' /\ OffsetsAreTrue' /\ ComponentInv' /\ FlagInv' /\ RigidInv' /\ OrderInv'
      /\ United' = United /\ Sweeping' = Sweeping
  BY GraphKept DEF Ask
<1>2. /\ UNCHANGED <<input, todo, edge, ends, asked, result, parent, offsetToParent, percolates,
                     rootOf, unwrapped>>
      /\ pc' = "descend" /\ path' = <<NextNode>>
  BY DEF Ask, forest
<1>3. NextNode \in Nodes
  BY <1>0 DEF Typed, NextNode
<1>4. path' \in Seq(Nodes) /\ Len(path') = 1 /\ path'[1] = NextNode /\ path' # << >>
  BY <1>2, <1>3
<1>5. Target' = NextNode
  BY <1>0, <1>2 DEF Target, NextNode
<1>6. Typed'
  BY <1>0, <1>1, <1>2, <1>4 DEF Typed, Passes
<1>7. Ranked'
  <2>1. PICK h \in [Nodes -> Int] : Ranks(h)
    BY <1>0 DEF Ranked
  <2>2. Ranks(h)'
    BY <2>1, <1>2, <1>4 DEF Ranks
  <2> QED
    BY <2>2 DEF Ranked
<1>8. StackInv' /\ LinkInv'
  BY <1>2, <1>3, <1>4, <1>5 DEF StackInv, LinkInv, Finding
<1>9. EndsInv'
  BY <1>0, <1>1, <1>2 DEF EndsInv, Finding
<1>10. AnswerInv'
  BY <1>0, <1>1, <1>2 DEF AnswerInv, ThresholdSeparates, Fits
<1> QED
  BY <1>1, <1>6, <1>7, <1>8, <1>9, <1>10 DEF GraphInv

LEMMA ReadFlagKeeps == ASSUME GraphInv, ReadFlag PROVE GraphInv'
<1>0. /\ Typed /\ Ranked /\ StackInv /\ EndsInv /\ AnswerInv /\ Found /\ todo = {}
  BY DEF GraphInv, ReadFlag
<1>1. /\ Forest' /\ OffsetsAreTrue' /\ ComponentInv' /\ FlagInv' /\ RigidInv' /\ OrderInv'
      /\ United' = United /\ Sweeping' = Sweeping
  BY GraphKept DEF ReadFlag
<1>2. /\ UNCHANGED <<input, todo, path, parent, offsetToParent, percolates, rootOf, unwrapped>>
      /\ pc' = "sweep" /\ asked' = asked \cup {NextNode}
      /\ result' = IF percolates[link.root] THEN result \cup {NextNode} ELSE result
  BY DEF ReadFlag, forest
<1>3. ~Sweeping /\ Target = NextNode /\ link.root = rootOf[NextNode] /\ NextNode \in Nodes
      /\ path = << >>
  BY <1>0, WhenFound DEF EndsInv, Target
<1>4. Typed'
  BY <1>0, <1>1, <1>2, <1>3 DEF Typed, Passes
<1>5. Ranked'
  BY <1>0, <1>2 DEF Ranked, Ranks
<1>6. StackInv' /\ LinkInv' /\ EndsInv'
  BY <1>2, <1>3 DEF StackInv, LinkInv, EndsInv, Finding
<1>7. result' = {n \in asked' : percolates'[rootOf'[n]]}
  BY <1>0, <1>2, <1>3 DEF AnswerInv
<1>8. AnswerInv'
  BY <1>0, <1>1, <1>2, <1>3, <1>7 DEF AnswerInv, ThresholdSeparates
<1> QED
  BY <1>1, <1>4, <1>5, <1>6, <1>8 DEF GraphInv

LEMMA ReturnKeeps == ASSUME GraphInv, Return PROVE GraphInv'
<1>0. /\ Typed /\ Ranked /\ StackInv /\ AnswerInv
      /\ pc = "sweep" /\ todo = {} /\ (Sweeping \/ asked = Nodes)
  BY DEF GraphInv, Return
<1>1. /\ Forest' /\ OffsetsAreTrue' /\ ComponentInv' /\ FlagInv' /\ RigidInv' /\ OrderInv'
      /\ United' = United /\ Sweeping' = Sweeping
  BY GraphKept DEF Return
<1>2. /\ UNCHANGED <<input, todo, path, asked, parent, offsetToParent, percolates, rootOf, unwrapped>>
      /\ pc' = "done" /\ result' = IF Sweeping THEN {0} ELSE result
  BY DEF Return, forest
<1>3. Typed'
  BY <1>0, <1>1, <1>2 DEF Typed, Passes
<1>4. Ranked'
  BY <1>0, <1>2 DEF Ranked, Ranks
<1>5. StackInv' /\ LinkInv' /\ EndsInv'
  BY <1>0, <1>2 DEF StackInv, LinkInv, EndsInv, Finding
<1>6. CASE Sweeping
  <2>1. United = input.edges
    BY <1>0, <1>6 DEF United, Passes
  <2>2. \A e \in input.edges : Fits(unwrapped, e)
    BY <2>1, <1>0, <1>6 DEF AnswerInv
  <2>3. unwrapped \in Placements
    BY <1>0 DEF Typed
  <2>4. ThresholdSeparates'
    BY <2>2, <2>3, <1>2, <1>6 DEF ThresholdSeparates, Fits
  <2> QED
    BY <2>4, <1>1, <1>2, <1>3, <1>4, <1>5, <1>6 DEF GraphInv, AnswerInv
<1>7. CASE ~Sweeping
  <2>1. AnswerInv'
    BY <1>0, <1>1, <1>2, <1>7 DEF AnswerInv, ThresholdSeparates
  <2> QED
    BY <2>1, <1>1, <1>3, <1>4, <1>5 DEF GraphInv
<1> QED
  BY <1>6, <1>7

-----------------------------------------------------------------------------
(* Steps that unite an edge.                                                *)

LEMMA UnitedGrows ==
  ASSUME Typed, edge \in todo, input' = input, todo' = Rest
  PROVE  United' = United \cup {edge} /\ edge \in input.edges /\ Sweeping' = Sweeping
BY DEF Typed, United, Passes, Sweeping, Rest

(* What is known of both ends when unite has found them. *)
LEMMA BothFound ==
  ASSUME GraphInv, FoundBoth
  PROVE  /\ edge \in todo /\ edge \in input.edges /\ IsNext(edge)
         /\ edge.from \in Nodes /\ edge.to \in Nodes
         /\ edge.weight \in Int /\ edge.imageOffset \in Offsets
         /\ ends[1].root = rootOf[edge.from] /\ link.root = rootOf[edge.to]
         /\ ends[1].offset = Minus(unwrapped[ends[1].root], unwrapped[edge.from])
         /\ link.offset = Minus(unwrapped[link.root], unwrapped[edge.to])
         /\ path = << >> /\ pc = "compress"
<1>1. Found /\ todo # {} /\ ends # << >>
  BY DEF FoundBoth
<1>2. Target = edge.to
  BY <1>1 DEF Target
<1>3. /\ edge \in todo /\ IsNext(edge)
      /\ ends[1].root = rootOf[edge.from]
      /\ ends[1].offset = Minus(unwrapped[ends[1].root], unwrapped[edge.from])
  BY <1>1, WhenFound DEF GraphInv, EndsInv
<1>4. edge \in input.edges /\ IsInput(input)
  BY <1>3 DEF GraphInv, Typed
<1> QED
  BY <1>1, <1>2, <1>3, <1>4, WhenFound, EdgeShape

LEMMA CloseCycleKeeps == ASSUME GraphInv, CloseCycle PROVE GraphInv'
<1>0. /\ Typed /\ Forest /\ OffsetsAreTrue /\ Ranked /\ ComponentInv /\ FlagInv /\ RigidInv
      /\ OrderInv /\ AnswerInv /\ FoundBoth /\ ends[1].root = link.root
  BY DEF GraphInv, CloseCycle
<1>1. /\ edge \in todo /\ edge \in input.edges /\ IsNext(edge)
      /\ edge.from \in Nodes /\ edge.to \in Nodes
      /\ edge.weight \in Int /\ edge.imageOffset \in Offsets
      /\ ends[1].root = rootOf[edge.from] /\ link.root = rootOf[edge.to]
      /\ ends[1].offset = Minus(unwrapped[ends[1].root], unwrapped[edge.from])
      /\ link.offset = Minus(unwrapped[link.root], unwrapped[edge.to])
      /\ path = << >> /\ pc = "compress"
  BY <1>0, BothFound
<1>2. /\ UNCHANGED <<input, parent, offsetToParent, edge, path, asked, rootOf, unwrapped>>
      /\ percolates' = [percolates EXCEPT ![link.root] = @ \/ CycleOffset # Zero]
      /\ todo' = Rest
      /\ pc' \in {"sweep", "done"}
  BY DEF CloseCycle
<1>3. United' = United \cup {edge} /\ Sweeping' = Sweeping
  BY <1>0, <1>1, <1>2, UnitedGrows
<1>4. /\ link.root \in Nodes /\ unwrapped[edge.from] \in Offsets /\ unwrapped[edge.to] \in Offsets
      /\ unwrapped[link.root] \in Offsets
  BY <1>0, <1>1 DEF Typed, Placements
<1>5. CycleOffset = Zero <=> Fits(unwrapped, edge)
  <2>1. CycleOffset =
          Minus(Plus(edge.imageOffset, Minus(unwrapped[link.root], unwrapped[edge.to])),
                Minus(unwrapped[link.root], unwrapped[edge.from]))
    BY <1>0, <1>1 DEF CycleOffset
  <2> QED
    BY <2>1, <1>1, <1>4, CycleVector DEF Fits
<1>6. Typed'
  BY <1>0, <1>2, <1>3, <1>4 DEF Typed, Passes, Rest
<1>7. Forest' /\ OffsetsAreTrue' /\ Ranked'
  BY <1>0, <1>2 DEF Forest, OffsetsAreTrue, Ranked, Ranks
<1>8. StackInv' /\ LinkInv' /\ EndsInv'
  BY <1>1, <1>2 DEF StackInv, LinkInv, EndsInv, Finding
<1>9. ComponentInv'
  <2>1. \A C : Closed(C, United') => Closed(C, United)
    BY <1>3 DEF Closed
  <2> QED
    BY <2>1, <1>0, <1>1, <1>2, <1>3 DEF ComponentInv
<1>10. FlagInv'
  <2> SUFFICES ASSUME NEW n \in Nodes
               PROVE  percolates'[rootOf[n]] <=>
                        \E e \in United' : rootOf[e.from] = rootOf[n] /\ ~Fits(unwrapped, e)
    BY <1>2 DEF FlagInv, Fits
  <2>1. percolates[rootOf[n]] <=>
          \E e \in United : rootOf[e.from] = rootOf[n] /\ ~Fits(unwrapped, e)
    BY <1>0 DEF FlagInv
  <2>2. rootOf[n] \in Nodes
    BY <1>0 DEF Typed
  <2>3. CASE rootOf[n] = link.root
    <3>1. percolates'[rootOf[n]] = (percolates[rootOf[n]] \/ CycleOffset # Zero)
      BY <2>2, <2>3, <1>0, <1>2 DEF Typed
    <3> QED
      BY <2>1, <2>3, <3>1, <1>0, <1>1, <1>3, <1>5
  <2>4. CASE rootOf[n] # link.root
    <3>1. percolates'[rootOf[n]] = percolates[rootOf[n]]
      BY <2>2, <2>4, <1>0, <1>2 DEF Typed
    <3> QED
      BY <2>1, <2>4, <3>1, <1>0, <1>1, <1>3
  <2> QED
    BY <2>3, <2>4
<1>11. RigidInv'
  BY <1>0, <1>2, <1>3 DEF RigidInv
<1>12. OrderInv'
  BY <1>0, <1>1, <1>2, <1>3 DEF OrderInv, IsNext, Rest
<1>13. CASE ~Sweeping
  <2>1. result' = result /\ pc' = "sweep"
    BY <1>13 DEF CloseCycle
  <2>2. asked = {} /\ result = {}
    BY <1>0, <1>1, <1>13 DEF AnswerInv
  <2>3. AnswerInv'
    BY <2>1, <2>2, <1>2, <1>3, <1>13 DEF AnswerInv, ThresholdSeparates
  <2> QED
    BY <2>3, <1>6, <1>7, <1>8, <1>9, <1>10, <1>11, <1>12 DEF GraphInv
<1>14. CASE Sweeping /\ CycleOffset = Zero
  <2>1. pc' = "sweep"
    BY <1>14 DEF CloseCycle
  <2>2. \A e \in United' : Fits(unwrapped, e)
    BY <1>0, <1>1, <1>3, <1>5, <1>14 DEF AnswerInv
  <2>3. AnswerInv'
    BY <2>1, <2>2, <1>2, <1>3, <1>14 DEF AnswerInv, ThresholdSeparates, Fits
  <2> QED
    BY <2>3, <1>6, <1>7, <1>8, <1>9, <1>10, <1>11, <1>12 DEF GraphInv
<1>15. CASE Sweeping /\ CycleOffset # Zero
  <2>1. result' = {edge.weight} /\ pc' = "done"
    BY <1>15 DEF CloseCycle
  <2>2. \A e \in United : Fits(unwrapped, e)
    BY <1>0, <1>1, <1>15 DEF AnswerInv
  <2>3. ASSUME NEW e \in input.edges, e.weight > edge.weight PROVE Fits(unwrapped, e)
    <3>1. e.weight \in Int
      BY <1>0, EdgeShape DEF Typed
    <3>2. e \notin todo
      BY <3>1, <2>3, <1>1, <1>15 DEF IsNext
    <3> QED
      BY <3>2, <2>2, <1>15 DEF United, Passes
  <2>4. ASSUME NEW place \in Placements PROVE \E e \in Wider(edge.weight) : ~Fits(place, e)
    <3> SUFFICES ASSUME \A e \in Wider(edge.weight) : Fits(place, e) PROVE FALSE
      OBVIOUS
    <3>1. edge \in Wider(edge.weight)
      BY <1>1 DEF Wider
    <3>2. United \subseteq Wider(edge.weight)
      BY <1>0, <1>1, <1>15 DEF OrderInv, United, Wider
    <3>3. Minus(place[edge.to], place[edge.from]) = Minus(unwrapped[edge.to], unwrapped[edge.from])
      BY <3>2, <1>0, <1>1 DEF RigidInv
    <3>4. place[edge.to] \in Offsets /\ place[edge.from] \in Offsets
      BY <1>1 DEF Placements
    <3>5. Fits(unwrapped, edge)
      BY <3>1, <3>3, <3>4, <1>1, <1>4, SameDifference DEF Fits
    <3> QED
      BY <3>5, <1>5, <1>15
  <2>5. ThresholdSeparates'
    <3>1. unwrapped \in Placements
      BY <1>0 DEF Typed
    <3>2. Wider(edge.weight)' = Wider(edge.weight)
      BY <1>2 DEF Wider
    <3> QED
      BY <2>1, <2>3, <2>4, <3>1, <1>1, <1>2 DEF ThresholdSeparates, Fits, Wider
  <2> QED
    BY <2>1, <2>5, <1>2, <1>3, <1>6, <1>7, <1>8, <1>9, <1>10, <1>11, <1>12, <1>15
    DEF GraphInv, AnswerInv
<1> QED
  BY <1>13, <1>14, <1>15

LEMMA JoinKeeps == ASSUME GraphInv, Join PROVE GraphInv'
<1> DEFINE U == ends[1].root
           V == link.root
           shift == Minus(Plus(unwrapped[edge.from], edge.imageOffset), unwrapped[edge.to])
<1>0. /\ Typed /\ Forest /\ OffsetsAreTrue /\ Ranked /\ ComponentInv /\ FlagInv /\ RigidInv
      /\ OrderInv /\ AnswerInv /\ FoundBoth /\ U # V
  BY DEF GraphInv, Join
<1>1. /\ edge \in todo /\ edge \in input.edges /\ IsNext(edge)
      /\ edge.from \in Nodes /\ edge.to \in Nodes
      /\ edge.weight \in Int /\ edge.imageOffset \in Offsets
      /\ U = rootOf[edge.from] /\ V = rootOf[edge.to]
      /\ ends[1].offset = Minus(unwrapped[U], unwrapped[edge.from])
      /\ link.offset = Minus(unwrapped[V], unwrapped[edge.to])
      /\ path = << >> /\ pc = "compress"
  BY <1>0, BothFound
<1>2. /\ UNCHANGED <<input, edge, path, link, ends, asked, result>>
      /\ parent' = [parent EXCEPT ![V] = U]
      /\ offsetToParent' = [offsetToParent EXCEPT ![V] =
           Minus(ends[1].offset, Plus(edge.imageOffset, link.offset))]
      /\ percolates' = [percolates EXCEPT ![U] = EitherFlag(U, V)]
      /\ rootOf' = [n \in Nodes |-> IF rootOf[n] = V THEN U ELSE rootOf[n]]
      /\ unwrapped' = [n \in Nodes |->
           IF rootOf[n] = V THEN Plus(unwrapped[n], shift) ELSE unwrapped[n]]
      /\ todo' = Rest /\ pc' = "sweep"
  BY DEF Join
<1>3. United' = United \cup {edge} /\ Sweeping' = Sweeping
  BY <1>0, <1>1, <1>2, UnitedGrows
<1>4. /\ U \in Nodes /\ V \in Nodes /\ rootOf[U] = U /\ rootOf[V] = V
      /\ parent[U] = U /\ parent[V] = V
  BY <1>0, <1>1 DEF Typed, Forest
<1>5. /\ \A n \in Nodes : unwrapped[n] \in Offsets /\ rootOf[n] \in Nodes /\ parent[n] \in Nodes
      /\ shift \in Offsets
  BY <1>0, <1>1, Vectors DEF Typed, Placements
<1> HIDE DEF U, V, shift
<1>6. \A n \in Nodes : rootOf'[n] = IF rootOf[n] = V THEN U ELSE rootOf[n]
  BY <1>2
<1>7. \A n \in Nodes :
        unwrapped'[n] = IF rootOf[n] = V THEN Plus(unwrapped[n], shift) ELSE unwrapped[n]
  BY <1>2
<1>8. Typed'
  <2>1. \A n \in Nodes : unwrapped'[n] \in Offsets
    BY <1>5, <1>7, Vectors
  <2>2. unwrapped' \in Placements
    BY <2>1, <1>2 DEF Placements
  <2>3. offsetToParent' \in [Nodes -> Offsets]
    BY <1>0, <1>1, <1>2, <1>4, <1>5, Vectors DEF Typed
  <2> QED
    BY <2>2, <2>3, <1>0, <1>2, <1>3, <1>4 DEF Typed, Passes, Rest, EitherFlag
<1>9. Forest'
  <2> SUFFICES ASSUME NEW n \in Nodes
               PROVE  /\ rootOf'[parent'[n]] = rootOf'[n]
                      /\ rootOf'[rootOf'[n]] = rootOf'[n]
                      /\ parent'[rootOf'[n]] = rootOf'[n]
                      /\ parent'[n] = n => rootOf'[n] = n
    BY DEF Forest
  <2>1. \A m \in Nodes : parent'[m] = IF m = V THEN U ELSE parent[m]
    BY <1>0, <1>2 DEF Typed
  <2>2. rootOf'[U] = U /\ parent'[U] = U
    BY <2>1, <1>0, <1>4, <1>6
  <2>3. CASE n = V
    BY <2>1, <2>2, <2>3, <1>0, <1>4, <1>6
  <2>4. CASE n # V
    <3>1. /\ rootOf[parent[n]] = rootOf[n] /\ rootOf[rootOf[n]] = rootOf[n]
          /\ parent[rootOf[n]] = rootOf[n] /\ (parent[n] = n => rootOf[n] = n)
      BY <1>0 DEF Forest
    <3>2. parent'[n] = parent[n]
      BY <2>1, <2>4
    <3>3. rootOf'[parent[n]] = rootOf'[n]
      BY <3>1, <1>5, <1>6
    <3>4. CASE rootOf[n] = V
      BY <3>1, <3>2, <3>3, <3>4, <2>2, <2>4, <1>6
    <3>5. CASE rootOf[n] # V
      BY <3>1, <3>2, <3>3, <3>5, <2>1, <1>5, <1>6
    <3> QED
      BY <3>4, <3>5
  <2> QED
    BY <2>3, <2>4
<1>10. OffsetsAreTrue'
  <2> SUFFICES ASSUME NEW n \in Nodes
               PROVE  offsetToParent'[n] = Minus(unwrapped'[parent'[n]], unwrapped'[n])
    BY DEF OffsetsAreTrue
  <2>1. CASE n = V
    <3>1. /\ parent'[n] = U
          /\ offsetToParent'[n] = Minus(ends[1].offset, Plus(edge.imageOffset, link.offset))
      BY <2>1, <1>0, <1>2, <1>4 DEF Typed
    <3>2. unwrapped'[U] = unwrapped[U] /\ unwrapped'[V] = Plus(unwrapped[V], shift)
      BY <1>0, <1>4, <1>7
    <3>3. Minus(Minus(unwrapped[U], unwrapped[edge.from]),
                Plus(edge.imageOffset, Minus(unwrapped[V], unwrapped[edge.to])))
            = Minus(unwrapped[U], Plus(unwrapped[V], shift))
      BY <1>1, <1>4, <1>5, JoinVector, SMTT(30) DEF shift
    <3> QED
      BY <3>1, <3>2, <3>3, <2>1, <1>1
  <2>2. CASE n # V
    <3>1. parent'[n] = parent[n] /\ offsetToParent'[n] = offsetToParent[n]
      BY <2>2, <1>0, <1>2 DEF Typed
    <3>2. offsetToParent[n] = Minus(unwrapped[parent[n]], unwrapped[n])
      BY <1>0 DEF OffsetsAreTrue
    <3>3. rootOf[parent[n]] = rootOf[n]
      BY <1>0 DEF Forest
    <3>4. CASE rootOf[n] = V
      BY <3>1, <3>2, <3>3, <3>4, <1>5, <1>7, ShiftKeeps
    <3>5. CASE rootOf[n] # V
      BY <3>1, <3>2, <3>3, <3>5, <1>5, <1>7
    <3> QED
      BY <3>4, <3>5
  <2> QED
    BY <2>1, <2>2
<1>11. Ranked'
  <2>1. PICK h \in [Nodes -> Int] : Ranks(h)
    BY <1>0 DEF Ranked
  <2> DEFINE rise == (h[V] - h[U]) + 1
             g == [n \in Nodes |-> IF rootOf[n] = U THEN h[n] + rise ELSE h[n]]
  <2>2. rise \in Int /\ h[U] + rise = h[V] + 1 /\ h[V] \in Int /\ h[U] \in Int
    BY <1>4
  <2> HIDE DEF rise
  <2>3. g \in [Nodes -> Int]
    BY <2>2
  <2>4. \A n \in Nodes : g[n] = IF rootOf[n] = U THEN h[n] + rise ELSE h[n]
    OBVIOUS
  <2> HIDE DEF g
  <2>5. ASSUME NEW n \in Nodes, parent'[n] # n PROVE g[n] < g[parent'[n]]
    <3>1. CASE n = V
      <4>1. parent'[n] = U
        BY <3>1, <1>0, <1>2, <1>4 DEF Typed
      <4>2. g[U] = h[V] + 1 /\ g[V] = h[V]
        BY <2>2, <2>4, <1>0, <1>4
      <4> QED
        BY <3>1, <4>1, <4>2, <2>2
    <3>2. CASE n # V
      <4>1. parent'[n] = parent[n]
        BY <3>2, <1>0, <1>2 DEF Typed
      <4>2. h[n] < h[parent[n]] /\ rootOf[parent[n]] = rootOf[n] /\ parent[n] \in Nodes
        BY <4>1, <2>1, <2>5, <1>0, <1>5 DEF Ranks, Forest
      <4>3. h[n] \in Int /\ h[parent[n]] \in Int
        BY <4>2
      <4>4. CASE rootOf[n] = U
        <5>1. g[n] = h[n] + rise /\ g[parent[n]] = h[parent[n]] + rise
          BY <2>4, <4>2, <4>4
        <5> QED
          BY <5>1, <4>1, <4>2, <4>3, <2>2
      <4>5. CASE rootOf[n] # U
        <5>1. g[n] = h[n] /\ g[parent[n]] = h[parent[n]]
          BY <2>4, <4>2, <4>5
        <5> QED
          BY <5>1, <4>1, <4>2
      <4> QED
        BY <4>4, <4>5
    <3> QED
      BY <3>1, <3>2
  <2>6. ASSUME NEW n \in Nodes, rootOf'[n] # n PROVE g[n] < g[rootOf'[n]]
    <3>1. CASE rootOf[n] = V
      <4>1. rootOf'[n] = U
        BY <3>1, <1>6
      <4>2. g[U] = h[V] + 1 /\ g[n] = h[n]
        BY <3>1, <2>2, <2>4, <1>0, <1>4
      <4>3. h[n] < h[V] \/ n = V
        BY <3>1, <2>1 DEF Ranks
      <4>4. h[n] \in Int
        OBVIOUS
      <4> QED
        BY <4>1, <4>2, <4>3, <4>4, <2>2
    <3>2. CASE rootOf[n] # V
      <4>1. rootOf'[n] = rootOf[n]
        BY <3>2, <1>6
      <4>2. h[n] < h[rootOf[n]] /\ rootOf[rootOf[n]] = rootOf[n] /\ rootOf[n] \in Nodes
        BY <4>1, <2>1, <2>6, <1>0, <1>5 DEF Ranks, Forest
      <4>3. h[n] \in Int /\ h[rootOf[n]] \in Int
        BY <4>2
      <4>4. CASE rootOf[n] = U
        <5>1. g[n] = h[n] + rise /\ g[rootOf[n]] = h[rootOf[n]] + rise
          BY <2>4, <4>2, <4>4
        <5> QED
          BY <5>1, <4>1, <4>2, <4>3, <2>2
      <4>5. CASE rootOf[n] # U
        <5>1. g[n] = h[n] /\ g[rootOf[n]] = h[rootOf[n]]
          BY <2>4, <4>2, <4>5
        <5> QED
          BY <5>1, <4>1, <4>2
      <4> QED
        BY <4>4, <4>5
    <3> QED
      BY <3>1, <3>2
  <2>7. Len(path') = 0
    BY <1>1, <1>2
  <2>8. \E k \in [Nodes -> Int] :
          /\ \A n \in Nodes : parent'[n] # n => k[n] < k[parent'[n]]
          /\ \A n \in Nodes : rootOf'[n] # n => k[n] < k[rootOf'[n]]
    BY <2>3, <2>5, <2>6
  <2> QED
    BY <2>7, <2>8 DEF Ranked, Ranks
<1>12. StackInv' /\ LinkInv' /\ EndsInv'
  BY <1>1, <1>2 DEF StackInv, LinkInv, EndsInv, Finding
<1>13. \A e \in United : e.from \in Nodes /\ e.to \in Nodes /\ e.imageOffset \in Offsets
  BY <1>0, EdgeShape DEF Typed, United
(* The new edge fits, and the others as before. *)
<1>14. Fits(unwrapped', edge)
  <2>1. Plus(unwrapped[edge.to], shift) = Plus(unwrapped[edge.from], edge.imageOffset)
    BY <1>1, <1>5, ShiftMeets DEF shift
  <2> QED
    BY <2>1, <1>0, <1>1, <1>7 DEF Fits
<1>15. ASSUME NEW e \in United PROVE Fits(unwrapped', e) <=> Fits(unwrapped, e)
  <2>1. rootOf[e.from] = rootOf[e.to]
    BY <1>0 DEF ComponentInv
  <2>2. CASE rootOf[e.from] = V
    <3>1. /\ unwrapped'[e.to] = Plus(unwrapped[e.to], shift)
          /\ unwrapped'[e.from] = Plus(unwrapped[e.from], shift)
      BY <2>1, <2>2, <1>7, <1>13
    <3>2. Plus(unwrapped[e.to], shift) = Plus(Plus(unwrapped[e.from], shift), e.imageOffset)
            <=> unwrapped[e.to] = Plus(unwrapped[e.from], e.imageOffset)
      BY <1>5, <1>13, ShiftFits
    <3> QED
      BY <3>1, <3>2 DEF Fits
  <2>3. CASE rootOf[e.from] # V
    BY <2>1, <2>3, <1>7, <1>13 DEF Fits
  <2> QED
    BY <2>2, <2>3
<1>16. ComponentInv'
  <2>1. ASSUME NEW e \in United' PROVE rootOf'[e.from] = rootOf'[e.to]
    <3>1. CASE e \in United
      BY <3>1, <1>0, <1>6, <1>13 DEF ComponentInv
    <3>2. CASE e = edge
      BY <3>2, <1>0, <1>1, <1>6
    <3> QED
      BY <3>1, <3>2, <1>3
  <2>2. ASSUME NEW C \in SUBSET Nodes, Closed(C, United'), NEW x \in Nodes, NEW y \in Nodes,
               rootOf'[x] = rootOf'[y]
        PROVE  x \in C <=> y \in C
    <3>1. Closed(C, United) /\ (edge.from \in C <=> edge.to \in C)
      BY <2>2, <1>3 DEF Closed
    <3>2. \A m, n \in Nodes : rootOf[m] = rootOf[n] => (m \in C <=> n \in C)
      BY <3>1, <1>0 DEF ComponentInv
    <3>3. \A m \in Nodes : rootOf[m] \in {U, V} => (m \in C <=> edge.from \in C)
      BY <3>1, <3>2, <1>1
    <3> QED
      BY <3>2, <3>3, <2>2, <1>6
  <2> QED
    BY <2>1, <2>2 DEF ComponentInv
<1>17. FlagInv'
  <2> SUFFICES ASSUME NEW n \in Nodes
               PROVE  percolates'[rootOf'[n]] <=>
                        \E e \in United' : rootOf'[e.from] = rootOf'[n] /\ ~Fits(unwrapped', e)
    BY DEF FlagInv, Fits
  <2>1. \A m \in Nodes : percolates[rootOf[m]] <=>
          \E e \in United : rootOf[e.from] = rootOf[m] /\ ~Fits(unwrapped, e)
    BY <1>0 DEF FlagInv
  <2>2. \A m \in Nodes : percolates'[m] = IF m = U THEN percolates[U] \/ percolates[V] ELSE percolates[m]
    BY <1>0, <1>2 DEF Typed, EitherFlag
  <2>3. (\E e \in United' : rootOf'[e.from] = rootOf'[n] /\ ~Fits(unwrapped', e))
          <=> \E e \in United : rootOf'[e.from] = rootOf'[n] /\ ~Fits(unwrapped, e)
    BY <1>3, <1>14, <1>15
  <2>4. CASE rootOf[n] \in {U, V}
    <3>1. rootOf'[n] = U
      BY <2>4, <1>6
    <3>2. percolates'[U] <=> percolates[U] \/ percolates[V]
      BY <2>2, <1>4
    <3>3. /\ percolates[U] <=> \E e \in United : rootOf[e.from] = U /\ ~Fits(unwrapped, e)
          /\ percolates[V] <=> \E e \in United : rootOf[e.from] = V /\ ~Fits(unwrapped, e)
      BY <2>1, <1>4
    <3>4. \A e \in United : rootOf'[e.from] = U <=> rootOf[e.from] = U \/ rootOf[e.from] = V
      BY <1>6, <1>13
    <3> QED
      BY <3>1, <3>2, <3>3, <3>4, <2>3
  <2>5. CASE rootOf[n] \notin {U, V}
    <3>1. rootOf'[n] = rootOf[n] /\ rootOf[n] \in Nodes
      BY <2>5, <1>5, <1>6
    <3>2. percolates'[rootOf[n]] = percolates[rootOf[n]]
      BY <3>1, <2>2, <2>5
    <3>3. \A e \in United : rootOf'[e.from] = rootOf[n] <=> rootOf[e.from] = rootOf[n]
      BY <2>5, <1>6, <1>13
    <3> QED
      BY <3>1, <3>2, <3>3, <2>1, <2>3
  <2> QED
    BY <2>4, <2>5
<1>18. RigidInv'
  <2> SUFFICES ASSUME NEW place \in Placements, NEW x \in Nodes, NEW y \in Nodes,
                      rootOf'[x] = rootOf'[y],
                      \A e \in United' : rootOf'[e.from] = rootOf'[x] => Fits(place, e)
               PROVE  Minus(place[x], place[y]) = Minus(unwrapped'[x], unwrapped'[y])
    BY DEF RigidInv
  <2>1. \A m \in Nodes : place[m] \in Offsets
    BY DEF Placements
  <2>2. ASSUME NEW m \in Nodes, NEW k \in Nodes, rootOf[m] = rootOf[k], rootOf'[m] = rootOf'[x]
        PROVE  Minus(place[m], place[k]) = Minus(unwrapped[m], unwrapped[k])
    <3>1. \A e \in United : rootOf[e.from] = rootOf[m] => Fits(place, e)
      BY <2>2, <1>3, <1>6, <1>13
    <3> QED
      BY <3>1, <2>2, <1>0 DEF RigidInv
  <2>3. CASE rootOf[x] = rootOf[y]
    <3>1. Minus(place[x], place[y]) = Minus(unwrapped[x], unwrapped[y])
      BY <2>2, <2>3
    <3>2. CASE rootOf[x] = V
      BY <3>1, <3>2, <2>3, <1>5, <1>7, ShiftKeeps
    <3>3. CASE rootOf[x] # V
      BY <3>1, <3>3, <2>3, <1>7
    <3> QED
      BY <3>2, <3>3
  <2>4. ASSUME NEW m \in Nodes, NEW k \in Nodes, rootOf[m] = U, rootOf[k] = V, rootOf'[x] = U
        PROVE  Minus(place[m], place[k]) = Minus(unwrapped'[m], unwrapped'[k])
    <3>1. rootOf'[m] = U /\ rootOf'[edge.to] = U /\ rootOf'[edge.from] = U
      BY <2>4, <1>1, <1>6
    <3>2. Fits(place, edge)
      BY <3>1, <2>4, <1>3
    <3>3. Minus(place[m], place[edge.from]) = Minus(unwrapped[m], unwrapped[edge.from])
      BY <3>1, <2>2, <2>4, <1>1
    <3>4. Minus(place[edge.to], place[k]) = Minus(unwrapped[edge.to], unwrapped[k])
      BY <3>1, <2>2, <2>4, <1>1
    <3>5. Minus(place[m], place[k]) = Minus(unwrapped[m], Plus(unwrapped[k], shift))
      <4>1. place[edge.to] = Plus(place[edge.from], edge.imageOffset)
        BY <3>2 DEF Fits
      <4>2. /\ edge.from \in Nodes /\ edge.to \in Nodes /\ edge.imageOffset \in Offsets
            /\ unwrapped \in Placements /\ place[edge.to] \in Offsets /\ place[k] \in Offsets
        BY <2>1, <1>0, <1>1 DEF Typed
      <4>3. Minus(Plus(Minus(place[m], place[edge.from]), Minus(place[edge.to], place[k])),
                  edge.imageOffset)
              = Minus(place[m], Plus(place[k], Minus(place[edge.to], place[edge.to])))
        <5>1. Minus(Plus(Minus(place[m], place[edge.from]), Minus(place[edge.to], place[k])),
                    edge.imageOffset)
                = Minus(place[m], Plus(place[k],
                    Minus(Plus(place[edge.from], edge.imageOffset), place[edge.to])))
          BY <4>2, Bridge
        <5> QED
          BY <4>1, <5>1
      <4>4. Plus(place[k], Minus(place[edge.to], place[edge.to])) = place[k]
        BY <4>2, MinusSelf, PlusZero
      <4>5. Minus(Plus(Minus(unwrapped[m], unwrapped[edge.from]),
                       Minus(unwrapped[edge.to], unwrapped[k])), edge.imageOffset)
              = Minus(unwrapped[m], Plus(unwrapped[k], shift))
        BY <4>2, Bridge DEF shift
      <4> QED
        BY <3>3, <3>4, <4>3, <4>4, <4>5
    <3>6. unwrapped'[m] = unwrapped[m] /\ unwrapped'[k] = Plus(unwrapped[k], shift)
      BY <2>4, <1>0, <1>7
    <3> QED
      BY <3>5, <3>6
  <2>5. \A m \in Nodes : unwrapped'[m] \in Offsets
    BY <1>8 DEF Typed, Placements
  <2>6. CASE rootOf[x] # rootOf[y]
    <3>1. \/ rootOf[x] = U /\ rootOf[y] = V
          \/ rootOf[x] = V /\ rootOf[y] = U
      BY <2>6, <1>6
    <3>2. rootOf'[x] = U
      BY <3>1, <1>6
    <3>3. CASE rootOf[x] = U /\ rootOf[y] = V
      BY <3>2, <3>3, <2>4
    <3>4. CASE rootOf[x] = V /\ rootOf[y] = U
      <4>1. Minus(place[y], place[x]) = Minus(unwrapped'[y], unwrapped'[x])
        BY <3>2, <3>4, <2>4
      <4> QED
        BY <4>1, <2>1, <2>5, Flip
    <3> QED
      BY <3>1, <3>3, <3>4
  <2> QED
    BY <2>3, <2>6
<1>19. OrderInv'
  BY <1>0, <1>1, <1>2, <1>3 DEF OrderInv, IsNext, Rest
<1>20. AnswerInv'
  <2>1. CASE Sweeping
    <3>1. \A e \in United' : Fits(unwrapped', e)
      BY <2>1, <1>0, <1>1, <1>3, <1>14, <1>15 DEF AnswerInv
    <3> QED
      BY <3>1, <2>1, <1>2, <1>3 DEF AnswerInv, ThresholdSeparates, Fits
  <2>2. CASE ~Sweeping
    <3>1. asked = {} /\ result = {}
      BY <2>2, <1>0, <1>1 DEF AnswerInv
    <3> QED
      BY <3>1, <2>2, <1>2, <1>3 DEF AnswerInv, ThresholdSeparates
  <2> QED
    BY <2>1, <2>2
<1> QED
  BY <1>8, <1>9, <1>10, <1>11, <1>12, <1>16, <1>17, <1>18, <1>19, <1>20 DEF GraphInv

LEMMA StutterKeeps == ASSUME GraphInv, UNCHANGED vars PROVE GraphInv'
<1>0. /\ input' = input /\ parent' = parent /\ offsetToParent' = offsetToParent
      /\ percolates' = percolates /\ todo' = todo /\ edge' = edge /\ path' = path
      /\ link' = link /\ ends' = ends /\ asked' = asked /\ result' = result /\ pc' = pc
      /\ rootOf' = rootOf /\ unwrapped' = unwrapped
  BY DEF vars
<1>1. Sweeping' = Sweeping /\ United' = United
  BY <1>0 DEF Sweeping, United, Passes
<1>2. NextNode' = NextNode
  BY <1>0 DEF NextNode
<1>3. Target' = Target /\ Below' = Below /\ Finding' = Finding
  BY <1>0, <1>2 DEF Target, Below, Finding
<1>4. Typed' /\ Forest' /\ OffsetsAreTrue'
  BY <1>0 DEF GraphInv, Typed, Forest, OffsetsAreTrue, Passes, Sweeping
<1>5. Ranked'
  BY <1>0 DEF GraphInv, Ranked, Ranks
<1>6. StackInv' /\ LinkInv'
  BY <1>0, <1>3 DEF GraphInv, StackInv, LinkInv
<1>7. EndsInv'
  BY <1>0, <1>1, <1>3 DEF GraphInv, EndsInv, IsNext
<1>8. ComponentInv' /\ FlagInv' /\ RigidInv'
  BY <1>0, <1>1 DEF GraphInv, ComponentInv, FlagInv, RigidInv
<1>9. OrderInv'
  BY <1>0, <1>1 DEF GraphInv, OrderInv
<1>10. ThresholdSeparates'
  BY <1>0, <1>1 DEF GraphInv, AnswerInv, ThresholdSeparates, Wider
<1>11. AnswerInv'
  BY <1>0, <1>1, <1>10 DEF GraphInv, AnswerInv
<1> QED
  BY <1>4, <1>5, <1>6, <1>7, <1>8, <1>9, <1>11 DEF GraphInv

LEMMA GraphStep == ASSUME GraphInv, Find \/ Unite \/ Answer PROVE GraphInv'
<1>1. CASE Find
  BY <1>1, DescendKeeps, CompressKeeps DEF Find
<1>2. CASE Unite
  BY <1>2, TakeEdgeKeeps, FoundFromKeeps, CloseCycleKeeps, JoinKeeps DEF Unite
<1>3. CASE Answer
  BY <1>3, AskKeeps, ReadFlagKeeps, ReturnKeeps DEF Answer
<1> QED
  BY <1>1, <1>2, <1>3

THEOREM GraphInvariant == Spec => []GraphInv
<1>1. ASSUME GraphInv, [Next]_vars PROVE GraphInv'
  BY <1>1, GraphStep, StutterKeeps DEF Next, Done
<1> QED
  BY <1>1, InitGraph, PTL DEF Spec

-----------------------------------------------------------------------------
(***************************************************************************)
(* What the invariant says of the calls.                                   *)
(***************************************************************************)

LEMMA TypeHolds == GraphInv => GraphTypeOK
<1> SUFFICES ASSUME GraphInv PROVE GraphTypeOK
  OBVIOUS
<1>1. \A e \in input.edges : IsEdge(e)
  BY DEF GraphInv, Typed, IsInput
<1>2. PathOK
  <2>1. pc = "compress" => link \in Links /\ parent[link.root] = link.root
    BY DEF GraphInv, LinkInv, StackInv, Finding, Forest
  <2>2. \A i \in 1..(Len(path) - 1) : parent[path[i]] = path[i + 1]
    <3>1. CASE Finding
      BY <3>1 DEF GraphInv, StackInv
    <3>2. CASE ~Finding
      BY <3>2 DEF GraphInv, StackInv
    <3> QED
      BY <3>1, <3>2
  <2> QED
    BY <2>1, <2>2 DEF PathOK, GraphInv, Typed, StackInv, Finding
<1>3. pc \in {"descend", "compress"} /\ todo # {} =>
        edge \in todo /\ (ends = << >> \/ (ends = <<ends[1]>> /\ ends[1] \in Links))
  BY DEF GraphInv, EndsInv, Finding
<1> QED
  BY <1>1, <1>2, <1>3 DEF GraphTypeOK, GraphInv, Typed, Placements

(* The offsets, and find's stack, are well-formed: the type of every        *)
(* variable of OffsetUnionFind, for all edges and all lattices.             *)
THEOREM GraphTypeCorrect == Spec => []GraphTypeOK
BY TypeHolds, GraphInvariant, PTL

(* Whatever find compresses, every stored offset stays the way to the       *)
(* parent: the comment on OffsetUnionFind, for all edges and all lattices.  *)
THEOREM OffsetsStayTrue == Spec => []OffsetsAreTrue
<1>1. GraphInv => OffsetsAreTrue
  BY DEF GraphInv
<1> QED
  BY <1>1, GraphInvariant, PTL

(* A node's flag is set unless a placement fits the united edges around it. *)
LEMMA FlagOrPocket ==
  ASSUME GraphInv, NEW n \in Nodes
  PROVE  percolates[rootOf[n]] <=> ~Pocket(n, United)
<1>0. /\ ComponentInv /\ FlagInv /\ RigidInv /\ Typed /\ Forest
      /\ \A e \in United : /\ e.from \in Nodes /\ e.to \in Nodes /\ e.imageOffset \in Offsets
  BY EdgeShape DEF GraphInv, United, Typed
<1>1. ASSUME ~percolates[rootOf[n]] PROVE Pocket(n, United)
  <2> DEFINE C == {m \in Nodes : rootOf[m] = rootOf[n]}
  <2>1. C \in SUBSET Nodes /\ n \in C /\ Closed(C, United)
    BY <1>0 DEF ComponentInv, Closed
  <2>2. \A e \in United : e.from \in C => Fits(unwrapped, e)
    BY <1>0, <1>1 DEF FlagInv
  <2>3. unwrapped \in Placements
    BY <1>0 DEF Typed
  <2> QED
    BY <2>1, <2>2, <2>3 DEF Pocket
<1>2. ASSUME percolates[rootOf[n]], Pocket(n, United) PROVE FALSE
  <2>1. PICK C \in SUBSET Nodes, place \in Placements :
          n \in C /\ Closed(C, United) /\ \A e \in United : e.from \in C => Fits(place, e)
    BY <1>2 DEF Pocket
  <2>2. PICK e \in United : rootOf[e.from] = rootOf[n] /\ ~Fits(unwrapped, e)
    BY <1>0, <1>2 DEF FlagInv
  <2>3. \A m \in Nodes : rootOf[m] = rootOf[n] => m \in C
    BY <1>0, <2>1 DEF ComponentInv
  <2>4. \A d \in United : rootOf[d.from] = rootOf[n] => Fits(place, d)
    BY <1>0, <2>1, <2>3
  <2>5. rootOf[e.to] = rootOf[e.from] /\ e.to \in Nodes /\ e.from \in Nodes
    BY <1>0 DEF ComponentInv
  <2>6. Minus(place[e.to], place[e.from]) = Minus(unwrapped[e.to], unwrapped[e.from])
    BY <1>0, <2>2, <2>4, <2>5 DEF RigidInv
  <2>7. place[e.to] = Plus(place[e.from], e.imageOffset)
    BY <2>2, <2>4 DEF Fits
  <2>8. /\ place[e.to] \in Offsets /\ place[e.from] \in Offsets
        /\ unwrapped[e.to] \in Offsets /\ unwrapped[e.from] \in Offsets
        /\ e.imageOffset \in Offsets
    BY <1>0, <2>5 DEF Typed, Placements
  <2>9. unwrapped[e.to] = Plus(unwrapped[e.from], e.imageOffset)
    BY <2>6, <2>7, <2>8, SameDifference
  <2> QED
    BY <2>2, <2>9 DEF Fits
<1> QED
  BY <1>1, <1>2

LEMMA FlagsHold == GraphInv => AccessibleIsNotPocket
<1> SUFFICES ASSUME GraphInv, pc = "done", ~Sweeping
             PROVE  result = {n \in Nodes : ~Pocket(n, Wider(input.radius))}
  BY DEF AccessibleIsNotPocket
<1>1. asked = Nodes /\ todo = {} /\ result = {n \in asked : percolates[rootOf[n]]}
  BY DEF GraphInv, AnswerInv
<1>2. United = Wider(input.radius)
  BY <1>1 DEF United, Wider, Passes
<1> QED
  BY <1>1, <1>2, FlagOrPocket

(* accessibleComponents, for all edges, radii and lattices: it reports the  *)
(* nodes that no pocket of the edges wide enough holds, in whichever order  *)
(* the edges were united.                                                   *)
THEOREM AccessibleCorrect == Spec => []AccessibleIsNotPocket
BY FlagsHold, GraphInvariant, PTL

(* percolationThreshold, for all edges and lattices: its result separates   *)
(* the edges a placement fits from those with which none does, ties and all. *)
THEOREM ThresholdCorrect == Spec => []ThresholdSeparates
<1>1. GraphInv => ThresholdSeparates
  BY DEF GraphInv, AnswerInv
<1> QED
  BY <1>1, GraphInvariant, PTL
-----------------------------------------------------------------------------
(***************************************************************************)
(* Walks.  A tour is a walk with every spot it visits; the walks of at      *)
(* most k steps end where the tours of at most k steps do.                 *)
(***************************************************************************)
Earlier == {ss \in Nat \X Nat : ss[1] < ss[2]}

LEMMA LeastOfNaturals ==
  ASSUME NEW S \in SUBSET Nat, S # {}
  PROVE  \E m \in S : \A k \in S : m <= k
<1>1. IsWellFoundedOn(Earlier, Nat)
  BY NatLessThanWellFounded DEF OpToRel, Earlier
<1>2. PICK m \in S : \A k \in S : <<k, m>> \notin Earlier
  BY <1>1, WFMin
<1>3. ASSUME NEW k \in S PROVE m <= k
  <2>1. <<k, m>> \in Nat \X Nat /\ <<k, m>>[1] = k /\ <<k, m>>[2] = m
    OBVIOUS
  <2> QED
    BY <1>2, <2>1 DEF Earlier
<1> QED
  BY <1>3

(* Induction, for a set of naturals. *)
LEMMA SetInduction ==
  ASSUME NEW T, 0 \in T, \A i \in Nat : i \in T => i + 1 \in T
  PROVE  Nat \subseteq T
<1> SUFFICES ASSUME Nat \ T # {} PROVE FALSE
  OBVIOUS
<1>1. PICK m \in Nat \ T : \A k \in Nat \ T : m <= k
  BY LeastOfNaturals
<1>2. m # 0 /\ m - 1 \in Nat /\ m - 1 \notin Nat \ T
  BY <1>1
<1> QED
  BY <1>2

IsEdges(es) == \A e \in es : IsEdge(e)
Spots == [at : Nodes, offset : Offsets]
Start(n) == [at |-> n, offset |-> Zero]
After(v, s) == [at |-> s.to, offset |-> Plus(v.offset, s.offset)]
Follows(es, v, w) == \E s \in Steps(es) : s.from = v.at /\ w = After(v, s)

Tour(es, n, k, t) ==
  /\ t \in [0..k -> Spots]
  /\ t[0] = Start(n)
  /\ \A i \in 1..k : Follows(es, t[i - 1], t[i])

(* The spots that exactly k steps lead to. *)
Trip(es, n, k, w) == \E t : Tour(es, n, k, t) /\ w = t[k]

Toured(n, es) == [k \in Nat |-> {w \in Spots : \E j \in 0..k : Trip(es, n, j, w)}]

LEMMA StepShape ==
  ASSUME NEW es, IsEdges(es), NEW s \in Steps(es)
  PROVE  s.from \in Nodes /\ s.to \in Nodes /\ s.offset \in Offsets
BY Vectors DEF IsEdges, IsEdge, Steps

LEMMA AfterShape ==
  ASSUME NEW es, IsEdges(es), NEW s \in Steps(es), NEW v \in Spots
  PROVE  After(v, s) \in Spots
BY StepShape, Vectors DEF Spots, After

LEMMA StartShape == ASSUME NEW n \in Nodes PROVE Start(n) \in Spots
BY Vectors DEF Start, Spots

(* A trip of no steps ends where it starts; a longer one, a step further.   *)
LEMMA NoTrip ==
  ASSUME NEW es, NEW n \in Nodes, NEW w
  PROVE  Trip(es, n, 0, w) <=> w = Start(n)
<1>1. ASSUME w = Start(n) PROVE Trip(es, n, 0, w)
  <2> DEFINE t == [i \in 0..0 |-> Start(n)]
  <2>1. t \in [0..0 -> Spots] /\ t[0] = Start(n) /\ \A i \in 1..0 : FALSE
    BY StartShape
  <2> HIDE DEF t
  <2> QED
    BY <1>1, <2>1 DEF Trip, Tour
<1> QED
  BY <1>1 DEF Trip, Tour

LEMMA TripSpot ==
  ASSUME NEW es, NEW n, NEW k \in Nat, NEW w, Trip(es, n, k, w)
  PROVE  w \in Spots
BY DEF Trip, Tour

LEMMA TripGrows ==
  ASSUME NEW es, IsEdges(es), NEW n \in Nodes, NEW k \in Nat, NEW v \in Spots, NEW w,
         Trip(es, n, k, v), Follows(es, v, w)
  PROVE  Trip(es, n, k + 1, w)
<1>1. PICK t : Tour(es, n, k, t) /\ v = t[k]
  BY DEF Trip
<1>2. w \in Spots
  BY AfterShape DEF Follows
<1> DEFINE u == [i \in 0..(k + 1) |-> IF i <= k THEN t[i] ELSE w]
<1>3. u \in [0..(k + 1) -> Spots]
  BY <1>1, <1>2 DEF Tour
<1>4. u[0] = Start(n) /\ u[k + 1] = w
  BY <1>1 DEF Tour
<1>5. ASSUME NEW i \in 1..(k + 1) PROVE Follows(es, u[i - 1], u[i])
  <2>1. CASE i \in 1..k
    BY <1>1, <2>1 DEF Tour
  <2>2. CASE i = k + 1
    <3>1. u[i - 1] = v /\ u[i] = w
      BY <1>1, <2>2
    <3> HIDE DEF u
    <3> QED
      BY <3>1
  <2> QED
    BY <2>1, <2>2
<1> HIDE DEF u
<1> QED
  BY <1>3, <1>4, <1>5 DEF Trip, Tour

LEMMA TourStops ==
  ASSUME NEW es, NEW n, NEW k \in Nat, NEW t, Tour(es, n, k, t), NEW j \in 0..k
  PROVE  Trip(es, n, j, t[j])
<1> DEFINE u == [i \in 0..j |-> t[i]]
<1>1. u \in [0..j -> Spots] /\ u[0] = Start(n) /\ u[j] = t[j]
  BY DEF Tour
<1>2. \A i \in 1..j : Follows(es, u[i - 1], u[i])
  BY DEF Tour
<1> HIDE DEF u
<1> QED
  BY <1>1, <1>2 DEF Trip, Tour

LEMMA TripStep ==
  ASSUME NEW es, NEW n, NEW k \in Nat, NEW w, Trip(es, n, k + 1, w)
  PROVE  \E v \in Spots : Trip(es, n, k, v) /\ Follows(es, v, w)
<1>1. PICK t : Tour(es, n, k + 1, t) /\ w = t[k + 1]
  BY DEF Trip
<1>2. k \in 0..(k + 1) /\ k + 1 \in 1..(k + 1) /\ (k + 1) - 1 = k
  OBVIOUS
<1>3. t[k] \in Spots /\ Follows(es, t[k], w)
  BY <1>1, <1>2 DEF Tour
<1>4. Trip(es, n, k, t[k])
  BY <1>1, <1>2, TourStops
<1> QED
  BY <1>3, <1>4

(* The walks of PeriodicGraph are the ends of tours. *)
Onward(es, S) == S \cup {w \in Spots : \E v \in S : Follows(es, v, w)}

LEMMA TouredStep ==
  ASSUME NEW es, IsEdges(es), NEW n \in Nodes, NEW k \in Nat
  PROVE  /\ Toured(n, es)[0] = {Start(n)}
         /\ Toured(n, es)[k + 1] = Onward(es, Toured(n, es)[k])
<1>1. \A w : w \in Toured(n, es)[0] <=> w = Start(n)
  BY NoTrip, StartShape DEF Toured
<1>2. ASSUME NEW w, w \in Toured(n, es)[k + 1] PROVE w \in Onward(es, Toured(n, es)[k])
  <2>1. PICK j \in 0..(k + 1) : w \in Spots /\ Trip(es, n, j, w)
    BY <1>2 DEF Toured
  <2>2. CASE j \in 0..k
    BY <2>1, <2>2 DEF Toured, Onward
  <2>3. CASE j = k + 1
    <3>1. PICK v \in Spots : Trip(es, n, k, v) /\ Follows(es, v, w)
      BY <2>1, <2>3, TripStep
    <3>2. v \in Toured(n, es)[k]
      BY <3>1 DEF Toured
    <3> QED
      BY <2>1, <3>1, <3>2 DEF Onward
  <2> QED
    BY <2>2, <2>3
<1>3. ASSUME NEW w, w \in Onward(es, Toured(n, es)[k]) PROVE w \in Toured(n, es)[k + 1]
  <2>1. CASE w \in Toured(n, es)[k]
    <3>1. PICK j \in 0..k : w \in Spots /\ Trip(es, n, j, w)
      BY <2>1 DEF Toured
    <3>2. j \in 0..(k + 1)
      OBVIOUS
    <3> QED
      BY <3>1, <3>2 DEF Toured
  <2>2. CASE w \in Spots /\ \E v \in Toured(n, es)[k] : Follows(es, v, w)
    <3>1. PICK v \in Toured(n, es)[k] : Follows(es, v, w)
      BY <2>2
    <3>2. PICK j \in 0..k : v \in Spots /\ Trip(es, n, j, v)
      BY DEF Toured
    <3>3. Trip(es, n, j + 1, w) /\ j + 1 \in 0..(k + 1)
      BY <3>1, <3>2, TripGrows
    <3> QED
      BY <2>2, <3>3 DEF Toured
  <2> QED
    BY <1>3, <2>1, <2>2 DEF Onward
<1> QED
  BY <1>1, <1>2, <1>3

LEMMA WalksAreTours ==
  ASSUME NEW es, IsEdges(es), NEW n \in Nodes
  PROVE  WalksFrom(n, es) = Toured(n, es)[Cardinality(Nodes)]
<1> DEFINE Longer(S) ==
             S \cup UNION {{[at |-> s.to, offset |-> Plus(w.offset, s.offset)] :
                              s \in {t \in Steps(es) : t.from = w.at}} : w \in S}
           IsWalks(f) ==
             f = [k \in Nat |-> IF k = 0 THEN {[at |-> n, offset |-> Zero]}
                                ELSE Longer(f[k - 1])]
<1>1. WalksFrom(n, es) = (CHOOSE f : IsWalks(f))[Cardinality(Nodes)]
  BY DEF WalksFrom
<1>2. ASSUME NEW S \in SUBSET Spots PROVE Longer(S) = Onward(es, S)
  <2>1. \A w : w \in Longer(S) <=>
          w \in S \/ \E v \in S : \E s \in Steps(es) : s.from = v.at /\ w = After(v, s)
    BY DEF After
  <2>2. ASSUME NEW v \in S, NEW s \in Steps(es) PROVE After(v, s) \in Spots
    BY AfterShape
  <2> QED
    BY <2>1, <2>2 DEF Onward, Follows
<1>3. ASSUME NEW k \in Nat PROVE Toured(n, es)[k] \in SUBSET Spots
  BY DEF Toured
<1> HIDE DEF Longer
<1>4. IsWalks(Toured(n, es))
  <2> DEFINE f == [k \in Nat |-> IF k = 0 THEN {[at |-> n, offset |-> Zero]}
                                 ELSE Longer(Toured(n, es)[k - 1])]
  <2>1. ASSUME NEW k \in Nat PROVE Toured(n, es)[k] = f[k]
    <3>1. CASE k = 0
      BY <3>1, TouredStep DEF Start
    <3>2. CASE k # 0
      <4>1. k - 1 \in Nat /\ (k - 1) + 1 = k
        BY <3>2
      <4>2. Toured(n, es)[k] = Onward(es, Toured(n, es)[k - 1])
        BY <4>1, TouredStep
      <4> QED
        BY <1>2, <1>3, <3>2, <4>1, <4>2
    <3> QED
      BY <3>1, <3>2
  <2>2. Toured(n, es) = [k \in Nat |-> Toured(n, es)[k]]
    BY DEF Toured
  <2>3. Toured(n, es) = f
    BY <2>1, <2>2
  <2> QED
    BY <2>3
<1>5. ASSUME NEW f, IsWalks(f) PROVE f = Toured(n, es)
  <2> DEFINE T == {k \in Nat : f[k] = Toured(n, es)[k]}
  <2>1. \A k \in Nat : f[k] = IF k = 0 THEN {[at |-> n, offset |-> Zero]} ELSE Longer(f[k - 1])
    BY <1>5
  <2>2. 0 \in T
    BY <2>1, TouredStep DEF Start
  <2>3. ASSUME NEW k \in Nat, k \in T PROVE k + 1 \in T
    <3>1. f[k + 1] = Longer(Toured(n, es)[k])
      BY <2>1, <2>3
    <3>2. Longer(Toured(n, es)[k]) = Onward(es, Toured(n, es)[k])
      BY <1>2, <1>3
    <3>3. Toured(n, es)[k + 1] = Onward(es, Toured(n, es)[k])
      BY TouredStep
    <3>4. f[k + 1] = Toured(n, es)[k + 1] /\ k + 1 \in Nat
      BY <3>1, <3>2, <3>3
    <3> QED
      BY <3>4
  <2> HIDE DEF T
  <2>4. Nat \subseteq T
    BY <2>2, <2>3, SetInduction
  <2>5. f = [k \in Nat |-> f[k]]
    BY <1>5
  <2>6. Toured(n, es) = [k \in Nat |-> Toured(n, es)[k]]
    BY DEF Toured
  <2> QED
    BY <2>4, <2>5, <2>6 DEF T
<1> HIDE DEF IsWalks
<1>6. IsWalks(CHOOSE f : IsWalks(f))
  BY <1>4
<1>7. (CHOOSE f : IsWalks(f)) = Toured(n, es)
  BY <1>5, <1>6
<1> QED
  BY <1>1, <1>7

(* What WalksFrom reaches. *)
LEMMA ShortTrips ==
  ASSUME NEW es, IsEdges(es), NEW n \in Nodes
  PROVE  /\ Cardinality(Nodes) \in Nat
         /\ WalksFrom(n, es) = {w \in Spots : \E j \in 0..Cardinality(Nodes) : Trip(es, n, j, w)}
<1>1. Cardinality(Nodes) \in Nat
  BY FS_CardinalityType, GraphAssumption
<1> QED
  BY <1>1, WalksAreTours DEF Toured
-----------------------------------------------------------------------------
(***************************************************************************)
(* Trips one after the other, and back.                                    *)
(***************************************************************************)
LEMMA PlusPlus ==
  ASSUME NEW p \in Offsets, NEW q \in Offsets, NEW s \in Offsets
  PROVE  Plus(Plus(p, q), s) = Plus(p, Plus(q, s))
BY DEF Offsets, Plus

LEMMA BackAndBack == ASSUME NEW p \in Offsets PROVE Minus(Zero, Minus(Zero, p)) = p
BY DEF Offsets, Minus, Zero

LEMMA BackFromBoth ==
  ASSUME NEW p \in Offsets, NEW q \in Offsets
  PROVE  Plus(Minus(Zero, q), Minus(Zero, p)) = Minus(Zero, Plus(p, q))
BY DEF Offsets, Minus, Plus, Zero

LEMMA MinusZero == ASSUME NEW p \in Offsets PROVE Minus(p, Zero) = p
BY DEF Offsets, Minus, Zero

LEMMA PlusOfMinus ==
  ASSUME NEW p \in Offsets, NEW q \in Offsets, NEW s \in Offsets
  PROVE  /\ Plus(Minus(q, p), s) = Minus(Plus(q, s), p)
         /\ Plus(p, Minus(s, q)) = Minus(s, Minus(q, p))
BY DEF Offsets, Minus, Plus

LEMMA ThereAndBack ==
  ASSUME NEW p \in Offsets, NEW e \in Offsets, NEW q \in Offsets
  PROVE  Plus(Plus(p, e), Minus(Zero, q)) = Minus(Plus(p, e), q)
BY DEF Offsets, Minus, Plus, Zero

LEMMA NoDifference ==
  ASSUME NEW p \in Offsets, NEW q \in Offsets, Minus(p, q) = Zero
  PROVE  p = q
<1>1. ASSUME NEW a \in Axes PROVE p[a] = q[a]
  <2>1. Minus(p, q)[a] = p[a] - q[a] /\ Zero[a] = 0 /\ p[a] \in Int /\ q[a] \in Int
    BY DEF Minus, Zero, Offsets
  <2> QED
    BY <2>1
<1> QED
  BY <1>1 DEF Offsets

Beyond(v, w) == [at |-> w.at, offset |-> Plus(v.offset, w.offset)]
Back(n, w) == [at |-> n, offset |-> Minus(Zero, w.offset)]

LEMMA SpotShape ==
  /\ \A w \in Spots : w.at \in Nodes /\ w.offset \in Offsets
                      /\ w = [at |-> w.at, offset |-> w.offset]
  /\ \A b \in Nodes, o \in Offsets : [at |-> b, offset |-> o] \in Spots
BY DEF Spots

LEMMA Concat ==
  ASSUME NEW es, IsEdges(es), NEW n \in Nodes, NEW j \in Nat, NEW v \in Spots,
         Trip(es, n, j, v), NEW k \in Nat, NEW w \in Spots, Trip(es, v.at, k, w)
  PROVE  Trip(es, n, j + k, Beyond(v, w))
<1> DEFINE T == {i \in Nat : \A x \in Spots : Trip(es, v.at, i, x) => Trip(es, n, j + i, Beyond(v, x))}
<1>0. v.at \in Nodes /\ v.offset \in Offsets /\ v = [at |-> v.at, offset |-> v.offset]
  BY SpotShape
<1>1. 0 \in T
  <2>1. ASSUME NEW x \in Spots, Trip(es, v.at, 0, x) PROVE Trip(es, n, j + 0, Beyond(v, x))
    <3>1. x = Start(v.at)
      BY <1>0, <2>1, NoTrip
    <3>2. Beyond(v, x) = v
      BY <1>0, <3>1, PlusZero DEF Beyond, Start
    <3> QED
      BY <3>2
  <2> QED
    BY <2>1
<1>2. ASSUME NEW i \in Nat, i \in T PROVE i + 1 \in T
  <2>1. ASSUME NEW x \in Spots, Trip(es, v.at, i + 1, x) PROVE Trip(es, n, j + (i + 1), Beyond(v, x))
    <3>1. PICK u \in Spots : Trip(es, v.at, i, u) /\ Follows(es, u, x)
      BY <2>1, TripStep
    <3>2. PICK s \in Steps(es) : s.from = u.at /\ x = After(u, s)
      BY <3>1 DEF Follows
    <3>3. s.offset \in Offsets /\ u.offset \in Offsets /\ u.at \in Nodes
      BY StepShape, SpotShape
    <3>4. Beyond(v, x) = After(Beyond(v, u), s)
      BY <1>0, <3>2, <3>3, PlusPlus DEF Beyond, After
    <3>5. Follows(es, Beyond(v, u), Beyond(v, x))
      <4>1. s.from = Beyond(v, u).at
        BY <3>2 DEF Beyond
      <4> QED
        BY <3>4, <4>1 DEF Follows
    <3>6. Beyond(v, u) \in Spots
      BY <1>0, <3>3, Vectors DEF Beyond, Spots
    <3>7. Trip(es, n, j + i, Beyond(v, u)) /\ j + i \in Nat
      BY <1>2, <3>1
    <3>8. Trip(es, n, (j + i) + 1, Beyond(v, x))
      BY <3>5, <3>6, <3>7, TripGrows
    <3>9. (j + i) + 1 = j + (i + 1)
      OBVIOUS
    <3> QED
      BY <3>8, <3>9
  <2> QED
    BY <2>1
<1> HIDE DEF T
<1>3. Nat \subseteq T
  BY <1>1, <1>2, SetInduction
<1>4. k \in T
  BY <1>3
<1> QED
  BY <1>4 DEF T

LEMMA StepBack ==
  ASSUME NEW es, IsEdges(es), NEW s \in Steps(es)
  PROVE  [from |-> s.to, to |-> s.from, offset |-> Minus(Zero, s.offset)] \in Steps(es)
<1>1. CASE \E e \in es : s = [from |-> e.from, to |-> e.to, offset |-> e.imageOffset]
  <2>1. PICK e \in es : s = [from |-> e.from, to |-> e.to, offset |-> e.imageOffset]
    BY <1>1
  <2>2. [from |-> s.to, to |-> s.from, offset |-> Minus(Zero, s.offset)]
          = [from |-> e.to, to |-> e.from, offset |-> Minus(Zero, e.imageOffset)]
    BY <2>1
  <2> QED
    BY <2>2 DEF Steps
<1>2. CASE \E e \in es : s = [from |-> e.to, to |-> e.from, offset |-> Minus(Zero, e.imageOffset)]
  <2>1. PICK e \in es : s = [from |-> e.to, to |-> e.from, offset |-> Minus(Zero, e.imageOffset)]
    BY <1>2
  <2>2. Minus(Zero, s.offset) = e.imageOffset
    BY <2>1, BackAndBack DEF IsEdges, IsEdge
  <2>3. [from |-> s.to, to |-> s.from, offset |-> Minus(Zero, s.offset)]
          = [from |-> e.from, to |-> e.to, offset |-> e.imageOffset]
    BY <2>1, <2>2
  <2> QED
    BY <2>3 DEF Steps
<1> QED
  BY <1>1, <1>2 DEF Steps

LEMMA OneStep ==
  ASSUME NEW es, IsEdges(es), NEW s \in Steps(es)
  PROVE  Trip(es, s.from, 1, [at |-> s.to, offset |-> s.offset])
<1>1. s.from \in Nodes /\ s.to \in Nodes /\ s.offset \in Offsets
  BY StepShape
<1>2. Trip(es, s.from, 0, Start(s.from)) /\ Start(s.from) \in Spots
  BY <1>1, NoTrip, StartShape
<1>3. Plus(Zero, s.offset) = s.offset
  BY <1>1 DEF Offsets, Plus, Zero
<1>4. After(Start(s.from), s) = [at |-> s.to, offset |-> s.offset]
  BY <1>3 DEF After, Start
<1>5. Follows(es, Start(s.from), [at |-> s.to, offset |-> s.offset])
  BY <1>4 DEF Follows, Start
<1>6. Trip(es, s.from, 0 + 1, [at |-> s.to, offset |-> s.offset])
  BY <1>1, <1>2, <1>5, TripGrows
<1> QED
  BY <1>6

LEMMA WayBack ==
  ASSUME NEW es, IsEdges(es), NEW n \in Nodes, NEW k \in Nat, NEW w \in Spots, Trip(es, n, k, w)
  PROVE  Trip(es, w.at, k, Back(n, w))
<1> DEFINE T == {i \in Nat : \A x \in Spots : Trip(es, n, i, x) => Trip(es, x.at, i, Back(n, x))}
<1>1. 0 \in T
  <2>1. ASSUME NEW x \in Spots, Trip(es, n, 0, x) PROVE Trip(es, x.at, 0, Back(n, x))
    <3>1. x = Start(n)
      BY <2>1, NoTrip
    <3>2. Back(n, x) = Start(n) /\ x.at = n
      BY <3>1, MinusZero, Vectors DEF Back, Start
    <3> QED
      BY <3>2, NoTrip
  <2> QED
    BY <2>1
<1>2. ASSUME NEW i \in Nat, i \in T PROVE i + 1 \in T
  <2>1. ASSUME NEW x \in Spots, Trip(es, n, i + 1, x) PROVE Trip(es, x.at, i + 1, Back(n, x))
    <3>1. PICK u \in Spots : Trip(es, n, i, u) /\ Follows(es, u, x)
      BY <2>1, TripStep
    <3>2. PICK s \in Steps(es) : s.from = u.at /\ x = After(u, s)
      BY <3>1 DEF Follows
    <3>3. s.offset \in Offsets /\ u.offset \in Offsets /\ u.at \in Nodes /\ s.to \in Nodes
      BY StepShape, SpotShape
    <3>4. PICK b \in Steps(es) : b = [from |-> s.to, to |-> s.from, offset |-> Minus(Zero, s.offset)]
      BY StepBack
    <3> DEFINE y == [at |-> b.to, offset |-> b.offset]
    <3>5. Trip(es, x.at, 1, y) /\ y \in Spots /\ x.at \in Nodes /\ y.at = u.at
      <4>1. Trip(es, b.from, 1, y)
        BY OneStep
      <4>2. b.from = x.at /\ b.to = u.at
        BY <3>2, <3>4 DEF After
      <4>3. y \in Spots
        BY StepShape, SpotShape
      <4> QED
        BY <3>2, <3>3, <4>1, <4>2, <4>3 DEF After
    <3>6. Trip(es, y.at, i, Back(n, u)) /\ Back(n, u) \in Spots
      <4>1. Trip(es, u.at, i, Back(n, u))
        BY <1>2, <3>1
      <4>2. Back(n, u) \in Spots
        BY <3>3, Vectors DEF Back, Spots
      <4> QED
        BY <3>5, <4>1, <4>2
    <3>7. Beyond(y, Back(n, u)) = Back(n, x)
      <4>1. Plus(Minus(Zero, s.offset), Minus(Zero, u.offset)) = Minus(Zero, Plus(u.offset, s.offset))
        BY <3>3, BackFromBoth
      <4> QED
        BY <3>2, <3>4, <4>1 DEF Beyond, Back, After
    <3> HIDE DEF y
    <3>8. Trip(es, x.at, 1 + i, Back(n, x))
      BY <3>5, <3>6, <3>7, Concat
    <3>9. 1 + i = i + 1
      OBVIOUS
    <3> QED
      BY <3>8, <3>9
  <2> QED
    BY <2>1
<1> HIDE DEF T
<1>3. Nat \subseteq T
  BY <1>1, <1>2, SetInduction
<1>4. k \in T
  BY <1>3
<1> QED
  BY <1>4 DEF T

(* Part of a tour is a trip from where it starts. *)
Gap(v, w) == [at |-> w.at, offset |-> Minus(w.offset, v.offset)]

LEMMA Segment ==
  ASSUME NEW es, IsEdges(es), NEW n, NEW k \in Nat, NEW t, Tour(es, n, k, t),
         NEW i \in 0..k, NEW j \in i..k
  PROVE  Trip(es, t[i].at, j - i, Gap(t[i], t[j]))
<1> DEFINE T == {d \in Nat : i + d <= k => Trip(es, t[i].at, d, Gap(t[i], t[i + d]))}
<1>0. ASSUME NEW x \in 0..k PROVE t[x] \in Spots /\ t[x].at \in Nodes /\ t[x].offset \in Offsets
  <2>1. t[x] \in Spots
    BY DEF Tour
  <2> QED
    BY <2>1, SpotShape
<1>1. 0 \in T
  <2>1. Gap(t[i], t[i + 0]) = Start(t[i].at)
    <3>1. i + 0 = i
      OBVIOUS
    <3>2. Minus(t[i].offset, t[i].offset) = Zero
      BY <1>0, MinusSelf
    <3> QED
      BY <3>1, <3>2 DEF Gap, Start
  <2>2. Trip(es, t[i].at, 0, Start(t[i].at))
    BY <1>0, NoTrip
  <2> QED
    BY <2>1, <2>2
<1>2. ASSUME NEW d \in Nat, d \in T PROVE d + 1 \in T
  <2>1. ASSUME i + (d + 1) <= k PROVE Trip(es, t[i].at, d + 1, Gap(t[i], t[i + (d + 1)]))
    <3>1. i + d \in 0..k /\ i + (d + 1) \in 1..k /\ (i + (d + 1)) - 1 = i + d
          /\ i + (d + 1) \in 0..k /\ i + d <= k
      BY <2>1
    <3>2. PICK x \in 0..k, y \in 0..k : x = i + d /\ y = i + (d + 1)
      BY <3>1
    <3>3. Follows(es, t[x], t[y])
      BY <3>1, <3>2 DEF Tour
    <3>4. PICK s \in Steps(es) : s.from = t[x].at /\ t[y] = After(t[x], s)
      BY <3>3 DEF Follows
    <3>5. After(Gap(t[i], t[x]), s) = Gap(t[i], t[y])
      <4>1. Plus(Minus(t[x].offset, t[i].offset), s.offset) = Minus(Plus(t[x].offset, s.offset), t[i].offset)
        BY <1>0, StepShape, PlusOfMinus
      <4> QED
        BY <3>4, <4>1 DEF After, Gap
    <3>6. Follows(es, Gap(t[i], t[x]), Gap(t[i], t[y]))
      <4>1. s.from = Gap(t[i], t[x]).at
        BY <3>4 DEF Gap
      <4> QED
        BY <3>5, <4>1 DEF Follows
    <3>7. Trip(es, t[i].at, d, Gap(t[i], t[x])) /\ t[i].at \in Nodes
      BY <1>0, <1>2, <3>1, <3>2
    <3>8. Gap(t[i], t[x]) \in Spots
      BY <3>7, TripSpot
    <3>9. Trip(es, t[i].at, d + 1, Gap(t[i], t[y]))
      BY <3>6, <3>7, <3>8, TripGrows
    <3> QED
      BY <3>2, <3>9
  <2> QED
    BY <2>1
<1> HIDE DEF T
<1>3. Nat \subseteq T
  BY <1>1, <1>2, SetInduction
<1>4. j - i \in T /\ i + (j - i) = j
  BY <1>3
<1> QED
  BY <1>4 DEF T

(* A loop of a tour can be left out. *)
LEMMA Shortcut ==
  ASSUME NEW es, IsEdges(es), NEW n \in Nodes, NEW k \in Nat, NEW t, Tour(es, n, k, t),
         NEW i \in 0..k, NEW j \in i..k, t[i].at = t[j].at
  PROVE  /\ Trip(es, n, i, t[i])
         /\ Trip(es, t[i].at, j - i, Gap(t[i], t[j]))
         /\ Trip(es, n, i + (k - j), [at |-> t[k].at,
                                      offset |-> Minus(t[k].offset, Gap(t[i], t[j]).offset)])
<1>0. t[i] \in Spots /\ t[j] \in Spots /\ t[k] \in Spots
  BY DEF Tour
<1>1. Trip(es, n, i, t[i])
  BY TourStops
<1>2. Trip(es, t[i].at, j - i, Gap(t[i], t[j]))
  BY Segment
<1>3. j \in 0..k /\ k \in j..k
  OBVIOUS
<1>4. Trip(es, t[i].at, k - j, Gap(t[j], t[k]))
  BY <1>3, Segment
<1>5. i \in Nat /\ k - j \in Nat /\ Gap(t[j], t[k]) \in Spots
  <2>1. i \in Nat /\ k - j \in Nat
    OBVIOUS
  <2> QED
    BY <1>4, <2>1, TripSpot
<1>6. Trip(es, n, i + (k - j), Beyond(t[i], Gap(t[j], t[k])))
  BY <1>0, <1>1, <1>4, <1>5, Concat
<1>7. Beyond(t[i], Gap(t[j], t[k]))
        = [at |-> t[k].at, offset |-> Minus(t[k].offset, Gap(t[i], t[j]).offset)]
  <2>1. Plus(t[i].offset, Minus(t[k].offset, t[j].offset))
          = Minus(t[k].offset, Minus(t[j].offset, t[i].offset))
    BY <1>0, SpotShape, PlusOfMinus
  <2> QED
    BY <2>1 DEF Beyond, Gap
<1> QED
  BY <1>1, <1>2, <1>6, <1>7
-----------------------------------------------------------------------------
(***************************************************************************)
(* As many steps as there are nodes are enough, to reach a node and to      *)
(* escape: a longer tour visits a node twice.                              *)
(***************************************************************************)
VisitsAgain(t, i, j) == i < j /\ t[i].at = t[j].at

LEMMA Revisit ==
  ASSUME NEW es, NEW n, NEW k \in Nat, NEW t, Tour(es, n, k, t),
         NEW l \in 0..k, l >= Cardinality(Nodes)
  PROVE  \E i \in 0..l, j \in 0..l : VisitsAgain(t, i, j)
<1> DEFINE f == [x \in 0..l |-> t[x].at]
<1>1. f \in [0..l -> Nodes]
  <2>1. \A x \in 0..l : t[x] \in Spots
    BY DEF Tour
  <2> QED
    BY <2>1, SpotShape
<1>2. IsFiniteSet(0..l) /\ Cardinality(0..l) = l + 1
  <2>1. 0 \in Int /\ l \in Int /\ ~(0 > l)
    OBVIOUS
  <2> QED
    BY <2>1, FS_Interval
<1>3. IsFiniteSet(Nodes) /\ Cardinality(Nodes) \in Nat
  BY GraphAssumption, FS_CardinalityType
<1> HIDE DEF f
<1>4. \E x, y \in 0..l : x # y /\ f[x] = f[y]
  <2>1. Cardinality(Nodes) < Cardinality(0..l)
    BY <1>2, <1>3
  <2> QED
    BY <1>1, <1>2, <1>3, <2>1, FS_PigeonHole
<1>5. PICK x, y \in 0..l : x # y /\ f[x] = f[y]
  BY <1>4
<1>6. t[x].at = t[y].at
  BY <1>5 DEF f
<1>7. x < y \/ y < x
  BY <1>5
<1> QED
  BY <1>6, <1>7 DEF VisitsAgain

Reaches(n, m, es) == \E k \in Nat : \E w \in Spots : Trip(es, n, k, w) /\ w.at = m

LEMMA ReachedShortly ==
  ASSUME NEW es, IsEdges(es), NEW n \in Nodes, NEW m, Reaches(n, m, es)
  PROVE  m \in Connected(n, es)
<1> DEFINE S == {k \in Nat : \E w \in Spots : Trip(es, n, k, w) /\ w.at = m}
<1>1. S # {} /\ S \in SUBSET Nat
  BY DEF Reaches
<1>2. PICK k \in S : \A x \in S : k <= x
  <2> HIDE DEF S
  <2> QED
    BY <1>1, LeastOfNaturals
<1>3. PICK w \in Spots : Trip(es, n, k, w) /\ w.at = m
  OBVIOUS
<1>4. Cardinality(Nodes) \in Nat
  BY ShortTrips
<1>5. k \in 0..Cardinality(Nodes)
  <2> SUFFICES ASSUME k > Cardinality(Nodes) PROVE FALSE
    BY <1>4
  <2>1. PICK t : Tour(es, n, k, t) /\ w = t[k]
    BY <1>3 DEF Trip
  <2>2. PICK i \in 0..k, j \in 0..k : VisitsAgain(t, i, j)
    <3>1. k \in 0..k /\ k >= Cardinality(Nodes)
      BY <1>4
    <3> QED
      BY <2>1, <3>1, Revisit
  <2>3. i \in 0..k /\ j \in i..k /\ i < j /\ t[i].at = t[j].at
    BY <2>2 DEF VisitsAgain
  <2> DEFINE x == [at |-> t[k].at, offset |-> Minus(t[k].offset, Gap(t[i], t[j]).offset)]
  <2>4. Trip(es, n, i + (k - j), x)
    BY <2>1, <2>3, Shortcut
  <2>5. i + (k - j) \in Nat /\ i + (k - j) < k
    BY <2>3
  <2>6. x \in Spots /\ x.at = m
    BY <1>3, <2>1, <2>4, <2>5, TripSpot
  <2> HIDE DEF x
  <2>7. i + (k - j) \in S
    BY <2>4, <2>5, <2>6
  <2> QED
    BY <1>2, <2>5, <2>7
<1>6. w \in WalksFrom(n, es)
  BY <1>3, <1>5, ShortTrips
<1> QED
  BY <1>3, <1>6 DEF Connected

LEMMA ConnectedReaches ==
  ASSUME NEW es, IsEdges(es), NEW n \in Nodes, NEW m \in Connected(n, es)
  PROVE  m \in Nodes /\ Reaches(n, m, es)
<1>1. PICK w \in WalksFrom(n, es) : w.at = m
  BY DEF Connected
<1>2. Cardinality(Nodes) \in Nat /\ w \in Spots /\ \E j \in 0..Cardinality(Nodes) : Trip(es, n, j, w)
  BY ShortTrips
<1>3. PICK j \in 0..Cardinality(Nodes) : Trip(es, n, j, w)
  BY <1>2
<1>4. j \in Nat
  BY <1>2
<1> QED
  BY <1>1, <1>2, <1>3, <1>4, SpotShape DEF Reaches

LEMMA ReachesTwice ==
  ASSUME NEW es, IsEdges(es), NEW n \in Nodes, NEW m, NEW l,
         Reaches(n, m, es), Reaches(m, l, es)
  PROVE  Reaches(n, l, es)
<1>1. PICK j \in Nat : \E v \in Spots : Trip(es, n, j, v) /\ v.at = m
  BY DEF Reaches
<1>2. PICK v \in Spots : Trip(es, n, j, v) /\ v.at = m
  BY <1>1
<1>3. PICK k \in Nat : \E w \in Spots : Trip(es, m, k, w) /\ w.at = l
  BY DEF Reaches
<1>4. PICK w \in Spots : Trip(es, m, k, w) /\ w.at = l
  BY <1>3
<1>5. Trip(es, n, j + k, Beyond(v, w)) /\ j + k \in Nat
  BY <1>2, <1>4, Concat
<1>6. Beyond(v, w) \in Spots /\ Beyond(v, w).at = l
  BY <1>4, <1>5, TripSpot DEF Beyond
<1> QED
  BY <1>5, <1>6 DEF Reaches

LEMMA ReachesBack ==
  ASSUME NEW es, IsEdges(es), NEW n \in Nodes, NEW m, Reaches(n, m, es)
  PROVE  Reaches(m, n, es)
<1>1. PICK j \in Nat : \E v \in Spots : Trip(es, n, j, v) /\ v.at = m
  BY DEF Reaches
<1>2. PICK v \in Spots : Trip(es, n, j, v) /\ v.at = m
  BY <1>1
<1>3. Trip(es, m, j, Back(n, v))
  BY <1>2, WayBack
<1>4. Back(n, v) \in Spots /\ Back(n, v).at = n
  BY <1>3, TripSpot DEF Back
<1> QED
  BY <1>3, <1>4 DEF Reaches

LEMMA ReachesItself ==
  ASSUME NEW es, NEW n \in Nodes PROVE Reaches(n, n, es)
<1>1. Trip(es, n, 0, Start(n)) /\ Start(n) \in Spots /\ Start(n).at = n
  BY NoTrip, StartShape DEF Start
<1> QED
  BY <1>1 DEF Reaches

(* Some trip returns to its node in another image. *)
Loop(es, b, k, w) == Trip(es, b, k, w) /\ w.at = b /\ w.offset # Zero
Leaves(b, es) == \E k \in Nat : \E w \in Spots : Loop(es, b, k, w)

LEMMA EscapesShortly ==
  ASSUME NEW es, IsEdges(es), NEW n \in Nodes,
         NEW m \in Nodes, Reaches(n, m, es), Leaves(m, es)
  PROVE  \E b \in Nodes : Reaches(n, b, es) /\ Escapes(b, es)
<1> DEFINE Short(k) == \E b \in Nodes : Reaches(n, b, es) /\ \E w \in Spots : Loop(es, b, k, w)
           S == {k \in Nat : Short(k)}
<1>1. S # {} /\ S \in SUBSET Nat
  BY DEF Leaves
<1>2. PICK k \in S : \A x \in S : k <= x
  <2> HIDE DEF S
  <2> QED
    BY <1>1, LeastOfNaturals
<1>3. PICK b \in Nodes : Reaches(n, b, es) /\ \E w \in Spots : Loop(es, b, k, w)
  OBVIOUS
<1>4. PICK w \in Spots : Loop(es, b, k, w)
  BY <1>3
<1>5. Cardinality(Nodes) \in Nat
  BY ShortTrips
<1>6. ASSUME NEW x \in Nat, x < k, NEW c \in Nodes, Reaches(n, c, es), NEW v \in Spots, Loop(es, c, x, v)
      PROVE  FALSE
  <2>1. x \in S
    BY <1>6
  <2> HIDE DEF S
  <2> QED
    BY <1>1, <1>2, <1>6, <2>1
<1> HIDE DEF Short, S
<1>7. k \in Nat
  BY DEF S
<1>8. k \in 0..Cardinality(Nodes)
  <2> SUFFICES ASSUME k > Cardinality(Nodes) PROVE FALSE
    BY <1>5, <1>7
  <2>1. PICK t : Tour(es, b, k, t) /\ w = t[k]
    BY <1>4 DEF Loop, Trip
  <2>2. k - 1 \in 0..k /\ k - 1 >= Cardinality(Nodes)
    BY <1>5, <1>7
  <2>3. PICK i \in 0..(k - 1), j \in 0..(k - 1) : VisitsAgain(t, i, j)
    BY <1>7, <2>1, <2>2, Revisit
  <2>4. i \in 0..k /\ j \in i..k /\ i < j /\ j < k /\ t[i].at = t[j].at
    BY <1>7, <2>3 DEF VisitsAgain
  <2> DEFINE g == Gap(t[i], t[j])
             x == [at |-> t[k].at, offset |-> Minus(t[k].offset, g.offset)]
  <2>5. /\ Trip(es, b, i, t[i])
        /\ Trip(es, t[i].at, j - i, g)
        /\ Trip(es, b, i + (k - j), x)
    BY <1>7, <2>1, <2>4, Shortcut
  <2>6. /\ i \in Nat /\ j - i \in Nat /\ i + (k - j) \in Nat
        /\ j - i < k /\ i + (k - j) < k
    BY <1>7, <2>4
  <2>7. t[i] \in Spots /\ g \in Spots /\ x \in Spots
    BY <2>5, <2>6, TripSpot
  <2>8. t[i].at \in Nodes /\ Reaches(n, t[i].at, es)
    <3>1. t[i].at \in Nodes
      BY <2>7, SpotShape
    <3>2. Reaches(b, t[i].at, es)
      BY <2>5, <2>6, <2>7 DEF Reaches
    <3> QED
      BY <1>3, <3>1, <3>2, ReachesTwice
  <2>9. g.offset = Zero
    <3> SUFFICES ASSUME g.offset # Zero PROVE FALSE
      OBVIOUS
    <3>1. g.at = t[i].at
      BY <2>4 DEF Gap
    <3> HIDE DEF g
    <3>2. Loop(es, t[i].at, j - i, g)
      BY <2>5, <3>1 DEF Loop
    <3> QED
      BY <1>6, <2>6, <2>7, <2>8, <3>2
  <2>10. Loop(es, b, i + (k - j), x)
    <3>1. x.at = b /\ x.offset = Minus(w.offset, g.offset)
      BY <1>4, <2>1 DEF Loop
    <3> HIDE DEF x, g
    <3>2. x.offset = w.offset
      BY <2>9, <3>1, MinusZero, SpotShape
    <3> QED
      BY <1>4, <2>5, <3>1, <3>2 DEF Loop
  <2> HIDE DEF x, g
  <2> QED
    BY <1>3, <1>6, <2>6, <2>7, <2>10
<1>9. w \in WalksFrom(b, es)
  BY <1>4, <1>8, ShortTrips DEF Loop
<1> QED
  BY <1>3, <1>4, <1>9 DEF Loop, Escapes

LEMMA EscapesLeave ==
  ASSUME NEW es, IsEdges(es), NEW n \in Nodes, Escapes(n, es)
  PROVE  Leaves(n, es)
<1>1. PICK w \in WalksFrom(n, es) : w.at = n /\ w.offset # Zero
  BY DEF Escapes
<1>2. Cardinality(Nodes) \in Nat /\ w \in Spots /\ \E j \in 0..Cardinality(Nodes) : Trip(es, n, j, w)
  BY ShortTrips
<1>3. PICK j \in 0..Cardinality(Nodes) : Trip(es, n, j, w)
  BY <1>2
<1>4. j \in Nat
  BY <1>2
<1> QED
  BY <1>1, <1>2, <1>3, <1>4 DEF Leaves, Loop

LEMMA PercolatingLeaves ==
  ASSUME NEW es, IsEdges(es), NEW n \in Nodes
  PROVE  Percolating(n, es) <=> \E m \in Nodes : Reaches(n, m, es) /\ Leaves(m, es)
<1>1. ASSUME Percolating(n, es) PROVE \E m \in Nodes : Reaches(n, m, es) /\ Leaves(m, es)
  <2>1. PICK m \in Connected(n, es) : Escapes(m, es)
    BY <1>1 DEF Percolating
  <2>2. m \in Nodes /\ Reaches(n, m, es)
    BY ConnectedReaches
  <2> QED
    BY <2>1, <2>2, EscapesLeave
<1>2. ASSUME NEW m \in Nodes, Reaches(n, m, es), Leaves(m, es) PROVE Percolating(n, es)
  <2>1. PICK b \in Nodes : Reaches(n, b, es) /\ Escapes(b, es)
    BY <1>2, EscapesShortly
  <2>2. b \in Connected(n, es)
    BY <2>1, ReachedShortly
  <2> QED
    BY <2>1, <2>2 DEF Percolating
<1> QED
  BY <1>1, <1>2
-----------------------------------------------------------------------------
(***************************************************************************)
(* Walks and placements.  Along a placement that fits, a trip that returns *)
(* to its node returns to its place; where every trip does, the trips from *)
(* one node of each component place the others.                            *)
(***************************************************************************)
LEMMA TripsFollowPlaces ==
  ASSUME NEW es, IsEdges(es), NEW C \in SUBSET Nodes, NEW place \in Placements,
         Closed(C, es), \A e \in es : e.from \in C => Fits(place, e),
         NEW n \in C, NEW k \in Nat, NEW w \in Spots, Trip(es, n, k, w)
  PROVE  w.at \in C /\ place[w.at] = Plus(place[n], w.offset)
<1> DEFINE Placed(x) == x.at \in C /\ place[x.at] = Plus(place[n], x.offset)
           T == {i \in Nat : \A x \in Spots : Trip(es, n, i, x) => Placed(x)}
<1>0. place[n] \in Offsets
  BY DEF Placements
<1>1. 0 \in T
  <2>1. ASSUME NEW x \in Spots, Trip(es, n, 0, x) PROVE Placed(x)
    <3>1. x = Start(n)
      BY <2>1, NoTrip
    <3> QED
      BY <1>0, <3>1, PlusZero DEF Start
  <2> QED
    BY <2>1
<1>2. ASSUME NEW i \in Nat, i \in T PROVE i + 1 \in T
  <2>1. ASSUME NEW x \in Spots, Trip(es, n, i + 1, x) PROVE Placed(x)
    <3>1. PICK u \in Spots : Trip(es, n, i, u) /\ Follows(es, u, x)
      BY <2>1, TripStep
    <3>2. PICK s \in Steps(es) : s.from = u.at /\ x = After(u, s)
      BY <3>1 DEF Follows
    <3>3. Placed(u)
      BY <1>2, <3>1
    <3>4. s.to \in C /\ place[s.to] = Plus(place[s.from], s.offset)
      <4>1. CASE \E e \in es : s = [from |-> e.from, to |-> e.to, offset |-> e.imageOffset]
        BY <3>2, <3>3, <4>1 DEF Closed, Fits
      <4>2. CASE \E e \in es : s = [from |-> e.to, to |-> e.from, offset |-> Minus(Zero, e.imageOffset)]
        <5>1. PICK e \in es : s = [from |-> e.to, to |-> e.from, offset |-> Minus(Zero, e.imageOffset)]
          BY <4>2
        <5>2. e.from \in C /\ Fits(place, e) /\ IsEdge(e)
          BY <3>2, <3>3, <5>1 DEF Closed, IsEdges
        <5>3. place[e.from] \in Offsets /\ e.imageOffset \in Offsets
          BY <5>2 DEF Placements, IsEdge
        <5>4. Plus(Plus(place[e.from], e.imageOffset), Minus(Zero, e.imageOffset)) = place[e.from]
          BY <5>3 DEF Offsets, Plus, Minus, Zero
        <5> QED
          BY <5>1, <5>2, <5>4 DEF Fits
      <4> QED
        BY <4>1, <4>2 DEF Steps
    <3>5. Plus(Plus(place[n], u.offset), s.offset) = Plus(place[n], Plus(u.offset, s.offset))
      BY <1>0, StepShape, SpotShape, PlusPlus
    <3> QED
      BY <3>2, <3>3, <3>4, <3>5 DEF After
  <2> QED
    BY <2>1
<1> HIDE DEF T
<1>3. Nat \subseteq T
  BY <1>1, <1>2, SetInduction
<1>4. k \in T
  BY <1>3
<1> QED
  BY <1>4 DEF T

LEMMA PocketsHold ==
  ASSUME NEW es, IsEdges(es), NEW C \in SUBSET Nodes, NEW place \in Placements,
         Closed(C, es), \A e \in es : e.from \in C => Fits(place, e),
         NEW n \in C, NEW m, Reaches(n, m, es)
  PROVE  m \in C /\ ~Leaves(m, es)
<1>1. PICK k \in Nat : \E w \in Spots : Trip(es, n, k, w) /\ w.at = m
  BY DEF Reaches
<1>2. m \in C
  BY <1>1, TripsFollowPlaces
<1>3. ASSUME Leaves(m, es) PROVE FALSE
  <2>1. PICK j \in Nat : \E w \in Spots : Loop(es, m, j, w)
    BY <1>3 DEF Leaves
  <2>2. PICK w \in Spots : Loop(es, m, j, w)
    BY <2>1
  <2>3. place[m] = Plus(place[m], w.offset)
    BY <1>2, <2>2, TripsFollowPlaces DEF Loop
  <2>4. place[m] \in Offsets /\ w.offset \in Offsets
    BY <1>2, SpotShape DEF Placements
  <2>5. w.offset = Zero
    <3>1. \A a \in Axes : place[m][a] = place[m][a] + w.offset[a]
      BY <2>3, <2>4, PointPlus
    <3>2. ASSUME NEW a \in Axes PROVE w.offset[a] = 0
      <4>1. PICK p \in Int, q \in Int : p = place[m][a] /\ q = w.offset[a]
        BY <2>4 DEF Offsets
      <4> QED
        BY <3>1, <4>1
    <3> QED
      BY <2>4, <3>2 DEF Offsets, Zero
  <2> QED
    BY <2>2, <2>5 DEF Loop
<1> QED
  BY <1>2, <1>3

Reachable(n, es) == {m \in Nodes : Reaches(n, m, es)}
Origin(n, es) == CHOOSE m : m \in Reachable(n, es)
Way(n, m, o, es) == \E k \in Nat : Trip(es, n, k, [at |-> m, offset |-> o])
Spread(es) == [m \in Nodes |-> CHOOSE o \in Offsets : Way(Origin(m, es), m, o, es)]

LEMMA ComponentShape ==
  ASSUME NEW es, IsEdges(es), NEW n \in Nodes, NEW m \in Reachable(n, es)
  PROVE  m \in Nodes /\ n \in Reachable(n, es) /\ Reachable(m, es) = Reachable(n, es)
<1>1. m \in Nodes /\ Reaches(n, m, es) /\ Reaches(m, n, es)
  BY ReachesBack DEF Reachable
<1>2. \A l \in Nodes : Reaches(m, l, es) <=> Reaches(n, l, es)
  BY <1>1, ReachesTwice
<1> QED
  BY <1>1, <1>2, ReachesItself DEF Reachable

LEMMA SpreadShape ==
  ASSUME NEW es, IsEdges(es), NEW m \in Nodes
  PROVE  /\ Origin(m, es) \in Reachable(m, es)
         /\ Spread(es)[m] \in Offsets
         /\ Way(Origin(m, es), m, Spread(es)[m], es)
<1>1. Origin(m, es) \in Reachable(m, es)
  BY ReachesItself DEF Origin, Reachable
<1>2. PICK h \in Nodes : h = Origin(m, es) /\ Reaches(h, m, es)
  BY <1>1, ReachesBack DEF Reachable
<1>3. PICK k \in Nat : \E w \in Spots : Trip(es, h, k, w) /\ w.at = m
  BY <1>2 DEF Reaches
<1>4. PICK w \in Spots : Trip(es, h, k, w) /\ w.at = m
  BY <1>3
<1>5. w = [at |-> m, offset |-> w.offset] /\ w.offset \in Offsets
  BY <1>4, SpotShape
<1>6. Trip(es, h, k, [at |-> m, offset |-> w.offset])
  BY <1>4, <1>5
<1>7. \E o \in Offsets : Way(h, m, o, es)
  BY <1>5, <1>6 DEF Way
<1>8. Spread(es)[m] = CHOOSE o \in Offsets : Way(h, m, o, es)
  BY <1>2 DEF Spread
<1> QED
  BY <1>1, <1>2, <1>7, <1>8

LEMMA SpreadPlaces == ASSUME NEW es, IsEdges(es) PROVE Spread(es) \in Placements
<1>1. Spread(es) = [m \in Nodes |-> Spread(es)[m]]
  BY DEF Spread
<1> QED
  BY <1>1, SpreadShape DEF Placements

LEMMA EdgeReaches ==
  ASSUME NEW es, IsEdges(es), NEW e \in es
  PROVE  /\ e.from \in Nodes /\ e.to \in Nodes /\ e.imageOffset \in Offsets
         /\ Trip(es, e.from, 1, [at |-> e.to, offset |-> e.imageOffset])
         /\ Reaches(e.from, e.to, es)
<1>1. e.from \in Nodes /\ e.to \in Nodes /\ e.imageOffset \in Offsets
  BY DEF IsEdges, IsEdge
<1>2. PICK s \in Steps(es) : s = [from |-> e.from, to |-> e.to, offset |-> e.imageOffset]
  BY DEF Steps
<1>3. Trip(es, e.from, 1, [at |-> e.to, offset |-> e.imageOffset])
  BY <1>2, OneStep
<1>4. [at |-> e.to, offset |-> e.imageOffset] \in Spots
  BY <1>1, SpotShape
<1> QED
  BY <1>1, <1>3, <1>4 DEF Reaches

LEMMA SpreadFits ==
  ASSUME NEW es, IsEdges(es), NEW e \in es,
         \A m \in Reachable(e.from, es) : ~Leaves(m, es)
  PROVE  Fits(Spread(es), e)
<1>1. /\ e.from \in Nodes /\ e.to \in Nodes /\ e.imageOffset \in Offsets
      /\ Trip(es, e.from, 1, [at |-> e.to, offset |-> e.imageOffset])
      /\ Reaches(e.from, e.to, es)
  BY EdgeReaches
<1>2. Reachable(e.to, es) = Reachable(e.from, es)
  BY <1>1, ComponentShape DEF Reachable
<1>3. PICK h : h = Origin(e.from, es) /\ h = Origin(e.to, es)
  BY <1>2 DEF Origin
<1>4. h \in Reachable(e.from, es) /\ h \in Nodes
  BY <1>1, <1>3, SpreadShape DEF Reachable
<1>5. PICK p \in Offsets : p = Spread(es)[e.from] /\ Way(h, e.from, p, es)
  BY <1>1, <1>3, SpreadShape
<1>6. PICK q \in Offsets : q = Spread(es)[e.to] /\ Way(h, e.to, q, es)
  BY <1>1, <1>3, SpreadShape
<1> DEFINE v == [at |-> e.from, offset |-> p]
           w == [at |-> e.to, offset |-> q]
           x == [at |-> e.to, offset |-> e.imageOffset]
<1>7. v \in Spots /\ w \in Spots /\ x \in Spots
  BY <1>1, SpotShape
<1>8. PICK j \in Nat : Trip(es, h, j, v)
  BY <1>5 DEF Way
<1>9. PICK k \in Nat : Trip(es, h, k, w)
  BY <1>6 DEF Way
<1>10. Trip(es, h, j + 1, Beyond(v, x)) /\ j + 1 \in Nat /\ Beyond(v, x) \in Spots
       /\ Beyond(v, x).at = e.to
  <2>1. v.at = e.from
    OBVIOUS
  <2> HIDE DEF v, x
  <2>2. Trip(es, h, j + 1, Beyond(v, x))
    BY <1>1, <1>4, <1>7, <1>8, <2>1, Concat DEF x
  <2> QED
    BY <2>2, TripSpot DEF x, Beyond
<1>11. Trip(es, e.to, k, Back(h, w)) /\ Back(h, w) \in Spots
  <2>1. w.at = e.to
    OBVIOUS
  <2> HIDE DEF w
  <2>2. Trip(es, e.to, k, Back(h, w))
    BY <1>4, <1>7, <1>9, <2>1, WayBack
  <2> QED
    BY <2>2, TripSpot
<1>12. Trip(es, h, (j + 1) + k, Beyond(Beyond(v, x), Back(h, w)))
  BY <1>4, <1>10, <1>11, Concat
<1>13. Beyond(Beyond(v, x), Back(h, w)) = [at |-> h, offset |-> Minus(Plus(p, e.imageOffset), q)]
  <2>1. Plus(Plus(p, e.imageOffset), Minus(Zero, q)) = Minus(Plus(p, e.imageOffset), q)
    BY <1>1, ThereAndBack
  <2> QED
    BY <2>1 DEF Beyond, Back
<1>14. Plus(p, e.imageOffset) \in Offsets /\ Minus(Plus(p, e.imageOffset), q) \in Offsets
  BY <1>1, Vectors
<1>15. Minus(Plus(p, e.imageOffset), q) = Zero
  <2> SUFFICES ASSUME Minus(Plus(p, e.imageOffset), q) # Zero PROVE FALSE
    OBVIOUS
  <2>1. PICK y \in Spots : y = [at |-> h, offset |-> Minus(Plus(p, e.imageOffset), q)]
    BY <1>4, <1>14, SpotShape
  <2>2. Loop(es, h, (j + 1) + k, y) /\ (j + 1) + k \in Nat
    BY <1>12, <1>13, <2>1 DEF Loop
  <2>3. Leaves(h, es)
    BY <2>2 DEF Leaves
  <2> QED
    BY <1>4, <2>3
<1>16. Plus(p, e.imageOffset) = q
  BY <1>14, <1>15, NoDifference
<1> QED
  BY <1>5, <1>6, <1>16 DEF Fits

(* A node is in a pocket, or some walk from where it can get to escapes.    *)
LEMMA PocketOrPercolating ==
  ASSUME NEW es, IsEdges(es), NEW n \in Nodes
  PROVE  Pocket(n, es) <=> ~Percolating(n, es)
<1>1. ASSUME Pocket(n, es), Percolating(n, es) PROVE FALSE
  <2>1. PICK C \in SUBSET Nodes, place \in Placements :
          n \in C /\ Closed(C, es) /\ \A e \in es : e.from \in C => Fits(place, e)
    BY <1>1 DEF Pocket
  <2>2. PICK m \in Nodes : Reaches(n, m, es) /\ Leaves(m, es)
    BY <1>1, PercolatingLeaves
  <2> QED
    BY <2>1, <2>2, PocketsHold
<1>2. ASSUME ~Percolating(n, es) PROVE Pocket(n, es)
  <2> DEFINE C == Reachable(n, es)
  <2>1. \A m \in C : ~Leaves(m, es)
    BY <1>2, PercolatingLeaves DEF Reachable
  <2>2. C \in SUBSET Nodes /\ n \in C
    BY ReachesItself DEF Reachable
  <2>3. Closed(C, es)
    <3>1. ASSUME NEW e \in es PROVE e.from \in C <=> e.to \in C
      <4>1. e.from \in Nodes /\ e.to \in Nodes /\ Reaches(e.from, e.to, es)
        BY EdgeReaches
      <4>2. Reaches(e.to, e.from, es)
        BY <4>1, ReachesBack
      <4> QED
        BY <4>1, <4>2, ReachesTwice DEF Reachable
    <3> QED
      BY <3>1 DEF Closed
  <2>4. ASSUME NEW e \in es, e.from \in C PROVE Fits(Spread(es), e)
    <3>1. Reachable(e.from, es) = C
      BY <2>4, ComponentShape
    <3> QED
      BY <2>1, <3>1, SpreadFits
  <2> HIDE DEF C
  <2> QED
    BY <2>2, <2>3, <2>4, SpreadPlaces DEF Pocket
<1> QED
  BY <1>1, <1>2

(* A placement fits all edges, or some walk escapes.                        *)
LEMMA FitsOrEscapes ==
  ASSUME NEW es, IsEdges(es)
  PROVE  (\E place \in Placements : \A e \in es : Fits(place, e)) <=> ~\E n \in Nodes : Escapes(n, es)
<1>1. ASSUME NEW place \in Placements, \A e \in es : Fits(place, e), NEW n \in Nodes, Escapes(n, es)
      PROVE  FALSE
  <2>1. Closed(Nodes, es)
    BY EdgeReaches DEF Closed
  <2>2. Leaves(n, es) /\ Reaches(n, n, es)
    BY <1>1, EscapesLeave, ReachesItself
  <2> QED
    BY <1>1, <2>1, <2>2, PocketsHold
<1>2. ASSUME ~\E n \in Nodes : Escapes(n, es), NEW e \in es PROVE Fits(Spread(es), e)
  <2>1. ASSUME NEW m \in Nodes PROVE ~Leaves(m, es)
    BY <1>2, EscapesShortly, ReachesItself
  <2> QED
    BY <2>1, SpreadFits DEF Reachable
<1> QED
  BY <1>1, <1>2, SpreadPlaces
-----------------------------------------------------------------------------
(***************************************************************************)
(* The properties of PeriodicGraph, which speak of walks.                  *)
(***************************************************************************)
LEMMA WiderEdges ==
  ASSUME GraphInv, NEW r
  PROVE  Wider(r) \subseteq input.edges /\ IsEdges(Wider(r)) /\ IsEdges(input.edges)
BY DEF Wider, IsEdges, IsInput, GraphInv, Typed

(* The edges of at least r percolate when and only when those of at least   *)
(* some threshold of at least r do: their narrowest edge's weight.          *)
LEMMA ThresholdAbove ==
  ASSUME GraphInv, NEW r \in Int
  PROVE  (\E n \in Nodes : Escapes(n, Wider(r))) <=> \E t \in Thresholds : t >= r
<1>0. \A e \in input.edges : e.weight \in Int
  BY WiderEdges DEF IsEdges, IsEdge
<1>1. ASSUME NEW n \in Nodes, Escapes(n, Wider(r)) PROVE \E t \in Thresholds : t >= r
  <2>1. Wider(r) # {}
    <3>1. SUFFICES ASSUME Wider(r) = {} PROVE FALSE
      OBVIOUS
    <3>2. [m \in Nodes |-> Zero] \in Placements
      BY Vectors DEF Placements
    <3>3. \E place \in Placements : \A e \in Wider(r) : Fits(place, e)
      BY <3>1, <3>2
    <3> QED
      BY <1>1, <3>3, WiderEdges, FitsOrEscapes
  <2> DEFINE S == {k \in Nat : \E e \in Wider(r) : k = e.weight - r}
  <2>2. S # {} /\ S \in SUBSET Nat
    <3>1. PICK e \in Wider(r) : TRUE
      BY <2>1
    <3>2. e.weight \in Int /\ e.weight >= r
      BY <1>0 DEF Wider
    <3>3. e.weight - r \in S
      BY <3>2
    <3> QED
      BY <3>3
  <2>3. PICK k \in S : \A x \in S : k <= x
    <3> HIDE DEF S
    <3> QED
      BY <2>2, LeastOfNaturals
  <2>4. PICK e \in Wider(r) : k = e.weight - r
    OBVIOUS
  <2>5. e \in input.edges /\ e.weight \in Int /\ e.weight >= r
    BY <1>0 DEF Wider
  <2>6. ASSUME NEW d \in input.edges PROVE d.weight >= e.weight <=> d.weight >= r
    <3>1. d.weight \in Int
      BY <1>0
    <3>2. ASSUME d.weight >= r PROVE d.weight >= e.weight
      <4>1. d.weight - r \in S
        BY <3>1, <3>2 DEF Wider
      <4>2. k <= d.weight - r
        BY <2>3, <4>1
      <4> QED
        BY <2>4, <2>5, <3>1, <4>2
    <3> QED
      BY <2>5, <3>1, <3>2
  <2>7. Wider(e.weight) = Wider(r)
    BY <2>6 DEF Wider
  <2> QED
    BY <1>1, <2>5, <2>7 DEF Thresholds
<1>2. ASSUME NEW t \in Thresholds, t >= r PROVE \E n \in Nodes : Escapes(n, Wider(r))
  <2>1. PICK d \in input.edges : d.weight = t /\ \E n \in Nodes : Escapes(n, Wider(t))
    BY DEF Thresholds
  <2>2. t \in Int
    BY <1>0, <2>1
  <2>3. Wider(t) \subseteq Wider(r)
    BY <1>0, <1>2, <2>2 DEF Wider
  <2>4. \A place \in Placements : \E e \in Wider(t) : ~Fits(place, e)
    BY <2>1, WiderEdges, FitsOrEscapes
  <2> QED
    BY <2>3, <2>4, WiderEdges, FitsOrEscapes
<1> QED
  BY <1>1, <1>2

LEMMA AccessibleHolds == GraphInv /\ AccessibleIsNotPocket => AccessibleIsRight
<1> SUFFICES ASSUME GraphInv, AccessibleIsNotPocket, pc = "done", ~Sweeping
             PROVE  /\ result = {n \in Nodes : Percolating(n, Wider(input.radius))}
                    /\ result # {} <=> \E t \in Thresholds : t >= input.radius
  BY DEF AccessibleIsRight
<1> DEFINE es == Wider(input.radius)
<1>0. IsEdges(es) /\ input.radius \in Int
  BY WiderEdges DEF GraphInv, Typed, IsInput
<1>1. result = {n \in Nodes : Percolating(n, es)}
  <2>1. result = {n \in Nodes : ~Pocket(n, es)}
    BY DEF AccessibleIsNotPocket
  <2>2. \A n \in Nodes : Pocket(n, es) <=> ~Percolating(n, es)
    BY <1>0, PocketOrPercolating
  <2> QED
    BY <2>1, <2>2
<1>2. result # {} <=> \E n \in Nodes : Escapes(n, es)
  <2> HIDE DEF es
  <2>1. ASSUME NEW n \in Nodes, Percolating(n, es) PROVE \E m \in Nodes : Escapes(m, es)
    BY <1>0, <2>1, ConnectedReaches DEF Percolating
  <2>2. ASSUME NEW n \in Nodes, Escapes(n, es) PROVE Percolating(n, es)
    BY <1>0, <2>2, ReachesItself, ReachedShortly DEF Percolating
  <2> QED
    BY <1>1, <2>1, <2>2
<1>3. result # {} <=> \E t \in Thresholds : t >= input.radius
  BY <1>0, <1>2, ThresholdAbove
<1> QED
  BY <1>1, <1>3

(* accessibleComponents reports the nodes from which some walk escapes, for *)
(* all edges, radii and lattices and in whichever order edges are united;   *)
(* there is one if and only if a threshold is at least the radius.          *)
THEOREM AccessibleIsWalked == Spec => []AccessibleIsRight
BY AccessibleHolds, GraphInvariant, AccessibleCorrect, PTL

LEMMA ThresholdHolds == GraphInv /\ ThresholdSeparates => ThresholdIsRight
<1> SUFFICES ASSUME GraphInv, ThresholdSeparates, pc = "done", Sweeping
             PROVE  result = IF Thresholds = {} THEN {0}
                             ELSE {t \in Thresholds : \A u \in Thresholds : u <= t}
  BY DEF ThresholdIsRight
<1>0. /\ \A e \in input.edges : e.weight \in Int
      /\ IsEdges(input.edges) /\ \A r : IsEdges(Wider(r))
  BY WiderEdges DEF IsEdges, IsEdge
<1>1. Thresholds \subseteq Int
  BY <1>0 DEF Thresholds
<1>2. PICK w \in Int :
        /\ result = {w}
        /\ \E place \in Placements : \A e \in input.edges : e.weight > w => Fits(place, e)
        /\ \/ \A place \in Placements : \E e \in Wider(w) : ~Fits(place, e)
           \/ w = 0 /\ \E place \in Placements : \A e \in input.edges : Fits(place, e)
  BY DEF ThresholdSeparates
<1>3. \A t \in Thresholds : t <= w
  <2> SUFFICES ASSUME NEW t \in Thresholds, t > w PROVE FALSE
    BY <1>1
  <2>1. \E n \in Nodes : Escapes(n, Wider(t))
    BY DEF Thresholds
  <2>2. \A e \in Wider(t) : e \in input.edges /\ e.weight > w
    BY <1>0, <1>1 DEF Wider
  <2>3. \E place \in Placements : \A e \in Wider(t) : Fits(place, e)
    BY <1>2, <2>2
  <2> QED
    BY <1>0, <2>1, <2>3, FitsOrEscapes
<1>4. CASE \A place \in Placements : \E e \in Wider(w) : ~Fits(place, e)
  <2>1. \E n \in Nodes : Escapes(n, Wider(w))
    BY <1>0, <1>4, FitsOrEscapes
  <2>2. PICK t \in Thresholds : t >= w
    BY <2>1, ThresholdAbove
  <2>3. t = w
    BY <1>1, <1>3, <2>2
  <2>4. \A t1 \in Thresholds : (\A u \in Thresholds : u <= t1) <=> t1 = w
    BY <1>1, <1>3, <2>2, <2>3
  <2> QED
    BY <1>2, <2>2, <2>3, <2>4
<1>5. CASE w = 0 /\ \E place \in Placements : \A e \in input.edges : Fits(place, e)
  <2>1. Thresholds = {}
    <3> SUFFICES ASSUME NEW t \in Thresholds PROVE FALSE
      OBVIOUS
    <3>1. \E n \in Nodes : Escapes(n, Wider(t))
      BY DEF Thresholds
    <3>2. \E place \in Placements : \A e \in Wider(t) : Fits(place, e)
      BY <1>5 DEF Wider
    <3> QED
      BY <1>0, <3>1, <3>2, FitsOrEscapes
  <2> QED
    BY <1>2, <1>5, <2>1
<1> QED
  BY <1>2, <1>4, <1>5

(* percolationThreshold returns the largest weight at which some walk along *)
(* the edges of at least that weight escapes, and 0 when none does, for all *)
(* edges and lattices, ties and all.                                        *)
THEOREM ThresholdIsWalked == Spec => []ThresholdIsRight
BY ThresholdHolds, GraphInvariant, ThresholdCorrect, PTL

-----------------------------------------------------------------------------
(***************************************************************************)
(* The analysis that calls the graph.                                      *)
(***************************************************************************)
Leader(f, k) == \E m \in 1..k : \A j \in 1..k : f[j] <= f[m]

LEMMA GreatestOfFinite ==
  ASSUME NEW S, IsFiniteSet(S), S # {}, S \subseteq Int
  PROVE  Max(S) \in S /\ \A x \in S : x <= Max(S)
<1>1. PICK n \in Nat : ExistsBijection(1..n, S)
  BY FS_NatBijection
<1>2. PICK f \in [1..n -> S] : \A x \in S : \E i \in 1..n : f[i] = x
  BY <1>1 DEF ExistsBijection, Bijection, Surjection
<1>0. \A i \in 1..n : f[i] \in S /\ f[i] \in Int
  OBVIOUS
<1>3. n \in Nat \ {0}
  <2>1. PICK x \in S : TRUE
    OBVIOUS
  <2>2. PICK i \in 1..n : f[i] = x
    BY <1>2, <2>1
  <2> QED
    BY <2>2
<1> DEFINE T == {k \in Nat : k + 1 <= n => Leader(f, k + 1)}
<1>4. 0 \in T
  <2>1. Leader(f, 1)
    <3>1. 1 \in 1..n /\ \A j \in 1..1 : j = 1
      BY <1>3
    <3>2. f[1] <= f[1]
      BY <1>0, <3>1
    <3>3. \A j \in 1..1 : f[j] <= f[1]
      BY <3>1, <3>2
    <3> QED
      BY <3>3 DEF Leader
  <2> QED
    BY <2>1
<1>5. ASSUME NEW k \in Nat, k \in T PROVE k + 1 \in T
  <2> SUFFICES ASSUME (k + 1) + 1 <= n PROVE Leader(f, (k + 1) + 1)
    OBVIOUS
  <2>1. PICK m \in 1..(k + 1) : \A j \in 1..(k + 1) : f[j] <= f[m]
    BY <1>5 DEF Leader
  <2>2. PICK l \in 1..n : l = (k + 1) + 1
    OBVIOUS
  <2>3. \A j \in 1..l : j \in 1..n /\ f[j] \in Int /\ (j \in 1..(k + 1) \/ j = l)
    <3> SUFFICES ASSUME NEW j \in 1..l PROVE j \in 1..n /\ f[j] \in Int /\ (j \in 1..(k + 1) \/ j = l)
      OBVIOUS
    <3>1. j \in 1..n /\ (j \in 1..(k + 1) \/ j = l)
      BY <2>2
    <3> QED
      BY <1>0, <3>1
  <2>4. m \in 1..l /\ m \in 1..n /\ f[m] \in Int /\ f[l] \in Int
    <3>1. m \in 1..l /\ m \in 1..n
      BY <2>2
    <3> QED
      BY <1>0, <3>1
  <2>5. CASE f[l] <= f[m]
    <3>1. \A j \in 1..l : f[j] <= f[m]
      BY <2>1, <2>3, <2>5
    <3> QED
      BY <2>2, <2>4, <3>1 DEF Leader
  <2>6. CASE f[m] <= f[l]
    <3>1. ASSUME NEW j \in 1..l PROVE f[j] <= f[l]
      <4>1. CASE j = l
        BY <2>4, <4>1
      <4>2. CASE j \in 1..(k + 1)
        BY <2>1, <2>3, <2>4, <2>6, <4>2
      <4> QED
        BY <2>3, <4>1, <4>2
    <3>2. l \in 1..l
      OBVIOUS
    <3> QED
      BY <2>2, <3>1, <3>2 DEF Leader
  <2> QED
    BY <2>4, <2>5, <2>6
<1> HIDE DEF T
<1>6. Nat \subseteq T
  BY <1>4, <1>5, SetInduction
<1>7. PICK k \in Nat : k + 1 = n /\ k \in T
  BY <1>3, <1>6
<1>8. Leader(f, n)
  BY <1>7 DEF T
<1>9. PICK m \in 1..n : \A j \in 1..n : f[j] <= f[m]
  BY <1>8 DEF Leader
<1>10. f[m] \in S /\ \A x \in S : f[m] >= x
  <2>1. \A j \in 1..n : f[j] \in Int
    BY <1>2
  <2> QED
    BY <1>2, <1>9, <2>1
<1>11. Max(S) \in S /\ \A x \in S : Max(S) >= x
  BY <1>10 DEF Max
<1> QED
  BY <1>11

LEMMA LeastOfFinite ==
  ASSUME NEW S, IsFiniteSet(S), S # {}, S \subseteq Int
  PROVE  Min(S) \in S
<1> DEFINE f == [x \in S |-> 0 - x]
           R == {0 - x : x \in S}
<1>1. f \in Surjection(S, R)
  <2>1. f \in [S -> R] /\ \A y \in R : \E x \in S : f[x] = y
    OBVIOUS
  <2> QED
    BY <2>1 DEF Surjection
<1>2. IsFiniteSet(R)
  <2> HIDE DEF f, R
  <2> QED
    BY <1>1, FS_Surjection
<1>3. R # {} /\ R \subseteq Int
  OBVIOUS
<1>4. Max(R) \in R /\ \A y \in R : y <= Max(R)
  <2> HIDE DEF R
  <2> QED
    BY <1>2, <1>3, GreatestOfFinite
<1>5. PICK x \in S : Max(R) = 0 - x
  BY <1>4
<1>6. \A y \in S : 0 - y <= 0 - x
  <2> SUFFICES ASSUME NEW y \in S PROVE 0 - y <= 0 - x
    OBVIOUS
  <2>1. 0 - y \in R
    OBVIOUS
  <2> QED
    BY <1>4, <1>5, <2>1
<1>7. \A y \in S : x <= y
  BY <1>6
<1>8. \E z \in S : \A y \in S : z =< y
  BY <1>7
<1> QED
  BY <1>8 DEF Min

(* Points, keys and radii. *)
Places == [Axes -> 0..(Side - 1)]

LEMMA PointShape ==
  ASSUME NEW p \in Offsets
  PROVE  /\ ImageOf(p) \in Offsets /\ Wrapped(p) \in Places
         /\ Wrapped(p) \in Offsets
BY PoreAssumption DEF Offsets, ImageOf, Wrapped, Places

LEMMA RadiusShape ==
  ASSUME tess \in Tessellations, NEW p
  PROVE  FreeRadiusAt(p) \in Int
<1>1. IsTessellation(tess)
  BY PoreAssumption
<1> QED
  BY <1>1 DEF FreeRadiusAt, IsTessellation

LEMMA SampledShape ==
  ASSUME tess \in Tessellations, NEW i, NEW j
  PROVE  /\ IsFiniteSet(SampledRadii(i, j)) /\ SampledRadii(i, j) # {}
         /\ SampledRadii(i, j) \subseteq Int
         /\ MinRadius(i, j) \in SampledRadii(i, j)
<1> DEFINE S == 0..(SampleCount - 1)
           f == [s \in S |-> FreeRadiusAt(Wrapped(Along(i, j, s)))]
<1>1. f \in Surjection(S, SampledRadii(i, j))
  BY DEF Surjection, SampledRadii
<1>2. IsFiniteSet(S) /\ 0 \in S
  <2>1. 0 \in Int /\ SampleCount - 1 \in Int
    BY PoreAssumption
  <2> QED
    BY <2>1, PoreAssumption, FS_Interval
<1>3. IsFiniteSet(SampledRadii(i, j))
  <2> HIDE DEF f, S
  <2> QED
    BY <1>1, <1>2, FS_Surjection
<1>4. SampledRadii(i, j) # {} /\ SampledRadii(i, j) \subseteq Int
  BY <1>2, RadiusShape DEF SampledRadii
<1> QED
  BY <1>3, <1>4, LeastOfFinite DEF MinRadius

(* The network: a node for every key, an edge no wider than the widest.     *)
Corners == [raw : Offsets, image : Offsets, node : DOMAIN nodes]
Sites == [position : Places, radius : Int]

NetworkInv ==
  /\ tess \in Tessellations
  /\ cell \in 1..(Len(tess.cells) + 1)
  /\ local \in Seq(Corners)
  /\ cell <= Len(tess.cells) => Len(local) <= Len(Vertices)
  /\ nodes \in Seq(Sites)
  /\ \A m \in DOMAIN nodes : KeyFor(nodes[m].position) \in Keys(tess)
  /\ \A m, n \in DOMAIN nodes : KeyFor(nodes[m].position) = KeyFor(nodes[n].position) => m = n
  /\ widest \in Nat
  /\ \A e \in edges : /\ IsEdge(e) /\ e.weight <= widest
                      /\ e.from \in DOMAIN nodes /\ e.to \in DOMAIN nodes

(* What the calls were made with, and what became of their answers.         *)
CallOf(name) == [call |-> name, edges |-> edges, radius |-> Probe]

CallInv ==
  /\ stage \in {"network", "threshold", "accessible", "sampling"}
  /\ stage = "network" => pc = "done"
  /\ stage = "threshold" => input = CallOf("percolationThreshold")
  /\ stage \in {"accessible", "sampling"} =>
       /\ input = CallOf("accessibleComponents")
       /\ pld \in Int /\ pld <= lcd
       /\ \A t \in Thresholds : t <= pld
  /\ stage # "network" => lcd \in Int /\ widest <= lcd
  /\ stage = "sampling" => pc = "done" /\ (accessible # {} => Probe <= pld)

CountInv ==
  /\ accessible \subseteq Nodes
  /\ counts \in [samples : Nat, accessible : Nat, inaccessible : Nat]
  /\ counts.accessible + counts.inaccessible <= counts.samples
  /\ counts.accessible > 0 => stage = "sampling" /\ accessible # {}

PoreInv == GraphInv /\ NetworkInv /\ CallInv /\ CountInv

LEMMA NodesFit ==
  ASSUME NetworkInv
  PROVE  /\ Len(nodes) \in Nat /\ Len(nodes) <= Cardinality(Nodes)
         /\ DOMAIN nodes \subseteq Nodes
<1>1. PICK N \in Nat : N = Len(nodes) /\ DOMAIN nodes = 1..N
  BY DEF NetworkInv
<1> DEFINE f == [n \in 1..N |-> KeyFor(nodes[n].position)]
<1>2. f \in Injection(1..N, Keys(tess))
  BY <1>1 DEF NetworkInv, Injection, IsInjective
<1>3. IsFiniteSet(Keys(tess)) /\ Cardinality(Keys(tess)) <= Cardinality(Nodes)
  BY RoomAssumption DEF NetworkInv
<1>4. Cardinality(1..N) <= Cardinality(Keys(tess))
  <2> HIDE DEF f
  <2> QED
    BY <1>2, <1>3, FS_Injection
<1>5. Cardinality(1..N) = N
  <2>1. 1 \in Int /\ N \in Int
    OBVIOUS
  <2> QED
    BY <2>1, FS_Interval
<1>6. Cardinality(Nodes) \in Nat /\ Cardinality(Keys(tess)) \in Nat
  BY <1>3, GraphAssumption, FS_CardinalityType
<1>7. N <= Cardinality(Nodes)
  BY <1>3, <1>4, <1>5, <1>6
<1>8. Nodes = 1..Cardinality(Nodes)
  BY PoreAssumption
<1> QED
  BY <1>1, <1>6, <1>7, <1>8

LEMMA SiteShape ==
  ASSUME NetworkInv, NEW n \in DOMAIN nodes
  PROVE  nodes[n].position \in Places /\ nodes[n].radius \in Int
<1>1. nodes \in Seq(Sites)
  BY DEF NetworkInv
<1>2. nodes[n] \in Sites
  BY <1>1
<1> QED
  BY <1>2 DEF Sites

LEMMA InitPore == PoreInit => PoreInv
<1> SUFFICES ASSUME PoreInit PROVE PoreInv
  OBVIOUS
<1>1. GraphInv
  <2>1. Fresh
    BY DEF PoreInit, Fresh, IsInput, Sweeping, Passes
  <2> QED
    BY <2>1, FreshGraph
<1>2. NetworkInv
  <2>1. IsTessellation(tess) /\ tess \in Tessellations
    BY PoreAssumption DEF PoreInit
  <2>2. Len(tess.cells) \in Nat
    BY <2>1 DEF IsTessellation
  <2>3. cell <= Len(tess.cells) => Len(local) <= Len(Vertices)
    <3> SUFFICES ASSUME cell <= Len(tess.cells) PROVE Len(local) <= Len(Vertices)
      OBVIOUS
    <3>1. tess.cells[cell] \in Range(tess.cells)
      BY <2>1, <2>2 DEF PoreInit, Range, IsTessellation
    <3>2. Len(Vertices) \in Nat
      BY <2>1, <3>1 DEF IsTessellation, Vertices
    <3> QED
      BY <3>2 DEF PoreInit
  <2> QED
    BY <2>1, <2>2, <2>3 DEF PoreInit, NetworkInv
<1>3. CallInv /\ CountInv
  BY DEF PoreInit, CallInv, CountInv
<1> QED
  BY <1>1, <1>2, <1>3 DEF PoreInv
-----------------------------------------------------------------------------
(* The steps of the analysis. *)

LEMMA GraphInputKept ==
  ASSUME Find \/ Unite \/ Answer PROVE input' = input
BY DEF Find, Unite, Answer, Descend, Compress, TakeEdge, FoundFrom, CloseCycle, Join,
       Ask, ReadFlag, Return

LEMMA SameThresholds ==
  ASSUME input'.edges = input.edges PROVE Thresholds' = Thresholds
<1>1. \A r : Wider(r)' = Wider(r)
  BY DEF Wider
<1> QED
  BY <1>1 DEF Thresholds

LEMMA CellShape ==
  ASSUME tess \in Tessellations, cell \in 1..Len(tess.cells)
  PROVE  /\ tess.cells[cell] \in Range(tess.cells)
         /\ Vertices \in Seq(Offsets) /\ Len(Vertices) \in Nat
         /\ IsFiniteSet(tess.cells[cell].faces)
         /\ \A f \in tess.cells[cell].faces : f \in Seq(DOMAIN Vertices)
         /\ \A v \in DOMAIN Vertices, noise \in RoundOff :
              KeyFor(Wrapped(Plus(Vertices[v], noise))) \in Keys(tess)
<1>1. IsTessellation(tess)
  BY PoreAssumption
<1>2. tess.cells[cell] \in Range(tess.cells)
  BY <1>1 DEF IsTessellation, Range
<1>3. Vertices \in Seq(Offsets) /\ Len(Vertices) \in Nat
  BY <1>1, <1>2 DEF IsTessellation, Vertices
<1> QED
  BY <1>1, <1>2, <1>3 DEF IsTessellation, Vertices, Keys

LEMMA AddVertexKeeps == ASSUME PoreInv, AddVertex PROVE PoreInv'
<1>0. /\ stage = "network" /\ cell <= Len(tess.cells) /\ Len(local) < Len(Vertices)
      /\ tess' = tess /\ cell' = cell /\ edges' = edges /\ widest' = widest /\ stage' = stage
      /\ lcd' = lcd /\ pld' = pld /\ accessible' = accessible /\ counts' = counts
      /\ UNCHANGED vars
  BY DEF AddVertex, answers
<1>1. GraphInv'
  BY <1>0, StutterKeeps DEF PoreInv
<1>2. CallInv' /\ CountInv'
  BY <1>0 DEF PoreInv, CallInv, CountInv, vars
<1>3. NetworkInv'
  <2>1. /\ tess \in Tessellations /\ cell \in 1..Len(tess.cells)
        /\ local \in Seq(Corners) /\ nodes \in Seq(Sites)
    BY <1>0 DEF PoreInv, NetworkInv
  <2>2. PICK noise \in RoundOff :
          LET raw == Plus(Vertices[Len(local) + 1], noise)
              position == Wrapped(raw)
              known == Known(KeyFor(position))
          IN /\ nodes' = IF known # {} THEN nodes
                         ELSE Append(nodes, [position |-> position, radius |-> FreeRadiusAt(position)])
             /\ local' = Append(local, [raw |-> raw, image |-> ImageOf(raw),
                           node |-> IF known # {} THEN CHOOSE n \in known : TRUE ELSE Len(nodes) + 1])
    BY DEF AddVertex
  <2> DEFINE raw == Plus(Vertices[Len(local) + 1], noise)
             position == Wrapped(raw)
             known == Known(KeyFor(position))
             node == IF known # {} THEN CHOOSE n \in known : TRUE ELSE Len(nodes) + 1
             site == [position |-> position, radius |-> FreeRadiusAt(position)]
             corner == [raw |-> raw, image |-> ImageOf(raw), node |-> node]
  <2>3. Len(local) \in Nat /\ Len(Vertices) \in Nat /\ Len(local) + 1 \in DOMAIN Vertices
        /\ Len(nodes) \in Nat /\ DOMAIN nodes = 1..Len(nodes)
    BY <1>0, <2>1, CellShape
  <2>4. raw \in Offsets
    <3>1. Vertices[Len(local) + 1] \in Offsets /\ noise \in Offsets
      BY <2>1, <2>3, CellShape, PoreAssumption
    <3> QED
      BY <3>1, Vectors
  <2>5. position \in Places /\ ImageOf(raw) \in Offsets /\ KeyFor(position) \in Keys(tess)
    BY <2>1, <2>3, <2>4, PointShape, CellShape
  <2>6. site \in Sites
    BY <2>1, <2>5, RadiusShape DEF Sites
  <2>7. known = {n \in DOMAIN nodes : KeyFor(nodes[n].position) = KeyFor(position)}
    BY DEF Known
  <2>8. /\ nodes' = IF known # {} THEN nodes ELSE Append(nodes, site)
        /\ local' = Append(local, corner)
    BY <2>2
  <2> HIDE DEF raw, position, known, site, corner
  <2>9. /\ nodes' \in Seq(Sites) /\ DOMAIN nodes \subseteq DOMAIN nodes' /\ node \in DOMAIN nodes'
        /\ \A n \in DOMAIN nodes : nodes'[n] = nodes[n]
        /\ \A m \in DOMAIN nodes' : KeyFor(nodes'[m].position) \in Keys(tess)
        /\ \A m, n \in DOMAIN nodes' :
             KeyFor(nodes'[m].position) = KeyFor(nodes'[n].position) => m = n
    <3>1. CASE known # {}
      <4>1. nodes' = nodes
        BY <2>8, <3>1
      <4>2. node \in DOMAIN nodes
        BY <2>7, <3>1
      <4> QED
        BY <4>1, <4>2 DEF PoreInv, NetworkInv
    <3>2. CASE known = {}
      <4>1. nodes' = Append(nodes, site) /\ node = Len(nodes) + 1
        BY <2>8, <3>2
      <4>2. /\ nodes' \in Seq(Sites) /\ DOMAIN nodes' = 1..(Len(nodes) + 1)
            /\ \A n \in 1..Len(nodes) : nodes'[n] = nodes[n]
            /\ nodes'[Len(nodes) + 1] = site
        BY <2>1, <2>6, <4>1
      <4>3. \A m \in DOMAIN nodes' : m \in DOMAIN nodes \/ m = Len(nodes) + 1
        BY <2>3, <4>2
      <4>4. KeyFor(site.position) = KeyFor(position)
        BY DEF site
      <4>5. \A m \in DOMAIN nodes : KeyFor(nodes[m].position) \in Keys(tess)
                                    /\ KeyFor(nodes[m].position) # KeyFor(position)
        BY <2>7, <3>2 DEF PoreInv, NetworkInv
      <4>6. \A m, n \in DOMAIN nodes :
              KeyFor(nodes[m].position) = KeyFor(nodes[n].position) => m = n
        BY DEF PoreInv, NetworkInv
      <4>7. \A m \in DOMAIN nodes' : KeyFor(nodes'[m].position) \in Keys(tess)
        BY <2>3, <2>5, <4>2, <4>3, <4>4, <4>5
      <4>8. ASSUME NEW m \in DOMAIN nodes', NEW n \in DOMAIN nodes',
                   KeyFor(nodes'[m].position) = KeyFor(nodes'[n].position)
            PROVE  m = n
        BY <2>3, <4>2, <4>3, <4>4, <4>5, <4>6, <4>8
      <4> QED
        BY <2>3, <4>1, <4>2, <4>7, <4>8
    <3> QED
      BY <3>1, <3>2
  <2>10. local' \in Seq(Corners') /\ Len(local') = Len(local) + 1
    <3>1. corner \in Corners'
      BY <2>4, <2>5, <2>9 DEF corner, Corners
    <3>2. Corners \subseteq Corners'
      BY <2>9 DEF Corners
    <3>3. local \in Seq(Corners')
      BY <2>1, <3>2
    <3> HIDE DEF Corners
    <3> QED
      BY <2>8, <3>1, <3>3
  <2>11. Vertices' = Vertices
    BY <1>0 DEF Vertices
  <2>12. \A e \in edges' : /\ IsEdge(e) /\ e.weight <= widest'
                           /\ e.from \in DOMAIN nodes' /\ e.to \in DOMAIN nodes'
    BY <1>0, <2>9 DEF PoreInv, NetworkInv
  <2>13. cell' <= Len(tess'.cells) => Len(local') <= Len(Vertices')
    BY <1>0, <2>3, <2>10, <2>11
  <2>14. tess' \in Tessellations /\ cell' \in 1..(Len(tess'.cells) + 1) /\ widest' \in Nat
    BY <1>0 DEF PoreInv, NetworkInv
  <2> QED
    BY <1>0, <2>9, <2>10, <2>12, <2>13, <2>14 DEF NetworkInv
<1> QED
  BY <1>1, <1>2, <1>3 DEF PoreInv

(* The edges of a cell's faces are finitely many, between its vertices. *)
LEMMA FaceEdgesShape ==
  ASSUME tess \in Tessellations, cell \in 1..Len(tess.cells)
  PROVE  /\ IsFiniteSet(FaceEdges)
         /\ \A e \in FaceEdges : e[1] \in DOMAIN Vertices /\ e[2] \in DOMAIN Vertices
<1> DEFINE faces == tess.cells[cell].faces
           around(f) == {<<f[k], f[(k % Len(f)) + 1]>> : k \in DOMAIN f}
           all == {around(f) : f \in faces}
<1>1. IsFiniteSet(faces) /\ \A f \in faces : f \in Seq(DOMAIN Vertices)
  BY CellShape
<1>2. ASSUME NEW f \in faces
      PROVE  /\ IsFiniteSet(around(f))
             /\ \A e \in around(f) : e[1] \in DOMAIN Vertices /\ e[2] \in DOMAIN Vertices
  <2>1. PICK n \in Nat : n = Len(f) /\ DOMAIN f = 1..n /\ \A k \in 1..n : f[k] \in DOMAIN Vertices
    BY <1>1
  <2> DEFINE g == [k \in 1..n |-> <<f[k], f[(k % Len(f)) + 1]>>]
  <2>2. g \in Surjection(1..n, around(f))
    BY <2>1 DEF Surjection
  <2>3. IsFiniteSet(1..n)
    <3>1. 1 \in Int /\ n \in Int
      OBVIOUS
    <3> QED
      BY <3>1, FS_Interval
  <2>4. IsFiniteSet(around(f))
    <3> HIDE DEF g, around
    <3> QED
      BY <2>2, <2>3, FS_Surjection
  <2>5. \A k \in 1..n : (k % n) + 1 \in 1..n
    OBVIOUS
  <2>6. ASSUME NEW e \in around(f) PROVE e[1] \in DOMAIN Vertices /\ e[2] \in DOMAIN Vertices
    <3>1. PICK k \in 1..n : e = <<f[k], f[(k % n) + 1]>>
      BY <2>1
    <3>2. f[k] \in DOMAIN Vertices /\ f[(k % n) + 1] \in DOMAIN Vertices
      BY <2>1, <2>5
    <3> QED
      BY <3>1, <3>2
  <2> HIDE DEF around
  <2> QED
    BY <2>4, <2>6
<1>3. IsFiniteSet(all)
  <2> DEFINE h == [f \in faces |-> around(f)]
  <2>1. h \in Surjection(faces, all)
    BY DEF Surjection
  <2> HIDE DEF h, all, faces
  <2> QED
    BY <1>1, <2>1, FS_Surjection
<1>4. IsFiniteSet(UNION all)
  <2>1. \A T \in all : IsFiniteSet(T)
    BY <1>2
  <2> HIDE DEF all
  <2> QED
    BY <1>3, <2>1, FS_UNION
<1>5. FaceEdges = UNION all
  BY DEF FaceEdges
<1> QED
  BY <1>2, <1>4, <1>5

LEMMA AddFacesKeeps == ASSUME PoreInv, AddFaces PROVE PoreInv'
<1>0. /\ stage = "network" /\ cell <= Len(tess.cells) /\ Len(local) = Len(Vertices)
      /\ edges' = edges \cup
           {[from |-> local[e[1]].node, to |-> local[e[2]].node,
             weight |-> MinRadius(local[e[1]].raw, local[e[2]].raw),
             imageOffset |-> ImageStep(local[e[1]], local[e[2]])] : e \in FaceEdges}
      /\ widest' = Max({widest} \cup
           UNION {SampledRadii(local[e[1]].raw, local[e[2]].raw) : e \in FaceEdges})
      /\ cell' = cell + 1 /\ local' = << >>
      /\ tess' = tess /\ nodes' = nodes /\ stage' = stage
      /\ lcd' = lcd /\ pld' = pld /\ accessible' = accessible /\ counts' = counts
      /\ UNCHANGED vars
  BY DEF AddFaces, answers
<1>1. GraphInv'
  BY <1>0, StutterKeeps DEF PoreInv
<1>2. CallInv' /\ CountInv'
  BY <1>0 DEF PoreInv, CallInv, CountInv, vars
<1>3. NetworkInv'
  <2>1. /\ tess \in Tessellations /\ cell \in 1..Len(tess.cells)
        /\ local \in Seq(Corners) /\ nodes \in Seq(Sites) /\ widest \in Nat
        /\ Len(local) \in Nat
    BY <1>0 DEF PoreInv, NetworkInv
  <2>2. ASSUME NEW e \in FaceEdges
        PROVE  local[e[1]] \in Corners /\ local[e[2]] \in Corners
    <3>1. e[1] \in DOMAIN Vertices /\ e[2] \in DOMAIN Vertices /\ Vertices \in Seq(Offsets)
      BY <2>1, FaceEdgesShape, CellShape
    <3>2. e[1] \in DOMAIN local /\ e[2] \in DOMAIN local
      BY <1>0, <2>1, <3>1
    <3> HIDE DEF Corners
    <3> QED
      BY <2>1, <3>2
  <2> DEFINE sampled(e) == SampledRadii(local[e[1]].raw, local[e[2]].raw)
             all == {sampled(e) : e \in FaceEdges}
             S == {widest} \cup UNION all
  <2>3. ASSUME NEW e \in FaceEdges
        PROVE  /\ IsFiniteSet(sampled(e)) /\ sampled(e) \subseteq Int
               /\ MinRadius(local[e[1]].raw, local[e[2]].raw) \in sampled(e)
    BY <2>1, SampledShape
  <2>4. IsFiniteSet(all)
    <3> DEFINE h == [e \in FaceEdges |-> sampled(e)]
    <3>1. h \in Surjection(FaceEdges, all)
      BY DEF Surjection
    <3> HIDE DEF h, all
    <3> QED
      BY <2>1, <3>1, FaceEdgesShape, FS_Surjection
  <2>5. IsFiniteSet(UNION all) /\ UNION all \subseteq Int
    <3>1. \A T \in all : IsFiniteSet(T) /\ T \subseteq Int
      BY <2>3
    <3> HIDE DEF all
    <3> QED
      BY <2>4, <3>1, FS_UNION
  <2>6. IsFiniteSet(S) /\ S # {} /\ S \subseteq Int
    <3> HIDE DEF all
    <3>1. PICK U : U = UNION all
      OBVIOUS
    <3>2. IsFiniteSet({widest}) /\ IsFiniteSet(U) /\ U \subseteq Int
      BY <2>5, <3>1, FS_Singleton
    <3>3. IsFiniteSet({widest} \cup U)
      BY <3>2, FS_Union
    <3>4. S = {widest} \cup U
      BY <3>1
    <3>5. widest \in Int
      BY <2>1
    <3> QED
      BY <3>2, <3>3, <3>4, <3>5
  <2>7. widest' \in Int /\ \A x \in S : x <= widest'
    <3>1. widest' = Max(S)
      BY <1>0
    <3> HIDE DEF S
    <3> QED
      BY <2>6, <3>1, GreatestOfFinite
  <2>8. widest \in S /\ widest <= widest' /\ widest' \in Nat
    <3>1. widest \in S
      OBVIOUS
    <3> HIDE DEF S
    <3> QED
      BY <2>1, <2>7, <3>1
  <2>9. ASSUME NEW d \in edges'
        PROVE  /\ IsEdge(d) /\ d.weight <= widest'
               /\ d.from \in DOMAIN nodes /\ d.to \in DOMAIN nodes
    <3>1. CASE d \in edges
      <4>1. /\ IsEdge(d) /\ d.weight <= widest
            /\ d.from \in DOMAIN nodes /\ d.to \in DOMAIN nodes
        BY <3>1 DEF PoreInv, NetworkInv
      <4> QED
        BY <2>1, <2>8, <4>1 DEF IsEdge
    <3>2. CASE d \notin edges
      <4>1. PICK e \in FaceEdges :
              d = [from |-> local[e[1]].node, to |-> local[e[2]].node,
                   weight |-> MinRadius(local[e[1]].raw, local[e[2]].raw),
                   imageOffset |-> ImageStep(local[e[1]], local[e[2]])]
        BY <1>0, <3>2
      <4>2. d.from \in DOMAIN nodes /\ d.to \in DOMAIN nodes
        BY <2>2, <4>1 DEF Corners
      <4>3. d.imageOffset \in Offsets
        BY <2>2, <4>1, Vectors DEF Corners, ImageStep
      <4>4. d.weight \in sampled(e)
        BY <2>3, <4>1
      <4>5. d.weight \in S
        BY <4>4
      <4>6. d.weight \in Int /\ d.weight <= widest'
        <5> HIDE DEF S
        <5> QED
          BY <2>6, <2>7, <4>5
      <4>7. DOMAIN nodes \subseteq Nodes
        BY NodesFit DEF PoreInv
      <4> QED
        BY <4>2, <4>3, <4>6, <4>7 DEF IsEdge
    <3> QED
      BY <3>1, <3>2
  <2>10. cell' <= Len(tess'.cells) => Len(local') <= Len(Vertices')
    <3> SUFFICES ASSUME cell + 1 <= Len(tess.cells) PROVE 0 <= Len(Vertices')
      BY <1>0
    <3>1. IsTessellation(tess) /\ cell + 1 \in 1..Len(tess.cells)
      BY <2>1, PoreAssumption
    <3>2. tess.cells[cell + 1] \in Range(tess.cells)
      BY <3>1 DEF IsTessellation, Range
    <3>3. tess.cells[cell + 1].vertices \in Seq(Offsets)
      BY <3>1, <3>2 DEF IsTessellation
    <3>4. Vertices' = tess.cells[cell + 1].vertices
      BY <1>0 DEF Vertices
    <3> QED
      BY <3>3, <3>4
  <2>11. /\ tess' \in Tessellations /\ cell' \in 1..(Len(tess'.cells) + 1)
         /\ local' \in Seq(Corners') /\ nodes' \in Seq(Sites)
    BY <1>0, <2>1
  <2> QED
    BY <1>0, <2>8, <2>9, <2>10, <2>11 DEF PoreInv, NetworkInv
<1> QED
  BY <1>1, <1>2, <1>3 DEF PoreInv

(* A call starts from a fresh forest. *)
LEMMA CallFresh ==
  ASSUME PoreInv, NEW name \in {"percolationThreshold", "accessibleComponents"}, path = << >>,
         Call(name)
  PROVE  GraphInv' /\ pc' = "sweep" /\ input' = CallOf(name)
<1>1. \A e \in edges : IsEdge(e)
  BY DEF PoreInv, NetworkInv
<1>2. Fresh'
  <2>1. IsInput(input')
    BY <1>1, PoreAssumption DEF Call, IsInput
  <2>2. todo' = {e \in input'.edges : Passes(e)'}
    BY DEF Call, Passes, Sweeping
  <2> QED
    BY <2>1, <2>2 DEF Call, Fresh
<1>3. Fresh' => GraphInv'
  BY FreshGraph, PTL
<1> QED
  BY <1>2, <1>3 DEF Call, CallOf

LEMMA AskThresholdKeeps == ASSUME PoreInv, AskThreshold PROVE PoreInv'
<1>0. /\ stage = "network" /\ stage' = "threshold" /\ lcd' = MaxFreeRadius
      /\ Call("percolationThreshold")
      /\ tess' = tess /\ cell' = cell /\ local' = local /\ nodes' = nodes /\ edges' = edges
      /\ widest' = widest /\ pld' = pld /\ accessible' = accessible /\ counts' = counts
  BY DEF AskThreshold, network
<1>1. GraphInv' /\ input' = CallOf("percolationThreshold")
  <2>1. path = << >>
    BY <1>0 DEF PoreInv, GraphInv, StackInv, Finding, CallInv
  <2> QED
    BY <1>0, <2>1, CallFresh
<1>2. NetworkInv'
  BY <1>0 DEF PoreInv, NetworkInv, Corners, Vertices
<1>3. lcd' \in Int /\ widest <= lcd'
  <2> DEFINE radii == {nodes[n].radius : n \in DOMAIN nodes}
             S == {widest} \cup radii
  <2>1. PICK N \in Nat : N = Len(nodes) /\ DOMAIN nodes = 1..N
    BY DEF PoreInv, NetworkInv
  <2>2. IsFiniteSet(radii) /\ radii \subseteq Int /\ widest \in Nat
    <3> DEFINE f == [n \in 1..N |-> nodes[n].radius]
    <3>1. f \in Surjection(1..N, radii)
      BY <2>1 DEF Surjection
    <3>2. IsFiniteSet(1..N)
      <4>1. 1 \in Int /\ N \in Int
        OBVIOUS
      <4> QED
        BY <4>1, FS_Interval
    <3>3. radii \subseteq Int /\ widest \in Nat
      BY SiteShape DEF PoreInv, NetworkInv
    <3> HIDE DEF f, radii
    <3> QED
      BY <3>1, <3>2, <3>3, FS_Surjection
  <2>3. IsFiniteSet(S) /\ S # {} /\ S \subseteq Int /\ widest \in S
    <3> HIDE DEF radii
    <3>1. IsFiniteSet({widest})
      BY FS_Singleton
    <3>2. IsFiniteSet({widest} \cup radii)
      BY <2>2, <3>1, FS_Union
    <3> QED
      BY <2>2, <3>2
  <2>4. lcd' = Max(S)
    BY <1>0 DEF MaxFreeRadius
  <2> HIDE DEF S
  <2> QED
    BY <2>3, <2>4, GreatestOfFinite
<1>4. CallInv' /\ CountInv'
  BY <1>0, <1>1, <1>3 DEF PoreInv, CallInv, CountInv, CallOf
<1> QED
  BY <1>1, <1>2, <1>4 DEF PoreInv

LEMMA InGraphKeeps == ASSUME PoreInv, InGraph PROVE PoreInv'
<1>0. /\ stage \in {"threshold", "accessible"} /\ stage' = stage
      /\ Find \/ Unite \/ Answer
      /\ tess' = tess /\ cell' = cell /\ local' = local /\ nodes' = nodes /\ edges' = edges
      /\ widest' = widest /\ lcd' = lcd /\ pld' = pld /\ accessible' = accessible
      /\ counts' = counts
  BY DEF InGraph, network, answers
<1>1. GraphInv' /\ input' = input
  BY <1>0, GraphStep, GraphInputKept DEF PoreInv
<1>2. NetworkInv'
  BY <1>0 DEF PoreInv, NetworkInv, Corners, Vertices
<1>3. Thresholds' = Thresholds
  BY <1>1, SameThresholds
<1>4. CallInv' /\ CountInv'
  BY <1>0, <1>1, <1>3 DEF PoreInv, CallInv, CountInv, CallOf
<1> QED
  BY <1>1, <1>2, <1>4 DEF PoreInv

(* The threshold is no larger than the cavity, and no threshold is larger.  *)
LEMMA ThresholdAnswer ==
  ASSUME PoreInv, pc = "done", stage = "threshold"
  PROVE  /\ \A w \in result : w \in Int /\ w <= lcd /\ \A t \in Thresholds : t <= w
         /\ result # {}
<1>1. input = CallOf("percolationThreshold") /\ lcd \in Int /\ widest <= lcd
  BY DEF PoreInv, CallInv
<1>2. Sweeping
  BY <1>1 DEF Sweeping, CallOf
<1>3. ThresholdSeparates
  BY DEF PoreInv, GraphInv, AnswerInv
<1>4. PICK w \in Int : result = {w}
  BY <1>2, <1>3 DEF ThresholdSeparates
<1>5. result = IF Thresholds = {} THEN {0}
               ELSE {t \in Thresholds : \A u \in Thresholds : u <= t}
  BY <1>2, <1>3, ThresholdHolds DEF PoreInv, ThresholdIsRight
<1>6. ASSUME NEW t \in Thresholds PROVE t \in Int /\ t <= lcd
  <2>1. PICK e \in edges : t = e.weight
    BY <1>1 DEF Thresholds, CallOf
  <2>2. e.weight \in Int /\ e.weight <= widest /\ widest \in Nat
    BY DEF PoreInv, NetworkInv, IsEdge
  <2> QED
    BY <1>1, <2>1, <2>2
<1>7. CASE Thresholds = {}
  <2>1. w = 0
    BY <1>4, <1>5, <1>7
  <2>2. widest \in Nat
    BY DEF PoreInv, NetworkInv
  <2>3. 0 <= lcd
    BY <1>1, <2>2
  <2> QED
    BY <1>4, <1>7, <2>1, <2>3
<1>8. CASE Thresholds # {}
  <2>1. w \in Thresholds /\ \A u \in Thresholds : u <= w
    BY <1>4, <1>5, <1>8
  <2> QED
    BY <1>4, <1>6, <2>1
<1> QED
  BY <1>7, <1>8

LEMMA AskAccessibleKeeps == ASSUME PoreInv, AskAccessible PROVE PoreInv'
<1>0. /\ stage = "threshold" /\ pc = "done" /\ stage' = "accessible"
      /\ pld' = CHOOSE w \in result : TRUE
      /\ Call("accessibleComponents")
      /\ tess' = tess /\ cell' = cell /\ local' = local /\ nodes' = nodes /\ edges' = edges
      /\ widest' = widest /\ lcd' = lcd /\ accessible' = accessible /\ counts' = counts
  BY DEF AskAccessible, network
<1>1. GraphInv' /\ input' = CallOf("accessibleComponents")
  <2>1. path = << >>
    BY <1>0 DEF PoreInv, GraphInv, StackInv, Finding
  <2> QED
    BY <1>0, <2>1, CallFresh
<1>2. NetworkInv'
  BY <1>0 DEF PoreInv, NetworkInv, Corners, Vertices
<1>3. pld' \in Int /\ pld' <= lcd /\ \A t \in Thresholds : t <= pld'
  <2>1. pld' \in result
    BY <1>0, ThresholdAnswer
  <2> QED
    BY <1>0, <2>1, ThresholdAnswer
<1>4. Thresholds' = Thresholds
  <2>1. input.edges = input'.edges
    BY <1>0, <1>1 DEF PoreInv, CallInv, CallOf
  <2> QED
    BY <2>1, SameThresholds
<1>5. lcd \in Int /\ widest <= lcd
  BY <1>0 DEF PoreInv, CallInv
<1>6. CallInv'
  <2>1. input' = CallOf("accessibleComponents")'
    BY <1>0, <1>1 DEF CallOf
  <2>2. \A t \in Thresholds' : t <= pld'
    BY <1>3, <1>4
  <2> QED
    BY <1>0, <1>3, <1>5, <2>1, <2>2 DEF CallInv
<1>7. CountInv'
  BY <1>0 DEF PoreInv, CountInv
<1> QED
  BY <1>1, <1>2, <1>6, <1>7 DEF PoreInv

LEMMA TakeAccessibleKeeps == ASSUME PoreInv, TakeAccessible PROVE PoreInv'
<1>0. /\ stage = "accessible" /\ pc = "done" /\ stage' = "sampling" /\ accessible' = result
      /\ tess' = tess /\ cell' = cell /\ local' = local /\ nodes' = nodes /\ edges' = edges
      /\ widest' = widest /\ lcd' = lcd /\ pld' = pld /\ counts' = counts
      /\ UNCHANGED vars
  BY DEF TakeAccessible, network
<1>1. GraphInv' /\ input' = input /\ pc' = "done"
  BY <1>0, StutterKeeps DEF PoreInv, vars
<1>2. NetworkInv'
  BY <1>0 DEF PoreInv, NetworkInv, Corners, Vertices
<1>3. /\ input = CallOf("accessibleComponents") /\ pld \in Int /\ pld <= lcd
      /\ \A t \in Thresholds : t <= pld
  BY <1>0 DEF PoreInv, CallInv
<1>4. ~Sweeping /\ input.radius = Probe /\ Probe \in Int
  BY <1>3, PoreAssumption DEF Sweeping, CallOf
<1>5. AccessibleIsRight
  BY FlagsHold, AccessibleHolds DEF PoreInv
<1>6. result # {} => Probe <= pld
  <2> SUFFICES ASSUME result # {} PROVE Probe <= pld
    OBVIOUS
  <2>1. PICK t \in Thresholds : t >= Probe
    BY <1>0, <1>4, <1>5 DEF AccessibleIsRight
  <2>2. t \in Int
    <3>1. PICK e \in edges : t = e.weight
      BY <1>3, <2>1 DEF Thresholds, CallOf
    <3> QED
      BY <3>1 DEF PoreInv, NetworkInv, IsEdge
  <2> QED
    BY <1>3, <1>4, <2>1, <2>2
<1>7. result \subseteq Nodes
  BY <1>4, <1>5, <1>0 DEF AccessibleIsRight
<1>8. Thresholds' = Thresholds
  BY <1>1, SameThresholds
<1>9. CallInv'
  <2>1. lcd \in Int /\ widest <= lcd
    BY <1>0 DEF PoreInv, CallInv
  <2> QED
    BY <1>0, <1>1, <1>3, <1>6, <1>8, <2>1 DEF CallInv, CallOf
<1>10. CountInv'
  BY <1>0, <1>7 DEF PoreInv, CountInv
<1> QED
  BY <1>1, <1>2, <1>9, <1>10 DEF PoreInv

LEMMA SampleKeeps == ASSUME PoreInv, Sample PROVE PoreInv'
<1>0. /\ stage = "sampling" /\ stage' = stage
      /\ tess' = tess /\ cell' = cell /\ local' = local /\ nodes' = nodes /\ edges' = edges
      /\ widest' = widest /\ lcd' = lcd /\ pld' = pld /\ accessible' = accessible
      /\ UNCHANGED vars
  BY DEF Sample, network
<1>1. GraphInv' /\ input' = input /\ pc' = pc
  BY <1>0, StutterKeeps DEF PoreInv, vars
<1>2. NetworkInv'
  BY <1>0 DEF PoreInv, NetworkInv, Corners, Vertices
<1>3. Thresholds' = Thresholds
  BY <1>1, SameThresholds
<1>4. CallInv'
  BY <1>0, <1>1, <1>3 DEF PoreInv, CallInv, CallOf
<1>5. CountInv'
  <2>1. PICK p \in SamplePoints :
          LET overlaps == FreeRadiusAt(p) < Probe
              reached == Reached(p)
          IN counts' = [samples |-> counts.samples + 1,
               accessible |-> counts.accessible + IF ~overlaps /\ reached THEN 1 ELSE 0,
               inaccessible |-> counts.inaccessible + IF ~overlaps /\ ~reached THEN 1 ELSE 0]
    BY DEF Sample
  <2>2. PICK i \in {0, 1}, j \in {0, 1} :
          /\ i = 1 => accessible # {} /\ j = 0
          /\ counts' = [samples |-> counts.samples + 1, accessible |-> counts.accessible + i,
                        inaccessible |-> counts.inaccessible + j]
    <3>1. Reached(p) => accessible # {}
      BY DEF Reached
    <3>2. CASE ~(FreeRadiusAt(p) < Probe) /\ Reached(p)
      BY <2>1, <3>1, <3>2
    <3>3. CASE ~(FreeRadiusAt(p) < Probe) /\ ~Reached(p)
      BY <2>1, <3>3
    <3>4. CASE FreeRadiusAt(p) < Probe
      BY <2>1, <3>4
    <3> QED
      BY <3>2, <3>3, <3>4
  <2>3. /\ counts.samples \in Nat /\ counts.accessible \in Nat /\ counts.inaccessible \in Nat
        /\ counts.accessible + counts.inaccessible <= counts.samples
        /\ counts.accessible > 0 => accessible # {}
        /\ accessible \subseteq Nodes
    BY DEF PoreInv, CountInv
  <2>4. /\ counts' \in [samples : Nat, accessible : Nat, inaccessible : Nat]
        /\ counts'.accessible + counts'.inaccessible <= counts'.samples
        /\ counts'.accessible > 0 => accessible # {}
    BY <2>2, <2>3
  <2> QED
    BY <1>0, <2>3, <2>4 DEF CountInv
<1> QED
  BY <1>1, <1>2, <1>4, <1>5 DEF PoreInv

LEMMA PoreStutter == ASSUME PoreInv, UNCHANGED poreVars PROVE PoreInv'
<1>0. /\ stage' = stage /\ tess' = tess /\ cell' = cell /\ local' = local /\ nodes' = nodes
      /\ edges' = edges /\ widest' = widest /\ lcd' = lcd /\ pld' = pld
      /\ accessible' = accessible /\ counts' = counts /\ UNCHANGED vars
  BY DEF poreVars, network, answers
<1>1. GraphInv' /\ input' = input /\ pc' = pc
  BY <1>0, StutterKeeps DEF PoreInv, vars
<1>2. NetworkInv'
  BY <1>0 DEF PoreInv, NetworkInv, Corners, Vertices
<1>3. Thresholds' = Thresholds
  BY <1>1, SameThresholds
<1>4. CallInv' /\ CountInv'
  BY <1>0, <1>1, <1>3 DEF PoreInv, CallInv, CountInv, CallOf
<1> QED
  BY <1>1, <1>2, <1>4 DEF PoreInv

(* The forest of each call, the network it was called over and the answers  *)
(* so far belong together, for every framework and every round-off.         *)
THEOREM PoreInvariant == PoreSpec => []PoreInv
<1>1. ASSUME PoreInv, [PoreNext]_poreVars PROVE PoreInv'
  BY <1>1, AddVertexKeeps, AddFacesKeeps, AskThresholdKeeps, InGraphKeeps, AskAccessibleKeeps,
     TakeAccessibleKeeps, SampleKeeps, PoreStutter DEF PoreNext
<1> QED
  BY <1>1, InitPore, PTL DEF PoreSpec

(* buildVoronoiNetwork's nodes and edges, the forest, and the samples are   *)
(* well-formed: edges are between nodes, and there is a node for each key.  *)
THEOREM PoreTypeCorrect == PoreSpec => []PoreTypeOK
<1>1. PoreInv => PoreTypeOK
  <2> SUFFICES ASSUME PoreInv PROVE PoreTypeOK
    OBVIOUS
  <2>1. GraphTypeOK
    BY TypeHolds DEF PoreInv
  <2>2. Len(nodes) <= Cardinality(Nodes)
    BY NodesFit DEF PoreInv
  <2>3. \A n \in DOMAIN nodes, a \in Axes : nodes[n].position[a] \in 0..(Side - 1)
    <3>1. \A n \in DOMAIN nodes : nodes[n].position \in Places
      BY SiteShape DEF PoreInv
    <3> QED
      BY <3>1 DEF Places
  <2> QED
    BY <2>1, <2>2, <2>3 DEF PoreTypeOK, PoreInv, NetworkInv, CallInv, CountInv
<1> QED
  BY <1>1, PoreInvariant, PTL

(* analyzePoreGeometry's two calls agree, and with the cavity: what is      *)
(* counted as accessible void has a way out that is at least as wide as the *)
(* probe, for every framework, round-off and probe.                         *)
THEOREM AnswersStayInAgreement == PoreSpec => []AnswersAgree
<1>1. PoreInv => AnswersAgree
  <2> SUFFICES ASSUME PoreInv, stage = "sampling"
               PROVE  pld <= lcd /\ (counts.accessible > 0 => pld >= Probe)
    BY DEF AnswersAgree
  <2>1. /\ pld \in Int /\ pld <= lcd /\ (accessible # {} => Probe <= pld)
        /\ counts.accessible > 0 => accessible # {}
    BY DEF PoreInv, CallInv, CountInv
  <2> QED
    BY <2>1, PoreAssumption
<1> QED
  BY <1>1, PoreInvariant, PTL

(* What holds of the graph by itself holds of it in analyzePoreGeometry,    *)
(* where the edges of both calls are those of the network.                  *)
THEOREM GraphWithinAnalysis == PoreSpec => [](OffsetsAreTrue /\ AccessibleIsRight /\ ThresholdIsRight)
<1>1. PoreInv => OffsetsAreTrue /\ AccessibleIsRight /\ ThresholdIsRight
  <2> SUFFICES ASSUME PoreInv PROVE OffsetsAreTrue /\ AccessibleIsRight /\ ThresholdIsRight
    OBVIOUS
  <2>1. GraphInv
    BY DEF PoreInv
  <2>2. ThresholdSeparates
    BY <2>1 DEF GraphInv, AnswerInv
  <2>3. OffsetsAreTrue
    BY <2>1 DEF GraphInv
  <2> QED
    BY <2>1, <2>2, <2>3, FlagsHold, AccessibleHolds, ThresholdHolds
<1> QED
  BY <1>1, PoreInvariant, PTL
=============================================================================
