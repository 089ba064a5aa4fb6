---------------------------- MODULE PeriodicGraph ----------------------------
(***************************************************************************)
(* Percolation through a periodic graph (periodic_graph.cc): a union-find  *)
(* over the nodes whose links carry lattice offsets.  A call is either     *)
(* percolationThreshold, which unites the edges from the widest to the     *)
(* narrowest until one closes a cycle that does not return to its own      *)
(* image, or accessibleComponents, which unites the edges that let a probe *)
(* pass and then asks for every node's flag.                               *)
(*                                                                         *)
(* find is a recursion: it descends to the root and, on the way back,      *)
(* redirects each node of the path to it.  The descent keeps the path (the *)
(* call stack); the nodes on it are compressed from the end.               *)
(***************************************************************************)
EXTENDS Integers, Sequences, SequencesExt, FiniteSets

CONSTANTS
  Nodes,
  Axes,    \* the lattice vectors
  Inputs   \* the calls explored: call, edges, radius

Offsets == [Axes -> Int]

(* A PeriodicEdge. *)
IsEdge(e) ==
  /\ e.from \in Nodes /\ e.to \in Nodes
  /\ e.weight \in Int /\ e.imageOffset \in Offsets

IsInput(i) ==
  /\ i.call \in {"percolationThreshold", "accessibleComponents"}
  /\ \A e \in i.edges : IsEdge(e)
  /\ i.radius \in Int

ASSUME GraphAssumption ==
  /\ IsFiniteSet(Nodes)
  /\ \A i \in Inputs : IsInput(i)

Zero == [a \in Axes |-> 0]
Plus(p, q) == [a \in Axes |-> p[a] + q[a]]
Minus(p, q) == [a \in Axes |-> p[a] - q[a]]

VARIABLES
  input,           \* the arguments of the call
  parent,          \* parent_
  offsetToParent,  \* offsetToParent_
  percolates,      \* percolates_
  todo,            \* edges the sweep has not dealt with
  edge,            \* the edge being united
  path,            \* find's call stack: from its argument up to the root
  link,            \* what find returned last: root and offset to it
  ends,            \* what find returned for the edge's from, or << >>
  asked,           \* nodes whose flag has been read
  result,          \* a threshold, or the set of nodes that are accessible
  pc,
  rootOf,          \* history: the root of each node's component
  unwrapped        \* history: each node's position in its component's frame

vars == <<input, parent, offsetToParent, percolates, todo, edge, path, link,
          ends, asked, result, pc, rootOf, unwrapped>>
forest == <<parent, offsetToParent, percolates, rootOf, unwrapped>>

Sweeping == input.call = "percolationThreshold"

Passes(e) == Sweeping \/ e.weight >= input.radius

(* Mutant: the narrowest edge first. *)
NarrowestIsNext(e) == Sweeping => \A other \in todo : other.weight >= e.weight

(* The sweep's order: by weight, ties in any order.                         *)
IsNext(e) == Sweeping => \A other \in todo : other.weight <= e.weight

Init ==
  /\ input \in Inputs
  /\ parent = [n \in Nodes |-> n]
  /\ offsetToParent = [n \in Nodes |-> Zero]
  /\ percolates = [n \in Nodes |-> FALSE]
  /\ todo = {e \in input.edges : Passes(e)}
  /\ edge = << >> /\ path = << >> /\ link = << >> /\ ends = << >>
  /\ asked = {} /\ result = {}
  /\ pc = "sweep"
  /\ rootOf = parent
  /\ unwrapped = offsetToParent

-----------------------------------------------------------------------------
(* find. *)
Descend ==
  /\ pc = "descend"
  /\ LET x == path[Len(path)]
     IN IF parent[x] = x
        THEN /\ link' = [root |-> x, offset |-> Zero]
             /\ path' = Front(path)
             /\ pc' = "compress"
        ELSE path' = Append(path, parent[x]) /\ UNCHANGED <<link, pc>>
  /\ UNCHANGED <<input, todo, edge, ends, asked, result, forest>>

(* Mutant: the link is redirected to the root, its offset is not. *)
OffsetKept(x) == offsetToParent[x]

OffsetToRoot(x) == Plus(offsetToParent[x], link.offset)

Compress ==
  /\ pc = "compress" /\ path # << >>
  /\ LET x == path[Len(path)]
     IN /\ parent' = [parent EXCEPT ![x] = link.root]
        /\ offsetToParent' = [offsetToParent EXCEPT ![x] = OffsetToRoot(x)]
        /\ link' = [link EXCEPT !.offset = OffsetToRoot(x)]
  /\ path' = Front(path)
  /\ UNCHANGED <<input, todo, edge, ends, asked, result, pc, percolates,
                 rootOf, unwrapped>>

Found == pc = "compress" /\ path = << >>

-----------------------------------------------------------------------------
(* unite: find both ends, then close a cycle or join two components.        *)
TakeEdge(e) ==
  /\ pc = "sweep" /\ e \in todo /\ IsNext(e)
  /\ edge' = e
  /\ path' = <<e.from>> /\ ends' = << >>
  /\ pc' = "descend"
  /\ UNCHANGED <<input, todo, link, asked, result, forest>>

FoundFrom ==
  /\ Found /\ todo # {} /\ ends = << >>
  /\ ends' = <<link>>
  /\ path' = <<edge.to>>
  /\ pc' = "descend"
  /\ UNCHANGED <<input, todo, edge, link, asked, result, forest>>

FoundBoth == Found /\ todo # {} /\ ends # << >>

CycleOffset == Minus(Plus(edge.imageOffset, link.offset), ends[1].offset)

Rest == todo \ {edge}

CloseCycle ==
  /\ FoundBoth /\ ends[1].root = link.root
  /\ percolates' = [percolates EXCEPT ![link.root] = @ \/ CycleOffset # Zero]
  /\ todo' = Rest
  /\ IF Sweeping /\ CycleOffset # Zero
     THEN result' = {edge.weight} /\ pc' = "done"
     ELSE UNCHANGED result /\ pc' = "sweep"
  /\ UNCHANGED <<input, parent, offsetToParent, edge, path, link, ends, asked,
                 rootOf, unwrapped>>

(* Mutant: the flag of the component that is attached is forgotten. *)
FlagKept(u, v) == percolates[u]

EitherFlag(u, v) == percolates[u] \/ percolates[v]

(* rootV goes under rootU.  In the history the positions of its component   *)
(* move as one, to where the edge puts its end.                             *)
Join ==
  /\ FoundBoth /\ ends[1].root # link.root
  /\ LET rootU == ends[1].root
         rootV == link.root
         shift == Minus(Plus(unwrapped[edge.from], edge.imageOffset), unwrapped[edge.to])
     IN /\ parent' = [parent EXCEPT ![rootV] = rootU]
        /\ offsetToParent' = [offsetToParent EXCEPT ![rootV] =
             Minus(ends[1].offset, Plus(edge.imageOffset, link.offset))]
        /\ percolates' = [percolates EXCEPT ![rootU] = EitherFlag(rootU, rootV)]
        /\ rootOf' = [n \in Nodes |-> IF rootOf[n] = rootV THEN rootU ELSE rootOf[n]]
        /\ unwrapped' = [n \in Nodes |->
             IF rootOf[n] = rootV THEN Plus(unwrapped[n], shift) ELSE unwrapped[n]]
  /\ todo' = Rest
  /\ pc' = "sweep"
  /\ UNCHANGED <<input, edge, path, link, ends, asked, result>>

-----------------------------------------------------------------------------
(* The sweep is over: no cycle left its image, or the flags of all nodes     *)
(* have been asked for, one by one.                                         *)
NextNode == CHOOSE n \in Nodes : n \notin asked

Ask ==
  /\ pc = "sweep" /\ todo = {} /\ ~Sweeping /\ asked # Nodes
  /\ path' = <<NextNode>>
  /\ pc' = "descend"
  /\ UNCHANGED <<input, todo, edge, link, ends, asked, result, forest>>

ReadFlag ==
  /\ Found /\ todo = {}
  /\ asked' = asked \cup {NextNode}
  /\ result' = IF percolates[link.root] THEN result \cup {NextNode} ELSE result
  /\ pc' = "sweep"
  /\ UNCHANGED <<input, todo, edge, path, link, ends, forest>>

Return ==
  /\ pc = "sweep" /\ todo = {} /\ (Sweeping \/ asked = Nodes)
  /\ result' = IF Sweeping THEN {0} ELSE result
  /\ pc' = "done"
  /\ UNCHANGED <<input, todo, edge, path, link, ends, asked, forest>>

Done == pc = "done" /\ UNCHANGED vars

Find == Descend \/ Compress
Unite == (\E e \in todo : TakeEdge(e)) \/ FoundFrom \/ CloseCycle \/ Join
Answer == Ask \/ ReadFlag \/ Return

Next == Find \/ Unite \/ Answer \/ Done
Spec == Init /\ [][Next]_vars

-----------------------------------------------------------------------------
(* Percolation as a matter of walks: from a node, along edges in either     *)
(* direction, back to the node in another image.  As many steps as there    *)
(* are nodes suffice (a shortest such walk is a simple cycle).              *)
Steps(es) ==
  {[from |-> e.from, to |-> e.to, offset |-> e.imageOffset] : e \in es} \cup
  {[from |-> e.to, to |-> e.from, offset |-> Minus(Zero, e.imageOffset)] : e \in es}

WalksFrom(n, es) ==
  LET walks[k \in Nat] ==
        IF k = 0 THEN {[at |-> n, offset |-> Zero]}
        ELSE LET shorter == walks[k - 1]
                 Onwards(w) == {[at |-> s.to, offset |-> Plus(w.offset, s.offset)] :
                                  s \in {t \in Steps(es) : t.from = w.at}}
             IN shorter \cup UNION {Onwards(w) : w \in shorter}
  IN walks[Cardinality(Nodes)]

Escapes(n, es) == \E w \in WalksFrom(n, es) : w.at = n /\ w.offset # Zero
Connected(n, es) == {w.at : w \in WalksFrom(n, es)}
Percolating(n, es) == \E m \in Connected(n, es) : Escapes(m, es)

Wider(r) == {e \in input.edges : e.weight >= r}
Thresholds == {e.weight : e \in {d \in input.edges : \E n \in Nodes : Escapes(n, Wider(d.weight))}}

-----------------------------------------------------------------------------
(* Properties. *)

Links == [root : Nodes, offset : Offsets]

(* Every variable has its type: find's stack is a path of parents up to a   *)
(* root, and an edge is in hand while its ends are sought.                  *)
PathOK ==
  /\ path \in Seq(Nodes)
  /\ \A i \in 1..(Len(path) - 1) : parent[path[i]] = path[i + 1]
  /\ pc = "descend" => path # << >>
  /\ pc = "compress" =>
       /\ link \in Links
       /\ parent[link.root] = link.root
  /\ pc \in {"sweep", "done"} => path = << >>

GraphTypeOK ==
  /\ \A e \in input.edges : IsEdge(e)
  /\ pc \in {"sweep", "descend", "compress", "done"}
  /\ parent \in [Nodes -> Nodes]
  /\ offsetToParent \in [Nodes -> Offsets]
  /\ percolates \in [Nodes -> BOOLEAN]
  /\ todo \subseteq input.edges
  /\ pc \in {"descend", "compress"} /\ todo # {} =>
       /\ edge \in todo
       /\ \/ ends = << >>
          \/ ends = <<ends[1]>> /\ ends[1] \in Links
  /\ asked \subseteq Nodes
  /\ PathOK
  /\ rootOf \in [Nodes -> Nodes]
  /\ unwrapped \in [Nodes -> Offsets]

(* Whatever was compressed in whichever order, a node's offset is the way   *)
(* to its parent in the component's frame, where every edge that joined two *)
(* components leads from one end's position to the other's: the comment on  *)
(* OffsetUnionFind.                                                         *)
OffsetsAreTrue ==
  \A n \in Nodes : offsetToParent[n] = Minus(unwrapped[parent[n]], unwrapped[n])

(* percolationThreshold returns the largest weight at which the edges of at *)
(* least that weight percolate, and 0 if there is none.                     *)
ThresholdIsRight ==
  pc = "done" /\ Sweeping =>
    result = IF Thresholds = {} THEN {0}
             ELSE {t \in Thresholds : \A u \in Thresholds : u <= t}

(* accessibleComponents answers for every node whether one that starts      *)
(* there, with the given radius, can escape, also when the component that   *)
(* lets it escape has been attached under one that does not; in particular  *)
(* some node is accessible iff the threshold is at least the radius.        *)
AccessibleIsRight ==
  pc = "done" /\ ~Sweeping =>
    /\ result = {n \in Nodes : Percolating(n, Wider(input.radius))}
    /\ result # {} <=> \E t \in Thresholds : t >= input.radius
=============================================================================
