---------------------------- MODULE PoreAnalysis ----------------------------
(***************************************************************************)
(* analyzePoreGeometry (pore_analysis.cc) with the network it is built on  *)
(* (voronoi_network.cc) and the two calls into the periodic graph, whose   *)
(* steps are those of PeriodicGraph.                                       *)
(*                                                                         *)
(* Voro++ delivers cells: vertices, each off its true place by the         *)
(* round-off of that cell's own arithmetic, and faces.  The lattice vectors *)
(* are Side long and at right angles; Quantum is what one step of a key    *)
(* is worth, and round-off is less than half of it.                        *)
(***************************************************************************)
EXTENDS PeriodicGraph, FiniteSetsExt

CONSTANTS
  Tessellations,   \* cells and free radii explored
  RoundOff,        \* what a vertex may be off by
  Side, Quantum,
  SampleCount,     \* samples along an edge, its ends included
  Probe,           \* options.probeRadiusAngstrom
  SamplePoints,    \* where a random point may fall
  VolumeSamples    \* options.volumeSamplesTotal

VARIABLES
  tess,       \* the framework: its cells and the free radius everywhere
  cell,       \* the cell being read
  local,      \* its vertices so far: node, image and raw position
  nodes,      \* network.nodes; nodeIndex is found by key
  edges,      \* network.edges
  widest,     \* network.maxFreeRadiusAlongAnyEdgeAngstrom
  lcd, pld,   \* half of each: radii
  accessible,
  counts,     \* samples so far, accessible and inaccessible ones
  stage,
  truth       \* history: the threshold of the crystal itself
network == <<cell, local, nodes, edges, widest>>
answers == <<lcd, pld, accessible, counts>>
poreVars == <<tess, network, answers, stage, truth, vars>>

(* A framework: cells of vertices and faces around them, and free radii.    *)
IsTessellation(t) ==
  /\ t.cells \in Seq(Range(t.cells))
  /\ \A c \in Range(t.cells) :
       /\ c.vertices \in Seq(Offsets)
       /\ IsFiniteSet(c.faces)
       /\ \A f \in c.faces : f \in Seq(DOMAIN c.vertices)
  /\ \A place \in DOMAIN t.radius : t.radius[place] \in Int
  /\ t.elsewhere \in Int

ASSUME PoreAssumption ==
  /\ Nodes = 1..Cardinality(Nodes)
  /\ RoundOff \subseteq Offsets
  /\ Side \in Nat \ {0} /\ Quantum \in Nat \ {0}
  /\ SampleCount \in Nat \ {0, 1} /\ Probe \in Int
  /\ \A t \in Tessellations : IsTessellation(t)

ImageOf(raw) == [a \in Axes |-> raw[a] \div Side]
Wrapped(raw) == [a \in Axes |-> raw[a] % Side]
KeyFor(p) == [a \in Axes |-> (2 * p[a] + Quantum) \div (2 * Quantum)]

(* freeRadiusAt: the field repeats with the cell. *)
FreeRadiusAt(p) ==
  LET place == [a \in Axes |-> KeyFor(p)[a] % (Side \div Quantum)]
  IN IF place \in DOMAIN tess.radius THEN tess.radius[place] ELSE tess.elsewhere

(* The keys a framework can give; there is a node for each.                 *)
Keys(t) ==
  UNION {{KeyFor(Wrapped(Plus(c.vertices[v], noise))) : v \in DOMAIN c.vertices, noise \in RoundOff}
           : c \in Range(t.cells)}
ASSUME RoomAssumption ==
  \A t \in Tessellations : IsFiniteSet(Keys(t)) /\ Cardinality(Keys(t)) <= Cardinality(Nodes)

(* The samples along an edge. *)
Along(i, j, s) == [a \in Axes |-> i[a] + ((j[a] - i[a]) * s) \div (SampleCount - 1)]
SampledRadii(i, j) == {FreeRadiusAt(Wrapped(Along(i, j, s))) : s \in 0..(SampleCount - 1)}
(* Mutant: only the ends of an edge are looked at. *)
MinEndRadius(i, j) == Min({FreeRadiusAt(Wrapped(i)), FreeRadiusAt(Wrapped(j))})
MinRadius(i, j) == Min(SampledRadii(i, j))

(* The crystal itself: points without round-off, numbered.                 *)
TruePoints == UNION {{Wrapped(c.vertices[v]) : v \in DOMAIN c.vertices} : c \in Range(tess.cells)}
Number(p) == CHOOSE k \in 1..Cardinality(TruePoints) : SetToSeq(TruePoints)[k] = p
TrueSegments ==
  UNION {UNION {{<<c.vertices[f[k]], c.vertices[f[(k % Len(f)) + 1]]>> : k \in DOMAIN f}
                  : f \in c.faces} : c \in Range(tess.cells)}
TrueEdges ==
  {[from |-> Number(Wrapped(s[1])), to |-> Number(Wrapped(s[2])),
    weight |-> Min(SampledRadii(s[1], s[2])),
    imageOffset |-> Minus(ImageOf(s[2]), ImageOf(s[1]))] : s \in TrueSegments}
TrueThreshold ==
  LET all == TrueEdges
      escaping(r) == \E n \in 1..Cardinality(TruePoints) :
                       Escapes(n, {e \in all : e.weight >= r})
  IN Max({0} \cup {r \in {e.weight : e \in all} : escaping(r)})

(* Round-off takes no point over the border of the cell or of its key, and *)
(* no two points have the same key.                                        *)
KeysResolve ==
  /\ \A p \in TruePoints, noise \in RoundOff :
       /\ ImageOf(Plus(p, noise)) = Zero
       /\ KeyFor(Plus(p, noise)) = KeyFor(p)
  /\ \A p \in TruePoints, q \in TruePoints : KeyFor(p) = KeyFor(q) => p = q

PoreInit ==
  /\ tess \in Tessellations
  /\ cell = 1 /\ local = << >> /\ nodes = << >> /\ edges = {} /\ widest = 0
  /\ lcd = 0 /\ pld = 0 /\ accessible = {}
  /\ counts = [samples |-> 0, accessible |-> 0, inaccessible |-> 0]
  /\ stage = "network" /\ truth = TrueThreshold
  /\ input = [call |-> "percolationThreshold", edges |-> {}, radius |-> 0]
  /\ parent = [n \in Nodes |-> n] /\ offsetToParent = [n \in Nodes |-> Zero]
  /\ percolates = [n \in Nodes |-> FALSE]
  /\ todo = {} /\ edge = << >> /\ path = << >> /\ link = << >> /\ ends = << >>
  /\ asked = {} /\ result = {0} /\ pc = "done"
  /\ rootOf = parent /\ unwrapped = offsetToParent

-----------------------------------------------------------------------------
(* buildVoronoiNetwork. *)
(* Mutant: the index of nodes is never filled. *)
NeverKnown(key) == {}
Known(key) == {n \in DOMAIN nodes : KeyFor(nodes[n].position) = key}
Vertices == tess.cells[cell].vertices

AddVertex ==
  /\ stage = "network" /\ cell <= Len(tess.cells) /\ Len(local) < Len(Vertices)
  /\ \E noise \in RoundOff :
       LET raw == Plus(Vertices[Len(local) + 1], noise)
           position == Wrapped(raw)
           known == Known(KeyFor(position))
       IN /\ nodes' = IF known # {} THEN nodes
                      ELSE Append(nodes, [position |-> position, radius |-> FreeRadiusAt(position)])
          /\ local' = Append(local, [raw |-> raw, image |-> ImageOf(raw),
                        node |-> IF known # {} THEN CHOOSE n \in known : TRUE ELSE Len(nodes) + 1])
  /\ UNCHANGED <<tess, truth, cell, edges, widest, answers, stage, vars>>

ImageStep(i, j) == Minus(j.image, i.image)

(* Consecutive vertices of a face, the last and the first included. *)
FaceEdges ==
  UNION {{<<f[k], f[(k % Len(f)) + 1]>> : k \in DOMAIN f} : f \in tess.cells[cell].faces}

AddFaces ==
  /\ stage = "network" /\ cell <= Len(tess.cells) /\ Len(local) = Len(Vertices)
  /\ edges' = edges \cup
       {[from |-> local[e[1]].node, to |-> local[e[2]].node,
         weight |-> MinRadius(local[e[1]].raw, local[e[2]].raw),
         imageOffset |-> ImageStep(local[e[1]], local[e[2]])] : e \in FaceEdges}
  /\ widest' = Max({widest} \cup
       UNION {SampledRadii(local[e[1]].raw, local[e[2]].raw) : e \in FaceEdges})
  /\ cell' = cell + 1 /\ local' = << >>
  /\ UNCHANGED <<tess, truth, nodes, answers, stage, vars>>

-----------------------------------------------------------------------------
(* A call into the graph: a fresh forest over the network's edges. *)
Call(name) ==
  /\ input' = [call |-> name, edges |-> edges, radius |-> Probe]
  /\ parent' = [n \in Nodes |-> n] /\ offsetToParent' = [n \in Nodes |-> Zero]
  /\ percolates' = [n \in Nodes |-> FALSE]
  /\ todo' = {e \in edges : name = "percolationThreshold" \/ e.weight >= Probe}
  /\ asked' = {} /\ result' = {} /\ pc' = "sweep"
  /\ rootOf' = parent' /\ unwrapped' = offsetToParent'
  /\ UNCHANGED <<edge, path, link, ends>>

MaxFreeRadius == Max({widest} \cup {nodes[n].radius : n \in DOMAIN nodes})

AskThreshold ==
  /\ stage = "network" /\ cell > Len(tess.cells)
  /\ lcd' = MaxFreeRadius
  /\ Call("percolationThreshold") /\ stage' = "threshold"
  /\ UNCHANGED <<tess, truth, network, pld, accessible, counts>>

AskAccessible ==
  /\ stage = "threshold" /\ pc = "done"
  /\ pld' = CHOOSE w \in result : TRUE
  /\ Call("accessibleComponents") /\ stage' = "accessible"
  /\ UNCHANGED <<tess, truth, network, lcd, accessible, counts>>

TakeAccessible ==
  /\ stage = "accessible" /\ pc = "done"
  /\ accessible' = result /\ stage' = "sampling"
  /\ UNCHANGED <<tess, truth, network, lcd, pld, counts, vars>>

InGraph ==
  /\ stage \in {"threshold", "accessible"}
  /\ Find \/ Unite \/ Answer
  /\ UNCHANGED <<tess, truth, network, answers, stage>>

-----------------------------------------------------------------------------
(* The Monte Carlo volume; the surface loop classifies its points alike.   *)
Component(p, q, a) == LET d == (p[a] - q[a]) % Side IN IF 2 * d > Side THEN Side - d ELSE d
Distance2(p, q) == FoldSet(LAMBDA a, sum : sum + Component(p, q, a) * Component(p, q, a), 0, Axes)
Qualifying == {n \in DOMAIN nodes : nodes[n].radius >= Probe}
NearestQualifyingNode(p) ==
  LET d(n) == Distance2(p, nodes[n].position)
      best == {n \in Qualifying : \A m \in Qualifying : d(n) <= d(m)}
  IN IF best = {} THEN Len(nodes) + 1 ELSE Min(best)

(* Mutant: void near any node that lets the probe in counts. *)
ReachedAny(p) == NearestQualifyingNode(p) \in DOMAIN nodes
Reached(p) == NearestQualifyingNode(p) \in accessible

Sample ==
  /\ stage = "sampling" /\ counts.samples < VolumeSamples
  /\ \E p \in SamplePoints :
       LET overlaps == FreeRadiusAt(p) < Probe
           reached == Reached(p)
       IN counts' = [samples |-> counts.samples + 1,
            accessible |-> counts.accessible + IF ~overlaps /\ reached THEN 1 ELSE 0,
            inaccessible |-> counts.inaccessible + IF ~overlaps /\ ~reached THEN 1 ELSE 0]
  /\ UNCHANGED <<tess, truth, network, lcd, pld, accessible, stage, vars>>

PoreNext ==
  AddVertex \/ AddFaces \/ AskThreshold \/ InGraph \/ AskAccessible \/ TakeAccessible \/ Sample
PoreSpec == PoreInit /\ [][PoreNext]_poreVars

-----------------------------------------------------------------------------
(* Every variable has its type, those of the graph included: a network's   *)
(* edges are between its nodes, and there are no more nodes than vertices. *)
PoreTypeOK ==
  /\ GraphTypeOK
  /\ stage \in {"network", "threshold", "accessible", "sampling"}
  /\ Len(nodes) <= Cardinality(Nodes)
  /\ \A e \in edges : IsEdge(e) /\ {e.from, e.to} \subseteq DOMAIN nodes
  /\ \A n \in DOMAIN nodes, a \in Axes : nodes[n].position[a] \in 0..(Side - 1)
  /\ accessible \subseteq Nodes
  /\ counts.accessible + counts.inaccessible <= counts.samples

(* The pore limiting diameter is that of the crystal where the keys tell   *)
(* which vertices are one: what they make of the cells' vertices, the      *)
(* image in which each cell happens to see them, and the sampled widths,   *)
(* change nothing.  On a border a vertex becomes two nodes, which can      *)
(* close a channel and never open one.                                     *)
PldIsThatOfTheCrystal ==
  stage \in {"accessible", "sampling"} =>
    pld <= truth /\ (KeysResolve => pld = truth)

(* The answers agree: nothing passes that does not fit into the largest    *)
(* cavity, and void counts as accessible only when the probe is no wider   *)
(* than the limiting diameter.                                             *)
AnswersAgree ==
  stage = "sampling" =>
    /\ pld <= lcd
    /\ counts.accessible > 0 => pld >= Probe
=============================================================================
