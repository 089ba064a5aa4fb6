--------------------------- MODULE MCPoreAnalysis ---------------------------
(* Either a call into the periodic graph by itself, or a whole analysis.    *)
EXTENDS PoreAnalysis

VARIABLE alone   \* whether the graph is called by itself

(* All graphs of up to three edges on three nodes and two axes, up to the   *)
(* names of the first edge's ends.  For the threshold the weights fix the   *)
(* order, or leave it open for two of the edges.                            *)
MCEdge(froms, tos, offsets, w) ==
  [from : froms, to : tos, weight : {w}, imageOffset : offsets]
MCFirst(w) == MCEdge({1}, {1, 2}, {<<0, 0>>, <<1, 0>>}, w)
MCSecond(w) == MCEdge({2, 3}, {1, 2, 3}, {<<0, 0>>, <<0, 1>>}, w)
MCThird(w) == MCEdge({1, 3}, {1, 2, 3}, {<<0, 0>>, <<1, 0>>, <<-1, 0>>}, w)

MCGraphs(u, v, w) == {{d, e, f} : d \in MCFirst(u), e \in MCSecond(v), f \in MCThird(w)}
MCCalls(call, graphs) == [call : {call}, edges : graphs, radius : {1}]
MCInputs ==
  MCCalls("percolationThreshold", MCGraphs(3, 2, 1) \cup MCGraphs(2, 3, 3))
  \cup MCCalls("accessibleComponents", MCGraphs(1, 0, 2))

(* A honeycomb in a unit cell of 64 by 64, its cells as wide as they are    *)
(* told: vertices P and Q, three kinds of edge between them: the probe of 3 *)
(* gets through, or it fits into a pocket only.                             *)
MCAway(v, x, y) == <<v[1] + x, v[2] + 64 * y>>
MCHexagon(p, q, x, wide) ==
  [vertices |-> <<MCAway(p, x, 0), MCAway(q, x, 0), MCAway(p, x + wide, 0),
                  MCAway(q, x + wide, -1), MCAway(p, x + wide, -1), MCAway(q, x, -1)>>,
   faces |-> {<<1, 2, 3, 4, 5, 6>>}]

(* The middles of one kind of edge, and the free radius there.              *)
MCMiddles(p, q, wide) ==
  {[a \in Axes |-> KeyFor(<<(p[1] + q[1]) \div 2 + x, (p[2] + q[2]) \div 2>>)[a] % 16] : x \in {0, 64 - wide}}
MCFrom(widths, p, q, wide) ==
  LET over == MCAway(p, wide, 0)
  IN [place \in MCMiddles(p, q, wide) |-> widths[1]]
     @@ [place \in MCMiddles(q, over, wide) |-> widths[2]]
     @@ [place \in MCMiddles(over, MCAway(q, wide, -1), wide) |-> widths[3]]
MCTess(p, q, widths, wide) ==
  [cells |-> [k \in 1..(64 \div wide) |-> MCHexagon(p, q, (k - 1) * wide, wide)],
   radius |-> MCFrom(widths, p, q, wide), elsewhere |-> 4]

(* Points off the centre of their key; on the border of a key, in the       *)
(* middle of the cell; and on the border of the cell.                       *)
MCTessellations ==
  {MCTess(<<7, 15>>, <<15, 31>>, w, 32) : w \in {<<3, 2, 3>>, <<3, 1, 2>>}}
  \cup {MCTess(p, <<14, 31>>, w, 64) : p \in {<<10, 15>>, <<0, 15>>}, w \in {<<3, 2, 3>>, <<3, 3, 2>>}}
MCRoundOff == {<<0, 0>>, <<-1, 1>>}
MCSamplePoints == {<<0, 0>>, <<12, 24>>, <<28, 24>>}

ofPores == <<tess, network, answers, stage, truth>>
NoPores ==
  /\ tess = CHOOSE t \in Tessellations : TRUE
  /\ cell = 1 /\ local = << >> /\ nodes = << >> /\ edges = {} /\ widest = 0
  /\ lcd = 0 /\ pld = 0 /\ accessible = {}
  /\ counts = [samples |-> 0, accessible |-> 0, inaccessible |-> 0]
  /\ stage = "network" /\ truth = 0

MCInit == (alone = TRUE /\ NoPores /\ Init) \/ (alone = FALSE /\ PoreInit)
MCNext ==
  \/ alone /\ Next /\ UNCHANGED <<ofPores, alone>>
  \/ ~alone /\ PoreNext /\ UNCHANGED alone
MCSpec == MCInit /\ [][MCNext]_<<poreVars, alone>>
=============================================================================
