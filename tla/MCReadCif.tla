------------------------------ MODULE MCReadCif ------------------------------
(* readCif on short files and on small crystals.                             *)
EXTENDS ReadCif

(* Files of up to MaxLines lines over a small stock of lines.               *)
MCNames == {"_a", "_b"}
MCLines ==
  {<< >>, <<"data_">>, <<"loop_">>, <<"_a">>, <<"_b">>, <<"_a", "1">>, <<"1">>, <<"1", "2">>,
   <<";">>, <<";", "1">>, <<"2", "'1">>}
MCLooseLines ==
  {<<"data_">>, <<"loop_">>, <<"_a">>, <<"_a", "_b">>, <<"1">>, <<"1", "2">>, <<";">>}

(* Coordinates with one decimal digit on a grid of 1/30: thirds exist but   *)
(* the file cannot write them.  Hexagonal and orthogonal cells of 9 and 13. *)
MCElementOf == [l \in {"Zn", "Zn1", "O1", "O2", "Xx"} |->
                  CASE l \in {"Zn", "Zn1"} -> "Zn" [] l = "Xx" -> "Xx" [] OTHER -> "O"]
MCMass == [e \in {"Zn", "O"} |-> IF e = "Zn" THEN 65 ELSE 16]

MCCell(edge, gamma) ==
  [a |-> edge, b |-> edge, c |-> edge, alpha |-> 90, beta |-> 90, gamma |-> gamma]

Neg(t) == [t EXCEPT !.sign = -1]
Third == [sign |-> 1, num |-> 1, den |-> 3, of |-> "1"]
Half == [sign |-> 1, num |-> 1, den |-> 2, of |-> "1"]
X == Term("x")
Y == Term("y")
Z == Term("z")
MCP3 == {<< <<X>>, <<Y>>, <<Z>> >>, << <<Neg(Y)>>, <<X, Neg(Y)>>, <<Z>> >>,
         << <<Neg(X), Y>>, <<Neg(X)>>, <<Z>> >>}
MCGlide == {<< <<X>>, <<Y>>, <<Z>> >>, << <<Half, X>>, <<Neg(Half), Neg(Y)>>, <<Z>> >>}
MCMirrors == {<< <<a>>, <<b>>, <<Z>> >> : a \in {X, Neg(X)}, b \in {Y, Neg(Y)}}
MCInverse == {<< <<X>>, <<Y>>, <<Z>> >>, << <<Neg(X)>>, <<Neg(Y)>>, <<Neg(Third), Z>> >>,
              << <<X>>, <<Y>>, <<Neg(Z), Third>> >>}
MCBadOps == {<< <<X>>, <<Y>> >>, << <<X>>, << >>, <<Z>> >>, << <<X>>, <<Garbage>>, <<Z>> >>}

MCOpsLoop(name, operations) ==
  [columns |-> {name}, rows |-> [k \in DOMAIN operations |-> [t \in {name} |-> operations[k]]]]

Digit(f) == ((2 * f + Coarse) \div (2 * Coarse))
MCRow(label, p) ==
  [label |-> label, x |-> Digit(p[1]), y |-> Digit(p[2]), z |-> Digit(p[3]), meant |-> p]
MCAtomLoop(rows) == [columns |-> {"label", "x", "y", "z"}, rows |-> rows]

MCSpecial == {<<0, 0, 0>>, <<10, 20, 0>>, <<20, 10, 0>>, <<10, 20, 15>>}
MCGeneral == {<<4, 13, 7>>, <<5, 27, 10>>, <<11, 2, 29>>}
MCDocument(cell, operations, rows) ==
  [cell |-> cell, loops |-> <<MCOpsLoop("_symmetry_equiv_pos_as_xyz", operations),
                              MCAtomLoop(rows)>>]

MCGood ==
  {MCDocument(MCCell(edge, 120), s, <<MCRow("Zn1", p), MCRow("O1", q)>>) :
     edge \in {9, 13}, s \in SetToSeqs(MCP3), p \in MCSpecial \cup MCGeneral,
     q \in MCGeneral \cup {<<20, 10, 0>>}}
  \cup {MCDocument(MCCell(9, 90), s, <<MCRow("O1", p)>>) :
     s \in SetToSeqs(MCGlide), p \in MCGeneral \cup {<<0, 0, 0>>, <<0, 15, 0>>}}
  \cup {MCDocument(MCCell(9, 90), s, <<MCRow("O1", p)>>) :
     s \in SetToSeqs(MCMirrors), p \in {<<5, 27, 10>>, <<0, 12, 3>>, <<9, 15, 3>>, <<0, 15, 0>>}}
MCPlain == MCDocument(MCCell(9, 90), << << <<X>>, <<Y>>, <<Z>> >> >>,
                      <<MCRow("Zn1", <<0, 0, 0>>), MCRow("O1", <<3, 6, 9>>), MCRow("O2", <<9, 9, 9>>)>>)

(* Columns that need not be there, and the ways a document can be wrong. *)
MCExtra(row, type, occupancy, charge) ==
  [c \in {"label", "x", "y", "z", "meant", "type", "occupancy", "charge"} |->
     CASE c = "type" -> type [] c = "occupancy" -> occupancy [] c = "charge" -> charge
       [] OTHER -> row[c]]
MCExtraLoop ==
  {[columns |-> {"label", "x", "y", "z", "type", "occupancy", "charge"},
    rows |-> <<MCExtra(MCRow("Zn1", <<0, 0, 0>>), t, 1, 2),
               MCExtra(MCRow("O1", <<3, 6, 9>>), u, o, q)>>] :
     t \in {"Zn", "O2"}, u \in {"Zn", Unknown}, o \in {2, Unknown}, q \in {Garbage, -1}}
MCOdd ==
  {[MCPlain EXCEPT !.loops = <<MCOpsLoop("_space_group_symop_operation_xyz", s), MCPlain.loops[2]>>] :
     s \in SetToSeqs(MCInverse) \cup {<< >>} \cup {<<b>> : b \in MCBadOps}}
  \cup {[MCPlain EXCEPT !.loops = l] : l \in {<< >>, <<MCPlain.loops[2]>>, <<MCPlain.loops[1]>>}}
  \cup {[MCPlain EXCEPT !.loops[2] = l] : l \in MCExtraLoop}
  \cup {[MCPlain EXCEPT !.loops[2].rows[2].label = l] : l \in {"Xx", "Q"}}
  \cup {[MCPlain EXCEPT !.loops[2].rows[2].z = v] : v \in {Unknown, Garbage}}
  \cup {[MCPlain EXCEPT !.cell[t] = v] : t \in CellTags, v \in {0, Unknown, 180}}
  \cup {[MCPlain EXCEPT !.cell = [t \in CellTags \ {u} |-> 90]] : u \in CellTags}
  \cup {[MCPlain EXCEPT !.cell.alpha = 60, !.cell.beta = 60, !.cell.gamma = g] :
          g \in {60, 120, 121}}
MCDocuments == MCGood \cup MCOdd
=============================================================================
