------------------------------- MODULE MCCore -------------------------------
(* The services of core/ on a small box, small cells, words of two bits and *)
(* an arena of 24 bytes.                                                    *)
EXTENDS Core, Bitwise

(* A box of 12 by 8 whose bins are those of CellList: with a skin of 3 the  *)
(* cutoffs 1 to 4 give 3, 2 and 1 bins along an axis, and 5 is refused.     *)
MCWidths == <<12, 8>>
MCPositions == {<<0, 0>>, <<-1, 1>>, <<2, 0>>, <<3, 1>>, <<5, 1>>, <<8, 4>>, <<10, 7>>}

(* Triangular matrices, as buildLattice makes them, some strongly skewed;   *)
(* <<4, 0, 0>>, <<2, 3, 0>> has a vector exactly half along another.        *)
MCMatrices ==
  {<<<<4, 0, 0>>, <<bx, 3, 0>>, <<cx, cy, 3>>>> :
     bx \in {-7, -2, 0, 2, 5}, cx \in {-6, 0, 2, 3}, cy \in {-4, 0, 1, 5}}
  \cup {<<<<2, 0, 0>>, <<0, 4, 0>>, <<0, 0, 5>>>>, <<<<4, 0, 0>>, <<2, 3, 0>>, <<6, 3, 0>>>>,
         <<<<2, 2, 0>>, <<2, 0, 2>>, <<0, 2, 2>>>>, <<<<3, 1, 0>>, <<1, 3, 0>>, <<9, 8, 2>>>>}
MCDisplacements == {<<x, y, z>> : x \in {0, 2, 7}, y \in {-1, 2}, z \in {0, 1, 4}}

MCXor(a, b) == a ^^ b
=============================================================================
