---------------------------- MODULE MCGcmcEngine ----------------------------
(* A mixture of a one-site species and a two-site one on a cell of length 4, *)
(* beside a framework of one atom.  The two-site template is off its own     *)
(* centroid, so that a swap moves the reference point.                       *)
EXTENDS GcmcEngine

MCKinds == {"F", "A", "B1", "B2"}
MCSpecies == {"A", "B"}
MCTemplate ==
  [sp \in MCSpecies |->
     IF sp = "A" THEN << [offset |-> 0, kind |-> "A"] >>
     ELSE << [offset |-> 0, kind |-> "B1"], [offset |-> 2, kind |-> "B2"] >>]
MCFramework == << [pos |-> 0, kind |-> "F"] >>
MCPositions == 0..2
MCShifts == {-1, 1}
=============================================================================
