---------------------------- MODULE MCGcmcSampling ----------------------------
(* A one-site species and a two-site one on five cells beside one framework  *)
(* atom.  The two-site template is given once on its own centroid and once   *)
(* with its reference point on its first site; only one of its sites has     *)
(* interactions, so that its orientation matters.                            *)
EXTENDS GcmcSampling

MCKinds == {"F", "A", "B1", "B2"}
MCSpecies == {"A", "B"}
Site1 == << [offset |-> 0, kind |-> "A"] >>
CentredTemplate ==
  [sp \in MCSpecies |->
     IF sp = "A" THEN Site1
     ELSE << [offset |-> -1, kind |-> "B1"], [offset |-> 1, kind |-> "B2"] >>]
OffCentreTemplate ==
  [sp \in MCSpecies |->
     IF sp = "A" THEN Site1
     ELSE << [offset |-> 0, kind |-> "B1"], [offset |-> 2, kind |-> "B2"] >>]
MCFramework == << [pos |-> 0, kind |-> "F"] >>
MCPositions == 0..4
MCShifts == {-1, 0, 1}
MCActivity == [sp \in MCSpecies |-> IF sp = "A" THEN 1 ELSE 3]
MCSiteEnergy ==
  [k \in MCKinds \X MCKinds |->
     IF "B2" \in {k[1], k[2]} THEN << 0, 0, 0 >>
     ELSE IF "F" \in {k[1], k[2]} THEN << 1, 0, -1 >>
     ELSE IF k = <<"A", "A">> THEN << 2, -1, 0 >>
     ELSE << 1, -1, 0 >>]
=============================================================================
