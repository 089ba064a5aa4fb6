---------------------------- MODULE MCChargedGcmc ----------------------------
(* A neutral one-site species and a dipole beside a neutral framework of two *)
(* charges, on a cell of length 4: the reciprocal vectors are 1 and 2        *)
(* quarter turns per unit of length.                                         *)
EXTENDS ChargedGcmc

MCKinds == {"F1", "F2", "A", "B1", "B2"}
MCSpecies == {"A", "B"}
MCTemplate ==
  [sp \in MCSpecies |->
     IF sp = "A" THEN << [offset |-> 0, kind |-> "A"] >>
     ELSE << [offset |-> 0, kind |-> "B1"], [offset |-> 2, kind |-> "B2"] >>]
MCFramework == << [pos |-> 0, kind |-> "F1"], [pos |-> 1, kind |-> "F2"] >>
MCPositions == -1..4
MCShifts == {-1, 1}

MCCharge == [k \in MCKinds |-> CASE k \in {"F1", "B1"} -> 1
                                 [] k \in {"F2", "B2"} -> -1
                                 [] k = "A" -> 0]
MCStrength == [k \in MCKinds |-> CASE k = "F1" -> 1 [] k = "F2" -> 2 [] k = "A" -> 3
                                   [] k = "B1" -> 5 [] k = "B2" -> 7]
MCTerms == {1, 2}
MCWeight == << 3, 2 >>
MCCos == << << 1, 0, -1, 0 >>, << 1, -1, 1, -1 >> >>
MCSin == << << 0, 1, 0, -1 >>, << 0, 0, 0, 0 >> >>
MCErfOverR == << 9, 8, 4 >>
MCPairTable == << 11, -3, 0 >>
MCRealTable == << 17, 6, 1 >>
=============================================================================
