------------------------------- MODULE ReadCif -------------------------------
(***************************************************************************)
(* The two halves of readCif.  They share only the document that the first *)
(* returns and the second is called with, so each is explored over its own *)
(* inputs: files of lines, and documents.                                  *)
(***************************************************************************)
EXTENDS CifDocument, CifStructure

VARIABLE half   \* of readCif that runs: "text" or "structure"

ReadCifInit ==
  /\ half \in {"text", "structure"}
  /\ Init /\ (half # "text" => file = <<CHOOSE l \in Lines : TRUE>>)
  /\ StructureInit /\ (half # "structure" => doc = CHOOSE d \in Documents : TRUE)
ReadCifNext ==
  /\ UNCHANGED half
  /\ \/ half = "text" /\ Next /\ UNCHANGED structureVars
     \/ half = "structure" /\ StructureNext /\ UNCHANGED vars
ReadCifSpec == ReadCifInit /\ [][ReadCifNext]_<<vars, structureVars, half>>

(* Every variable of either half has its type. *)
ReadCifTypeOK == CifTypeOK /\ StructureTypeOK
=============================================================================
