-------------------------- MODULE MCEnergyGridCache --------------------------
(* Three inputs, used one after the other with failures and two hashes that *)
(* collide, or at once without either.                                      *)
EXTENDS EnergyGridCache

MCInputs == {"i1", "i2", "i3"}
MCKeyOf == [i \in MCInputs |-> CASE i = "i1" -> "k1" [] i = "i2" -> "k2" [] i = "i3" -> "k3"]
MCCollidingFileOf == [k \in {"k1", "k2", "k3"} |-> IF k = "k3" THEN "f2" ELSE "f1"]
MCDistinctFileOf == [k \in {"k1", "k2", "k3"} |-> k]
MCSerial == [fileOf |-> MCCollidingFileOf, running |-> 1, failing |-> TRUE]
MCConcurrent == [fileOf |-> MCDistinctFileOf, running |-> 2, failing |-> FALSE]
MCSettings == {MCSerial, MCConcurrent}
=============================================================================
