-------------------------------- MODULE Core --------------------------------
(***************************************************************************)
(* The services of core/ that the engines share: the neighbour list over   *)
(* its cell list, minimum images, random numbers, the arena.  They know    *)
(* nothing of one another, so each behaviour is one of them at work.       *)
(***************************************************************************)
EXTENDS VerletList, CellList, Lattice, CounterRng, Arena

VARIABLE service   \* "neighbours", "images", "numbers" or "blocks"

(* A service that is not used stands at one of its initial states.          *)
Unused(name) ==
  CASE name = "neighbours" -> particles = << >>
    [] name = "images" -> matrix = CHOOSE m \in Matrices : TRUE
    [] name = "numbers" -> seed \in [Generators -> {CHOOSE s \in Seeds : TRUE}]
                           /\ stream \in [Generators -> {CHOOSE t \in Streams : TRUE}]
Services == {"neighbours", "images", "numbers"}
CoreInit ==
  /\ service \in Services \cup {"blocks"}
  /\ Init /\ (service # "neighbours" => Unused("neighbours"))
  /\ LatticeInit /\ (service # "images" => Unused("images"))
  /\ RngInit /\ (service # "numbers" => Unused("numbers"))
  /\ ArenaInit
CoreNext ==
  /\ UNCHANGED service
  /\ \/ service = "neighbours" /\ Next /\ UNCHANGED <<latticeVars, rngVars, arenaVars>>
     \/ service = "images" /\ LatticeNext /\ UNCHANGED <<vars, rngVars, arenaVars>>
     \/ service = "numbers" /\ RngNext /\ UNCHANGED <<vars, latticeVars, arenaVars>>
     \/ service = "blocks" /\ ArenaNext /\ UNCHANGED <<vars, latticeVars, rngVars>>
CoreSpec == CoreInit /\ [][CoreNext]_<<vars, latticeVars, rngVars, arenaVars, service>>

(* Every variable of every service has its type. *)
CoreTypeOK == VerletTypeOK /\ LatticeTypeOK /\ RngTypeOK /\ ArenaTypeOK
=============================================================================
