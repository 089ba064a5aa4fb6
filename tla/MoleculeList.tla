---------------------------- MODULE MoleculeList ----------------------------
(***************************************************************************)
(* What the particle bookkeeping of the engine promises: a list of rigid   *)
(* molecules, each held by value, changed by one molecule at a time.       *)
(* Nothing is said of the pool they share, the indices into it, the cell   *)
(* list, or the trials that are rejected.                                  *)
(***************************************************************************)
EXTENDS RigidMolecules

VARIABLE config   \* the molecules: [species, sites]

Init == config = << >>

Insert ==
  \E sp \in Species, ref \in 0..(L - 1) : \E o \in Orientations(sp) :
    config' = Append(config, [species |-> sp, sites |-> Place(sp, ref, o)])

Delete == \E m \in DOMAIN config : config' = EraseAt(config, m)

Shifted(body, d) == [k \in 1..Len(body) |-> [body[k] EXCEPT !.pos = @ + d]]
Reflected(body, c) == [k \in 1..Len(body) |-> [body[k] EXCEPT !.pos = 2 * c - @]]

Translate ==
  \E m \in DOMAIN config, d \in Shifts :
    config' = [config EXCEPT ![m].sites = Shifted(config[m].sites, d)]

Rotate ==
  \E m \in DOMAIN config, c \in Positions :
    /\ IsCentroid(c, config[m].sites)
    /\ config' = [config EXCEPT ![m].sites = Reflected(config[m].sites, c)]

(* A molecule becomes one of another species, with the reference point of   *)
(* the new template at the centroid of the old sites.                       *)
TransmuteAt(m, sp, c, o) ==
  /\ IsCentroid(c, config[m].sites)
  /\ config' = [config EXCEPT ![m] = [species |-> sp, sites |-> Place(sp, c, o)]]
Transmute ==
  \E m \in DOMAIN config, c \in Positions :
    \E sp \in Species \ {config[m].species} : \E o \in Orientations(sp) :
      TransmuteAt(m, sp, c, o)

Next == Insert \/ Delete \/ Translate \/ Rotate \/ Transmute

Spec == Init /\ [][Next]_config

(* Every molecule is a rigid copy of its species' template. *)
AllRigid ==
  \A m \in DOMAIN config :
    \E o \in Orientations(config[m].species) :
      config[m].sites =
        Place(config[m].species,
              config[m].sites[1].pos - LocalOffset(config[m].species, 1, o), o)
=============================================================================
