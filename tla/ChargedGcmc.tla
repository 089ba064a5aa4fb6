----------------------------- MODULE ChargedGcmc -----------------------------
(***************************************************************************)
(* The engine with electrostatics: GcmcEngine composed with the Ewald      *)
(* cache.  Adds the energy difference every trial computes, the commit of  *)
(* an accepted one, and the periodic resync.                               *)
(***************************************************************************)
EXTENDS GcmcEngine, EwaldIncremental

CONSTANTS
  Strength,        \* Strength[kind], the LJ parameters of a kind
  PairTable,       \* PairTable[d + 1], the LJ energy at distance d, 0 beyond the cutoff
  RealTable,       \* RealTable[d + 1], erfc(alpha r) / r
  ResyncInterval   \* kResyncInterval

ASSUME EnergyAssumption ==
  /\ Strength \in [Kinds -> Int]
  /\ \A d \in 0..(L \div 2) : PairTable[d + 1] \in Int /\ RealTable[d + 1] \in Int
  /\ \A d \in (Radius + 1)..(L \div 2) : PairTable[d + 1] = 0
  /\ ResyncInterval \in Nat \ {0}

VARIABLES
  sinceResync,   \* movesSinceEwaldResync_
  deltaU,        \* the running trial's deltaU
  ledger         \* history: the sum of deltaU over the accepted moves

chargedVars == <<vars, ewald, sinceResync, deltaU, ledger>>

PairDispersion(a, b) ==
  Strength[a.kind] * Strength[b.kind] * PairTable[Distance(a.pos, b.pos) + 1]
PairRealSpace(a, b) ==
  Charge[a.kind] * Charge[b.kind] * RealTable[Distance(a.pos, b.pos) + 1]

(* Mutant: the molecule a swap replaces is not left out. *)
DispersionEnergyWithOld(P, sites, alsoExclude) ==
  LET candidates(i) ==
        (1..FrameworkCount) \cup {j \in DOMAIN cells : Visits(P[i].pos, cells[j])}
      pairs == {p \in Range(sites) \X (1..Len(P)) : p[2] \in candidates(p[1]) \ Range(sites)}
  IN SumFunction([p \in pairs |-> PairDispersion(P[p[1]], P[p[2]])])

(* moleculeDispersionEnergy: each site against the framework and the cell   *)
(* list's candidates near it; the positions are those of P now.             *)
DispersionEnergy(P, sites, alsoExclude) ==
  LET candidates(i) ==
        (1..FrameworkCount) \cup {j \in DOMAIN cells : Visits(P[i].pos, cells[j])}
      excluded == Range(sites) \cup Range(alsoExclude)
      pairs == {p \in Range(sites) \X (1..Len(P)) : p[2] \in candidates(p[1]) \ excluded}
  IN SumFunction([p \in pairs |-> PairDispersion(P[p[1]], P[p[2]])])

(* moleculeElectrostaticRealSpaceEnergy scans the whole pool. *)
RealSpaceEnergy(P, sites, alsoExclude) ==
  LET excluded == Range(sites) \cup Range(alsoExclude)
      pairs == Range(sites) \X ((1..Len(P)) \ excluded)
  IN SumFunction([p \in pairs |-> PairRealSpace(P[p[1]], P[p[2]])])

Interaction(P, sites, alsoExclude) ==
  DispersionEnergy(P, sites, alsoExclude) + RealSpaceEnergy(P, sites, alsoExclude)

ChargedInit ==
  /\ Init
  /\ ewald = EwaldOfFramework(Framework)
  /\ sinceResync = 0
  /\ deltaU = 0
  /\ ledger = 0

-----------------------------------------------------------------------------
(* Trials: the energy difference, with nothing committed yet. *)

ProposeDisplacement ==
  /\ StartTranslation \/ StartRotation
  /\ deltaU' = Interaction(particles', trial'.sites, << >>)
                 - Interaction(particles, trial'.sites, << >>)
                 + Proposed(BodyOf(particles, trial'.sites), BodyOf(particles', trial'.sites))
  /\ UNCHANGED <<ewald, sinceResync, ledger>>

ProposeInsertion ==
  /\ StartInsertion
  /\ deltaU' = Interaction(particles', trial'.sites, << >>)
                 + Proposed(<< >>, BodyOf(particles', trial'.sites))
  /\ UNCHANGED <<ewald, sinceResync, ledger>>

ProposeDeletion ==
  /\ StartDeletion
  /\ deltaU' = Proposed(BodyOf(particles, trial'.sites), << >>)
                 - Interaction(particles, trial'.sites, << >>)
  /\ UNCHANGED <<ewald, sinceResync, ledger>>

ProposeSwap ==
  /\ StartSwap
  /\ LET old == molecules[trial'.mol].sites
     IN deltaU' = Interaction(particles', trial'.sites, old)
                    - Interaction(particles, old, << >>)
                    + Proposed(BodyOf(particles, old), BodyOf(particles', trial'.sites))
  /\ UNCHANGED <<ewald, sinceResync, ledger>>

-----------------------------------------------------------------------------
(* Outcomes. *)

(* The cache takes over the trial's charges; deltaU becomes history. *)
Book(removed, added) ==
  /\ Commit(removed, added)
  /\ ledger' = ledger + deltaU
  /\ deltaU' = 0
  /\ UNCHANGED sinceResync

CommitDisplacement ==
  /\ AcceptDisplacement
  /\ Book(BodyOf(Committed, trial.sites), BodyOf(particles, trial.sites))

CommitInsertion ==
  /\ AcceptInsertion
  /\ Book(<< >>, BodyOf(particles, trial.sites))

CommitDeletion ==
  /\ AcceptDeletion
  /\ Book(BodyOf(particles, trial.sites), << >>)

(* Mutant: the resync comes before the replaced sites are removed. *)
CommitSwapResyncing ==
  /\ AcceptSwap
  /\ ewald' = Resynced(particles, [m \in 1..Len(molecules') |-> molecules'[m].sites])
  /\ ledger' = ledger + deltaU
  /\ deltaU' = 0
  /\ sinceResync' = 0

CommitSwap ==
  /\ AcceptSwap
  /\ Book(BodyOf(particles, molecules[trial.mol].sites), BodyOf(particles, trial.sites))

(* metropolisRatio is below 1, so a rejection possible, only uphill. *)
Discard ==
  /\ (RejectDisplacement /\ deltaU > 0) \/ RejectAppended \/ RejectDeletion
  /\ deltaU' = 0
  /\ UNCHANGED <<ewald, sinceResync, ledger>>

-----------------------------------------------------------------------------
(* After an accepted move. *)

Remove ==
  /\ RemoveNext
  /\ UNCHANGED <<ewald, sinceResync, deltaU, ledger>>

(* Mutant: one accepted move too late. *)
MaybeResyncLate ==
  IF sinceResync >= ResyncInterval
  THEN /\ ewald' = Resynced(particles, [m \in 1..Len(molecules) |-> molecules[m].sites])
       /\ sinceResync' = 0
  ELSE sinceResync' = sinceResync + 1 /\ UNCHANGED ewald

(* maybeResyncEwald. *)
MaybeResync ==
  IF sinceResync + 1 >= ResyncInterval
  THEN /\ ewald' = Resynced(particles, [m \in 1..Len(molecules) |-> molecules[m].sites])
       /\ sinceResync' = 0
  ELSE sinceResync' = sinceResync + 1 /\ UNCHANGED ewald

Finalize ==
  /\ Settle
  /\ MaybeResync
  /\ UNCHANGED <<deltaU, ledger>>

ChargedNext ==
  \/ ProposeDisplacement \/ ProposeInsertion \/ ProposeDeletion \/ ProposeSwap
  \/ CommitDisplacement \/ CommitInsertion \/ CommitDeletion \/ CommitSwap
  \/ Discard \/ Remove \/ Finalize

ChargedSpec == ChargedInit /\ [][ChargedNext]_chargedVars

-----------------------------------------------------------------------------
(* Properties. *)

(* Total energy of a list of molecules beside the framework, by definition  *)
(* and from scratch: every pair of sites that are neither both framework    *)
(* nor of one molecule, plus the Ewald terms of the whole.                  *)
PoolOf(config) == 
  [b \in 0..Len(config) |-> IF b = 0 THEN Framework ELSE config[b].sites]
SitesOf(config) ==
  {s \in (0..Len(config)) \X (1..Len(particles)) : s[2] <= Len(PoolOf(config)[s[1]])}
SiteAt(config, s) == PoolOf(config)[s[1]][s[2]]
PairEnergy(config) ==
  SumFunction([p \in {q \in SitesOf(config) \X SitesOf(config) : q[1][1] < q[2][1]} |->
                 PairDispersion(SiteAt(config, p[1]), SiteAt(config, p[2]))
                   + PairRealSpace(SiteAt(config, p[1]), SiteAt(config, p[2]))])

EwaldOf(config) ==
  LET total(f) == SumFunction(f)
      bodies == PoolOf(config)
  IN [re |-> [t \in Terms |->
                total([b \in DOMAIN bodies |-> StructureFactor(CosTable, t, bodies[b])])],
      im |-> [t \in Terms |->
                total([b \in DOMAIN bodies |-> StructureFactor(SinTable, t, bodies[b])])],
      self |-> total([b \in DOMAIN bodies |-> SelfEnergy(bodies[b])]),
      exclusion |-> -total([b \in 1..Len(config) |-> PairExclusionSum(bodies[b])])]

TotalEnergy(config) == PairEnergy(config) + CommittedEnergy(EwaldOf(config))

ChargedTypeOK ==
  /\ TypeOK
  /\ DOMAIN ewald.re = Terms /\ DOMAIN ewald.im = Terms
  /\ \A t \in Terms : ewald.re[t] \in Int /\ ewald.im[t] \in Int
  /\ sinceResync \in 0..(ResyncInterval - 1)
  /\ (phase # "trial" => deltaU = 0)

(* At every moment, also while a trial or removed sites are in the pool,    *)
(* the cache describes exactly the molecules accepted so far.  In exact     *)
(* arithmetic a resync then changes nothing, so one that reads the pool at  *)
(* the wrong moment shows here.                                             *)
CacheMatchesMolecules == ewald = EwaldOf(Config)

(* The energy differences the acceptance test was given add up to the real  *)
(* change of the total energy: no pair is missed, counted twice, or counted *)
(* against a molecule that is leaving.                                      *)
LedgerMatchesEnergy == ledger = TotalEnergy(Config) - TotalEnergy(<< >>)
=============================================================================
