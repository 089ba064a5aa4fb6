--------------------------- MODULE EwaldIncremental ---------------------------
(***************************************************************************)
(* forcefield::EwaldIncrementalState: the structure factors S(k) and the   *)
(* self and exclusion energies of the charges now in the cell, kept up to  *)
(* date by the difference each accepted move makes.                        *)
(*                                                                         *)
(* The arithmetic is exact: on an integer lattice whose reciprocal vectors *)
(* are multiples of a quarter turn, cos and sin are 0, 1 and -1.  The      *)
(* prefactors and erf(alpha r)/r are integer tables; floating-point drift, *)
(* the reason resync exists, is out of the model.                          *)
(***************************************************************************)
EXTENDS RigidMolecules, FiniteSets

CONSTANTS
  Charge,      \* Charge[kind]
  Terms,       \* the retained reciprocal vectors k # 0
  Weight,      \* Weight[t], exp(-k^2 / 4 alpha^2) / k^2
  CosTable,    \* CosTable[t][x + 1], cos(k x) for x in 0 .. L - 1
  SinTable,
  ErfOverR,    \* ErfOverR[d + 1], erf(alpha r) / r at minimum-image distance d
  SelfFactor   \* alpha / sqrt(pi)

(* Nothing is asked of the tables but that they are tables of numbers; no   *)
(* minimum-image distance is beyond half the cell.                          *)
ASSUME EwaldAssumption ==
  /\ Charge \in [Kinds -> Int] /\ SelfFactor \in Int
  /\ IsFiniteSet(Terms)
  /\ \A t \in Terms :
       /\ Weight[t] \in Int
       /\ \A x \in 1..L : CosTable[t][x] \in Int /\ SinTable[t][x] \in Int
  /\ \A d \in 0..(L \div 2) : ErfOverR[d + 1] \in Int

VARIABLE ewald   \* [re, im : [Terms -> Int], self, exclusion : Int]

(* sum_i q_i table(k . r_i) over a list of charged sites. *)
StructureFactor(table, t, body) ==
  SumFunction([k \in 1..Len(body) |-> Charge[body[k].kind] * table[t][(body[k].pos % L) + 1]])

SelfEnergy(body) ==
  -SelfFactor * SumFunction([k \in 1..Len(body) |-> Charge[body[k].kind] * Charge[body[k].kind]])

PairExclusionSum(body) ==
  SumFunction([p \in {q \in (1..Len(body)) \X (1..Len(body)) : q[1] < q[2]} |->
                 Charge[body[p[1]].kind] * Charge[body[p[2]].kind]
                   * ErfOverR[Distance(body[p[1]].pos, body[p[2]].pos) + 1]])

(* Constructor: the framework alone, which has no excluded pairs. *)
EwaldOfFramework(P) ==
  [re |-> [t \in Terms |-> StructureFactor(CosTable, t, P)],
   im |-> [t \in Terms |-> StructureFactor(SinTable, t, P)],
   self |-> SelfEnergy(P),
   exclusion |-> 0]

(* resync: everything from the pool P and the molecules' index lists. *)
Resynced(P, lists) ==
  [EwaldOfFramework(P) EXCEPT
     !.exclusion = -SumFunction([m \in DOMAIN lists |-> PairExclusionSum(BodyOf(P, lists[m]))])]

(* computeDelta: insertion has nothing removed, deletion nothing added. *)
Delta(removed, added) ==
  LET change(table, t) == StructureFactor(table, t, added) - StructureFactor(table, t, removed)
  IN [re |-> [t \in Terms |-> change(CosTable, t)],
      im |-> [t \in Terms |-> change(SinTable, t)],
      self |-> SelfEnergy(added) - SelfEnergy(removed),
      exclusion |-> PairExclusionSum(removed) - PairExclusionSum(added)]

Reciprocal(re, im) == SumFunction([t \in Terms |-> Weight[t] * (re[t] * re[t] + im[t] * im[t])])

Sum(a, b) == [t \in Terms |-> a[t] + b[t]]

CommittedEnergy(e) == Reciprocal(e.re, e.im) + e.self + e.exclusion

(* propose...: the energy change, against the cache as it stands. *)
Proposed(removed, added) ==
  LET d == Delta(removed, added)
  IN Reciprocal(Sum(ewald.re, d.re), Sum(ewald.im, d.im)) - Reciprocal(ewald.re, ewald.im)
       + d.self + d.exclusion

(* commit...: apply(computeDelta(removed, added)). *)
Commit(removed, added) ==
  LET d == Delta(removed, added)
  IN ewald' = [re |-> Sum(ewald.re, d.re), im |-> Sum(ewald.im, d.im),
               self |-> ewald.self + d.self, exclusion |-> ewald.exclusion + d.exclusion]
=============================================================================
