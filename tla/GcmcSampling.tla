----------------------------- MODULE GcmcSampling -----------------------------
(***************************************************************************)
(* The Markov chain that MonteCarloEngine::run generates: which moves are  *)
(* proposed from a configuration, with what probability, and with what     *)
(* acceptance ratio (gcmc_acceptance.hpp).                                 *)
(*                                                                         *)
(* A configuration is a bag of placed molecules: the order of molecules_   *)
(* and the layout of the pool do not matter here (GcmcEngine).  Reference  *)
(* points are on a grid of L cells, so the volume is L; energies are       *)
(* integers in units that make exp(-1/T) a half, so every probability is a *)
(* rational <<n, d>>.  The energy difference of a trial is taken as the    *)
(* difference of total energies, which ChargedGcmc shows it to be.         *)
(***************************************************************************)
EXTENDS RigidMolecules, FiniteSets

CONSTANTS
  Activity,     \* Activity[sp], the fugacity over the temperature
  SiteEnergy,   \* SiteEnergy[<<kind, kind>>][distance + 1]
  MaxMolecules  \* bound on the number of molecules

(* A translation is drawn from an interval symmetric about 0. *)
ASSUME SamplingAssumption ==
  /\ IsFiniteSet(Species) /\ MaxMolecules \in Nat
  /\ IsFiniteSet(Shifts) /\ \A d \in Shifts : -d \in Shifts
  /\ \A sp \in Species : Activity[sp] \in Nat \ {0}
  /\ \A k, l \in Kinds, d \in 0..(L \div 2) : SiteEnergy[<<k, l>>][d + 1] \in Int

VARIABLE bag   \* how many molecules there are at each placement

Placements ==
  UNION {[species : {sp}, ref : 0..(L - 1), o : Orientations(sp)] : sp \in Species}
Bodies == [p \in Placements |-> Place(p.species, p.ref, p.o)]

-----------------------------------------------------------------------------
(* Energies. *)

Interaction(body1, body2) ==
  SumFunction([k \in (DOMAIN body1) \X (DOMAIN body2) |->
     SiteEnergy[<<body1[k[1]].kind, body2[k[2]].kind>>]
               [Distance(body1[k[1]].pos, body2[k[2]].pos) + 1]])

(* The molecules of b of the species in S, those at one placement numbered. *)
MoleculesOf(b, S) ==
  {q \in Placements \X (1..MaxMolecules) : q[1].species \in S /\ q[2] <= b[q[1]]}
Count(b, S) == Cardinality(MoleculesOf(b, S))

(* Twice the energy between the molecules of b, every pair from both sides. *)
DoubledGuestEnergy(b) ==
  LET qs == MoleculesOf(b, Species)
  IN SumFunction([pair \in {r \in qs \X qs : r[1] # r[2]} |->
                    Interaction(Bodies[pair[1][1]], Bodies[pair[2][1]])])
Energy(b) ==
  SumFunction([q \in MoleculesOf(b, Species) |-> Interaction(Bodies[q[1]], Framework)])
    + DoubledGuestEnergy(b) \div 2

-----------------------------------------------------------------------------
(* Acceptance ratios. *)

Times(r, s) == <<r[1] * s[1], r[2] * s[2]>>
Boltzmann(dU) == IF dU >= 0 THEN <<1, 2 ^ dU>> ELSE <<2 ^ (-dU), 1>>

(* Mutant: divided by the count before, not after, the insertion. *)
InsertionRatioBefore(sp, countBefore, dU) ==
  Times(<<Activity[sp] * L, IF countBefore = 0 THEN 1 ELSE countBefore>>, Boltzmann(dU))

InsertionRatio(sp, countBefore, dU) ==
  Times(<<Activity[sp] * L, countBefore + 1>>, Boltzmann(dU))
DeletionRatio(sp, countBefore, dU) ==
  Times(<<countBefore, Activity[sp] * L>>, Boltzmann(dU))
MetropolisRatio(dU) == Boltzmann(dU)

(* Mutant: the count of the target species without the new molecule. *)
SwapRatioBefore(from, to, countFrom, countTo, dU) ==
  Times(<<Activity[to] * countFrom, Activity[from] * (IF countTo = 0 THEN 1 ELSE countTo)>>,
        Boltzmann(dU))

SwapRatio(from, to, countFrom, countTo, dU) ==
  Times(<<Activity[to] * countFrom, Activity[from] * (countTo + 1)>>, Boltzmann(dU))

ClampToProbability(r) == IF r[1] < r[2] THEN r ELSE <<1, 1>>

-----------------------------------------------------------------------------
(* The attempts that can be made from a configuration b: the draw, made     *)
(* with probability 1 / odds, the configuration it proposes, and the ratio. *)

Attempt(draw, odds, next, ratio) ==
  [draw |-> draw, odds |-> odds, next |-> next, ratio |-> ratio]

Replaced(b, p, q) == [[b EXCEPT ![p] = @ - 1] EXCEPT ![q] = @ + 1]
DeltaU(b, c) == Energy(c) - Energy(b)

(* The centroid of a molecule lies Arm(p) from its reference point. *)
MeanOffset(sp) ==
  SumFunction([k \in 1..NumSites(sp) |-> Template[sp][k].offset]) \div NumSites(sp)
Arm(p) == p.o * MeanOffset(p.species)
At(p, ref, o) == [p EXCEPT !.ref = ref % L, !.o = o]

Displaced(b, draw, odds, p, q) ==
  LET c == Replaced(b, p, q) IN Attempt(draw, odds, c, MetropolisRatio(DeltaU(b, c)))

Translations(b) ==
  {Displaced(b, <<q, d>>, Count(b, Species) * Cardinality(Shifts), q[1],
             At(q[1], q[1].ref + d, q[1].o)) :
     q \in MoleculesOf(b, Species), d \in Shifts}

(* The angle is drawn from an interval symmetric about 0; on the line only  *)
(* the half turn about the centroid moves anything.                         *)
Rotations(b) ==
  {Displaced(b, <<q>>, Count(b, Species), q[1],
             At(q[1], q[1].ref + 2 * Arm(q[1]), -q[1].o)) :
     q \in {r \in MoleculesOf(b, Species) : NumSites(r[1].species) > 1}}

Insertions(b) ==
  {LET c == [b EXCEPT ![p] = @ + 1]
   IN Attempt(<<p>>, Cardinality(Species) * L * Cardinality(Orientations(p.species)), c,
              InsertionRatio(p.species, Count(b, {p.species}), DeltaU(b, c))) :
     p \in Placements}

Deletions(b) ==
  {LET n == Count(b, {q[1].species})
       c == [b EXCEPT ![q[1]] = @ - 1]
   IN Attempt(<<q>>, Cardinality(Species) * n, c, DeletionRatio(q[1].species, n, DeltaU(b, c))) :
     q \in MoleculesOf(b, Species)}

(* The new molecule's reference point is put on the old one's centroid. *)
Swapped(p) ==
  {q \in Placements : q.species # p.species /\ q.ref = (p.ref + Arm(p)) % L}
Swaps(b) ==
  UNION {
    {LET from == q[1].species
         to == new.species
         c == Replaced(b, q[1], new)
     IN Attempt(<<q, new>>,
                Cardinality(Species) * Count(b, {from}) * (Cardinality(Species) - 1)
                  * Cardinality(Orientations(to)),
                c, SwapRatio(from, to, Count(b, {from}), Count(b, {to}), DeltaU(b, c))) :
       new \in Swapped(q[1])} : q \in MoleculesOf(b, Species)}

-----------------------------------------------------------------------------
(* The chain.  run() picks each of the moves with the same probability.     *)

Init == bag = [p \in Placements |-> 0]

Make(attempts) == \E a \in attempts : Count(a.next, Species) <= MaxMolecules /\ bag' = a.next

Translate == Make(Translations(bag))
Rotate == Make(Rotations(bag))
Insert == Count(bag, Species) < MaxMolecules /\ Make(Insertions(bag))
Delete == Make(Deletions(bag))
Swap == Make(Swaps(bag))

Next == Translate \/ Rotate \/ Insert \/ Delete \/ Swap

Spec == Init /\ [][Next]_bag

-----------------------------------------------------------------------------
(* Properties. *)

(* The probability with which a kind of attempt goes from its configuration *)
(* to c.  Attempts of a kind that lead to c have equal odds and ratios.     *)
Flow(attempts, c) ==
  LET leading == {a \in attempts : a.next = c}
      one == CHOOSE a \in leading : TRUE
  IN IF leading = {} THEN <<0, 1>>
     ELSE Times(<<Cardinality(leading), one.odds>>, ClampToProbability(one.ratio))

(* The grand-canonical weight of a configuration. *)
Product(f) == FoldFunction(LAMBDA x, y : x * y, 1, f)
Power(x, n) == Product([i \in 1..n |-> x])
Factorial(n) == Product([i \in 1..n |-> i])
Weight(b) ==
  Times(<<Product([p \in Placements |-> Power(Activity[p.species], b[p])]),
          Product([p \in Placements |->
                     Power(Cardinality(Orientations(p.species)), b[p]) * Factorial(b[p])])>>,
        Boltzmann(Energy(b)))

(* Between configurations b and c a kind of attempt carries as much         *)
(* probability one way as its reverse carries back.                         *)
InBalance(Forward(_), Backward(_), b) ==
  \A c \in {a.next : a \in Forward(b)} :
    LET there == Times(Weight(b), Flow(Forward(b), c))
        back == Times(Weight(c), Flow(Backward(c), b))
    IN there[1] * back[2] = back[1] * there[2]

(* Detailed balance of the moves of a single species: translations and      *)
(* rotations against themselves, insertions against deletions.  It takes    *)
(* the acceptance ratio, the proposal probabilities and the geometry of the *)
(* trial together, where a ratio alone can only be checked to be reciprocal.*)
MoveBalance ==
  /\ InBalance(Translations, Translations, bag)
  /\ InBalance(Rotations, Rotations, bag)
  /\ InBalance(Deletions, Insertions, bag)

(* Detailed balance of the identity swap: a swap from A to B carries as much*)
(* probability as the one from B back to A.  The ratio is reciprocal; that  *)
(* the way back can be proposed at all depends on where the new molecule    *)
(* is placed.                                                               *)
SwapBalance == InBalance(Swaps, Swaps, bag)
=============================================================================
