-------------------------- MODULE GcmcEngineProofs --------------------------
(***************************************************************************)
(* Proofs about GcmcEngine, for every mixture, framework, cell and bound.  *)
(* IInv is inductive; the properties follow from it.                       *)
(***************************************************************************)
EXTENDS GcmcEngine, SequenceTheorems, TLAPS

-----------------------------------------------------------------------------
(* Lemmas about the operators of RigidMolecules and GcmcEngine. *)

(* A function on 1..n is a sequence of length n. *)
LEMMA SeqOfFunction ==
  ASSUME NEW S, NEW n \in Nat, NEW f \in [1..n -> S]
  PROVE  f \in Seq(S) /\ Len(f) = n
  BY SeqDef

(* popBack keeps the front of the pool. *)
LEMMA PopBackFacts ==
  ASSUME NEW S, NEW P \in Seq(S), NEW n \in 0..Len(P)
  PROVE  /\ PopBack(P, n) \in Seq(S)
         /\ Len(PopBack(P, n)) = Len(P) - n
         /\ \A i \in 1..(Len(P) - n) : PopBack(P, n)[i] = P[i]
  BY DEF PopBack

(* Every position, also one outside the cell, has a bin. *)
LEMMA BinInRange ==
  ASSUME NEW x \in Int
  PROVE  Bin(x) \in 0..(NumBins - 1)
  <1>1. L \in Nat \ {0} /\ Radius \in 1..L
    BY CellAssumption
  <1>2. NumBins \in Nat \ {0}
    BY <1>1 DEF NumBins
  <1> DEFINE a == x % L
             n == NumBins
  <1>3. a \in 0..(L - 1)
    BY <1>1
  <1>4. a * n >= 0 /\ a * n < L * n
    BY <1>1, <1>2, <1>3
  <1>5. (a * n) \div L >= 0 /\ (a * n) \div L < n
    BY <1>1, <1>2, <1>3, <1>4
  <1> QED BY <1>5, <1>2, <1>1 DEF Bin

(* A build of the cell list covers the guests of the pool. *)
LEMMA BinsOfFacts ==
  ASSUME NEW P \in Seq(Site)
  PROVE  /\ BinsOf(P) \in [(FrameworkCount + 1)..Len(P) -> 0..(NumBins - 1)]
         /\ DOMAIN BinsOf(P) = (FrameworkCount + 1)..Len(P)
  <1>1. \A i \in (FrameworkCount + 1)..Len(P) : P[i].pos \in Int
    <2>1. FrameworkCount \in Nat
      BY CellAssumption DEF FrameworkCount
    <2>2. \A i \in 1..Len(P) : P[i] \in Site
      OBVIOUS
    <2> QED BY <2>1, <2>2 DEF Site
  <1>2. \A i \in (FrameworkCount + 1)..Len(P) : Bin(P[i].pos) \in 0..(NumBins - 1)
    BY <1>1, BinInRange
  <1> QED BY <1>2 DEF BinsOf, FrameworkCount

(* Repositioning changes the positions of the listed sites only. *)
LEMMA RepositionFacts ==
  ASSUME NEW P \in Seq(Site), NEW sites \in Seq(Nat), NEW ps \in Seq(Int),
         Len(ps) = Len(sites)
  PROVE  /\ Reposition(P, sites, ps) \in Seq(Site)
         /\ Len(Reposition(P, sites, ps)) = Len(P)
         /\ \A i \in 1..Len(P) :
              (\A k \in 1..Len(sites) : sites[k] # i) => Reposition(P, sites, ps)[i] = P[i]
         /\ \A i \in 1..Len(P) : Reposition(P, sites, ps)[i].kind = P[i].kind
  <1> DEFINE R == Reposition(P, sites, ps)
             K(i) == CHOOSE k \in 1..Len(sites) : sites[k] = i
             listed(i) == \E k \in 1..Len(sites) : sites[k] = i
  <1>1. \A i \in 1..Len(P) : listed(i) => K(i) \in 1..Len(sites)
    OBVIOUS
  <1>2. \A i \in 1..Len(P) : listed(i) => ps[K(i)] \in Int
    <2>1. \A k \in 1..Len(sites) : ps[k] \in Int
      OBVIOUS
    <2> QED BY <1>1, <2>1
  <1>3. \A i \in 1..Len(P) : P[i] \in Site
    OBVIOUS
  <1>4. R = [i \in 1..Len(P) |-> IF listed(i) THEN [P[i] EXCEPT !.pos = ps[K(i)]] ELSE P[i]]
    BY DEF Reposition
  <1> HIDE DEF K, listed
  <1>5. \A i \in 1..Len(P) : 
          /\ (IF listed(i) THEN [P[i] EXCEPT !.pos = ps[K(i)]] ELSE P[i]) \in Site
          /\ (IF listed(i) THEN [P[i] EXCEPT !.pos = ps[K(i)]] ELSE P[i]).kind = P[i].kind
    BY <1>2, <1>3 DEF Site
  <1>6. R \in [1..Len(P) -> Site]
    BY <1>4, <1>5
  <1>7. Len(P) \in Nat
    OBVIOUS
  <1>8. R \in Seq(Site) /\ Len(R) = Len(P)
    BY <1>6, <1>7, SeqOfFunction
  <1>9. \A i \in 1..Len(P) : ~listed(i) => R[i] = P[i]
    BY <1>4
  <1>10. \A i \in 1..Len(P) : R[i].kind = P[i].kind
    BY <1>4, <1>5
  <1> QED BY <1>8, <1>9, <1>10 DEF listed

(* A repositioned site is where it was put, when no site is listed twice. *)
LEMMA RepositionMoves ==
  ASSUME NEW P \in Seq(Site), NEW sites \in Seq(Nat), NEW ps \in Seq(Int),
         Len(ps) = Len(sites),
         \A k \in 1..Len(sites) : sites[k] \in 1..Len(P),
         \A k1, k2 \in 1..Len(sites) : sites[k1] = sites[k2] => k1 = k2
  PROVE  \A k \in 1..Len(sites) : Reposition(P, sites, ps)[sites[k]].pos = ps[k]
  <1> SUFFICES ASSUME NEW k \in 1..Len(sites)
               PROVE  Reposition(P, sites, ps)[sites[k]].pos = ps[k]
    OBVIOUS
  <1> DEFINE i == sites[k]
             j == CHOOSE h \in 1..Len(sites) : sites[h] = i
  <1>1. i \in 1..Len(P) /\ P[i] \in Site
    OBVIOUS
  <1>2. j \in 1..Len(sites) /\ sites[j] = i
    OBVIOUS
  <1>3. j = k
    BY <1>2
  <1>4. Reposition(P, sites, ps)[i] = [P[i] EXCEPT !.pos = ps[j]]
    BY <1>1 DEF Reposition
  <1> QED BY <1>1, <1>3, <1>4 DEF Site

(* std::vector::erase. *)
LEMMA EraseAtFacts ==
  ASSUME NEW S, NEW ms \in Seq(S), NEW m \in 1..Len(ms)
  PROVE  /\ EraseAt(ms, m) \in Seq(S)
         /\ Len(EraseAt(ms, m)) = Len(ms) - 1
         /\ \A j \in 1..(Len(ms) - 1) :
              EraseAt(ms, m)[j] = IF j < m THEN ms[j] ELSE ms[j + 1]
  <1>1. Len(ms) - 1 \in Nat
    OBVIOUS
  <1>2. EraseAt(ms, m) \in [1..(Len(ms) - 1) -> S]
    BY DEF EraseAt
  <1>3. EraseAt(ms, m) \in Seq(S) /\ Len(EraseAt(ms, m)) = Len(ms) - 1
    BY <1>1, <1>2, SeqOfFunction
  <1> QED BY <1>3 DEF EraseAt

(* A placed molecule has one site for each site of its template. *)
LEMMA PlaceFacts ==
  ASSUME NEW sp \in Species, NEW ref \in Int, NEW o \in Orientations(sp)
  PROVE  /\ NumSites(sp) \in Nat \ {0}
         /\ Place(sp, ref, o) \in Seq(Site)
         /\ Len(Place(sp, ref, o)) = NumSites(sp)
  <1>1. Template[sp] \in Seq(TemplateSite) /\ Template[sp] # << >>
    BY SpeciesAssumption
  <1>2. NumSites(sp) \in Nat \ {0}
    BY <1>1 DEF NumSites
  <1>3. \A k \in 1..NumSites(sp) : Template[sp][k] \in TemplateSite
    BY <1>1 DEF NumSites
  <1>4. \A k \in 1..NumSites(sp) :
          [pos |-> ref + LocalOffset(sp, k, o), kind |-> Template[sp][k].kind] \in Site
    BY <1>3 DEF LocalOffset, TemplateSite, Site
  <1>5. Place(sp, ref, o) \in [1..NumSites(sp) -> Site]
    BY <1>4 DEF Place
  <1> QED BY <1>2, <1>5, SeqOfFunction

(* The cleared locals are a well-typed trial whatever the molecules are. *)
LEMMA NoTrialFacts ==
  /\ NoTrial.move = "none" /\ NoTrial.sites = << >>
  /\ \A n \in Nat : NoTrial \in [move : Moves, mol : 0..n, species : Species,
                                sites : Seq(Nat), original : Seq(Int)]
  <1>1. (CHOOSE sp \in Species : TRUE) \in Species
    BY SpeciesAssumption
  <1> QED BY <1>1 DEF NoTrial, Moves

-----------------------------------------------------------------------------
(* The conjuncts of IInv, one lemma for each. *)

(* What Types says of the parts of the state. *)
LEMMA TypeFacts ==
  ASSUME Types
  PROVE  /\ FrameworkCount \in Nat
         /\ Len(particles) \in Nat /\ Len(molecules) \in Nat
         /\ DOMAIN molecules = 1..Len(molecules)
         /\ \A i \in 1..Len(particles) :
              particles[i] \in Site /\ particles[i].pos \in Int
         /\ \A m \in 1..Len(molecules) :
              /\ molecules[m] \in Molecule
              /\ molecules[m].species \in Species
              /\ molecules[m].sites \in Seq(Nat)
              /\ Len(molecules[m].sites) \in Nat
  <1>1. FrameworkCount \in Nat
    BY CellAssumption DEF FrameworkCount
  <1>2. /\ Len(particles) \in Nat /\ Len(molecules) \in Nat
        /\ DOMAIN molecules = 1..Len(molecules)
    BY DEF Types
  <1>3. \A i \in 1..Len(particles) : particles[i] \in Site
    BY DEF Types
  <1>4. \A i \in 1..Len(particles) : particles[i].pos \in Int
    BY <1>3 DEF Site
  <1>5. \A m \in 1..Len(molecules) : molecules[m] \in Molecule
    BY DEF Types
  <1>6. \A m \in 1..Len(molecules) :
          molecules[m].species \in Species /\ molecules[m].sites \in Seq(Nat)
    BY <1>5 DEF Molecule
  <1>7. \A m \in 1..Len(molecules) : Len(molecules[m].sites) \in Nat
    BY <1>6, LenProperties
  <1> QED BY <1>1, <1>2, <1>3, <1>4, <1>5, <1>6, <1>7

(* The sites of a molecule are guests in the pool. *)
LEMMA MemberFacts ==
  ASSUME Types, GuestsOwnedOnce
  PROVE  \A m \in 1..Len(molecules) : \A k \in 1..Len(molecules[m].sites) :
           /\ molecules[m].sites[k] \in (FrameworkCount + 1)..Len(particles)
           /\ molecules[m].sites[k] \in 1..Len(particles)
           /\ particles[molecules[m].sites[k]].pos \in Int
  <1> SUFFICES ASSUME NEW m \in 1..Len(molecules), NEW k \in 1..Len(molecules[m].sites)
               PROVE  /\ molecules[m].sites[k] \in (FrameworkCount + 1)..Len(particles)
                      /\ molecules[m].sites[k] \in 1..Len(particles)
                      /\ particles[molecules[m].sites[k]].pos \in Int
    OBVIOUS
  <1>1. m \in 0..Len(molecules) /\ m # 0
    BY TypeFacts
  <1>2. IndexList(m) = molecules[m].sites
    BY <1>1 DEF IndexList
  <1>3. molecules[m].sites[k] \in (FrameworkCount + 1)..Len(particles)
    BY <1>1, <1>2 DEF GuestsOwnedOnce, GuestIndices
  <1> QED BY <1>3, TypeFacts

(* Both in-place moves write one position per site of one molecule.        *)
LEMMA DisplacementFacts ==
  ASSUME Types, GuestsOwnedOnce, StartTranslation \/ StartRotation
  PROVE  \E m \in 1..Len(molecules), moved \in Seq(Int), original \in Seq(Int) :
           /\ StartDisplacement(m, moved)
           /\ Len(moved) = Len(molecules[m].sites)
           /\ Len(original) = Len(molecules[m].sites)
           /\ trial' = [move |-> "displace", mol |-> m, species |-> molecules[m].species,
                        sites |-> molecules[m].sites, original |-> original]
           /\ \A k \in 1..Len(original) : original[k] = particles[molecules[m].sites[k]].pos
           /\ \/ \E d \in Shifts : \A k \in 1..Len(moved) : moved[k] = original[k] + d
              \/ \E c \in Positions :
                   /\ IsCentroid(c, BodyOf(particles, molecules[m].sites))
                   /\ \A k \in 1..Len(moved) : moved[k] = 2 * c - original[k]
  <1> DEFINE original(m) == [k \in 1..Len(molecules[m].sites) |->
                               particles[molecules[m].sites[k]].pos]
             shifted(m, d) == [k \in 1..Len(molecules[m].sites) |->
                                 particles[molecules[m].sites[k]].pos + d]
             reflected(m, c) == [k \in 1..Len(molecules[m].sites) |->
                                   2 * c - particles[molecules[m].sites[k]].pos]
  <1>1. Shifts \subseteq Int /\ Positions \subseteq Int
    BY CellAssumption
  <1>2. ASSUME NEW m \in 1..Len(molecules)
        PROVE  /\ original(m) \in Seq(Int) /\ Len(original(m)) = Len(molecules[m].sites)
               /\ \A k \in 1..Len(molecules[m].sites) :
                    original(m)[k] = particles[molecules[m].sites[k]].pos
    <2>1. original(m) \in [1..Len(molecules[m].sites) -> Int]
      BY MemberFacts
    <2> Len(molecules[m].sites) \in Nat
      BY TypeFacts
    <2>2. original(m) \in Seq(Int) /\ Len(original(m)) = Len(molecules[m].sites)
      BY <2>1, SeqOfFunction
    <2> QED BY <2>2
  <1>3. ASSUME NEW m \in 1..Len(molecules), NEW d \in Int
        PROVE  /\ shifted(m, d) \in Seq(Int) /\ Len(shifted(m, d)) = Len(molecules[m].sites)
               /\ \A k \in 1..Len(molecules[m].sites) :
                    shifted(m, d)[k] = original(m)[k] + d
    <2>1. shifted(m, d) \in [1..Len(molecules[m].sites) -> Int]
      BY MemberFacts
    <2>2. shifted(m, d) \in Seq(Int) /\ Len(shifted(m, d)) = Len(molecules[m].sites)
      BY <2>1, TypeFacts, SeqOfFunction, SMTT(30)
    <2> QED BY <2>2, <1>2
  <1>4. ASSUME NEW m \in 1..Len(molecules), NEW c \in Int
        PROVE  /\ reflected(m, c) \in Seq(Int) /\ Len(reflected(m, c)) = Len(molecules[m].sites)
               /\ \A k \in 1..Len(molecules[m].sites) :
                    reflected(m, c)[k] = 2 * c - original(m)[k]
    <2>1. reflected(m, c) \in [1..Len(molecules[m].sites) -> Int]
      BY MemberFacts
    <2>2. reflected(m, c) \in Seq(Int) /\ Len(reflected(m, c)) = Len(molecules[m].sites)
      BY <2>1, TypeFacts, SeqOfFunction
    <2> QED BY <2>2, <1>2
  <1>5. ASSUME NEW m \in 1..Len(molecules), NEW moved, StartDisplacement(m, moved)
        PROVE  trial' = [move |-> "displace", mol |-> m, species |-> molecules[m].species,
                         sites |-> molecules[m].sites, original |-> original(m)]
    BY <1>5 DEF StartDisplacement
  <1>6. CASE StartTranslation
    <2>1. PICK m \in 1..Len(molecules), d \in Shifts : StartDisplacement(m, shifted(m, d))
      BY <1>6, TypeFacts DEF StartTranslation
    <2> HIDE DEF original, shifted
    <2>2. d \in Int
      BY <1>1
    <2> shifted(m, d) \in Seq(Int) /\ original(m) \in Seq(Int)
      BY <1>2, <1>3, <2>2
    <2> WITNESS m \in 1..Len(molecules), shifted(m, d) \in Seq(Int), original(m) \in Seq(Int)
    <2> QED BY <1>2, <1>3, <1>5, <2>1, <2>2
  <1>7. CASE StartRotation
    <2>1. PICK m \in 1..Len(molecules), c \in Positions :
            /\ IsCentroid(c, BodyOf(particles, molecules[m].sites))
            /\ StartDisplacement(m, reflected(m, c))
      BY <1>7, TypeFacts DEF StartRotation
    <2> HIDE DEF original, reflected
    <2>2. c \in Int
      BY <1>1
    <2> reflected(m, c) \in Seq(Int) /\ original(m) \in Seq(Int)
      BY <1>2, <1>4, <2>2
    <2> WITNESS m \in 1..Len(molecules), reflected(m, c) \in Seq(Int), original(m) \in Seq(Int)
    <2> QED BY <1>2, <1>4, <1>5, <2>1, <2>2
  <1> QED BY <1>6, <1>7

(* What the steps that append a trial molecule leave behind. *)
LEMMA AppendingFacts ==
  ASSUME Types, NEW move, NEW m, NEW sp \in Species, NEW ref \in Int,
         NEW o \in Orientations(sp), StartAppending(move, m, sp, ref, o)
  PROVE  /\ NumSites(sp) \in Nat \ {0}
         /\ Place(sp, ref, o) \in Seq(Site) /\ Len(Place(sp, ref, o)) = NumSites(sp)
         /\ particles' \in Seq(Site)
         /\ Len(particles') = Len(particles) + NumSites(sp)
         /\ \A i \in 1..Len(particles) : particles'[i] = particles[i]
         /\ \A k \in 1..NumSites(sp) :
              particles'[Len(particles) + k] = Place(sp, ref, o)[k]
         /\ trial'.sites \in Seq(Nat) /\ Len(trial'.sites) = NumSites(sp)
         /\ \A k \in 1..NumSites(sp) : trial'.sites[k] = Len(particles) + k
         /\ trial'.move = move /\ trial'.mol = m /\ trial'.species = sp
         /\ trial'.original = << >>
  <1>1. /\ NumSites(sp) \in Nat \ {0} /\ Place(sp, ref, o) \in Seq(Site)
        /\ Len(Place(sp, ref, o)) = NumSites(sp)
    BY PlaceFacts
  <1>2. particles \in Seq(Site) /\ Len(particles) \in Nat
    BY TypeFacts DEF Types
  <1>3. particles' = particles \o Place(sp, ref, o)
    BY DEF StartAppending
  <1>4. /\ particles' \in Seq(Site)
        /\ Len(particles') = Len(particles) + NumSites(sp)
        /\ \A i \in 1..Len(particles) : particles'[i] = particles[i]
        /\ \A k \in 1..NumSites(sp) : particles'[Len(particles) + k] = Place(sp, ref, o)[k]
    BY <1>1, <1>2, <1>3, ConcatProperties
  <1>5. trial' = [move |-> move, mol |-> m, species |-> sp,
                  sites |-> AppendedSites(NumSites(sp)), original |-> << >>]
    BY DEF StartAppending
  <1>6. AppendedSites(NumSites(sp)) \in [1..NumSites(sp) -> Nat]
    BY <1>1, <1>2 DEF AppendedSites
  <1>7. /\ AppendedSites(NumSites(sp)) \in Seq(Nat)
        /\ Len(AppendedSites(NumSites(sp))) = NumSites(sp)
    BY <1>1, <1>6, SeqOfFunction
  <1>8. \A k \in 1..NumSites(sp) : AppendedSites(NumSites(sp))[k] = Len(particles) + k
    BY DEF AppendedSites
  <1>9. /\ trial'.sites = AppendedSites(NumSites(sp))
        /\ trial'.move = move /\ trial'.mol = m /\ trial'.species = sp
        /\ trial'.original = << >>
    BY <1>5
  <1>10. /\ trial'.sites \in Seq(Nat) /\ Len(trial'.sites) = NumSites(sp)
         /\ \A k \in 1..NumSites(sp) : trial'.sites[k] = Len(particles) + k
    BY <1>7, <1>8, <1>9
  <1> QED BY <1>1, <1>4, <1>9, <1>10

(* The positions are integers, so every candidate reference point is one. *)
LEMMA ReferenceFacts ==
  /\ Positions \subseteq Int
  /\ 0..(L - 1) \subseteq Int
  /\ Shifts \subseteq Int
  BY CellAssumption

(* One iteration of removeParticleIndices: the last particle takes the slot *)
(* of the doomed one, and its index is renamed in every list.               *)
Renamed(i) == IF i = Len(particles) THEN doomed[1] ELSE i
LEMMA RemovalFacts ==
  ASSUME Types, GuestsOwnedOnce, RemoveNext
  PROVE  /\ doomed[1] \in (FrameworkCount + 1)..Len(particles)
         /\ Len(doomed) \in Nat \ {0}
         /\ particles' \in Seq(Site)
         /\ Len(particles') = Len(particles) - 1
         /\ \A i \in 1..(Len(particles) - 1) :
              particles'[i] = IF i = doomed[1] THEN particles[Len(particles)] ELSE particles[i]
         /\ doomed' \in Seq(Nat) /\ Len(doomed') = Len(doomed) - 1
         /\ \A k \in 1..(Len(doomed) - 1) : doomed'[k] = Renamed(doomed[k + 1])
         /\ molecules' \in Seq(Molecule) /\ Len(molecules') = Len(molecules)
         /\ \A m \in 1..Len(molecules) :
              /\ molecules'[m].species = molecules[m].species
              /\ molecules'[m].sites \in Seq(Nat)
              /\ Len(molecules'[m].sites) = Len(molecules[m].sites)
              /\ \A k \in 1..Len(molecules[m].sites) :
                   molecules'[m].sites[k] = Renamed(molecules[m].sites[k])
  <1> DEFINE site == doomed[1]
             last == Len(particles)
             swapped == [particles EXCEPT ![site] = particles[last]]
             sitesOf(m) == [k \in 1..Len(molecules[m].sites) |-> Renamed(molecules[m].sites[k])]
  <1>1. /\ particles \in Seq(Site) /\ doomed \in Seq(Nat) /\ Len(doomed) \in Nat \ {0}
        /\ phase = "removing"
    BY EmptySeq DEF Types, RemoveNext
  <1>2. site \in (FrameworkCount + 1)..last
    <2>1. IndexList(0) = doomed /\ 0 \in 0..Len(molecules)
      BY <1>1, TypeFacts DEF IndexList, Unlisted
    <2> QED BY <1>1, <2>1 DEF GuestsOwnedOnce, GuestIndices
  <1>3. site \in 1..last /\ last \in Nat \ {0} /\ last \in 1..last /\ particles[last] \in Site
    BY <1>2, TypeFacts
  <1>4. /\ swapped \in Seq(Site) /\ Len(swapped) = last
        /\ \A j \in 1..last : swapped[j] = IF j = site THEN particles[last] ELSE particles[j]
    BY <1>1, <1>3, ExceptSeq
  <1>5. particles' = PopBack(swapped, 1)
    BY DEF RemoveNext
  <1>6. /\ particles' \in Seq(Site) /\ Len(particles') = last - 1
        /\ \A i \in 1..(last - 1) :
             particles'[i] = IF i = site THEN particles[last] ELSE particles[i]
    <2> HIDE DEF swapped, site, last
    <2>1. 1 \in 0..Len(swapped)
      BY <1>3, <1>4
    <2>2. /\ PopBack(swapped, 1) \in Seq(Site)
          /\ Len(PopBack(swapped, 1)) = Len(swapped) - 1
          /\ \A i \in 1..(Len(swapped) - 1) : PopBack(swapped, 1)[i] = swapped[i]
      BY <1>4, <2>1, PopBackFacts
    <2>3. \A i \in 1..(last - 1) : i \in 1..last
      BY <1>3
    <2> QED BY <1>4, <1>5, <2>2, <2>3
  <1>7. ASSUME NEW i \in Nat PROVE Renamed(i) \in Nat
    BY <1>7, <1>2, <1>3, TypeFacts DEF Renamed
  <1>8. /\ doomed' \in Seq(Nat) /\ Len(doomed') = Len(doomed) - 1
        /\ \A k \in 1..(Len(doomed) - 1) : doomed'[k] = Renamed(doomed[k + 1])
    <2>1. doomed' = [k \in 1..(Len(doomed) - 1) |-> Renamed(doomed[k + 1])]
      BY DEF RemoveNext, Renamed
    <2>2. \A k \in 1..(Len(doomed) - 1) : doomed[k + 1] \in Nat
      BY <1>1
    <2>3. \A k \in 1..(Len(doomed) - 1) : Renamed(doomed[k + 1]) \in Nat
      BY <1>7, <2>2
    <2>4. doomed' \in [1..(Len(doomed) - 1) -> Nat]
      BY <2>1, <2>3
    <2>5. Len(doomed) - 1 \in Nat
      BY <1>1
    <2> QED BY <2>1, <2>4, <2>5, SeqOfFunction
  <1>9. molecules' = [m \in 1..Len(molecules) |->
                        [species |-> molecules[m].species, sites |-> sitesOf(m)]]
    BY DEF RemoveNext, Renamed
  <1>10. \A m \in 1..Len(molecules) :
           sitesOf(m) \in Seq(Nat) /\ Len(sitesOf(m)) = Len(molecules[m].sites)
    <2> SUFFICES ASSUME NEW m \in 1..Len(molecules)
                 PROVE  sitesOf(m) \in Seq(Nat) /\ Len(sitesOf(m)) = Len(molecules[m].sites)
      OBVIOUS
    <2>1. \A k \in 1..Len(molecules[m].sites) : molecules[m].sites[k] \in Nat
      BY TypeFacts
    <2>2. sitesOf(m) \in [1..Len(molecules[m].sites) -> Nat]
      BY <1>7, <2>1
    <2> QED BY <2>2, TypeFacts, SeqOfFunction, SMTT(30)
  <1>11. \A m \in 1..Len(molecules) :
           [species |-> molecules[m].species, sites |-> sitesOf(m)] \in Molecule
    BY <1>10, TypeFacts DEF Molecule
  <1>12. molecules' \in [1..Len(molecules) -> Molecule] /\ Len(molecules) \in Nat
    BY <1>9, <1>11, TypeFacts
  <1>13. molecules' \in Seq(Molecule) /\ Len(molecules') = Len(molecules)
    BY <1>12, SeqOfFunction
  <1>14. \A m \in 1..Len(molecules) :
           /\ molecules'[m].species = molecules[m].species
           /\ molecules'[m].sites = sitesOf(m)
    BY <1>9
  <1>15. \A m \in 1..Len(molecules) : \A k \in 1..Len(molecules[m].sites) :
           sitesOf(m)[k] = Renamed(molecules[m].sites[k])
    OBVIOUS
  <1>16. \A m \in 1..Len(molecules) :
           /\ molecules'[m].species = molecules[m].species
           /\ molecules'[m].sites \in Seq(Nat)
           /\ Len(molecules'[m].sites) = Len(molecules[m].sites)
           /\ \A k \in 1..Len(molecules[m].sites) :
                molecules'[m].sites[k] = Renamed(molecules[m].sites[k])
    <2> HIDE DEF sitesOf
    <2> QED BY <1>10, <1>14, <1>15
  <1> QED BY <1>1, <1>2, <1>6, <1>8, <1>13, <1>16

(* Types is preserved. *)
LEMMA TypesStep ==
  ASSUME IInv, Next
  PROVE  Types'
  <1> DEFINE Trials(n) == [move : Moves, mol : 0..n, species : Species,
                           sites : Seq(Nat), original : Seq(Int)]
  <1>1. /\ Types /\ GuestsOwnedOnce
        /\ AttemptShape /\ AppendedLast
    BY DEF IInv
  <1>2. /\ particles \in Seq(Site) /\ molecules \in Seq(Molecule)
        /\ cells \in [DOMAIN cells -> 0..(NumBins - 1)]
        /\ phase \in Phases /\ doomed \in Seq(Nat) /\ trial \in Trials(Len(molecules))
    BY <1>1 DEF Types
  <1>3. /\ Len(particles) \in Nat /\ Len(molecules) \in Nat
        /\ DOMAIN molecules = 1..Len(molecules)
    BY <1>1, TypeFacts
  <1>4. \A n \in Nat : NoTrial \in Trials(n)
    BY NoTrialFacts
  <1>5. {"idle", "trial", "removing", "settling"} = Phases
    BY DEF Phases
  <1>6. CASE StartTranslation \/ StartRotation
    <2>1. PICK m \in 1..Len(molecules), moved \in Seq(Int), original \in Seq(Int) :
            /\ StartDisplacement(m, moved)
            /\ Len(moved) = Len(molecules[m].sites)
            /\ trial' = [move |-> "displace", mol |-> m, species |-> molecules[m].species,
                         sites |-> molecules[m].sites, original |-> original]
      BY <1>1, <1>6, DisplacementFacts
    <2>2. molecules[m].species \in Species /\ molecules[m].sites \in Seq(Nat)
      BY <1>1, TypeFacts
    <2>3. trial' \in Trials(Len(molecules))
      BY <1>3, <2>1, <2>2 DEF Moves
    <2>4. particles' \in Seq(Site)
      BY <1>2, <2>1, <2>2, RepositionFacts DEF StartDisplacement
    <2>5. UNCHANGED <<molecules, cells, doomed>> /\ phase' \in Phases
      BY <1>5, <2>1 DEF StartDisplacement
    <2> QED BY <1>2, <2>3, <2>4, <2>5 DEF Types
  <1>7. ASSUME NEW move \in Moves, NEW m \in 0..Len(molecules), NEW sp \in Species,
               NEW ref \in Int, NEW o \in Orientations(sp), StartAppending(move, m, sp, ref, o)
        PROVE  Types'
    <2>1. particles' \in Seq(Site)
      BY <1>1, <1>7, AppendingFacts
    <2>2. trial' \in Trials(Len(molecules))
      <3>1. AppendedSites(NumSites(sp)) \in Seq(Nat)
        <4>1. trial'.sites \in Seq(Nat)
          BY <1>1, <1>7, AppendingFacts
        <4> QED BY <1>7, <4>1 DEF StartAppending
      <3>2. << >> \in Seq(Int)
        OBVIOUS
      <3> QED BY <1>7, <3>1, <3>2 DEF StartAppending
    <2>3. UNCHANGED <<molecules, cells, doomed>> /\ phase' \in Phases
      BY <1>5, <1>7 DEF StartAppending
    <2> QED BY <1>2, <2>1, <2>2, <2>3 DEF Types
  <1>8. CASE StartInsertion
    <2>1. PICK sp \in Species, ref \in 0..(L - 1) : \E o \in Orientations(sp) :
            StartAppending("insert", 0, sp, ref, o)
      BY <1>8 DEF StartInsertion
    <2> QED BY <1>3, <1>7, <2>1, ReferenceFacts DEF Moves
  <1>9. CASE StartSwap
    <2>1. PICK m \in DOMAIN molecules, c \in Positions :
            \E sp \in Species \ {molecules[m].species} : \E o \in Orientations(sp) :
              StartAppending("swap", m, sp, c, o)
      BY <1>9 DEF StartSwap
    <2> QED BY <1>3, <1>7, <2>1, ReferenceFacts DEF Moves
  <1>10. CASE StartDeletion
    <2>1. PICK m \in 1..Len(molecules) :
            trial' = [move |-> "delete", mol |-> m, species |-> molecules[m].species,
                      sites |-> molecules[m].sites, original |-> << >>]
      BY <1>3, <1>10 DEF StartDeletion
    <2>2. molecules[m].species \in Species /\ molecules[m].sites \in Seq(Nat)
      BY <1>1, TypeFacts
    <2>3. << >> \in Seq(Int)
      OBVIOUS
    <2>4. trial' \in Trials(Len(molecules))
      BY <1>3, <2>1, <2>2, <2>3 DEF Moves
    <2>5. UNCHANGED <<particles, molecules, cells, doomed>> /\ phase' \in Phases
      BY <1>5, <1>10 DEF StartDeletion
    <2> QED BY <1>2, <2>4, <2>5 DEF Types
  <1>11. CASE AcceptDisplacement \/ RejectDeletion
    <2>1. /\ UNCHANGED <<particles, molecules, cells, doomed>>
          /\ trial' = NoTrial /\ phase' \in Phases
      BY <1>5, <1>11 DEF AcceptDisplacement, RejectDeletion
    <2> QED BY <1>2, <1>3, <1>4, <2>1 DEF Types
  <1>12. CASE RejectDisplacement
    <2>1. /\ UNCHANGED <<molecules, cells, doomed>>
          /\ trial' = NoTrial /\ phase' \in Phases
          /\ particles' = Reposition(particles, trial.sites, trial.original)
          /\ trial.move = "displace"
      BY <1>5, <1>12 DEF RejectDisplacement
    <2>2. particles' \in Seq(Site)
      BY <1>1, <1>2, <2>1, RepositionFacts DEF AttemptShape
    <2> QED BY <1>2, <1>3, <1>4, <2>1, <2>2 DEF Types
  <1>13. CASE AcceptInsertion
    <2>1. /\ UNCHANGED <<particles, cells, doomed>>
          /\ trial' = NoTrial /\ phase' \in Phases
          /\ molecules' = Append(molecules, [species |-> trial.species, sites |-> trial.sites])
      BY <1>5, <1>13 DEF AcceptInsertion
    <2>2. [species |-> trial.species, sites |-> trial.sites] \in Molecule
      BY <1>2 DEF Molecule
    <2>3. molecules' \in Seq(Molecule) /\ Len(molecules') \in Nat
      BY <1>2, <2>1, <2>2
    <2> QED BY <1>2, <1>4, <2>1, <2>3 DEF Types
  <1>14. CASE RejectAppended
    <2>1. /\ UNCHANGED <<molecules, cells, doomed>>
          /\ trial' = NoTrial /\ phase' \in Phases
          /\ particles' = PopBack(particles, NumSites(trial.species))
          /\ Appended = NumSites(trial.species)
      BY <1>5, <1>14 DEF RejectAppended, Appended
    <2>2. NumSites(trial.species) \in Nat
      <3>1. Template[trial.species] \in Seq(TemplateSite)
        BY <1>2, SpeciesAssumption
      <3> QED BY <3>1 DEF NumSites
    <2>3. NumSites(trial.species) \in 0..Len(particles)
      BY <1>1, <1>3, <2>1, <2>2, TypeFacts DEF AppendedLast
    <2>4. particles' \in Seq(Site)
      BY <1>2, <2>1, <2>3, PopBackFacts
    <2> QED BY <1>2, <1>3, <1>4, <2>1, <2>4 DEF Types
  <1>15. CASE AcceptDeletion
    <2>1. /\ UNCHANGED <<particles, cells>>
          /\ trial' = NoTrial /\ phase' \in Phases
          /\ molecules' = EraseAt(molecules, trial.mol)
          /\ doomed' = molecules[trial.mol].sites
          /\ trial.move = "delete"
      BY <1>5, <1>15 DEF AcceptDeletion
    <2>2. trial.mol \in 1..Len(molecules)
      BY <1>1, <2>1 DEF AttemptShape
    <2>3. doomed' \in Seq(Nat)
      BY <1>1, <2>1, <2>2, TypeFacts
    <2>4. molecules' \in Seq(Molecule) /\ Len(molecules') \in Nat
      BY <1>2, <2>1, <2>2, EraseAtFacts
    <2> QED BY <1>2, <1>4, <2>1, <2>3, <2>4 DEF Types
  <1>16. CASE AcceptSwap
    <2>1. /\ UNCHANGED <<particles, cells>>
          /\ trial' = NoTrial /\ phase' \in Phases
          /\ molecules' = [molecules EXCEPT ![trial.mol] =
                             [species |-> trial.species, sites |-> trial.sites]]
          /\ doomed' = molecules[trial.mol].sites
          /\ trial.move = "swap"
      BY <1>5, <1>16 DEF AcceptSwap
    <2>2. trial.mol \in 1..Len(molecules)
      BY <1>1, <2>1 DEF AttemptShape
    <2>3. doomed' \in Seq(Nat)
      BY <1>1, <2>1, <2>2, TypeFacts
    <2>4. [species |-> trial.species, sites |-> trial.sites] \in Molecule
      BY <1>2 DEF Molecule
    <2>5. molecules' \in Seq(Molecule) /\ Len(molecules') \in Nat
      BY <1>2, <1>3, <2>1, <2>2, <2>4, ExceptSeq
    <2> QED BY <1>2, <1>4, <2>1, <2>3, <2>5 DEF Types
  <1>17. CASE RemoveNext
    <2>1. /\ particles' \in Seq(Site) /\ doomed' \in Seq(Nat)
          /\ molecules' \in Seq(Molecule) /\ Len(molecules') = Len(molecules)
      BY <1>1, <1>17, RemovalFacts
    <2>2. UNCHANGED <<cells, trial>> /\ phase' \in Phases
      BY <1>5, <1>17 DEF RemoveNext
    <2> QED BY <1>2, <2>1, <2>2 DEF Types
  <1>18. CASE Settle
    <2>1. /\ UNCHANGED <<particles, molecules, trial, doomed>>
          /\ cells' = BinsOf(particles) /\ phase' \in Phases
      BY <1>5, <1>18 DEF Settle
    <2> QED BY <1>2, <2>1, BinsOfFacts DEF Types
  <1> QED BY <1>6, <1>8, <1>9, <1>10, <1>11, <1>12, <1>13, <1>14, <1>15, <1>16, <1>17, <1>18
          DEF Next

(* Every species has at least one site. *)
LEMMA NumSitesFacts ==
  \A sp \in Species : NumSites(sp) \in Nat \ {0}
  BY SpeciesAssumption, EmptySeq DEF NumSites

(* AttemptShape is preserved. *)
LEMMA AttemptShapeStep ==
  ASSUME IInv, Next
  PROVE  AttemptShape'
  <1> DEFINE Whole == \A m \in 1..Len(molecules) :
                        Len(molecules[m].sites) = NumSites(molecules[m].species)
             Coupled == /\ phase = "trial" <=> trial.move # "none"
                        /\ phase # "trial" => trial = NoTrial
                        /\ phase = "removing" <=> doomed # << >>
             Local == /\ trial.move \in {"displace", "delete", "swap"} =>
                           trial.mol \in 1..Len(molecules)
                      /\ trial.move \in {"displace", "delete"} =>
                           /\ trial.sites = molecules[trial.mol].sites
                           /\ trial.species = molecules[trial.mol].species
                      /\ trial.move = "displace" => Len(trial.original) = Len(trial.sites)
                      /\ trial.move = "insert" => trial.mol = 0
  <1>1. /\ Types /\ GuestsOwnedOnce
        /\ AttemptShape /\ AppendedLast
    BY DEF IInv
  <1>2. Whole /\ Coupled /\ Local
    BY <1>1 DEF AttemptShape
  <1>3. Whole' /\ Coupled' /\ Local' => AttemptShape'
    BY DEF AttemptShape
  <1>4. /\ Len(molecules) \in Nat /\ DOMAIN molecules = 1..Len(molecules)
        /\ molecules \in Seq(Molecule)
    BY <1>1, TypeFacts DEF Types
  <1>5. /\ NoTrial.move = "none"
        /\ trial' = NoTrial => Local'
    BY NoTrialFacts
  <1>6. CASE StartTranslation \/ StartRotation
    <2>1. PICK m \in 1..Len(molecules), moved \in Seq(Int), original \in Seq(Int) :
            /\ StartDisplacement(m, moved)
            /\ Len(original) = Len(molecules[m].sites)
            /\ trial' = [move |-> "displace", mol |-> m, species |-> molecules[m].species,
                         sites |-> molecules[m].sites, original |-> original]
      BY <1>1, <1>6, DisplacementFacts
    <2>2. UNCHANGED <<molecules, doomed>> /\ phase = "idle" /\ phase' = "trial"
      BY <2>1 DEF StartDisplacement
    <2> QED BY <1>2, <1>3, <2>1, <2>2
  <1>7. ASSUME NEW move \in {"insert", "swap"}, NEW m \in 0..Len(molecules),
               move = "insert" => m = 0, move = "swap" => m # 0,
               NEW sp, NEW ref, NEW o, StartAppending(move, m, sp, ref, o)
        PROVE  AttemptShape'
    <2>1. /\ UNCHANGED <<molecules, doomed>> /\ phase = "idle" /\ phase' = "trial"
          /\ trial'.move = move /\ trial'.mol = m
      BY <1>7 DEF StartAppending
    <2> QED BY <1>2, <1>3, <1>4, <1>7, <2>1
  <1>8. CASE StartInsertion
    <2>1. PICK sp \in Species, ref \in 0..(L - 1) : \E o \in Orientations(sp) :
            StartAppending("insert", 0, sp, ref, o)
      BY <1>8 DEF StartInsertion
    <2> QED BY <1>4, <1>7, <2>1
  <1>9. CASE StartSwap
    <2>1. PICK m \in DOMAIN molecules, c \in Positions :
            \E sp \in Species \ {molecules[m].species} : \E o \in Orientations(sp) :
              StartAppending("swap", m, sp, c, o)
      BY <1>9 DEF StartSwap
    <2> QED BY <1>4, <1>7, <2>1
  <1>10. CASE StartDeletion
    <2>1. PICK m \in 1..Len(molecules) :
            /\ trial' = [move |-> "delete", mol |-> m, species |-> molecules[m].species,
                         sites |-> molecules[m].sites, original |-> << >>]
            /\ phase = "idle" /\ phase' = "trial" /\ UNCHANGED <<molecules, doomed>>
      BY <1>4, <1>10 DEF StartDeletion
    <2> QED BY <1>2, <1>3, <2>1
  <1>11. CASE AcceptDisplacement \/ RejectDisplacement \/ RejectAppended \/ RejectDeletion
    <2>1. /\ UNCHANGED <<molecules, doomed>> /\ trial' = NoTrial
          /\ phase = "trial" /\ phase' \in {"settling", "idle"}
      BY <1>11 DEF AcceptDisplacement, RejectDisplacement, RejectAppended, RejectDeletion
    <2> QED BY <1>2, <1>3, <1>5, <2>1
  <1>12. CASE AcceptInsertion
    <2>1. /\ UNCHANGED doomed /\ trial' = NoTrial
          /\ phase = "trial" /\ phase' = "settling" /\ trial.move = "insert"
          /\ molecules' = Append(molecules, [species |-> trial.species, sites |-> trial.sites])
      BY <1>12 DEF AcceptInsertion
    <2>2. Len(trial.sites) = NumSites(trial.species)
      <3>1. trial.sites = [k \in 1..NumSites(trial.species) |->
                             Len(particles) - NumSites(trial.species) + k]
        BY <1>1, <2>1 DEF AppendedLast, Appended
      <3>2. trial.species \in Species /\ trial.sites \in Seq(Nat)
        BY <1>1 DEF Types
      <3>3. NumSites(trial.species) \in Nat
        BY <3>2, NumSitesFacts
      <3> QED BY <3>1, <3>2, <3>3, LenProperties
    <2>3. Whole'
      BY <1>2, <1>4, <2>1, <2>2
    <2> QED BY <1>2, <1>3, <1>5, <2>1, <2>3
  <1>13. CASE AcceptDeletion
    <2>1. /\ trial' = NoTrial
          /\ phase = "trial" /\ phase' = "removing" /\ trial.move = "delete"
          /\ molecules' = EraseAt(molecules, trial.mol)
          /\ doomed' = molecules[trial.mol].sites
      BY <1>13 DEF AcceptDeletion
    <2>2. trial.mol \in 1..Len(molecules)
      BY <1>2, <2>1
    <2>3. doomed' # << >>
      BY <1>1, <1>2, <2>1, <2>2, TypeFacts, NumSitesFacts, EmptySeq
    <2>4. Whole'
      <3>1. /\ Len(molecules') = Len(molecules) - 1
            /\ \A j \in 1..(Len(molecules) - 1) :
                 molecules'[j] = IF j < trial.mol THEN molecules[j] ELSE molecules[j + 1]
        BY <1>4, <2>1, <2>2, EraseAtFacts
      <3> SUFFICES ASSUME NEW j \in 1..Len(molecules')
                   PROVE  Len(molecules'[j].sites) = NumSites(molecules'[j].species)
        OBVIOUS
      <3>2. PICK i \in 1..Len(molecules) : molecules'[j] = molecules[i]
        BY <1>4, <2>2, <3>1
      <3> QED BY <1>2, <3>2
    <2> QED BY <1>2, <1>3, <1>5, <2>1, <2>3, <2>4
  <1>14. CASE AcceptSwap
    <2>1. /\ trial' = NoTrial
          /\ phase = "trial" /\ phase' = "removing" /\ trial.move = "swap"
          /\ molecules' = [molecules EXCEPT ![trial.mol] =
                             [species |-> trial.species, sites |-> trial.sites]]
          /\ doomed' = molecules[trial.mol].sites
      BY <1>14 DEF AcceptSwap
    <2>2. trial.mol \in 1..Len(molecules)
      BY <1>2, <2>1
    <2>3. doomed' # << >>
      BY <1>1, <1>2, <2>1, <2>2, TypeFacts, NumSitesFacts, EmptySeq
    <2>4. Len(trial.sites) = NumSites(trial.species)
      <3>1. trial.sites = [k \in 1..NumSites(trial.species) |->
                             Len(particles) - NumSites(trial.species) + k]
        BY <1>1, <2>1 DEF AppendedLast, Appended
      <3>2. trial.species \in Species /\ trial.sites \in Seq(Nat)
        BY <1>1 DEF Types
      <3>3. NumSites(trial.species) \in Nat
        BY <3>2, NumSitesFacts
      <3> QED BY <3>1, <3>2, <3>3, LenProperties
    <2>5. Whole'
      BY <1>2, <1>4, <2>1, <2>2, <2>4
    <2> QED BY <1>2, <1>3, <1>5, <2>1, <2>3, <2>5
  <1>15. CASE RemoveNext
    <2>1. /\ Len(molecules') = Len(molecules)
          /\ \A m \in 1..Len(molecules) :
               /\ molecules'[m].species = molecules[m].species
               /\ Len(molecules'[m].sites) = Len(molecules[m].sites)
          /\ doomed' \in Seq(Nat) /\ Len(doomed') = Len(doomed) - 1
          /\ Len(doomed) \in Nat \ {0}
      BY <1>1, <1>15, RemovalFacts
    <2>2. /\ phase = "removing" /\ UNCHANGED trial
          /\ phase' = IF Len(doomed) = 1 THEN "settling" ELSE "removing"
      BY <1>15 DEF RemoveNext
    <2>3. Whole'
      BY <1>2, <2>1
    <2>4. phase' = "removing" <=> doomed' # << >>
      <3>1. doomed' = << >> <=> Len(doomed') = 0
        BY <2>1, EmptySeq
      <3> QED BY <2>1, <2>2, <3>1
    <2>5. trial = NoTrial
      BY <1>2, <2>2
    <2> QED BY <1>2, <1>3, <1>5, <2>2, <2>3, <2>4, <2>5
  <1>16. CASE Settle
    <2>1. /\ UNCHANGED <<molecules, trial, doomed>>
          /\ phase = "settling" /\ phase' = "idle"
      BY <1>16 DEF Settle
    <2> QED BY <1>2, <1>3, <2>1
  <1> QED BY <1>6, <1>8, <1>9, <1>10, <1>11, <1>12, <1>13, <1>14, <1>15, <1>16 DEF Next

(* AppendedLast is preserved: the pool never shrinks into the framework,    *)
(* and a trial's new sites are the ones popBack would remove.               *)
LEMMA AppendedLastStep ==
  ASSUME IInv, Next
  PROVE  AppendedLast'
  <1>1. /\ Types /\ GuestsOwnedOnce
        /\ AttemptShape /\ AppendedLast
    BY DEF IInv
  <1>2. /\ Len(particles) \in Nat /\ FrameworkCount \in Nat
        /\ FrameworkCount + Appended <= Len(particles)
    BY <1>1, TypeFacts DEF AppendedLast
  <1>3. Appended \in Nat
    BY <1>1, NumSitesFacts DEF Appended, Types
  <1>4. FrameworkCount' = FrameworkCount
    BY DEF FrameworkCount
  <1>5. ASSUME trial'.move \in {"none", "displace", "delete"},
               FrameworkCount <= Len(particles')
        PROVE  AppendedLast'
    <2>1. Appended' = 0
      BY <1>5 DEF Appended
    <2> QED BY <1>2, <1>4, <1>5, <2>1 DEF AppendedLast
  <1>6. NoTrial.move = "none"
    BY NoTrialFacts
  <1>7. CASE StartTranslation \/ StartRotation
    <2>1. PICK m \in 1..Len(molecules), moved \in Seq(Int), original \in Seq(Int) :
            /\ StartDisplacement(m, moved)
            /\ Len(moved) = Len(molecules[m].sites)
            /\ trial' = [move |-> "displace", mol |-> m, species |-> molecules[m].species,
                         sites |-> molecules[m].sites, original |-> original]
      BY <1>1, <1>7, DisplacementFacts
    <2>2. particles \in Seq(Site) /\ molecules[m].sites \in Seq(Nat)
      BY <1>1, TypeFacts DEF Types
    <2>3. Len(particles') = Len(particles)
      BY <2>1, <2>2, RepositionFacts DEF StartDisplacement
    <2> QED BY <1>2, <1>3, <1>5, <2>1, <2>3
  <1>8. ASSUME NEW move \in {"insert", "swap"}, NEW m, NEW sp \in Species,
               NEW ref \in Int, NEW o \in Orientations(sp), StartAppending(move, m, sp, ref, o)
        PROVE  AppendedLast'
    <2>1. /\ NumSites(sp) \in Nat \ {0} /\ Len(particles') = Len(particles) + NumSites(sp)
          /\ trial'.move = move /\ trial'.species = sp
      BY <1>1, <1>8, AppendingFacts
    <2>2. Appended' = NumSites(sp)
      BY <1>8, <2>1 DEF Appended
    <2>3. trial'.sites = [k \in 1..NumSites(sp) |-> Len(particles) + k]
      BY <1>8 DEF StartAppending, AppendedSites
    <2>4. Len(particles) = Len(particles') - Appended'
      BY <1>2, <2>1, <2>2
    <2>5. trial'.sites = [k \in 1..Appended' |-> (Len(particles') - Appended') + k]
      BY <2>2, <2>3, <2>4
    <2> QED BY <1>2, <1>3, <1>4, <2>1, <2>2, <2>5 DEF AppendedLast
  <1>9. CASE StartInsertion
    <2>1. PICK sp \in Species, ref \in 0..(L - 1) : \E o \in Orientations(sp) :
            StartAppending("insert", 0, sp, ref, o)
      BY <1>9 DEF StartInsertion
    <2> QED BY <1>8, <2>1, ReferenceFacts
  <1>10. CASE StartSwap
    <2>1. PICK m \in DOMAIN molecules, c \in Positions :
            \E sp \in Species \ {molecules[m].species} : \E o \in Orientations(sp) :
              StartAppending("swap", m, sp, c, o)
      BY <1>10 DEF StartSwap
    <2> QED BY <1>8, <2>1, ReferenceFacts
  <1>11. CASE StartDeletion
    <2>1. trial'.move = "delete" /\ UNCHANGED particles
      BY <1>11 DEF StartDeletion
    <2> QED BY <1>2, <1>3, <1>5, <2>1
  <1>12. CASE AcceptDisplacement \/ AcceptInsertion \/ AcceptDeletion \/ AcceptSwap
              \/ RejectDeletion
    <2>1. trial' = NoTrial /\ UNCHANGED particles
      BY <1>12 DEF AcceptDisplacement, AcceptInsertion, AcceptDeletion, AcceptSwap, RejectDeletion
    <2> QED BY <1>2, <1>3, <1>5, <1>6, <2>1
  <1>13. CASE RejectDisplacement
    <2>1. /\ trial' = NoTrial /\ trial.move = "displace"
          /\ particles' = Reposition(particles, trial.sites, trial.original)
      BY <1>13 DEF RejectDisplacement
    <2>2. /\ particles \in Seq(Site) /\ trial.sites \in Seq(Nat) /\ trial.original \in Seq(Int)
          /\ Len(trial.original) = Len(trial.sites)
      BY <1>1, <2>1 DEF Types, AttemptShape
    <2>3. Len(particles') = Len(particles)
      BY <2>1, <2>2, RepositionFacts
    <2> QED BY <1>2, <1>3, <1>5, <1>6, <2>1, <2>3
  <1>14. CASE RejectAppended
    <2>1. trial' = NoTrial /\ particles' = PopBack(particles, Appended)
      BY <1>14 DEF RejectAppended, Appended
    <2>2. Appended \in 0..Len(particles) /\ particles \in Seq(Site)
      BY <1>1, <1>2, <1>3 DEF Types
    <2>3. Len(particles') = Len(particles) - Appended
      BY <2>1, <2>2, PopBackFacts
    <2> QED BY <1>2, <1>3, <1>5, <1>6, <2>1, <2>3
  <1>15. CASE RemoveNext
    <2>1. /\ doomed[1] \in (FrameworkCount + 1)..Len(particles)
          /\ Len(particles') = Len(particles) - 1
      BY <1>1, <1>15, RemovalFacts
    <2>2. phase # "trial" /\ UNCHANGED trial
      BY <1>15 DEF RemoveNext
    <2>3. trial'.move = "none"
      BY <1>1, <1>6, <2>2 DEF AttemptShape
    <2> QED BY <1>2, <1>5, <2>1, <2>3
  <1>16. CASE Settle
    <2>1. phase # "trial" /\ UNCHANGED <<particles, trial>>
      BY <1>16 DEF Settle
    <2>2. trial'.move = "none"
      BY <1>1, <1>6, <2>1 DEF AttemptShape
    <2> QED BY <1>2, <1>3, <1>5, <2>1, <2>2
  <1> QED BY <1>7, <1>9, <1>10, <1>11, <1>12, <1>13, <1>14, <1>15, <1>16 DEF Next

(* FrameworkFixed is preserved: no move writes to a framework slot.         *)
LEMMA FrameworkFixedStep ==
  ASSUME IInv, Next
  PROVE  FrameworkFixed'
  <1>1. /\ Types /\ GuestsOwnedOnce /\ AttemptShape /\ AppendedLast
        /\ FrameworkFixed /\ AppendedLast' /\ AttemptShape' /\ Types'
    BY AppendedLastStep, AttemptShapeStep, TypesStep DEF IInv
  <1>2. Len(particles) \in Nat /\ FrameworkCount \in Nat /\ Appended \in Nat /\ Appended' \in Nat
    BY <1>1, TypeFacts, NumSitesFacts DEF Appended, Types
  <1>3. /\ FrameworkCount' = FrameworkCount
        /\ FrameworkCount + Appended <= Len(particles)
        /\ FrameworkCount + Appended' <= Len(particles')
        /\ particles' \in Seq(Site)
    BY <1>1 DEF FrameworkCount, AppendedLast, Types
  <1>4. FrameworkCount <= Len(particles')
    BY <1>2, <1>3
  <1>5. ASSUME \A i \in 1..FrameworkCount : particles'[i] = particles[i]
        PROVE  FrameworkFixed'
    BY <1>1, <1>3, <1>4, <1>5 DEF FrameworkFixed
  <1>6. ASSUME NEW m \in 1..Len(molecules), NEW ps \in Seq(Int),
               Len(ps) = Len(molecules[m].sites),
               particles' = Reposition(particles, molecules[m].sites, ps)
        PROVE  FrameworkFixed'
    <2>1. particles \in Seq(Site) /\ molecules[m].sites \in Seq(Nat)
      BY <1>1, TypeFacts DEF Types
    <2>2. \A k \in 1..Len(molecules[m].sites) :
            molecules[m].sites[k] \in (FrameworkCount + 1)..Len(particles)
      BY <1>1, MemberFacts
    <2>3. \A i \in 1..FrameworkCount : \A k \in 1..Len(molecules[m].sites) :
            molecules[m].sites[k] # i
      BY <1>2, <2>2
    <2>4. \A i \in 1..FrameworkCount : i \in 1..Len(particles)
      BY <1>2, <1>3
    <2> QED BY <1>5, <1>6, <2>1, <2>3, <2>4, RepositionFacts, ZenonT(30)
  <1>7. CASE StartTranslation \/ StartRotation
    <2>1. PICK m \in 1..Len(molecules), moved \in Seq(Int), original \in Seq(Int) :
            StartDisplacement(m, moved) /\ Len(moved) = Len(molecules[m].sites)
      BY <1>1, <1>7, DisplacementFacts
    <2> QED BY <1>6, <2>1 DEF StartDisplacement
  <1>8. ASSUME NEW move, NEW m, NEW sp \in Species,
               NEW ref \in Int, NEW o \in Orientations(sp), StartAppending(move, m, sp, ref, o)
        PROVE  FrameworkFixed'
    <2>1. \A i \in 1..Len(particles) : particles'[i] = particles[i]
      BY <1>1, <1>8, AppendingFacts
    <2> QED BY <1>2, <1>3, <1>5, <2>1
  <1>9. CASE StartInsertion
    <2>1. PICK sp \in Species, ref \in 0..(L - 1) : \E o \in Orientations(sp) :
            StartAppending("insert", 0, sp, ref, o)
      BY <1>9 DEF StartInsertion
    <2> QED BY <1>8, <2>1, ReferenceFacts
  <1>10. CASE StartSwap
    <2>1. PICK m \in DOMAIN molecules, c \in Positions :
            \E sp \in Species \ {molecules[m].species} : \E o \in Orientations(sp) :
              StartAppending("swap", m, sp, c, o)
      BY <1>10 DEF StartSwap
    <2> QED BY <1>8, <2>1, ReferenceFacts
  <1>11. CASE UNCHANGED particles
    BY <1>5, <1>11
  <1>12. CASE RejectDisplacement
    <2>1. /\ trial.move = "displace"
          /\ particles' = Reposition(particles, trial.sites, trial.original)
      BY <1>12 DEF RejectDisplacement
    <2>2. /\ trial.mol \in 1..Len(molecules) /\ trial.sites = molecules[trial.mol].sites
          /\ trial.original \in Seq(Int) /\ Len(trial.original) = Len(trial.sites)
      BY <1>1, <2>1 DEF Types, AttemptShape
    <2> QED BY <1>6, <2>1, <2>2
  <1>13. CASE RejectAppended
    <2>1. particles' = PopBack(particles, Appended)
      BY <1>13 DEF RejectAppended, Appended
    <2>2. Appended \in 0..Len(particles) /\ particles \in Seq(Site)
      BY <1>1, <1>2, <1>3 DEF Types
    <2>3. \A i \in 1..(Len(particles) - Appended) : particles'[i] = particles[i]
      BY <2>1, <2>2, PopBackFacts
    <2> QED BY <1>2, <1>3, <1>5, <2>3
  <1>14. CASE RemoveNext
    <2>1. /\ doomed[1] \in (FrameworkCount + 1)..Len(particles)
          /\ \A i \in 1..(Len(particles) - 1) :
               particles'[i] = IF i = doomed[1] THEN particles[Len(particles)] ELSE particles[i]
      BY <1>1, <1>14, RemovalFacts
    <2> QED BY <1>2, <1>5, <2>1
  <1>15. \/ StartDeletion \/ AcceptDisplacement \/ AcceptInsertion \/ AcceptDeletion
         \/ AcceptSwap \/ RejectDeletion \/ Settle
         => UNCHANGED particles
    BY DEF StartDeletion, AcceptDisplacement, AcceptInsertion, AcceptDeletion, AcceptSwap,
           RejectDeletion, Settle
  <1> QED BY <1>7, <1>9, <1>10, <1>11, <1>12, <1>13, <1>14, <1>15 DEF Next

-----------------------------------------------------------------------------
(* GuestsOwnedOnce. *)

(* Passing the lists on under other numbers, h[m] the old number of list m, *)
(* keeps every guest owned once: AcceptInsertion makes the unlisted sites a *)
(* molecule, AcceptDeletion does the opposite, AcceptSwap exchanges two.    *)
LEMMA Relisted ==
  ASSUME GuestsOwnedOnce, GuestIndices' = GuestIndices,
         NEW h \in [0..Len(molecules') -> 0..Len(molecules)],
         \A m \in 0..Len(molecules') :
           Len(IndexList(m)') = 0 \/ IndexList(m)' = IndexList(h[m]),
         \A m1, m2 \in 0..Len(molecules') :
           Len(IndexList(m1)') # 0 /\ Len(IndexList(m2)') # 0 /\ h[m1] = h[m2] => m1 = m2,
         \A m \in 0..Len(molecules) :
           \/ Len(IndexList(m)) = 0
           \/ \E m2 \in 0..Len(molecules') : h[m2] = m /\ IndexList(m2)' = IndexList(m)
  PROVE  GuestsOwnedOnce'
  <1>1. \A m \in 0..Len(molecules') : \A k \in 1..Len(IndexList(m)') :
          /\ Len(IndexList(m)') # 0
          /\ h[m] \in 0..Len(molecules) /\ IndexList(m)' = IndexList(h[m])
    OBVIOUS
  <1>2. \A m \in 0..Len(molecules') : \A k \in 1..Len(IndexList(m)') :
          (IndexList(m)')[k] \in GuestIndices'
    BY <1>1 DEF GuestsOwnedOnce
  <1>3. \A m1, m2 \in 0..Len(molecules') :
          \A k1 \in 1..Len(IndexList(m1)'), k2 \in 1..Len(IndexList(m2)') :
            (IndexList(m1)')[k1] = (IndexList(m2)')[k2] => m1 = m2 /\ k1 = k2
    BY <1>1 DEF GuestsOwnedOnce
  <1>4. \A i \in GuestIndices' :
          \E m \in 0..Len(molecules') : \E k \in 1..Len(IndexList(m)') : (IndexList(m)')[k] = i
    <2> SUFFICES ASSUME NEW i \in GuestIndices
                 PROVE  \E m \in 0..Len(molecules') : \E k \in 1..Len(IndexList(m)') :
                          (IndexList(m)')[k] = i
      OBVIOUS
    <2>1. PICK n \in 0..Len(molecules) : \E k \in 1..Len(IndexList(n)) : IndexList(n)[k] = i
      BY DEF GuestsOwnedOnce
    <2>2. Len(IndexList(n)) # 0
      BY <2>1
    <2>3. PICK m \in 0..Len(molecules') : IndexList(m)' = IndexList(n)
      BY <2>2
    <2> QED BY <2>1, <2>3
  <1> QED BY <1>2, <1>3, <1>4 DEF GuestsOwnedOnce

(* Lists and guests that stay as they are. *)
LEMMA SameLists ==
  ASSUME GuestsOwnedOnce, GuestIndices' = GuestIndices, Len(molecules') = Len(molecules),
         \A m \in 0..Len(molecules) : IndexList(m)' = IndexList(m)
  PROVE  GuestsOwnedOnce'
  BY DEF GuestsOwnedOnce

(* GuestsOwnedOnce survives an iteration of removeParticleIndices.          *)
LEMMA RemovalOwnedOnce ==
  ASSUME IInv, RemoveNext
  PROVE  GuestsOwnedOnce'
  <1> DEFINE M == 0..Len(molecules)
             last == Len(particles)
             site == doomed[1]
             old(m) == IF m = 0 THEN doomed ELSE molecules[m].sites
             new(m) == IF m = 0 THEN doomed' ELSE molecules'[m].sites
             src(m, k) == IF m = 0 THEN k + 1 ELSE k
  <1>1. Types /\ GuestsOwnedOnce /\ AttemptShape
    BY DEF IInv
  <1>2. /\ FrameworkCount \in Nat /\ last \in Nat /\ Len(molecules) \in Nat
        /\ Len(doomed) \in Nat \ {0}
        /\ site \in (FrameworkCount + 1)..last
        /\ Len(molecules') = Len(molecules) /\ Len(particles') = last - 1
    BY <1>1, TypeFacts, RemovalFacts
  <1>3. \A m \in M : IndexList(m) = old(m)
    BY DEF IndexList, Unlisted, RemoveNext
  <1>4. trial'.move = "none"
    BY <1>1, NoTrialFacts DEF AttemptShape, RemoveNext
  <1>5. IF phase' = "removing" THEN TRUE ELSE doomed' = << >>
    <2>1. phase' # "removing" => Len(doomed) = 1
      BY DEF RemoveNext
    <2>2. doomed' \in Seq(Nat) /\ Len(doomed') = Len(doomed) - 1
      BY <1>1, RemovalFacts
    <2>3. Len(doomed) = 1 => Len(doomed') = 0
      BY <2>2
    <2> QED BY <2>1, <2>2, <2>3, EmptySeq
  <1>6. \A m \in M : IndexList(m)' = new(m)
    BY <1>2, <1>4, <1>5 DEF IndexList, Unlisted
  <1>7. \A m \in M : /\ Len(old(m)) \in Nat
                     /\ Len(new(m)) = IF m = 0 THEN Len(old(m)) - 1 ELSE Len(old(m))
    BY <1>1, <1>2, TypeFacts, RemovalFacts
  <1>8. \A m \in M : \A k \in 1..Len(new(m)) :
          src(m, k) \in 1..Len(old(m)) /\ new(m)[k] = Renamed(old(m)[src(m, k)])
    <2>1. \A k \in 1..(Len(doomed) - 1) : doomed'[k] = Renamed(doomed[k + 1])
      BY <1>1, RemovalFacts
    <2>2. \A m \in 1..Len(molecules) : \A k \in 1..Len(molecules[m].sites) :
            molecules'[m].sites[k] = Renamed(molecules[m].sites[k])
      BY <1>1, RemovalFacts
    <2> QED BY <1>2, <1>7, <2>1, <2>2
  <1>9. old(0)[1] = site /\ 0 \in M /\ 1 \in 1..Len(old(0))
    BY <1>2
  <1> HIDE DEF old, new, site, M
  <1>10. /\ \A m \in M : \A k \in 1..Len(old(m)) :
              old(m)[k] \in (FrameworkCount + 1)..last
         /\ \A m1, m2 \in M : \A k1 \in 1..Len(old(m1)), k2 \in 1..Len(old(m2)) :
              old(m1)[k1] = old(m2)[k2] => m1 = m2 /\ k1 = k2
         /\ \A i \in (FrameworkCount + 1)..last :
              \E m \in M : \E k \in 1..Len(old(m)) : old(m)[k] = i
    BY <1>1, <1>3 DEF GuestsOwnedOnce, GuestIndices, M
  <1>11. \A m \in M : \A k \in 1..Len(new(m)) :
           /\ old(m)[src(m, k)] \in (FrameworkCount + 1)..last
           /\ old(m)[src(m, k)] # site
    <2> SUFFICES ASSUME NEW m \in M, NEW k \in 1..Len(new(m))
                 PROVE  /\ old(m)[src(m, k)] \in (FrameworkCount + 1)..last
                        /\ old(m)[src(m, k)] # site
      OBVIOUS
    <2>1. src(m, k) \in 1..Len(old(m)) /\ ~(m = 0 /\ src(m, k) = 1)
      BY <1>7, <1>8
    <2> QED BY <1>9, <1>10, <2>1
  <1>12. \A i \in (FrameworkCount + 1)..last : i # site =>
           /\ Renamed(i) \in (FrameworkCount + 1)..(last - 1)
           /\ \A j \in (FrameworkCount + 1)..last : j # site =>
                (Renamed(i) = Renamed(j) => i = j)
    BY <1>2 DEF Renamed, site
  <1>13. \A m \in M : \A k \in 1..Len(new(m)) : new(m)[k] \in (FrameworkCount + 1)..(last - 1)
    BY <1>8, <1>11, <1>12
  <1>14. \A m1, m2 \in M : \A k1 \in 1..Len(new(m1)), k2 \in 1..Len(new(m2)) :
           new(m1)[k1] = new(m2)[k2] => m1 = m2 /\ k1 = k2
    <2> SUFFICES ASSUME NEW m1 \in M, NEW m2 \in M, NEW k1 \in 1..Len(new(m1)),
                        NEW k2 \in 1..Len(new(m2)), new(m1)[k1] = new(m2)[k2]
                 PROVE  m1 = m2 /\ k1 = k2
      OBVIOUS
    <2>1. old(m1)[src(m1, k1)] = old(m2)[src(m2, k2)]
      BY <1>8, <1>11, <1>12
    <2>2. src(m1, k1) \in 1..Len(old(m1)) /\ src(m2, k2) \in 1..Len(old(m2))
      BY <1>8
    <2>3. m1 = m2 /\ src(m1, k1) = src(m2, k2)
      BY <1>10, <2>1, <2>2, SMTT(30)
    <2> QED BY <1>7, <2>3
  <1>15. \A i \in (FrameworkCount + 1)..(last - 1) :
           \E m \in M : \E k \in 1..Len(new(m)) : new(m)[k] = i
    <2> SUFFICES ASSUME NEW i \in (FrameworkCount + 1)..(last - 1)
                 PROVE  \E m \in M : \E k \in 1..Len(new(m)) : new(m)[k] = i
      OBVIOUS
    <2> DEFINE j == IF i = site THEN last ELSE i
    <2>1. j \in (FrameworkCount + 1)..last /\ j # site /\ Renamed(j) = i
      BY <1>2 DEF Renamed, site
    <2>2. PICK m \in M : \E q \in 1..Len(old(m)) : old(m)[q] = j
      BY <1>10, <2>1
    <2>3. PICK q \in 1..Len(old(m)) : old(m)[q] = j
      BY <2>2
    <2>4. ~(m = 0 /\ q = 1)
      BY <1>9, <2>1, <2>3
    <2>5. PICK k \in 1..Len(new(m)) : src(m, k) = q
      <3>1. CASE m = 0
        <4>1. q - 1 \in 1..Len(new(m)) /\ src(m, q - 1) = q
          <5>1. q \in Nat /\ q >= 2 /\ q <= Len(old(m)) /\ Len(old(m)) \in Nat
            BY <1>7, <2>4, <3>1
          <5>2. Len(new(m)) = Len(old(m)) - 1
            BY <1>7, <3>1
          <5> QED BY <3>1, <5>1, <5>2
        <4> QED BY <4>1
      <3>2. CASE m # 0
        <4>1. q \in 1..Len(new(m)) /\ src(m, q) = q
          BY <1>7, <3>2
        <4> QED BY <4>1
      <3> QED BY <3>1, <3>2
    <2> QED BY <1>8, <2>1, <2>3, <2>5
  <1>16. GuestIndices' = (FrameworkCount + 1)..(last - 1) /\ 0..Len(molecules') = M
    BY <1>2 DEF GuestIndices, FrameworkCount, M
  <1>17. \A m \in M : \A k \in 1..Len(IndexList(m)') : (IndexList(m)')[k] \in GuestIndices'
    BY <1>6, <1>13, <1>16
  <1>18. \A m1, m2 \in M : \A k1 \in 1..Len(IndexList(m1)'), k2 \in 1..Len(IndexList(m2)') :
           (IndexList(m1)')[k1] = (IndexList(m2)')[k2] => m1 = m2 /\ k1 = k2
    BY <1>6, <1>14
  <1>19. \A i \in GuestIndices' :
           \E m \in M : \E k \in 1..Len(IndexList(m)') : (IndexList(m)')[k] = i
    BY <1>6, <1>15, <1>16
  <1> QED BY <1>16, <1>17, <1>18, <1>19 DEF GuestsOwnedOnce

(* GuestsOwnedOnce when a trial's sites are appended as the unlisted list.  *)
LEMMA AppendingOwnedOnce ==
  ASSUME IInv, NEW move \in {"insert", "swap"}, NEW n, NEW sp \in Species,
         NEW ref \in Int, NEW o \in Orientations(sp), StartAppending(move, n, sp, ref, o)
  PROVE  GuestsOwnedOnce'
  <1> DEFINE M == 0..Len(molecules)
             size == NumSites(sp)
             old(m) == IF m = 0 THEN << >> ELSE molecules[m].sites
             new(m) == IF m = 0 THEN trial'.sites ELSE molecules[m].sites
  <1>1. Types /\ GuestsOwnedOnce /\ AttemptShape
    BY DEF IInv
  <1>2. /\ FrameworkCount \in Nat /\ Len(particles) \in Nat /\ Len(molecules) \in Nat
        /\ size \in Nat \ {0} /\ Len(particles') = Len(particles) + size
        /\ trial'.move = move /\ Len(trial'.sites) = size
        /\ \A k \in 1..size : trial'.sites[k] = Len(particles) + k
        /\ phase = "idle" /\ phase' = "trial" /\ molecules' = molecules
    BY <1>1, TypeFacts, AppendingFacts DEF StartAppending
  <1>3. trial.move = "none"
    BY <1>1, <1>2 DEF AttemptShape
  <1>4. \A m \in M : IndexList(m) = old(m)
    BY <1>2, <1>3 DEF IndexList, Unlisted
  <1>5. \A m \in M : IndexList(m)' = new(m)
    BY <1>2 DEF IndexList, Unlisted
  <1>6. /\ GuestIndices = (FrameworkCount + 1)..Len(particles)
        /\ GuestIndices' = (FrameworkCount + 1)..(Len(particles) + size)
    BY <1>2 DEF GuestIndices, FrameworkCount
  <1>7. Len(<< >>) = 0
    BY EmptySeq
  <1>8. \A m \in M : m # 0 => new(m) = old(m)
    OBVIOUS
  <1>9. /\ 0 \in M /\ Len(new(0)) = size /\ Len(old(0)) = 0
         /\ \A k \in 1..size : new(0)[k] = Len(particles) + k
    BY <1>2, <1>7
  <1> HIDE DEF old, new, M, size
  <1>10. /\ \A m \in M : \A k \in 1..Len(old(m)) : old(m)[k] \in GuestIndices
         /\ \A m1, m2 \in M : \A k1 \in 1..Len(old(m1)), k2 \in 1..Len(old(m2)) :
              old(m1)[k1] = old(m2)[k2] => m1 = m2 /\ k1 = k2
         /\ \A i \in GuestIndices : \E m \in M : \E k \in 1..Len(old(m)) : old(m)[k] = i
    BY <1>1, <1>4 DEF GuestsOwnedOnce, M
  <1>11. \A m \in M : \A k \in 1..Len(new(m)) : new(m)[k] \in GuestIndices'
    <2>1. \A k \in 1..Len(new(0)) : new(0)[k] \in GuestIndices'
      <3>1. FrameworkCount \in Nat /\ Len(particles) \in Nat /\ size \in Nat
            /\ FrameworkCount <= Len(particles)
        BY <1>1, <1>2, TypeFacts DEF IInv, FrameworkFixed
      <3>2. \A k \in 1..size : Len(particles) + k \in GuestIndices'
        BY <1>6, <3>1
      <3> QED BY <1>9, <3>2
    <2>2. \A m \in M \ {0} : \A k \in 1..Len(new(m)) : new(m)[k] \in GuestIndices
      BY <1>8, <1>10
    <2>3. \A i \in GuestIndices : i \in GuestIndices'
      BY <1>2, <1>6 DEF size
    <2> QED BY <2>1, <2>2, <2>3
  <1>12. \A m1, m2 \in M : \A k1 \in 1..Len(new(m1)), k2 \in 1..Len(new(m2)) :
           new(m1)[k1] = new(m2)[k2] => m1 = m2 /\ k1 = k2
    <2>1. \A m \in M : \A k \in 1..Len(new(m)) :
            new(m)[k] \in Int /\ (m = 0 <=> new(m)[k] > Len(particles))
      <3>1. \A k \in 1..Len(new(0)) : new(0)[k] \in Int /\ new(0)[k] > Len(particles)
        BY <1>2, <1>9
      <3>2. \A m \in M \ {0} : \A k \in 1..Len(new(m)) : new(m)[k] \in GuestIndices
        BY <1>8, <1>10
      <3>3. \A i \in GuestIndices : i \in Int /\ ~(i > Len(particles))
        BY <1>2, <1>6
      <3> QED BY <3>1, <3>2, <3>3
    <2> SUFFICES ASSUME NEW m1 \in M, NEW m2 \in M, NEW k1 \in 1..Len(new(m1)),
                        NEW k2 \in 1..Len(new(m2)), new(m1)[k1] = new(m2)[k2]
                 PROVE  m1 = m2 /\ k1 = k2
      OBVIOUS
    <2>2. CASE m1 = 0 /\ m2 = 0
      BY <1>2, <1>9, <2>2
    <2>3. CASE m1 # 0 /\ m2 # 0
      BY <1>8, <1>10, <2>3
    <2> QED BY <2>1, <2>2, <2>3
  <1>13. \A i \in GuestIndices' : \E m \in M : \E k \in 1..Len(new(m)) : new(m)[k] = i
    <2> SUFFICES ASSUME NEW i \in GuestIndices'
                 PROVE  \E m \in M : \E k \in 1..Len(new(m)) : new(m)[k] = i
      OBVIOUS
    <2>1. CASE i \in GuestIndices
      <3>1. PICK m \in M : \E k \in 1..Len(old(m)) : old(m)[k] = i
        BY <1>10, <2>1
      <3>2. m # 0
        BY <1>9, <3>1
      <3> QED BY <1>8, <3>1, <3>2
    <2>2. CASE i \notin GuestIndices
      <3>1. i - Len(particles) \in 1..size /\ i = Len(particles) + (i - Len(particles))
        BY <1>2, <1>6, <2>2
      <3> QED BY <1>9, <3>1
    <2> QED BY <2>1, <2>2
  <1>14. 0..Len(molecules') = M
    BY <1>2 DEF M
  <1> QED BY <1>5, <1>11, <1>12, <1>13, <1>14 DEF GuestsOwnedOnce

(* GuestsOwnedOnce when a rejected trial's sites are truncated.             *)
LEMMA TruncationOwnedOnce ==
  ASSUME IInv, RejectAppended
  PROVE  GuestsOwnedOnce'
  <1> DEFINE M == 0..Len(molecules)
             size == Appended
             kept == Len(particles) - Appended
             old(m) == IF m = 0 THEN trial.sites ELSE molecules[m].sites
             new(m) == IF m = 0 THEN << >> ELSE molecules[m].sites
  <1>1. Types /\ GuestsOwnedOnce /\ AttemptShape /\ AppendedLast
    BY DEF IInv
  <1>2. /\ phase = "trial" /\ trial.move \in {"insert", "swap"}
        /\ particles' = PopBack(particles, size) /\ molecules' = molecules
        /\ phase' = "idle" /\ trial'.move = "none"
    BY NoTrialFacts DEF RejectAppended, Appended
  <1>3. /\ FrameworkCount \in Nat /\ Len(particles) \in Nat /\ Len(molecules) \in Nat
        /\ size \in Nat /\ FrameworkCount + size <= Len(particles)
    BY <1>1, TypeFacts, NumSitesFacts DEF Appended, AppendedLast, Types
  <1>4. Len(particles') = kept /\ kept \in Nat
    <2>1. size \in 0..Len(particles) /\ particles \in Seq(Site)
      BY <1>1, <1>3 DEF Types
    <2> QED BY <1>2, <1>3, <2>1, PopBackFacts
  <1>5. Len(trial.sites) = size /\ \A k \in 1..size : trial.sites[k] = kept + k
    <2>1. trial.sites = [k \in 1..size |-> kept + k]
      BY <1>1, <1>2 DEF AppendedLast
    <2>2. trial.sites \in [1..size -> Nat]
      BY <1>3, <1>4, <2>1
    <2> QED BY <1>3, <2>1, <2>2, SeqOfFunction
  <1>6. \A m \in M : IndexList(m) = old(m)
    BY <1>2 DEF IndexList, Unlisted
  <1>7. \A m \in M : IndexList(m)' = new(m)
    BY <1>2 DEF IndexList, Unlisted
  <1>8. /\ GuestIndices = (FrameworkCount + 1)..Len(particles)
        /\ GuestIndices' = (FrameworkCount + 1)..kept
    BY <1>4 DEF GuestIndices, FrameworkCount
  <1>9. \A m \in M : m # 0 => new(m) = old(m)
    OBVIOUS
  <1>10. /\ 0 \in M /\ Len(old(0)) = size /\ Len(new(0)) = 0
         /\ \A k \in 1..size : old(0)[k] = kept + k
    BY <1>3, <1>5, EmptySeq
  <1> HIDE DEF old, new, M, size
  <1>11. /\ \A m \in M : \A k \in 1..Len(old(m)) : old(m)[k] \in GuestIndices
         /\ \A m1, m2 \in M : \A k1 \in 1..Len(old(m1)), k2 \in 1..Len(old(m2)) :
              old(m1)[k1] = old(m2)[k2] => m1 = m2 /\ k1 = k2
         /\ \A i \in GuestIndices : \E m \in M : \E k \in 1..Len(old(m)) : old(m)[k] = i
    BY <1>1, <1>6 DEF GuestsOwnedOnce, M
  <1>12. \A m \in M : \A k \in 1..Len(new(m)) : new(m)[k] \in GuestIndices'
    <2> SUFFICES ASSUME NEW m \in M, NEW k \in 1..Len(new(m))
                 PROVE  new(m)[k] \in GuestIndices'
      OBVIOUS
    <2>1. m # 0
      BY <1>10
    <2>2. new(m)[k] \in GuestIndices
      BY <1>11, <1>9, <2>1
    <2>3. new(m)[k] > kept => FALSE
      <3>1. ASSUME new(m)[k] > kept PROVE FALSE
        <4>1. new(m)[k] - kept \in 1..size /\ new(m)[k] = kept + (new(m)[k] - kept)
          BY <1>3, <1>4, <1>8, <2>2, <3>1 DEF size
        <4>2. new(m)[k] = old(0)[new(m)[k] - kept]
          BY <1>10, <4>1
        <4> QED BY <1>11, <1>9, <1>10, <2>1, <4>1, <4>2
      <3> QED BY <3>1
    <2> QED BY <1>3, <1>4, <1>8, <2>2, <2>3
  <1>13. \A m1, m2 \in M : \A k1 \in 1..Len(new(m1)), k2 \in 1..Len(new(m2)) :
           new(m1)[k1] = new(m2)[k2] => m1 = m2 /\ k1 = k2
    BY <1>11, <1>9, <1>10
  <1>14. \A i \in GuestIndices' : \E m \in M : \E k \in 1..Len(new(m)) : new(m)[k] = i
    <2> SUFFICES ASSUME NEW i \in GuestIndices'
                 PROVE  \E m \in M : \E k \in 1..Len(new(m)) : new(m)[k] = i
      OBVIOUS
    <2>1. i \in GuestIndices /\ i <= kept
      BY <1>3, <1>4, <1>8 DEF size
    <2>2. PICK m \in M : \E k \in 1..Len(old(m)) : old(m)[k] = i
      BY <1>11, <2>1
    <2>3. m # 0
      <3>1. ASSUME m = 0 PROVE FALSE
        <4>1. PICK k \in 1..size : old(0)[k] = i
          BY <1>10, <2>2, <3>1
        <4> QED BY <1>3, <1>4, <1>10, <2>1, <4>1
      <3> QED BY <3>1
    <2> QED BY <1>9, <2>2, <2>3
  <1>15. 0..Len(molecules') = M
    BY <1>2 DEF M
  <1> QED BY <1>7, <1>12, <1>13, <1>14, <1>15, SMTT(30) DEF GuestsOwnedOnce

(* GuestsOwnedOnce is preserved. *)
LEMMA GuestsOwnedOnceStep ==
  ASSUME IInv, Next
  PROVE  GuestsOwnedOnce'
  <1>1. /\ Types /\ GuestsOwnedOnce /\ AttemptShape /\ AppendedLast
        /\ AttemptShape'
    BY AttemptShapeStep DEF IInv
  <1>2. /\ Len(molecules) \in Nat /\ DOMAIN molecules = 1..Len(molecules)
        /\ molecules \in Seq(Molecule)
    BY <1>1, TypeFacts DEF Types
  <1>3. NoTrial.move = "none" /\ Len(<< >>) = 0
    BY NoTrialFacts, EmptySeq
  <1>4. ASSUME UNCHANGED molecules, Len(particles') = Len(particles),
               Unlisted' = Unlisted
        PROVE  GuestsOwnedOnce'
    <2>1. GuestIndices' = GuestIndices
      BY <1>4 DEF GuestIndices, FrameworkCount
    <2>2. \A m \in 0..Len(molecules) : IndexList(m)' = IndexList(m)
      BY <1>4 DEF IndexList
    <2> QED BY <1>1, <1>4, <2>1, <2>2, SameLists
  <1>5. trial.move \in {"none", "displace", "delete"} /\ phase # "removing" => Unlisted = << >>
    BY DEF Unlisted
  <1>6. trial'.move \in {"none", "displace", "delete"} /\ phase' # "removing" => Unlisted' = << >>
    BY DEF Unlisted
  <1>7. CASE StartTranslation \/ StartRotation
    <2>1. PICK m \in 1..Len(molecules), moved \in Seq(Int), original \in Seq(Int) :
            /\ StartDisplacement(m, moved)
            /\ Len(moved) = Len(molecules[m].sites)
            /\ trial' = [move |-> "displace", mol |-> m, species |-> molecules[m].species,
                         sites |-> molecules[m].sites, original |-> original]
      BY <1>1, <1>7, DisplacementFacts
    <2>2. particles \in Seq(Site) /\ molecules[m].sites \in Seq(Nat)
      BY <1>1, TypeFacts DEF Types
    <2>3. Len(particles') = Len(particles)
      BY <2>1, <2>2, RepositionFacts DEF StartDisplacement
    <2>4. UNCHANGED molecules /\ phase = "idle" /\ phase' = "trial"
      BY <2>1 DEF StartDisplacement
    <2>5. trial.move = "none" /\ trial'.move = "displace"
      BY <1>1, <2>1, <2>4 DEF AttemptShape
    <2> QED BY <1>4, <1>5, <1>6, <2>3, <2>4, <2>5
  <1>8. CASE StartInsertion
    <2>1. PICK sp \in Species, ref \in 0..(L - 1) : \E o \in Orientations(sp) :
            StartAppending("insert", 0, sp, ref, o)
      BY <1>8 DEF StartInsertion
    <2> QED BY <2>1, ReferenceFacts, AppendingOwnedOnce
  <1>9. CASE StartSwap
    <2>1. PICK m \in DOMAIN molecules, c \in Positions :
            \E sp \in Species \ {molecules[m].species} : \E o \in Orientations(sp) :
              StartAppending("swap", m, sp, c, o)
      BY <1>9 DEF StartSwap
    <2> QED BY <2>1, ReferenceFacts, AppendingOwnedOnce
  <1>10. CASE StartDeletion
    <2>1. /\ UNCHANGED <<particles, molecules>> /\ phase = "idle" /\ phase' = "trial"
          /\ trial'.move = "delete"
      BY <1>10 DEF StartDeletion
    <2>2. trial.move = "none"
      BY <1>1, <2>1 DEF AttemptShape
    <2> QED BY <1>4, <1>5, <1>6, <2>1, <2>2
  <1>11. CASE AcceptDisplacement \/ RejectDeletion
    <2>1. /\ UNCHANGED <<particles, molecules>> /\ phase = "trial" /\ phase' \in {"idle", "settling"}
          /\ trial.move \in {"displace", "delete"} /\ trial' = NoTrial
      BY <1>11 DEF AcceptDisplacement, RejectDeletion
    <2> QED BY <1>3, <1>4, <1>5, <1>6, <2>1
  <1>12. CASE RejectDisplacement
    <2>1. /\ trial.move = "displace" /\ trial' = NoTrial /\ UNCHANGED molecules
          /\ phase = "trial" /\ phase' = "idle"
          /\ particles' = Reposition(particles, trial.sites, trial.original)
      BY <1>12 DEF RejectDisplacement
    <2>2. /\ particles \in Seq(Site) /\ trial.sites \in Seq(Nat) /\ trial.original \in Seq(Int)
          /\ Len(trial.original) = Len(trial.sites)
      BY <1>1, <2>1 DEF Types, AttemptShape
    <2>3. Len(particles') = Len(particles)
      BY <2>1, <2>2, RepositionFacts
    <2> QED BY <1>3, <1>4, <1>5, <1>6, <2>1, <2>3
  <1>13. CASE AcceptInsertion
    <2>1. /\ phase = "trial" /\ trial.move = "insert" /\ UNCHANGED particles
          /\ phase' = "settling" /\ trial' = NoTrial
          /\ molecules' = Append(molecules, [species |-> trial.species, sites |-> trial.sites])
      BY <1>13 DEF AcceptInsertion
    <2>0. PICK n \in Nat : n = Len(molecules)
      BY <1>2
    <2> DEFINE h == [m \in 0..(n + 1) |-> IF m = n + 1 THEN 0 ELSE m]
    <2>2. [species |-> trial.species, sites |-> trial.sites] \in Molecule
      BY <1>1 DEF Types, Molecule
    <2>3. /\ Len(molecules') = n + 1 /\ molecules'[n + 1].sites = trial.sites
          /\ \A m \in 1..n : molecules'[m] = molecules[m]
      BY <1>2, <2>0, <2>1, <2>2
    <2>4. Unlisted = trial.sites /\ Unlisted' = << >>
      BY <1>3, <1>6, <2>1 DEF Unlisted
    <2>5. /\ IndexList(n + 1)' = IndexList(0) /\ IndexList(0)' = << >>
          /\ \A m \in 1..n : IndexList(m)' = IndexList(m)
      BY <1>2, <2>0, <2>3, <2>4 DEF IndexList
    <2>6. GuestIndices' = GuestIndices
      BY <2>1 DEF GuestIndices, FrameworkCount
    <2>7. h \in [0..(n + 1) -> 0..n] /\ \A m \in 0..(n + 1) : h[m] = IF m = n + 1 THEN 0 ELSE m
      BY <1>2, <2>0
    <2> HIDE DEF h
    <2>8. n \in Nat
      BY <1>2, <2>0
    <2>9. IndexList(n + 1)' = IndexList(h[n + 1])
      BY <2>5, <2>7, <2>8
    <2>10. \A m \in 1..n : IndexList(m)' = IndexList(h[m])
      BY <2>5, <2>7, <2>8
    <2>11. Len(IndexList(0)') = 0
      BY <1>3, <2>5
    <2>12. \A m \in 0..(n + 1) : m = 0 \/ m = n + 1 \/ m \in 1..n
      BY <2>8
    <2>13. \A m \in 0..(n + 1) : Len(IndexList(m)') = 0 \/ IndexList(m)' = IndexList(h[m])
      BY <2>9, <2>10, <2>11, <2>12
    <2>14. \A m1, m2 \in 0..(n + 1) :
             Len(IndexList(m1)') # 0 /\ Len(IndexList(m2)') # 0 /\ h[m1] = h[m2] => m1 = m2
      BY <2>7, <2>8, <2>11, <2>12
    <2>15. \A m \in 0..n : \E m2 \in 0..(n + 1) : h[m2] = m /\ IndexList(m2)' = IndexList(m)
      <3>1. n + 1 \in 0..(n + 1) /\ h[n + 1] = 0
        BY <2>7, <2>8
      <3>2. \A m \in 1..n : m \in 0..(n + 1) /\ h[m] = m
        BY <2>7, <2>8
      <3>3. \A m \in 0..n : m = 0 \/ m \in 1..n
        BY <2>8
      <3> QED BY <2>9, <2>10, <3>1, <3>2, <3>3
    <2> QED BY <1>1, <2>0, <2>3, <2>6, <2>7, <2>13, <2>14, <2>15, Relisted
  <1>14. CASE RejectAppended
    BY <1>14, TruncationOwnedOnce
  <1>15. CASE AcceptDeletion
    <2>1. /\ phase = "trial" /\ trial.move = "delete" /\ UNCHANGED particles
          /\ phase' = "removing"
          /\ doomed' = molecules[trial.mol].sites
          /\ molecules' = EraseAt(molecules, trial.mol)
      BY <1>15 DEF AcceptDeletion
    <2>0. PICK n \in Nat : n = Len(molecules)
      BY <1>2
    <2>2. PICK mol \in 1..n : mol = trial.mol
      BY <1>1, <2>0, <2>1 DEF AttemptShape
    <2> DEFINE h == [m \in 0..(n - 1) |-> IF m = 0 THEN mol
                              ELSE IF m < mol THEN m ELSE m + 1]
    <2>3. /\ Len(molecules') = n - 1
          /\ \A m \in 1..(n - 1) :
               molecules'[m] = IF m < mol THEN molecules[m] ELSE molecules[m + 1]
      BY <1>2, <2>0, <2>1, <2>2, EraseAtFacts
    <2>4. Unlisted = << >> /\ Unlisted' = molecules[mol].sites
      BY <1>5, <2>1, <2>2 DEF Unlisted
    <2>5. /\ IndexList(0)' = IndexList(mol) /\ IndexList(0) = << >>
          /\ \A m \in 1..(n - 1) :
               IndexList(m)' = IndexList(IF m < mol THEN m ELSE m + 1)
      BY <1>2, <2>0, <2>2, <2>3, <2>4 DEF IndexList
    <2>6. GuestIndices' = GuestIndices
      BY <2>1 DEF GuestIndices, FrameworkCount
    <2>7. /\ h \in [0..(n - 1) -> 0..n]
          /\ \A m \in 0..(n - 1) :
               h[m] = IF m = 0 THEN mol ELSE IF m < mol THEN m ELSE m + 1
      BY <1>2, <2>0, <2>2
    <2> HIDE DEF h
    <2>8. n \in Nat \ {0} /\ mol \in 1..n
      BY <1>2, <2>0, <2>2
    <2>9. \A m \in 0..(n - 1) : IndexList(m)' = IndexList(h[m])
      <3>1. IndexList(0)' = IndexList(h[0])
        BY <2>5, <2>7, <2>8
      <3>2. \A m \in 1..(n - 1) : IndexList(m)' = IndexList(h[m])
        BY <2>5, <2>7, <2>8
      <3> QED BY <2>8, <3>1, <3>2
    <2>10. \A m1, m2 \in 0..(n - 1) : h[m1] = h[m2] => m1 = m2
      BY <2>7, <2>8
    <2>11. \A m \in 1..n : \E m2 \in 0..(n - 1) : h[m2] = m
      <3> SUFFICES ASSUME NEW m \in 1..n PROVE \E m2 \in 0..(n - 1) : h[m2] = m
        OBVIOUS
      <3> DEFINE m2 == IF m = mol THEN 0 ELSE IF m < mol THEN m ELSE m - 1
      <3>1. m2 \in 0..(n - 1) /\ h[m2] = m
        BY <2>7, <2>8
      <3> QED BY <3>1
    <2>12. Len(IndexList(0)) = 0 /\ \A m \in 0..n : m = 0 \/ m \in 1..n
      BY <1>3, <2>5, <2>8
    <2>13. \A m \in 0..n : \/ Len(IndexList(m)) = 0
                           \/ \E m2 \in 0..(n - 1) : h[m2] = m /\ IndexList(m2)' = IndexList(m)
      BY <2>9, <2>11, <2>12
    <2> QED BY <1>1, <2>0, <2>3, <2>6, <2>7, <2>9, <2>10, <2>13, Relisted, SMTT(30)
  <1>16. CASE AcceptSwap
    <2>1. /\ phase = "trial" /\ trial.move = "swap" /\ UNCHANGED particles
          /\ phase' = "removing"
          /\ doomed' = molecules[trial.mol].sites
          /\ molecules' = [molecules EXCEPT ![trial.mol] =
                             [species |-> trial.species, sites |-> trial.sites]]
      BY <1>16 DEF AcceptSwap
    <2>0. PICK n \in Nat : n = Len(molecules)
      BY <1>2
    <2>2. PICK mol \in 1..n : mol = trial.mol
      BY <1>1, <2>0, <2>1 DEF AttemptShape
    <2> DEFINE h == [m \in 0..n |-> IF m = 0 THEN mol
                            ELSE IF m = mol THEN 0 ELSE m]
    <2>3. [species |-> trial.species, sites |-> trial.sites] \in Molecule
      BY <1>1 DEF Types, Molecule
    <2>4. /\ Len(molecules') = n /\ molecules'[mol].sites = trial.sites
          /\ \A m \in 1..n : m # mol => molecules'[m] = molecules[m]
      BY <1>2, <2>0, <2>1, <2>2, <2>3, ExceptSeq
    <2>5. Unlisted = trial.sites /\ Unlisted' = molecules[mol].sites
      BY <2>1, <2>2 DEF Unlisted
    <2>6. /\ IndexList(0)' = IndexList(mol) /\ IndexList(mol)' = IndexList(0)
          /\ \A m \in 1..n : m # mol => IndexList(m)' = IndexList(m)
      BY <1>2, <2>0, <2>2, <2>4, <2>5 DEF IndexList
    <2>7. GuestIndices' = GuestIndices
      BY <2>1 DEF GuestIndices, FrameworkCount
    <2>8. /\ h \in [0..n -> 0..n]
          /\ \A m \in 0..n : h[m] = IF m = 0 THEN mol ELSE IF m = mol THEN 0 ELSE m
      BY <1>2, <2>0, <2>2
    <2> HIDE DEF h
    <2>9. n \in Nat /\ mol \in 1..n
      BY <1>2, <2>0, <2>2
    <2>10. \A m \in 0..n : IndexList(m)' = IndexList(h[m])
      <3>1. \A m \in 0..n : m = 0 \/ m = mol \/ (m \in 1..n /\ m # mol /\ m # 0)
        BY <2>9
      <3>2. h[0] = mol /\ h[mol] = 0
        BY <2>8, <2>9
      <3>3. \A m \in 1..n : m # mol => h[m] = m
        BY <2>8, <2>9
      <3> QED BY <2>6, <3>1, <3>2, <3>3
    <2>11. \A m1, m2 \in 0..n : h[m1] = h[m2] => m1 = m2
      BY <2>8, <2>9
    <2>12. \A m \in 0..n : h[m] \in 0..n /\ h[h[m]] = m
      BY <2>8, <2>9
    <2>13. \A m \in 0..n : \E m2 \in 0..n : h[m2] = m /\ IndexList(m2)' = IndexList(m)
      <3> SUFFICES ASSUME NEW m \in 0..n
                   PROVE  \E m2 \in 0..n : h[m2] = m /\ IndexList(m2)' = IndexList(m)
        OBVIOUS
      <3>1. PICK m2 \in 0..n : m2 = h[m] /\ h[m2] = m
        BY <2>12
      <3> QED BY <2>10, <3>1
    <2>14. /\ h \in [0..Len(molecules') -> 0..Len(molecules)]
           /\ \A m \in 0..Len(molecules') : IndexList(m)' = IndexList(h[m])
           /\ \A m1, m2 \in 0..Len(molecules') : h[m1] = h[m2] => m1 = m2
           /\ \A m \in 0..Len(molecules) :
                \E m2 \in 0..Len(molecules') : h[m2] = m /\ IndexList(m2)' = IndexList(m)
      BY <2>0, <2>4, <2>8, <2>10, <2>11, <2>13
    <2> QED BY <1>1, <2>7, <2>14, Relisted
  <1>17. CASE RemoveNext
    BY <1>17, RemovalOwnedOnce
  <1>18. CASE Settle
    <2>1. UNCHANGED <<particles, molecules, trial, doomed>> /\ phase = "settling" /\ phase' = "idle"
      BY <1>18 DEF Settle
    <2>2. Unlisted' = Unlisted
      BY <2>1 DEF Unlisted
    <2> QED BY <1>4, <2>1, <2>2
  <1> QED BY <1>7, <1>8, <1>9, <1>10, <1>11, <1>12, <1>13, <1>14, <1>15, <1>16, <1>17, <1>18
          DEF Next

-----------------------------------------------------------------------------
(* CellsFresh. *)

(* Popping nothing, and popping what was appended. *)
LEMMA PopBackZero ==
  ASSUME NEW S, NEW P \in Seq(S)
  PROVE  PopBack(P, 0) = P
  BY SubSeqFull DEF PopBack

LEMMA PopBackAppended ==
  ASSUME NEW S, NEW P \in Seq(S), NEW Q \in Seq(S)
  PROVE  PopBack(P \o Q, Len(Q)) = P
  <1>1. /\ P \o Q \in Seq(S) /\ Len(P \o Q) = Len(P) + Len(Q)
        /\ \A i \in 1..Len(P) : (P \o Q)[i] = P[i]
        /\ Len(P) \in Nat /\ Len(Q) \in Nat
    BY ConcatProperties
  <1>2. Len(Q) \in 0..Len(P \o Q) /\ Len(P \o Q) - Len(Q) = Len(P)
    BY <1>1
  <1>3. /\ PopBack(P \o Q, Len(Q)) \in Seq(S) /\ Len(PopBack(P \o Q, Len(Q))) = Len(P)
        /\ \A i \in 1..Len(P) : PopBack(P \o Q, Len(Q))[i] = (P \o Q)[i]
    BY <1>1, <1>2, PopBackFacts
  <1> QED BY <1>1, <1>3, SeqEqual

(* A site is its position and its kind. *)
LEMMA SiteEqual ==
  ASSUME NEW a \in Site, NEW b \in Site, a.pos = b.pos, a.kind = b.kind
  PROVE  a = b
  BY DEF Site

(* Putting sites back where they were restores the pool. *)
LEMMA RepositionBack ==
  ASSUME NEW P \in Seq(Site), NEW sites \in Seq(Nat), NEW ps \in Seq(Int), NEW was \in Seq(Int),
         Len(ps) = Len(sites), Len(was) = Len(sites),
         \A k \in 1..Len(sites) : sites[k] \in 1..Len(P),
         \A k1, k2 \in 1..Len(sites) : sites[k1] = sites[k2] => k1 = k2,
         \A k \in 1..Len(was) : was[k] = P[sites[k]].pos
  PROVE  Reposition(Reposition(P, sites, ps), sites, was) = P
  <1> DEFINE Q == Reposition(P, sites, ps)
             R == Reposition(Q, sites, was)
  <1>1. /\ Q \in Seq(Site) /\ Len(Q) = Len(P)
        /\ \A i \in 1..Len(P) : (\A k \in 1..Len(sites) : sites[k] # i) => Q[i] = P[i]
        /\ \A i \in 1..Len(P) : Q[i].kind = P[i].kind
    BY RepositionFacts
  <1> HIDE DEF Q
  <1>2. /\ R \in Seq(Site) /\ Len(R) = Len(Q)
        /\ \A i \in 1..Len(Q) : (\A k \in 1..Len(sites) : sites[k] # i) => R[i] = Q[i]
        /\ \A i \in 1..Len(Q) : R[i].kind = Q[i].kind
    BY <1>1, RepositionFacts
  <1>3. \A k \in 1..Len(sites) : R[sites[k]].pos = was[k]
    BY <1>1, RepositionMoves
  <1> HIDE DEF R
  <1>4. ASSUME NEW i \in 1..Len(P)
        PROVE  R[i] = P[i]
    <2>1. CASE \A k \in 1..Len(sites) : sites[k] # i
      BY <1>1, <1>2, <2>1
    <2>2. CASE \E k \in 1..Len(sites) : sites[k] = i
      <3>1. R[i].pos = P[i].pos
        BY <1>3, <2>2
      <3>2. R[i].kind = P[i].kind
        BY <1>1, <1>2
      <3>3. R[i] \in Site /\ P[i] \in Site
        BY <1>1, <1>2
      <3> QED BY <3>1, <3>2, <3>3, SiteEqual
    <2> QED BY <2>1, <2>2
  <1>5. R = P
    BY <1>1, <1>2, <1>4, SeqEqual
  <1> QED BY <1>5 DEF Q, R

(* No molecule lists a site twice. *)
LEMMA DistinctSites ==
  ASSUME Types, GuestsOwnedOnce
  PROVE  \A m1, m2 \in 1..Len(molecules) :
           \A k1 \in 1..Len(molecules[m1].sites), k2 \in 1..Len(molecules[m2].sites) :
             molecules[m1].sites[k1] = molecules[m2].sites[k2] => m1 = m2 /\ k1 = k2
  <1>1. \A m \in 1..Len(molecules) : m \in 0..Len(molecules) /\ IndexList(m) = molecules[m].sites
    BY TypeFacts DEF IndexList
  <1> QED BY <1>1 DEF GuestsOwnedOnce

(* A displacement leaves the committed pool as it is. *)
LEMMA DisplacementCommitted ==
  ASSUME IInv, StartTranslation \/ StartRotation
  PROVE  Committed' = particles
  <1>1. Types /\ GuestsOwnedOnce
    BY DEF IInv
  <1>2. PICK m \in 1..Len(molecules), moved \in Seq(Int), original \in Seq(Int) :
          /\ StartDisplacement(m, moved)
          /\ Len(moved) = Len(molecules[m].sites)
          /\ Len(original) = Len(molecules[m].sites)
          /\ trial' = [move |-> "displace", mol |-> m, species |-> molecules[m].species,
                       sites |-> molecules[m].sites, original |-> original]
          /\ \A k \in 1..Len(original) : original[k] = particles[molecules[m].sites[k]].pos
    BY <1>1, DisplacementFacts
  <1>3. PICK sites \in Seq(Nat) : sites = molecules[m].sites
    BY <1>1, TypeFacts
  <1>4. /\ \A k \in 1..Len(sites) : sites[k] \in 1..Len(particles)
        /\ \A k1, k2 \in 1..Len(sites) : sites[k1] = sites[k2] => k1 = k2
    BY <1>1, <1>3, MemberFacts, DistinctSites
  <1>5. particles \in Seq(Site)
    BY <1>1 DEF Types
  <1>6. particles' = Reposition(particles, sites, moved)
    BY <1>2, <1>3 DEF StartDisplacement
  <1>7. Reposition(Reposition(particles, sites, moved), sites, original) = particles
    BY <1>2, <1>3, <1>4, <1>5, RepositionBack
  <1>8. Committed' = Reposition(particles', sites, original)
    BY <1>2, <1>3 DEF Committed
  <1> QED BY <1>6, <1>7, <1>8

(* CellsFresh is preserved: a trial never touches the cell list, and every  *)
(* way back to "idle" leads either to the pool it describes or through a    *)
(* rebuild.                                                                 *)
LEMMA CellsFreshStep ==
  ASSUME IInv, Next
  PROVE  CellsFresh'
  <1>1. /\ Types /\ GuestsOwnedOnce /\ AttemptShape /\ AppendedLast /\ CellsFresh /\ Types'
    BY TypesStep DEF IInv
  <1>2. particles \in Seq(Site) /\ particles' \in Seq(Site)
    BY <1>1 DEF Types
  <1>3. NoTrial.move = "none"
    BY NoTrialFacts
  <1>4. /\ PopBack(particles, 0) = particles
        /\ PopBack(particles', 0) = particles'
    BY <1>2, PopBackZero
  <1>5. trial.move \in {"none", "delete"} => Committed = particles /\ Appended = 0
    BY DEF Committed, Appended
  <1>6. trial'.move \in {"none", "delete"} => Committed' = particles' /\ Appended' = 0
    BY DEF Committed, Appended
  <1>7. phase = "idle" => trial.move = "none" /\ cells = BinsOf(particles)
    BY <1>1, <1>4, <1>5 DEF AttemptShape, CellsFresh
  <1>8. ASSUME cells' = BinsOf(PopBack(Committed', Appended'))
        PROVE  CellsFresh'
    BY <1>8 DEF CellsFresh
  <1>9. CASE StartTranslation \/ StartRotation
    <2>1. PICK m \in 1..Len(molecules), moved \in Seq(Int), original \in Seq(Int) :
            /\ StartDisplacement(m, moved)
            /\ trial' = [move |-> "displace", mol |-> m, species |-> molecules[m].species,
                         sites |-> molecules[m].sites, original |-> original]
      BY <1>1, <1>9, DisplacementFacts
    <2>2. phase = "idle" /\ cells' = cells
      BY <2>1 DEF StartDisplacement
    <2>3. Committed' = particles
      BY <1>9, DisplacementCommitted
    <2>4. Appended' = 0
      BY <2>1 DEF Appended
    <2> QED BY <1>4, <1>7, <1>8, <2>2, <2>3, <2>4
  <1>10. ASSUME NEW move \in {"insert", "swap"}, NEW m, NEW sp \in Species,
                NEW ref \in Int, NEW o \in Orientations(sp), StartAppending(move, m, sp, ref, o)
         PROVE  CellsFresh'
    <2>1. /\ Place(sp, ref, o) \in Seq(Site) /\ Len(Place(sp, ref, o)) = NumSites(sp)
          /\ trial'.move = move /\ trial'.species = sp
      BY <1>10, PlaceFacts DEF StartAppending
    <2>2. Committed' = particles' /\ Appended' = NumSites(sp)
      BY <1>10, <2>1 DEF Committed, Appended
    <2>3. phase = "idle" /\ cells' = cells /\ particles' = particles \o Place(sp, ref, o)
      BY <1>10 DEF StartAppending
    <2>4. PopBack(particles \o Place(sp, ref, o), Len(Place(sp, ref, o))) = particles
      BY <1>2, <2>1, PopBackAppended
    <2>5. PopBack(Committed', Appended') = particles
      BY <2>1, <2>2, <2>3, <2>4
    <2> QED BY <1>7, <1>8, <2>3, <2>5
  <1>11. CASE StartInsertion
    <2>1. PICK sp \in Species, ref \in 0..(L - 1) : \E o \in Orientations(sp) :
            StartAppending("insert", 0, sp, ref, o)
      BY <1>11 DEF StartInsertion
    <2> QED BY <1>10, <2>1, ReferenceFacts
  <1>12. CASE StartSwap
    <2>1. PICK m \in DOMAIN molecules, c \in Positions :
            \E sp \in Species \ {molecules[m].species} : \E o \in Orientations(sp) :
              StartAppending("swap", m, sp, c, o)
      BY <1>12 DEF StartSwap
    <2> QED BY <1>10, <2>1, ReferenceFacts
  <1>13. CASE StartDeletion
    <2>1. phase = "idle" /\ UNCHANGED <<particles, cells>> /\ trial'.move = "delete"
      BY <1>13 DEF StartDeletion
    <2> QED BY <1>4, <1>6, <1>7, <1>8, <2>1
  <1>14. CASE RejectDeletion
    <2>1. phase = "trial" /\ trial.move = "delete" /\ UNCHANGED <<particles, cells>> /\ trial' = NoTrial
      BY <1>14 DEF RejectDeletion
    <2>2. cells = BinsOf(particles)
      BY <1>1, <1>4, <1>5, <2>1 DEF CellsFresh
    <2> QED BY <1>3, <1>4, <1>6, <1>8, <2>1, <2>2
  <1>15. CASE RejectDisplacement
    <2>1. /\ phase = "trial" /\ trial.move = "displace" /\ UNCHANGED cells /\ trial' = NoTrial
          /\ particles' = Reposition(particles, trial.sites, trial.original)
      BY <1>15 DEF RejectDisplacement
    <2>2. Committed = particles' /\ Appended = 0
      BY <2>1 DEF Committed, Appended
    <2>3. cells = BinsOf(particles')
      BY <1>1, <1>4, <2>1, <2>2 DEF CellsFresh
    <2> QED BY <1>3, <1>4, <1>6, <1>8, <2>1, <2>3
  <1>16. CASE RejectAppended
    <2>1. /\ phase = "trial" /\ trial.move \in {"insert", "swap"} /\ UNCHANGED cells /\ trial' = NoTrial
          /\ particles' = PopBack(particles, NumSites(trial.species))
      BY <1>16 DEF RejectAppended
    <2>2. Committed = particles /\ Appended = NumSites(trial.species)
      BY <2>1 DEF Committed, Appended
    <2>3. cells = BinsOf(particles')
      BY <1>1, <2>1, <2>2 DEF CellsFresh
    <2> QED BY <1>3, <1>4, <1>6, <1>8, <2>1, <2>3
  <1>17. CASE AcceptDisplacement \/ AcceptInsertion \/ AcceptDeletion \/ AcceptSwap \/ RemoveNext
    <2>1. phase' \in {"settling", "removing"}
      BY <1>17 DEF AcceptDisplacement, AcceptInsertion, AcceptDeletion, AcceptSwap, RemoveNext
    <2> QED BY <2>1 DEF CellsFresh
  <1>18. CASE Settle
    <2>1. phase = "settling" /\ cells' = BinsOf(particles) /\ UNCHANGED <<particles, trial>>
      BY <1>18 DEF Settle
    <2>2. trial'.move = "none"
      BY <1>1, <1>3, <2>1 DEF AttemptShape
    <2> QED BY <1>4, <1>6, <1>8, <2>1, <2>2
  <1> QED BY <1>9, <1>11, <1>12, <1>13, <1>14, <1>15, <1>16, <1>17, <1>18 DEF Next

-----------------------------------------------------------------------------
(* The theorems. *)

LEMMA InitIInv ==
  ASSUME Init
  PROVE  IInv
  <1>1. Framework \in Seq(Site) /\ FrameworkCount \in Nat
    BY CellAssumption DEF FrameworkCount
  <1>2. NoTrial.move = "none" /\ Len(<< >>) = 0
    BY NoTrialFacts, EmptySeq
  <1>3. /\ particles = Framework /\ molecules = << >> /\ cells = BinsOf(Framework)
        /\ phase = "idle" /\ trial = NoTrial /\ doomed = << >>
    BY DEF Init
  <1>4. /\ cells \in [(FrameworkCount + 1)..Len(Framework) -> 0..(NumBins - 1)]
        /\ DOMAIN cells = (FrameworkCount + 1)..Len(Framework)
    BY <1>1, <1>3, BinsOfFacts
  <1>5. Types
    <2>1. molecules \in Seq(Molecule) /\ doomed \in Seq(Nat) /\ Len(molecules) = 0
      BY <1>3, EmptySeq
    <2>2. trial \in [move : Moves, mol : 0..Len(molecules), species : Species,
                    sites : Seq(Nat), original : Seq(Int)]
      BY <1>3, <2>1, NoTrialFacts
    <2> QED BY <1>1, <1>3, <1>4, <2>1, <2>2 DEF Types, Phases
  <1>6. AttemptShape
    BY <1>2, <1>3 DEF AttemptShape
  <1>7. AppendedLast
    BY <1>1, <1>2, <1>3 DEF AppendedLast, Appended, FrameworkCount
  <1>8. GuestsOwnedOnce
    <2>1. GuestIndices = {}
      BY <1>1, <1>3 DEF GuestIndices, FrameworkCount
    <2>2. Unlisted = << >>
      BY <1>2, <1>3 DEF Unlisted
    <2>3. \A m \in 0..Len(molecules) : Len(IndexList(m)) = 0
      BY <1>2, <1>3, <2>2 DEF IndexList
    <2> QED BY <2>1, <2>3 DEF GuestsOwnedOnce
  <1>9. FrameworkFixed
    BY <1>1, <1>3 DEF FrameworkFixed, FrameworkCount
  <1>10. CellsFresh
    BY <1>1, <1>2, <1>3, PopBackZero DEF CellsFresh, Committed, Appended
  <1> QED BY <1>5, <1>6, <1>7, <1>8, <1>9, <1>10 DEF IInv

LEMMA StutterIInv ==
  ASSUME IInv, UNCHANGED vars
  PROVE  IInv'
  <1>1. /\ particles' = particles /\ molecules' = molecules /\ cells' = cells
        /\ phase' = phase /\ trial' = trial /\ doomed' = doomed
    BY DEF vars
  <1>2. Types' /\ AttemptShape'
    BY <1>1 DEF IInv, Types, AttemptShape
  <1>3. AppendedLast' /\ FrameworkFixed' /\ CellsFresh'
    BY <1>1 DEF IInv, AppendedLast, Appended, FrameworkFixed, CellsFresh, Committed, BinsOf,
                FrameworkCount
  <1>4. Unlisted' = Unlisted /\ GuestIndices' = GuestIndices /\ Len(molecules') = Len(molecules)
    BY <1>1 DEF Unlisted, GuestIndices, FrameworkCount
  <1>5. \A m \in 0..Len(molecules) : IndexList(m)' = IndexList(m)
    BY <1>1, <1>4 DEF IndexList
  <1>6. GuestsOwnedOnce'
    BY <1>4, <1>5, SameLists DEF IInv
  <1> QED BY <1>2, <1>3, <1>6 DEF IInv

(* IInv holds in every reachable state of the engine, whatever the mixture, *)
(* the framework, the cell and the number of molecules.                     *)
THEOREM Inductive == Spec => []IInv
  <1>1. Init => IInv
    BY InitIInv
  <1>2. IInv /\ [Next]_vars => IInv'
    <2> SUFFICES ASSUME IInv, [Next]_vars PROVE IInv'
      OBVIOUS
    <2>1. CASE Next
      BY <2>1, TypesStep, AttemptShapeStep, AppendedLastStep, GuestsOwnedOnceStep,
         FrameworkFixedStep, CellsFreshStep DEF IInv
    <2>2. CASE UNCHANGED vars
      BY <2>2, StutterIInv
    <2> QED BY <2>1, <2>2
  <1> QED BY <1>1, <1>2, PTL DEF Spec

LEMMA TypeHolds ==
  ASSUME IInv
  PROVE  TypeOK
  <1>1. Types /\ particles \in Seq(Site)
    BY DEF IInv, Types
  <1>2. ASSUME phase = "idle" PROVE DOMAIN cells = GuestIndices
    <2>1. trial.move = "none"
      BY <1>2, NoTrialFacts DEF IInv, AttemptShape
    <2>2. cells = BinsOf(particles)
      BY <1>1, <1>2, <2>1, PopBackZero DEF IInv, CellsFresh, Committed, Appended
    <2> QED BY <1>1, <2>2, BinsOfFacts DEF GuestIndices, FrameworkCount
  <1> QED BY <1>1, <1>2 DEF TypeOK

(* Type correctness: between attempts the cell list has a bin for exactly   *)
(* the guests now in the pool.                                              *)
THEOREM TypeCorrect == Spec => []TypeOK
  BY Inductive, TypeHolds, PTL

(* removeParticleIndices and the other moves keep the index lists right: no *)
(* guest is ever lost, shared, or taken for a framework atom.               *)
THEOREM OwnedOnce == Spec => []GuestsOwnedOnce
  <1>1. IInv => GuestsOwnedOnce
    BY DEF IInv
  <1> QED BY <1>1, Inductive, PTL

(* The framework stays in the first slots of the pool.                      *)
THEOREM FrameworkStays == Spec => []FrameworkFixed
  <1>1. IInv => FrameworkFixed
    BY DEF IInv
  <1> QED BY <1>1, Inductive, PTL

LEMMA InRange ==
  ASSUME NEW s \in Seq(Nat), NEW j
  PROVE  j \in Range(s) <=> \E k \in 1..Len(s) : s[k] = j
  BY DEF Range

(* The lists during a trial, by their owners. *)
LEMMA TrialLists ==
  ASSUME IInv, phase = "trial"
  PROVE  /\ trial.sites \in Seq(Nat)
         /\ trial.mol \in 0..Len(molecules)
         /\ trial.move \in {"displace", "insert", "delete", "swap"}
         /\ trial.move \in {"displace", "delete"} =>
              /\ Unlisted = << >> /\ Appended = 0
              /\ trial.mol # 0 /\ trial.sites = molecules[trial.mol].sites
         /\ trial.move \in {"insert", "swap"} =>
              /\ Unlisted = trial.sites
              /\ Appended \in Nat /\ FrameworkCount + Appended <= Len(particles)
              /\ Len(trial.sites) = Appended
              /\ \A k \in 1..Appended : trial.sites[k] = Len(particles) - Appended + k
         /\ trial.move = "insert" <=> trial.mol = 0
  <1>1. /\ Types /\ AttemptShape /\ AppendedLast
    BY DEF IInv
  <1>2. /\ trial.sites \in Seq(Nat) /\ trial.mol \in 0..Len(molecules) /\ trial.species \in Species
        /\ trial.move \in {"displace", "insert", "delete", "swap"}
    BY <1>1 DEF Types, AttemptShape, Moves
  <1>3. Len(molecules) \in Nat /\ Len(particles) \in Nat /\ FrameworkCount \in Nat
    BY <1>1, TypeFacts
  <1>4. trial.move \in {"displace", "delete", "swap"} => trial.mol \in 1..Len(molecules)
    BY <1>1 DEF AttemptShape
  <1>5. trial.move \in {"displace", "delete", "swap"} => trial.mol # 0
    BY <1>3, <1>4
  <1>6. ASSUME trial.move \in {"displace", "delete"}
        PROVE  Unlisted = << >> /\ Appended = 0 /\ trial.sites = molecules[trial.mol].sites
    BY <1>1, <1>6 DEF Unlisted, Appended, AttemptShape
  <1>7. ASSUME trial.move \in {"insert", "swap"}
        PROVE  /\ Unlisted = trial.sites
               /\ Appended \in Nat /\ FrameworkCount + Appended <= Len(particles)
               /\ Len(trial.sites) = Appended
               /\ \A k \in 1..Appended : trial.sites[k] = Len(particles) - Appended + k
    <2>1. Unlisted = trial.sites /\ Appended \in Nat
      BY <1>2, <1>7, NumSitesFacts DEF Unlisted, Appended
    <2>2. /\ trial.sites = [k \in 1..Appended |-> Len(particles) - Appended + k]
          /\ FrameworkCount + Appended <= Len(particles)
      BY <1>1, <1>7 DEF AppendedLast
    <2>3. trial.sites \in [1..Appended -> Nat]
      BY <1>3, <2>1, <2>2
    <2> QED BY <2>1, <2>2, <2>3, SeqOfFunction
  <1>8. trial.move = "insert" => trial.mol = 0
    BY <1>1 DEF AttemptShape
  <1> QED BY <1>2, <1>5, <1>6, <1>7, <1>8

(* In a trial the guests that are in the cell list and not excluded are the *)
(* sites of the other molecules.                                            *)
LEMMA OthersInList ==
  ASSUME IInv, phase = "trial", NEW j
  PROVE  (j \in (FrameworkCount + 1)..(Len(particles) - Appended) /\ j \notin Excluded) <=>
         (/\ j \in GuestIndices
          /\ \E m \in DOMAIN molecules \ {trial.mol} : j \in Range(molecules[m].sites))
  <1>1. /\ Types /\ GuestsOwnedOnce
    BY DEF IInv
  <1>2. /\ Len(molecules) \in Nat /\ Len(particles) \in Nat /\ FrameworkCount \in Nat
        /\ DOMAIN molecules = 1..Len(molecules)
        /\ \A m \in 1..Len(molecules) : molecules[m].sites \in Seq(Nat)
    BY <1>1, TypeFacts
  <1>3. GuestIndices = (FrameworkCount + 1)..Len(particles)
    BY DEF GuestIndices
  <1>4. IndexList(0) = Unlisted /\ \A m \in 1..Len(molecules) : IndexList(m) = molecules[m].sites
    BY <1>2 DEF IndexList
  <1>5. Appended \in Nat
    BY TrialLists
  <1>6. trial.sites \in Seq(Nat)
    BY TrialLists
  <1>7. ASSUME j \in (FrameworkCount + 1)..(Len(particles) - Appended), j \notin Excluded
        PROVE  /\ j \in GuestIndices
               /\ \E m \in DOMAIN molecules \ {trial.mol} : j \in Range(molecules[m].sites)
    <2>1. j \in GuestIndices
      BY <1>2, <1>3, <1>5, <1>7
    <2>2. PICK m \in 0..Len(molecules) : \E k \in 1..Len(IndexList(m)) : IndexList(m)[k] = j
      BY <1>1, <2>1 DEF GuestsOwnedOnce
    <2>3. j \notin Range(trial.sites)
      BY <1>7 DEF Excluded
    <2>4. ~ \E k \in 1..Len(trial.sites) : trial.sites[k] = j
      BY <1>6, <2>3, InRange
    <2>5. m # 0
      <3>1. CASE trial.move \in {"displace", "delete"}
        BY <1>4, <2>2, <3>1, TrialLists, EmptySeq
      <3>2. CASE trial.move \in {"insert", "swap"}
        BY <1>4, <2>2, <2>4, <3>2, TrialLists
      <3> QED BY <3>1, <3>2, TrialLists
    <2>6. m \in 1..Len(molecules) /\ j \in Range(molecules[m].sites)
      <3>1. m \in 1..Len(molecules) /\ molecules[m].sites \in Seq(Nat)
        BY <1>2, <2>5
      <3> QED BY <1>4, <2>2, <3>1, InRange
    <2>7. m # trial.mol
      <3>1. CASE trial.move \in {"displace", "delete"}
        BY <2>3, <2>6, <3>1, TrialLists
      <3>2. CASE trial.move = "insert"
        BY <2>5, <3>2, TrialLists
      <3>3. CASE trial.move = "swap"
        BY <1>7, <2>6, <3>3 DEF Excluded
      <3> QED BY <3>1, <3>2, <3>3, TrialLists
    <2> QED BY <1>2, <2>1, <2>6, <2>7
  <1>8. ASSUME j \in GuestIndices,
               NEW m \in DOMAIN molecules \ {trial.mol}, j \in Range(molecules[m].sites)
        PROVE  j \in (FrameworkCount + 1)..(Len(particles) - Appended) /\ j \notin Excluded
    <2>1. m \in 1..Len(molecules) /\ m # 0 /\ m # trial.mol /\ molecules[m].sites \in Seq(Nat)
      BY <1>2, <1>8
    <2>2. PICK k \in 1..Len(molecules[m].sites) : molecules[m].sites[k] = j
      BY <1>8, <2>1, InRange
    <2>3. m \in 0..Len(molecules) /\ 0 \in 0..Len(molecules)
      BY <1>2, <2>1
    <2>4. ASSUME NEW n \in 0..Len(molecules), n # m,
                 NEW q \in 1..Len(IndexList(n)), IndexList(n)[q] = j
          PROVE  FALSE
      BY <1>1, <1>4, <2>1, <2>2, <2>3, <2>4 DEF GuestsOwnedOnce
    <2>5. ASSUME trial.move # "insert", NEW q \in 1..Len(molecules[trial.mol].sites),
                 molecules[trial.mol].sites[q] = j
          PROVE  FALSE
      <3>1. trial.mol \in 1..Len(molecules) /\ trial.mol \in 0..Len(molecules)
        BY <1>2, <2>5, TrialLists
      <3>2. IndexList(trial.mol) = molecules[trial.mol].sites
        BY <1>4, <3>1
      <3> QED BY <2>1, <2>4, <2>5, <3>1, <3>2
    <2>6. ASSUME NEW q \in 1..Len(trial.sites), trial.sites[q] = j
          PROVE  FALSE
      <3>1. CASE trial.move \in {"displace", "delete"}
        BY <2>5, <2>6, <3>1, TrialLists
      <3>2. CASE trial.move \in {"insert", "swap"}
        BY <1>4, <2>1, <2>3, <2>4, <2>6, <3>2, TrialLists
      <3> QED BY <3>1, <3>2, TrialLists
    <2>7. j \notin Range(trial.sites)
      BY <1>6, <2>6, InRange
    <2>8. trial.move = "swap" => j \notin Range(molecules[trial.mol].sites)
      <3> SUFFICES ASSUME trial.move = "swap" PROVE j \notin Range(molecules[trial.mol].sites)
        OBVIOUS
      <3>1. trial.mol \in 1..Len(molecules)
        BY <1>2, TrialLists
      <3>2. molecules[trial.mol].sites \in Seq(Nat)
        BY <1>2, <3>1
      <3> QED BY <2>5, <3>2, InRange
    <2>9. j \notin Excluded
      BY <2>7, <2>8 DEF Excluded
    <2>10. ~ (j > Len(particles) - Appended)
      <3> SUFFICES ASSUME j > Len(particles) - Appended PROVE FALSE
        OBVIOUS
      <3>1. CASE trial.move \in {"displace", "delete"}
        BY <1>2, <1>3, <1>8, <3>1, TrialLists
      <3>2. CASE trial.move \in {"insert", "swap"}
        <4> DEFINE q == j - (Len(particles) - Appended)
        <4>1. q \in 1..Appended /\ j = Len(particles) - Appended + q
          BY <1>2, <1>3, <1>5, <1>8
        <4>2. trial.sites[q] = j /\ q \in 1..Len(trial.sites)
          BY <3>2, <4>1, TrialLists
        <4> QED BY <2>6, <4>2
      <3> QED BY <3>1, <3>2, TrialLists
    <2> QED BY <1>2, <1>3, <1>5, <1>8, <2>9, <2>10
  <1> QED BY <1>7, <1>8

(* The bins a trial reads are those of the other molecules' sites now.      *)
LEMMA BinsInTrial ==
  ASSUME IInv, phase = "trial"
  PROVE  /\ DOMAIN cells = (FrameworkCount + 1)..(Len(particles) - Appended)
         /\ \A j \in DOMAIN cells : j \notin Excluded => cells[j] = Bin(particles[j].pos)
  <1>1. /\ Types /\ AttemptShape /\ CellsFresh
    BY DEF IInv
  <1>2. /\ particles \in Seq(Site) /\ Len(particles) \in Nat /\ FrameworkCount \in Nat
        /\ trial.sites \in Seq(Nat) /\ trial.original \in Seq(Int)
    BY <1>1, TypeFacts DEF Types
  <1>3. Appended \in 0..Len(particles)
    BY <1>2, TrialLists
  <1>4. /\ Committed \in Seq(Site) /\ Len(Committed) = Len(particles)
        /\ \A j \in 1..Len(particles) : j \notin Excluded => Committed[j] = particles[j]
    <2>1. CASE trial.move = "displace"
      <3>1. Committed = Reposition(particles, trial.sites, trial.original)
        BY <2>1 DEF Committed
      <3>2. Len(trial.original) = Len(trial.sites)
        BY <1>1, <2>1 DEF AttemptShape
      <3>3. /\ Committed \in Seq(Site) /\ Len(Committed) = Len(particles)
            /\ \A j \in 1..Len(particles) :
                 (\A k \in 1..Len(trial.sites) : trial.sites[k] # j) => Committed[j] = particles[j]
        BY <1>2, <3>1, <3>2, RepositionFacts
      <3>4. \A j \in 1..Len(particles) :
              j \notin Excluded => \A k \in 1..Len(trial.sites) : trial.sites[k] # j
        BY <1>2, InRange DEF Excluded
      <3> QED BY <3>3, <3>4
    <2>2. CASE trial.move # "displace"
      BY <1>2, <2>2 DEF Committed
    <2> QED BY <2>1, <2>2
  <1> DEFINE P == PopBack(Committed, Appended)
  <1>5. /\ P \in Seq(Site) /\ Len(P) = Len(particles) - Appended
        /\ \A i \in 1..(Len(particles) - Appended) : P[i] = Committed[i]
    BY <1>3, <1>4, PopBackFacts
  <1>6. cells = BinsOf(P)
    BY <1>1 DEF CellsFresh
  <1> HIDE DEF P
  <1>7. DOMAIN cells = (FrameworkCount + 1)..(Len(particles) - Appended)
    BY <1>5, <1>6, BinsOfFacts
  <1>8. \A j \in DOMAIN cells : cells[j] = Bin(P[j].pos)
    BY <1>5, <1>6, <1>7 DEF BinsOf, FrameworkCount
  <1>9. \A j \in DOMAIN cells : j \in 1..(Len(particles) - Appended) /\ j \in 1..Len(particles)
    BY <1>2, <1>3, <1>7
  <1> QED BY <1>4, <1>5, <1>7, <1>8, <1>9

(* A trial energy is summed over the other molecules' sites in reach, all   *)
(* of them and no others: the cell list is never stale when it is read.     *)
THEOREM SeesOthers == Spec => []TrialSeesOthers
  <1>1. IInv => TrialSeesOthers
    <2> SUFFICES ASSUME IInv, phase = "trial", NEW k \in 1..Len(trial.sites)
                 PROVE  Scanned(trial.sites[k]) =
                          {j \in GuestIndices :
                             /\ Visits(particles[trial.sites[k]].pos, Bin(particles[j].pos))
                             /\ \E m \in DOMAIN molecules \ {trial.mol} :
                                  j \in Range(molecules[m].sites)}
      BY DEF TrialSeesOthers
    <2> DEFINE x == particles[trial.sites[k]].pos
               Other(j) == \E m \in DOMAIN molecules \ {trial.mol} : j \in Range(molecules[m].sites)
    <2>1. \A j : (j \in DOMAIN cells /\ j \notin Excluded) <=> (j \in GuestIndices /\ Other(j))
      BY BinsInTrial, OthersInList
    <2>2. \A j \in DOMAIN cells : j \notin Excluded => cells[j] = Bin(particles[j].pos)
      BY BinsInTrial
    <2>3. Scanned(trial.sites[k]) = {j \in DOMAIN cells : Visits(x, cells[j])} \ Excluded
      BY DEF Scanned
    <2> HIDE DEF Other, x
    <2>4. {j \in DOMAIN cells : Visits(x, cells[j])} \ Excluded =
            {j \in GuestIndices : Visits(x, Bin(particles[j].pos)) /\ Other(j)}
      BY <2>1, <2>2
    <2> QED BY <2>3, <2>4 DEF Other, x
  <1> QED BY <1>1, Inductive, PTL

-----------------------------------------------------------------------------
(* The engine implements MoleculeList. *)

ListMolecule == [species : Species, sites : Seq(Site)]

(* The body behind a list of indices into the pool. *)
LEMMA BodyFacts ==
  ASSUME NEW P \in Seq(Site), NEW sites \in Seq(Nat),
         \A k \in 1..Len(sites) : sites[k] \in 1..Len(P)
  PROVE  /\ BodyOf(P, sites) \in Seq(Site)
         /\ Len(BodyOf(P, sites)) = Len(sites)
         /\ \A k \in 1..Len(sites) : BodyOf(P, sites)[k] = P[sites[k]]
  <1>1. \A k \in 1..Len(sites) : P[sites[k]] \in Site
    OBVIOUS
  <1>2. BodyOf(P, sites) \in [1..Len(sites) -> Site]
    BY <1>1 DEF BodyOf
  <1>3. Len(sites) \in Nat
    OBVIOUS
  <1>4. BodyOf(P, sites) \in Seq(Site) /\ Len(BodyOf(P, sites)) = Len(sites)
    BY <1>2, <1>3, SeqOfFunction
  <1> QED BY <1>4 DEF BodyOf

(* The committed pool: a well-typed pool of the same size, which differs    *)
(* from particles only at the sites of a displaced molecule.                *)
LEMMA CommittedFacts ==
  ASSUME IInv
  PROVE  /\ Committed \in Seq(Site) /\ Len(Committed) = Len(particles)
         /\ trial.move # "displace" => Committed = particles
         /\ \A i \in 1..Len(particles) :
              (\A k \in 1..Len(trial.sites) : trial.sites[k] # i) => Committed[i] = particles[i]
  <1>1. Types /\ AttemptShape
    BY DEF IInv
  <1>2. /\ particles \in Seq(Site) /\ trial.sites \in Seq(Nat) /\ trial.original \in Seq(Int)
    BY <1>1 DEF Types
  <1>3. CASE trial.move = "displace"
    <2>1. Len(trial.original) = Len(trial.sites)
      BY <1>1, <1>3 DEF AttemptShape
    <2>2. Committed = Reposition(particles, trial.sites, trial.original)
      BY <1>3 DEF Committed
    <2> QED BY <1>2, <1>3, <2>1, <2>2, RepositionFacts
  <1>4. CASE trial.move # "displace"
    BY <1>2, <1>4 DEF Committed
  <1> QED BY <1>3, <1>4

(* Config by its entries. *)
LEMMA ConfigFacts ==
  ASSUME IInv
  PROVE  /\ Config \in Seq(ListMolecule) /\ Len(Config) = Len(molecules)
         /\ DOMAIN Config = 1..Len(molecules)
         /\ \A m \in 1..Len(molecules) :
              /\ Config[m] = [species |-> molecules[m].species,
                              sites |-> BodyOf(Committed, molecules[m].sites)]
              /\ Config[m].species = molecules[m].species
              /\ Config[m].sites = BodyOf(Committed, molecules[m].sites)
              /\ Config[m].sites \in Seq(Site)
              /\ Len(Config[m].sites) = Len(molecules[m].sites)
              /\ \A k \in 1..Len(molecules[m].sites) :
                   Config[m].sites[k] = Committed[molecules[m].sites[k]]
  <1>1. Types /\ GuestsOwnedOnce
    BY DEF IInv
  <1>2. /\ Len(molecules) \in Nat
        /\ \A m \in 1..Len(molecules) :
             molecules[m].species \in Species /\ molecules[m].sites \in Seq(Nat)
    BY <1>1, TypeFacts
  <1>3. ASSUME NEW m \in 1..Len(molecules)
        PROVE  /\ BodyOf(Committed, molecules[m].sites) \in Seq(Site)
               /\ Len(BodyOf(Committed, molecules[m].sites)) = Len(molecules[m].sites)
               /\ \A k \in 1..Len(molecules[m].sites) :
                    BodyOf(Committed, molecules[m].sites)[k] = Committed[molecules[m].sites[k]]
    <2>1. \A k \in 1..Len(molecules[m].sites) : molecules[m].sites[k] \in 1..Len(particles)
      BY <1>1, MemberFacts
    <2>2. Committed \in Seq(Site) /\ Len(Committed) = Len(particles)
      BY CommittedFacts
    <2> QED BY <1>2, <2>1, <2>2, BodyFacts
  <1>4. \A m \in 1..Len(molecules) :
          [species |-> molecules[m].species, sites |-> BodyOf(Committed, molecules[m].sites)]
            \in ListMolecule
    BY <1>2, <1>3 DEF ListMolecule
  <1>5. Config \in [1..Len(molecules) -> ListMolecule]
    BY <1>4 DEF Config
  <1>6. /\ Config \in Seq(ListMolecule) /\ Len(Config) = Len(molecules)
        /\ DOMAIN Config = 1..Len(molecules)
    BY <1>2, <1>5, SeqOfFunction
  <1>7. \A m \in 1..Len(molecules) :
          Config[m] = [species |-> molecules[m].species,
                       sites |-> BodyOf(Committed, molecules[m].sites)]
    BY DEF Config
  <1>8. \A m \in 1..Len(molecules) :
          /\ Config[m].species = molecules[m].species
          /\ Config[m].sites = BodyOf(Committed, molecules[m].sites)
    <2> SUFFICES ASSUME NEW m \in 1..Len(molecules)
                 PROVE  /\ Config[m].species = molecules[m].species
                        /\ Config[m].sites = BodyOf(Committed, molecules[m].sites)
      OBVIOUS
    <2>1. Config[m] = [species |-> molecules[m].species,
                       sites |-> BodyOf(Committed, molecules[m].sites)]
      BY <1>7
    <2> QED BY <2>1
  <1> QED BY <1>3, <1>6, <1>7, <1>8

(* A step after which every molecule has the species and the sites it had   *)
(* is a stutter of the list.                                                *)
LEMMA SameConfig ==
  ASSUME IInv, IInv', Len(molecules') = Len(molecules),
         \A m \in 1..Len(molecules) :
           /\ molecules'[m].species = molecules[m].species
           /\ Len(molecules'[m].sites) = Len(molecules[m].sites)
           /\ \A k \in 1..Len(molecules[m].sites) :
                Committed'[molecules'[m].sites[k]] = Committed[molecules[m].sites[k]]
  PROVE  Config' = Config
  <1>1. Len(molecules) \in Nat /\ \A m \in 1..Len(molecules) : Len(molecules[m].sites) \in Nat
    BY TypeFacts DEF IInv
  <1>2. \A m \in 1..Len(molecules) :
          BodyOf(Committed', molecules'[m].sites) = BodyOf(Committed, molecules[m].sites)
    BY DEF BodyOf
  <1> QED BY <1>2 DEF Config

(* A trial insertion or swap is a placed template.                          *)
LEMMA AppendedBody ==
  ASSUME Types, NEW move, NEW m, NEW sp \in Species, NEW ref \in Int,
         NEW o \in Orientations(sp), StartAppending(move, m, sp, ref, o)
  PROVE  BodyOf(particles', trial'.sites) = Place(sp, ref, o)
  <1>1. /\ Place(sp, ref, o) \in Seq(Site) /\ Len(Place(sp, ref, o)) = NumSites(sp)
        /\ NumSites(sp) \in Nat
    BY PlaceFacts
  <1>2. /\ particles' \in Seq(Site) /\ Len(particles') = Len(particles) + NumSites(sp)
        /\ trial'.sites \in Seq(Nat) /\ Len(trial'.sites) = NumSites(sp)
    BY AppendingFacts
  <1>3. \A k \in 1..NumSites(sp) : trial'.sites[k] = Len(particles) + k
    BY AppendingFacts
  <1>4. \A k \in 1..Len(trial'.sites) : trial'.sites[k] \in 1..Len(particles')
    <2>1. Len(particles) \in Nat
      BY TypeFacts
    <2>2. \A k \in 1..NumSites(sp) : Len(particles) + k \in 1..Len(particles')
      BY <1>1, <1>2, <2>1
    <2> QED BY <1>2, <1>3, <2>2
  <1>5. /\ BodyOf(particles', trial'.sites) \in Seq(Site)
        /\ Len(BodyOf(particles', trial'.sites)) = NumSites(sp)
        /\ \A k \in 1..NumSites(sp) :
             BodyOf(particles', trial'.sites)[k] = particles'[trial'.sites[k]]
    BY <1>2, <1>4, BodyFacts
  <1>6. \A k \in 1..NumSites(sp) : BodyOf(particles', trial'.sites)[k] = Place(sp, ref, o)[k]
    <2>1. \A k \in 1..NumSites(sp) : particles'[Len(particles) + k] = Place(sp, ref, o)[k]
      BY AppendingFacts
    <2> QED BY <1>3, <1>5, <2>1
  <1> QED BY <1>1, <1>5, <1>6, SeqEqual

(* TrialGeometry holds after every step: only the steps that start a trial  *)
(* can set it up, and every other step clears the trial or comes after it.  *)
LEMMA TrialGeometryStep ==
  ASSUME IInv, TrialGeometry, Next
  PROVE  TrialGeometry'
  <1>1. /\ Types /\ GuestsOwnedOnce /\ AttemptShape
    BY DEF IInv
  <1>2. ASSUME trial'.move \in {"none", "delete"} PROVE TrialGeometry'
    BY <1>2 DEF TrialGeometry
  <1>3. NoTrial.move = "none"
    BY NoTrialFacts
  <1>4. CASE StartTranslation \/ StartRotation
    <2>1. PICK m \in 1..Len(molecules), moved \in Seq(Int), original \in Seq(Int) :
            /\ StartDisplacement(m, moved)
            /\ Len(moved) = Len(molecules[m].sites)
            /\ Len(original) = Len(molecules[m].sites)
            /\ trial' = [move |-> "displace", mol |-> m, species |-> molecules[m].species,
                         sites |-> molecules[m].sites, original |-> original]
            /\ \/ \E d \in Shifts : \A k \in 1..Len(moved) : moved[k] = original[k] + d
               \/ \E c \in Positions :
                    /\ IsCentroid(c, BodyOf(particles, molecules[m].sites))
                    /\ \A k \in 1..Len(moved) : moved[k] = 2 * c - original[k]
      BY <1>1, <1>4, DisplacementFacts
    <2>2. PICK sites \in Seq(Nat) : sites = molecules[m].sites
      BY <1>1, TypeFacts
    <2>3. /\ \A k \in 1..Len(sites) : sites[k] \in 1..Len(particles)
          /\ \A k1, k2 \in 1..Len(sites) : sites[k1] = sites[k2] => k1 = k2
      BY <1>1, <2>2, MemberFacts, DistinctSites
    <2>4. particles' = Reposition(particles, sites, moved) /\ particles \in Seq(Site)
      BY <1>1, <2>1, <2>2 DEF StartDisplacement, Types
    <2>5. \A k \in 1..Len(sites) : particles'[sites[k]].pos = moved[k]
      <3>1. Len(moved) = Len(sites)
        BY <2>1, <2>2
      <3>2. \A k \in 1..Len(sites) : Reposition(particles, sites, moved)[sites[k]].pos = moved[k]
        BY <2>3, <2>4, <3>1, RepositionMoves, ZenonT(30)
      <3> QED BY <2>4, <3>2
    <2>6. Committed' = particles
      BY <1>4, DisplacementCommitted
    <2>7. trial'.move = "displace" /\ trial'.sites = sites /\ trial'.original = original
      BY <2>1, <2>2
    <2>8. \/ \E d \in Shifts : \A k \in 1..Len(sites) :
               particles'[sites[k]].pos = original[k] + d
          \/ \E c \in Positions :
               /\ IsCentroid(c, BodyOf(Committed', sites))
               /\ \A k \in 1..Len(sites) : particles'[sites[k]].pos = 2 * c - original[k]
      <3>1. CASE \E d \in Shifts : \A k \in 1..Len(moved) : moved[k] = original[k] + d
        BY <2>1, <2>2, <2>5, <3>1
      <3>2. CASE \E c \in Positions :
                   /\ IsCentroid(c, BodyOf(particles, molecules[m].sites))
                   /\ \A k \in 1..Len(moved) : moved[k] = 2 * c - original[k]
        BY <2>1, <2>2, <2>5, <2>6, <3>2
      <3> QED BY <2>1, <3>1, <3>2
    <2> QED BY <2>7, <2>8 DEF TrialGeometry
  <1>5. CASE StartInsertion
    <2>1. PICK sp \in Species, ref \in 0..(L - 1) : \E o \in Orientations(sp) :
            StartAppending("insert", 0, sp, ref, o)
      BY <1>5 DEF StartInsertion
    <2>2. PICK o \in Orientations(sp) : StartAppending("insert", 0, sp, ref, o)
      BY <2>1
    <2>3. BodyOf(particles', trial'.sites) = Place(sp, ref, o)
      BY <1>1, <2>2, ReferenceFacts, AppendedBody
    <2>4. trial'.move = "insert" /\ trial'.species = sp
      BY <2>2 DEF StartAppending
    <2> QED BY <2>3, <2>4 DEF TrialGeometry
  <1>6. CASE StartSwap
    <2>1. PICK m \in DOMAIN molecules, c \in Positions :
            /\ IsCentroid(c, BodyOf(particles, molecules[m].sites))
            /\ \E sp \in Species \ {molecules[m].species} : \E o \in Orientations(sp) :
                 StartAppending("swap", m, sp, c, o)
      BY <1>6 DEF StartSwap
    <2>2. PICK sp \in Species \ {molecules[m].species} : \E o \in Orientations(sp) :
            StartAppending("swap", m, sp, c, o)
      BY <2>1
    <2>3. PICK o \in Orientations(sp) : StartAppending("swap", m, sp, c, o)
      BY <2>2
    <2>4. BodyOf(particles', trial'.sites) = Place(sp, c, o)
      BY <1>1, <2>3, ReferenceFacts, AppendedBody
    <2>5. trial'.move = "swap" /\ trial'.species = sp /\ trial'.mol = m /\ molecules' = molecules
      BY <2>3 DEF StartAppending
    <2>6. m \in 1..Len(molecules) /\ molecules[m].sites \in Seq(Nat) /\ particles \in Seq(Site)
      BY <1>1, TypeFacts DEF Types
    <2>7. BodyOf(particles', molecules[m].sites) = BodyOf(particles, molecules[m].sites)
      <3>1. \A i \in 1..Len(particles) : particles'[i] = particles[i]
        BY <1>1, <2>3, ReferenceFacts, AppendingFacts
      <3>2. \A k \in 1..Len(molecules[m].sites) : molecules[m].sites[k] \in 1..Len(particles)
        BY <1>1, <2>6, MemberFacts
      <3> QED BY <3>1, <3>2 DEF BodyOf
    <2> QED BY <2>1, <2>4, <2>5, <2>7 DEF TrialGeometry
  <1>7. CASE StartDeletion
    <2>1. trial'.move = "delete"
      BY <1>7 DEF StartDeletion
    <2> QED BY <1>2, <2>1
  <1>8. CASE \/ AcceptDisplacement \/ RejectDisplacement \/ AcceptInsertion \/ RejectAppended
             \/ AcceptDeletion \/ RejectDeletion \/ AcceptSwap
    <2>1. trial' = NoTrial
      BY <1>8 DEF AcceptDisplacement, RejectDisplacement, AcceptInsertion, RejectAppended,
                  AcceptDeletion, RejectDeletion, AcceptSwap
    <2> QED BY <1>2, <1>3, <2>1
  <1>9. CASE RemoveNext \/ Settle
    <2>1. phase # "trial" /\ trial' = trial
      BY <1>9 DEF RemoveNext, Settle
    <2>2. trial'.move = "none"
      BY <1>1, <1>3, <2>1 DEF AttemptShape
    <2> QED BY <1>2, <2>2
  <1> QED BY <1>4, <1>5, <1>6, <1>7, <1>8, <1>9 DEF Next

(* The committed sites of a displaced molecule are the original ones.       *)
LEMMA DisplacedSites ==
  ASSUME IInv, trial.move = "displace"
  PROVE  /\ trial.mol \in 1..Len(molecules) /\ trial.sites = molecules[trial.mol].sites
         /\ \A k \in 1..Len(trial.sites) :
              /\ trial.sites[k] \in 1..Len(particles)
              /\ Committed[trial.sites[k]] \in Site /\ particles[trial.sites[k]] \in Site
              /\ Committed[trial.sites[k]].pos = trial.original[k]
              /\ Committed[trial.sites[k]].kind = particles[trial.sites[k]].kind
  <1>1. Types /\ GuestsOwnedOnce /\ AttemptShape
    BY DEF IInv
  <1>2. /\ particles \in Seq(Site) /\ trial.sites \in Seq(Nat) /\ trial.original \in Seq(Int)
    BY <1>1 DEF Types
  <1>3. /\ trial.mol \in 1..Len(molecules) /\ trial.sites = molecules[trial.mol].sites
        /\ Len(trial.original) = Len(trial.sites)
    BY <1>1 DEF AttemptShape
  <1>4. /\ \A k \in 1..Len(trial.sites) : trial.sites[k] \in 1..Len(particles)
        /\ \A k1, k2 \in 1..Len(trial.sites) : trial.sites[k1] = trial.sites[k2] => k1 = k2
    BY <1>1, <1>3, MemberFacts, DistinctSites
  <1>5. Committed = Reposition(particles, trial.sites, trial.original)
    BY DEF Committed
  <1>6. \A k \in 1..Len(trial.sites) : Committed[trial.sites[k]].pos = trial.original[k]
    BY <1>2, <1>3, <1>4, <1>5, RepositionMoves, ZenonT(30)
  <1>7. /\ Committed \in Seq(Site) /\ Len(Committed) = Len(particles)
        /\ \A i \in 1..Len(particles) : Committed[i].kind = particles[i].kind
    BY <1>2, <1>3, <1>5, RepositionFacts
  <1>8. \A i \in 1..Len(particles) : Committed[i] \in Site /\ particles[i] \in Site
    BY <1>2, <1>7
  <1> QED BY <1>3, <1>4, <1>6, <1>7, <1>8

(* A step that changes one entry of the list.                               *)
LEMMA OneEntry ==
  ASSUME IInv, IInv', Len(molecules') = Len(molecules), NEW mol \in 1..Len(molecules),
         NEW entry, Config'[mol] = entry,
         \A m \in 1..Len(molecules) : m # mol =>
           /\ molecules'[m] = molecules[m]
           /\ \A k \in 1..Len(molecules[m].sites) :
                Committed'[molecules[m].sites[k]] = Committed[molecules[m].sites[k]]
  PROVE  Config' = [Config EXCEPT ![mol] = entry]
  <1>1. /\ DOMAIN Config = 1..Len(molecules)
        /\ Config = [m \in 1..Len(molecules) |-> [species |-> molecules[m].species,
                        sites |-> BodyOf(Committed, molecules[m].sites)]]
    BY ConfigFacts DEF Config
  <1>2. Config' = [m \in 1..Len(molecules) |-> [species |-> molecules'[m].species,
                        sites |-> BodyOf(Committed', molecules'[m].sites)]]
    BY DEF Config
  <1>3. \A m \in 1..Len(molecules) : m # mol =>
          BodyOf(Committed', molecules'[m].sites) = BodyOf(Committed, molecules[m].sites)
    BY DEF BodyOf
  <1>4. \A m \in 1..Len(molecules) : m # mol => Config'[m] = Config[m]
    BY <1>1, <1>2, <1>3
  <1> QED BY <1>1, <1>2, <1>4

(* The list's own copies of the templates' operators are the engine's.      *)
LEMMA SameCentroid ==
  \A c, body : List!IsCentroid(c, body) <=> IsCentroid(c, body)
  <1>1. ASSUME NEW f PROVE List!SumFunction(f) = SumFunction(f)
    BY DEF SumFunction, List!SumFunction, SumFunctionOnSet, List!SumFunctionOnSet,
           MapThenFoldSet, List!MapThenFoldSet, FoldFunctionOnSet, List!FoldFunctionOnSet
  <1> QED BY <1>1 DEF IsCentroid, List!IsCentroid
LEMMA SameTemplates ==
  /\ \A sp, ref, o : List!Place(sp, ref, o) = Place(sp, ref, o)
  /\ \A sp : List!Orientations(sp) = Orientations(sp)
  /\ \A ms, m : List!EraseAt(ms, m) = EraseAt(ms, m)
  BY DEF Place, List!Place, NumSites, List!NumSites, LocalOffset, List!LocalOffset,
         Orientations, List!Orientations, EraseAt, List!EraseAt

(* An accepted displacement changes one entry of the list.                  *)
LEMMA DisplacementEntry ==
  ASSUME IInv, IInv', AcceptDisplacement
  PROVE  /\ trial.mol \in DOMAIN Config
         /\ Config[trial.mol].sites = BodyOf(Committed, trial.sites)
         /\ Config' = [Config EXCEPT ![trial.mol] =
                         [species |-> molecules[trial.mol].species,
                          sites |-> BodyOf(particles, trial.sites)]]
  <1>1. Types /\ GuestsOwnedOnce /\ trial.move = "displace"
    BY DEF IInv, AcceptDisplacement
  <1>2. /\ molecules' = molecules /\ particles' = particles /\ Committed' = particles
    BY NoTrialFacts DEF AcceptDisplacement, Committed
  <1>3. PICK mol \in 1..Len(molecules) : mol = trial.mol /\ trial.sites = molecules[mol].sites
    BY <1>1, DisplacedSites
  <1>4. PICK sites \in Seq(Nat) : sites = trial.sites
    BY <1>1 DEF Types
  <1>6. /\ DOMAIN Config = 1..Len(molecules)
        /\ Config[mol].sites = BodyOf(Committed, sites)
    BY <1>3, <1>4, ConfigFacts
  <1>7. Config'[mol] = [species |-> molecules[mol].species, sites |-> BodyOf(particles, sites)]
    BY <1>2, <1>3, <1>4 DEF Config
  <1>8. \A m \in 1..Len(molecules) : m # mol =>
          \A k \in 1..Len(molecules[m].sites) :
            Committed'[molecules[m].sites[k]] = Committed[molecules[m].sites[k]]
    <2> SUFFICES ASSUME NEW m \in 1..Len(molecules), m # mol, NEW k \in 1..Len(molecules[m].sites)
                 PROVE  Committed'[molecules[m].sites[k]] = Committed[molecules[m].sites[k]]
      OBVIOUS
    <2>1. \A q \in 1..Len(trial.sites) : trial.sites[q] # molecules[m].sites[k]
      BY <1>1, <1>3, DistinctSites
    <2>2. molecules[m].sites[k] \in 1..Len(particles)
      BY <1>1, MemberFacts
    <2> QED BY <1>2, <2>1, <2>2, CommittedFacts
  <1>9. Config' = [Config EXCEPT ![mol] =
                     [species |-> molecules[mol].species, sites |-> BodyOf(particles, sites)]]
    BY <1>2, <1>7, <1>8, OneEntry
  <1> QED BY <1>3, <1>4, <1>6, <1>9

(* An accepted displacement translates or rotates one molecule of the list. *)
LEMMA DisplacementImplements ==
  ASSUME IInv, TrialGeometry, IInv', AcceptDisplacement
  PROVE  List!Translate \/ List!Rotate
  <1>1. Types /\ GuestsOwnedOnce /\ trial.move = "displace"
    BY DEF IInv, AcceptDisplacement
  <1>2. /\ molecules' = molecules /\ particles' = particles /\ Committed' = particles
    BY NoTrialFacts DEF AcceptDisplacement, Committed
  <1>3. PICK mol \in 1..Len(molecules) : mol = trial.mol /\ trial.sites = molecules[mol].sites
    BY <1>1, DisplacedSites
  <1>4. PICK sites \in Seq(Nat) : sites = trial.sites
    BY <1>1 DEF Types
  <1>5. \A k \in 1..Len(sites) :
          /\ sites[k] \in 1..Len(particles)
          /\ Committed[sites[k]] \in Site /\ particles[sites[k]] \in Site
          /\ Committed[sites[k]].pos = trial.original[k]
          /\ Committed[sites[k]].kind = particles[sites[k]].kind
    BY <1>1, <1>4, DisplacedSites
  <1>6. /\ DOMAIN Config = 1..Len(molecules)
        /\ Config[mol].species = molecules[mol].species
        /\ Config[mol].sites = BodyOf(Committed, sites)
        /\ Config[mol] = [species |-> molecules[mol].species, sites |-> BodyOf(Committed, sites)]
    BY <1>3, <1>4, ConfigFacts
  <1>9. Config' = [Config EXCEPT ![mol] =
                     [species |-> molecules[mol].species, sites |-> BodyOf(particles, sites)]]
    BY <1>3, <1>4, DisplacementEntry
  <1>10. Config' = [Config EXCEPT ![mol].sites = BodyOf(particles, sites)]
    BY <1>6, <1>9
  <1>11. PICK body : /\ body = Config[mol].sites /\ Len(body) = Len(sites)
                     /\ \A k \in 1..Len(sites) : body[k] = Committed[sites[k]]
    BY <1>3, <1>4, ConfigFacts
  <1>12. CASE \E d \in Shifts : \A k \in 1..Len(trial.sites) :
                particles[trial.sites[k]].pos = trial.original[k] + d
    <2>1. PICK d \in Shifts : \A k \in 1..Len(sites) : particles[sites[k]].pos = trial.original[k] + d
      BY <1>4, <1>12
    <2>2. \A k \in 1..Len(sites) :
            particles[sites[k]] = [Committed[sites[k]] EXCEPT !.pos = @ + d]
      BY <1>5, <2>1 DEF Site
    <2>3. BodyOf(particles, sites) = List!Shifted(body, d)
      <3>1. \A k \in 1..Len(sites) : particles[sites[k]] = [body[k] EXCEPT !.pos = @ + d]
        BY <1>11, <2>2
      <3> QED BY <1>11, <3>1 DEF BodyOf, List!Shifted
    <2>4. Config' = [Config EXCEPT ![mol].sites = List!Shifted(Config[mol].sites, d)]
      BY <1>10, <1>11, <2>3
    <2> QED BY <1>6, <2>4 DEF List!Translate
  <1>13. CASE \E c \in Positions :
                /\ IsCentroid(c, BodyOf(Committed, trial.sites))
                /\ \A k \in 1..Len(trial.sites) :
                     particles[trial.sites[k]].pos = 2 * c - trial.original[k]
    <2>1. PICK c \in Positions :
            /\ IsCentroid(c, BodyOf(Committed, sites))
            /\ \A k \in 1..Len(sites) : particles[sites[k]].pos = 2 * c - trial.original[k]
      BY <1>4, <1>13
    <2>2. \A k \in 1..Len(sites) :
            particles[sites[k]] = [Committed[sites[k]] EXCEPT !.pos = 2 * c - @]
      BY <1>5, <2>1 DEF Site
    <2>3. BodyOf(particles, sites) = List!Reflected(body, c)
      <3>1. \A k \in 1..Len(sites) : particles[sites[k]] = [body[k] EXCEPT !.pos = 2 * c - @]
        BY <1>11, <2>2
      <3> QED BY <1>11, <3>1 DEF BodyOf, List!Reflected
    <2>4. IsCentroid(c, Config[mol].sites)
      BY <1>6, <2>1
    <2>5. Config' = [Config EXCEPT ![mol].sites = List!Reflected(Config[mol].sites, c)]
      BY <1>10, <1>11, <2>3
    <2> QED BY <1>6, <2>4, <2>5, SameCentroid DEF List!Rotate
  <1> QED BY <1>1, <1>12, <1>13 DEF TrialGeometry

(* An accepted insertion appends an entry to the list.                      *)
LEMMA InsertionEntry ==
  ASSUME IInv, AcceptInsertion
  PROVE  LET entry == [species |-> trial.species, sites |-> BodyOf(particles, trial.sites)]
         IN entry \in ListMolecule /\ Config' = Append(Config, entry)
  <1>1. Types /\ GuestsOwnedOnce /\ AttemptShape /\ trial.move = "insert"
    BY DEF IInv, AcceptInsertion
  <1>2. /\ particles' = particles /\ Committed' = particles /\ Committed = particles
        /\ molecules' = Append(molecules, [species |-> trial.species, sites |-> trial.sites])
    BY <1>1, NoTrialFacts DEF AcceptInsertion, Committed
  <1>3. PICK sp \in Species, sites \in Seq(Nat) : sp = trial.species /\ sites = trial.sites
    BY <1>1 DEF Types
  <1>6. PICK n \in Nat : n = Len(molecules)
    BY <1>1, TypeFacts
  <1>7. /\ molecules \in Seq(Molecule) /\ Len(molecules') = n + 1
        /\ \A m \in 1..n : molecules'[m] = molecules[m]
        /\ molecules'[n + 1] = [species |-> sp, sites |-> sites]
    BY <1>1, <1>2, <1>3, <1>6, AppendProperties DEF Types
  <1> DEFINE entry == [species |-> sp, sites |-> BodyOf(particles, sites)]
  <1>9. /\ Len(Config) = n /\ DOMAIN Config = 1..n /\ Config \in Seq(ListMolecule)
        /\ \A m \in 1..n : Config[m] = [species |-> molecules[m].species,
                                        sites |-> BodyOf(particles, molecules[m].sites)]
    BY <1>2, <1>6, ConfigFacts
  <1>10. Config' = [m \in 1..(n + 1) |-> [species |-> molecules'[m].species,
                                          sites |-> BodyOf(particles, molecules'[m].sites)]]
    BY <1>2, <1>7 DEF Config
  <1>11. \A m \in 1..n : Config'[m] = Config[m]
    BY <1>6, <1>7, <1>9, <1>10
  <1>12. Config'[n + 1] = entry
    BY <1>7, <1>10
  <1>13. entry \in ListMolecule
    <2>1. \A k \in 1..Len(sites) : sites[k] \in GuestIndices
      <3>1. IndexList(0) = sites /\ 0 \in 0..Len(molecules)
        BY <1>1, <1>3, <1>6 DEF IndexList, Unlisted, AttemptShape, AcceptInsertion
      <3> QED BY <1>1, <3>1 DEF GuestsOwnedOnce
    <2>2. \A k \in 1..Len(sites) : sites[k] \in 1..Len(particles)
      BY <1>1, <2>1, TypeFacts DEF GuestIndices
    <2>3. BodyOf(particles, sites) \in Seq(Site)
      BY <1>1, <1>3, <2>2, BodyFacts DEF Types
    <2> QED BY <1>3, <2>3 DEF ListMolecule
  <1> HIDE DEF entry
  <1>14. Config' = Append(Config, entry)
    <2>2. PICK longer : longer = Append(Config, entry)
      OBVIOUS
    <2>3. /\ longer \in Seq(ListMolecule) /\ Len(longer) = n + 1
          /\ \A m \in 1..n : longer[m] = Config[m]
          /\ longer[n + 1] = entry
      BY <1>9, <1>13, <2>2, AppendProperties
    <2>4. PICK next : next = Config'
      OBVIOUS
    <2>5. DOMAIN next = 1..(n + 1) /\ next = [m \in 1..(n + 1) |-> next[m]]
      BY <1>10, <2>4
    <2>6. \A m \in 1..(n + 1) : next[m] = longer[m]
      <3>1. \A m \in 1..(n + 1) : m \in 1..n \/ m = n + 1
        BY <1>6
      <3> QED BY <1>11, <1>12, <2>3, <2>4, <3>1
    <2>7. \A m \in 1..(n + 1) : next[m] \in ListMolecule
      BY <1>6, <2>3, <2>6
    <2>8. next \in Seq(ListMolecule) /\ Len(next) = n + 1
      <3>1. next \in [1..(n + 1) -> ListMolecule]
        BY <2>5, <2>7
      <3> QED BY <1>6, <3>1, SeqOfFunction
    <2>9. next = longer
      BY <2>3, <2>6, <2>8, SeqEqual
    <2> QED BY <2>2, <2>4, <2>9
  <1> QED BY <1>3, <1>13, <1>14 DEF entry

(* An accepted insertion appends a placed template to the list.             *)
LEMMA InsertionImplements ==
  ASSUME IInv, TrialGeometry, AcceptInsertion
  PROVE  List!Insert
  <1>1. Types /\ trial.move = "insert"
    BY DEF IInv, AcceptInsertion
  <1>2. PICK sp \in Species, sites \in Seq(Nat) : sp = trial.species /\ sites = trial.sites
    BY <1>1 DEF Types
  <1>3. PICK ref \in 0..(L - 1) : \E o \in Orientations(sp) :
          BodyOf(particles, sites) = Place(sp, ref, o)
    BY <1>1, <1>2 DEF TrialGeometry
  <1>4. PICK o \in Orientations(sp) : BodyOf(particles, sites) = Place(sp, ref, o)
    BY <1>3
  <1>5. Config' = Append(Config, [species |-> sp, sites |-> Place(sp, ref, o)])
    BY <1>2, <1>4, InsertionEntry
  <1> QED BY <1>5, SameTemplates DEF List!Insert

(* An accepted deletion erases one entry of the list.                       *)
LEMMA DeletionEntry ==
  ASSUME IInv, AcceptDeletion
  PROVE  /\ trial.mol \in DOMAIN Config
         /\ Config[trial.mol].sites = BodyOf(particles, trial.sites)
         /\ Config' = EraseAt(Config, trial.mol)
  <1>1. Types /\ AttemptShape /\ trial.move = "delete"
    BY DEF IInv, AcceptDeletion
  <1>2. /\ particles' = particles /\ Committed' = particles /\ Committed = particles
        /\ molecules' = EraseAt(molecules, trial.mol)
    BY <1>1, NoTrialFacts DEF AcceptDeletion, Committed
  <1>3. PICK mol \in 1..Len(molecules) : mol = trial.mol
    BY <1>1 DEF AttemptShape
  <1>4. /\ molecules \in Seq(Molecule) /\ Len(molecules) \in Nat
        /\ Len(molecules') = Len(molecules) - 1
        /\ \A j \in 1..(Len(molecules) - 1) :
             molecules'[j] = IF j < mol THEN molecules[j] ELSE molecules[j + 1]
    <2>1. molecules \in Seq(Molecule) /\ Len(molecules) \in Nat
      BY <1>1, TypeFacts DEF Types
    <2>2. molecules' = EraseAt(molecules, mol)
      BY <1>2, <1>3
    <2> QED BY <2>1, <2>2, EraseAtFacts
  <1>5. /\ Len(Config) = Len(molecules) /\ DOMAIN Config = 1..Len(molecules)
        /\ \A m \in 1..Len(molecules) :
             Config[m] = [species |-> molecules[m].species,
                          sites |-> BodyOf(particles, molecules[m].sites)]
    BY <1>2, ConfigFacts
  <1>6. Config' = [j \in 1..(Len(molecules) - 1) |->
                     [species |-> molecules'[j].species,
                      sites |-> BodyOf(particles, molecules'[j].sites)]]
    BY <1>2, <1>4 DEF Config
  <1>7. \A j \in 1..(Len(molecules) - 1) :
          Config'[j] = IF j < mol THEN Config[j] ELSE Config[j + 1]
    <2> SUFFICES ASSUME NEW j \in 1..(Len(molecules) - 1)
                 PROVE  Config'[j] = IF j < mol THEN Config[j] ELSE Config[j + 1]
      OBVIOUS
    <2>1. j \in 1..Len(molecules) /\ j + 1 \in 1..Len(molecules)
      BY <1>4
    <2>2. Config'[j] = [species |-> molecules'[j].species,
                        sites |-> BodyOf(particles, molecules'[j].sites)]
      BY <1>6
    <2>3. CASE j < mol
      BY <1>4, <1>5, <2>1, <2>2, <2>3
    <2>4. CASE ~ (j < mol)
      BY <1>4, <1>5, <2>1, <2>2, <2>4
    <2> QED BY <2>3, <2>4
  <1>8. Config' = EraseAt(Config, mol)
    BY <1>5, <1>6, <1>7 DEF EraseAt
  <1>9. Config[mol].sites = BodyOf(particles, trial.sites)
    BY <1>1, <1>2, <1>3, ConfigFacts DEF AttemptShape
  <1> QED BY <1>3, <1>5, <1>8, <1>9

LEMMA DeletionImplements ==
  ASSUME IInv, AcceptDeletion
  PROVE  List!Delete
  BY DeletionEntry, SameTemplates DEF List!Delete

(* An accepted swap reassigns one entry of the list.                        *)
LEMMA SwapEntry ==
  ASSUME IInv, IInv', AcceptSwap
  PROVE  /\ trial.mol \in DOMAIN Config
         /\ Config[trial.mol].sites = BodyOf(particles, molecules[trial.mol].sites)
         /\ Config' = [Config EXCEPT ![trial.mol] =
                         [species |-> trial.species, sites |-> BodyOf(particles, trial.sites)]]
  <1>1. Types /\ GuestsOwnedOnce /\ AttemptShape /\ trial.move = "swap"
    BY DEF IInv, AcceptSwap
  <1>2. PICK sp \in Species, sites \in Seq(Nat), mol \in 1..Len(molecules) :
          sp = trial.species /\ sites = trial.sites /\ mol = trial.mol
    BY <1>1 DEF Types, AttemptShape
  <1>3. /\ particles' = particles /\ Committed' = particles /\ Committed = particles
        /\ molecules' = [molecules EXCEPT ![mol] = [species |-> sp, sites |-> sites]]
    BY <1>1, <1>2, NoTrialFacts DEF AcceptSwap, Committed
  <1>4. /\ molecules \in Seq(Molecule) /\ Len(molecules') = Len(molecules)
        /\ molecules'[mol] = [species |-> sp, sites |-> sites]
        /\ \A m \in 1..Len(molecules) : m # mol => molecules'[m] = molecules[m]
    BY <1>1, <1>3 DEF Types
  <1>5. Config'[mol] = [species |-> sp, sites |-> BodyOf(particles, sites)]
    BY <1>3, <1>4 DEF Config
  <1>6. Config' = [Config EXCEPT ![mol] = [species |-> sp, sites |-> BodyOf(particles, sites)]]
    BY <1>3, <1>4, <1>5, OneEntry
  <1>7. mol \in DOMAIN Config /\ Config[mol].sites = BodyOf(particles, molecules[mol].sites)
    BY <1>3, ConfigFacts
  <1> QED BY <1>2, <1>6, <1>7

(* An accepted swap transmutes one molecule of the list.                    *)
LEMMA SwapImplements ==
  ASSUME IInv, TrialGeometry, IInv', AcceptSwap
  PROVE  List!Transmute
  <1>1. Types /\ GuestsOwnedOnce /\ AttemptShape /\ trial.move = "swap"
    BY DEF IInv, AcceptSwap
  <1>2. PICK sp \in Species, sites \in Seq(Nat), mol \in 1..Len(molecules) :
          sp = trial.species /\ sites = trial.sites /\ mol = trial.mol
    BY <1>1 DEF Types, AttemptShape
  <1>3. /\ particles' = particles /\ Committed' = particles /\ Committed = particles
        /\ molecules' = [molecules EXCEPT ![mol] = [species |-> sp, sites |-> sites]]
    BY <1>1, <1>2, NoTrialFacts DEF AcceptSwap, Committed
  <1>4. /\ sp # molecules[mol].species
        /\ \E c \in Positions : \E o \in Orientations(sp) :
             /\ IsCentroid(c, BodyOf(particles, molecules[mol].sites))
             /\ BodyOf(particles, sites) = Place(sp, c, o)
    BY <1>1, <1>2 DEF TrialGeometry
  <1>5. PICK c \in Positions : \E o \in Orientations(sp) :
          /\ IsCentroid(c, BodyOf(particles, molecules[mol].sites))
          /\ BodyOf(particles, sites) = Place(sp, c, o)
    BY <1>4
  <1>6. PICK o \in Orientations(sp) :
          /\ IsCentroid(c, BodyOf(particles, molecules[mol].sites))
          /\ BodyOf(particles, sites) = Place(sp, c, o)
    BY <1>5
  <1>9. Config' = [Config EXCEPT ![mol] = [species |-> sp, sites |-> Place(sp, c, o)]]
    BY <1>2, <1>6, SwapEntry
  <1>10. /\ mol \in DOMAIN Config /\ Config[mol].species = molecules[mol].species
         /\ Config[mol].sites = BodyOf(particles, molecules[mol].sites)
    BY <1>3, ConfigFacts
  <1>11. /\ sp \in Species \ {Config[mol].species} /\ o \in List!Orientations(sp)
         /\ List!IsCentroid(c, Config[mol].sites)
         /\ Config' = [Config EXCEPT ![mol] = [species |-> sp, sites |-> List!Place(sp, c, o)]]
    BY <1>4, <1>6, <1>9, <1>10, SameCentroid, SameTemplates
  <1>12. List!TransmuteAt(mol, sp, c, o)
    BY <1>11 DEF List!TransmuteAt
  <1> QED BY <1>10, <1>11, <1>12 DEF List!Transmute

(* A step that only builds or drops a trial, or cleans up after one, is     *)
(* invisible in the list.                                                   *)
LEMMA OthersStutter ==
  ASSUME IInv, IInv',
         \/ StartTranslation \/ StartRotation \/ RejectDisplacement \/ StartInsertion
         \/ RejectAppended \/ StartDeletion \/ RejectDeletion \/ StartSwap \/ Settle
  PROVE  Config' = Config
  <1>1. Types /\ GuestsOwnedOnce /\ AttemptShape /\ AppendedLast
    BY DEF IInv
  <1>2. particles \in Seq(Site) /\ NoTrial.move = "none"
    BY <1>1, NoTrialFacts DEF Types
  <1>3. molecules' = molecules
    BY DEF StartTranslation, StartRotation, StartDisplacement, RejectDisplacement, StartInsertion,
           StartAppending, RejectAppended, StartDeletion, RejectDeletion, StartSwap, Settle
  <1>4. ASSUME \A m \in 1..Len(molecules) : \A k \in 1..Len(molecules[m].sites) :
                 Committed'[molecules[m].sites[k]] = Committed[molecules[m].sites[k]]
        PROVE  Config' = Config
    BY <1>3, <1>4, SameConfig
  <1>5. phase # "trial" => Committed = particles
    BY <1>1, <1>2 DEF AttemptShape, Committed
  <1>6. CASE StartTranslation \/ StartRotation
    <2>1. phase = "idle"
      BY <1>6 DEF StartTranslation, StartRotation, StartDisplacement
    <2>2. Committed' = Committed
      BY <1>5, <1>6, <2>1, DisplacementCommitted
    <2> QED BY <1>4, <2>2
  <1>7. CASE RejectDisplacement
    <2>1. Committed' = Committed
      BY <1>2, <1>7 DEF RejectDisplacement, Committed
    <2> QED BY <1>4, <2>1
  <1>8. CASE StartInsertion \/ StartSwap
    <2>1. PICK move \in {"insert", "swap"}, n \in Nat, sp \in Species, ref \in Int :
            \E o \in Orientations(sp) : StartAppending(move, n, sp, ref, o)
      <3>1. CASE StartInsertion
        <4>1. PICK sp \in Species, ref \in 0..(L - 1) :
                \E o \in Orientations(sp) : StartAppending("insert", 0, sp, ref, o)
          BY <3>1 DEF StartInsertion
        <4>2. ref \in Int
          BY ReferenceFacts
        <4> QED BY <4>1, <4>2
      <3>2. CASE StartSwap
        <4>1. PICK m \in DOMAIN molecules, c \in Positions, sp \in Species :
                \E o \in Orientations(sp) : StartAppending("swap", m, sp, c, o)
          BY <3>2 DEF StartSwap
        <4>2. c \in Int /\ m \in Nat
          BY <1>1, ReferenceFacts, TypeFacts
        <4> QED BY <4>1, <4>2
      <3> QED BY <1>8, <3>1, <3>2
    <2>2. PICK o \in Orientations(sp) : StartAppending(move, n, sp, ref, o)
      BY <2>1
    <2>3. /\ \A i \in 1..Len(particles) : particles'[i] = particles[i]
          /\ trial'.move = move /\ phase = "idle"
      BY <1>1, <2>2, AppendingFacts DEF StartAppending
    <2>4. Committed = particles /\ Committed' = particles'
      BY <1>5, <2>3 DEF Committed
    <2> QED BY <1>1, <1>4, <2>3, <2>4, MemberFacts
  <1>9. CASE RejectAppended
    <2>1. /\ trial'.move = "none" /\ trial.move \in {"insert", "swap"}
          /\ particles' = PopBack(particles, NumSites(trial.species))
      BY <1>2, <1>9 DEF RejectAppended
    <2>2. Committed = particles /\ Committed' = particles'
      BY <2>1 DEF Committed
    <2>3. NumSites(trial.species) \in 0..Len(particles)
      <3>1. trial.species \in Species /\ FrameworkCount \in Nat /\ Len(particles) \in Nat
        BY <1>1, TypeFacts DEF Types
      <3>2. NumSites(trial.species) \in Nat
        BY <3>1, NumSitesFacts
      <3>3. FrameworkCount + NumSites(trial.species) <= Len(particles)
        BY <1>1, <2>1 DEF AppendedLast, Appended
      <3> QED BY <3>1, <3>2, <3>3
    <2>4. /\ Len(particles') = Len(particles) - NumSites(trial.species)
          /\ \A i \in 1..Len(particles') : particles'[i] = particles[i]
      BY <1>2, <2>1, <2>3, PopBackFacts
    <2>5. \A m \in 1..Len(molecules) : \A k \in 1..Len(molecules[m].sites) :
            molecules[m].sites[k] \in 1..Len(particles')
      <3>1. \A m \in 1..Len(molecules') : \A k \in 1..Len(molecules'[m].sites) :
              molecules'[m].sites[k] \in 1..Len(particles')
        <4>1. Types' /\ GuestsOwnedOnce'
          BY DEF IInv
        <4>2. \A m \in 1..Len(molecules') : m \in 0..Len(molecules') /\ m # 0
          BY <1>1, <1>3, TypeFacts
        <4>3. \A m \in 1..Len(molecules') : \A k \in 1..Len(molecules'[m].sites) :
                molecules'[m].sites[k] \in (FrameworkCount + 1)..Len(particles')
          BY <4>1, <4>2 DEF GuestsOwnedOnce, IndexList, GuestIndices, FrameworkCount
        <4>4. FrameworkCount \in Nat /\ Len(particles') \in Nat
          BY <1>1, <2>3, <2>4, TypeFacts
        <4>5. \A i \in (FrameworkCount + 1)..Len(particles') : i \in 1..Len(particles')
          BY <4>4
        <4> QED BY <4>3, <4>5
      <3> QED BY <1>3, <3>1
    <2> QED BY <1>4, <2>2, <2>4, <2>5
  <1>10. CASE StartDeletion \/ RejectDeletion \/ Settle
    <2>1. particles' = particles /\ trial.move # "displace" /\ trial'.move # "displace"
      BY <1>1, <1>2, <1>10 DEF StartDeletion, RejectDeletion, Settle, AttemptShape
    <2> QED BY <1>4, <2>1 DEF Committed
  <1> QED BY <1>6, <1>7, <1>8, <1>9, <1>10

(* An iteration of removeParticleIndices moves a particle and renames its   *)
(* index: every molecule keeps the sites it had.                            *)
LEMMA RemovalStutters ==
  ASSUME IInv, IInv', RemoveNext
  PROVE  Config' = Config
  <1>1. Types /\ GuestsOwnedOnce /\ AttemptShape
    BY DEF IInv
  <1>2. phase = "removing" /\ trial' = trial /\ trial.move = "none"
    BY <1>1, NoTrialFacts DEF RemoveNext, AttemptShape
  <1>3. Committed = particles /\ Committed' = particles'
    BY <1>2 DEF Committed
  <1>4. \A m \in 1..Len(molecules) : \A k \in 1..Len(molecules[m].sites) :
          molecules[m].sites[k] # doomed[1]
    <2> SUFFICES ASSUME NEW m \in 1..Len(molecules), NEW k \in 1..Len(molecules[m].sites)
                 PROVE  molecules[m].sites[k] # doomed[1]
      OBVIOUS
    <2>1. IndexList(0) = doomed /\ IndexList(m) = molecules[m].sites
      BY <1>1, <1>2, TypeFacts DEF IndexList, Unlisted
    <2>2. 1 \in 1..Len(IndexList(0)) /\ k \in 1..Len(IndexList(m))
      BY <1>1, <2>1, RemovalFacts
    <2>3. 0 \in 0..Len(molecules) /\ m \in 0..Len(molecules) /\ m # 0
      BY <1>1, TypeFacts
    <2> QED BY <1>1, <2>1, <2>2, <2>3 DEF GuestsOwnedOnce
  <1>5. ASSUME NEW m \in 1..Len(molecules), NEW k \in 1..Len(molecules[m].sites)
        PROVE  particles'[molecules'[m].sites[k]] = particles[molecules[m].sites[k]]
    <2>1. PICK i \in 1..Len(particles) : i = molecules[m].sites[k]
      BY <1>1, MemberFacts
    <2>2. molecules'[m].sites[k] = Renamed(i) /\ i # doomed[1]
      BY <1>1, <1>4, <2>1, RemovalFacts
    <2>3. /\ doomed[1] \in 1..Len(particles) /\ Len(particles) \in Nat
          /\ \A j \in 1..(Len(particles) - 1) :
               particles'[j] = IF j = doomed[1] THEN particles[Len(particles)] ELSE particles[j]
      <3>1. doomed[1] \in (FrameworkCount + 1)..Len(particles) /\ FrameworkCount \in Nat
        BY <1>1, RemovalFacts, TypeFacts
      <3>2. doomed[1] \in 1..Len(particles)
        BY <1>1, <3>1, TypeFacts
      <3> QED BY <1>1, <3>2, RemovalFacts, TypeFacts
    <2>4. CASE i = Len(particles)
      <3>1. doomed[1] \in 1..(Len(particles) - 1)
        BY <2>2, <2>3, <2>4
      <3> QED BY <2>1, <2>2, <2>3, <2>4, <3>1 DEF Renamed
    <2>5. CASE i # Len(particles)
      <3>1. i \in 1..(Len(particles) - 1)
        BY <2>1, <2>3, <2>5
      <3> QED BY <2>1, <2>2, <2>3, <2>5, <3>1 DEF Renamed
    <2> QED BY <2>4, <2>5
  <1>6. \A m \in 1..Len(molecules) :
          /\ molecules'[m].species = molecules[m].species
          /\ Len(molecules'[m].sites) = Len(molecules[m].sites)
          /\ \A k \in 1..Len(molecules[m].sites) :
               Committed'[molecules'[m].sites[k]] = Committed[molecules[m].sites[k]]
    BY <1>1, <1>3, <1>5, RemovalFacts
  <1>7. Len(molecules') = Len(molecules)
    BY <1>1, RemovalFacts
  <1> QED BY <1>6, <1>7, SameConfig

(* Every trial has been generated the way its move generates one.           *)
THEOREM Geometry == Spec => []TrialGeometry
  <1>1. Init => TrialGeometry
    BY NoTrialFacts DEF Init, TrialGeometry
  <1>2. IInv /\ TrialGeometry /\ [Next]_vars => TrialGeometry'
    <2>1. ASSUME IInv, TrialGeometry, Next PROVE TrialGeometry'
      BY <2>1, TrialGeometryStep
    <2>2. ASSUME TrialGeometry, UNCHANGED vars PROVE TrialGeometry'
      BY <2>2 DEF TrialGeometry, vars, Committed
    <2> QED BY <2>1, <2>2
  <1> QED BY <1>1, <1>2, Inductive, PTL DEF Spec

(* The engine's pool, index lists and swap-with-last removal implement the  *)
(* plain list of molecules: every step of the code changes one molecule of  *)
(* the list, in the way its move says, or nothing.                          *)
THEOREM Implements == Spec => ImplementsMoleculeList
  <1>1. Init => List!Init
    BY DEF Init, List!Init, Config
  <1>2. IInv /\ IInv' /\ TrialGeometry /\ [Next]_vars => [List!Next]_Config
    <2> SUFFICES ASSUME IInv, IInv', TrialGeometry, [Next]_vars
                 PROVE  List!Next \/ Config' = Config
      OBVIOUS
    <2>1. CASE AcceptDisplacement
      BY <2>1, DisplacementImplements DEF List!Next
    <2>2. CASE AcceptInsertion
      BY <2>2, InsertionImplements DEF List!Next
    <2>3. CASE AcceptDeletion
      BY <2>3, DeletionImplements DEF List!Next
    <2>4. CASE AcceptSwap
      BY <2>4, SwapImplements DEF List!Next
    <2>5. CASE RemoveNext
      BY <2>5, RemovalStutters
    <2>6. CASE \/ StartTranslation \/ StartRotation \/ RejectDisplacement \/ StartInsertion
               \/ RejectAppended \/ StartDeletion \/ RejectDeletion \/ StartSwap \/ Settle
      BY <2>6, OthersStutter
    <2>7. CASE UNCHANGED vars
      BY <2>7 DEF vars, Config, Committed
    <2> QED BY <2>1, <2>2, <2>3, <2>4, <2>5, <2>6, <2>7 DEF Next
  <1> QED BY <1>1, <1>2, Inductive, Geometry, PTL DEF Spec, ImplementsMoleculeList, List!Spec

-----------------------------------------------------------------------------
(* The molecules of the list, and so those of the engine, are rigid. *)

(* A body is a copy of its template, wherever its reference point is. *)
Placed(sp, body) == \E ref \in Int : \E o \in Orientations(sp) : body = Place(sp, ref, o)

LEMMA OffsetFacts ==
  ASSUME NEW sp \in Species, NEW o \in Orientations(sp), NEW k \in 1..NumSites(sp)
  PROVE  /\ LocalOffset(sp, k, o) \in Int
         /\ o \in {1, -1} /\ 1 \in 1..NumSites(sp)
         /\ NumSites(sp) > 1 => -o \in Orientations(sp) /\ LocalOffset(sp, k, -o) = -LocalOffset(sp, k, o)
  <1>1. Template[sp] \in Seq(TemplateSite) /\ Template[sp] # << >>
    BY SpeciesAssumption
  <1>2. NumSites(sp) \in Nat \ {0}
    BY <1>1 DEF NumSites
  <1>3. Template[sp][k] \in TemplateSite
    BY <1>1 DEF NumSites
  <1>5. Template[sp][k].offset \in Int
    BY <1>3 DEF TemplateSite
  <1>4. o \in {1, -1}
    BY DEF Orientations
  <1> QED BY <1>2, <1>5, <1>4 DEF LocalOffset, Orientations

(* The reference point can be read off the first site. *)
LEMMA ReadOff ==
  ASSUME NEW sp \in Species, NEW ref \in Int, NEW o \in Orientations(sp)
  PROVE  Place(sp, ref, o)[1].pos - LocalOffset(sp, 1, o) = ref
  <1>1. 1 \in 1..NumSites(sp)
    BY PlaceFacts
  <1>2. LocalOffset(sp, 1, o) \in Int
    BY <1>1, OffsetFacts
  <1>3. Place(sp, ref, o)[1].pos = ref + LocalOffset(sp, 1, o)
    BY <1>1 DEF Place
  <1> QED BY <1>2, <1>3

(* A translated copy is a copy. *)
LEMMA ShiftedPlaced ==
  ASSUME NEW sp \in Species, NEW body, Placed(sp, body), NEW d \in Int
  PROVE  Placed(sp, List!Shifted(body, d))
  <1>1. PICK ref \in Int, o \in Orientations(sp) : body = Place(sp, ref, o)
    BY DEF Placed
  <1>2. NumSites(sp) \in Nat /\ Len(body) = NumSites(sp)
    BY <1>1, PlaceFacts
  <1>3. ASSUME NEW k \in 1..NumSites(sp)
        PROVE  [body[k] EXCEPT !.pos = @ + d] =
                 [pos |-> (ref + d) + LocalOffset(sp, k, o), kind |-> Template[sp][k].kind]
    <2>1. body[k] = [pos |-> ref + LocalOffset(sp, k, o), kind |-> Template[sp][k].kind]
      BY <1>1 DEF Place
    <2>2. LocalOffset(sp, k, o) \in Int
      BY OffsetFacts
    <2>3. (ref + LocalOffset(sp, k, o)) + d = (ref + d) + LocalOffset(sp, k, o)
      BY <2>2
    <2> QED BY <2>1, <2>3
  <1>4. List!Shifted(body, d) = Place(sp, ref + d, o)
    BY <1>2, <1>3 DEF List!Shifted, Place
  <1> QED BY <1>4 DEF Placed

(* The mirror image of a copy with several sites is a copy, the other way   *)
(* round; that of a single site is one anyway.                              *)
LEMMA ReflectedPlaced ==
  ASSUME NEW sp \in Species, NEW body, Placed(sp, body), NEW c \in Int
  PROVE  Placed(sp, List!Reflected(body, c))
  <1>1. PICK ref \in Int, o \in Orientations(sp) : body = Place(sp, ref, o)
    BY DEF Placed
  <1>2. NumSites(sp) \in Nat \ {0} /\ Len(body) = NumSites(sp)
    BY <1>1, PlaceFacts
  <1>3. \A k \in 1..NumSites(sp) :
          /\ body[k] = [pos |-> ref + LocalOffset(sp, k, o), kind |-> Template[sp][k].kind]
          /\ LocalOffset(sp, k, o) \in Int
    BY <1>1, OffsetFacts DEF Place
  <1>4. CASE NumSites(sp) > 1
    <2>1. ASSUME NEW k \in 1..NumSites(sp)
          PROVE  [body[k] EXCEPT !.pos = 2 * c - @] =
                   [pos |-> (2 * c - ref) + LocalOffset(sp, k, -o), kind |-> Template[sp][k].kind]
      <3>1. LocalOffset(sp, k, -o) = -LocalOffset(sp, k, o)
        BY <1>4, OffsetFacts
      <3>2. /\ ref \in Int /\ c \in Int /\ LocalOffset(sp, k, o) \in Int
            /\ body[k] = [pos |-> ref + LocalOffset(sp, k, o), kind |-> Template[sp][k].kind]
        BY <1>3
      <3>3. 2 * c - (ref + LocalOffset(sp, k, o)) = (2 * c - ref) + (-LocalOffset(sp, k, o))
        BY <3>2
      <3>4. [body[k] EXCEPT !.pos = 2 * c - @] =
              [pos |-> 2 * c - (ref + LocalOffset(sp, k, o)), kind |-> Template[sp][k].kind]
        BY <3>2
      <3> QED BY <3>1, <3>3, <3>4
    <2>2. List!Reflected(body, c) = Place(sp, 2 * c - ref, -o)
      BY <1>2, <2>1 DEF List!Reflected, Place
    <2>3. -o \in Orientations(sp)
      BY <1>2, <1>4, OffsetFacts
    <2> QED BY <2>2, <2>3 DEF Placed
  <1>5. CASE NumSites(sp) = 1
    <2> DEFINE at == 2 * c - (ref + LocalOffset(sp, 1, o)) - LocalOffset(sp, 1, o)
    <2>1. ASSUME NEW k \in 1..NumSites(sp)
          PROVE  [body[k] EXCEPT !.pos = 2 * c - @] =
                   [pos |-> at + LocalOffset(sp, k, o), kind |-> Template[sp][k].kind]
      <3>1. k = 1
        BY <1>5
      <3>2. /\ ref \in Int /\ c \in Int /\ LocalOffset(sp, 1, o) \in Int
            /\ body[1] = [pos |-> ref + LocalOffset(sp, 1, o), kind |-> Template[sp][1].kind]
        BY <1>3, <3>1
      <3>3. 2 * c - (ref + LocalOffset(sp, 1, o)) = at + LocalOffset(sp, 1, o)
        BY <3>2
      <3>4. [body[1] EXCEPT !.pos = 2 * c - @] =
              [pos |-> 2 * c - (ref + LocalOffset(sp, 1, o)), kind |-> Template[sp][1].kind]
        BY <3>2
      <3> QED BY <3>1, <3>3, <3>4
    <2>2. List!Reflected(body, c) = Place(sp, at, o)
      BY <1>2, <2>1 DEF List!Reflected, Place
    <2>3. at \in Int
      BY <1>3, <1>5
    <2> QED BY <2>2, <2>3 DEF Placed
  <1> QED BY <1>2, <1>4, <1>5

ListInv == \A m \in DOMAIN Config : Placed(Config[m].species, Config[m].sites)

(* Each operation on the list leaves copies of templates behind. *)
LEMMA ListStep ==
  ASSUME IInv, ListInv, List!Next
  PROVE  ListInv'
  <1>1. Config \in Seq(ListMolecule)
    BY ConfigFacts
  <1>2. /\ Config \in Seq(ListMolecule) /\ Len(Config) \in Nat
        /\ DOMAIN Config = 1..Len(Config)
        /\ \A m \in DOMAIN Config : Config[m] \in ListMolecule
    BY <1>1
  <1>3. \A m \in DOMAIN Config : Config[m].species \in Species
    BY <1>2 DEF ListMolecule
  <1>4. CASE List!Insert
    <2>1. PICK sp \in Species, ref \in 0..(L - 1) : \E o \in List!Orientations(sp) :
            Config' = Append(Config, [species |-> sp, sites |-> List!Place(sp, ref, o)])
      BY <1>4 DEF List!Insert
    <2>2. PICK o \in List!Orientations(sp) :
            Config' = Append(Config, [species |-> sp, sites |-> List!Place(sp, ref, o)])
      BY <2>1
    <2>3. Placed(sp, List!Place(sp, ref, o))
      BY <2>2, SameTemplates DEF Placed
    <2> QED BY <1>2, <1>3, <2>2, <2>3 DEF ListInv
  <1>5. CASE List!Delete
    <2>1. PICK m \in DOMAIN Config : Config' = EraseAt(Config, m)
      BY <1>5, SameTemplates DEF List!Delete
    <2>2. /\ DOMAIN Config' = 1..(Len(Config) - 1)
          /\ \A j \in 1..(Len(Config) - 1) : Config'[j] = Config[j] \/ Config'[j] = Config[j + 1]
      BY <1>2, <2>1, EraseAtFacts DEF EraseAt
    <2>3. \A j \in 1..(Len(Config) - 1) : j \in DOMAIN Config /\ j + 1 \in DOMAIN Config
      BY <1>2
    <2> QED BY <2>2, <2>3 DEF ListInv
  <1>6. CASE List!Translate
    <2>1. PICK m \in DOMAIN Config, d \in Shifts :
            Config' = [Config EXCEPT ![m].sites = List!Shifted(Config[m].sites, d)]
      BY <1>6 DEF List!Translate
    <2>2. Placed(Config[m].species, List!Shifted(Config[m].sites, d))
      BY <1>2, <1>3, <2>1, ShiftedPlaced, CellAssumption DEF ListInv
    <2> QED BY <1>2, <1>3, <2>1, <2>2 DEF ListInv, ListMolecule
  <1>7. CASE List!Rotate
    <2>1. PICK m \in DOMAIN Config, c \in Positions :
            Config' = [Config EXCEPT ![m].sites = List!Reflected(Config[m].sites, c)]
      BY <1>7 DEF List!Rotate
    <2>2. Placed(Config[m].species, List!Reflected(Config[m].sites, c))
      BY <1>2, <1>3, <2>1, ReflectedPlaced, CellAssumption DEF ListInv
    <2> QED BY <1>2, <1>3, <2>1, <2>2 DEF ListInv, ListMolecule
  <1>8. CASE List!Transmute
    <2>1. PICK m \in DOMAIN Config, c \in Positions :
            \E sp \in Species \ {Config[m].species} : \E o \in List!Orientations(sp) :
              List!TransmuteAt(m, sp, c, o)
      BY <1>8 DEF List!Transmute
    <2>2. PICK sp \in Species : \E o \in List!Orientations(sp) : List!TransmuteAt(m, sp, c, o)
      BY <2>1
    <2>3. PICK o \in List!Orientations(sp) :
            Config' = [Config EXCEPT ![m] = [species |-> sp, sites |-> List!Place(sp, c, o)]]
      BY <2>2 DEF List!TransmuteAt
    <2>4. Placed(sp, List!Place(sp, c, o))
      BY <2>3, SameTemplates, CellAssumption DEF Placed
    <2> QED BY <1>2, <1>3, <2>3, <2>4 DEF ListInv
  <1> QED BY <1>4, <1>5, <1>6, <1>7, <1>8 DEF List!Next

(* At all times, also during a trial and while removed sites are relocated, *)
(* every molecule is a rigid copy of its species' template: whatever        *)
(* sequence of moves, rejections, swaps and removals came before.           *)
THEOREM StaysRigid == Spec => []MoleculesRigid
  <1>1. Init => ListInv
    BY DEF Init, ListInv, Config
  <1>2. IInv /\ ListInv /\ [List!Next]_Config => ListInv'
    <2>1. ASSUME Config' = Config, ListInv PROVE ListInv'
      BY <2>1 DEF ListInv
    <2> QED BY <2>1, ListStep
  <1>3. IInv /\ ListInv => MoleculesRigid
    <2> SUFFICES ASSUME IInv, ListInv, NEW m \in DOMAIN Config
                 PROVE  \E o \in List!Orientations(Config[m].species) :
                          Config[m].sites =
                            List!Place(Config[m].species,
                              Config[m].sites[1].pos - List!LocalOffset(Config[m].species, 1, o), o)
      BY DEF MoleculesRigid, List!AllRigid
    <2>1. PICK ref \in Int, o \in Orientations(Config[m].species) :
            Config[m].sites = Place(Config[m].species, ref, o)
      BY DEF ListInv, Placed
    <2>2. Config[m].species \in Species
      BY ConfigFacts DEF ListMolecule
    <2>3. Config[m].sites[1].pos - LocalOffset(Config[m].species, 1, o) = ref
      BY <2>1, <2>2, ReadOff
    <2>4. List!LocalOffset(Config[m].species, 1, o) = LocalOffset(Config[m].species, 1, o)
      BY DEF List!LocalOffset, LocalOffset
    <2> QED BY <2>1, <2>3, <2>4, SameTemplates
  <1> QED BY <1>1, <1>2, <1>3, Inductive, Implements, PTL
          DEF Spec, ImplementsMoleculeList, List!Spec
=============================================================================
