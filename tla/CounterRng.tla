----------------------------- MODULE CounterRng -----------------------------
(***************************************************************************)
(* Philox4x32Rng (counter_based_rng.cc) for words of Width bits instead of *)
(* 32.  Each generator is an instance of its own, drawn from in any        *)
(* interleaving and seeded again at any time.                              *)
(***************************************************************************)
EXTENDS Integers, Sequences, FiniteSets

CONSTANTS
  Generators, Seeds, Streams,
  Width, Rounds,             \* 32 and kPhiloxRounds
  Mul0, Mul1, Weyl0, Weyl1,  \* the constants of Philox, to Width bits
  WordXor(_, _),                 \* exclusive or of two words
  MaxCalls, MaxSeedings

M == 2^Width
Word == 0..(M - 1)
Words(n) == [1..n -> Word]
High(n) == (n \div M) % M
Low(n) == n % M

(* Seeds, streams and the call index are two words wide; the constants of   *)
(* Philox are odd.  Bound: no generator is called more than M * M times.    *)
ASSUME RngAssumption ==
  /\ Width \in Nat /\ Rounds \in Nat
  /\ Seeds \subseteq 0..(M * M - 1) /\ Streams \subseteq 0..(M * M - 1)
  /\ Mul0 \in Nat /\ Mul0 % 2 = 1 /\ Mul1 \in Nat /\ Mul1 % 2 = 1
  /\ Weyl0 \in Nat /\ Weyl1 \in Nat
  /\ MaxCalls \in 0..(M * M)
ASSUME XorAssumption ==
  \A a, b \in Word :
    WordXor(a, b) \in Word /\ WordXor(a, b) = WordXor(b, a) /\ WordXor(WordXor(a, b), b) = a

(* One round; mulhilo32 is High and Low of a product. *)
PhiloxRound(c, k) ==
  <<WordXor(WordXor(High(Mul1 * c[3]), c[2]), k[1]), Low(Mul1 * c[3]),
    WordXor(WordXor(High(Mul0 * c[1]), c[4]), k[2]), Low(Mul0 * c[1])>>
(* The key of each round is the one before moved on by the Weyl constants. *)
RoundKey(key, round) == <<(key[1] + round * Weyl0) % M, (key[2] + round * Weyl1) % M>>
Philox(counter, key) ==
  LET after[r \in 0..Rounds] ==
        IF r = 0 THEN counter ELSE PhiloxRound(after[r - 1], RoundKey(key, r - 1))
  IN after[Rounds]

VARIABLES
  seed, stream,   \* what seed() was called with
  key, counter, callIndex,
  drawn,          \* history: the calls since seed()
  draws,          \* history: what each call was given and returned
  seedings        \* bounds the calls of seed()
rngVars == <<seed, stream, key, counter, callIndex, drawn, draws, seedings>>

RngInit ==
  /\ seed \in [Generators -> Seeds] /\ stream \in [Generators -> Streams]
  /\ key = [g \in Generators |-> <<Low(seed[g]), High(seed[g])>>]
  /\ counter = [g \in Generators |-> <<0, 0, Low(stream[g]), High(stream[g])>>]
  /\ callIndex = [g \in Generators |-> 0] /\ drawn = callIndex
  /\ draws = {} /\ seedings = 0

Seed(g, s, t) ==
  /\ seedings < MaxSeedings
  /\ seedings' = seedings + 1
  /\ seed' = [seed EXCEPT ![g] = s] /\ stream' = [stream EXCEPT ![g] = t]
  /\ key' = [key EXCEPT ![g] = <<Low(s), High(s)>>]
  /\ counter' = [counter EXCEPT ![g] = <<0, 0, Low(t), High(t)>>]
  /\ callIndex' = [callIndex EXCEPT ![g] = 0]
  /\ drawn' = [drawn EXCEPT ![g] = 0]
  /\ UNCHANGED draws

(* Mutant: only the low word of the call index goes into the counter. *)
LowCounterOf(g, n) == <<Low(n), 0, counter[g][3], counter[g][4]>>
CounterOf(g, n) == <<Low(n), High(n), counter[g][3], counter[g][4]>>

(* The next output, and what it is recorded as. *)
Output(g) ==
  LET out == Philox(CounterOf(g, callIndex[g]), key[g]) IN out[1] * M + out[2]
DrawOf(g) ==
  [seed |-> seed[g], stream |-> stream[g], index |-> drawn[g],
   input |-> <<CounterOf(g, callIndex[g]), key[g]>>, output |-> Output(g)]

NextU64(g) ==
  /\ callIndex[g] < MaxCalls
  /\ counter' = [counter EXCEPT ![g] = CounterOf(g, callIndex[g])]
  /\ callIndex' = [callIndex EXCEPT ![g] = @ + 1]
  /\ drawn' = [drawn EXCEPT ![g] = @ + 1]
  /\ draws' = draws \cup {DrawOf(g)}
  /\ UNCHANGED <<seed, stream, key, seedings>>

RngNext ==
  \E g \in Generators :
    \/ NextU64(g)
    \/ \E s \in Seeds, t \in Streams : Seed(g, s, t)
RngSpec == RngInit /\ [][RngNext]_rngVars

-----------------------------------------------------------------------------
(* Every word stays within its width. *)
RngTypeOK ==
  /\ \A g \in Generators :
       key[g] \in Words(2) /\ counter[g] \in Words(4) /\ callIndex[g] \in 0..MaxCalls
  /\ \A d \in draws : d.output \in 0..(M * M - 1)

(* Two draws put the same counter and key into Philox just when they are    *)
(* the same call of the same seed and stream, whatever the generator was    *)
(* before it was seeded and also when the call index needs its second word; *)
(* and under one key Philox is a bijection of the counters, so that         *)
(* different calls cannot fall on the same output block.                    *)
SameCall(d, e) == d.seed = e.seed /\ d.stream = e.stream /\ d.index = e.index
DrawsApart ==
  /\ \A d, e \in draws : d.input = e.input <=> SameCall(d, e)
  /\ Cardinality(draws) = 1 =>
       \A g \in Generators :
         Cardinality({Philox(c, key[g]) : c \in Words(4)}) = M * M * M * M
===============================================================================
