---------------------------- MODULE ReadCifProofs ----------------------------
(***************************************************************************)
(* Proofs about ReadCif, for any lines and files of any length, and for    *)
(* every document, however many loops, rows and symmetry operations it     *)
(* has, and every table of elements.                                       *)
(*                                                                         *)
(* The line parser is shown to follow the grammar of the token stream: at  *)
(* each line its variables hold what the grammar has read so far, unless   *)
(* the file is past mending.                                               *)
(***************************************************************************)
EXTENDS ReadCif, TLAPS, SequenceTheorems, WellFoundedInduction

Tokens == UNION {Range(l) : l \in Lines}
States == {"top", "columns", "rows", "value", "text", "done", "rejected"}

LEMMA Climb ==
  ASSUME NEW P, \A n \in Nat : (\A k \in 0..(n - 1) : k \in P) => n \in P
  PROVE  \A n \in Nat : n \in P
  <1> DEFINE Below == {ss \in Nat \X Nat : ss[1] < ss[2]}
             T == Nat \ P
  <1>1. SUFFICES ASSUME T # {} PROVE FALSE
    OBVIOUS
  <1>2. IsWellFoundedOn(Below, Nat)
    BY NatLessThanWellFounded DEF OpToRel
  <1>3. PICK m \in T : \A k \in T : <<k, m>> \notin Below
    BY <1>1, <1>2, WFMin
  <1>4. ASSUME NEW k \in 0..(m - 1) PROVE k \in P
    <2>1. m \in Nat /\ k \in Nat /\ k < m
      OBVIOUS
    <2>2. <<k, m>> \in Nat \X Nat /\ <<k, m>>[1] = k /\ <<k, m>>[2] = m
      BY <2>1
    <2> QED BY <1>3, <2>1, <2>2
  <1> QED BY <1>3, <1>4

(* From zero, one at a time. *)
LEMMA StepByStep ==
  ASSUME NEW P, NEW n \in Nat, 0 \in P,
         \A k \in 1..n : k - 1 \in P => k \in P
  PROVE  \A k \in 0..n : k \in P
  <1> DEFINE Q == {k \in Nat : k <= n => k \in P}
  <1>1. ASSUME NEW k \in Nat, \A j \in 0..(k - 1) : j \in Q PROVE k \in Q
    <2>1. CASE k = 0
      BY <2>1
    <2>2. CASE k # 0
      <3>1. k - 1 \in 0..(k - 1) /\ k - 1 \in Nat
        BY <2>2
      <3>2. k - 1 \in Q
        BY <1>1, <3>1
      <3> QED BY <2>2, <3>1, <3>2
    <2> QED BY <2>1, <2>2
  <1> HIDE DEF Q
  <1>2. \A k \in Nat : k \in Q
    BY <1>1, Climb
  <1> QED BY <1>2 DEF Q

LEMMA LineFacts ==
  ASSUME NEW l \in Lines
  PROVE  l \in Seq(Tokens) /\ l # EndOfFile
  <1>1. l \in Seq(Range(l)) /\ l # EndOfFile
    BY CifAssumption
  <1>2. Range(l) \subseteq Tokens
    BY DEF Tokens
  <1> QED BY <1>1, <1>2, SeqMonotonic

-----------------------------------------------------------------------------
(* A line is read token by token. *)

TokenByToken(f, m, l) == f[0] = m /\ \A k \in 1..Len(l) : f[k] = Read(f[k - 1], l[k])

LEMMA TokensChain ==
  ASSUME NEW m, NEW l \in Seq(Tokens)
  PROVE  \E f : TokenByToken(f, m, l) /\ ReadTokens(m, l) = f[Len(l)]
  <1> DEFINE Made(f) == [k \in 0..Len(l) |-> IF k = 0 THEN m ELSE Read(f[k - 1], l[k])]
             after == CHOOSE f : f = Made(f)
             P == {n \in Nat : \E f : f[0] = m /\ \A k \in 1..n : f[k] = Read(f[k - 1], l[k])}
  <1>0. Len(l) \in Nat
    OBVIOUS
  <1>1. 0 \in P
    <2> DEFINE f == [k \in {0} |-> m]
    <2>1. f[0] = m /\ \A k \in 1..0 : FALSE
      OBVIOUS
    <2> HIDE DEF f
    <2> QED BY <2>1
  <1>2. ASSUME NEW n \in 1..Len(l), n - 1 \in P PROVE n \in P
    <2>1. PICK g : g[0] = m /\ \A k \in 1..(n - 1) : g[k] = Read(g[k - 1], l[k])
      BY <1>2
    <2> DEFINE f == [k \in 0..n |-> IF k = n THEN Read(g[n - 1], l[n]) ELSE g[k]]
    <2>2. n \in Nat /\ 0 \in 0..n /\ n # 0
      BY <1>0
    <2>3. f[0] = m
      BY <2>1, <2>2
    <2>4. ASSUME NEW k \in 1..n PROVE f[k] = Read(f[k - 1], l[k])
      <3>1. k \in 0..n /\ k - 1 \in 0..n /\ k - 1 # n
        BY <2>2
      <3>2. f[k - 1] = g[k - 1]
        BY <3>1
      <3>3. CASE k = n
        BY <3>1, <3>2, <3>3
      <3>4. CASE k # n
        <4>1. k \in 1..(n - 1)
          BY <2>2, <3>4
        <4>2. f[k] = g[k]
          BY <3>1, <3>4
        <4> QED BY <2>1, <3>2, <4>1, <4>2
      <3> QED BY <3>3, <3>4
    <2> HIDE DEF f
    <2> QED BY <2>2, <2>3, <2>4
  <1> HIDE DEF P
  <1>3. Len(l) \in P
    <2>1. \A k \in 0..Len(l) : k \in P
      BY <1>0, <1>1, <1>2, StepByStep
    <2> QED BY <1>0, <2>1
  <1>4. PICK g : g[0] = m /\ \A k \in 1..Len(l) : g[k] = Read(g[k - 1], l[k])
    BY <1>3 DEF P
  <1> DEFINE h == [k \in 0..Len(l) |-> g[k]]
  <1>5. h = Made(h)
    <2>1. \A k \in 0..Len(l) : h[k] = IF k = 0 THEN m ELSE Read(h[k - 1], l[k])
      <3>1. ASSUME NEW k \in 0..Len(l), k # 0 PROVE h[k] = Read(h[k - 1], l[k])
        <4>1. k \in 1..Len(l) /\ k - 1 \in 0..Len(l)
          BY <1>0, <3>1
        <4> QED BY <1>4, <4>1
      <3>2. h[0] = m
        BY <1>0, <1>4
      <3> QED BY <3>1, <3>2
    <2>2. h = [k \in 0..Len(l) |-> h[k]]
      OBVIOUS
    <2> HIDE DEF h
    <2>3. [k \in 0..Len(l) |-> h[k]] = Made(h)
      BY <2>1
    <2> QED BY <2>2, <2>3
  <1>6. after = Made(after)
    <2> HIDE DEF Made, h
    <2> QED BY <1>5
  <1>7. ReadTokens(m, l) = after[Len(l)]
    BY DEF ReadTokens
  <1> HIDE DEF after
  <1>8. \A k \in 0..Len(l) : after[k] = IF k = 0 THEN m ELSE Read(after[k - 1], l[k])
    BY <1>6
  <1> HIDE DEF Made
  <1>9. TokenByToken(after, m, l)
    <2>1. 0 \in 0..Len(l) /\ \A k \in 1..Len(l) : k \in 0..Len(l) /\ k # 0
      BY <1>0
    <2> QED BY <1>8, <2>1 DEF TokenByToken
  <1> QED BY <1>7, <1>9

(* A file is read line by line. *)

LineByLine(f, lines) == f[0] = Blank0 /\ \A k \in 1..Len(lines) : f[k] = ReadLine(f[k - 1], lines[k])
Files == Seq(Lines \cup {EndOfFile})

LEMMA LinesChain ==
  ASSUME NEW F \in Files
  PROVE  \E f : LineByLine(f, F) /\ Meaning(F) = f[Len(F)]
  <1> DEFINE Made(f) == [k \in 0..Len(F) |-> IF k = 0 THEN Blank0 ELSE ReadLine(f[k - 1], F[k])]
             after == CHOOSE f : f = Made(f)
             P == {n \in Nat : \E f : f[0] = Blank0 /\ \A k \in 1..n : f[k] = ReadLine(f[k - 1], F[k])}
  <1>0. Len(F) \in Nat
    BY DEF Files
  <1>1. 0 \in P
    <2> DEFINE f == [k \in {0} |-> Blank0]
    <2>1. f[0] = Blank0 /\ \A k \in 1..0 : FALSE
      OBVIOUS
    <2> HIDE DEF f
    <2> QED BY <2>1
  <1>2. ASSUME NEW n \in 1..Len(F), n - 1 \in P PROVE n \in P
    <2>1. PICK g : g[0] = Blank0 /\ \A k \in 1..(n - 1) : g[k] = ReadLine(g[k - 1], F[k])
      BY <1>2
    <2> DEFINE f == [k \in 0..n |-> IF k = n THEN ReadLine(g[n - 1], F[n]) ELSE g[k]]
    <2>2. n \in Nat /\ 0 \in 0..n /\ n # 0
      BY <1>0
    <2>3. f[0] = Blank0
      BY <2>1, <2>2
    <2>4. ASSUME NEW k \in 1..n PROVE f[k] = ReadLine(f[k - 1], F[k])
      <3>1. k \in 0..n /\ k - 1 \in 0..n /\ k - 1 # n
        BY <2>2
      <3>2. f[k - 1] = g[k - 1]
        BY <3>1
      <3>3. CASE k = n
        BY <3>1, <3>2, <3>3
      <3>4. CASE k # n
        <4>1. k \in 1..(n - 1)
          BY <2>2, <3>4
        <4>2. f[k] = g[k]
          BY <3>1, <3>4
        <4> QED BY <2>1, <3>2, <4>1, <4>2
      <3> QED BY <3>3, <3>4
    <2> HIDE DEF f
    <2> QED BY <2>2, <2>3, <2>4
  <1> HIDE DEF P
  <1>3. Len(F) \in P
    <2>1. \A k \in 0..Len(F) : k \in P
      BY <1>0, <1>1, <1>2, StepByStep
    <2> QED BY <1>0, <2>1
  <1>4. PICK g : g[0] = Blank0 /\ \A k \in 1..Len(F) : g[k] = ReadLine(g[k - 1], F[k])
    BY <1>3 DEF P
  <1> DEFINE h == [k \in 0..Len(F) |-> g[k]]
  <1>5. h = Made(h)
    <2>1. \A k \in 0..Len(F) : h[k] = IF k = 0 THEN Blank0 ELSE ReadLine(h[k - 1], F[k])
      <3>1. ASSUME NEW k \in 0..Len(F), k # 0 PROVE h[k] = ReadLine(h[k - 1], F[k])
        <4>1. k \in 1..Len(F) /\ k - 1 \in 0..Len(F)
          BY <1>0, <3>1
        <4> QED BY <1>4, <4>1
      <3>2. h[0] = Blank0
        BY <1>0, <1>4
      <3> QED BY <3>1, <3>2
    <2>2. h = [k \in 0..Len(F) |-> h[k]]
      OBVIOUS
    <2> HIDE DEF h
    <2>3. [k \in 0..Len(F) |-> h[k]] = Made(h)
      BY <2>1
    <2> QED BY <2>2, <2>3
  <1>6. after = Made(after)
    <2> HIDE DEF Made, h
    <2> QED BY <1>5
  <1>7. Meaning(F) = after[Len(F)]
    BY DEF Meaning
  <1> HIDE DEF after
  <1>8. \A k \in 0..Len(F) : after[k] = IF k = 0 THEN Blank0 ELSE ReadLine(after[k - 1], F[k])
    BY <1>6
  <1> HIDE DEF Made
  <1>9. LineByLine(after, F)
    <2>1. 0 \in 0..Len(F) /\ \A k \in 1..Len(F) : k \in 0..Len(F) /\ k # 0
      BY <1>0
    <2> QED BY <1>8, <2>1 DEF LineByLine
  <1> QED BY <1>7, <1>9

(* What one more line adds. *)
LEMMA MeaningOfAppend ==
  ASSUME NEW F \in Files, NEW l \in Lines \cup {EndOfFile}
  PROVE  Meaning(Append(F, l)) = ReadLine(Meaning(F), l)
  <1> DEFINE G == Append(F, l)
             n == Len(F)
  <1>1. /\ G \in Files /\ n \in Nat /\ Len(G) = n + 1 /\ G[n + 1] = l
        /\ \A k \in 1..n : G[k] = F[k]
    BY DEF Files
  <1> HIDE DEF G, n
  <1>2. PICK f : LineByLine(f, F) /\ Meaning(F) = f[n]
    BY LinesChain DEF n
  <1>3. PICK g : LineByLine(g, G) /\ Meaning(G) = g[n + 1]
    BY <1>1, LinesChain
  <1> DEFINE P == {k \in Nat : g[k] = f[k]}
  <1>4. 0 \in P
    BY <1>2, <1>3 DEF LineByLine
  <1>5. ASSUME NEW k \in 1..n, k - 1 \in P PROVE k \in P
    <2>1. k \in 1..(n + 1) /\ k \in Nat /\ G[k] = F[k] /\ k \in 1..Len(F)
      BY <1>1 DEF n
    <2>2. f[k] = ReadLine(f[k - 1], F[k])
      BY <1>2, <2>1 DEF LineByLine
    <2>3. g[k] = ReadLine(g[k - 1], G[k])
      BY <1>1, <1>3, <2>1 DEF LineByLine
    <2> QED BY <1>5, <2>1, <2>2, <2>3
  <1>6. n \in P
    <2> HIDE DEF P
    <2>1. \A k \in 0..n : k \in P
      BY <1>1, <1>4, <1>5, StepByStep
    <2> QED BY <1>1, <2>1
  <1>7. g[n + 1] = ReadLine(g[n], G[n + 1])
    <2>1. n + 1 \in 1..(n + 1) /\ (n + 1) - 1 = n
      BY <1>1
    <2> QED BY <1>1, <1>3, <2>1 DEF LineByLine
  <1> QED BY <1>1, <1>2, <1>3, <1>6, <1>7 DEF G

LEMMA MeaningOfNothing == Meaning(<< >>) = Blank0
  <1>1. << >> \in Files /\ Len(<< >>) = 0
    BY DEF Files
  <1>2. PICK f : LineByLine(f, << >>) /\ Meaning(<< >>) = f[Len(<< >>)]
    BY <1>1, LinesChain
  <1> QED BY <1>1, <1>2 DEF LineByLine

(* One more line laid out as the others are. *)
LEMMA LaidOutSplits ==
  ASSUME NEW F \in Files, NEW l \in Lines \cup {EndOfFile}, LaidOut(Append(F, l))
  PROVE  LaidOut(F) /\ (l # EndOfFile => OneConstruct(Meaning(F), l))
  <1> DEFINE G == Append(F, l)
             n == Len(F)
  <1>1. /\ G \in Files /\ n \in Nat /\ Len(G) = n + 1 /\ G[n + 1] = l
        /\ DOMAIN G = 1..(n + 1) /\ DOMAIN F = 1..n
        /\ \A k \in 1..n : G[k] = F[k]
    BY DEF Files
  <1>2. ASSUME NEW k \in 0..n PROVE SubSeq(G, 1, k) = SubSeq(F, 1, k)
    <2>1. \A i \in 1..k : G[i] = F[i]
      BY <1>1
    <2>2. /\ SubSeq(G, 1, k) = [i \in 1..k |-> G[i]]
          /\ SubSeq(F, 1, k) = [i \in 1..k |-> F[i]]
      <3> HIDE DEF G, n
      <3> QED BY <1>1 DEF Files
    <2> HIDE DEF G, n
    <2> QED BY <2>1, <2>2
  <1>3. SubSeq(F, 1, n) = F
    BY DEF Files
  <1> HIDE DEF n
  <1>4. \A k \in 1..(n + 1) :
          G[k] # EndOfFile => OneConstruct(Meaning(SubSeq(G, 1, k - 1)), G[k])
    BY <1>1 DEF LaidOut
  <1> HIDE DEF G
  <1>5. ASSUME NEW k \in 1..n, F[k] # EndOfFile
        PROVE  OneConstruct(Meaning(SubSeq(F, 1, k - 1)), F[k])
    <2>1. k \in 1..(n + 1) /\ k - 1 \in 0..n /\ G[k] = F[k]
      BY <1>1
    <2> QED BY <1>2, <1>4, <1>5, <2>1
  <1>6. l # EndOfFile => OneConstruct(Meaning(F), l)
    <2>1. n + 1 \in 1..(n + 1) /\ (n + 1) - 1 = n /\ n \in 0..n
      BY <1>1
    <2>2. SubSeq(G, 1, n) = F
      BY <1>2, <1>3, <2>1
    <2> QED BY <1>1, <1>4, <2>1, <2>2
  <1>7. LaidOut(F)
    BY <1>1, <1>5 DEF LaidOut
  <1> QED BY <1>6, <1>7

-----------------------------------------------------------------------------
(* What a token does to the state of the grammar. *)

Wrong(m) == m.at \in {"malformed", "interrupted"}
Ended(m) == m.at \in {"over", "malformed", "interrupted"}
State(at, m) == [at |-> at, block |-> m.block, tags |-> m.tags, loops |-> m.loops,
                 tag |-> m.tag, text |-> m.text]
Shaped(m) == m = State(m.at, m)
Plain(m) == m.at \notin {"tag", "text", "loop text"}

LEMMA WordFacts ==
  /\ Names \subseteq Words /\ "loop_" \in Words /\ "data_" \in Words
  /\ ";" \notin Words /\ Unfinished \notin Words /\ Unfinished # ";"
  /\ "loop_" \notin Names /\ "data_" \notin Names /\ ";" \notin Names
  /\ \A w \in Words : w \in Names \/ w = "loop_" \/ w = "data_"
  /\ NoBlock # "data_"
  BY CifAssumption DEF Words

LEMMA AtFacts ==
  ASSUME NEW m, Shaped(m), NEW at
  PROVE  /\ [m EXCEPT !.at = at] = State(at, m)
         /\ Shaped(State(at, m)) /\ State(at, m).at = at
         /\ State(at, m).block = m.block /\ State(at, m).tags = m.tags
         /\ State(at, m).loops = m.loops /\ State(at, m).tag = m.tag /\ State(at, m).text = m.text
  BY DEF Shaped, State

LEMMA Malformed ==
  ASSUME NEW m, Shaped(m), NEW x,
         \/ x = [m EXCEPT !.at = "malformed"]
         \/ x = State("malformed", m)
         \/ x = State("interrupted", m)
  PROVE  Wrong(x)
  <1>1. x = State("malformed", m) \/ x = State("interrupted", m)
    BY AtFacts
  <1>2. \A at : State(at, m).at = at
    BY DEF State
  <1>3. State("malformed", m).at = "malformed" /\ State("interrupted", m).at = "interrupted"
    BY <1>2
  <1> QED BY <1>1, <1>3 DEF Wrong

LEMMA WithLastShape ==
  ASSUME NEW m, Shaped(m), NEW l
  PROVE  Shaped(WithLast(m, l)) /\ WithLast(m, l).at = m.at
  BY DEF Shaped, State, WithLast

(* A word takes the grammar past the first block only if it is a data_.     *)
LEMMA WordShape ==
  ASSUME NEW m, Shaped(m), NEW token \in Words, ~Ended(m)
  PROVE  /\ Shaped(Word(m, token))
         /\ Word(m, token).at = "over" => token = "data_" /\ m.block # NoBlock
  <1>1. CASE token \in Names /\ m.at = "columns"
    BY <1>1, WithLastShape DEF Word
  <1>2. CASE ~(token \in Names /\ m.at = "columns") /\ Found(m, token) # "between"
    <2>1. Found(m, token) # "over"
      BY DEF Found, Interrupted
    <2>2. Word(m, token) = [m EXCEPT !.at = Found(m, token)]
      BY <1>2 DEF Word
    <2>3. Word(m, token) = State(Found(m, token), m)
      BY <2>2, AtFacts
    <2> QED BY <2>1, <2>3, AtFacts
  <1>3. CASE ~(token \in Names /\ m.at = "columns") /\ Found(m, token) = "between"
    <2>1. CASE token \in Names
      <3>1. Word(m, token) = [m EXCEPT !.at = "tag", !.tag = token]
        BY <1>3, <2>1 DEF Word
      <3> QED BY <3>1 DEF Shaped, State
    <2>2. CASE token = "loop_"
      <3>1. Word(m, token) = [m EXCEPT !.at = "columns",
                         !.loops = Append(@, [columns |-> << >>, values |-> << >>])]
        BY <1>3, <2>2, WordFacts DEF Word
      <3> QED BY <3>1 DEF Shaped, State
    <2>3. CASE token = "data_" /\ m.block = NoBlock
      <3>1. Word(m, token) = [m EXCEPT !.at = "between", !.block = token]
        BY <1>3, <2>3, WordFacts DEF Word
      <3> QED BY <3>1 DEF Shaped, State
    <2>4. CASE token = "data_" /\ m.block # NoBlock
      <3>1. Word(m, token) = [m EXCEPT !.at = "over"]
        BY <1>3, <2>4, WordFacts DEF Word
      <3>2. Word(m, token) = State("over", m)
        BY <3>1, AtFacts
      <3> QED BY <2>4, <3>2, AtFacts
    <2> QED BY <2>1, <2>2, <2>3, <2>4, WordFacts
  <1> QED BY <1>1, <1>2, <1>3

LEMMA DatumShape ==
  ASSUME NEW m, Shaped(m), NEW token, ~Ended(m)
  PROVE  Shaped(Datum(m, token)) /\ Datum(m, token).at # "over"
  <1>1. CASE m.at = "tag"
    <2>1. Datum(m, token) = [m EXCEPT !.at = "between", !.tags = Stored(@, m.tag, <<token>>)]
      BY <1>1 DEF Datum
    <2> QED BY <2>1 DEF Shaped, State
  <1>2. CASE m.at = "values" \/ (m.at = "columns" /\ LastLoop(m).columns # << >>)
    <2>1. Datum(m, token) = WithLast([m EXCEPT !.at = "values"],
                                     [LastLoop(m) EXCEPT !.values = Append(@, token)])
      BY <1>2 DEF Datum
    <2>2. [m EXCEPT !.at = "values"] = State("values", m) /\ Shaped(State("values", m))
          /\ State("values", m).at = "values"
      BY AtFacts
    <2> QED BY <2>1, <2>2, WithLastShape
  <1>3. CASE m.at # "tag" /\ ~(m.at = "values" \/ (m.at = "columns" /\ LastLoop(m).columns # << >>))
    <2>1. Datum(m, token) = [m EXCEPT !.at = "malformed"]
      BY <1>3 DEF Datum
    <2> QED BY <2>1, AtFacts
  <1> QED BY <1>1, <1>2, <1>3

LEMMA ReadShape ==
  ASSUME NEW m, Shaped(m), NEW token
  PROVE  /\ Shaped(Read(m, token))
         /\ Ended(m) => Read(m, token) = m
         /\ Read(m, token).at = "over" => m.at = "over" \/ (token = "data_" /\ m.block # NoBlock)
         /\ token = Unfinished => Read(m, token).at = "over" \/ Wrong(Read(m, token))
  <1>1. CASE Ended(m)
    BY <1>1 DEF Read, Ended, Wrong
  <1>2. CASE ~Ended(m) /\ token = Unfinished
    <2>1. Read(m, token) = [m EXCEPT !.at = "malformed"]
      BY <1>2 DEF Read, Ended
    <2>2. Read(m, token) = State("malformed", m)
      BY <2>1, AtFacts
    <2>3. Shaped(Read(m, token)) /\ Read(m, token).at = "malformed"
      BY <2>2, AtFacts
    <2> QED BY <1>2, <2>3 DEF Wrong
  <1>3. CASE ~Ended(m) /\ token # Unfinished /\ token \in Words
    BY <1>3, WordShape DEF Read, Ended
  <1>4. CASE ~Ended(m) /\ token # Unfinished /\ token \notin Words
    BY <1>4, DatumShape DEF Read, Ended
  <1> QED BY <1>1, <1>2, <1>3, <1>4

LEMMA TokensShape ==
  ASSUME NEW m, Shaped(m), NEW l \in Seq(Tokens), NEW f, TokenByToken(f, m, l)
  PROVE  \A k \in 0..Len(l) : Shaped(f[k])
  <1> DEFINE P == {k \in Nat : Shaped(f[k])}
  <1>1. 0 \in P /\ Len(l) \in Nat
    BY DEF TokenByToken
  <1>2. ASSUME NEW k \in 1..Len(l), k - 1 \in P PROVE k \in P
    BY <1>2, ReadShape DEF TokenByToken
  <1> HIDE DEF P
  <1>3. \A k \in 0..Len(l) : k \in P
    BY <1>1, <1>2, StepByStep
  <1> QED BY <1>3 DEF P

(* Where the grammar has stopped it stays. *)
LEMMA EndedOnwards ==
  ASSUME NEW m, Shaped(m), NEW l \in Seq(Tokens), NEW f, TokenByToken(f, m, l),
         NEW i \in 0..Len(l), Ended(f[i])
  PROVE  f[Len(l)] = f[i]
  <1> DEFINE P == {k \in Nat : k >= i => f[k] = f[i]}
  <1>1. 0 \in P /\ Len(l) \in Nat
    OBVIOUS
  <1>2. ASSUME NEW k \in 1..Len(l), k - 1 \in P PROVE k \in P
    <2>1. CASE k > i
      <3>1. f[k - 1] = f[i] /\ k - 1 \in 0..Len(l)
        BY <1>2, <2>1
      <3>2. f[k] = f[k - 1]
        BY <3>1, TokensShape, ReadShape DEF TokenByToken
      <3> QED BY <3>1, <3>2
    <2>2. CASE k <= i
      BY <2>2
    <2> QED BY <2>1, <2>2
  <1> HIDE DEF P
  <1>3. \A k \in 0..Len(l) : k \in P
    BY <1>1, <1>2, StepByStep
  <1>4. Len(l) \in P
    BY <1>1, <1>3
  <1> QED BY <1>1, <1>4 DEF P

LEMMA FirstToken ==
  ASSUME NEW m, Shaped(m), NEW l \in Seq(Tokens), l # << >>
  PROVE  /\ Len(l) = 1 => ReadTokens(m, l) = Read(m, l[1])
         /\ Ended(Read(m, l[1])) => ReadTokens(m, l) = Read(m, l[1])
  <1>1. PICK f : TokenByToken(f, m, l) /\ ReadTokens(m, l) = f[Len(l)]
    BY TokensChain
  <1>2. 1 \in 1..Len(l) /\ 1 \in 0..Len(l) /\ 1 - 1 = 0
    OBVIOUS
  <1>3. f[1] = Read(m, l[1])
    BY <1>1, <1>2 DEF TokenByToken
  <1>4. Ended(f[1]) => f[Len(l)] = f[1]
    BY <1>1, <1>2, EndedOnwards
  <1> QED BY <1>1, <1>3, <1>4

LEMMA NoTokens ==
  ASSUME NEW m
  PROVE  ReadTokens(m, << >>) = m
  <1>1. << >> \in Seq(Tokens) /\ Len(<< >>) = 0
    OBVIOUS
  <1> DEFINE nothing == << >>
  <1>2. nothing \in Seq(Tokens)
    BY <1>1
  <1>3. Len(nothing) = 0
    BY <1>1
  <1> HIDE DEF nothing
  <1>4. PICK f : TokenByToken(f, m, nothing) /\ ReadTokens(m, nothing) = f[Len(nothing)]
    BY <1>2, TokensChain
  <1> QED BY <1>3, <1>4 DEF TokenByToken, nothing

(* A quote left open on a line breaks it, but past the first block. *)
LEMMA UnfinishedBreaks ==
  ASSUME NEW m, Shaped(m), NEW l \in Seq(Tokens), NEW t \in 1..Len(l), l[t] = Unfinished,
         \A u \in 2..Len(l) : l[u] \notin Words,
         m.at # "over", l[1] = "data_" => m.block = NoBlock
  PROVE  Wrong(ReadTokens(m, l))
  <1>1. PICK f : TokenByToken(f, m, l) /\ ReadTokens(m, l) = f[Len(l)]
    BY TokensChain
  <1> DEFINE P == {k \in Nat : f[k].at # "over"}
  <1>2. 0 \in P /\ Len(l) \in Nat
    BY <1>1 DEF TokenByToken
  <1>3. ASSUME NEW k \in 1..Len(l), k - 1 \in P PROVE k \in P
    <2>1. k - 1 \in 0..Len(l) /\ f[k] = Read(f[k - 1], l[k]) /\ Shaped(f[k - 1])
      BY <1>1, TokensShape DEF TokenByToken
    <2>2. CASE k = 1
      <3>1. f[k - 1] = m
        BY <1>1, <2>2 DEF TokenByToken
      <3> QED BY <2>1, <2>2, <3>1, ReadShape
    <2>3. CASE k # 1
      <3>1. l[k] # "data_"
        <4>1. k \in 2..Len(l)
          BY <1>2, <2>3
        <4> QED BY <4>1, WordFacts
      <3> QED BY <1>3, <2>1, <3>1, ReadShape
    <2> QED BY <2>2, <2>3
  <1> HIDE DEF P
  <1>4. \A k \in 0..Len(l) : k \in P
    BY <1>2, <1>3, StepByStep
  <1>5. Wrong(f[t])
    <2>1. t - 1 \in 0..Len(l) /\ t \in 0..Len(l) /\ f[t] = Read(f[t - 1], l[t]) /\ Shaped(f[t - 1])
      BY <1>1, TokensShape DEF TokenByToken
    <2> QED BY <1>4, <2>1, ReadShape DEF P
  <1>6. f[Len(l)] = f[t]
    <2>1. t \in 0..Len(l)
      OBVIOUS
    <2>2. Ended(f[t])
      BY <1>5 DEF Ended, Wrong
    <2> QED BY <1>1, <2>1, <2>2, EndedOnwards
  <1> QED BY <1>1, <1>5, <1>6

(* Data after a construct that is complete belong to nothing. *)
LEMMA StrayData ==
  ASSUME NEW m, Shaped(m), NEW l \in Seq(Tokens), NEW k \in 1..Len(l), NEW f, TokenByToken(f, m, l),
         f[k - 1].at = "between", l[k] \notin Words
  PROVE  Wrong(f[Len(l)])
  <1>1. k - 1 \in 0..Len(l) /\ k \in 0..Len(l) /\ f[k] = Read(f[k - 1], l[k]) /\ Shaped(f[k - 1])
    BY TokensShape DEF TokenByToken
  <1>2. f[k] = [f[k - 1] EXCEPT !.at = "malformed"]
    BY <1>1 DEF Read, Datum
  <1>3. f[k].at = "malformed"
    BY <1>1, <1>2, AtFacts
  <1>4. f[Len(l)] = f[k]
    BY <1>1, <1>3, EndedOnwards DEF Ended
  <1> QED BY <1>3, <1>4 DEF Wrong

LEMMA EndedStays ==
  ASSUME NEW m, Shaped(m), Ended(m), NEW l \in Lines \cup {EndOfFile}
  PROVE  ReadLine(m, l) = m
  <1>1. CASE l = EndOfFile
    BY <1>1 DEF ReadLine, Ended
  <1>2. CASE l # EndOfFile
    <2>1. l \in Seq(Tokens) /\ ~InText(m) /\ ~InLoop(m) /\ m.at # "tag"
      BY <1>2, LineFacts DEF Ended, InText, InLoop
    <2>2. ReadLine(m, l) = ReadTokens(m, l)
      BY <1>2, <2>1 DEF ReadLine
    <2>3. ReadTokens(m, l) = m
      <3>1. PICK f : TokenByToken(f, m, l) /\ ReadTokens(m, l) = f[Len(l)]
        BY <2>1, TokensChain
      <3>2. 0 \in 0..Len(l) /\ f[0] = m
        BY <2>1, <3>1 DEF TokenByToken
      <3> QED BY <2>1, <3>1, <3>2, EndedOnwards
    <2> QED BY <2>2, <2>3
  <1> QED BY <1>1, <1>2

-----------------------------------------------------------------------------
(* Data in a loop. *)

Holding(at, m, held) == [at |-> at, block |-> m.block, tags |-> m.tags, loops |-> held,
                         tag |-> m.tag, text |-> m.text]
Opened(closed, columns, values) == Append(closed, [columns |-> columns, values |-> values])

LEMMA AppendLast ==
  ASSUME NEW S, NEW s \in Seq(S), NEW e
  PROVE  Front(Append(s, e)) = s /\ Last(Append(s, e)) = e /\ Append(s, e) # << >>
         /\ Len(Append(s, e)) = Len(s) + 1
  <1> DEFINE T == S \cup {e}
             a == Append(s, e)
  <1>1. s \in Seq(T) /\ e \in T
    OBVIOUS
  <1> HIDE DEF T
  <1>2. /\ a \in Seq(T) /\ Len(a) = Len(s) + 1 /\ Len(s) \in Nat /\ a[Len(s) + 1] = e
        /\ \A k \in 1..Len(s) : a[k] = s[k]
    BY <1>1
  <1> HIDE DEF a
  <1>3. a # << >> /\ Last(a) = e
    BY <1>2 DEF Last
  <1>4. Front(a) = s
    <2>1. Front(a) = SubSeq(a, 1, Len(s))
      BY <1>2 DEF Front
    <2>2. SubSeq(a, 1, Len(s)) = [k \in 1..Len(s) |-> a[k]]
      BY <1>2
    <2>3. s = [k \in 1..Len(s) |-> s[k]]
      BY <1>1
    <2> QED BY <1>2, <2>1, <2>2, <2>3
  <1> QED BY <1>2, <1>3, <1>4 DEF a

LEMMA OpenedFacts ==
  ASSUME NEW S, NEW closed \in Seq(S), NEW columns, NEW values, NEW m,
         m.loops = Opened(closed, columns, values)
  PROVE  /\ LastLoop(m) = [columns |-> columns, values |-> values]
         /\ LastLoop(m).columns = columns /\ LastLoop(m).values = values
  <1> DEFINE r == [columns |-> columns, values |-> values]
  <1>1. m.loops = Append(closed, r)
    BY DEF Opened
  <1>2. Last(m.loops) = r
    <2> HIDE DEF r
    <2> QED BY <1>1, AppendLast
  <1> QED BY <1>2 DEF LastLoop

LEMMA WithLastFacts ==
  ASSUME NEW S, NEW closed \in Seq(S), NEW r, NEW m, m.loops = Append(closed, r)
  PROVE  \A at, l : WithLast(State(at, m), l) = Holding(at, m, Append(closed, l))
  <1> SUFFICES ASSUME NEW at, NEW l
               PROVE  WithLast(State(at, m), l) = Holding(at, m, Append(closed, l))
    OBVIOUS
  <1>1. Front(m.loops) = closed
    BY AppendLast
  <1> DEFINE x == State(at, m)
  <1>2. x.loops = m.loops
    BY DEF State
  <1>3. WithLast(x, l) = [x EXCEPT !.loops = Append(closed, l)]
    <2> HIDE DEF x
    <2> QED BY <1>1, <1>2 DEF WithLast
  <1> QED BY <1>3 DEF State, Holding

LEMMA HoldingFacts ==
  ASSUME NEW m, NEW at, NEW held
  PROVE  /\ Shaped(Holding(at, m, held)) /\ Holding(at, m, held).at = at
         /\ Holding(at, m, held).loops = held /\ Holding(at, m, held).block = m.block
         /\ Holding(at, m, held).tags = m.tags /\ Holding(at, m, held).tag = m.tag
         /\ Holding(at, m, held).text = m.text
         /\ \A a, h : Holding(a, Holding(at, m, held), h) = Holding(a, m, h)
         /\ \A a : State(a, Holding(at, m, held)) = Holding(a, m, held)
  BY DEF Shaped, Holding, State

(* One value more. *)
LEMMA ValueMore ==
  \A columns, values, token :
    [[columns |-> columns, values |-> values] EXCEPT !.values = Append(@, token)]
      = [columns |-> columns, values |-> Append(values, token)]
  OBVIOUS

LEMMA DatumInLoop ==
  ASSUME NEW S, NEW closed \in Seq(S), NEW columns, columns # << >>, NEW values, NEW token,
         token \notin Words, token # Unfinished, NEW m, Shaped(m),
         m.loops = Opened(closed, columns, values), m.at \in {"columns", "values"}
  PROVE  Read(m, token) = Holding("values", m, Opened(closed, columns, Append(values, token)))
  <1>1. Read(m, token) = Datum(m, token)
    BY DEF Read
  <1>2. LastLoop(m).columns = columns
    BY OpenedFacts
  <1>3. Datum(m, token) = WithLast([m EXCEPT !.at = "values"],
                                   [LastLoop(m) EXCEPT !.values = Append(@, token)])
    BY <1>2 DEF Datum
  <1>4. [m EXCEPT !.at = "values"] = State("values", m)
    BY AtFacts
  <1>5. [LastLoop(m) EXCEPT !.values = Append(@, token)]
          = [columns |-> columns, values |-> Append(values, token)]
    <2> DEFINE last == [columns |-> columns, values |-> values]
    <2>1. m.loops = Append(closed, last)
      BY DEF Opened
    <2>2. [last EXCEPT !.values = Append(@, token)]
            = [columns |-> columns, values |-> Append(values, token)]
      BY ValueMore
    <2> HIDE DEF last
    <2>3. LastLoop(m) = last
      BY <2>1, AppendLast DEF LastLoop
    <2> QED BY <2>2, <2>3
  <1> DEFINE more == [columns |-> columns, values |-> Append(values, token)]
             r == [columns |-> columns, values |-> values]
  <1>6. WithLast(State("values", m), more) = Holding("values", m, Append(closed, more))
    <2>1. m.loops = Append(closed, r)
      BY DEF Opened
    <2> HIDE DEF more, r
    <2>2. \A at, l : WithLast(State(at, m), l) = Holding(at, m, Append(closed, l))
      BY <2>1, WithLastFacts, ZenonT(30)
    <2> QED BY <2>2
  <1> QED BY <1>1, <1>3, <1>4, <1>5, <1>6 DEF Opened

LEMMA OneMore ==
  ASSUME NEW v \in Seq(Tokens), NEW l \in Seq(Tokens), NEW k \in 1..Len(l)
  PROVE  Append(v \o SubSeq(l, 1, k - 1), l[k]) = v \o SubSeq(l, 1, k)
  <1>1. Len(l) \in Nat /\ Len(v) \in Nat /\ l[k] \in Tokens
    OBVIOUS
  <1>2. /\ SubSeq(l, 1, k - 1) \in Seq(Tokens) /\ Len(SubSeq(l, 1, k - 1)) = k - 1
        /\ \A i \in 1..(k - 1) : SubSeq(l, 1, k - 1)[i] = l[i]
    BY <1>1
  <1>3. /\ SubSeq(l, 1, k) \in Seq(Tokens) /\ Len(SubSeq(l, 1, k)) = k
        /\ \A i \in 1..k : SubSeq(l, 1, k)[i] = l[i]
    BY <1>1
  <1> DEFINE a == SubSeq(l, 1, k - 1)
             b == SubSeq(l, 1, k)
             x == Append(v \o a, l[k])
             y == v \o b
  <1> HIDE DEF a, b
  <1>4. /\ x \in Seq(Tokens) /\ Len(x) = Len(v) + k
        /\ \A i \in 1..Len(v) : x[i] = v[i]
        /\ \A i \in 1..(k - 1) : x[Len(v) + i] = l[i]
        /\ x[Len(v) + k] = l[k]
    BY <1>1, <1>2 DEF a
  <1>5. /\ y \in Seq(Tokens) /\ Len(y) = Len(v) + k
        /\ \A i \in 1..Len(v) : y[i] = v[i]
        /\ \A i \in 1..k : y[Len(v) + i] = l[i]
    BY <1>1, <1>3 DEF b
  <1> HIDE DEF x, y
  <1>6. ASSUME NEW i \in 1..Len(x) PROVE x[i] = y[i]
    <2>1. CASE i <= Len(v)
      BY <1>1, <1>4, <1>5, <2>1
    <2>2. CASE i > Len(v)
      <3>1. i - Len(v) \in 1..k /\ Len(v) + (i - Len(v)) = i
        BY <1>1, <1>4, <2>2
      <3>2. i - Len(v) \in 1..(k - 1) \/ i - Len(v) = k
        BY <3>1
      <3> QED BY <1>4, <1>5, <3>1, <3>2
    <2> QED BY <1>1, <1>4, <2>1, <2>2
  <1>7. x = y
    BY <1>4, <1>5, <1>6, SeqEqual
  <1> QED BY <1>7 DEF x, y, a, b

(* A line of data: its tokens are the next values of the loop. *)
LEMMA RowsRead ==
  ASSUME NEW S, NEW closed \in Seq(S), NEW columns, columns # << >>, NEW values \in Seq(Tokens),
         NEW l \in Seq(Tokens), l # << >>, \A t \in 1..Len(l) : l[t] \notin Words /\ l[t] # Unfinished,
         NEW m, Shaped(m), m.loops = Opened(closed, columns, values), m.at \in {"columns", "values"}
  PROVE  ReadTokens(m, l) = Holding("values", m, Opened(closed, columns, values \o l))
  <1>1. PICK f : TokenByToken(f, m, l) /\ ReadTokens(m, l) = f[Len(l)]
    BY TokensChain
  <1> DEFINE At(k) == IF k = 0 THEN m.at ELSE "values"
             Upto(k) == Opened(closed, columns, values \o SubSeq(l, 1, k))
             P == {k \in Nat : f[k] = Holding(At(k), m, Upto(k))}
  <1>2. Len(l) \in Nat /\ Len(l) # 0
    OBVIOUS
  <1>3. 0 \in P
    <2>1. SubSeq(l, 1, 0) = << >> /\ values \o << >> = values
      OBVIOUS
    <2>2. f[0] = m /\ m = Holding(m.at, m, m.loops)
      BY <1>1 DEF TokenByToken, Shaped, State, Holding
    <2> QED BY <2>1, <2>2
  <1>4. ASSUME NEW k \in 1..Len(l), k - 1 \in P PROVE k \in P
    <2>1. f[k] = Read(f[k - 1], l[k]) /\ k \in Nat /\ k # 0
      BY <1>1, <1>2 DEF TokenByToken
    <2> DEFINE x == Holding(At(k - 1), m, Upto(k - 1))
               before == values \o SubSeq(l, 1, k - 1)
    <2>2. f[k - 1] = x /\ At(k - 1) \in {"columns", "values"}
      BY <1>4
    <2>3. Shaped(x) /\ x.at = At(k - 1) /\ x.loops = Opened(closed, columns, before)
      BY HoldingFacts
    <2>4. \A h : Holding("values", x, h) = Holding("values", m, h)
      BY HoldingFacts
    <2>5. Append(before, l[k]) = values \o SubSeq(l, 1, k)
      BY OneMore
    <2> HIDE DEF x, before, At
    <2>6. l[k] \notin Words /\ l[k] # Unfinished
      OBVIOUS
    <2>7. Read(x, l[k]) = Holding("values", x, Opened(closed, columns, Append(before, l[k])))
      BY <2>2, <2>3, <2>6, DatumInLoop
    <2>8. f[k] = Holding("values", m, Upto(k))
      BY <2>1, <2>2, <2>4, <2>5, <2>7
    <2>9. At(k) = "values"
      BY <2>1 DEF At
    <2> QED BY <2>1, <2>8, <2>9
  <1> HIDE DEF P
  <1>5. Len(l) \in P
    <2>1. \A k \in 0..Len(l) : k \in P
      BY <1>2, <1>3, <1>4, StepByStep
    <2> QED BY <1>2, <2>1
  <1>6. f[Len(l)] = Holding("values", m, Upto(Len(l)))
    BY <1>2, <1>5 DEF P
  <1>7. SubSeq(l, 1, Len(l)) = l
    OBVIOUS
  <1> QED BY <1>1, <1>6, <1>7

-----------------------------------------------------------------------------
(* Tokens dealt into rows: read row by row they stand as they did. *)

LEMMA Times ==
  ASSUME NEW a \in Int, NEW b \in Int, NEW w \in Nat, a <= b
  PROVE  a * w <= b * w
  <1>1. (b - a) * w >= 0
    <2>1. b - a \in Nat
      OBVIOUS
    <2> DEFINE c == b - a
    <2> HIDE DEF c
    <2>2. c \in Nat
      BY <2>1 DEF c
    <2>3. c * w >= 0
      BY <2>2
    <2> QED BY <2>3 DEF c
  <1>2. (b - a) * w = b * w - a * w
    OBVIOUS
  <1>3. a * w \in Int /\ b * w \in Int
    OBVIOUS
  <1> QED BY <1>1, <1>2, <1>3

LEMMA DivisionFacts ==
  ASSUME NEW x \in Int, NEW w \in Nat \ {0}
  PROVE  x \div w \in Int /\ x % w \in 0..(w - 1) /\ x = w * (x \div w) + (x % w)
  OBVIOUS

(* The i-th of n rows of w: its row, its place in the row. *)
LEMMA Place ==
  ASSUME NEW n \in Nat, NEW w \in Nat \ {0}, NEW i \in 1..(n * w)
  PROVE  /\ (i - 1) \div w \in 0..(n - 1) /\ (i - 1) % w \in 0..(w - 1)
         /\ i = ((i - 1) \div w) * w + ((i - 1) % w) + 1
  <1> DEFINE q == (i - 1) \div w
             r == (i - 1) % w
             nw == n * w
  <1>1. nw \in Nat /\ i - 1 \in Nat /\ i <= nw
    OBVIOUS
  <1>2. q \in Int /\ r \in 0..(w - 1) /\ i - 1 = w * q + r
    <2>1. i - 1 \in Int
      BY <1>1
    <2> QED BY <2>1, DivisionFacts
  <1>3. w * q = q * w
    BY <1>2
  <1> HIDE DEF q, r
  <1>4. q >= 0
    <2>1. CASE q <= -1
      <3>1. q * w <= (-1) * w
        BY <1>2, <2>1, Times
      <3>2. (-1) * w = -w /\ q * w \in Int
        BY <1>2
      <3> QED BY <1>1, <1>2, <1>3, <3>1, <3>2
    <2> QED BY <1>2, <2>1
  <1>5. q < n
    <2>1. CASE n <= q
      <3>1. n * w <= q * w
        BY <1>2, <2>1, Times
      <3>2. q * w \in Int
        BY <1>2
      <3> HIDE DEF nw
      <3>3. nw <= q * w
        BY <3>1 DEF nw
      <3> QED BY <1>1, <1>2, <1>3, <3>2, <3>3
    <2> QED BY <1>2, <2>1
  <1>6. i = q * w + r + 1
    <2>1. q * w \in Int
      BY <1>2
    <2> QED BY <1>1, <1>2, <1>3, <2>1
  <1> QED BY <1>2, <1>4, <1>5, <1>6 DEF q, r

RowsOK(l) ==
  /\ l = [columns |-> l.columns, rows |-> l.rows]
  /\ l.columns \in Seq(Names) /\ l.rows \in Seq(Seq(Tokens))
  /\ \A r \in DOMAIN l.rows : Len(l.rows[r]) = Len(l.columns)
  /\ l.columns = << >> => l.rows = << >>

LEMMA ToldFacts ==
  ASSUME NEW l, RowsOK(l)
  PROVE  /\ Told(l) = [columns |-> l.columns, values |-> Told(l).values]
         /\ Told(l).columns = l.columns
         /\ Told(l).values \in Seq(Tokens) /\ Len(Told(l).values) = Len(l.rows) * Len(l.columns)
         /\ \A i \in 1..(Len(l.rows) * Len(l.columns)) :
              Told(l).values[i] =
                l.rows[(i - 1) \div Len(l.columns) + 1][((i - 1) % Len(l.columns)) + 1]
  <1> DEFINE w == Len(l.columns)
             n == Len(l.rows)
             nw == n * w
             v == [i \in 1..nw |-> l.rows[(i - 1) \div w + 1][((i - 1) % w) + 1]]
  <1>1. w \in Nat /\ n \in Nat /\ nw \in Nat /\ DOMAIN l.rows = 1..n
    <2>1. l.columns \in Seq(Names) /\ l.rows \in Seq(Seq(Tokens))
      BY DEF RowsOK
    <2>2. w \in Nat /\ n \in Nat /\ DOMAIN l.rows = 1..n
      BY <2>1
    <2> HIDE DEF w, n
    <2> QED BY <2>2
  <1>2. Told(l) = [columns |-> l.columns, values |-> v]
    BY DEF Told
  <1>3. v \in Seq(Tokens) /\ Len(v) = nw
    <2>1. ASSUME NEW i \in 1..nw PROVE v[i] \in Tokens
      <3>1. w # 0
        <4>1. CASE w = 0
          <5>1. l.rows = << >>
            BY <4>1 DEF RowsOK
          <5>2. n = 0
            BY <5>1
          <5>3. nw = 0
            BY <1>1, <5>2
          <5> HIDE DEF nw
          <5> QED BY <5>3
        <4> QED BY <4>1
      <3>2. (i - 1) \div w \in 0..(n - 1) /\ (i - 1) % w \in 0..(w - 1)
        <4> HIDE DEF n, w
        <4> QED BY <1>1, <3>1, Place
      <3> DEFINE q == (i - 1) \div w
                 r == (i - 1) % w
      <3>3. v[i] = l.rows[q + 1][r + 1]
        OBVIOUS
      <3> HIDE DEF q, r, v
      <3>4. q + 1 \in 1..n /\ r + 1 \in 1..w
        <4> HIDE DEF n, w
        <4>1. q \in 0..(n - 1) /\ r \in 0..(w - 1)
          BY <3>2 DEF q, r
        <4> QED BY <1>1, <4>1
      <3>5. l.rows[q + 1] \in Seq(Tokens) /\ Len(l.rows[q + 1]) = w
        BY <1>1, <3>4 DEF RowsOK
      <3> QED BY <3>3, <3>4, <3>5
    <2>2. v \in [1..nw -> Tokens]
      <3>1. v = [i \in 1..nw |-> v[i]]
        OBVIOUS
      <3> HIDE DEF v, nw
      <3> QED BY <2>1, <3>1
    <2> HIDE DEF v, nw
    <2> QED BY <1>1, <2>2
  <1>4. \A i \in 1..nw : v[i] = l.rows[(i - 1) \div w + 1][((i - 1) % w) + 1]
    OBVIOUS
  <1> HIDE DEF v
  <1>5. Told(l).values = v /\ Told(l).columns = l.columns
    BY <1>2
  <1>6. Told(l) = [columns |-> l.columns, values |-> Told(l).values]
    BY <1>2, <1>5
  <1> QED BY <1>3, <1>4, <1>5, <1>6

LEMMA NothingTold ==
  ASSUME NEW l, RowsOK(l), l.rows = << >>
  PROVE  Told(l).values = << >>
  <1> DEFINE v == Told(l).values
  <1>1. v \in Seq(Tokens) /\ Len(v) = Len(l.rows) * Len(l.columns)
    BY ToldFacts
  <1>2. l.columns \in Seq(Names) /\ Len(l.rows) = 0
    BY DEF RowsOK
  <1>3. Len(l.rows) * Len(l.columns) = 0
    BY <1>2
  <1> HIDE DEF v
  <1>4. v = << >>
    BY <1>1, <1>3
  <1> QED BY <1>4 DEF v

(* Where it stands, it is the only one. *)
LEMMA PlaceIsThat ==
  ASSUME NEW w \in Nat \ {0}, NEW q \in Nat, NEW r \in 0..(w - 1)
  PROVE  (q * w + r) % w = r
  <1> DEFINE x == q * w + r
             d == x \div w
             e == x % w
             qw == q * w
             dw == d * w
  <1>1. x \in Nat /\ d \in Int /\ e \in 0..(w - 1) /\ x = w * d + e /\ qw \in Nat
    <2>1. x \in Nat /\ qw \in Nat
      OBVIOUS
    <2> QED BY <2>1, DivisionFacts
  <1>2. w * d = dw /\ dw \in Int
    BY <1>1
  <1>3. x = dw + e /\ x = qw + r
    BY <1>1, <1>2
  <1> HIDE DEF x, d, e
  <1>4. d <= q
    <2>1. CASE q + 1 <= d
      <3>1. (q + 1) * w <= d * w
        BY <1>1, <2>1, Times
      <3>2. (q + 1) * w = qw + w
        OBVIOUS
      <3> HIDE DEF qw, dw
      <3>3. qw + w <= dw
        BY <3>1, <3>2 DEF dw
      <3> QED BY <1>1, <1>2, <1>3, <3>3
    <2> QED BY <1>1, <2>1
  <1>5. q <= d
    <2>1. CASE d + 1 <= q
      <3>1. (d + 1) * w <= q * w
        BY <1>1, <2>1, Times
      <3>2. (d + 1) * w = dw + w
        BY <1>1
      <3> HIDE DEF qw, dw
      <3>3. dw + w <= qw
        BY <3>1, <3>2 DEF qw
      <3> QED BY <1>1, <1>2, <1>3, <3>3
    <2> QED BY <1>1, <2>1
  <1>6. d = q
    BY <1>1, <1>4, <1>5
  <1>7. e = r
    <2>1. dw = qw
      BY <1>6
    <2> HIDE DEF dw, qw
    <2> QED BY <1>1, <1>2, <1>3, <2>1
  <1> QED BY <1>7 DEF e, x

LEMMA DealtFacts ==
  ASSUME NEW l, RowsOK(l), l.columns # << >>, pending \in Seq(Tokens), NEW tokens \in Seq(Tokens),
         NEW k, k = [columns |-> l.columns, rows |-> Dealt(l, tokens).rows]
  PROVE  /\ RowsOK(k)
         /\ Dealt(l, tokens).left \in Seq(Tokens) /\ Len(Dealt(l, tokens).left) < Len(l.columns)
         /\ Told(k).values \o Dealt(l, tokens).left = (Told(l).values \o pending) \o tokens
  <1> DEFINE w == Len(l.columns)
             n == Len(l.rows)
             all == pending \o tokens
             size == Len(all)
             full == size \div w
             fw == full * w
             left == SubSeq(all, full * w + 1, size)
             new == [r \in 1..full |-> SubSeq(all, (r - 1) * w + 1, r * w)]
             rows == l.rows \o new
  <1>1. Dealt(l, tokens) = [rows |-> rows, left |-> left]
    BY DEF Dealt
  <1>2. Dealt(l, tokens).rows = rows /\ Dealt(l, tokens).left = left
    <2> HIDE DEF rows, left
    <2> QED BY <1>1
  <1>3. /\ w \in Nat \ {0} /\ n \in Nat /\ l.rows \in Seq(Seq(Tokens))
        /\ \A r \in 1..n : Len(l.rows[r]) = w
    <2>1. l.columns \in Seq(Names) /\ l.rows \in Seq(Seq(Tokens))
      BY DEF RowsOK
    <2>2. w \in Nat \ {0} /\ n \in Nat /\ DOMAIN l.rows = 1..n
      BY <2>1
    <2> HIDE DEF w, n
    <2> QED BY <2>1, <2>2 DEF RowsOK, w
  <1>4. all \in Seq(Tokens) /\ size \in Nat /\ size = Len(all)
    OBVIOUS
  <1> HIDE DEF w, n, all
  <1>5. full \in Nat /\ fw \in Nat /\ fw <= size /\ size - fw < w
    <2> HIDE DEF size
    <2>1. size \in Int /\ w \in Nat \ {0}
      BY <1>3, <1>4
    <2>2. full \in Int /\ size % w \in 0..(w - 1) /\ size = w * full + (size % w)
      BY <2>1, DivisionFacts
    <2> DEFINE rem == size % w
    <2> HIDE DEF full, rem
    <2>3. w * full = full * w /\ fw \in Int
      BY <1>3, <2>2
    <2>4. full >= 0
      <3>1. CASE full <= -1
        <4>1. full * w <= (-1) * w
          BY <1>3, <2>2, <3>1, Times
        <4>2. (-1) * w = -w
          BY <1>3
        <4> HIDE DEF fw
        <4>3. fw <= -w
          BY <4>1, <4>2 DEF fw
        <4>4. size = fw + rem
          BY <2>2, <2>3 DEF fw, rem
        <4> QED BY <1>3, <1>4, <2>2, <2>3, <4>3, <4>4 DEF rem
      <3> QED BY <2>2, <3>1
    <2>5. fw >= 0
      <3>1. 0 * w <= full * w
        BY <1>3, <2>2, <2>4, Times
      <3>2. 0 * w = 0
        BY <1>3
      <3> QED BY <3>1, <3>2
    <2>6. size = fw + rem
      BY <2>2, <2>3 DEF rem
    <2> HIDE DEF fw
    <2> QED BY <1>3, <1>4, <2>2, <2>3, <2>4, <2>5, <2>6 DEF rem
  <1> HIDE DEF full, size
  <1>6. ASSUME NEW r \in 1..full
        PROVE  /\ (r - 1) * w \in Nat /\ r * w = (r - 1) * w + w /\ r * w <= size
               /\ new[r] \in Seq(Tokens) /\ Len(new[r]) = w
               /\ \A j \in 1..w : new[r][j] = all[(r - 1) * w + j]
    <2> DEFINE lo == (r - 1) * w
               hi == r * w
    <2>1. r \in Nat \ {0} /\ r - 1 \in Nat /\ r <= full
      BY <1>5
    <2>2. lo \in Nat /\ hi \in Nat /\ hi = lo + w
      BY <1>3, <2>1
    <2>3. hi <= fw
      BY <1>3, <1>5, <2>1, Times
    <2>4. new[r] = SubSeq(all, lo + 1, hi)
      OBVIOUS
    <2> HIDE DEF lo, hi, fw, new
    <2>5. \A j \in (lo + 1)..hi : all[j] \in Tokens
      BY <1>4, <1>5, <2>2, <2>3
    <2>6. /\ SubSeq(all, lo + 1, hi) \in Seq(Tokens)
          /\ Len(SubSeq(all, lo + 1, hi)) = w
          /\ \A j \in 1..w : SubSeq(all, lo + 1, hi)[j] = all[lo + j]
      <3>1. lo + 1 \in Int /\ hi \in Int /\ lo + 1 <= hi /\ hi - (lo + 1) + 1 = w
        BY <1>3, <2>2
      <3>2. /\ SubSeq(all, lo + 1, hi) \in Seq(Tokens)
            /\ Len(SubSeq(all, lo + 1, hi)) = w
            /\ \A j \in 1..w : SubSeq(all, lo + 1, hi)[j] = all[lo + 1 + j - 1]
        BY <2>5, <3>1, SubSeqProperties
      <3>3. \A j \in 1..w : lo + 1 + j - 1 = lo + j
        BY <2>2
      <3> QED BY <3>2, <3>3
    <2>7. r * w <= size
      BY <1>4, <1>5, <2>2, <2>3 DEF hi
    <2> QED BY <2>2, <2>4, <2>6, <2>7 DEF lo, hi
  <1>7. new \in Seq(Seq(Tokens)) /\ Len(new) = full
    <2>1. new = [r \in 1..full |-> new[r]]
      OBVIOUS
    <2> HIDE DEF new
    <2>2. new \in [1..full -> Seq(Tokens)]
      BY <1>6, <2>1
    <2> QED BY <1>5, <2>2
  <1> HIDE DEF new
  <1>8. /\ rows \in Seq(Seq(Tokens)) /\ Len(rows) = n + full
        /\ \A r \in 1..n : rows[r] = l.rows[r]
        /\ \A r \in 1..full : rows[n + r] = new[r]
    <2>1. Len(l.rows) = n
      BY DEF n
    <2>2. /\ rows \in Seq(Seq(Tokens)) /\ Len(rows) = n + full
          /\ \A i \in 1..(n + full) : rows[i] = IF i <= n THEN l.rows[i] ELSE new[i - n]
      <3> DEFINE SS == Seq(Tokens)
                 old == l.rows
      <3>1. old \in Seq(SS) /\ new \in Seq(SS) /\ Len(old) = n /\ Len(new) = full
        BY <1>3, <1>7, <2>1
      <3> HIDE DEF SS, old, n
      <3>2. /\ old \o new \in Seq(SS) /\ Len(old \o new) = Len(old) + Len(new)
            /\ \A i \in 1..(Len(old) + Len(new)) :
                 (old \o new)[i] = IF i <= Len(old) THEN old[i] ELSE new[i - Len(old)]
        BY <3>1, ConcatProperties
      <3>3. rows = old \o new
        BY DEF old
      <3> HIDE DEF rows
      <3> QED BY <3>1, <3>2, <3>3 DEF SS, old
    <2> HIDE DEF rows
    <2>3. \A r \in 1..n : r \in 1..(n + full) /\ r <= n
      BY <1>3, <1>5
    <2>4. \A r \in 1..full : n + r \in 1..(n + full) /\ ~(n + r <= n) /\ (n + r) - n = r
      BY <1>3, <1>5
    <2> QED BY <2>2, <2>3, <2>4
  <1> HIDE DEF rows
  <1>9. RowsOK(k) /\ k.columns = l.columns /\ k.rows = rows
    <2>1. k = [columns |-> l.columns, rows |-> rows]
      BY <1>2
    <2>2. k.columns = l.columns /\ k.rows = rows
      BY <2>1
    <2>3. ASSUME NEW r \in 1..(n + full) PROVE Len(rows[r]) = w
      <3>1. CASE r <= n
        <4>1. r \in 1..n
          BY <1>3, <3>1
        <4>2. rows[r] = l.rows[r] /\ Len(l.rows[r]) = w
          BY <1>3, <1>8, <4>1
        <4> QED BY <4>2
      <3>2. CASE r > n
        <4>1. r - n \in 1..full /\ n + (r - n) = r
          BY <1>3, <1>5, <3>2
        <4>2. rows[r] = new[r - n] /\ Len(new[r - n]) = w
          BY <1>6, <1>8, <4>1
        <4> QED BY <4>2
      <3> QED BY <1>3, <1>5, <3>1, <3>2
    <2>4. DOMAIN rows = 1..(n + full)
      BY <1>8
    <2> QED BY <1>8, <2>1, <2>2, <2>3, <2>4 DEF RowsOK, w
  <1>10. /\ left \in Seq(Tokens) /\ Len(left) = size - fw
         /\ \A j \in 1..(size - fw) : left[j] = all[fw + j]
    <2> HIDE DEF fw
    <2>1. left = SubSeq(all, fw + 1, size)
      BY DEF fw
    <2> HIDE DEF left
    <2>2. \A j \in (fw + 1)..size : all[j] \in Tokens
      BY <1>4, <1>5
    <2>3. fw + 1 \in Int /\ size \in Int
      BY <1>4, <1>5
    <2>4. /\ SubSeq(all, fw + 1, size) \in Seq(Tokens)
          /\ Len(SubSeq(all, fw + 1, size)) = IF fw + 1 <= size THEN size - (fw + 1) + 1 ELSE 0
          /\ \A j \in 1..(size - (fw + 1) + 1) : SubSeq(all, fw + 1, size)[j] = all[fw + 1 + j - 1]
      BY <2>2, <2>3, SubSeqProperties
    <2>5. size - (fw + 1) + 1 = size - fw /\ (~(fw + 1 <= size) => size - fw = 0)
      BY <1>4, <1>5
    <2>6. \A j \in 1..(size - fw) : fw + 1 + j - 1 = fw + j
      BY <1>4, <1>5
    <2> QED BY <2>1, <2>4, <2>5, <2>6
  <1> HIDE DEF left
  <1> DEFINE told == Told(l).values
             kept == Told(k).values
             nw == n * w
             kw == (n + full) * w
             x == kept \o left
             y == told \o all
  <1>11. nw \in Nat /\ kw \in Nat /\ kw = nw + fw
    BY <1>3, <1>5
  <1>12. /\ told \in Seq(Tokens) /\ Len(told) = nw
         /\ \A i \in 1..nw : told[i] = l.rows[(i - 1) \div w + 1][((i - 1) % w) + 1]
    BY ToldFacts DEF w, n
  <1>13. /\ kept \in Seq(Tokens) /\ Len(kept) = kw
         /\ \A i \in 1..kw : kept[i] = rows[(i - 1) \div w + 1][((i - 1) % w) + 1]
    BY <1>8, <1>9, ToldFacts DEF w
  <1> HIDE DEF told, kept
  <1>14. /\ x \in Seq(Tokens) /\ Len(x) = nw + size
         /\ \A i \in 1..kw : x[i] = kept[i]
         /\ \A i \in (kw + 1)..(nw + size) : x[i] = left[i - kw]
    <2> HIDE DEF kw, nw, fw
    <2>1. /\ x \in Seq(Tokens) /\ Len(x) = kw + (size - fw)
          /\ \A i \in 1..(kw + (size - fw)) : x[i] = IF i <= kw THEN kept[i] ELSE left[i - kw]
      BY <1>10, <1>13, ConcatProperties
    <2>2. kw + (size - fw) = nw + size /\ kw <= nw + size
      BY <1>4, <1>5, <1>11
    <2> HIDE DEF x
    <2> QED BY <1>4, <1>11, <2>1, <2>2
  <1>15. /\ y \in Seq(Tokens) /\ Len(y) = nw + size
         /\ \A i \in 1..nw : y[i] = told[i]
         /\ \A i \in (nw + 1)..(nw + size) : y[i] = all[i - nw]
    <2> HIDE DEF nw
    <2>1. /\ y \in Seq(Tokens) /\ Len(y) = nw + size
          /\ \A i \in 1..(nw + size) : y[i] = IF i <= nw THEN told[i] ELSE all[i - nw]
      BY <1>4, <1>12, ConcatProperties
    <2> HIDE DEF y
    <2>2. \A i \in 1..nw : i \in 1..(nw + size) /\ i <= nw
      BY <1>4, <1>11
    <2>3. \A i \in (nw + 1)..(nw + size) : i \in 1..(nw + size) /\ ~(i <= nw)
      BY <1>4, <1>11
    <2>4. \A i \in 1..nw : y[i] = told[i]
      BY <2>1, <2>2
    <2>5. \A i \in (nw + 1)..(nw + size) : y[i] = all[i - nw]
      BY <2>1, <2>3
    <2> QED BY <2>1, <2>4, <2>5
  <1> HIDE DEF x, y
  <1>16. ASSUME NEW i \in 1..(nw + size) PROVE x[i] = y[i]
    <2>1. CASE i > kw
      <3> HIDE DEF nw, kw, fw
      <3>1. i \in (kw + 1)..(nw + size) /\ i \in (nw + 1)..(nw + size)
        BY <1>4, <1>5, <1>11, <2>1
      <3>2. i - kw \in 1..(size - fw) /\ fw + (i - kw) = i - nw
        BY <1>4, <1>5, <1>11, <3>1
      <3> QED BY <1>10, <1>14, <1>15, <3>1, <3>2
    <2>2. CASE i <= kw
      <3> DEFINE q == (i - 1) \div w
                 r == (i - 1) % w
                 qw == q * w
      <3>1. i \in 1..kw
        <4> HIDE DEF kw
        <4> QED BY <1>4, <1>11, <2>2
      <3>2. q \in 0..((n + full) - 1) /\ r \in 0..(w - 1) /\ i = qw + r + 1
        <4>1. n + full \in Nat
          BY <1>3, <1>5
        <4> QED BY <1>3, <3>1, <4>1, Place
      <3>3. x[i] = rows[q + 1][r + 1]
        BY <1>13, <1>14, <3>1
      <3> HIDE DEF q, r
      <3>4. q \in Nat /\ r + 1 \in 1..w /\ qw \in Nat
        BY <1>3, <1>5, <3>2
      <3>5. CASE q < n
        <4>1. q + 1 \in 1..n /\ (q + 1) * w <= n * w
          BY <1>3, <3>4, <3>5, Times
        <4>2. (q + 1) * w = qw + w
          BY <1>3, <3>4
        <4>3. i \in 1..nw
          <5> HIDE DEF qw
          <5>1. qw + w <= nw
            BY <4>1, <4>2
          <5> HIDE DEF nw
          <5> QED BY <1>3, <1>11, <3>2, <3>4, <5>1
        <4>4. y[i] = l.rows[q + 1][r + 1]
          BY <1>12, <1>15, <4>3 DEF q, r
        <4> QED BY <1>8, <3>3, <4>1, <4>4
      <3>6. CASE q >= n
        <4> DEFINE s == (q - n) + 1
        <4>1. s \in 1..full /\ n + s = q + 1 /\ s - 1 = q - n
          BY <1>3, <1>5, <3>2, <3>4, <3>6
        <4>2. (s - 1) * w = qw - nw
          <5>1. (q - n) * w = q * w - n * w
            BY <1>3, <3>4
          <5> QED BY <4>1, <5>1
        <4> HIDE DEF s
        <4>3. x[i] = all[(s - 1) * w + (r + 1)]
          <5>1. rows[q + 1] = new[s]
            BY <1>8, <4>1
          <5>2. new[s][r + 1] = all[(s - 1) * w + (r + 1)]
            BY <1>6, <3>4, <4>1
          <5> QED BY <3>3, <5>1, <5>2
        <4>4. (s - 1) * w \in Nat /\ (s - 1) * w + w <= size
          BY <1>6, <4>1
        <4> DEFINE sw == (s - 1) * w
        <4> HIDE DEF sw
        <4>5. sw \in Nat /\ sw = qw - nw /\ sw + w <= size
          BY <4>2, <4>4 DEF sw
        <4>6. i \in (nw + 1)..(nw + size) /\ sw + (r + 1) = i - nw
          <5> HIDE DEF qw, nw
          <5> QED BY <1>3, <1>4, <1>11, <3>2, <3>4, <4>5
        <4> QED BY <1>15, <4>3, <4>6 DEF sw
      <3> QED BY <1>3, <3>4, <3>5, <3>6
    <2> QED
      <3> HIDE DEF kw
      <3> QED BY <1>4, <1>11, <2>1, <2>2
  <1>17. x = y
    BY <1>14, <1>15, <1>16, SeqEqual
  <1>18. y = (told \o pending) \o tokens
    <2>1. told \in Seq(Tokens) /\ pending \in Seq(Tokens) /\ tokens \in Seq(Tokens)
      BY <1>12
    <2> HIDE DEF told
    <2>2. (told \o pending) \o tokens = told \o (pending \o tokens)
      BY <2>1, ConcatAssociative
    <2> QED BY <2>2 DEF y, all
  <1>19. Len(left) < w
    <2> HIDE DEF fw
    <2> QED BY <1>5, <1>10
  <1> QED BY <1>2, <1>9, <1>10, <1>17, <1>18, <1>19 DEF x, told, kept, w

-----------------------------------------------------------------------------
(* The types of the parser's variables. *)

Filled == {l \in [columns : Seq(Names), rows : Seq(Seq(Tokens))] : RowsOK(l) /\ l.columns # << >>}

FileOK ==
  /\ file \in Files /\ file # << >> /\ Len(file) <= MaxLines + 1
  /\ \A k \in 1..(Len(file) - 1) : file[k] # EndOfFile
  /\ Len(file) = MaxLines + 1 => AtEnd

CifInv ==
  /\ FileOK /\ pc \in States
  /\ DOMAIN tags \subseteq Names /\ (pc \in {"value", "text"} => tag \in Names)
  /\ text \in Seq(Tokens) /\ pending \in Seq(Tokens)
  /\ loops \in Seq(Filled) /\ RowsOK(loop)
  /\ pending # << >> => pc \in {"rows", "rejected"} /\ Len(pending) < Len(loop.columns)
  /\ pc = "columns" => loop.rows = << >>
  /\ pc = "rows" => loop.columns # << >>

LEMMA LineOfFile ==
  ASSUME FileOK
  PROVE  /\ line \in Lines \cup {EndOfFile} /\ Len(file) \in Nat \ {0}
         /\ ~AtEnd => line \in Lines /\ line \in Seq(Tokens)
         /\ Front(file) \in Files /\ file = Append(Front(file), line)
  <1>1. file \in Seq(Lines \cup {EndOfFile}) /\ Len(file) \in Nat \ {0} /\ line = file[Len(file)]
    BY DEF FileOK, Files, line, Last
  <1>2. line \in Lines \cup {EndOfFile}
    BY <1>1
  <1>3. ~AtEnd => line \in Lines /\ line \in Seq(Tokens)
    BY <1>2, LineFacts DEF AtEnd
  <1> DEFINE n == Len(file) - 1
             F == SubSeq(file, 1, n)
  <1>4. n \in Nat /\ n + 1 = Len(file) /\ Front(file) = F
    BY <1>1 DEF Front
  <1>5. F \in Files /\ Len(F) = n /\ \A k \in 1..n : F[k] = file[k]
    <2> HIDE DEF n
    <2>1. n \in Nat /\ n <= Len(file)
      BY <1>1, <1>4
    <2> QED BY <1>1, <2>1 DEF Files
  <1>6. file = Append(F, line)
    <2> DEFINE G == Append(F, line)
    <2> HIDE DEF F, n
    <2>1. G \in Files /\ Len(G) = n + 1 /\ G[n + 1] = line /\ \A k \in 1..n : G[k] = F[k]
      BY <1>2, <1>4, <1>5 DEF Files
    <2> HIDE DEF G
    <2>2. \A k \in 1..Len(file) : file[k] = G[k]
      BY <1>1, <1>4, <1>5, <2>1
    <2>3. file \in Files /\ Len(G) = Len(file)
      BY <1>1, <1>4, <2>1 DEF Files
    <2>4. file = G
      BY <2>1, <2>2, <2>3, SeqEqual DEF Files
    <2> QED BY <2>4 DEF G
  <1> QED BY <1>1, <1>2, <1>3, <1>4, <1>5, <1>6

LEMMA FirstOfLine ==
  ASSUME FileOK, ~AtEnd, ~Blank
  PROVE  /\ line # << >> /\ Len(line) \in Nat \ {0} /\ line[1] \in Tokens /\ Head(line) = line[1]
         /\ \A words : StartsWith(words) <=> line[1] \in words
  <1>1. line \in Seq(Tokens) /\ line # << >>
    BY LineOfFile DEF Blank
  <1>2. Head(line) = line[1] /\ Len(line) \in Nat \ {0} /\ line[1] \in Tokens
    BY <1>1
  <1>3. \A words : StartsWith(words) <=> Head(line) \in words
    BY DEF StartsWith
  <1> QED BY <1>1, <1>2, <1>3

LEMMA AdvanceFacts ==
  ASSUME FileOK, ~AtEnd, Advance
  PROVE  /\ FileOK' /\ Front(file)' = file
  <1>1. PICK l \in Lines \cup {EndOfFile} :
           (Len(file) >= MaxLines => l = EndOfFile) /\ file' = Append(file, l)
    BY DEF Advance
  <1>2. /\ file \in Files /\ file # << >> /\ Len(file) <= MaxLines + 1 /\ MaxLines \in Nat
        /\ \A k \in 1..(Len(file) - 1) : file[k] # EndOfFile
        /\ Len(file) # MaxLines + 1 /\ file[Len(file)] # EndOfFile
        /\ Len(file) \in Nat \ {0}
    BY CifAssumption, LineOfFile DEF FileOK, AtEnd, line, Last
  <1>3. /\ file' \in Files /\ file' # << >> /\ Len(file') = Len(file) + 1
        /\ file'[Len(file) + 1] = l /\ \A k \in 1..Len(file) : file'[k] = file[k]
    BY <1>1, <1>2 DEF Files
  <1>4. Len(file') <= MaxLines + 1
    BY <1>2, <1>3
  <1>5. ASSUME NEW k \in 1..(Len(file') - 1) PROVE file'[k] # EndOfFile
    <2>1. k \in 1..Len(file)
      BY <1>2, <1>3
    <2>2. file'[k] = file[k]
      BY <1>3, <2>1
    <2>3. k \in 1..(Len(file) - 1) \/ k = Len(file)
      BY <1>2, <2>1
    <2> QED BY <1>2, <2>2, <2>3
  <1>6. Len(file') = MaxLines + 1 => AtEnd'
    BY <1>1, <1>2, <1>3 DEF AtEnd, line, Last
  <1>7. Front(file)' = file
    <2>1. Front(Append(file, l)) = file
      BY <1>2, AppendLast DEF Files
    <2>2. Front(file)' = Front(Append(file, l))
      BY <1>1 DEF Front
    <2> QED BY <2>1, <2>2
  <1> QED BY <1>3, <1>4, <1>5, <1>6, <1>7 DEF FileOK

LEMMA TokenizesFacts ==
  ASSUME FileOK, ~AtEnd
  PROVE  /\ Tokenizes <=> \A t \in 1..Len(line) : line[t] # Unfinished
         /\ ~Tokenizes <=> \E t \in 1..Len(line) : line[t] = Unfinished
  BY DEF Tokenizes, Contains

LEMMA CifInitInv ==
  ASSUME Init
  PROVE  CifInv
  <1>1. PICK l \in Lines : file = <<l>>
    BY DEF Init
  <1>2. file \in Files /\ file # << >> /\ Len(file) = 1 /\ file[1] = l
    BY <1>1 DEF Files
  <1>3. FileOK
    <2>1. MaxLines \in Nat \ {0}
      BY CifAssumption
    <2>2. Len(file) <= MaxLines + 1 /\ Len(file) # MaxLines + 1
      BY <1>2, <2>1
    <2>3. \A k \in 1..(Len(file) - 1) : file[k] # EndOfFile
      BY <1>2
    <2> QED BY <1>2, <2>2, <2>3 DEF FileOK
  <1>4. RowsOK(NoLoop)
    BY DEF RowsOK, NoLoop
  <1>5. DOMAIN tags \subseteq Names /\ text \in Seq(Tokens) /\ pending \in Seq(Tokens)
        /\ loops \in Seq(Filled) /\ loop = NoLoop /\ pc = "top" /\ pending = << >>
    <2>1. /\ tags = << >> /\ text = << >> /\ pending = << >> /\ loops = << >>
          /\ loop = NoLoop /\ pc = "top"
      BY DEF Init
    <2>2. DOMAIN << >> \subseteq Names /\ << >> \in Seq(Tokens) /\ << >> \in Seq(Filled)
      OBVIOUS
    <2> HIDE DEF Filled
    <2> QED BY <2>1, <2>2
  <1> QED BY <1>3, <1>4, <1>5 DEF CifInv, States

LEMMA StoredNames ==
  ASSUME NEW table, DOMAIN table \subseteq Names, NEW name \in Names, NEW value
  PROVE  DOMAIN Stored(table, name, value) \subseteq Names
  BY DEF Stored

LEMMA StillInv ==
  ASSUME CifInv, UNCHANGED rest, FileOK', pc' = pc
  PROVE  CifInv'
  BY DEF CifInv, rest, RowsOK, Filled

LEMMA RejectInv ==
  ASSUME CifInv, Reject
  PROVE  CifInv'
  <1>1. FileOK'
    BY DEF CifInv, Reject, FileOK, AtEnd, line
  <1> QED BY <1>1 DEF CifInv, Reject, rest, States

LEMMA SkipInv ==
  ASSUME CifInv, Skip
  PROVE  CifInv'
  <1>1. FileOK'
    BY AdvanceFacts DEF CifInv, Skip, Blank
  <1> QED BY <1>1, StillInv DEF Skip, rest

(* The file is the same, and what follows is a state without a row. *)
LEMMA TurnInv ==
  ASSUME CifInv, UNCHANGED <<file, rest>>, pc' \in {"done", "rejected", "rows"},
         pc' = "rows" => loop.columns # << >>, pc' = "done" => pending = << >>
  PROVE  CifInv'
  <1>1. FileOK'
    BY DEF CifInv, rest, FileOK, AtEnd, line
  <1> QED BY <1>1 DEF CifInv, rest, States

LEMMA TopInv ==
  ASSUME CifInv, Top
  PROVE  CifInv'
  <1>0. pc = "top" /\ FileOK /\ pending = << >>
    BY DEF Top, CifInv
  <1>1. CASE Skip
    BY <1>1, SkipInv
  <1>2. CASE DataBlock
    <2>1. CASE pc' = "done" /\ UNCHANGED <<file, rest>>
      BY <1>0, <2>1, TurnInv
    <2>2. CASE Reject
      BY <2>2, RejectInv
    <2>3. CASE Advance /\ UNCHANGED <<tags, loops, loop, pending, tag, text, pc>>
      <3>1. FileOK'
        BY <1>0, <1>2, <2>3, AdvanceFacts DEF DataBlock, StartsWith
      <3> QED BY <2>3, <3>1 DEF CifInv
    <2> QED BY <1>2, <2>1, <2>2, <2>3 DEF DataBlock
  <1>3. CASE OpenLoop
    <2>1. FileOK'
      BY <1>0, <1>3, AdvanceFacts DEF OpenLoop, StartsWith
    <2>2. RowsOK(NoLoop) /\ NoLoop.rows = << >>
      BY DEF RowsOK, NoLoop
    <2> QED BY <1>0, <1>3, <2>1, <2>2 DEF CifInv, OpenLoop, States
  <1>4. CASE TagLine
    <2>1. CASE Reject
      BY <2>1, RejectInv
    <2>2. CASE Advance
      <3>1. ~AtEnd /\ ~Blank /\ line[1] \in Names
        <4>1. StartsWith(Names)
          BY <1>4 DEF TagLine
        <4>2. ~AtEnd /\ ~Blank
          BY <4>1 DEF StartsWith
        <4> QED BY <1>0, <4>1, <4>2, FirstOfLine
      <3>2. FileOK'
        BY <1>0, <2>2, <3>1, AdvanceFacts
      <3>3. CASE tags' = Stored(tags, line[1], <<line[2]>>)
                 /\ UNCHANGED <<block, loops, loop, pending, tag, text, pc>>
        <4>1. DOMAIN tags' \subseteq Names
          BY <3>1, <3>3, StoredNames DEF CifInv
        <4> QED BY <3>2, <3>3, <4>1 DEF CifInv
      <3>4. CASE tag' = line[1] /\ pc' = "value"
                 /\ UNCHANGED <<block, tags, loops, loop, pending, text>>
        BY <1>0, <3>1, <3>2, <3>4 DEF CifInv, States
      <3> QED BY <1>4, <3>1, <3>2, <3>3, <3>4, RejectInv DEF TagLine
    <2> QED BY <1>4, <2>1, <2>2 DEF TagLine
  <1>5. CASE Unrecognized
    BY <1>5, RejectInv DEF Unrecognized
  <1>6. CASE EndFile
    BY <1>0, <1>6, TurnInv DEF EndFile
  <1> QED BY <1>1, <1>2, <1>3, <1>4, <1>5, <1>6 DEF Top

LEMMA ColumnsInv ==
  ASSUME CifInv, Columns
  PROVE  CifInv'
  <1>0. pc = "columns" /\ FileOK /\ pending = << >> /\ RowsOK(loop) /\ loop.rows = << >>
    BY DEF Columns, CifInv
  <1>1. CASE Skip
    BY <1>1, SkipInv
  <1>2. CASE Column
    <2>1. CASE Reject
      BY <2>1, RejectInv
    <2>2. CASE loop' = [loop EXCEPT !.columns = Append(@, Head(line))] /\ Advance
               /\ UNCHANGED <<block, tags, loops, pending, tag, text, pc>>
      <3>1. StartsWith(Names) /\ ~AtEnd /\ ~Blank
        BY <1>2 DEF Column, StartsWith
      <3>2. FileOK' /\ Head(line) \in Names
        BY <1>0, <2>2, <3>1, AdvanceFacts, FirstOfLine
      <3>3. loop = [columns |-> loop.columns, rows |-> << >>] /\ loop.columns \in Seq(Names)
        BY <1>0 DEF RowsOK
      <3>4. loop' = [columns |-> Append(loop.columns, Head(line)), rows |-> << >>]
        <4>1. PICK columns : columns = Append(loop.columns, Head(line))
          OBVIOUS
        <4>2. loop' = [loop EXCEPT !.columns = columns]
          BY <2>2, <4>1
        <4>3. PICK old : old = loop.columns
          OBVIOUS
        <4>4. loop = [columns |-> old, rows |-> << >>]
          BY <3>3, <4>3
        <4>5. loop' = [columns |-> columns, rows |-> << >>]
          BY <4>2, <4>4
        <4> QED BY <4>1, <4>5
      <3> DEFINE c == Append(loop.columns, Head(line))
      <3>5. c \in Seq(Names)
        BY <3>2, <3>3
      <3> HIDE DEF c
      <3>6. RowsOK([columns |-> c, rows |-> << >>])
        BY <3>5 DEF RowsOK
      <3>7. RowsOK(loop') /\ loop'.rows = << >>
        BY <3>4, <3>6 DEF c
      <3> QED BY <1>0, <2>2, <3>2, <3>7 DEF CifInv
    <2> QED BY <1>2, <2>1, <2>2 DEF Column
  <1>3. CASE EndColumns
    BY <1>0, <1>3, RejectInv, TurnInv DEF EndColumns
  <1> QED BY <1>1, <1>2, <1>3 DEF Columns

LEMMA RowsInv ==
  ASSUME CifInv, Rows
  PROVE  CifInv'
  <1>0. pc = "rows" /\ FileOK /\ RowsOK(loop) /\ loop.columns # << >> /\ pending \in Seq(Tokens)
    BY DEF Rows, CifInv
  <1>1. CASE Skip
    BY <1>1, SkipInv
  <1>2. CASE Row
    <2>1. CASE Reject
      BY <2>1, RejectInv
    <2>2. CASE /\ loop' = [loop EXCEPT !.rows = Dealt(loop, line).rows]
               /\ pending' = Dealt(loop, line).left
               /\ Advance /\ UNCHANGED <<block, tags, loops, tag, text, pc>>
      <3>1. ~AtEnd
        BY <1>2 DEF Row, EndRows
      <3>2. FileOK' /\ line \in Seq(Tokens)
        BY <1>0, <2>2, <3>1, AdvanceFacts, LineOfFile
      <3>3. loop' = [columns |-> loop.columns, rows |-> Dealt(loop, line).rows]
        BY <1>0, <2>2 DEF RowsOK
      <3>4. PICK k : k = [columns |-> loop.columns, rows |-> Dealt(loop, line).rows]
        OBVIOUS
      <3>5. RowsOK(k) /\ Dealt(loop, line).left \in Seq(Tokens)
            /\ Len(Dealt(loop, line).left) < Len(loop.columns)
        BY <1>0, <3>2, <3>4, DealtFacts
      <3>6. k.columns = loop.columns /\ loop' = k
        BY <3>3, <3>4
      <3> QED BY <1>0, <2>2, <3>2, <3>5, <3>6 DEF CifInv
    <2> QED BY <1>2, <2>1, <2>2 DEF Row
  <1>3. CASE CloseLoop
    <2>1. CASE Reject
      BY <2>1, RejectInv
    <2>2. CASE pending = << >> /\ loops' = Append(loops, loop) /\ pc' = "top"
               /\ UNCHANGED <<file, block, tags, loop, pending, tag, text>>
      <3>1. FileOK'
        BY <1>0, <2>2 DEF FileOK, AtEnd, line
      <3>2. loop \in Filled
        BY <1>0 DEF RowsOK, Filled
      <3> QED BY <1>0, <2>2, <3>1, <3>2 DEF CifInv, States
    <2> QED BY <1>3, <2>1, <2>2 DEF CloseLoop
  <1> QED BY <1>1, <1>2, <1>3 DEF Rows

LEMMA ValueInv ==
  ASSUME CifInv, Value
  PROVE  CifInv'
  <1>0. pc = "value" /\ FileOK /\ pending = << >> /\ tag \in Names
    BY DEF Value, CifInv
  <1>1. CASE Reject
    BY <1>1, RejectInv
  <1>2. CASE StartsWith({";"}) /\ text' = Tail(line) /\ pc' = "text" /\ Advance
             /\ UNCHANGED <<block, tags, loops, loop, pending, tag>>
    <2>1. ~AtEnd /\ ~Blank
      BY <1>2 DEF StartsWith
    <2>2. FileOK' /\ line \in Seq(Tokens) /\ line # << >>
      BY <1>0, <1>2, <2>1, AdvanceFacts, LineOfFile DEF Blank
    <2>3. Tail(line) \in Seq(Tokens)
      BY <2>2
    <2> QED BY <1>0, <1>2, <2>2, <2>3 DEF CifInv, States
  <1>3. CASE ~AtEnd /\ tags' = Stored(tags, tag, <<Head(line)>>) /\ pc' = "top" /\ Advance
             /\ UNCHANGED <<block, loops, loop, pending, tag, text>>
    <2>1. FileOK'
      BY <1>0, <1>3, AdvanceFacts
    <2>2. DOMAIN tags' \subseteq Names
      BY <1>0, <1>3, StoredNames DEF CifInv
    <2> QED BY <1>0, <1>3, <2>1, <2>2 DEF CifInv, States
  <1> QED BY <1>1, <1>2, <1>3 DEF Value

LEMMA TextInv ==
  ASSUME CifInv, Text
  PROVE  CifInv'
  <1>0. pc = "text" /\ FileOK /\ pending = << >> /\ tag \in Names /\ text \in Seq(Tokens)
    BY DEF Text, CifInv
  <1>1. CASE Reject
    BY <1>1, RejectInv
  <1>2. CASE ~AtEnd /\ tags' = Stored(tags, tag, text) /\ pc' = "top" /\ Advance
             /\ UNCHANGED <<block, loops, loop, pending, tag, text>>
    <2>1. FileOK'
      BY <1>0, <1>2, AdvanceFacts
    <2>2. DOMAIN tags' \subseteq Names
      BY <1>0, <1>2, StoredNames DEF CifInv
    <2> QED BY <1>0, <1>2, <2>1, <2>2 DEF CifInv, States
  <1>3. CASE ~AtEnd /\ text' = text \o line /\ Advance
             /\ UNCHANGED <<block, tags, loops, loop, pending, tag, pc>>
    <2>1. FileOK' /\ line \in Seq(Tokens)
      BY <1>0, <1>3, AdvanceFacts, LineOfFile
    <2>2. text \o line \in Seq(Tokens)
      BY <1>0, <2>1
    <2> QED BY <1>0, <1>3, <2>1, <2>2 DEF CifInv
  <1> QED BY <1>1, <1>2, <1>3 DEF Text, StartsWith

LEMMA CifInvInductive == CifInv /\ [Next]_vars => CifInv'
  <1> SUFFICES ASSUME CifInv, [Next]_vars PROVE CifInv'
    OBVIOUS
  <1>1. CASE UNCHANGED vars
    <2>1. FileOK' /\ UNCHANGED rest /\ pc' = pc
      BY <1>1 DEF CifInv, vars, rest, FileOK, AtEnd, line
    <2> QED BY <2>1, StillInv
  <1> QED BY <1>1, TopInv, ColumnsInv, RowsInv, ValueInv, TextInv DEF Next

-----------------------------------------------------------------------------
(* The parser follows the grammar, or the file is past mending. *)

ToldLoops == [k \in DOMAIN loops |-> Told(loops[k])]
OpenLoops == Opened(ToldLoops, loop.columns, Told(loop).values \o pending)
ToldSet == [columns : Seq(Names), values : Seq(Tokens)]

(* Between two constructs: the parser looks at the line after a loop before *)
(* it knows that the loop has ended.                                        *)
Complete(m) ==
  /\ m.at \in {"values", "columns"} /\ LastLoop(m).columns # << >> /\ Whole(m)
  /\ AtEnd \/ StartsWith(Words)
  /\ m.at = "columns" => ~StartsWith(Names)

Follows(m) ==
  /\ Shaped(m) /\ m.block = block /\ m.tags = tags
  /\ m.loops = IF pc \in {"columns", "rows"} THEN OpenLoops ELSE ToldLoops
  /\ pc = "top" => m.at = "between" \/ Complete(m)
  /\ pc = "columns" => m.at = "columns"
  /\ pc = "rows" => m.at = "values" \/ (m.at = "columns" /\ pending = << >> /\ ~Blank /\ ~StartsWith(Names))
  /\ pc = "value" => m.at = "tag" /\ m.tag = tag
  /\ pc = "text" => m.at = "text" /\ m.tag = tag /\ m.text = text

(* n is what the grammar makes of the line under the cursor, m of those     *)
(* before it.                                                               *)
Reading(m, n) ==
  /\ Follows(m) /\ n = ReadLine(m, line)
  /\ ~AtEnd => OneConstruct(m, line)

LEMMA ToldLoopsFacts ==
  ASSUME CifInv
  PROVE  ToldLoops \in Seq(ToldSet) /\ Len(ToldLoops) = Len(loops)
  <1>1. loops \in Seq(Filled) /\ DOMAIN loops = 1..Len(loops) /\ Len(loops) \in Nat
    BY DEF CifInv
  <1>2. ASSUME NEW k \in 1..Len(loops) PROVE Told(loops[k]) \in ToldSet
    <2>1. RowsOK(loops[k])
      BY <1>1, <1>2 DEF Filled
    <2>2. /\ Told(loops[k]) = [columns |-> loops[k].columns, values |-> Told(loops[k]).values]
          /\ Told(loops[k]).values \in Seq(Tokens)
      BY <2>1, ToldFacts
    <2>3. loops[k].columns \in Seq(Names)
      BY <2>1 DEF RowsOK
    <2> QED BY <2>2, <2>3 DEF ToldSet
  <1>3. ToldLoops \in [1..Len(loops) -> ToldSet]
    BY <1>1, <1>2 DEF ToldLoops
  <1> QED BY <1>1, <1>3

LEMMA Closing ==
  ASSUME CifInv, loops' = Append(loops, loop), loop.columns # << >>
  PROVE  ToldLoops' = Append(ToldLoops, Told(loop))
  <1> DEFINE n == Len(loops)
  <1>1. loop \in Filled /\ loops \in Seq(Filled)
    BY DEF CifInv, Filled, RowsOK
  <1>2. n \in Nat /\ DOMAIN loops' = 1..(n + 1) /\ loops'[n + 1] = loop
        /\ \A k \in 1..n : loops'[k] = loops[k]
    BY <1>1
  <1>3. ToldLoops \in Seq(ToldSet) /\ Len(ToldLoops) = n /\ \A k \in 1..n : ToldLoops[k] = Told(loops[k])
    BY <1>1, ToldLoopsFacts DEF ToldLoops
  <1>4. ToldLoops' = [k \in 1..(n + 1) |-> Told(loops'[k])]
    BY <1>2 DEF ToldLoops, Told
  <1> DEFINE a == Append(ToldLoops, Told(loop))
             S == ToldSet \cup {Told(loop)}
  <1>5. a = [k \in 1..(n + 1) |-> a[k]] /\ a[n + 1] = Told(loop) /\ \A k \in 1..n : a[k] = ToldLoops[k]
    <2>1. ToldLoops \in Seq(S) /\ Told(loop) \in S
      BY <1>3
    <2> HIDE DEF S
    <2>2. /\ a \in Seq(S) /\ Len(a) = Len(ToldLoops) + 1 /\ a[Len(ToldLoops) + 1] = Told(loop)
          /\ \A k \in 1..Len(ToldLoops) : a[k] = ToldLoops[k]
      BY <2>1
    <2> HIDE DEF a, n
    <2>3. Len(a) = n + 1 /\ a[n + 1] = Told(loop) /\ \A k \in 1..n : a[k] = ToldLoops[k]
      BY <1>3, <2>2
    <2>4. a = [k \in 1..(n + 1) |-> a[k]]
      BY <2>2, <2>3
    <2> QED BY <2>3, <2>4
  <1> HIDE DEF a
  <1>6. \A k \in 1..(n + 1) : Told(loops'[k]) = a[k]
    <2> HIDE DEF n
    <2>1. \A k \in 1..(n + 1) : k \in 1..n \/ k = n + 1
      BY <1>2
    <2>2. \A k \in 1..n : Told(loops'[k]) = a[k]
      BY <1>2, <1>3, <1>5
    <2>3. Told(loops'[n + 1]) = a[n + 1]
      BY <1>2, <1>5
    <2> QED BY <2>1, <2>2, <2>3
  <1>7. ToldLoops' = a
    BY <1>4, <1>5, <1>6
  <1> QED BY <1>7 DEF a

LEMMA PlainLine ==
  ASSUME NEW m, Plain(m), FileOK, ~AtEnd, OneConstruct(m, line)
  PROVE  ReadLine(m, line) = ReadTokens(m, line)
  <1>1. ~InText(m) /\ m.at # "tag" /\ line # EndOfFile
    BY DEF Plain, InText, AtEnd
  <1>2. line # << >> /\ line[1] = ";" => ~InLoop(m)
    BY DEF OneConstruct
  <1> QED BY <1>1, <1>2 DEF ReadLine

LEMMA OneWord ==
  ASSUME FileOK, ~AtEnd, NEW m, OneConstruct(m, line)
  PROVE  \A t \in 2..Len(line) : line[t] \notin Words
  <1>1. \A t \in 2..Len(line) : t \in DOMAIN line /\ t # 1
    BY LineOfFile
  <1> QED BY <1>1 DEF OneConstruct

(* A first token that breaks the file breaks the line. *)
LEMMA FirstBreaks ==
  ASSUME FileOK, ~AtEnd, ~Blank, NEW m, Shaped(m), Plain(m), OneConstruct(m, line),
         Wrong(Read(m, line[1]))
  PROVE  Wrong(ReadLine(m, line))
  <1>1. line \in Seq(Tokens) /\ line # << >>
    BY LineOfFile, FirstOfLine
  <1>2. Ended(Read(m, line[1]))
    BY DEF Ended, Wrong
  <1>3. ReadTokens(m, line) = Read(m, line[1])
    BY <1>1, <1>2, FirstToken
  <1> QED BY <1>3, PlainLine

LEMMA LineBreaks ==
  ASSUME FileOK, ~AtEnd, ~Tokenizes, NEW m, OneConstruct(m, line), Shaped(m), ~Ended(m),
         line[1] = "data_" => m.block = NoBlock
  PROVE  Wrong(ReadTokens(m, line))
  <1>1. line \in Seq(Tokens)
    BY LineOfFile
  <1>2. PICK t \in 1..Len(line) : line[t] = Unfinished
    BY TokenizesFacts
  <1>3. m.at # "over"
    BY DEF Ended
  <1>4. \A t1 \in 2..Len(line) : line[t1] \notin Words
    BY OneWord
  <1> QED BY <1>1, <1>2, <1>3, <1>4, UnfinishedBreaks

(* A blank line says nothing outside a text field. *)
LEMMA BlankLine ==
  ASSUME FileOK, Blank, NEW m, Plain(m), OneConstruct(m, line)
  PROVE  ReadLine(m, line) = m
  <1>1. ~AtEnd /\ line = << >>
    BY DEF Blank
  <1> QED BY <1>1, PlainLine, NoTokens

(* Between constructs. *)

LEMMA TopFacts ==
  ASSUME CifInv, pc = "top", NEW m, Follows(m)
  PROVE  /\ FileOK /\ pending = << >> /\ Shaped(m) /\ m.loops = ToldLoops
         /\ m.block = block /\ m.tags = tags
         /\ ~Ended(m) /\ Plain(m)
         /\ m.at # "columns" => Interrupted(m) = "between"
         /\ m.at = "between" \/ AtEnd \/ StartsWith(Words)
         /\ StartsWith(Names) => m.at # "columns"
  <1>1. FileOK /\ pending = << >> /\ Shaped(m) /\ m.loops = ToldLoops /\ m.block = block /\ m.tags = tags
    BY DEF CifInv, Follows
  <1>2. CASE m.at = "between"
    BY <1>1, <1>2 DEF Ended, Interrupted, Plain
  <1>3. CASE Complete(m)
    BY <1>1, <1>3 DEF Ended, Interrupted, Complete, Plain
  <1> QED BY <1>1, <1>2, <1>3 DEF Follows

LEMMA TopSkip ==
  ASSUME CifInv, pc = "top", Skip, NEW m, NEW n, Reading(m, n)
  PROVE  Follows(n)'
  <1>1. /\ FileOK /\ pending = << >> /\ Shaped(m) /\ m.loops = ToldLoops
        /\ m.block = block /\ m.tags = tags /\ Plain(m)
        /\ m.at = "between" \/ AtEnd \/ StartsWith(Words)
    BY TopFacts DEF Reading
  <1>2. Blank /\ UNCHANGED <<rest, pc>>
    BY DEF Skip
  <1>3. n = m /\ m.at = "between"
    <2>1. OneConstruct(m, line) /\ n = ReadLine(m, line) /\ m.at = "between"
      BY <1>1, <1>2 DEF Reading, Blank, StartsWith
    <2> QED BY <1>1, <1>2, <2>1, BlankLine
  <1>4. ToldLoops' = ToldLoops
    BY <1>2 DEF rest, ToldLoops
  <1> QED BY <1>1, <1>2, <1>3, <1>4 DEF Follows, rest

(* The end of the file, for a grammar that has not stopped. *)
LEMMA EndOfFileFacts ==
  ASSUME AtEnd, NEW m, Shaped(m), ~Ended(m)
  PROVE  ReadLine(m, line) = State(IF InText(m) \/ m.block = NoBlock THEN "malformed"
                                   ELSE Interrupted(m), m)
  <1>1. ReadLine(m, line) = [m EXCEPT !.at = IF InText(m) \/ m.block = NoBlock THEN "malformed"
                                             ELSE Interrupted(m)]
    BY DEF ReadLine, AtEnd, Ended
  <1> QED BY <1>1, AtFacts

(* Columns without a value, or a word before the first data_. *)
Misplaced(m) ==
  m.at = "columns" \/ (block = NoBlock /\ StartsWith(Words) /\ ~StartsWith({"data_"}))

LEMMA TopMisplaced ==
  ASSUME CifInv, pc = "top", NEW m, NEW n, Reading(m, n), Misplaced(m)
  PROVE  Wrong(n)
  <1>1. /\ FileOK /\ Shaped(m) /\ m.block = block /\ ~Ended(m) /\ Plain(m)
        /\ m.at = "between" \/ AtEnd \/ StartsWith(Words)
        /\ StartsWith(Names) => m.at # "columns"
        /\ n = ReadLine(m, line) /\ (~AtEnd => OneConstruct(m, line))
    BY TopFacts DEF Reading
  <1>2. m.at = "columns" => Interrupted(m) \in {"malformed", "interrupted"}
    BY DEF Interrupted
  <1>3. CASE AtEnd
    <2>1. m.at = "columns" /\ ~InText(m)
      BY <1>3 DEF Misplaced, StartsWith, InText
    <2>2. n = State("malformed", m) \/ n = State("interrupted", m)
      BY <1>1, <1>2, <1>3, <2>1, EndOfFileFacts
    <2> QED BY <1>1, <2>2, Malformed
  <1>4. CASE ~AtEnd
    <2>1. StartsWith(Words) /\ ~Blank
      BY <1>1, <1>4 DEF Misplaced, StartsWith
    <2>2. line[1] \in Words /\ (StartsWith(Names) <=> line[1] \in Names)
          /\ (StartsWith({"data_"}) <=> line[1] = "data_")
      BY <1>1, <1>4, <2>1, FirstOfLine
    <2>3. Found(m, line[1]) \in {"malformed", "interrupted"}
      BY <1>1, <1>2, <2>2 DEF Found, Misplaced
    <2>4. ~(line[1] \in Names /\ m.at = "columns")
      BY <1>1, <2>2
    <2>5. Word(m, line[1]) = [m EXCEPT !.at = Found(m, line[1])]
      BY <2>3, <2>4 DEF Word
    <2>6. Read(m, line[1]) = Word(m, line[1])
      BY <1>1, <2>2, WordFacts DEF Read, Ended
    <2>7. Read(m, line[1]) = State("malformed", m) \/ Read(m, line[1]) = State("interrupted", m)
      BY <1>1, <2>3, <2>5, <2>6, AtFacts
    <2>8. Wrong(Read(m, line[1]))
      BY <1>1, <2>7, Malformed
    <2> QED BY <1>1, <1>4, <2>1, <2>8, FirstBreaks
  <1> QED BY <1>3, <1>4

(* The first word of a line. *)
LEMMA TopWord ==
  ASSUME CifInv, pc = "top", NEW m, Follows(m), StartsWith(Words), ~Misplaced(m)
  PROVE  /\ line[1] \in Names =>
              Read(m, line[1]) = [m EXCEPT !.at = "tag", !.tag = line[1]]
         /\ line[1] = "loop_" =>
              Read(m, line[1]) = Holding("columns", m, Opened(ToldLoops, << >>, << >>))
         /\ line[1] = "data_" /\ block = NoBlock =>
              Read(m, line[1]) = [m EXCEPT !.at = "between", !.block = "data_"]
         /\ line[1] = "data_" /\ block # NoBlock => Read(m, line[1]) = State("over", m)
  <1>1. /\ FileOK /\ Shaped(m) /\ m.loops = ToldLoops /\ m.block = block
        /\ ~Ended(m) /\ Interrupted(m) = "between" /\ m.at # "columns"
    BY TopFacts DEF Misplaced
  <1>2. ~AtEnd /\ ~Blank
    BY DEF StartsWith
  <1>3. line[1] \in Words /\ (StartsWith(Names) <=> line[1] \in Names)
    BY <1>1, <1>2, FirstOfLine
  <1>4. Read(m, line[1]) = Word(m, line[1])
    BY <1>1, <1>3, WordFacts DEF Read, Ended
  <1>a. Found(m, line[1]) = "between"
    <2>1. StartsWith({"data_"}) <=> line[1] = "data_"
      BY <1>1, <1>2, FirstOfLine
    <2> QED BY <1>1, <2>1 DEF Found, Misplaced
  <1>5. CASE line[1] \in Names
    BY <1>1, <1>3, <1>4, <1>5, <1>a, WordFacts DEF Word
  <1>6. CASE line[1] = "loop_"
    <2>1. Word(m, line[1]) = [m EXCEPT !.at = "columns",
                         !.loops = Append(@, [columns |-> << >>, values |-> << >>])]
      BY <1>1, <1>6, <1>a, WordFacts DEF Word
    <2> QED BY <1>1, <1>4, <1>6, <2>1, WordFacts DEF Shaped, State, Holding, Opened
  <1>7. CASE line[1] = "data_" /\ block = NoBlock
    BY <1>1, <1>4, <1>7, <1>a, WordFacts DEF Word
  <1>8. CASE line[1] = "data_" /\ block # NoBlock
    <2>1. Word(m, line[1]) = [m EXCEPT !.at = "over"]
      BY <1>1, <1>8, <1>a, WordFacts DEF Word
    <2> QED BY <1>1, <1>4, <1>8, <2>1, AtFacts, WordFacts
  <1> QED BY <1>5, <1>6, <1>7, <1>8

(* After its first token a line has one more state to go, or is read. *)
LEMMA SecondToken ==
  ASSUME FileOK, ~AtEnd, ~Blank, NEW m, Shaped(m), Plain(m), OneConstruct(m, line)
  PROVE  /\ Len(line) = 1 => ReadLine(m, line) = Read(m, line[1])
         /\ Ended(Read(m, line[1])) => ReadLine(m, line) = Read(m, line[1])
         /\ Len(line) >= 2 /\ Read(m, line[1]).at = "between" => Wrong(ReadLine(m, line))
         /\ Len(line) >= 2 /\ Wrong(Read(Read(m, line[1]), line[2])) => Wrong(ReadLine(m, line))
         /\ Len(line) = 2 => ReadLine(m, line) = Read(Read(m, line[1]), line[2])
         /\ Len(line) >= 3 /\ Read(Read(m, line[1]), line[2]).at = "between" => Wrong(ReadLine(m, line))
  <1>1. line \in Seq(Tokens) /\ line # << >> /\ Len(line) \in Nat \ {0}
    BY LineOfFile, FirstOfLine
  <1>2. ReadLine(m, line) = ReadTokens(m, line)
    BY PlainLine
  <1>3. PICK f : TokenByToken(f, m, line) /\ ReadTokens(m, line) = f[Len(line)]
    BY <1>1, TokensChain
  <1>4. f[1] = Read(m, line[1])
    BY <1>1, <1>3 DEF TokenByToken
  <1>5. Len(line) >= 2 => f[2] = Read(Read(m, line[1]), line[2])
    <2>1. Len(line) >= 2 => 2 \in 1..Len(line)
      BY <1>1
    <2> QED BY <1>3, <1>4, <2>1 DEF TokenByToken
  <1>6. \A t \in 2..Len(line) : line[t] \notin Words
    BY OneWord
  <1>7. Len(line) >= 2 /\ f[1].at = "between" => Wrong(f[Len(line)])
    <2>1. SUFFICES ASSUME Len(line) >= 2, f[1].at = "between" PROVE Wrong(f[Len(line)])
      OBVIOUS
    <2>2. 2 \in 1..Len(line) /\ 2 \in 2..Len(line) /\ 2 - 1 = 1
      BY <1>1, <2>1
    <2>3. f[2 - 1].at = "between" /\ line[2] \notin Words
      BY <1>6, <2>1, <2>2
    <2> QED BY <1>1, <1>3, <2>2, <2>3, StrayData
  <1>8. Len(line) >= 3 /\ f[2].at = "between" => Wrong(f[Len(line)])
    <2>1. SUFFICES ASSUME Len(line) >= 3, f[2].at = "between" PROVE Wrong(f[Len(line)])
      OBVIOUS
    <2>2. 3 \in 1..Len(line) /\ 3 \in 2..Len(line) /\ 3 - 1 = 2
      BY <1>1, <2>1
    <2>3. f[3 - 1].at = "between" /\ line[3] \notin Words
      BY <1>6, <2>1, <2>2
    <2> QED BY <1>1, <1>3, <2>2, <2>3, StrayData
  <1>9. Len(line) >= 2 /\ Wrong(f[2]) => Wrong(f[Len(line)])
    <2>1. SUFFICES ASSUME Len(line) >= 2, Wrong(f[2]) PROVE Wrong(f[Len(line)])
      OBVIOUS
    <2>2. 2 \in 0..Len(line)
      BY <1>1, <2>1
    <2>3. Ended(f[2])
      BY <2>1 DEF Wrong, Ended
    <2>4. f[Len(line)] = f[2]
      BY <1>1, <1>3, <2>2, <2>3, EndedOnwards
    <2> QED BY <2>1, <2>4
  <1>10. Len(line) = 1 => ReadTokens(m, line) = Read(m, line[1])
    BY <1>1, FirstToken
  <1>11. Ended(Read(m, line[1])) => ReadTokens(m, line) = Read(m, line[1])
    BY <1>1, FirstToken
  <1>12. Len(line) = 2 => ReadTokens(m, line) = Read(Read(m, line[1]), line[2])
    BY <1>3, <1>5
  <1> QED BY <1>2, <1>3, <1>4, <1>5, <1>7, <1>8, <1>9, <1>10, <1>11, <1>12

LEMMA TopDataBlock ==
  ASSUME CifInv, pc = "top", DataBlock, NEW m, NEW n, Reading(m, n), ~Misplaced(m)
  PROVE  /\ pc' = "top" => Wrong(n) \/ Follows(n)'
         /\ pc' = "rejected" => Wrong(n)
         /\ pc' = "done" => n.at = "over" /\ n.block = block /\ n.tags = tags /\ n.loops = ToldLoops
         /\ pc' \in {"top", "rejected", "done"}
  <1>1. /\ FileOK /\ Shaped(m) /\ m.loops = ToldLoops /\ m.block = block /\ m.tags = tags
        /\ ~Ended(m) /\ Plain(m) /\ pending = << >> /\ Follows(m)
    BY TopFacts DEF Reading
  <1>2. StartsWith({"data_"}) /\ ~AtEnd /\ ~Blank
    BY DEF DataBlock, StartsWith
  <1>3. line[1] = "data_" /\ Head(line) = "data_" /\ StartsWith(Words)
        /\ Len(line) \in Nat \ {0} /\ line # << >>
    BY <1>1, <1>2, FirstOfLine, WordFacts
  <1>4. OneConstruct(m, line) /\ n = ReadLine(m, line)
    BY <1>2 DEF Reading
  <1> DEFINE r == Read(m, line[1])
  <1>5. /\ Len(line) = 1 => n = r
        /\ Ended(r) => n = r
        /\ Len(line) >= 2 /\ r.at = "between" => Wrong(n)
    BY <1>1, <1>2, <1>4, SecondToken
  <1>6. CASE block # NoBlock /\ pc' = "done" /\ UNCHANGED <<file, rest>>
    <2>1. r = State("over", m)
      BY <1>1, <1>3, <1>6, TopWord
    <2> HIDE DEF r
    <2>2. /\ r.at = "over" /\ r.block = block /\ r.tags = tags /\ r.loops = ToldLoops
      BY <1>1, <2>1, AtFacts
    <2>3. n = r
      BY <1>5, <2>2 DEF Ended
    <2> QED BY <1>6, <2>2, <2>3
  <1>7. CASE block = NoBlock /\ ~Tokenizes /\ Reject
    <2>1. Wrong(ReadTokens(m, line))
      BY <1>1, <1>2, <1>4, <1>7, LineBreaks
    <2>2. Wrong(n)
      BY <1>1, <1>2, <1>4, <2>1, PlainLine
    <2> QED BY <1>7, <2>2 DEF Reject
  <1>8. CASE /\ block = NoBlock /\ Tokenizes
             /\ block' = Head(line) /\ Advance
             /\ UNCHANGED <<tags, loops, loop, pending, tag, text, pc>>
    <2>1. r = [m EXCEPT !.at = "between", !.block = "data_"]
      BY <1>1, <1>3, <1>8, TopWord
    <2> HIDE DEF r
    <2>2. /\ Shaped(r) /\ r.at = "between" /\ r.block = "data_" /\ r.tags = tags /\ r.loops = ToldLoops
      BY <1>1, <2>1 DEF Shaped, State
    <2>3. CASE Len(line) = 1
      <3>1. n = r /\ ToldLoops' = ToldLoops
        BY <1>5, <1>8, <2>3 DEF ToldLoops
      <3>2. Follows(n)'
        BY <1>1, <1>3, <1>8, <2>2, <3>1 DEF Follows
      <3> QED BY <1>8, <3>2
    <2>4. CASE Len(line) >= 2
      BY <1>5, <1>8, <2>2, <2>4
    <2> QED BY <1>3, <2>3, <2>4
  <1> QED BY <1>6, <1>7, <1>8 DEF DataBlock

LEMMA TopOpenLoop ==
  ASSUME CifInv, pc = "top", OpenLoop, NEW m, NEW n, Reading(m, n), ~Misplaced(m)
  PROVE  Wrong(n) \/ Follows(n)'
  <1>1. /\ FileOK /\ Shaped(m) /\ m.loops = ToldLoops /\ m.block = block /\ m.tags = tags
        /\ ~Ended(m) /\ Plain(m) /\ pending = << >> /\ Follows(m)
    BY TopFacts DEF Reading
  <1>2. StartsWith({"loop_"}) /\ ~AtEnd /\ ~Blank
    BY DEF OpenLoop, StartsWith
  <1>3. line[1] = "loop_" /\ StartsWith(Words) /\ Len(line) \in Nat \ {0} /\ line # << >>
    BY <1>1, <1>2, FirstOfLine, WordFacts
  <1>4. OneConstruct(m, line) /\ n = ReadLine(m, line)
    BY <1>2 DEF Reading
  <1> DEFINE r == Read(m, line[1])
  <1>5. r = Holding("columns", m, Opened(ToldLoops, << >>, << >>))
    BY <1>1, <1>3, TopWord
  <1>6. /\ Len(line) = 1 => n = r
        /\ Len(line) >= 2 /\ Wrong(Read(r, line[2])) => Wrong(n)
    BY <1>1, <1>2, <1>4, SecondToken
  <1> HIDE DEF r
  <1>7. /\ Shaped(r) /\ r.at = "columns" /\ r.block = block /\ r.tags = tags
        /\ r.loops = Opened(ToldLoops, << >>, << >>)
    BY <1>1, <1>5, HoldingFacts
  <1>8. CASE Len(line) = 1
    <2>1. /\ n = r /\ loop' = NoLoop /\ pending' = << >> /\ pc' = "columns"
          /\ UNCHANGED <<block, tags, loops>>
      BY <1>1, <1>6, <1>8 DEF OpenLoop
    <2>2. ToldLoops' = ToldLoops
      BY <2>1 DEF ToldLoops
    <2>3. Told(NoLoop).values = << >> /\ NoLoop.columns = << >>
      <3>1. RowsOK(NoLoop) /\ NoLoop.columns = << >> /\ NoLoop.rows = << >>
        BY DEF RowsOK, NoLoop
      <3>2. Told(NoLoop).values \in Seq(Tokens) /\ Len(Told(NoLoop).values) = Len(NoLoop.rows) * Len(NoLoop.columns)
        BY <3>1, ToldFacts
      <3>3. Len(NoLoop.rows) * Len(NoLoop.columns) = 0
        BY <3>1
      <3> QED BY <3>1, <3>2, <3>3
    <2>4. OpenLoops' = Opened(ToldLoops, << >>, << >> \o << >>)
      <3>1. OpenLoops' = Opened(ToldLoops', loop'.columns, Told(loop').values \o pending')
        BY DEF OpenLoops, Opened, Told
      <3> QED BY <2>1, <2>2, <2>3, <3>1
    <2>5. << >> \o << >> = << >>
      OBVIOUS
    <2>6. Follows(n)'
      BY <1>7, <2>1, <2>4, <2>5 DEF Follows
    <2> QED BY <2>6
  <1>9. CASE Len(line) >= 2
    <2>1. 2 \in 2..Len(line)
      BY <1>3, <1>9
    <2>2. line[2] \notin Words
      BY <1>1, <1>2, <1>4, <2>1, OneWord
    <2>3. LastLoop(r).columns = << >>
      BY <1>7, ToldLoopsFacts, OpenedFacts
    <2>4. Read(r, line[2]) = [r EXCEPT !.at = "malformed"]
      BY <1>7, <2>2, <2>3 DEF Read, Datum
    <2>5. Read(r, line[2]) = State("malformed", r)
      BY <1>7, <2>4, AtFacts
    <2>6. Read(r, line[2]).at = "malformed"
      BY <1>7, <2>5, AtFacts
    <2> QED BY <1>6, <1>9, <2>6 DEF Wrong
  <1>10. Len(line) = 1 \/ Len(line) >= 2
    <2> DEFINE size == Len(line)
    <2>1. size \in Nat \ {0}
      BY <1>3
    <2> HIDE DEF size
    <2>2. size = 1 \/ size >= 2
      BY <2>1
    <2> QED BY <2>2 DEF size
  <1> QED BY <1>8, <1>9, <1>10

LEMMA TopTagLine ==
  ASSUME CifInv, pc = "top", TagLine, NEW m, NEW n, Reading(m, n), ~Misplaced(m)
  PROVE  /\ pc' \in {"top", "value"} => Wrong(n) \/ Follows(n)'
         /\ pc' = "rejected" => Wrong(n)
         /\ pc' \in {"top", "value", "rejected"}
  <1>1. /\ FileOK /\ Shaped(m) /\ m.loops = ToldLoops /\ m.block = block /\ m.tags = tags
        /\ ~Ended(m) /\ Plain(m) /\ pending = << >> /\ Follows(m)
    BY TopFacts DEF Reading
  <1>2. StartsWith(Names) /\ ~AtEnd /\ ~Blank
    BY DEF TagLine, StartsWith
  <1>3. line[1] \in Names /\ StartsWith(Words) /\ Len(line) \in Nat \ {0} /\ line # << >>
        /\ line[1] # "data_"
    BY <1>1, <1>2, FirstOfLine, WordFacts
  <1>4. OneConstruct(m, line) /\ n = ReadLine(m, line)
    BY <1>2 DEF Reading
  <1> DEFINE r == Read(m, line[1])
             s == Read(r, line[2])
  <1>5. r = [m EXCEPT !.at = "tag", !.tag = line[1]]
    BY <1>1, <1>3, TopWord
  <1>6. /\ Len(line) = 1 => n = r
        /\ Len(line) = 2 => n = s
        /\ Len(line) >= 3 /\ s.at = "between" => Wrong(n)
    BY <1>1, <1>2, <1>4, SecondToken
  <1> HIDE DEF r
  <1>7. /\ Shaped(r) /\ r.at = "tag" /\ r.tag = line[1] /\ r.block = block /\ r.tags = tags
        /\ r.loops = ToldLoops
    BY <1>1, <1>5 DEF Shaped, State
  <1>8. CASE ~Tokenizes /\ Reject
    <2>1. Wrong(ReadTokens(m, line))
      BY <1>1, <1>2, <1>3, <1>4, <1>8, LineBreaks
    <2>2. Wrong(n)
      BY <1>1, <1>2, <1>4, <2>1, PlainLine
    <2> QED BY <1>8, <2>2 DEF Reject
  <1>9. CASE /\ Tokenizes /\ Len(line) >= 2
             /\ tags' = Stored(tags, line[1], <<line[2]>>) /\ Advance
             /\ UNCHANGED <<block, loops, loop, pending, tag, text, pc>>
    <2>1. 2 \in 2..Len(line) /\ 2 \in 1..Len(line)
      BY <1>3, <1>9
    <2>2. line[2] \notin Words /\ line[2] # Unfinished
      BY <1>1, <1>2, <1>4, <1>9, <2>1, OneWord, TokenizesFacts
    <2>3. s = [r EXCEPT !.at = "between", !.tags = Stored(@, r.tag, <<line[2]>>)]
      BY <1>7, <2>2 DEF Read, Datum
    <2> HIDE DEF s
    <2>4. /\ Shaped(s) /\ s.at = "between" /\ s.block = block /\ s.loops = ToldLoops
          /\ s.tags = tags'
      BY <1>7, <1>9, <2>3 DEF Shaped, State
    <2>5. CASE Len(line) = 2
      <3>1. n = s /\ ToldLoops' = ToldLoops
        BY <1>6, <1>9, <2>5 DEF ToldLoops
      <3>2. Follows(n)'
        BY <1>1, <1>9, <2>4, <3>1 DEF Follows
      <3> QED BY <1>9, <3>2
    <2>6. CASE Len(line) >= 3
      BY <1>6, <1>9, <2>4, <2>6
    <2>7. Len(line) = 2 \/ Len(line) >= 3
      <3> DEFINE size == Len(line)
      <3>1. size \in Nat \ {0} /\ size >= 2
        BY <1>3, <1>9
      <3> HIDE DEF size
      <3>2. size = 2 \/ size >= 3
        BY <3>1
      <3> QED BY <3>2 DEF size
    <2>8. pc' = "top"
      BY <1>9
    <2> QED BY <2>5, <2>6, <2>7, <2>8
  <1>10. CASE /\ Tokenizes /\ Len(line) = 1
              /\ tag' = line[1] /\ pc' = "value" /\ Advance
              /\ UNCHANGED <<block, tags, loops, loop, pending, text>>
    <2>1. n = r /\ ToldLoops' = ToldLoops
      BY <1>6, <1>10 DEF ToldLoops
    <2>2. Follows(n)'
      BY <1>7, <1>10, <2>1 DEF Follows
    <2> QED BY <1>10, <2>2
  <1> QED BY <1>8, <1>9, <1>10 DEF TagLine

LEMMA TopUnrecognized ==
  ASSUME CifInv, pc = "top", Unrecognized, NEW m, NEW n, Reading(m, n)
  PROVE  Wrong(n) /\ pc' = "rejected"
  <1>1. /\ FileOK /\ Shaped(m) /\ m.at = "between" /\ Plain(m) /\ OneConstruct(m, line)
    BY TopFacts DEF Reading, Unrecognized, LooksLikeNewConstruct
  <1>2. ~AtEnd /\ ~Blank /\ ~StartsWith(Words) /\ n = ReadLine(m, line) /\ pc' = "rejected"
    BY DEF Unrecognized, LooksLikeNewConstruct, Reject, Reading
  <1>3. line[1] \notin Words
    BY <1>1, <1>2, FirstOfLine
  <1>4. Read(m, line[1]) = [m EXCEPT !.at = "malformed"]
    BY <1>1, <1>3 DEF Read, Datum
  <1>5. Wrong(Read(m, line[1]))
    BY <1>1, <1>4, Malformed
  <1> QED BY <1>1, <1>2, <1>5, FirstBreaks

LEMMA TopEndFile ==
  ASSUME CifInv, pc = "top", EndFile, NEW m, NEW n, Reading(m, n), ~Misplaced(m)
  PROVE  /\ pc' = "rejected" => Wrong(n)
         /\ pc' = "done" => n.at = "between" /\ n.block = block /\ n.tags = tags /\ n.loops = ToldLoops
         /\ pc' \in {"done", "rejected"}
  <1>1. /\ FileOK /\ Shaped(m) /\ m.loops = ToldLoops /\ m.block = block /\ m.tags = tags
        /\ ~Ended(m) /\ ~InText(m) /\ Interrupted(m) = "between"
    BY TopFacts DEF Reading, Misplaced, Plain, InText
  <1>2. AtEnd /\ n = ReadLine(m, line) /\ pc' = IF block = NoBlock THEN "rejected" ELSE "done"
    BY DEF EndFile, Reading
  <1>3. CASE block = NoBlock
    <2>1. n = State("malformed", m)
      BY <1>1, <1>2, <1>3, EndOfFileFacts
    <2>2. Wrong(n)
      BY <1>1, <2>1, Malformed
    <2> QED BY <1>2, <1>3, <2>2
  <1>4. CASE block # NoBlock
    <2>1. n = State("between", m)
      BY <1>1, <1>2, <1>4, EndOfFileFacts
    <2> QED BY <1>1, <1>2, <1>4, <2>1, AtFacts
  <1> QED BY <1>3, <1>4

(* What a step that reads a line leaves to be shown of it. *)
Kept(n) ==
  /\ pc' \notin {"done", "rejected"} => Wrong(n) \/ Follows(n)'
  /\ pc' = "rejected" => Wrong(n)
  /\ pc' = "done" => Wrong(n) \/ (/\ n.at \in {"between", "over"} /\ n.block = block
                                  /\ n.tags = tags /\ n.loops = ToldLoops)

LEMMA TopKept ==
  ASSUME CifInv, Top, NEW m, NEW n, Reading(m, n)
  PROVE  Kept(n)
  <1>1. pc = "top"
    BY DEF Top
  <1>m. SUFFICES ASSUME ~Misplaced(m) PROVE Kept(n)
    <2>1. Misplaced(m) => Wrong(n)
      BY <1>1, TopMisplaced
    <2>2. Wrong(n) => Kept(n)
      BY DEF Kept
    <2> QED BY <2>1, <2>2
  <1>2. CASE Skip
    <2>1. pc' = "top"
      BY <1>1, <1>2 DEF Skip
    <2> QED BY <1>1, <1>2, <2>1, TopSkip DEF Kept
  <1>3. CASE DataBlock
    BY <1>1, <1>m, <1>3, TopDataBlock DEF Kept
  <1>4. CASE OpenLoop
    <2>1. pc' = "columns"
      BY <1>4 DEF OpenLoop
    <2> QED BY <1>1, <1>m, <1>4, <2>1, TopOpenLoop DEF Kept
  <1>5. CASE TagLine
    BY <1>1, <1>m, <1>5, TopTagLine DEF Kept
  <1>6. CASE Unrecognized
    BY <1>1, <1>6, TopUnrecognized DEF Kept
  <1>7. CASE EndFile
    BY <1>1, <1>m, <1>7, TopEndFile DEF Kept
  <1> QED BY <1>2, <1>3, <1>4, <1>5, <1>6, <1>7 DEF Top

-----------------------------------------------------------------------------
(* In the columns of a loop. *)

LEMMA ColumnsFacts ==
  ASSUME CifInv, pc = "columns", NEW m, Follows(m)
  PROVE  /\ FileOK /\ pending = << >> /\ Shaped(m) /\ m.block = block /\ m.tags = tags
         /\ m.at = "columns" /\ ~Ended(m)
         /\ m.loops = OpenLoops /\ m.loops = Opened(ToldLoops, loop.columns, << >>)
         /\ LastLoop(m) = [columns |-> loop.columns, values |-> << >>]
         /\ LastLoop(m).columns = loop.columns
         /\ loop = [columns |-> loop.columns, rows |-> << >>] /\ loop.columns \in Seq(Names)
  <1>1. /\ FileOK /\ pending = << >> /\ Shaped(m) /\ m.block = block /\ m.tags = tags
        /\ m.at = "columns" /\ m.loops = OpenLoops /\ RowsOK(loop) /\ loop.rows = << >>
    BY DEF CifInv, Follows
  <1>2. Told(loop).values = << >>
    BY <1>1, NothingTold
  <1>3. m.loops = Opened(ToldLoops, loop.columns, << >>)
    <2>1. << >> \o << >> = << >>
      OBVIOUS
    <2> QED BY <1>1, <1>2, <2>1 DEF OpenLoops
  <1>4. LastLoop(m) = [columns |-> loop.columns, values |-> << >>]
        /\ LastLoop(m).columns = loop.columns
    BY <1>3, ToldLoopsFacts, OpenedFacts
  <1> QED BY <1>1, <1>3, <1>4 DEF Ended, RowsOK

LEMMA ColumnsSkip ==
  ASSUME CifInv, pc = "columns", Skip, NEW m, NEW n, Reading(m, n)
  PROVE  Follows(n)' /\ pc' = "columns"
  <1>1. Follows(m) /\ FileOK /\ Shaped(m) /\ m.at = "columns"
    BY ColumnsFacts DEF Reading
  <1>2. Blank /\ UNCHANGED <<rest, pc>>
    BY DEF Skip
  <1>3. n = m
    <2>1. OneConstruct(m, line) /\ n = ReadLine(m, line) /\ Plain(m)
      BY <1>1, <1>2 DEF Reading, Blank, Plain
    <2> QED BY <1>1, <1>2, <2>1, BlankLine
  <1>4. OpenLoops' = OpenLoops
    BY <1>2 DEF rest, OpenLoops, ToldLoops, Opened, Told
  <1> QED BY <1>1, <1>2, <1>3, <1>4 DEF Follows, rest

LEMMA ColumnsColumn ==
  ASSUME CifInv, pc = "columns", Column, NEW m, NEW n, Reading(m, n)
  PROVE  Follows(n)' /\ pc' = "columns"
  <1>1. /\ FileOK /\ pending = << >> /\ Shaped(m) /\ m.block = block /\ m.tags = tags
        /\ m.at = "columns" /\ ~Ended(m)
        /\ m.loops = Opened(ToldLoops, loop.columns, << >>)
        /\ LastLoop(m) = [columns |-> loop.columns, values |-> << >>]
        /\ loop = [columns |-> loop.columns, rows |-> << >>] /\ loop.columns \in Seq(Names)
    BY ColumnsFacts DEF Reading
  <1>2. StartsWith(Names) /\ ~AtEnd /\ ~Blank
    BY DEF Column, StartsWith
  <1>3. line[1] \in Names /\ Head(line) = line[1] /\ line # << >> /\ Len(line) \in Nat \ {0}
    BY <1>1, <1>2, FirstOfLine
  <1>4. OneConstruct(m, line) /\ n = ReadLine(m, line)
    BY <1>2 DEF Reading
  <1>5. Len(line) = 1
    <2>1. Len(line) > 1 => line[1] \notin Names
      BY <1>1, <1>4 DEF OneConstruct
    <2> DEFINE size == Len(line)
    <2>2. line[1] \in Names /\ size \in Nat \ {0}
      BY <1>3
    <2>3. ~(size > 1)
      BY <2>1, <2>2
    <2> HIDE DEF size
    <2>4. size = 1
      BY <2>2, <2>3
    <2> QED BY <2>4 DEF size
  <1>6. Tokenizes
    <2>1. \A t \in 1..Len(line) : t = 1
      BY <1>5
    <2>2. line[1] # Unfinished
      BY <1>3, WordFacts
    <2> QED BY <1>1, <1>2, <2>1, <2>2, TokenizesFacts
  <1>7. loop' = [loop EXCEPT !.columns = Append(@, Head(line))]
        /\ UNCHANGED <<block, tags, loops, pending, tag, text, pc>>
    BY <1>6 DEF Column
  <1> DEFINE c == Append(loop.columns, line[1])
  <1>8. loop' = [columns |-> c, rows |-> << >>]
    <2>1. \A x : [loop EXCEPT !.columns = x] = [columns |-> x, rows |-> << >>]
      BY <1>1
    <2>2. loop' = [loop EXCEPT !.columns = c]
      BY <1>3, <1>7
    <2> HIDE DEF c
    <2> QED BY <2>1, <2>2
  <1>9. n = Read(m, line[1])
    <2>1. Plain(m)
      BY <1>1 DEF Plain
    <2> QED BY <1>1, <1>2, <1>4, <1>5, <2>1, SecondToken
  <1>10. Read(m, line[1]) = WithLast(m, [LastLoop(m) EXCEPT !.columns = Append(@, line[1])])
    BY <1>1, <1>3, WordFacts DEF Read, Word, Ended
  <1>11. [LastLoop(m) EXCEPT !.columns = Append(@, line[1])] = [columns |-> c, values |-> << >>]
    <2> DEFINE last == LastLoop(m)
    <2>1. last = [columns |-> loop.columns, values |-> << >>]
      BY <1>1
    <2> HIDE DEF last
    <2>2. last.columns = loop.columns /\ \A x : [last EXCEPT !.columns = x] = [columns |-> x, values |-> << >>]
      BY <2>1
    <2>3. [last EXCEPT !.columns = Append(@, line[1])] = [last EXCEPT !.columns = c]
      BY <2>2
    <2> HIDE DEF c
    <2>4. [last EXCEPT !.columns = Append(@, line[1])] = [columns |-> c, values |-> << >>]
      BY <2>2, <2>3
    <2> QED BY <2>4 DEF last
  <1> HIDE DEF c
  <1> DEFINE more == [columns |-> c, values |-> << >>]
             last == [columns |-> loop.columns, values |-> << >>]
  <1>12. n = Holding("columns", m, Append(ToldLoops, more))
    <2>1. m.loops = Append(ToldLoops, last)
      BY <1>1 DEF Opened
    <2> HIDE DEF last, more
    <2>2. \A at, l : WithLast(State(at, m), l) = Holding(at, m, Append(ToldLoops, l))
      <3>1. PICK closed : closed = ToldLoops
        OBVIOUS
      <3>2. closed \in Seq(ToldSet) /\ m.loops = Append(closed, last)
        BY <2>1, <3>1, ToldLoopsFacts
      <3>3. \A at, l : WithLast(State(at, m), l) = Holding(at, m, Append(closed, l))
        BY <3>2, WithLastFacts, SMTT(30)
      <3> QED BY <3>1, <3>3
    <2>3. m = State("columns", m)
      BY <1>1 DEF Shaped
    <2> QED BY <1>9, <1>10, <1>11, <2>2, <2>3 DEF more
  <1>13. n.loops = Opened(ToldLoops, c, << >>) /\ Shaped(n) /\ n.at = "columns"
         /\ n.block = block /\ n.tags = tags
    <2>1. n = Holding("columns", m, Opened(ToldLoops, c, << >>))
      BY <1>12 DEF Opened
    <2> QED BY <1>1, <2>1, HoldingFacts
  <1>14. OpenLoops' = Opened(ToldLoops, c, << >>)
    <2>1. OpenLoops' = Opened(ToldLoops', loop'.columns, Told(loop').values \o pending')
      BY DEF OpenLoops, Opened, Told
    <2>2. loop'.columns = c /\ loop'.rows = << >> /\ ToldLoops' = ToldLoops
      BY <1>7, <1>8 DEF ToldLoops
    <2>3. c \in Seq(Names)
      BY <1>1, <1>3 DEF c
    <2>4. Told(loop').values = << >>
      <3> DEFINE k == [columns |-> c, rows |-> << >>]
      <3>1. RowsOK(k) /\ k.rows = << >>
        BY <2>3 DEF RowsOK
      <3> HIDE DEF k
      <3>2. Told(k).values = << >>
        BY <3>1, NothingTold
      <3> QED BY <1>8, <3>2 DEF k
    <2>5. << >> \o << >> = << >>
      OBVIOUS
    <2> QED BY <1>1, <1>7, <2>1, <2>2, <2>4, <2>5
  <1> QED BY <1>7, <1>13, <1>14 DEF Follows

LEMMA ColumnsRejected ==
  ASSUME CifInv, pc = "columns", EndColumns, loop.columns = << >>, NEW m, NEW n, Reading(m, n)
  PROVE  Wrong(n)
  <1>1. FileOK /\ Shaped(m) /\ m.at = "columns" /\ ~Ended(m) /\ LastLoop(m).columns = << >>
    BY ColumnsFacts DEF Reading
  <1>2. ~Blank /\ ~StartsWith(Names) /\ n = ReadLine(m, line) /\ (~AtEnd => OneConstruct(m, line))
    BY DEF EndColumns, Reading
  <1>3. /\ Interrupted(m) = "malformed" /\ Plain(m) /\ ~InText(m)
        /\ \A token : Found(m, token) = "malformed"
    BY <1>1 DEF Interrupted, Found, Plain, InText
  <1>4. CASE AtEnd
    <2>1. n = State("malformed", m)
      BY <1>1, <1>2, <1>3, <1>4, EndOfFileFacts
    <2> QED BY <1>1, <2>1, Malformed
  <1>5. CASE ~AtEnd
    <2>1. line[1] \notin Names
      BY <1>1, <1>2, <1>5, FirstOfLine
    <2>2. Read(m, line[1]) = [m EXCEPT !.at = "malformed"]
      BY <1>1, <1>3, <2>1 DEF Read, Word, Datum, Ended
    <2>3. Wrong(Read(m, line[1]))
      BY <1>1, <2>2, Malformed
    <2> QED BY <1>1, <1>2, <1>3, <1>5, <2>3, FirstBreaks
  <1> QED BY <1>4, <1>5

(* The line after the columns is looked at again. *)
LEMMA ColumnsTurn ==
  ASSUME CifInv, pc = "columns", EndColumns, loop.columns # << >>, NEW m, Follows(m)
  PROVE  Follows(m)'
  <1>1. FileOK /\ Shaped(m) /\ m.at = "columns" /\ pending = << >> /\ m.block = block /\ m.tags = tags
        /\ m.loops = OpenLoops
    BY ColumnsFacts
  <1>2. ~Blank /\ ~StartsWith(Names) /\ pc' = "rows" /\ UNCHANGED <<file, rest>>
    BY DEF EndColumns
  <1>3. OpenLoops' = OpenLoops
    BY <1>2 DEF rest, OpenLoops, ToldLoops, Opened, Told
  <1>4. ~Blank' /\ ~StartsWith(Names)'
    BY <1>2 DEF Blank, StartsWith, AtEnd, line
  <1> QED BY <1>1, <1>2, <1>3, <1>4 DEF Follows, rest

LEMMA ColumnsKept ==
  ASSUME CifInv, Columns, NEW m, NEW n, Reading(m, n), ~(pc' = "rows")
  PROVE  Kept(n)
  <1>1. pc = "columns"
    BY DEF Columns
  <1>2. CASE Skip
    <2>1. Follows(n)' /\ pc' = "columns"
      BY <1>1, <1>2, ColumnsSkip
    <2> QED BY <2>1 DEF Kept
  <1>3. CASE Column
    <2>1. Follows(n)' /\ pc' = "columns"
      BY <1>1, <1>3, ColumnsColumn
    <2> QED BY <2>1 DEF Kept
  <1>4. CASE EndColumns
    <2>1. loop.columns = << >> /\ pc' = "rejected"
      BY <1>4 DEF EndColumns, Reject
    <2>2. Wrong(n)
      BY <1>1, <1>4, <2>1, ColumnsRejected
    <2> QED BY <2>1, <2>2 DEF Kept
  <1> QED BY <1>2, <1>3, <1>4 DEF Columns

-----------------------------------------------------------------------------
(* In the rows of a loop. *)

LEMMA RowsFacts ==
  ASSUME CifInv, pc = "rows", NEW m, Follows(m)
  PROVE  /\ FileOK /\ pending \in Seq(Tokens) /\ Shaped(m) /\ m.block = block /\ m.tags = tags
         /\ m.at \in {"values", "columns"} /\ ~Ended(m) /\ Plain(m)
         /\ m.at = "columns" => pending = << >> /\ ~Blank /\ ~StartsWith(Names)
         /\ m.loops = OpenLoops /\ RowsOK(loop) /\ loop.columns # << >>
         /\ Told(loop).values \in Seq(Tokens) /\ Told(loop).values \o pending \in Seq(Tokens)
         /\ LastLoop(m).columns = loop.columns
         /\ Whole(m) <=> pending = << >>
         /\ pending # << >> => m.at = "values" /\ Interrupted(m) = "interrupted"
  <1> DEFINE v == Told(loop).values
             w == Len(loop.columns)
             n == Len(loop.rows)
             p == Len(pending)
             nw == n * w
             all == v \o pending
  <1>1. /\ FileOK /\ pending \in Seq(Tokens) /\ Shaped(m) /\ m.block = block /\ m.tags = tags
        /\ m.at \in {"values", "columns"} /\ m.loops = OpenLoops
        /\ RowsOK(loop) /\ loop.columns # << >>
        /\ m.at = "columns" => pending = << >> /\ ~Blank /\ ~StartsWith(Names)
    BY DEF CifInv, Follows
  <1>2. /\ w \in Nat \ {0} /\ n \in Nat /\ p \in Nat
        /\ pending # << >> => p # 0 /\ p < w
        /\ pending = << >> => p = 0
    <2>1. loop.columns \in Seq(Names) /\ loop.rows \in Seq(Seq(Tokens))
      BY <1>1 DEF RowsOK
    <2>2. w \in Nat \ {0} /\ n \in Nat
      BY <1>1, <2>1
    <2>3. p \in Nat /\ (pending # << >> => p # 0) /\ (pending = << >> => p = 0)
      BY <1>1
    <2>4. pending # << >> => p < w
      BY DEF CifInv
    <2> QED BY <2>2, <2>3, <2>4
  <1>3. v \in Seq(Tokens) /\ Len(v) = nw
    BY <1>1, ToldFacts
  <1>4. all \in Seq(Tokens) /\ Len(all) = nw + p
    <2> HIDE DEF nw, v
    <2> QED BY <1>1, <1>3, ConcatProperties
  <1>5. LastLoop(m).columns = loop.columns /\ LastLoop(m).values = all
    <2>1. m.loops = Opened(ToldLoops, loop.columns, all)
      BY <1>1 DEF OpenLoops
    <2> HIDE DEF all
    <2> QED BY <2>1, ToldLoopsFacts, OpenedFacts
  <1>6. p \in 0..(w - 1)
    <2> HIDE DEF p, w
    <2>1. CASE pending = << >>
      BY <1>2, <2>1
    <2>2. CASE pending # << >>
      BY <1>2, <2>2
    <2> QED BY <2>1, <2>2
  <1>7. (nw + p) % w = p
    <2> HIDE DEF p, w, n
    <2> QED BY <1>2, <1>6, PlaceIsThat
  <1>8. Whole(m) <=> pending = << >>
    <2>1. Whole(m) <=> Len(all) % w = 0
      BY <1>5 DEF Whole
    <2> HIDE DEF all, w, nw, p
    <2>2. Len(all) % w = p
      BY <1>4, <1>7
    <2> QED BY <1>2, <2>1, <2>2
  <1>9. pending # << >> => m.at = "values" /\ Interrupted(m) = "interrupted"
    BY <1>1, <1>8 DEF Interrupted
  <1>10. ~Ended(m) /\ Plain(m)
    BY <1>1 DEF Ended, Plain
  <1> HIDE DEF v, all
  <1> QED BY <1>1, <1>3, <1>4, <1>5, <1>8, <1>9, <1>10 DEF v, all

LEMMA RowsSkip ==
  ASSUME CifInv, pc = "rows", Skip, NEW m, NEW n, Reading(m, n)
  PROVE  Follows(n)' /\ pc' = "rows"
  <1>1. /\ Follows(m) /\ FileOK /\ Shaped(m) /\ m.at \in {"values", "columns"}
        /\ m.at = "columns" => ~Blank
    BY RowsFacts DEF Reading
  <1>2. Blank /\ UNCHANGED <<rest, pc>>
    BY DEF Skip
  <1>3. n = m /\ m.at = "values"
    <2>1. OneConstruct(m, line) /\ n = ReadLine(m, line) /\ m.at = "values" /\ Plain(m)
      BY <1>1, <1>2 DEF Reading, Blank, Plain
    <2> QED BY <1>1, <1>2, <2>1, BlankLine
  <1>4. OpenLoops' = OpenLoops
    BY <1>2 DEF rest, OpenLoops, ToldLoops, Opened, Told
  <1> QED BY <1>1, <1>2, <1>3, <1>4 DEF Follows, rest

LEMMA RowsRow ==
  ASSUME CifInv, pc = "rows", Row, NEW m, NEW n, Reading(m, n)
  PROVE  /\ pc' = "rows" => Wrong(n) \/ Follows(n)'
         /\ pc' = "rejected" => Wrong(n)
         /\ pc' \in {"rows", "rejected"}
  <1>1. /\ FileOK /\ pending \in Seq(Tokens) /\ Shaped(m) /\ m.block = block /\ m.tags = tags
        /\ m.at \in {"values", "columns"} /\ ~Ended(m) /\ Plain(m)
        /\ m.loops = OpenLoops /\ RowsOK(loop) /\ loop.columns # << >>
        /\ Told(loop).values \o pending \in Seq(Tokens)
        /\ pending # << >> => m.at = "values" /\ Interrupted(m) = "interrupted"
    BY RowsFacts DEF Reading
  <1>2. ~Blank /\ ~AtEnd /\ (StartsWith(Words) => pending # << >>)
    BY DEF Row, EndRows, LooksLikeNewConstruct
  <1>3. OneConstruct(m, line) /\ n = ReadLine(m, line) /\ n = ReadTokens(m, line)
    BY <1>1, <1>2, PlainLine DEF Reading
  <1>4. line \in Seq(Tokens) /\ line # << >> /\ (StartsWith(Words) <=> line[1] \in Words)
        /\ Len(line) \in Nat \ {0}
    BY <1>1, <1>2, LineOfFile, FirstOfLine
  <1>5. pc' \in {"rows", "rejected"}
    BY DEF Row, Reject
  <1>6. CASE StartsWith(Words)
    <2>1. m.at = "values" /\ Interrupted(m) = "interrupted" /\ line[1] \in Words
      BY <1>1, <1>2, <1>4, <1>6
    <2>2. Read(m, line[1]) = Word(m, line[1])
      BY <1>1, <2>1, WordFacts DEF Read, Ended
    <2>3. \/ Word(m, line[1]) = [m EXCEPT !.at = "interrupted"]
          \/ Word(m, line[1]) = [m EXCEPT !.at = "malformed"]
      BY <2>1 DEF Word, Found
    <2>4. Read(m, line[1]) = State("interrupted", m) \/ Read(m, line[1]) = State("malformed", m)
      BY <1>1, <2>2, <2>3, AtFacts
    <2>5. Wrong(Read(m, line[1]))
      BY <1>1, <2>4, Malformed
    <2>6. Wrong(n)
      BY <1>1, <1>2, <1>3, <2>5, FirstBreaks
    <2> QED BY <1>5, <2>6
  <1>7. CASE ~StartsWith(Words) /\ ~Tokenizes
    <2>1. line[1] # "data_"
      BY <1>4, <1>7, WordFacts
    <2>2. Wrong(n)
      BY <1>1, <1>2, <1>3, <1>7, <2>1, LineBreaks
    <2> QED BY <1>5, <2>2
  <1>8. CASE ~StartsWith(Words) /\ Tokenizes
    <2>1. /\ loop' = [loop EXCEPT !.rows = Dealt(loop, line).rows]
          /\ pending' = Dealt(loop, line).left
          /\ UNCHANGED <<block, tags, loops, tag, text, pc>>
      BY <1>8 DEF Row
    <2> DEFINE before == Told(loop).values \o pending
    <2>2. \A t \in 1..Len(line) : line[t] \notin Words /\ line[t] # Unfinished
      <3>1. \A t \in 2..Len(line) : line[t] \notin Words
        BY <1>1, <1>2, <1>3, OneWord
      <3>2. line[1] \notin Words
        BY <1>4, <1>8
      <3>3. \A t \in 1..Len(line) : t = 1 \/ t \in 2..Len(line)
        BY <1>4
      <3>4. \A t \in 1..Len(line) : line[t] # Unfinished
        BY <1>1, <1>2, <1>8, TokenizesFacts
      <3> QED BY <3>1, <3>2, <3>3, <3>4
    <2>3. n = Holding("values", m, Opened(ToldLoops, loop.columns, before \o line))
      <3>1. m.loops = Opened(ToldLoops, loop.columns, before)
        BY <1>1 DEF OpenLoops
      <3>2. before \in Seq(Tokens) /\ m.at \in {"columns", "values"}
        BY <1>1
      <3>3. ToldLoops \in Seq(ToldSet)
        BY ToldLoopsFacts
      <3> DEFINE closed == ToldLoops
                 columns == loop.columns
                 l == line
      <3>a. /\ closed \in Seq(ToldSet) /\ columns # << >> /\ before \in Seq(Tokens)
            /\ l \in Seq(Tokens) /\ l # << >>
            /\ \A t \in 1..Len(l) : l[t] \notin Words /\ l[t] # Unfinished
            /\ Shaped(m) /\ m.loops = Opened(closed, columns, before) /\ m.at \in {"columns", "values"}
        BY <1>1, <1>4, <2>2, <3>1, <3>2, <3>3
      <3> HIDE DEF before, closed, columns, l
      <3>4. ReadTokens(m, l) = Holding("values", m, Opened(closed, columns, before \o l))
        BY <3>a, RowsRead
      <3> USE DEF closed, columns, l
      <3> QED BY <1>3, <3>4
    <2>4. PICK k : k = [columns |-> loop.columns, rows |-> Dealt(loop, line).rows]
      OBVIOUS
    <2>5. loop' = k /\ k.columns = loop.columns
      <3>1. loop = [columns |-> loop.columns, rows |-> loop.rows]
        BY <1>1 DEF RowsOK
      <3> QED BY <2>1, <2>4, <3>1
    <2>6. Told(k).values \o Dealt(loop, line).left = before \o line
      BY <1>1, <1>4, <2>4, DealtFacts
    <2> HIDE DEF before
    <2>7. OpenLoops' = Opened(ToldLoops, loop.columns, before \o line)
      <3>1. OpenLoops' = Opened(ToldLoops', loop'.columns, Told(loop').values \o pending')
        BY DEF OpenLoops, Opened, Told
      <3>2. ToldLoops' = ToldLoops
        BY <2>1 DEF ToldLoops
      <3> QED BY <2>1, <2>5, <2>6, <3>1, <3>2
    <2>8. /\ Shaped(n) /\ n.at = "values" /\ n.block = block /\ n.tags = tags
          /\ n.loops = Opened(ToldLoops, loop.columns, before \o line)
      <3> DEFINE held == Opened(ToldLoops, loop.columns, before \o line)
      <3>1. n = Holding("values", m, held)
        BY <2>3
      <3> HIDE DEF held
      <3>2. Shaped(n) /\ n.at = "values" /\ n.block = m.block /\ n.tags = m.tags /\ n.loops = held
        BY <3>1, HoldingFacts
      <3> QED BY <1>1, <3>2 DEF held
    <2>9. Follows(n)'
      BY <2>1, <2>7, <2>8 DEF Follows
    <2> QED BY <2>1, <2>9
  <1> QED BY <1>6, <1>7, <1>8

LEMMA RowsRejected ==
  ASSUME CifInv, pc = "rows", CloseLoop, pending # << >>, NEW m, NEW n, Reading(m, n)
  PROVE  Wrong(n)
  <1>1. /\ Shaped(m) /\ ~Ended(m) /\ ~InText(m) /\ Interrupted(m) = "interrupted"
    BY RowsFacts DEF Reading, Plain, InText
  <1>2. AtEnd /\ n = ReadLine(m, line)
    BY DEF CloseLoop, EndRows, Reading
  <1>3. n = State("malformed", m) \/ n = State("interrupted", m)
    BY <1>1, <1>2, EndOfFileFacts
  <1> QED BY <1>1, <1>3, Malformed

(* The line that ends the rows is looked at again. *)
LEMMA RowsTurn ==
  ASSUME CifInv, pc = "rows", CloseLoop, pending = << >>, NEW m, Follows(m)
  PROVE  Follows(m)'
  <1>1. /\ Shaped(m) /\ m.block = block /\ m.tags = tags /\ m.at \in {"values", "columns"}
        /\ m.at = "columns" => ~StartsWith(Names)
        /\ m.loops = OpenLoops /\ RowsOK(loop) /\ loop.columns # << >>
        /\ LastLoop(m).columns = loop.columns /\ Whole(m)
        /\ Told(loop).values \in Seq(Tokens)
    BY RowsFacts
  <1>2. /\ EndRows /\ loops' = Append(loops, loop) /\ pc' = "top"
        /\ UNCHANGED <<file, block, tags, loop, pending, tag, text>>
    BY DEF CloseLoop
  <1>3. ToldLoops' = Append(ToldLoops, Told(loop))
    BY <1>1, <1>2, Closing
  <1>4. OpenLoops = Append(ToldLoops, Told(loop))
    <2>1. Told(loop).values \o << >> = Told(loop).values
      BY <1>1, ConcatEmptySeq
    <2>2. Told(loop) = [columns |-> loop.columns, values |-> Told(loop).values]
      BY <1>1, ToldFacts
    <2>3. OpenLoops = Opened(ToldLoops, loop.columns, Told(loop).values)
      BY <2>1 DEF OpenLoops
    <2> QED BY <2>2, <2>3 DEF Opened
  <1>5. (AtEnd \/ StartsWith(Words))'
    <2>1. AtEnd \/ StartsWith(Words)
      BY <1>2 DEF EndRows, LooksLikeNewConstruct
    <2> QED BY <1>2, <2>1 DEF AtEnd, StartsWith, Blank, line
  <1>6. m.at = "columns" => ~StartsWith(Names)'
    BY <1>1, <1>2 DEF AtEnd, StartsWith, Blank, line
  <1>7. Complete(m)'
    BY <1>1, <1>5, <1>6 DEF Complete
  <1> QED BY <1>1, <1>2, <1>3, <1>4, <1>7 DEF Follows

LEMMA RowsKept ==
  ASSUME CifInv, Rows, NEW m, NEW n, Reading(m, n), ~(pc' = "top")
  PROVE  Kept(n)
  <1>1. pc = "rows"
    BY DEF Rows
  <1>2. CASE Skip
    <2>1. Follows(n)' /\ pc' = "rows"
      BY <1>1, <1>2, RowsSkip
    <2> QED BY <2>1 DEF Kept
  <1>3. CASE Row
    BY <1>1, <1>3, RowsRow DEF Kept
  <1>4. CASE CloseLoop
    <2>1. pending # << >> /\ pc' = "rejected"
      BY <1>4 DEF CloseLoop, Reject
    <2>2. Wrong(n)
      BY <1>1, <1>4, <2>1, RowsRejected
    <2> QED BY <2>1, <2>2 DEF Kept
  <1> QED BY <1>2, <1>3, <1>4 DEF Rows

-----------------------------------------------------------------------------
(* The value of a tag. *)

LEMMA ValueFacts ==
  ASSUME CifInv, pc = "value", NEW m, Follows(m)
  PROVE  /\ FileOK /\ pending = << >> /\ Shaped(m) /\ m.block = block /\ m.tags = tags
         /\ m.at = "tag" /\ m.tag = tag /\ ~Ended(m) /\ m.loops = ToldLoops
         /\ Interrupted(m) = "interrupted" /\ ~InText(m) /\ ~InLoop(m)
  <1>1. /\ FileOK /\ pending = << >> /\ Shaped(m) /\ m.block = block /\ m.tags = tags
        /\ m.at = "tag" /\ m.tag = tag /\ m.loops = ToldLoops
    BY DEF CifInv, Follows
  <1> QED BY <1>1 DEF Ended, Interrupted, InText, InLoop

LEMMA ValueKept ==
  ASSUME CifInv, Value, NEW m, NEW n, Reading(m, n)
  PROVE  Kept(n)
  <1>0. pc = "value"
    BY DEF Value
  <1>1. /\ FileOK /\ pending = << >> /\ Shaped(m) /\ m.block = block /\ m.tags = tags
        /\ m.at = "tag" /\ m.tag = tag /\ ~Ended(m) /\ m.loops = ToldLoops
        /\ Interrupted(m) = "interrupted" /\ ~InText(m) /\ ~InLoop(m) /\ n = ReadLine(m, line)
        /\ ~AtEnd => OneConstruct(m, line)
    BY <1>0, ValueFacts DEF Reading
  <1>2. ASSUME ~AtEnd PROVE ~Blank
    <2>1. Len(line) >= 1
      BY <1>1, <1>2 DEF OneConstruct
    <2>2. Len(<< >>) = 0
      OBVIOUS
    <2> QED BY <2>1, <2>2 DEF Blank
  <1>3. CASE StartsWith({";"}) /\ text' = Tail(line) /\ pc' = "text" /\ Advance
             /\ UNCHANGED <<block, tags, loops, loop, pending, tag>>
    <2>1. ~AtEnd /\ ~Blank
      BY <1>3 DEF StartsWith
    <2>2. line[1] = ";" /\ line # << >>
      <3>1. line # << >> /\ (StartsWith({";"}) <=> line[1] \in {";"})
        BY <1>1, <2>1, FirstOfLine
      <3> QED BY <1>3, <3>1
    <2>3. n = [m EXCEPT !.at = "text", !.text = Tail(line)]
      <3>1. n = OpenText(m, line)
        BY <1>1, <2>1, <2>2 DEF ReadLine, AtEnd
      <3> QED BY <1>1, <3>1 DEF OpenText
    <2>4. /\ Shaped(n) /\ n.at = "text" /\ n.text = text' /\ n.tag = tag /\ n.block = block
          /\ n.tags = tags /\ n.loops = ToldLoops
      BY <1>1, <1>3, <2>3 DEF Shaped, State
    <2>5. ToldLoops' = ToldLoops
      BY <1>3 DEF ToldLoops
    <2>6. Follows(n)'
      BY <1>3, <2>4, <2>5 DEF Follows
    <2> QED BY <1>3, <2>6 DEF Kept
  <1>4. CASE ~StartsWith({";"}) /\ AtEnd /\ Reject
    <2>1. n = State("malformed", m) \/ n = State("interrupted", m)
      BY <1>1, <1>4, EndOfFileFacts
    <2>2. Wrong(n)
      BY <1>1, <2>1, Malformed
    <2> QED BY <1>4, <2>2 DEF Kept, Reject
  <1>5. CASE ~StartsWith({";"}) /\ ~AtEnd /\ (Reject => ~Tokenizes) /\ pc' \in {"rejected", "top"}
             /\ (pc' = "rejected" => Reject)
             /\ (pc' # "rejected" => /\ Tokenizes /\ tags' = Stored(tags, tag, <<Head(line)>>)
                                     /\ UNCHANGED <<block, loops, loop, pending, tag, text>>)
    <2>1. ~Blank /\ OneConstruct(m, line)
      BY <1>1, <1>2, <1>5
    <2>2. line \in Seq(Tokens) /\ line # << >> /\ line[1] # ";" /\ Head(line) = line[1]
          /\ Len(line) \in Nat \ {0}
      BY <1>1, <1>5, <2>1, LineOfFile, FirstOfLine
    <2>3. n = ReadTokens(m, line)
      BY <1>1, <1>5, <2>2 DEF ReadLine, AtEnd
    <2>a. 1 \in 1..Len(line) /\ (Len(line) >= 2 => 2 \in 1..Len(line) /\ 2 \in 2..Len(line))
      <3> DEFINE size == Len(line)
      <3>1. size \in Nat \ {0}
        BY <2>2
      <3> HIDE DEF size
      <3>2. 1 \in 1..size /\ (size >= 2 => 2 \in 1..size /\ 2 \in 2..size)
        BY <3>1
      <3> QED BY <3>2 DEF size
    <2> DEFINE r == Read(m, line[1])
    <2>4. CASE line[1] \in Words
      <3>1. r = [m EXCEPT !.at = "malformed"] \/ r = [m EXCEPT !.at = "interrupted"]
        BY <1>1, <2>4, WordFacts DEF Read, Word, Found, Ended
      <3>a. r = State("malformed", m) \/ r = State("interrupted", m)
        BY <1>1, <3>1, AtFacts
      <3> HIDE DEF r
      <3>2. Wrong(r)
        BY <1>1, <3>a, Malformed
      <3>3. Ended(r)
        BY <3>2 DEF Wrong, Ended
      <3>4. n = r
        BY <1>1, <2>2, <2>3, <3>3, FirstToken DEF r
      <3> QED BY <1>5, <3>2, <3>4 DEF Kept
    <2>5. CASE line[1] \notin Words /\ ~Tokenizes
      <3>1. Wrong(n)
        BY <1>1, <1>5, <2>1, <2>3, <2>5, WordFacts, LineBreaks
      <3> QED BY <1>5, <3>1 DEF Kept
    <2>6. CASE line[1] \notin Words /\ Tokenizes
      <3>1. pc' = "top" /\ tags' = Stored(tags, tag, <<line[1]>>)
            /\ UNCHANGED <<block, loops, loop, pending, tag, text>>
        BY <1>5, <2>2, <2>6
      <3>2. line[1] # Unfinished
        <4> QED BY <1>1, <1>5, <2>6, <2>a, TokenizesFacts
      <3>3. r = [m EXCEPT !.at = "between", !.tags = Stored(@, m.tag, <<line[1]>>)]
        BY <1>1, <2>6, <3>2 DEF Read, Datum
      <3> HIDE DEF r
      <3>4. /\ Shaped(r) /\ r.at = "between" /\ r.block = block /\ r.loops = ToldLoops
            /\ r.tags = tags'
        BY <1>1, <3>1, <3>3 DEF Shaped, State
      <3>5. CASE Len(line) = 1
        <4>1. n = r
          BY <1>1, <2>2, <2>3, <3>5, FirstToken DEF r
        <4>2. ToldLoops' = ToldLoops
          BY <3>1 DEF ToldLoops
        <4>3. Follows(n)'
          BY <1>1, <3>1, <3>4, <4>1, <4>2 DEF Follows
        <4> QED BY <3>1, <4>3 DEF Kept
      <3>6. CASE Len(line) >= 2
        <4>1. PICK f : TokenByToken(f, m, line) /\ ReadTokens(m, line) = f[Len(line)]
          BY <2>2, TokensChain
        <4>2. f[1] = r
          <5>1. f[0] = m /\ f[1] = Read(f[1 - 1], line[1])
            BY <2>a, <4>1 DEF TokenByToken
          <5>2. 1 - 1 = 0
            OBVIOUS
          <5> QED BY <5>1, <5>2 DEF r
        <4>3. 2 \in 1..Len(line) /\ 2 \in 2..Len(line) /\ 2 - 1 = 1
          BY <2>a, <3>6
        <4>4. line[2] \notin Words /\ f[2 - 1].at = "between"
          BY <1>1, <1>5, <2>1, <3>4, <4>2, <4>3, OneWord
        <4>5. Wrong(f[Len(line)])
          BY <1>1, <2>2, <4>1, <4>3, <4>4, StrayData
        <4> QED BY <2>3, <3>1, <4>1, <4>5 DEF Kept
      <3>7. Len(line) = 1 \/ Len(line) >= 2
        <4> DEFINE size == Len(line)
        <4>1. size \in Nat \ {0}
          BY <2>2
        <4> HIDE DEF size
        <4>2. size = 1 \/ size >= 2
          BY <4>1
        <4> QED BY <4>2 DEF size
      <3> QED BY <3>5, <3>6, <3>7
    <2> QED BY <2>4, <2>5, <2>6
  <1>6. CASE ~StartsWith({";"}) /\ (AtEnd \/ Blank \/ ~Tokenizes) /\ Reject
    <2>1. CASE AtEnd
      BY <1>4, <1>6, <2>1
    <2>2. CASE ~AtEnd
      <3>1. ~Blank /\ ~Tokenizes /\ pc' = "rejected"
        BY <1>2, <1>6, <2>2 DEF Reject
      <3> QED BY <1>5, <1>6, <2>2, <3>1
    <2> QED BY <2>1, <2>2
  <1>7. CASE /\ ~AtEnd /\ ~Blank /\ ~StartsWith({";"}) /\ Tokenizes
             /\ tags' = Stored(tags, tag, <<Head(line)>>) /\ pc' = "top" /\ Advance
             /\ UNCHANGED <<block, loops, loop, pending, tag, text>>
    BY <1>5, <1>7 DEF Reject
  <1> QED BY <1>3, <1>6, <1>7 DEF Value

LEMMA TailFacts ==
  ASSUME NEW l \in Seq(Tokens), l # << >>
  PROVE  Tail(l) \in Seq(Tokens) /\ (Len(l) = 1 => Tail(l) = << >>)
  <1>1. Tail(l) \in Seq(Tokens) /\ Len(Tail(l)) = Len(l) - 1
    BY HeadTailProperties
  <1>2. Len(Tail(l)) = 0 => Tail(l) = << >>
    BY <1>1, EmptySeq
  <1> QED BY <1>1, <1>2

LEMMA TextKept ==
  ASSUME CifInv, Text, NEW m, NEW n, Reading(m, n)
  PROVE  Kept(n)
  <1>1. /\ FileOK /\ pending = << >> /\ Shaped(m) /\ m.block = block /\ m.tags = tags
        /\ m.at = "text" /\ m.tag = tag /\ m.text = text /\ m.loops = ToldLoops
        /\ n = ReadLine(m, line) /\ ~Ended(m) /\ InText(m) /\ pc = "text"
        /\ ~AtEnd => OneConstruct(m, line)
    BY DEF CifInv, Text, Follows, Reading, Ended, InText
  <1>2. CASE AtEnd /\ Reject
    <2>1. n = State("malformed", m)
      BY <1>1, <1>2, EndOfFileFacts
    <2>2. Wrong(n)
      BY <1>1, <2>1, Malformed
    <2> QED BY <1>2, <2>2 DEF Kept, Reject
  <1>3. CASE StartsWith({";"}) /\ tags' = Stored(tags, tag, text) /\ pc' = "top" /\ Advance
             /\ UNCHANGED <<block, loops, loop, pending, tag, text>>
    <2>1. ~AtEnd /\ ~Blank
      BY <1>3 DEF StartsWith
    <2>2. line[1] = ";" /\ line # << >>
      <3>1. line # << >> /\ (StartsWith({";"}) <=> line[1] \in {";"})
        BY <1>1, <2>1, FirstOfLine
      <3> QED BY <1>3, <3>1
    <2>3. n = [m EXCEPT !.at = "between", !.tags = Stored(@, m.tag, m.text)]
      <3>1. Tail(line) = << >>
        <4>1. line \in Seq(Tokens) /\ Len(line) = 1
          BY <1>1, <2>1, <2>2, LineOfFile DEF OneConstruct
        <4> QED BY <2>2, <4>1, TailFacts
      <3>2. n = ReadTokens(CloseText(m), Tail(line))
        BY <1>1, <2>1, <2>2 DEF ReadLine, AtEnd
      <3> QED BY <1>1, <3>1, <3>2, NoTokens DEF CloseText
    <2>4. /\ Shaped(n) /\ n.at = "between" /\ n.block = block /\ n.tags = tags' /\ n.loops = ToldLoops
      BY <1>1, <1>3, <2>3 DEF Shaped, State
    <2>5. ToldLoops' = ToldLoops
      BY <1>3 DEF ToldLoops
    <2>6. Follows(n)'
      BY <1>3, <2>4, <2>5 DEF Follows
    <2> QED BY <1>3, <2>6 DEF Kept
  <1>4. CASE ~AtEnd /\ ~StartsWith({";"}) /\ text' = text \o line /\ Advance
             /\ UNCHANGED <<block, tags, loops, loop, pending, tag, pc>>
    <2>1. line = << >> \/ line[1] # ";"
      <3>1. CASE Blank
        BY <3>1 DEF Blank
      <3>2. CASE ~Blank
        BY <1>1, <1>4, <3>2, FirstOfLine
      <3> QED BY <3>1, <3>2
    <2>2. n = [m EXCEPT !.text = @ \o line]
      BY <1>1, <1>4, <2>1 DEF ReadLine, AtEnd
    <2> DEFINE more == text \o line
    <2>3. n = [m EXCEPT !.text = more]
      BY <1>1, <2>2
    <2> HIDE DEF more
    <2>4. /\ Shaped(n) /\ n.at = "text" /\ n.text = more /\ n.tag = tag /\ n.block = block
          /\ n.tags = tags /\ n.loops = ToldLoops
      BY <1>1, <2>3 DEF Shaped, State
    <2>5. ToldLoops' = ToldLoops
      BY <1>4 DEF ToldLoops
    <2>6. text' = more
      BY <1>4 DEF more
    <2>7. Follows(n)'
      BY <1>1, <1>4, <2>4, <2>5, <2>6 DEF Follows
    <2> QED BY <1>1, <1>4, <2>7 DEF Kept
  <1> QED BY <1>2, <1>3, <1>4 DEF Text


-----------------------------------------------------------------------------
(* The two halves of the grammar invariant, along the whole run. *)

(* The state of the grammar is a record of its six fields. *)
LEMMA ReadTokensShape ==
  ASSUME NEW m, Shaped(m), NEW l \in Seq(Tokens)
  PROVE  Shaped(ReadTokens(m, l))
  <1>1. PICK f : TokenByToken(f, m, l) /\ ReadTokens(m, l) = f[Len(l)]
    BY TokensChain
  <1>2. Len(l) \in 0..Len(l)
    OBVIOUS
  <1> QED BY <1>1, <1>2, TokensShape

LEMMA CloseTextShape ==
  ASSUME NEW m, Shaped(m)
  PROVE  Shaped(CloseText(m))
  <1>1. CASE m.at = "text"
    <2>1. CloseText(m) = [m EXCEPT !.at = "between", !.tags = Stored(@, m.tag, m.text)]
      BY <1>1 DEF CloseText
    <2> QED BY <2>1 DEF Shaped, State
  <1>2. CASE m.at # "text"
    <2>1. /\ [m EXCEPT !.at = "values"] = State("values", m)
          /\ Shaped(State("values", m)) /\ State("values", m).at = "values"
      BY AtFacts
    <2>2. CloseText(m) = Datum(State("values", m), FieldText)
      BY <1>2, <2>1 DEF CloseText
    <2>3. ~Ended(State("values", m))
      BY <2>1 DEF Ended
    <2> QED BY <2>1, <2>2, <2>3, DatumShape
  <1> QED BY <1>1, <1>2

LEMMA LineShape ==
  ASSUME NEW m, Shaped(m), NEW l \in Lines \cup {EndOfFile}
  PROVE  Shaped(ReadLine(m, l))
  <1>1. CASE Ended(m)
    BY <1>1, EndedStays
  <1>2. CASE ~Ended(m) /\ l = EndOfFile
    <2>1. PICK at : ReadLine(m, l) = [m EXCEPT !.at = at]
      BY <1>2 DEF ReadLine, Ended
    <2>2. ReadLine(m, l) = State(at, m)
      BY <2>1, AtFacts
    <2> QED BY <2>2, AtFacts
  <1>3. CASE ~Ended(m) /\ l # EndOfFile
    <2>0. l \in Seq(Tokens)
      BY <1>3, LineFacts
    <2>1. CASE InText(m) /\ (l = << >> \/ l[1] # ";")
      <3>1. ReadLine(m, l) = [m EXCEPT !.text = @ \o l]
        BY <1>3, <2>1 DEF ReadLine
      <3> QED BY <3>1 DEF Shaped, State
    <2>2. CASE InText(m) /\ ~(l = << >> \/ l[1] # ";")
      <3>1. ReadLine(m, l) = ReadTokens(CloseText(m), Tail(l))
        BY <1>3, <2>2 DEF ReadLine
      <3>2. Tail(l) \in Seq(Tokens)
        BY <2>0, <2>2, TailFacts
      <3> QED BY <3>1, <3>2, CloseTextShape, ReadTokensShape
    <2>3. CASE ~InText(m) /\ (m.at = "tag" \/ InLoop(m)) /\ l # << >> /\ l[1] = ";"
      <3>1. ReadLine(m, l) = OpenText(m, l)
        BY <1>3, <2>3 DEF ReadLine
      <3>2. OpenText(m, l) = [m EXCEPT !.at = "loop text"]
            \/ OpenText(m, l) = [m EXCEPT !.at = "text", !.text = Tail(l)]
        BY DEF OpenText
      <3> QED BY <3>1, <3>2 DEF Shaped, State
    <2>4. CASE ~InText(m) /\ ~((m.at = "tag" \/ InLoop(m)) /\ l # << >> /\ l[1] = ";")
      <3>1. ReadLine(m, l) = ReadTokens(m, l)
        BY <1>3, <2>4 DEF ReadLine
      <3> QED BY <2>0, <3>1, ReadTokensShape
    <2> QED BY <2>1, <2>2, <2>3, <2>4
  <1> QED BY <1>1, <1>2, <1>3

LEMMA MeaningShaped ==
  ASSUME NEW F \in Files
  PROVE  Shaped(Meaning(F))
  <1>1. PICK f : LineByLine(f, F) /\ Meaning(F) = f[Len(F)]
    BY LinesChain
  <1> DEFINE P == {k \in Nat : Shaped(f[k])}
  <1>2. 0 \in P /\ Len(F) \in Nat
    <2>1. Shaped(Blank0)
      BY DEF Shaped, State, Blank0
    <2> QED BY <1>1, <2>1 DEF LineByLine, Files
  <1>3. ASSUME NEW k \in 1..Len(F), k - 1 \in P PROVE k \in P
    <2>1. F[k] \in Lines \cup {EndOfFile}
      BY DEF Files
    <2>2. f[k] = ReadLine(f[k - 1], F[k])
      BY <1>1 DEF LineByLine
    <2> QED BY <1>2, <1>3, <2>1, <2>2, LineShape
  <1> HIDE DEF P
  <1>4. \A k \in 0..Len(F) : k \in P
    BY <1>2, <1>3, StepByStep
  <1>5. Len(F) \in P
    BY <1>2, <1>4
  <1> QED BY <1>1, <1>5 DEF P

(* What the grammar makes of the lines before the cursor. *)
Before == Meaning(Front(file))

(* The parser follows the grammar line by line, unless the file is past     *)
(* mending; it stops where the grammar stops.                               *)
GrammarInv ==
  /\ pc \notin {"done", "rejected"} /\ LaidOut(Front(file)) => Wrong(Before) \/ Follows(Before)
  /\ pc = "rejected" /\ LaidOut(file) => Wrong(Meaning(file))
  /\ pc = "done" /\ LaidOut(file) =>
       Wrong(Meaning(file)) \/ (WellFormed(file) /\ Parsed = Meant)

LEMMA GrammarAtFirst ==
  ASSUME Init
  PROVE  GrammarInv
  <1>1. PICK l \in Lines : file = <<l>>
    BY DEF Init
  <1>2. Front(file) = << >>
    BY <1>1 DEF Front
  <1>3. Before = Blank0
    BY <1>2, MeaningOfNothing DEF Before
  <1>4. Shaped(Blank0)
    BY DEF Shaped, State, Blank0
  <1>5. ToldLoops = << >>
    <2>1. ToldLoops \in Seq(ToldSet) /\ Len(ToldLoops) = Len(loops)
      BY CifInitInv, ToldLoopsFacts
    <2>2. loops = << >>
      BY DEF Init
    <2> QED BY <2>1, <2>2
  <1>6. Follows(Blank0)
    BY <1>4, <1>5 DEF Init, Follows, Blank0
  <1> QED BY <1>3, <1>6 DEF GrammarInv, Init

(* A step looks at the same line again, reads it, or stops at it. *)
Turn == \/ Columns /\ pc' = "rows"
        \/ Rows /\ pc' = "top"

LEMMA Cursor ==
  ASSUME CifInv, Next
  PROVE  /\ pc \notin {"done", "rejected"}
         /\ Turn => file' = file /\ pc' \notin {"done", "rejected"}
         /\ pc' \in {"done", "rejected"} => file' = file
         /\ pc' = "done" => UNCHANGED rest
         /\ ~Turn /\ pc' \notin {"done", "rejected"} => Front(file)' = file
  <1>0. FileOK
    BY DEF CifInv
  <1>1. CASE Top
    <2>1. pc = "top" /\ ~Turn
      BY <1>1 DEF Top, Turn, Columns, Rows
    <2>2. CASE pc' \in {"done", "rejected"}
      <3>1. file' = file /\ UNCHANGED rest
        BY <1>1, <2>1, <2>2 DEF Top, Skip, DataBlock, OpenLoop, TagLine, Unrecognized, EndFile, Reject
      <3> QED BY <2>1, <2>2, <3>1
    <2>3. CASE pc' \notin {"done", "rejected"}
      <3>1. ~AtEnd /\ Advance
        BY <1>1, <2>1, <2>3 DEF Top, Skip, DataBlock, OpenLoop, TagLine, Unrecognized, EndFile, Reject,
           Blank, StartsWith
      <3> QED BY <1>0, <2>1, <2>3, <3>1, AdvanceFacts
    <2> QED BY <2>2, <2>3
  <1>2. CASE Columns
    <2>1. pc = "columns"
      BY <1>2 DEF Columns
    <2>2. CASE Skip \/ (Column /\ pc' # "rejected")
      <3>1. ~AtEnd /\ Advance /\ pc' = pc
        BY <2>2 DEF Skip, Column, Reject, Blank, StartsWith
      <3> QED BY <1>0, <2>1, <3>1, AdvanceFacts DEF Turn, Rows
    <2>3. CASE (Column /\ pc' = "rejected") \/ EndColumns
      <3>1. file' = file /\ pc' \in {"rejected", "rows"}
        BY <2>1, <2>3 DEF Column, EndColumns, Reject
      <3> QED BY <1>2, <2>1, <3>1 DEF Turn, Rows
    <2> QED BY <1>2, <2>2, <2>3 DEF Columns
  <1>3. CASE Rows
    <2>1. pc = "rows"
      BY <1>3 DEF Rows
    <2>2. CASE Skip \/ (Row /\ pc' # "rejected")
      <3>1. ~AtEnd /\ Advance /\ pc' = pc
        BY <2>2 DEF Skip, Row, Reject, Blank, EndRows
      <3> QED BY <1>0, <2>1, <3>1, AdvanceFacts DEF Turn, Columns
    <2>3. CASE (Row /\ pc' = "rejected") \/ CloseLoop
      <3>1. file' = file /\ pc' \in {"rejected", "top"}
        BY <2>1, <2>3 DEF Row, CloseLoop, Reject
      <3> QED BY <1>3, <2>1, <3>1 DEF Turn, Columns
    <2> QED BY <1>3, <2>2, <2>3 DEF Rows
  <1>4. CASE Value \/ Text
    <2>1. pc \in {"value", "text"} /\ ~Turn
      BY <1>4 DEF Value, Text, Turn, Columns, Rows
    <2>2. CASE Reject
      <3>1. pc' = "rejected" /\ file' = file
        BY <2>2 DEF Reject
      <3> QED BY <2>1, <3>1
    <2>3. CASE ~Reject
      <3>1. ~AtEnd /\ Advance /\ pc' \notin {"done", "rejected"}
        BY <1>4, <2>1, <2>3 DEF Value, Text, StartsWith
      <3> QED BY <1>0, <2>1, <3>1, AdvanceFacts
    <2> QED BY <2>2, <2>3
  <1> QED BY <1>1, <1>2, <1>3, <1>4 DEF Next

(* The line under the cursor, read. *)
LEMMA LineKept ==
  ASSUME CifInv, GrammarInv, Next, ~Turn, LaidOut(file), NEW n, n = Meaning(file)
  PROVE  Kept(n)
  <1>1. FileOK
    BY DEF CifInv
  <1>2. /\ line \in Lines \cup {EndOfFile} /\ Front(file) \in Files
        /\ file = Append(Front(file), line)
    BY <1>1, LineOfFile
  <1>3. PICK F : F = Front(file)
    OBVIOUS
  <1>4. PICK l : l = line
    OBVIOUS
  <1>5. F \in Files /\ l \in Lines \cup {EndOfFile} /\ file = Append(F, l)
    BY <1>2, <1>3, <1>4
  <1>6. PICK m : m = Meaning(F)
    OBVIOUS
  <1>7. LaidOut(F) /\ (l # EndOfFile => OneConstruct(m, l))
    BY <1>5, <1>6, LaidOutSplits
  <1>8. n = ReadLine(m, l)
    BY <1>5, <1>6, MeaningOfAppend
  <1>9. Wrong(m) \/ Follows(m)
    <2>1. m = Before
      BY <1>3, <1>6 DEF Before
    <2>2. Wrong(Before) \/ Follows(Before)
      BY <1>3, <1>7, Cursor DEF GrammarInv
    <2> QED BY <2>1, <2>2
  <1>10. CASE Wrong(m)
    <2>1. Shaped(m) /\ Ended(m)
      BY <1>5, <1>6, <1>10, MeaningShaped DEF Wrong, Ended
    <2>2. n = m
      BY <1>5, <1>8, <2>1, EndedStays
    <2> QED BY <1>10, <2>2 DEF Kept
  <1>11. CASE Follows(m)
    <2>1. Reading(m, n)
      BY <1>4, <1>7, <1>8, <1>11 DEF Reading, AtEnd
    <2>2. (Columns => pc' # "rows") /\ (Rows => pc' # "top")
      BY DEF Turn
    <2> QED BY <2>1, <2>2, TopKept, ColumnsKept, RowsKept, ValueKept, TextKept DEF Next
  <1> QED BY <1>9, <1>10, <1>11

LEMMA TurnKept ==
  ASSUME CifInv, Turn, NEW m, Follows(m)
  PROVE  Follows(m)'
  <1>1. CASE Columns /\ pc' = "rows"
    <2>1. pc = "columns" /\ EndColumns /\ loop.columns # << >>
      BY <1>1 DEF Columns, Skip, Column, EndColumns, Reject
    <2> QED BY <2>1, ColumnsTurn
  <1>2. CASE Rows /\ pc' = "top"
    <2>1. pc = "rows" /\ CloseLoop /\ pending = << >>
      BY <1>2 DEF Rows, Skip, Row, CloseLoop, Reject
    <2> QED BY <2>1, RowsTurn
  <1> QED BY <1>1, <1>2 DEF Turn

LEMMA GrammarKept == CifInv /\ GrammarInv /\ [Next]_vars => GrammarInv'
  <1> SUFFICES ASSUME CifInv, GrammarInv, [Next]_vars PROVE GrammarInv'
    OBVIOUS
  <1>1. CASE UNCHANGED vars
    <2>1. ASSUME NEW m PROVE Follows(m)' <=> Follows(m)
      BY <1>1 DEF vars, Follows, ToldLoops, OpenLoops, Opened, Told, Complete, AtEnd, StartsWith, Blank, line
    <2>2. file' = file /\ pc' = pc /\ Parsed' = Parsed
      BY <1>1 DEF vars, Parsed, Told
    <2>3. Meaning(file)' = Meaning(file) /\ Meant' = Meant /\ WellFormed(file)' = WellFormed(file)
          /\ LaidOut(file)' = LaidOut(file) /\ Front(file)' = Front(file)
      BY <2>2 DEF Meant
    <2>4. PICK m : m = Before
      OBVIOUS
    <2>5. Before' = m /\ LaidOut(Front(file))' = LaidOut(Front(file))
      BY <2>2, <2>4 DEF Before
    <2>6. Wrong(Before)' = Wrong(m) /\ Follows(Before)' = Follows(m)'
      BY <2>5
    <2> QED BY <2>1, <2>2, <2>3, <2>4, <2>5, <2>6 DEF GrammarInv
  <1>2. CASE Next /\ Turn
    <2>1. file' = file /\ pc' \notin {"done", "rejected"} /\ pc \notin {"done", "rejected"}
      BY <1>2, Cursor
    <2>2. PICK m : m = Before
      OBVIOUS
    <2>3. Before' = m
      BY <2>1, <2>2 DEF Before
    <2>4. LaidOut(Front(file)) => Wrong(m) \/ Follows(m)
      BY <2>1, <2>2 DEF GrammarInv
    <2>5. Follows(m) => Follows(m)'
      BY <1>2, TurnKept
    <2> QED BY <2>1, <2>3, <2>4, <2>5 DEF GrammarInv
  <1>3. CASE Next /\ ~Turn
    <2>1. PICK n : n = Meaning(file)
      OBVIOUS
    <2>2. LaidOut(file) => Kept(n)
      BY <1>3, <2>1, LineKept
    <2>3. CASE pc' \notin {"done", "rejected"}
      <3>1. Front(file)' = file
        BY <1>3, <2>3, Cursor
      <3>2. Before' = n /\ LaidOut(Front(file))' = LaidOut(file)
        BY <2>1, <3>1 DEF Before
      <3>3. LaidOut(file) => Wrong(n) \/ Follows(n)'
        BY <2>2, <2>3 DEF Kept
      <3> QED BY <2>3, <3>2, <3>3 DEF GrammarInv
    <2>4. CASE pc' = "rejected"
      <3>1. file' = file
        BY <1>3, <2>4, Cursor
      <3>2. LaidOut(file) => Wrong(n)
        BY <2>2, <2>4 DEF Kept
      <3> QED BY <2>1, <2>4, <3>1, <3>2 DEF GrammarInv
    <2>5. CASE pc' = "done"
      <3>1. file' = file /\ UNCHANGED rest
        BY <1>3, <2>5, Cursor
      <3>2. LaidOut(file) => Wrong(n) \/ (/\ n.at \in {"between", "over"} /\ n.block = block
                                          /\ n.tags = tags /\ n.loops = ToldLoops)
        BY <2>2, <2>5 DEF Kept
      <3>3. Parsed' = [block |-> block, tags |-> tags, loops |-> ToldLoops]
        BY <3>1 DEF Parsed, rest, ToldLoops, Told
      <3>4. Meant' = [block |-> n.block, tags |-> n.tags, loops |-> n.loops]
        BY <2>1, <3>1 DEF Meant
      <3>5. WellFormed(file)' <=> n.at \in {"between", "over"}
        BY <2>1, <3>1 DEF WellFormed
      <3>6. LaidOut(file) => Wrong(n) \/ (WellFormed(file)' /\ Parsed' = Meant')
        BY <3>2, <3>3, <3>4, <3>5
      <3> QED BY <2>1, <2>5, <3>1, <3>6 DEF GrammarInv
    <2> QED BY <2>3, <2>4, <2>5
  <1> QED BY <1>1, <1>2, <1>3

LEMMA GrammarGives ==
  ASSUME GrammarInv
  PROVE  ReadsWhatIsWritten /\ RejectsOnlyMalformed
  <1>1. RejectsOnlyMalformed
    BY DEF GrammarInv, RejectsOnlyMalformed, Wrong
  <1>2. ASSUME pc = "done", LaidOut(file), WellFormed(file) PROVE Parsed = Meant
    <2>1. ~Wrong(Meaning(file))
      BY <1>2 DEF WellFormed, Wrong
    <2> QED BY <1>2, <2>1 DEF GrammarInv
  <1> QED BY <1>1, <1>2 DEF ReadsWhatIsWritten

LEMMA CifInvGives ==
  ASSUME CifInv
  PROVE  CifTypeOK
  <1>1. Len(file) \in 1..(MaxLines + 1)
    <2> DEFINE size == Len(file)
    <2>1. size \in Nat \ {0} /\ size <= MaxLines + 1 /\ MaxLines \in Nat
      BY LineOfFile, CifAssumption DEF CifInv, FileOK
    <2> HIDE DEF size
    <2>2. size \in 1..(MaxLines + 1)
      BY <2>1
    <2> QED BY <2>2 DEF size
  <1>2. ASSUME NEW k \in DOMAIN loops
        PROVE  /\ loops[k].columns # << >> /\ Range(loops[k].columns) \subseteq Names
               /\ \A r \in DOMAIN loops[k].rows : Len(loops[k].rows[r]) = Len(loops[k].columns)
    <2>1. loops[k] \in Filled
      BY <1>2 DEF CifInv
    <2>2. loops[k].columns \in Seq(Names) /\ loops[k].columns # << >>
      BY <2>1 DEF Filled, RowsOK
    <2> QED BY <2>1, <2>2 DEF Filled, RowsOK, Range
  <1>3. pc \in {"top", "columns", "rows", "value", "text", "done", "rejected"}
    BY DEF CifInv, States
  <1> QED BY <1>1, <1>2, <1>3 DEF CifTypeOK, CifInv

(* The document parser keeps its state in shape: a row is as wide as the    *)
(* columns of its loop, an unfinished one is shorter, and the cursor does   *)
(* not pass the end of the file (parseCifDocument).                         *)
THEOREM CifTypeCorrect == Spec => []CifTypeOK
  <1>1. Init => CifInv
    BY CifInitInv
  <1>2. CifInv => CifTypeOK
    BY CifInvGives
  <1> QED BY <1>1, <1>2, CifInvInductive, PTL DEF Spec

LEMMA GrammarFollowed == Spec => []GrammarInv
  <1>1. Init => CifInv /\ GrammarInv
    BY CifInitInv, GrammarAtFirst
  <1>2. CifInv /\ GrammarInv /\ [Next]_vars => (CifInv /\ GrammarInv)'
    BY CifInvInductive, GrammarKept
  <1> QED BY <1>1, <1>2, PTL DEF Spec

(* For any lines and files of any length: a well-formed file laid out one   *)
(* construct a line is read as it stands, each value under its tag or in    *)
(* its row and column, however rows run over lines (parseCifDocument).      *)
THEOREM ParserFollowsGrammar == Spec => []ReadsWhatIsWritten
  <1>1. GrammarInv => ReadsWhatIsWritten
    BY GrammarGives
  <1> QED BY <1>1, GrammarFollowed, PTL

(* The parser throws only at a file that no continuation could mend: the    *)
(* errors of parseCifDocument are errors of the file.                       *)
THEOREM RejectedIsMalformed == Spec => []RejectsOnlyMalformed
  <1>1. GrammarInv => RejectsOnlyMalformed
    BY GrammarGives
  <1> QED BY <1>1, GrammarFollowed, PTL

-----------------------------------------------------------------------------
(* readCif from the document to atoms. *)

Stages == {"lattice", "symmetry", "site", "image", "done", "rejected"}

(* A row gives label, occupancy and charge of the atom, and its element.    *)
Describes(row, atom) ==
  LET truth == IF Field(AtomLoop, row, "type") \in DOMAIN ElementOf
               THEN ElementOf[row.type] ELSE ElementOf[row.label]
  IN /\ row.label = atom.sourceLabel
     /\ species[atom.species + 1] = truth /\ atom.mass = Mass[truth]
     /\ atom.occupancy = NumberOr(Field(AtomLoop, row, "occupancy"), 1)
     /\ atom.charge = NumberOr(Field(AtomLoop, row, "charge"), 0)

(* The inductive invariant: the element of the row being expanded is        *)
(* registered, a species has one number, and it keeps that number.          *)
StructureInv ==
  /\ doc \in Documents /\ stage \in Stages /\ site \in Nat \ {0}
  /\ species \in Seq(DOMAIN Mass) /\ IsInjective(species)
  /\ orbit \in Seq(Range(orbit)) /\ atoms \in Seq(Range(atoms))
  /\ stage = "image" =>
       /\ HasColumns(SiteColumns) # {} /\ site <= Len(AtomLoop.rows) /\ GoodRow(SiteRow)
       /\ \E k \in DOMAIN species : species[k] = RequireElement(SiteRow)
  /\ \A k \in DOMAIN atoms : atoms[k].species + 1 \in DOMAIN species
                             /\ atoms[k].species \in Nat
  /\ AtomsKeepTheirElement

-----------------------------------------------------------------------------
(* Sequences of anything. *)

LEMMA SequenceFacts ==
  ASSUME NEW s, s \in Seq(Range(s))
  PROVE  Len(s) \in Nat /\ DOMAIN s = 1..Len(s)
  OBVIOUS

LEMMA FunctionIsSequence ==
  ASSUME NEW n \in Nat, NEW f, f = [k \in 1..n |-> f[k]]
  PROVE  f \in Seq(Range(f)) /\ Len(f) = n
  <1>1. f \in [1..n -> Range(f)]
    BY DEF Range
  <1> QED BY <1>1

LEMMA OfItsRange ==
  ASSUME NEW S, NEW s \in Seq(S)
  PROVE  s \in Seq(Range(s))
  <1>1. s \in [1..Len(s) -> S] /\ Len(s) \in Nat
    OBVIOUS
  <1>2. s \in [1..Len(s) -> Range(s)]
    BY <1>1 DEF Range
  <1> QED BY <1>1, <1>2

LEMMA AppendFacts ==
  ASSUME NEW s, s \in Seq(Range(s)), NEW e
  PROVE  /\ Append(s, e) \in Seq(Range(Append(s, e)))
         /\ DOMAIN Append(s, e) = 1..(Len(s) + 1)
         /\ \A k \in DOMAIN s : k \in DOMAIN Append(s, e) /\ Append(s, e)[k] = s[k]
         /\ Append(s, e)[Len(s) + 1] = e
  <1> DEFINE S == Range(s) \cup {e}
             a == Append(s, e)
  <1>1. \A k \in 1..Len(s) : s[k] \in S
    BY DEF Range
  <1>2. s \in Seq(S) /\ e \in S
    BY <1>1
  <1> HIDE DEF S
  <1>3. /\ a \in Seq(S) /\ Len(a) = Len(s) + 1 /\ DOMAIN a = 1..(Len(s) + 1) /\ Len(s) \in Nat
        /\ \A k \in DOMAIN s : k \in DOMAIN a /\ a[k] = s[k]
        /\ a[Len(s) + 1] = e
    BY <1>2
  <1> HIDE DEF a
  <1>4. a \in Seq(Range(a))
    BY <1>3, OfItsRange
  <1> QED BY <1>3, <1>4 DEF a

LEMMA ConcatenationFacts ==
  ASSUME NEW s, s \in Seq(Range(s)), NEW t, t \in Seq(Range(t))
  PROVE  /\ s \o t \in Seq(Range(s \o t))
         /\ \A k \in DOMAIN (s \o t) :
              \/ k \in DOMAIN s /\ (s \o t)[k] = s[k]
              \/ \E i \in DOMAIN t : (s \o t)[k] = t[i]
  <1> DEFINE S == Range(s) \cup Range(t)
             c == s \o t
  <1>1. (\A k \in 1..Len(s) : s[k] \in S) /\ (\A k \in 1..Len(t) : t[k] \in S)
    BY DEF Range
  <1>2. s \in Seq(S) /\ t \in Seq(S)
    BY <1>1
  <1> HIDE DEF S
  <1>3. /\ c \in Seq(S) /\ Len(c) = Len(s) + Len(t) /\ DOMAIN c = 1..(Len(s) + Len(t))
        /\ Len(s) \in Nat /\ Len(t) \in Nat /\ DOMAIN s = 1..Len(s) /\ DOMAIN t = 1..Len(t)
        /\ \A k \in 1..(Len(s) + Len(t)) : c[k] = IF k <= Len(s) THEN s[k] ELSE t[k - Len(s)]
    BY <1>2
  <1> HIDE DEF c
  <1>4. c \in Seq(Range(c))
    BY <1>3, OfItsRange
  <1>5. ASSUME NEW k \in 1..(Len(s) + Len(t))
        PROVE  (k \in DOMAIN s /\ c[k] = s[k]) \/ (\E i \in DOMAIN t : c[k] = t[i])
    <2>1. CASE k <= Len(s)
      BY <1>3, <2>1
    <2>2. CASE ~(k <= Len(s))
      <3>1. k - Len(s) \in DOMAIN t /\ c[k] = t[k - Len(s)]
        BY <1>3, <2>2
      <3> QED BY <3>1
    <2> QED BY <2>1, <2>2
  <1> QED BY <1>3, <1>4, <1>5 DEF c

-----------------------------------------------------------------------------
(* The atom loop. *)

LEMMA LeastOfNaturals ==
  ASSUME NEW S \in SUBSET Nat, S # {}
  PROVE  \E m \in S : \A k \in S : m <= k
  <1> DEFINE Below == {ss \in Nat \X Nat : ss[1] < ss[2]}
  <1>1. IsWellFoundedOn(Below, Nat)
    BY NatLessThanWellFounded DEF OpToRel
  <1>2. PICK m \in S : \A k \in S : <<k, m>> \notin Below
    BY <1>1, WFMin
  <1>3. ASSUME NEW k \in S PROVE m <= k
    <2>1. <<k, m>> \in Nat \X Nat /\ <<k, m>>[1] = k /\ <<k, m>>[2] = m
      OBVIOUS
    <2> QED BY <1>2, <2>1
  <1> QED BY <1>3

(* The first loop with the columns is a loop of the document. *)
LEMMA AtomLoopFacts ==
  ASSUME doc \in Documents, HasColumns(SiteColumns) # {}
  PROVE  LoopOK(AtomLoop) /\ SiteColumns \subseteq AtomLoop.columns
         /\ AtomLoop.rows \in Seq(Range(AtomLoop.rows))
  <1>1. /\ doc.loops \in Seq(Range(doc.loops))
        /\ \A k \in DOMAIN doc.loops : LoopOK(doc.loops[k])
    BY StructureAssumption
  <1>2. HasColumns(SiteColumns) \subseteq Nat
    <2>1. HasColumns(SiteColumns) \subseteq DOMAIN doc.loops
      BY DEF HasColumns
    <2> QED BY <1>1, <2>1, SequenceFacts
  <1>3. \E k \in HasColumns(SiteColumns) : \A l \in HasColumns(SiteColumns) : k <= l
    BY <1>2, LeastOfNaturals
  <1>4. PICK k \in HasColumns(SiteColumns) : AtomLoop = doc.loops[k]
    BY <1>3 DEF AtomLoop, FirstLoop
  <1> QED BY <1>1, <1>4 DEF HasColumns, LoopOK

(* The row stays while document and site do. *)
LEMMA RowKept ==
  ASSUME doc' = doc, site' = site
  PROVE  /\ AtomLoop' = AtomLoop /\ SiteRow' = SiteRow
         /\ HasColumns(SiteColumns)' = HasColumns(SiteColumns)
         /\ (GoodRow(SiteRow))' = GoodRow(SiteRow)
         /\ (RequireElement(SiteRow))' = RequireElement(SiteRow)
  <1>1. AtomLoop' = AtomLoop /\ HasColumns(SiteColumns)' = HasColumns(SiteColumns)
    BY DEF AtomLoop, FirstLoop, HasColumns
  <1>2. SiteRow' = SiteRow
    BY <1>1 DEF SiteRow
  <1>3. (RequireElement(SiteRow))' = RequireElement(SiteRow)
    BY <1>1, <1>2 DEF RequireElement
  <1>4. (GoodRow(SiteRow))' = GoodRow(SiteRow)
    BY <1>2, <1>3 DEF GoodRow
  <1> QED BY <1>1, <1>2, <1>3, <1>4

(* A row that is accepted says which element its atoms are. *)
LEMMA ElementOfRow ==
  ASSUME NEW row, GoodRow(row)
  PROVE  RequireElement(row) = IF Field(AtomLoop, row, "type") \in DOMAIN ElementOf
                               THEN ElementOf[row.type] ELSE ElementOf[row.label]
  <1>1. RequireElement(row) # Absent /\ Absent \notin DOMAIN ElementOf
    BY StructureAssumption DEF GoodRow
  <1>2. CASE Field(AtomLoop, row, "type") \in DOMAIN ElementOf
    <2>1. Field(AtomLoop, row, "type") = row.type
      BY <1>1, <1>2 DEF Field
    <2> QED BY <1>1, <1>2, <2>1 DEF RequireElement
  <1>3. CASE Field(AtomLoop, row, "type") \notin DOMAIN ElementOf
    <2>1. row.label \in DOMAIN ElementOf
      BY <1>1, <1>3 DEF RequireElement
    <2> QED BY <1>3, <2>1 DEF RequireElement
  <1> QED BY <1>2, <1>3

-----------------------------------------------------------------------------
(* The steps. *)

LEMMA StructureInitInv ==
  ASSUME StructureInit
  PROVE  StructureInv
  BY DEF StructureInit, StructureInv, Stages, AtomsKeepTheirElement, IsInjective, Range

(* What is registered keeps its number; what is new gets the next. *)
LEMMA RegisteringKeeps ==
  ASSUME StructureInv, NEW e \in DOMAIN Mass,
         species' = IF Contains(species, e) THEN species ELSE Append(species, e)
  PROVE  /\ species' \in Seq(DOMAIN Mass) /\ IsInjective(species')
         /\ \A k \in DOMAIN species : k \in DOMAIN species' /\ species'[k] = species[k]
         /\ \E k \in DOMAIN species' : species'[k] = e
  <1>1. /\ species \in Seq(DOMAIN Mass) /\ Len(species) \in Nat /\ DOMAIN species = 1..Len(species)
        /\ \A a, b \in DOMAIN species : species[a] = species[b] => a = b
    BY DEF StructureInv, IsInjective
  <1>2. CASE Contains(species, e)
    <2>1. species' = species /\ \E k \in DOMAIN species : species[k] = e
      BY <1>1, <1>2 DEF Contains
    <2> QED BY <1>1, <2>1 DEF IsInjective
  <1>3. CASE ~Contains(species, e)
    <2>1. /\ species' \in Seq(DOMAIN Mass) /\ DOMAIN species' = 1..(Len(species) + 1)
          /\ \A k \in 1..Len(species) : species'[k] = species[k]
          /\ species'[Len(species) + 1] = e
      BY <1>1, <1>3
    <2>2. \A k \in 1..Len(species) : species[k] # e
      BY <1>3 DEF Contains
    <2>3. ASSUME NEW a \in DOMAIN species', NEW b \in DOMAIN species', species'[a] = species'[b]
          PROVE  a = b
      BY <1>1, <2>1, <2>2, <2>3
    <2> QED BY <1>1, <2>1, <2>3 DEF IsInjective
  <1> QED BY <1>2, <1>3

LEMMA StartSiteInv ==
  ASSUME StructureInv, StartSite
  PROVE  StructureInv'
  <1>1. CASE stage' \in {"rejected", "done"} /\ UNCHANGED <<doc, ops, site, op, orbit, species, atoms>>
    <2>1. AtomLoop' = AtomLoop
      BY <1>1 DEF AtomLoop, FirstLoop, HasColumns
    <2> QED BY <1>1, <2>1 DEF StructureInv, Stages, AtomsKeepTheirElement, Field
  <1>2. CASE /\ HasColumns(SiteColumns) # {} /\ site <= Len(AtomLoop.rows) /\ GoodRow(SiteRow)
             /\ species' = IF Contains(species, RequireElement(SiteRow)) THEN species
                           ELSE Append(species, RequireElement(SiteRow))
             /\ orbit' = << >> /\ stage' = "image" /\ UNCHANGED <<doc, ops, site, atoms>>
    <2>1. /\ species' \in Seq(DOMAIN Mass) /\ IsInjective(species')
          /\ \A k \in DOMAIN species : k \in DOMAIN species' /\ species'[k] = species[k]
          /\ \E k \in DOMAIN species' : species'[k] = RequireElement(SiteRow)
      BY <1>2, RegisteringKeeps DEF GoodRow
    <2>2. /\ AtomLoop' = AtomLoop /\ SiteRow' = SiteRow
          /\ HasColumns(SiteColumns)' = HasColumns(SiteColumns)
          /\ (GoodRow(SiteRow))' = GoodRow(SiteRow)
          /\ (RequireElement(SiteRow))' = RequireElement(SiteRow)
      BY <1>2, RowKept
    <2>3. ASSUME NEW k \in DOMAIN atoms
          PROVE  \E r \in DOMAIN AtomLoop.rows : Describes(AtomLoop.rows[r], atoms[k])'
      <3>1. PICK r \in DOMAIN AtomLoop.rows : Describes(AtomLoop.rows[r], atoms[k])
        BY DEF StructureInv, AtomsKeepTheirElement, Describes
      <3>2. atoms[k].species + 1 \in DOMAIN species /\ atoms' = atoms
        BY <1>2 DEF StructureInv
      <3>3. Describes(AtomLoop.rows[r], atoms[k])'
        BY <2>1, <2>2, <3>1, <3>2 DEF Describes, Field
      <3> QED BY <3>3
    <2>4. AtomsKeepTheirElement'
      BY <1>2, <2>2, <2>3 DEF AtomsKeepTheirElement, Describes
    <2>5. orbit' \in Seq(Range(orbit'))
      BY <1>2
    <2> QED BY <1>2, <2>1, <2>2, <2>4, <2>5 DEF StructureInv, Stages
  <1> QED BY <1>1, <1>2 DEF StartSite, RejectStructure

LEMMA ExpandInv ==
  ASSUME StructureInv, Expand
  PROVE  StructureInv'
  <1>1. /\ UNCHANGED <<doc, ops, site, species, atoms, stage>> /\ stage = "image"
        /\ orbit' = orbit \/ \E image : orbit' = Append(orbit, image)
    BY DEF Expand
  <1>2. orbit' \in Seq(Range(orbit'))
    <2>1. orbit \in Seq(Range(orbit))
      BY DEF StructureInv
    <2>2. \A image : Append(orbit, image) \in Seq(Range(Append(orbit, image)))
      BY <2>1, AppendFacts
    <2> QED BY <1>1, <2>1, <2>2
  <1>3. /\ AtomLoop' = AtomLoop /\ SiteRow' = SiteRow
        /\ HasColumns(SiteColumns)' = HasColumns(SiteColumns)
        /\ (GoodRow(SiteRow))' = GoodRow(SiteRow)
        /\ (RequireElement(SiteRow))' = RequireElement(SiteRow)
    BY <1>1, RowKept
  <1> QED BY <1>1, <1>2, <1>3 DEF StructureInv, AtomsKeepTheirElement

LEMMA PushAtomsInv ==
  ASSUME StructureInv, PushAtoms
  PROVE  StructureInv'
  <1> DEFINE new == [k \in DOMAIN orbit |-> Atom(orbit[k])]
             element == RequireElement(SiteRow)
  <1>1. /\ atoms' = atoms \o new /\ site' = site + 1 /\ stage' = "site" /\ stage = "image"
        /\ UNCHANGED <<doc, ops, op, orbit, species>>
    BY DEF PushAtoms
  <1>2. AtomLoop' = AtomLoop
    BY <1>1 DEF AtomLoop, FirstLoop, HasColumns
  <1>3. new \in Seq(Range(new)) /\ DOMAIN new = DOMAIN orbit
    <2>1. DOMAIN orbit = 1..Len(orbit) /\ Len(orbit) \in Nat
      BY SequenceFacts DEF StructureInv
    <2>2. new = [k \in 1..Len(orbit) |-> new[k]]
      BY <2>1
    <2> HIDE DEF new
    <2>3. new \in Seq(Range(new))
      BY <2>1, <2>2, FunctionIsSequence
    <2> QED BY <2>3 DEF new
  <1>4. site \in DOMAIN AtomLoop.rows
    BY <1>1, AtomLoopFacts, SequenceFacts DEF StructureInv
  <1>5. /\ SpeciesId(element) + 1 \in DOMAIN species /\ SpeciesId(element) \in Nat
        /\ species[SpeciesId(element) + 1] = element
    <2>1. PICK k \in DOMAIN species : SpeciesId(element) = k - 1 /\ species[k] = element
      BY <1>1 DEF StructureInv, SpeciesId
    <2>2. k \in Nat \ {0} /\ (k - 1) + 1 = k
      BY DEF StructureInv
    <2> QED BY <2>1, <2>2
  <1>6. ASSUME NEW k \in DOMAIN new
        PROVE  /\ new[k].species = SpeciesId(element)
               /\ Describes(AtomLoop.rows[site], new[k])
    <2>1. element = IF Field(AtomLoop, SiteRow, "type") \in DOMAIN ElementOf
                    THEN ElementOf[SiteRow.type] ELSE ElementOf[SiteRow.label]
      BY <1>1, ElementOfRow DEF StructureInv
    <2>2. new[k] = [position |-> orbit[k], mass |-> Mass[element],
                    charge |-> NumberOr(Field(AtomLoop, SiteRow, "charge"), 0),
                    species |-> SpeciesId(element),
                    occupancy |-> NumberOr(Field(AtomLoop, SiteRow, "occupancy"), 1),
                    sourceLabel |-> SiteRow.label]
      BY DEF Atom
    <2> HIDE DEF new, element
    <2>3. /\ new[k].mass = Mass[element] /\ new[k].species = SpeciesId(element)
          /\ new[k].charge = NumberOr(Field(AtomLoop, SiteRow, "charge"), 0)
          /\ new[k].occupancy = NumberOr(Field(AtomLoop, SiteRow, "occupancy"), 1)
          /\ new[k].sourceLabel = SiteRow.label
      BY <2>2
    <2> QED BY <1>5, <2>1, <2>3 DEF Describes, SiteRow
  <1> HIDE DEF new, element
  <1>7. /\ atoms' \in Seq(Range(atoms'))
        /\ \A k \in DOMAIN atoms' :
             (k \in DOMAIN atoms /\ atoms'[k] = atoms[k]) \/ (\E i \in DOMAIN new : atoms'[k] = new[i])
    BY <1>1, <1>3, ConcatenationFacts DEF StructureInv
  <1>8. ASSUME NEW k \in DOMAIN atoms'
        PROVE  /\ atoms'[k].species + 1 \in DOMAIN species /\ atoms'[k].species \in Nat
               /\ \E r \in DOMAIN AtomLoop.rows : Describes(AtomLoop.rows[r], atoms'[k])
    <2>1. CASE k \in DOMAIN atoms /\ atoms'[k] = atoms[k]
      BY <2>1, ZenonT(30) DEF StructureInv, AtomsKeepTheirElement, Describes
    <2>2. CASE \E i \in DOMAIN new : atoms'[k] = new[i]
      <3>1. PICK i \in DOMAIN new : atoms'[k] = new[i]
        BY <2>2
      <3>2. new[i].species = SpeciesId(element) /\ Describes(AtomLoop.rows[site], new[i])
        BY <1>6
      <3> QED BY <1>4, <1>5, <3>1, <3>2
    <2> QED BY <1>7, <2>1, <2>2
  <1>9. AtomsKeepTheirElement'
    BY <1>1, <1>2, <1>8 DEF AtomsKeepTheirElement, Describes
  <1> QED BY <1>1, <1>7, <1>8, <1>9 DEF StructureInv, Stages

LEMMA StructureInvInductive == StructureInv /\ [StructureNext]_structureVars => StructureInv'
  <1> SUFFICES ASSUME StructureInv, [StructureNext]_structureVars PROVE StructureInv'
    OBVIOUS
  <1>1. CASE /\ UNCHANGED <<doc, site, orbit, species, atoms>>
             /\ stage' \in Stages /\ (stage' = "image" => stage = "image")
    <2>1. /\ AtomLoop' = AtomLoop /\ SiteRow' = SiteRow
          /\ HasColumns(SiteColumns)' = HasColumns(SiteColumns)
          /\ (GoodRow(SiteRow))' = GoodRow(SiteRow)
          /\ (RequireElement(SiteRow))' = RequireElement(SiteRow)
      BY <1>1, RowKept
    <2> QED BY <1>1, <2>1 DEF StructureInv, AtomsKeepTheirElement
  <1>2. CASE BuildLattice \/ ReadSymmetryOperations \/ UNCHANGED structureVars
    <2>1. /\ UNCHANGED <<doc, site, orbit, species, atoms>>
          /\ stage' \in Stages /\ (stage' = "image" => stage = "image")
      BY <1>2 DEF BuildLattice, ReadSymmetryOperations, RejectStructure, structureVars, StructureInv,
                  Stages
    <2> QED BY <1>1, <2>1
  <1>3. CASE StartSite \/ Expand \/ PushAtoms
    BY <1>3, StartSiteInv, ExpandInv, PushAtomsInv
  <1> QED BY <1>2, <1>3 DEF StructureNext

LEMMA StructureInvHolds == StructureSpec => []StructureInv
  BY StructureInitInv, StructureInvInductive, PTL DEF StructureSpec

(* Whatever the rows, their order and the species before them, the element  *)
(* that readCif gives an atom is its own row's, and its occupancy, charge   *)
(* and label are that row's too.                                            *)
THEOREM ElementsAreKept == StructureSpec => []AtomsKeepTheirElement
  <1>1. StructureInv => AtomsKeepTheirElement
    BY DEF StructureInv
  <1> QED BY <1>1, StructureInvHolds, PTL

-----------------------------------------------------------------------------
(* Positions. *)

(* The terms of a component add up to a whole number.                       *)
LEMMA TotalIsWhole ==
  ASSUME NEW component \in Seq(Terms), NEW of, NEW unit \in Nat
  PROVE  Total(component, of, unit) \in Int
  <1> DEFINE n == Len(component)
             Part(t) == IF t.of = of THEN t.sign * ((unit * t.num) \div t.den) ELSE 0
             Made(f) == [k \in 0..n |-> IF k = 0 THEN 0
                                        ELSE LET t == component[k]
                                             IN f[k - 1] + IF t.of = of
                                                           THEN t.sign * ((unit * t.num) \div t.den)
                                                           ELSE 0]
             after == CHOOSE f : f = Made(f)
             v == [k \in 1..n |-> Part(component[k])]
  <1>1. n \in Nat /\ \A k \in 1..n : component[k] \in Terms
    OBVIOUS
  <1>2. ASSUME NEW t \in Terms PROVE Part(t) \in Int
    <2>1. t.sign \in Int /\ t.num \in Nat /\ t.den \in Nat \ {0}
      BY DEF Terms
    <2>2. PICK p : p = unit * t.num
      OBVIOUS
    <2>3. p \in Int
      BY <2>1, <2>2
    <2>4. PICK q : q = p \div t.den
      OBVIOUS
    <2>5. q \in Int
      BY <2>1, <2>3, <2>4
    <2>6. t.sign * q \in Int
      BY <2>1, <2>5
    <2>7. Part(t) = IF t.of = of THEN t.sign * q ELSE 0
      BY <2>2, <2>4
    <2> HIDE DEF Part
    <2> QED BY <2>6, <2>7
  <1>3. \A k \in 1..n : v[k] \in Int
    <2> HIDE DEF Part, n
    <2> QED BY <1>1, <1>2
  <1>4. \A f : Made(f) = [k \in 0..n |-> IF k = 0 THEN 0 ELSE f[k - 1] + v[k]]
    <2>1. ASSUME NEW f, NEW k \in 0..n, k # 0
          PROVE  (LET t == component[k]
                  IN f[k - 1] + IF t.of = of THEN t.sign * ((unit * t.num) \div t.den) ELSE 0)
                 = f[k - 1] + v[k]
      <3>1. k \in 1..n
        BY <1>1, <2>1
      <3>2. v[k] = Part(component[k])
        BY <3>1
      <3> HIDE DEF v
      <3> QED BY <3>2
    <2> HIDE DEF v, n
    <2> QED BY <2>1
  <1> HIDE DEF v, Part
  <1> DEFINE P == {i \in Nat : \E f : f[0] = 0 /\ \A k \in 1..i : f[k] = f[k - 1] + v[k]}
  <1>5. 0 \in P
    <2> DEFINE f == [k \in {0} |-> 0]
    <2>1. f[0] = 0 /\ \A k \in 1..0 : FALSE
      OBVIOUS
    <2> HIDE DEF f
    <2> QED BY <2>1
  <1>6. ASSUME NEW i \in 1..n, i - 1 \in P PROVE i \in P
    <2>1. PICK g : g[0] = 0 /\ \A k \in 1..(i - 1) : g[k] = g[k - 1] + v[k]
      BY <1>6
    <2> DEFINE f == [k \in 0..i |-> IF k = i THEN g[i - 1] + v[i] ELSE g[k]]
    <2>2. i \in Nat /\ 0 \in 0..i /\ i # 0
      BY <1>1
    <2>3. f[0] = 0
      BY <2>1, <2>2
    <2>4. ASSUME NEW k \in 1..i PROVE f[k] = f[k - 1] + v[k]
      <3>1. k \in 0..i /\ k - 1 \in 0..i /\ k - 1 # i
        BY <2>2
      <3>2. f[k - 1] = g[k - 1]
        BY <3>1
      <3>3. CASE k = i
        BY <3>1, <3>2, <3>3
      <3>4. CASE k # i
        <4>1. k \in 1..(i - 1)
          BY <2>2, <3>4
        <4>2. f[k] = g[k]
          BY <3>1, <3>4
        <4> QED BY <2>1, <3>2, <4>1, <4>2
      <3> QED BY <3>3, <3>4
    <2> HIDE DEF f
    <2> QED BY <2>2, <2>3, <2>4
  <1> HIDE DEF P
  <1>7. n \in P
    <2>1. \A k \in 0..n : k \in P
      BY <1>1, <1>5, <1>6, StepByStep
    <2> QED BY <1>1, <2>1
  <1>8. PICK g : g[0] = 0 /\ \A k \in 1..n : g[k] = g[k - 1] + v[k]
    BY <1>7 DEF P
  <1> DEFINE h == [k \in 0..n |-> g[k]]
             Rest(f) == [k \in 0..n |-> IF k = 0 THEN 0 ELSE f[k - 1] + v[k]]
  <1>9. h = Rest(h)
    <2>1. \A k \in 0..n : h[k] = IF k = 0 THEN 0 ELSE h[k - 1] + v[k]
      <3>1. ASSUME NEW k \in 0..n, k # 0 PROVE h[k] = h[k - 1] + v[k]
        <4>1. k \in 1..n /\ k - 1 \in 0..n
          BY <1>1, <3>1
        <4> QED BY <1>8, <4>1
      <3>2. h[0] = 0
        BY <1>1, <1>8
      <3> QED BY <3>1, <3>2
    <2>2. h = [k \in 0..n |-> h[k]]
      OBVIOUS
    <2> HIDE DEF h
    <2>3. [k \in 0..n |-> h[k]] = Rest(h)
      BY <2>1
    <2> QED BY <2>2, <2>3
  <1> HIDE DEF h
  <1>10. after = Made(after)
    <2>1. h = Made(h)
      <3>1. Made(h) = Rest(h)
        BY <1>4
      <3> HIDE DEF Made, Rest
      <3> QED BY <1>9, <3>1
    <2> HIDE DEF Made
    <2> QED BY <2>1
  <1>11. Total(component, of, unit) = after[n]
    BY DEF Total
  <1>12. after = Rest(after)
    <2>1. Made(after) = Rest(after)
      BY <1>4
    <2> HIDE DEF Made, Rest, after
    <2> QED BY <1>10, <2>1
  <1> HIDE DEF after
  <1>13. \A k \in 0..n : after[k] = IF k = 0 THEN 0 ELSE after[k - 1] + v[k]
    BY <1>12
  <1> HIDE DEF Rest
  <1> DEFINE W == {k \in Nat : after[k] \in Int}
  <1>14. 0 \in W
    BY <1>1, <1>13
  <1>15. ASSUME NEW k \in 1..n, k - 1 \in W PROVE k \in W
    <2>1. k \in 0..n /\ k # 0 /\ k \in Nat /\ v[k] \in Int /\ after[k - 1] \in Int
      BY <1>1, <1>3, <1>15
    <2>2. after[k] = after[k - 1] + v[k]
      BY <1>13, <2>1
    <2> QED BY <2>1, <2>2
  <1> HIDE DEF W
  <1>16. n \in W
    <2>1. \A k \in 0..n : k \in W
      BY <1>1, <1>14, <1>15, StepByStep
    <2> QED BY <1>1, <2>1
  <1> QED BY <1>11, <1>16 DEF W


LEMMA ImageInCell ==
  ASSUME NEW operation, \A k \in 1..3 : operation[k] \in Seq(Terms), NEW f, \A k \in 1..3 : f[k] \in Int
  PROVE  \A a \in 1..3 : WrapToUnitCell(Apply(operation, f))[a] \in 0..(Fine - 1)
  <1>1. Fine \in Nat \ {0}
    BY StructureAssumption
  <1>2. TAKE a \in 1..3
  <1>3. PICK x, y, z, s : /\ x = Coefficient(operation[a], "x") /\ y = Coefficient(operation[a], "y")
                          /\ z = Coefficient(operation[a], "z") /\ s = Shift(operation[a])
    OBVIOUS
  <1>4. x \in Int /\ y \in Int /\ z \in Int /\ s \in Int
    <2>1. operation[a] \in Seq(Terms) /\ Fine \in Nat /\ 1 \in Nat
      BY <1>1
    <2>2. \A of : Total(operation[a], of, 1) \in Int
      BY <2>1, TotalIsWhole
    <2>3. Total(operation[a], "1", Fine) \in Int
      BY <2>1, TotalIsWhole
    <2> QED BY <1>3, <2>2, <2>3 DEF Coefficient, Shift
  <1>5. PICK p, q, r : p = x * f[1] /\ q = y * f[2] /\ r = z * f[3]
    OBVIOUS
  <1>6. p \in Int /\ q \in Int /\ r \in Int
    BY <1>4, <1>5
  <1>7. PICK image : image = p + q + r + s
    OBVIOUS
  <1>8. image \in Int
    BY <1>4, <1>6, <1>7
  <1>9. WrapToUnitCell(Apply(operation, f))[a] = image % Fine
    BY <1>3, <1>5, <1>7 DEF WrapToUnitCell, Apply
  <1> QED BY <1>1, <1>8, <1>9

(* The operations are ones that parse, and each image is in the cell.       *)
CellInv ==
  /\ Len(ops) \in Nat /\ op \in Nat \ {0}
  /\ \A k \in 1..Len(ops), i \in 1..3 : ops[k][i] \in Seq(Terms)
  /\ \A k \in DOMAIN orbit, a \in 1..3 : orbit[k][a] \in 0..(Fine - 1)

LEMMA IdentityFacts ==
  Len(<<Identity>>) = 1 /\ \A k \in 1..1, i \in 1..3 : <<Identity>>[k][i] \in Seq(Terms)
  <1>1. ASSUME NEW i \in 1..3 PROVE Identity[i] \in Seq(Terms)
    <2>1. XYZ[i] \in Range(XYZ)
      BY DEF XYZ, Range
    <2>2. Term(XYZ[i]) \in Terms
      BY <2>1 DEF Term, Terms
    <2>3. Identity[i] = <<Term(XYZ[i])>>
      BY DEF Identity
    <2> QED BY <2>2, <2>3
  <1> QED BY <1>1

(* The operations of the file, once all of them parse.                      *)
LEMMA OperationsFacts ==
  ASSUME StructureInv, ReadSymmetryOperations, stage' = "site"
  PROVE  /\ Len(ops') \in Nat
         /\ \A k \in 1..Len(ops'), i \in 1..3 : ops'[k][i] \in Seq(Terms)
  <1> DEFINE found == {k \in 1..2 : HasColumns({SymmetryTags[k]}) # {}}
             name == SymmetryTags[CHOOSE k \in found : \A l \in found : k <= l]
             Texts(n) == [r \in DOMAIN FirstLoop({n}).rows |-> FirstLoop({n}).rows[r][n]]
  <1>1. /\ ops' = IF found = {} THEN <<Identity>> ELSE Texts(name)
        /\ \A k \in DOMAIN ops' : WellWritten(ops'[k])
    BY DEF ReadSymmetryOperations, RejectStructure
  <1>2. CASE found = {}
    BY <1>1, <1>2, IdentityFacts
  <1>3. CASE found # {}
    <2>1. PICK t \in found : name = SymmetryTags[t]
      <3>1. found \subseteq Nat
        OBVIOUS
      <3>2. \E k \in found : \A l \in found : k <= l
        <4> HIDE DEF found
        <4> QED BY <1>3, <3>1, LeastOfNaturals
      <3> QED BY <3>2
    <2>2. PICK n : n = name
      OBVIOUS
    <2>3. t \in 1..2 /\ n = SymmetryTags[t] /\ HasColumns({n}) # {} /\ ops' = Texts(n)
      <3>1. t \in 1..2 /\ n = SymmetryTags[t] /\ HasColumns({n}) # {}
        BY <2>1, <2>2
      <3>2. ops' = Texts(name)
        BY <1>1, <1>3
      <3> HIDE DEF name
      <3> QED BY <2>2, <3>1, <3>2
    <2> HIDE DEF found, name
    <2>4. PICK l : l = FirstLoop({n})
      OBVIOUS
    <2>5. LoopOK(l) /\ n \in l.columns
      <3>1. /\ doc.loops \in Seq(Range(doc.loops))
            /\ \A k \in DOMAIN doc.loops : LoopOK(doc.loops[k])
        BY StructureAssumption DEF StructureInv
      <3>2. HasColumns({n}) \subseteq Nat
        <4>1. HasColumns({n}) \subseteq DOMAIN doc.loops
          BY DEF HasColumns
        <4>2. DOMAIN doc.loops \subseteq Nat
          BY <3>1
        <4> QED BY <4>1, <4>2
      <3>3. \E k \in HasColumns({n}) : \A j \in HasColumns({n}) : k <= j
        BY <2>3, <3>2, LeastOfNaturals
      <3>4. PICK k \in HasColumns({n}) : l = doc.loops[k]
        BY <2>4, <3>3 DEF FirstLoop
      <3>5. k \in DOMAIN doc.loops /\ n \in doc.loops[k].columns
        BY DEF HasColumns
      <3> QED BY <3>1, <3>4, <3>5
    <2>6. PICK rows : rows = l.rows
      OBVIOUS
    <2>7. rows \in Seq(Range(rows)) /\ \A r \in DOMAIN rows : rows[r][n] \in Seq(Seq(Terms \cup {Garbage}))
      BY <2>3, <2>5, <2>6 DEF LoopOK
    <2>8. DOMAIN rows = 1..Len(rows) /\ Len(rows) \in Nat
      BY <2>7
    <2>9. ops' = [r \in 1..Len(rows) |-> rows[r][n]] /\ Len(ops') = Len(rows) /\ DOMAIN ops' = 1..Len(rows)
      <3>1. ops' = [r \in 1..Len(rows) |-> rows[r][n]]
        BY <2>3, <2>4, <2>6, <2>8
      <3> QED BY <2>8, <3>1
    <2>10. ASSUME NEW k \in 1..Len(ops'), NEW i \in 1..3 PROVE ops'[k][i] \in Seq(Terms)
      <3>1. ops'[k] \in Seq(Seq(Terms \cup {Garbage})) /\ WellWritten(ops'[k])
        BY <1>1, <2>7, <2>8, <2>9
      <3>2. PICK o : o = ops'[k]
        OBVIOUS
      <3>3. o \in Seq(Seq(Terms \cup {Garbage})) /\ Len(o) = 3 /\ ~Contains(o[i], Garbage)
        BY <3>1, <3>2 DEF WellWritten
      <3>4. PICK c : c = o[i]
        OBVIOUS
      <3> DEFINE S == Terms \cup {Garbage}
                 SS == Seq(S)
      <3>5. c \in SS
        <4>1. o \in Seq(SS)
          BY <3>3
        <4> HIDE DEF SS
        <4> QED BY <3>3, <3>4, <4>1
      <3>6. ~Contains(c, Garbage)
        BY <3>3, <3>4
      <3>7. Len(c) \in Nat /\ DOMAIN c = 1..Len(c) /\ \A j \in 1..Len(c) : c[j] \in S
        <4> HIDE DEF S
        <4> QED BY <3>5
      <3>8. c = [j \in 1..Len(c) |-> c[j]]
        <4> HIDE DEF S
        <4> QED BY <3>5
      <3>9. \A j \in 1..Len(c) : c[j] \in Terms
        BY <3>6, <3>7 DEF Contains
      <3>10. c \in Seq(Terms)
        BY <3>7, <3>8, <3>9
      <3> QED BY <3>2, <3>4, <3>10
    <2> QED BY <2>8, <2>9, <2>10
  <1> QED BY <1>2, <1>3

LEMMA ExpandInCell ==
  ASSUME StructureInv, CellInv, Expand
  PROVE  CellInv'
  <1> DEFINE f == [k \in 1..3 |-> Coarse * SiteRow[XYZ[k]]]
             image == WrapToUnitCell(Apply(ops[op], f))
  <1>1. /\ stage = "image" /\ op <= Len(ops) /\ op' = op + 1 /\ UNCHANGED ops
        /\ orbit' = orbit \/ orbit' = Append(orbit, image)
    BY DEF Expand
  <1>2. ASSUME NEW k \in 1..3 PROVE f[k] \in Int
    <2>1. /\ LoopOK(AtomLoop) /\ SiteColumns \subseteq AtomLoop.columns
          /\ site \in DOMAIN AtomLoop.rows /\ GoodRow(SiteRow)
      BY <1>1, AtomLoopFacts, SequenceFacts DEF StructureInv
    <2>2. XYZ[k] \in SiteColumns
      BY DEF XYZ, SiteColumns
    <2>3. SiteRow[XYZ[k]] \in Int \cup {Unknown, Garbage} /\ IsNumber(SiteRow[XYZ[k]])
      BY <2>1, <2>2 DEF LoopOK, GoodRow, SiteRow
    <2>4. PICK x : x = SiteRow[XYZ[k]]
      OBVIOUS
    <2>5. x \in Int
      BY <2>3, <2>4 DEF IsNumber
    <2>6. Coarse * x \in Int
      BY <2>5, StructureAssumption
    <2> QED BY <2>4, <2>6
  <1>3. \A a \in 1..3 : image[a] \in 0..(Fine - 1)
    <2>1. op \in 1..Len(ops)
      BY <1>1 DEF CellInv
    <2>2. \A i \in 1..3 : ops[op][i] \in Seq(Terms)
      BY <2>1 DEF CellInv
    <2> HIDE DEF f
    <2> QED BY <1>2, <2>2, ImageInCell
  <1> HIDE DEF image
  <1>4. \A k \in DOMAIN orbit', a \in 1..3 : orbit'[k][a] \in 0..(Fine - 1)
    <2>1. CASE orbit' = orbit
      BY <2>1 DEF CellInv
    <2>2. CASE orbit' = Append(orbit, image)
      <3>1. orbit \in Seq(Range(orbit)) /\ Len(orbit) \in Nat /\ DOMAIN orbit = 1..Len(orbit)
        BY SequenceFacts DEF StructureInv
      <3>2. /\ DOMAIN orbit' = 1..(Len(orbit) + 1) /\ orbit'[Len(orbit) + 1] = image
            /\ \A k \in DOMAIN orbit : orbit'[k] = orbit[k]
        BY <2>2, <3>1, AppendFacts
      <3>3. \A k \in DOMAIN orbit' : k \in DOMAIN orbit \/ k = Len(orbit) + 1
        BY <3>1, <3>2
      <3> QED BY <1>3, <3>2, <3>3 DEF CellInv
    <2> QED BY <1>1, <2>1, <2>2
  <1>5. op' \in Nat \ {0}
    BY <1>1 DEF CellInv
  <1> QED BY <1>1, <1>4, <1>5 DEF CellInv

LEMMA CellInvInductive ==
  StructureInv /\ CellInv /\ [StructureNext]_structureVars => CellInv'
  <1> SUFFICES ASSUME StructureInv, CellInv, [StructureNext]_structureVars PROVE CellInv'
    OBVIOUS
  <1>1. CASE UNCHANGED <<ops, op, orbit>>
    BY <1>1 DEF CellInv
  <1>2. CASE UNCHANGED ops /\ op' = 1 /\ orbit' = << >>
    BY <1>2 DEF CellInv
  <1>3. CASE ReadSymmetryOperations
    <2>1. UNCHANGED <<op, orbit>> /\ (stage' = "site" \/ UNCHANGED ops)
      BY <1>3 DEF ReadSymmetryOperations, RejectStructure
    <2>2. CASE stage' = "site"
      BY <1>3, <2>1, <2>2, OperationsFacts DEF CellInv
    <2> QED BY <1>1, <2>1, <2>2
  <1>4. CASE BuildLattice \/ PushAtoms \/ UNCHANGED structureVars
    <2>1. UNCHANGED <<ops, op, orbit>>
      BY <1>4 DEF BuildLattice, PushAtoms, RejectStructure, structureVars
    <2> QED BY <1>1, <2>1
  <1>5. CASE StartSite
    <2>1. UNCHANGED <<ops, op, orbit>> \/ (UNCHANGED ops /\ op' = 1 /\ orbit' = << >>)
      BY <1>5 DEF StartSite, RejectStructure
    <2> QED BY <1>1, <1>2, <2>1
  <1> QED BY <1>3, <1>4, <1>5, ExpandInCell DEF StructureNext

LEMMA StructureGives ==
  ASSUME StructureInv, CellInv
  PROVE  StructureTypeOK
  <1>1. ASSUME NEW k \in DOMAIN atoms PROVE atoms[k].species \in 0..(Len(species) - 1)
    <2>1. atoms[k].species + 1 \in 1..Len(species) /\ atoms[k].species \in Nat /\ Len(species) \in Nat
      BY DEF StructureInv
    <2> QED BY <2>1
  <1> QED BY <1>1 DEF StructureInv, CellInv, StructureTypeOK, Stages

LEMMA StructureKept ==
  /\ StructureInit => StructureInv /\ CellInv
  /\ StructureInv /\ CellInv /\ [StructureNext]_structureVars => (StructureInv /\ CellInv)'
  /\ StructureInv /\ CellInv => StructureTypeOK
  <1>1. StructureInit => StructureInv /\ CellInv
    BY StructureInitInv DEF StructureInit, CellInv
  <1> QED BY <1>1, StructureInvInductive, CellInvInductive, StructureGives

(* Every image of every site is put back into the cell, whatever the        *)
(* operations, and a species index is one of the table's (readCif).         *)
THEOREM StructureTypeCorrect == StructureSpec => []StructureTypeOK
  BY StructureKept, PTL DEF StructureSpec

-----------------------------------------------------------------------------
(* readCif, whichever half of it runs. *)

HalvesInv == CifInv /\ GrammarInv /\ StructureInv /\ CellInv

LEMMA HalvesKept ==
  /\ ReadCifInit => HalvesInv
  /\ HalvesInv /\ [ReadCifNext]_<<vars, structureVars, half>> => HalvesInv'
  <1>1. ReadCifInit => HalvesInv
    BY CifInitInv, GrammarAtFirst, StructureKept DEF ReadCifInit, HalvesInv
  <1>2. ASSUME HalvesInv, [ReadCifNext]_<<vars, structureVars, half>> PROVE HalvesInv'
    <2>1. [Next]_vars /\ [StructureNext]_structureVars
      BY <1>2 DEF ReadCifNext
    <2> QED BY <1>2, <2>1, CifInvInductive, GrammarKept, StructureKept DEF HalvesInv
  <1> QED BY <1>1, <1>2

(* Both halves of readCif keep their state in shape.                        *)
THEOREM ReadCifTypeCorrect == ReadCifSpec => []ReadCifTypeOK
  <1>1. HalvesInv => ReadCifTypeOK
    BY CifInvGives, StructureKept DEF HalvesInv, ReadCifTypeOK
  <1> QED BY <1>1, HalvesKept, PTL DEF ReadCifSpec
=============================================================================
