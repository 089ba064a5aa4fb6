---------------------------- MODULE CifDocument ----------------------------
(***************************************************************************)
(* parseCifDocument (cif_document.cc): a CIF file read line by line into   *)
(* its tags and loops.  A line is the sequence of tokens tokenizeLine      *)
(* makes of it, so that a comment is a blank line; a line whose first      *)
(* token is ";" starts with a semicolon in its first column.               *)
(*                                                                         *)
(* CIF itself knows no lines outside a ";" text field: Meaning is its      *)
(* grammar, over the token stream and the text fields, a loop's among      *)
(* them.  The line by line parser is compared with it.                     *)
(***************************************************************************)
EXTENDS Integers, Sequences, SequencesExt, Functions

CONSTANTS
  Lines,        \* the lines explored
  Names,        \* tag names: tokens that start with an underscore
  Unfinished,   \* a token whose closing quote is missing
  EndOfFile, NoBlock,
  FieldText,    \* a text field as a loop's value, whatever it says
  MaxLines      \* lines of a file

Words == Names \cup {"loop_", "data_"}   \* the tokens that begin a construct
ASSUME CifAssumption ==
  /\ \A l \in Lines : l \in Seq(Range(l))
  /\ EndOfFile \notin Lines /\ NoBlock # "data_" /\ MaxLines \in Nat \ {0}
  /\ Names \cap {"loop_", "data_", ";"} = {} /\ Unfinished \notin Words \cup {";"}

VARIABLES
  file,      \* the lines read so far, the one under the cursor included
  block,     \* doc.blockName, NoBlock before the first data_ line
  tags,      \* doc.tags
  loops,     \* doc.loops
  loop,      \* the loop being read
  pending,   \* the tokens of an unfinished row
  tag,       \* the tag that waits for its value
  text,      \* the lines of an open text field
  pc

vars == <<file, block, tags, loops, loop, pending, tag, text, pc>>
rest == <<block, tags, loops, loop, pending, tag, text>>

NoLoop == [columns |-> << >>, rows |-> << >>]
Stored(table, name, value) == [n \in DOMAIN table \cup {name} |->
                                 IF n = name THEN value ELSE table[n]]
line == Last(file)
AtEnd == line = EndOfFile
Blank == ~AtEnd /\ line = << >>
StartsWith(words) == ~AtEnd /\ ~Blank /\ Head(line) \in words
Tokenizes == AtEnd \/ ~Contains(line, Unfinished)

(* Mutant: each line starts a row of its own. *)
DealtByLine(l, tokens) ==
  [rows |-> IF Len(tokens) = Len(l.columns) THEN Append(l.rows, tokens) ELSE l.rows,
   left |-> << >>]

(* Tokens are dealt into rows as wide as the loop; the last may be short. *)
Dealt(l, tokens) ==
  LET width == Len(l.columns)
      all == pending \o tokens
      full == Len(all) \div width
  IN [rows |-> l.rows \o [r \in 1..full |-> SubSeq(all, (r - 1) * width + 1, r * width)],
      left |-> SubSeq(all, full * width + 1, Len(all))]
(* Mutant: only a loop_ or data_ line ends the rows of a loop. *)
LooksLikeNewLoop == StartsWith({"loop_", "data_"})
LooksLikeNewConstruct == StartsWith(Words)
Init ==
  /\ file \in {<<l>> : l \in Lines}
  /\ block = NoBlock /\ tags = << >> /\ loops = << >>
  /\ loop = NoLoop /\ pending = << >> /\ tag = "" /\ text = << >>
  /\ pc = "top"

(* ++i: the file decides what comes next. *)
Advance ==
  \E l \in Lines \cup {EndOfFile} :
    /\ Len(file) >= MaxLines => l = EndOfFile
    /\ file' = Append(file, l)

Reject == pc' = "rejected" /\ UNCHANGED <<file, rest>>
Skip == Blank /\ Advance /\ UNCHANGED <<rest, pc>>

DataBlock ==
  /\ StartsWith({"data_"})
  /\ \/ block # NoBlock /\ pc' = "done" /\ UNCHANGED <<file, rest>>
     \/ block = NoBlock /\ ~Tokenizes /\ Reject
     \/ /\ block = NoBlock /\ Tokenizes
        /\ block' = Head(line) /\ Advance
        /\ UNCHANGED <<tags, loops, loop, pending, tag, text, pc>>

OpenLoop ==
  /\ StartsWith({"loop_"})
  /\ loop' = NoLoop /\ pc' = "columns" /\ Advance
  /\ UNCHANGED <<block, tags, loops, pending, tag, text>>

TagLine ==
  /\ StartsWith(Names)
  /\ \/ ~Tokenizes /\ Reject
     \/ /\ Tokenizes /\ Len(line) >= 2
        /\ tags' = Stored(tags, line[1], <<line[2]>>) /\ Advance
        /\ UNCHANGED <<block, loops, loop, pending, tag, text, pc>>
     \/ /\ Tokenizes /\ Len(line) = 1
        /\ tag' = line[1] /\ pc' = "value" /\ Advance
        /\ UNCHANGED <<block, tags, loops, loop, pending, text>>

Unrecognized == ~AtEnd /\ ~Blank /\ ~LooksLikeNewConstruct /\ Reject
EndFile ==
  /\ AtEnd
  /\ pc' = IF block = NoBlock THEN "rejected" ELSE "done"
  /\ UNCHANGED <<file, rest>>

Top == pc = "top" /\ (Skip \/ DataBlock \/ OpenLoop \/ TagLine \/ Unrecognized \/ EndFile)

Column ==
  /\ StartsWith(Names)
  /\ \/ ~Tokenizes /\ Reject
     \/ /\ Tokenizes
        /\ loop' = [loop EXCEPT !.columns = Append(@, Head(line))] /\ Advance
        /\ UNCHANGED <<block, tags, loops, pending, tag, text, pc>>

EndColumns ==
  /\ ~Blank /\ ~StartsWith(Names)
  /\ IF loop.columns = << >> THEN Reject ELSE pc' = "rows" /\ UNCHANGED <<file, rest>>

Columns == pc = "columns" /\ (Skip \/ Column \/ EndColumns)

EndRows == AtEnd \/ (pending = << >> /\ LooksLikeNewConstruct)
Row ==
  /\ ~Blank /\ ~EndRows
  /\ \/ ~Tokenizes /\ Reject
     \/ /\ Tokenizes
        /\ LET dealt == Dealt(loop, line)
           IN loop' = [loop EXCEPT !.rows = dealt.rows] /\ pending' = dealt.left
        /\ Advance
        /\ UNCHANGED <<block, tags, loops, tag, text, pc>>

(* Mutant: an unfinished row at the end of the file is forgotten. *)
CloseLoopShort ==
  /\ EndRows
  /\ loops' = Append(loops, loop) /\ pc' = "top"
  /\ UNCHANGED <<file, block, tags, loop, pending, tag, text>>
CloseLoop ==
  /\ EndRows
  /\ \/ pending # << >> /\ Reject
     \/ /\ pending = << >>
        /\ loops' = Append(loops, loop) /\ pc' = "top"
        /\ UNCHANGED <<file, block, tags, loop, pending, tag, text>>

Rows == pc = "rows" /\ (Skip \/ Row \/ CloseLoop)

Value ==
  /\ pc = "value"
  /\ \/ StartsWith({";"}) /\ text' = Tail(line) /\ pc' = "text" /\ Advance
        /\ UNCHANGED <<block, tags, loops, loop, pending, tag>>
     \/ ~StartsWith({";"}) /\ (AtEnd \/ Blank \/ ~Tokenizes) /\ Reject
     \/ /\ ~AtEnd /\ ~Blank /\ ~StartsWith({";"}) /\ Tokenizes
        /\ tags' = Stored(tags, tag, <<Head(line)>>) /\ pc' = "top" /\ Advance
        /\ UNCHANGED <<block, loops, loop, pending, tag, text>>

(* Mutant: a text field ends with the file, closed or not. *)
TextUnclosed ==
  /\ pc = "text"
  /\ \/ /\ AtEnd \/ StartsWith({";"})
        /\ tags' = Stored(tags, tag, text) /\ pc' = "top"
        /\ IF AtEnd THEN UNCHANGED file ELSE Advance
        /\ UNCHANGED <<block, loops, loop, pending, tag, text>>
     \/ /\ ~AtEnd /\ ~StartsWith({";"})
        /\ text' = text \o line /\ Advance
        /\ UNCHANGED <<block, tags, loops, loop, pending, tag, pc>>
Text ==
  /\ pc = "text"
  /\ \/ AtEnd /\ Reject
     \/ /\ StartsWith({";"})
        /\ tags' = Stored(tags, tag, text) /\ pc' = "top" /\ Advance
        /\ UNCHANGED <<block, loops, loop, pending, tag, text>>
     \/ /\ ~AtEnd /\ ~StartsWith({";"})
        /\ text' = text \o line /\ Advance
        /\ UNCHANGED <<block, tags, loops, loop, pending, tag, pc>>

Next == Top \/ Columns \/ Rows \/ Value \/ Text
Spec == Init /\ [][Next]_vars

-----------------------------------------------------------------------------
(* The grammar of the token stream.  Its states: between constructs, after *)
(* a tag, in the columns or the values of a loop, in a text field, past    *)
(* the first data block, and the two ways to be wrong.                     *)
Blank0 == [at |-> "between", block |-> NoBlock, tags |-> << >>, loops |-> << >>,
           tag |-> "", text |-> << >>]

LastLoop(m) == Last(m.loops)
Whole(m) == Len(LastLoop(m).values) % Len(LastLoop(m).columns) = 0
WithLast(m, l) == [m EXCEPT !.loops = Append(Front(@), l)]

(* What a word of the grammar, or the end, finds: a value may be due.       *)
Interrupted(m) ==
  IF m.at = "columns" /\ LastLoop(m).columns = << >> THEN "malformed"
  ELSE IF m.at \in {"tag", "columns"} \/ (m.at = "values" /\ ~Whole(m)) THEN "interrupted"
  ELSE "between"

(* Nothing comes before the first data_.                                   *)
Found(m, token) ==
  IF m.block = NoBlock /\ token # "data_" THEN "malformed" ELSE Interrupted(m)

Word(m, token) ==
  IF token \in Names /\ m.at = "columns"
  THEN WithLast(m, [LastLoop(m) EXCEPT !.columns = Append(@, token)])
  ELSE LET at == Found(m, token)
       IN IF at # "between" THEN [m EXCEPT !.at = at]
          ELSE IF token \in Names THEN [m EXCEPT !.at = "tag", !.tag = token]
          ELSE IF token = "loop_"
          THEN [m EXCEPT !.at = "columns",
                         !.loops = Append(@, [columns |-> << >>, values |-> << >>])]
          ELSE IF m.block = NoBlock THEN [m EXCEPT !.at = at, !.block = token]
          ELSE [m EXCEPT !.at = "over"]

Datum(m, token) ==
  CASE m.at = "tag" -> [m EXCEPT !.at = "between", !.tags = Stored(@, m.tag, <<token>>)]
    [] m.at = "values" \/ (m.at = "columns" /\ LastLoop(m).columns # << >>) ->
         WithLast([m EXCEPT !.at = "values"], [LastLoop(m) EXCEPT !.values = Append(@, token)])
    [] OTHER -> [m EXCEPT !.at = "malformed"]

Read(m, token) ==
  IF m.at \in {"over", "malformed", "interrupted"} THEN m
  ELSE IF token = Unfinished THEN [m EXCEPT !.at = "malformed"]
  ELSE IF token \in Words THEN Word(m, token)
  ELSE Datum(m, token)
ReadTokens(m, l) ==
  LET after[k \in 0..Len(l)] == IF k = 0 THEN m ELSE Read(after[k - 1], l[k])
  IN after[Len(l)]

(* A line that starts with ";" opens a text field where a value is due, and *)
(* closes the field that is open; what follows the closing one is read on. *)
InText(m) == m.at \in {"text", "loop text"}
InLoop(m) == m.at \in {"columns", "values"} /\ LastLoop(m).columns # << >>
OpenText(m, l) ==
  IF InLoop(m) THEN [m EXCEPT !.at = "loop text"]
  ELSE [m EXCEPT !.at = "text", !.text = Tail(l)]
CloseText(m) ==
  IF m.at = "text" THEN [m EXCEPT !.at = "between", !.tags = Stored(@, m.tag, m.text)]
  ELSE Datum([m EXCEPT !.at = "values"], FieldText)

ReadLine(m, l) ==
  IF l = EndOfFile
  THEN IF m.at \in {"over", "malformed", "interrupted"} THEN m
       ELSE [m EXCEPT !.at = IF InText(m) \/ m.block = NoBlock THEN "malformed"
                             ELSE Interrupted(m)]
  ELSE IF l # << >> /\ l[1] = ";" /\ InText(m) THEN ReadTokens(CloseText(m), Tail(l))
  ELSE IF InText(m) THEN [m EXCEPT !.text = @ \o l]
  ELSE IF l # << >> /\ l[1] = ";" /\ (m.at = "tag" \/ InLoop(m)) THEN OpenText(m, l)
  ELSE ReadTokens(m, l)

Meaning(lines) ==
  LET after[k \in 0..Len(lines)] ==
        IF k = 0 THEN Blank0 ELSE ReadLine(after[k - 1], lines[k])
  IN after[Len(lines)]
WellFormed(lines) == Meaning(lines).at \in {"between", "over"}

(* A loop as the grammar has it: its values in the order of the file.       *)
Told(l) ==
  LET width == Len(l.columns)
  IN [columns |-> l.columns,
      values |-> [i \in 1..(Len(l.rows) * width) |->
                    l.rows[(i - 1) \div width + 1][((i - 1) % width) + 1]]]
Parsed == [block |-> block, tags |-> tags, loops |-> [k \in DOMAIN loops |-> Told(loops[k])]]
Meant == [block |-> Meaning(file).block, tags |-> Meaning(file).tags,
          loops |-> Meaning(file).loops]

(* One construct a line: words of the grammar come first on their line, a  *)
(* column is alone on it, a value is not further than the next line, the   *)
(* semicolon that ends a text field is alone, and no loop has such a field *)
(* for a value.                                                            *)
OneConstruct(m, l) ==
  /\ \A t \in DOMAIN l : l[t] \in Words => t = 1
  /\ m.at = "columns" /\ Len(l) > 1 => l[1] \notin Names
  /\ m.at = "tag" => Len(l) >= 1
  /\ l # << >> /\ l[1] = ";" => ~InLoop(m) /\ (m.at = "text" => Len(l) = 1)
LaidOut(lines) ==
  \A k \in DOMAIN lines :
    lines[k] # EndOfFile => OneConstruct(Meaning(SubSeq(lines, 1, k - 1)), lines[k])

(* No line has words the line parser does not look at, and the data block  *)
(* comes first.                                                            *)
LooksAtAll(m, l) ==
  /\ m.block = NoBlock /\ l # << >> => l[1] = "data_"
  /\ l # << >> /\ l[1] \in {"loop_", "data_"} => Len(l) = 1
  /\ l # << >> /\ l[1] \in Names => Len(l) <= 2
  /\ m.at = "tag" /\ l # << >> /\ l[1] # ";" => Len(l) = 1
NothingIgnored(lines) ==
  \A k \in DOMAIN lines :
    lines[k] # EndOfFile => LooksAtAll(Meaning(SubSeq(lines, 1, k - 1)), lines[k])

-----------------------------------------------------------------------------
(* Every variable has its type: a row is as wide as its loop, an unfinished *)
(* one shorter.                                                            *)
CifTypeOK ==
  /\ Len(file) \in 1..(MaxLines + 1)
  /\ DOMAIN tags \subseteq Names
  /\ \A k \in DOMAIN loops :
       /\ loops[k].columns # << >> /\ Range(loops[k].columns) \subseteq Names
       /\ \A r \in DOMAIN loops[k].rows : Len(loops[k].rows[r]) = Len(loops[k].columns)
  /\ pending # << >> => pc \in {"rows", "rejected"} /\ Len(pending) < Len(loop.columns)
  /\ pc \in {"top", "columns", "rows", "value", "text", "done", "rejected"}

(* On a file that is laid out one construct a line, the parser and the     *)
(* grammar agree: what is well formed is read as it stands, each value     *)
(* under its tag or in its row and column, however rows run over lines...  *)
ReadsWhatIsWritten ==
  pc = "done" /\ LaidOut(file) /\ WellFormed(file) => Parsed = Meant

(* ... and a file is rejected only when no continuation could mend it.     *)
RejectsOnlyMalformed ==
  pc = "rejected" /\ LaidOut(file) => Meaning(file).at \in {"malformed", "interrupted"}

(* What is accepted is well formed, but for one thing: where a value is    *)
(* due and a word of the grammar comes instead, it is taken for the value  *)
(* of the tag or of the row, or the loop is left without any.              *)
AcceptsOnlyWellFormed ==
  pc = "done" /\ LaidOut(file) /\ NothingIgnored(file) =>
    Meaning(file).at \in {"between", "over", "interrupted"}

(* structure_io.hpp: never a silently wrong parse.  Where line breaks fall *)
(* says nothing in CIF.                                                    *)
NeverSilentlyWrong == pc = "done" /\ WellFormed(file) => Parsed = Meant
=============================================================================
