----------------------------- MODULE LoadLines -----------------------------
(***************************************************************************)
(* The reading of a log as a behaviour: lines as fortio prints them, which *)
(* may end anywhere, as a log that was cut short does, also inside a word, *)
(* and what the LoadTest controller takes from them.                       *)
(***************************************************************************)
EXTENDS LoadLog

CONSTANTS
  Words,    \* numbers, codes and whatever else means nothing to the reader
  Halves,   \* what may be left of a word: pairs of that and the word
  Outputs   \* what is printed: lists of lines

(* What fortio prints: a line per percentile and per code, the totals, the *)
(* rate and JSON; and what the server it calls may add at debug level.     *)
Target(p, v) == [sets |-> p, to |-> <<v>>, words |-> <<"#", "target", p, v>>]
Code(c, v)   == [sets |-> IF c \in Codes THEN c ELSE "none", to |-> <<v>>,
                 words |-> <<"Code", c, ":", v>>]
Total(v)     == [sets |-> "warmup)", to |-> <<v, "ms">>, words |-> <<"(plus", "warmup)", v, "ms">>]
Rate(w)      == [sets |-> "qps=", to |-> <<w>>, words |-> <<"calls.", w>>]

Braces   == {"{", "}"}
AnyText  == Seq(Words \cup Braces)
JsonText == {text \in AnyText : text # <<>> /\ text[1] = "{" /\ text[Len(text)] = "}"}
Line ==
  {Target(p, v) : p \in Percentiles, v \in Words}
    \cup {Code(c, v) : c \in Words \cup Codes, v \in Words}
    \cup {Total(v) : v \in Words}
    \cup {Rate(w) : w \in QpsWords}
    \cup [sets: {"json"}, to: {<<>>}, words: JsonText]
    \cup [sets: {"none"}, to: {<<>>}, words: AnyText]

Layout == Percentiles \cup Braces \cup {"#", "target", "Code", ":", "(plus", "warmup)", "ms", "calls."}

(* The words that mean something mean one thing.                           *)
ASSUME WordsAssumption ==
  /\ Words \cap (Percentiles \cup Braces \cup {"Code", "warmup)"}) = {}
  /\ QpsWords \cap (Words \cup Codes \cup Layout) = {}
ASSUME OutputsAssumption == Outputs \subseteq Seq(Line)

(* No half of a word is a brace, or has a "qps=" that the word has not.    *)
ASSUME HalvesAssumption == \A half \in Halves :
  /\ half[1] \notin Braces
  /\ half[1] \in QpsWords => half[2] \in QpsWords

(* Of the text there are the first words, and perhaps half of the next.    *)
VARIABLES lines, cut, rest, taken

TextUpTo(printed) ==
  LET upTo[i \in 0..Len(printed)] == IF i = 0 THEN <<>> ELSE upTo[i - 1] \o printed[i].words
  IN upTo
Text == TextUpTo(lines)[Len(lines)]
Log  == SubSeq(Text, 1, cut) \o rest

(* What may be left of the word behind the n-th one.                       *)
HalvesOf(word) == {<<half[1]>> : half \in {pair \in Halves : pair[2] = word}}
RestsAt(text, n) == {<<>>} \cup (IF n < Len(text) THEN HalvesOf(text[n + 1]) ELSE {})

Nothing == [panics |-> FALSE, fields |-> [field \in Fields |-> <<>>], slice |-> FALSE, json |-> <<>>]

Prints ==
  /\ lines \in Outputs
  /\ cut \in 0..Len(Text)
  /\ rest \in RestsAt(Text, cut)
  /\ taken = Nothing

Reads ==
  /\ taken = Nothing
  /\ taken' = [panics |-> ReadPanics(Log), fields |-> writeConditionsFromLogs(Log),
               slice |-> SlicePanics(Log), json |-> getJSONfromLog(Log)]
  /\ UNCHANGED <<lines, cut, rest>>

ReadSpec == Prints /\ [][Reads]_<<lines, cut, rest, taken>>

-----------------------------------------------------------------------------
WasRead == taken # Nothing

(* The lines that are in the log up to their last word, and those that     *)
(* lack but a piece of it: of a rate, "qps=" must be there.                *)
WholeLines == {i \in DOMAIN lines : Len(TextUpTo(lines)[i]) <= cut}
TornLines ==
  {i \in DOMAIN lines :
     /\ rest # <<>> /\ Len(TextUpTo(lines)[i]) = cut + 1
     /\ lines[i].sets = "qps=" => rest[1] \in QpsWords}

(* However short a log is cut, the controller panics or takes each number  *)
(* from the last line that has it, never from another line.  The number it *)
(* takes is whole but for one: where the log ends inside a number, what is *)
(* left of that is taken for it.                                           *)
NumbersOf(i) ==
  IF i \in WholeLines THEN lines[i].to
  ELSE [lines[i].to EXCEPT ![Len(lines[i].to)] = rest[1]]
NumbersInPlace ==
  WasRead /\ ~taken.panics =>
    \A field \in Fields :
      LET with == {i \in WholeLines \cup TornLines : lines[i].sets = field}
      IN taken.fields[field] = IF with = {} THEN <<>> ELSE NumbersOf(Max(with))

(* A log that is all there does not panic the parser.                      *)
WholeLogIsRead == WasRead /\ WholeLines = DOMAIN lines => ~taken.panics

(* As long as the only braces are those of the JSON, the slice between     *)
(* them is well formed wherever the log ends, and is the JSON, the whole   *)
(* of it, if that is all there.                                            *)
HasBraces(line) == \E i \in DOMAIN line.words : line.words[i] \in Braces
JsonIsTaken ==
  WasRead /\ (\A i \in DOMAIN lines : HasBraces(lines[i]) => lines[i].sets = "json") =>
    /\ ~taken.slice
    /\ \A i \in WholeLines :
         (\A j \in DOMAIN lines : lines[j].sets = "json" <=> j = i)
           => taken.json = lines[i].words
=============================================================================
