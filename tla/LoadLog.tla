------------------------------ MODULE LoadLog ------------------------------
(***************************************************************************)
(* What the LoadTest controller reads out of the log of a load: the        *)
(* numbers behind certain keywords, and the JSON between braces.  A log is *)
(* its words, as strings.Fields splits them; braces are words of their own *)
(* (fortio writes them so at both ends of its JSON).  What the code does   *)
(* where a log ends too early is to panic.                                 *)
(***************************************************************************)
EXTENDS Naturals, Sequences, FiniteSetsExt

CONSTANT QpsWords    \* the words that contain "qps="

Percentiles == {"50%", "75%", "90%", "99%", "99.9%"}
Codes == {"200", "500"}

(* Condition: Target50 to Target999, RespTime, Codes200 and 500, QPS.      *)
Fields == Percentiles \cup {"warmup)"} \cup Codes \cup {"qps="}

(* How many of the words behind the i-th one are read with it.             *)
OneWordMore(log, i) ==         \* mutant: the count of another fortio
  IF log[i] \in Percentiles THEN 1
  ELSE IF log[i] = "warmup)" THEN 3
  ELSE IF log[i] # "Code" THEN 0
  ELSE IF i < Len(log) /\ log[i + 1] \in Codes THEN 4 ELSE 1
WordsRead(log, i) ==
  IF log[i] \in Percentiles THEN 1
  ELSE IF log[i] = "warmup)" THEN 2
  ELSE IF log[i] # "Code" THEN 0
  ELSE IF i < Len(log) /\ log[i + 1] \in Codes THEN 3 ELSE 1

NeverPanics(log) == FALSE      \* mutant: an index that is checked
ReadPanics(log) == \E i \in DOMAIN log : i + WordsRead(log, i) > Len(log)

Word(log, i) == IF i \in DOMAIN log THEN log[i] ELSE ""
Sets(log, i, field) ==
  \/ field = log[i] /\ field \in Percentiles \cup {"warmup)"}
  \/ field = Word(log, i + 1) /\ log[i] = "Code" /\ field \in Codes
  \/ field = "qps=" /\ log[i] \in QpsWords
Value(log, i, field) ==
  IF field \in Percentiles THEN <<Word(log, i + 1)>>
  ELSE IF field = "warmup)" THEN <<Word(log, i + 1), Word(log, i + 2)>>
  ELSE IF field \in Codes   THEN <<Word(log, i + 3)>>
  ELSE <<log[i]>>

(* The last word that sets a field wins; one that is not set stays empty.  *)
(* Of a word with the rate its first four letters are cut off: each such   *)
(* word stands for the rate that is left.                                  *)
writeConditionsFromLogs(log) ==
  [field \in Fields |->
    LET at == {i \in DOMAIN log : Sets(log, i, field)}
    IN IF at = {} THEN <<>> ELSE Value(log, Max(at), field)]

(* From the first { to the last }, or an error text instead.               *)
Opening(log) == {i \in DOMAIN log : log[i] = "{"}
Closing(log) == {i \in DOMAIN log : log[i] = "}"}
JsonError == <<"error">>

ToFirstClosing(log) ==         \* mutant: Index for LastIndex
  IF Opening(log) = {} \/ Closing(log) = {}
  THEN JsonError
  ELSE SubSeq(log, Min(Opening(log)), Min(Closing(log)))
getJSONfromLog(log) ==
  IF Opening(log) = {} \/ Closing(log) = {}
  THEN JsonError
  ELSE SubSeq(log, Min(Opening(log)), Max(Closing(log)))

SlicePanics(log) ==
  /\ Opening(log) # {} /\ Closing(log) # {}
  /\ Max(Closing(log)) < Min(Opening(log))
=============================================================================
