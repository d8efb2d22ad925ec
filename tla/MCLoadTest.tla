---------------------------- MODULE MCLoadTest ----------------------------
(* LoadTest for TLC: logs that can be read, that end within a line, and    *)
(* that have a brace too many in front.                                    *)
EXTENDS LoadTest, TLC

MCStatuses == {"", "Success", "Failure"}
Whole == <<"50%", "1", "{", "}">>
Short == <<"50%">>
Stray == <<"50%", "1", "}", "{">>
MCLogs == {Whole, Short, Stray}
MCNoLog == <<>>
Symmetry == Permutations(Keys)
=============================================================================
