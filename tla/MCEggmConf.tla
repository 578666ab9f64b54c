----------------------------- MODULE MCEggmConf -----------------------------
(***************************************************************************)
(* Instances of EggmConf for TLC: three directories with up to two lists,  *)
(* one with three files in descending order; list names that the shell     *)
(* gives back, alters and cannot take; a week file with a day named twice, *)
(* a line for no day and a day that is missing.                            *)
(***************************************************************************)
EXTENDS EggmConf

File(f) == [num |-> f, mp3 |-> TRUE]
Other(f) == [num |-> f, mp3 |-> FALSE]
Dir(title, files) == [name |-> title, hidden |-> FALSE, files |-> files]
Hidden == [name |-> 9, hidden |-> TRUE, files |-> <<>>]

Album  == Dir(2, <<File(3), Other(4), File(2), File(1)>>)
Single == Dir(1, <<File(5)>>)
Odd    == Dir(3, <<File(7), File(6)>>)    \* two blanks in its name
Quote  == Dir(4, <<File(8)>>)             \* an apostrophe in its name

MCDirectories == {<<Hidden, Album, Single>>, <<Odd, Album>>, <<Quote, Hidden>>}
MCEchoed == [n \in {1, 2, 3, 4, 9} |-> CASE n = 3 -> "other" [] n = 4 -> "nothing" [] OTHER -> "same"]

At(h, m) == [hour |-> h, min |-> m]
Line(d, start, end) == [sch |-> TRUE, day |-> d, is_enable |-> TRUE, start |-> start, end |-> end]
Comment == [sch |-> FALSE, day |-> 0, is_enable |-> FALSE, start |-> At(0, 0), end |-> At(0, 0)]

MCSchConfs == {<<Line(0, At(5, 0), At(7, 0)), Comment, Line(7, At(1, 0), At(2, 0)),
                 Line(0, At(8, 0), At(17, 30))>>}
MCStacks == {[d \in WDay |-> [is_enable |-> TRUE, start |-> At(77, 7), end |-> At(0, 99)]]}
MCTails == {[p \in Parts |-> NoDigit], [p \in Parts |-> IF p = "end_hour" THEN 3 ELSE NoDigit]}

MCBudget(gets, sets, restarts) ==
  [k \in Disturbances |-> CASE k = "get"     -> gets
                            [] k = "set"     -> sets
                            [] k = "restart" -> restarts]
ConfBudgets == {MCBudget(1, 1, 1)}

=============================================================================
