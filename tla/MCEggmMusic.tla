---------------------------- MODULE MCEggmMusic ----------------------------
(***************************************************************************)
(* Instances of EggmMusic for TLC: two lists, of three files and of one    *)
(* (the index of the first can be past the end of the second by two, where *)
(* "before" leaves it past the end), and a choice of budgets for the       *)
(* disturbances.                                                           *)
(***************************************************************************)
EXTENDS EggmMusic

MCFileCount == [l \in Lists |-> IF l = 0 THEN 3 ELSE 1]

MCBudget(runs, skips, lists, faults) ==
  [k \in Disturbances |-> CASE k = "run"   -> runs
                            [] k = "skip"  -> skips
                            [] k = "list"  -> lists
                            [] k = "fault" -> faults]

\* The safety properties are checked with a skip and a change of list together,
\* the liveness properties with one or the other.
SafetyBudgets == {MCBudget(2, 1, 1, 0), MCBudget(2, 0, 1, 1)}
LiveBudgets   == {MCBudget(2, 1, 0, 0), MCBudget(2, 0, 1, 0), MCBudget(1, 1, 0, 1)}

=============================================================================
