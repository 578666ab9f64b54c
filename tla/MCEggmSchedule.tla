--------------------------- MODULE MCEggmSchedule ---------------------------
(***************************************************************************)
(* Instances of EggmSchedule for TLC: a week of two days of two or three   *)
(* hours of two minutes, and a budget for each kind of disturbance.        *)
(***************************************************************************)
EXTENDS EggmSchedule

At(h, m) == [hour |-> h, min |-> m]
Day(enable, start, end) ==
  [is_enable |-> enable,
   at |-> [s \in Sides |-> IF s = "start" THEN start ELSE end]]

MCBudget(pads, powers, skips, jumps) ==
  [k \in Disturbances |-> CASE k = "pad"   -> pads
                            [] k = "power" -> powers
                            [] k = "skip"  -> skips
                            [] k = "jump"  -> jumps]

\* Day 0 runs from 0:00 to 1:00, day 1 (disabled) from 0:01 to 1:01.
MCWeeks ==
  {[d \in WDay |-> IF d = 0 THEN Day(1, At(0, 0), At(1, 0))
                            ELSE Day(0, At(0, 1), At(1, 1))]}

\* The second is an hour past midnight.
MCPadTimes == {At(0, 1), At(HOURS, 0)}

\* A time that can be reached, and one that cannot.
MCGarbage == {Day(0, At(1, 1), At(0, 0)), Day(0, At(5 * HOURS, 0), At(HOURS, 1))}

Disturbed  == {MCBudget(2, 1, 0, 0), MCBudget(1, 1, 1, 1), MCBudget(2, 0, 0, 1)}
JumpOnly   == {MCBudget(0, 0, 0, 1)}
Undisturbed == {MCBudget(0, 0, 0, 0)}

=============================================================================
