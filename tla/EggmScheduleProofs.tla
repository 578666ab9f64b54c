------------------------- MODULE EggmScheduleProofs -------------------------
(***************************************************************************)
(* Proofs about EggmSchedule, for clocks of every size, every weekly       *)
(* table, every time the pad may send and every budget of disturbances:    *)
(* types, that power is switched by the schedule in force, and that an     *)
(* override is used once.                                                  *)
(***************************************************************************)
EXTENDS EggmSchedule, TLAPS

(***************************************************************************)
(* The inductive invariant.  Acting is the part of the loop that follows   *)
(* the view of the schedule; there the view is of today, or a change of    *)
(* day is postponed.                                                       *)
(***************************************************************************)
Acting == {"updating", "power", "set power", "set music", "flag", "clear", "fetch", "store"}

DayInv ==
  /\ pc = "flags" => cur_sch_day # tm_now.wday
  /\ pc \in {"roll start", "roll end"} =>
       postponed /\ cur_sch_day # tm_now.wday /\ ~NoOverride
  /\ pc \in {"newday", "refresh"} => cur_sch_day = tm_now.wday
  /\ pc = "newday" => cur_sch = g_eggm_week_schedule[cur_sch_day]
  /\ pc \in Acting => cur_sch_day = tm_now.wday \/ postponed
  /\ pc = "conf" => ~Viewed

ViewInv ==
  /\ pc \in {"updating", "power", "set power"} =>
       \/ cur_sch_day = tm_now.wday /\ (padSince \/ cur_sch = g_eggm_cur_schedule)
       \/ cur_sch_day # tm_now.wday /\ ~NoOverride
  /\ pc = "set power" => IsNow(cur_sch.at[side])

UpdInv ==
  pc = "store" /\ ~postponed =>
    \A s \in Sides : s = side \/ g_is_static_sch_run[s] = 0 =>
      upd.at[s] = g_eggm_week_schedule[cur_sch_day].at[s]

IInv == TypeOK /\ DayInv /\ ViewInv /\ OverrideUsedOnce /\ UpdInv

-----------------------------------------------------------------------------
(***************************************************************************)
(* Overriding a time of a schedule leaves a schedule, with the other time  *)
(* as it was.                                                              *)
(***************************************************************************)
LEMMA ScheduleUpdate ==
  ASSUME NEW c \in Schedule, NEW s \in Sides, NEW t \in Time
  PROVE  /\ c.at[s] \in Time
         /\ [c EXCEPT !.at[s] = t] \in Schedule
         /\ [c EXCEPT !.is_enable = 1, !.at[s] = t] \in Schedule
         /\ [c EXCEPT !.at[s] = t].at[s] = t
         /\ [c EXCEPT !.is_enable = 1, !.at[s] = t].at[s] = t
         /\ \A r \in Sides \ {s} : /\ [c EXCEPT !.at[s] = t].at[r] = c.at[r]
                                   /\ [c EXCEPT !.is_enable = 1, !.at[s] = t].at[r] = c.at[r]
<1>1. c.at \in [Sides -> Time]
  BY DEF Schedule
<1>2. [c.at EXCEPT ![s] = t] \in [Sides -> Time]
  BY <1>1
<1>3. /\ [c EXCEPT !.at[s] = t] = [c EXCEPT !.at = [c.at EXCEPT ![s] = t]]
      /\ [c EXCEPT !.is_enable = 1, !.at[s] = t]
           = [c EXCEPT !.is_enable = 1, !.at = [c.at EXCEPT ![s] = t]]
  BY DEF Schedule
<1> QED
  BY <1>1, <1>2, <1>3 DEF Schedule, Bit

(***************************************************************************)
(* The hour of a rolled-over time is again a natural number.               *)
(***************************************************************************)
LEMMA RollType ==
  ASSUME NEW s \in Sides, cur_sch \in Schedule, g_eggm_cur_schedule \in Schedule, Roll(s)
  PROVE  cur_sch' \in Schedule /\ g_eggm_cur_schedule' \in Schedule
<1>1. CASE cur_sch.at[s].hour >= HOURS
  <2>1. cur_sch.at[s] \in Time
    BY DEF Schedule
  <2>2. Rolled(cur_sch.at[s]) \in Time
    BY <1>1, <2>1, ClockAssumption DEF Rolled, Time
  <2>3. cur_sch' = [cur_sch EXCEPT !.at[s] = Rolled(cur_sch.at[s])]
    BY <1>1, <2>1 DEF Roll, Schedule
  <2>4. cur_sch' \in Schedule
    BY <2>2, <2>3, ScheduleUpdate
  <2> QED
    BY <1>1, <2>4 DEF Roll, set_cur_schedule
<1>2. CASE ~(cur_sch.at[s].hour >= HOURS)
  BY <1>2 DEF Roll
<1> QED
  BY <1>1, <1>2

(***************************************************************************)
(* The next minute is a time of the clock, across midnight too.            *)
(***************************************************************************)
LEMMA NextMinuteType ==
  ASSUME clock \in Clock
  PROVE  NextMinute \in Clock
<1> USE ClockAssumption DEF Clock, WDay
<1>1. CASE clock.min < MINS - 1
  BY <1>1 DEF NextMinute
<1>2. CASE ~(clock.min < MINS - 1) /\ clock.hour < HOURS - 1
  <2>1. NextMinute = [clock EXCEPT !.min = 0, !.hour = clock.hour + 1]
    BY <1>2 DEF NextMinute
  <2>2. clock.hour + 1 \in 0..(HOURS - 1) /\ 0 \in 0..(MINS - 1)
    BY <1>2
  <2> QED
    BY <2>1, <2>2
<1>3. CASE ~(clock.min < MINS - 1) /\ ~(clock.hour < HOURS - 1)
  <2>1. (clock.wday + 1) % DAYS \in 0..(DAYS - 1)
    OBVIOUS
  <2> QED
    BY <1>3, <2>1 DEF NextMinute
<1> QED
  BY <1>1, <1>2, <1>3

(***************************************************************************)
(* Spending from the budget leaves a budget.                               *)
(***************************************************************************)
LEMMA SpendType ==
  ASSUME NEW kind \in Disturbances, budget \in [Disturbances -> Nat], Spend(kind)
  PROVE  budget' \in [Disturbances -> Nat]
  BY DEF Spend

-----------------------------------------------------------------------------
LEMMA InitTypeOK == Init => TypeOK
<1> SUFFICES ASSUME Init PROVE TypeOK
  OBVIOUS
<1>1. Zero \in Schedule
  BY DEF Zero, ZeroTime, Schedule, Time, Bit
<1>2. [wday |-> 0, hour |-> 0, min |-> 0] \in Clock
  BY ClockAssumption DEF Clock, WDay
<1>3. /\ g_eggm_week_schedule \in [WDay -> Schedule]
      /\ g_is_static_sch_run \in [Sides -> Bit]
  BY <1>1 DEF Init, Bit
<1>4. last_update_hour \in 0..(HOURS - 1)
  BY ClockAssumption DEF Init
<1>5. uncorrected \in 0..Late
  BY DEF Init, Late
<1> QED
  BY <1>1, <1>2, <1>3, <1>4, <1>5, GarbageAssumption, BudgetsAssumption
     DEF Init, TypeOK, Sides, Bit, Steps

\* What ThenUpdateTime leaves behind is typed.
LEMMA ThenUpdateTimeType ==
  ASSUME TypeOK, ThenUpdateTime
  PROVE  pc' \in {"updating", "power"} /\ last_update_hour' \in 0..(HOURS - 1)
  BY DEF ThenUpdateTime, TypeOK, Clock

LEMMA CountHourType ==
  ASSUME TypeOK, CountHour
  PROVE  uncorrected' \in 0..Late
  BY DEF CountHour, TypeOK, Late

LEMMA NextTypeOK ==
  ASSUME TypeOK, [Next]_vars
  PROVE  TypeOK'
<1> USE DEF TypeOK, sharedVars, outputVars, clockVars, localVars, history
<1>1. CASE LoadConf
  BY <1>1, WeeksAssumption DEF LoadConf, Steps
<1>2. CASE get_cur_time
  BY <1>2 DEF get_cur_time, Steps
<1>3. CASE CheckFlags
  <2>1. tm_now.wday \in WDay
    BY DEF Clock
  <2>2. cur_sch' \in Schedule /\ cur_sch_day' \in WDay \cup {-1}
        /\ pc' \in Steps /\ postponed' \in BOOLEAN
    BY <1>3, <2>1 DEF CheckFlags, Steps
  <2> QED
    BY <1>3, <2>2 DEF CheckFlags
<1>4. CASE SetNewDay
  BY <1>4, ThenUpdateTimeType DEF SetNewDay, set_cur_schedule, Steps
<1>5. CASE RollStart
  BY <1>5, RollType DEF RollStart, Sides, Steps
<1>6. CASE RollEnd
  BY <1>6, RollType, ThenUpdateTimeType DEF RollEnd, Sides, Steps
<1>7. CASE get_cur_schedule
  BY <1>7, ThenUpdateTimeType DEF get_cur_schedule, Steps
<1>8. CASE update_time
  BY <1>8 DEF update_time, Steps, Late
<1>9. CASE get_pw_data
  BY <1>9 DEF get_pw_data, DueSide, Sides, Steps
<1>10. CASE set_pw_auto_state
  BY <1>10 DEF set_pw_auto_state, Level, Bit, Steps
<1>11. CASE set_music_run_state
  BY <1>11 DEF set_music_run_state, Level, Bit, Steps
<1>12. CASE get_is_static_cur_schedule
  BY <1>12 DEF get_is_static_cur_schedule, Steps
<1>13. CASE clear_static_cur_schedule
  BY <1>13 DEF clear_static_cur_schedule, Bit, Steps
<1>14. CASE UpdateCurSchFetch
  <2>1. g_eggm_week_schedule[tm_now.wday].at[side] \in Time
    BY DEF Clock, Schedule
  <2> QED
    BY <1>14, <2>1, ScheduleUpdate DEF UpdateCurSchFetch, Steps
<1>15. CASE UpdateCurSchStore
  BY <1>15 DEF UpdateCurSchStore, set_cur_schedule, Steps
<1>16. CASE update_time_jump
  <2>1. budget' \in [Disturbances -> Nat]
    BY <1>16, SpendType DEF update_time_jump, Disturbances
  <2>2. uncorrected' \in 0..Late
    BY <1>16 DEF update_time_jump, Late
  <2> QED
    BY <1>16, <2>1, <2>2 DEF update_time_jump, Steps
<1>17. ASSUME NEW s \in Sides, NEW t \in PadTimes, eggm_pad_set_cur_sch(s, t)
       PROVE  TypeOK'
  <2>1. budget' \in [Disturbances -> Nat]
    BY <1>17, SpendType DEF eggm_pad_set_cur_sch, Disturbances
  <2>2. g_eggm_cur_schedule' \in Schedule
    BY <1>17, ScheduleUpdate, PadTimesAssumption DEF eggm_pad_set_cur_sch
  <2> QED
    BY <1>17, <2>1, <2>2 DEF eggm_pad_set_cur_sch, Bit
<1>18. CASE SwitchPower \/ SwitchMusic
  <2>1. budget' \in [Disturbances -> Nat]
    BY <1>18, SpendType DEF SwitchPower, SwitchMusic, Disturbances
  <2> QED
    BY <1>18, <2>1 DEF SwitchPower, SwitchMusic, Bit
<1>19. CASE Tick
  BY <1>19, NextMinuteType, CountHourType DEF Tick
<1>20. CASE SkipMinute
  <2>1. budget' \in [Disturbances -> Nat]
    BY <1>20, SpendType DEF SkipMinute, Disturbances
  <2> QED
    BY <1>20, <2>1, NextMinuteType, CountHourType DEF SkipMinute
<1>21. CASE UNCHANGED vars
  BY <1>21 DEF vars
<1> QED
  BY <1>1, <1>2, <1>3, <1>4, <1>5, <1>6, <1>7, <1>8, <1>9, <1>10, <1>11, <1>12,
     <1>13, <1>14, <1>15, <1>16, <1>17, <1>18, <1>19, <1>20, <1>21
     DEF Next, schedule_mgr_task

(***************************************************************************)
(* Every reachable state is well typed; in particular no hour becomes      *)
(* negative by being rolled over.                                          *)
(***************************************************************************)
THEOREM TypeCorrect == Spec => []TypeOK
  BY InitTypeOK, NextTypeOK, PTL DEF Spec

-----------------------------------------------------------------------------
(***************************************************************************)
(* A raised flag is an override.                                           *)
(***************************************************************************)
LEMMA RaisedFlag ==
  ASSUME NEW flags, NEW s \in Sides, flags[s] = 1
  PROVE  ~ \A r \in Sides : flags[r] = 0
<1>1. flags[s] # 0
  OBVIOUS
<1> QED
  BY <1>1

(***************************************************************************)
(* The steps of the other threads and of the clock leave the loop's place, *)
(* its own variables and the weekly table alone, and lower no flag.        *)
(***************************************************************************)
LEMMA OthersStep ==
  ASSUME TypeOK,
         \/ \E s \in Sides, t \in PadTimes : eggm_pad_set_cur_sch(s, t)
         \/ SwitchPower \/ SwitchMusic \/ Tick \/ SkipMinute
         \/ UNCHANGED vars
  PROVE  /\ UNCHANGED <<g_eggm_week_schedule, pc, localVars, postponed>>
         /\ \/ UNCHANGED <<sharedVars, padSince>>
            \/ \E s \in Sides, t \in PadTimes : eggm_pad_set_cur_sch(s, t)
         /\ ~NoOverride => ~NoOverride'
<1>1. ASSUME NEW s \in Sides, NEW t \in PadTimes, eggm_pad_set_cur_sch(s, t)
      PROVE  UNCHANGED <<g_eggm_week_schedule, pc, localVars, postponed>> /\ ~NoOverride'
  <2>1. g_is_static_sch_run'[s] = 1
    BY <1>1 DEF eggm_pad_set_cur_sch, TypeOK
  <2>2. ~NoOverride'
    BY <2>1, RaisedFlag DEF NoOverride
  <2> QED
    BY <1>1, <2>2 DEF eggm_pad_set_cur_sch
<1>2. CASE SwitchPower \/ SwitchMusic \/ Tick \/ SkipMinute \/ UNCHANGED vars
  BY <1>2 DEF SwitchPower, SwitchMusic, Tick, SkipMinute, vars, history, sharedVars,
              NoOverride
<1> QED
  BY <1>1, <1>2

LEMMA NextDayInv ==
  ASSUME TypeOK, DayInv, [Next]_vars
  PROVE  DayInv'
<1> USE DEF DayInv, Acting, Viewed, sharedVars, localVars, history
<1>1. CASE LoadConf
  BY <1>1 DEF LoadConf
<1>2. CASE get_cur_time
  BY <1>2 DEF get_cur_time
<1>3. CASE CheckFlags
  <2>1. CASE pc' = "newday"
    BY <1>3, <2>1 DEF CheckFlags
  <2>2. CASE pc' = "roll start"
    <3>1. PICK s \in Sides : g_is_static_sch_run[s] = 1
      BY <1>3, <2>2 DEF CheckFlags
    <3>2. g_is_static_sch_run'[s] = 1
      BY <1>3, <3>1 DEF CheckFlags
    <3>3. ~NoOverride'
      BY <3>2, RaisedFlag DEF NoOverride
    <3> QED
      BY <1>3, <2>2, <3>3 DEF CheckFlags
  <2> QED
    BY <1>3, <2>1, <2>2 DEF CheckFlags
<1>4. CASE SetNewDay \/ get_cur_schedule
  BY <1>4 DEF SetNewDay, get_cur_schedule, ThenUpdateTime
<1>5. CASE RollStart \/ RollEnd
  BY <1>5 DEF RollStart, RollEnd, ThenUpdateTime, NoOverride
<1>6. CASE update_time \/ update_time_jump
  BY <1>6 DEF update_time, update_time_jump
<1>7. CASE get_pw_data \/ set_pw_auto_state \/ set_music_run_state
  BY <1>7 DEF get_pw_data, set_pw_auto_state, set_music_run_state
<1>8. CASE get_is_static_cur_schedule \/ clear_static_cur_schedule
  BY <1>8 DEF get_is_static_cur_schedule, clear_static_cur_schedule
<1>9. CASE UpdateCurSchFetch \/ UpdateCurSchStore
  BY <1>9 DEF UpdateCurSchFetch, UpdateCurSchStore
<1>10. CASE \/ \E s \in Sides, t \in PadTimes : eggm_pad_set_cur_sch(s, t)
            \/ SwitchPower \/ SwitchMusic \/ Tick \/ SkipMinute
            \/ UNCHANGED vars
  BY <1>10, OthersStep
<1> QED
  BY <1>1, <1>2, <1>3, <1>4, <1>5, <1>6, <1>7, <1>8, <1>9, <1>10
     DEF Next, schedule_mgr_task

LEMMA NextViewInv ==
  ASSUME TypeOK, DayInv, ViewInv, [Next]_vars
  PROVE  ViewInv'
<1> USE DEF ViewInv, sharedVars, localVars, history
<1>1. CASE LoadConf \/ get_cur_time \/ CheckFlags \/ RollStart
  BY <1>1 DEF LoadConf, get_cur_time, CheckFlags, RollStart
<1>2. CASE SetNewDay \/ get_cur_schedule
  BY <1>2 DEF SetNewDay, get_cur_schedule, set_cur_schedule, ThenUpdateTime, DayInv
<1>3. CASE RollEnd
  BY <1>3 DEF RollEnd, ThenUpdateTime, DayInv, NoOverride
<1>4. CASE update_time \/ update_time_jump
  BY <1>4 DEF update_time, update_time_jump, NoOverride
<1>5. CASE get_pw_data
  <2>1. pc' = "set power" => IsNow(cur_sch.at[side])'
    BY <1>5 DEF get_pw_data, IsNow
  <2> QED
    BY <1>5, <2>1 DEF get_pw_data, NoOverride
<1>6. CASE \/ set_pw_auto_state \/ set_music_run_state \/ get_is_static_cur_schedule
           \/ clear_static_cur_schedule \/ UpdateCurSchFetch \/ UpdateCurSchStore
  BY <1>6 DEF set_pw_auto_state, set_music_run_state, get_is_static_cur_schedule,
              clear_static_cur_schedule, UpdateCurSchFetch, UpdateCurSchStore
<1>7. CASE \/ \E s \in Sides, t \in PadTimes : eggm_pad_set_cur_sch(s, t)
           \/ SwitchPower \/ SwitchMusic \/ Tick \/ SkipMinute
           \/ UNCHANGED vars
  <2>1. UNCHANGED <<sharedVars, padSince>> \/ padSince'
    BY <1>7, OthersStep DEF eggm_pad_set_cur_sch
  <2> QED
    BY <1>7, <2>1, OthersStep DEF IsNow
<1> QED
  BY <1>1, <1>2, <1>3, <1>4, <1>5, <1>6, <1>7 DEF Next, schedule_mgr_task

(***************************************************************************)
(* The pad's step raises the flag of the side it writes and leaves the     *)
(* other side alone.                                                       *)
(***************************************************************************)
LEMMA PadStep ==
  ASSUME TypeOK, NEW s \in Sides, NEW t \in PadTimes, eggm_pad_set_cur_sch(s, t)
  PROVE  \A r \in Sides : g_is_static_sch_run'[r] = 0 =>
           /\ g_is_static_sch_run[r] = 0
           /\ g_eggm_cur_schedule'.at[r] = g_eggm_cur_schedule.at[r]
<1>1. g_is_static_sch_run'[s] = 1
  BY DEF eggm_pad_set_cur_sch, TypeOK
<1>2. \A r \in Sides \ {s} : /\ g_is_static_sch_run'[r] = g_is_static_sch_run[r]
                             /\ g_eggm_cur_schedule'.at[r] = g_eggm_cur_schedule.at[r]
  <2>1. g_eggm_cur_schedule \in Schedule /\ t \in Time
    BY PadTimesAssumption DEF TypeOK
  <2>2. \A r \in Sides \ {s} :
          [g_eggm_cur_schedule EXCEPT !.is_enable = 1, !.at[s] = t].at[r]
            = g_eggm_cur_schedule.at[r]
    BY <2>1, ScheduleUpdate
  <2> QED
    BY <2>2 DEF eggm_pad_set_cur_sch, TypeOK
<1> QED
  BY <1>1, <1>2

LEMMA NextOverride ==
  ASSUME TypeOK, DayInv, OverrideUsedOnce, UpdInv, [Next]_vars
  PROVE  OverrideUsedOnce' /\ UpdInv'
<1> USE DEF OverrideUsedOnce, UpdInv, Viewed, Updating, sharedVars, localVars, history
<1>1. CASE LoadConf
  BY <1>1 DEF LoadConf, DayInv
<1>2. CASE get_cur_time
  BY <1>2 DEF get_cur_time
<1>3. CASE CheckFlags
  BY <1>3 DEF CheckFlags
<1>4. CASE SetNewDay
  BY <1>4 DEF SetNewDay, set_cur_schedule, ThenUpdateTime, DayInv
<1>5. CASE RollStart \/ RollEnd
  BY <1>5 DEF RollStart, RollEnd, ThenUpdateTime, DayInv
<1>6. CASE get_cur_schedule \/ update_time \/ update_time_jump
  BY <1>6 DEF get_cur_schedule, ThenUpdateTime, update_time, update_time_jump
<1>7. CASE get_pw_data \/ set_pw_auto_state \/ set_music_run_state
  BY <1>7 DEF get_pw_data, set_pw_auto_state, set_music_run_state
<1>8. CASE get_is_static_cur_schedule
  BY <1>8 DEF get_is_static_cur_schedule
<1>9. CASE clear_static_cur_schedule
  BY <1>9 DEF clear_static_cur_schedule, TypeOK
<1>10. CASE UpdateCurSchFetch
  <2>1. g_eggm_week_schedule[tm_now.wday].at[side] \in Time
    BY DEF TypeOK, Clock, Schedule
  <2>2. /\ upd'.at[side] = g_eggm_week_schedule[tm_now.wday].at[side]
        /\ \A s \in Sides \ {side} : upd'.at[s] = g_eggm_cur_schedule.at[s]
    <3> DEFINE t == g_eggm_week_schedule[tm_now.wday].at[side]
    <3>1. g_eggm_cur_schedule \in Schedule /\ side \in Sides
      BY DEF TypeOK
    <3>2. /\ [g_eggm_cur_schedule EXCEPT !.at[side] = t].at[side] = t
          /\ \A s \in Sides \ {side} :
               [g_eggm_cur_schedule EXCEPT !.at[side] = t].at[s] = g_eggm_cur_schedule.at[s]
      BY <2>1, <3>1, ScheduleUpdate
    <3> QED
      BY <1>10, <3>2 DEF UpdateCurSchFetch
  <2>3. ~postponed => cur_sch_day = tm_now.wday /\ cur_sch_day # -1
    BY <1>10 DEF UpdateCurSchFetch, DayInv, Acting, TypeOK, Clock, WDay
  <2> QED
    BY <1>10, <2>2, <2>3 DEF UpdateCurSchFetch
<1>11. CASE UpdateCurSchStore
  BY <1>11 DEF UpdateCurSchStore, set_cur_schedule
<1>12. ASSUME NEW s \in Sides, NEW t \in PadTimes, eggm_pad_set_cur_sch(s, t)
       PROVE  OverrideUsedOnce' /\ UpdInv'
  BY <1>12, PadStep DEF eggm_pad_set_cur_sch
<1>13. CASE SwitchPower \/ SwitchMusic \/ Tick \/ SkipMinute \/ UNCHANGED vars
  BY <1>13 DEF SwitchPower, SwitchMusic, Tick, SkipMinute, vars
<1> QED
  BY <1>1, <1>2, <1>3, <1>4, <1>5, <1>6, <1>7, <1>8, <1>9, <1>10, <1>11, <1>12, <1>13
     DEF Next, schedule_mgr_task

LEMMA InitIInv == Init => IInv
  BY InitTypeOK DEF Init, IInv, DayInv, ViewInv, OverrideUsedOnce, UpdInv, Viewed, Acting

LEMMA NextIInv ==
  ASSUME IInv, [Next]_vars
  PROVE  IInv'
  BY NextTypeOK, NextDayInv, NextViewInv, NextOverride DEF IInv

(***************************************************************************)
(* A current view and a match in it are a match in the shared schedule.    *)
(***************************************************************************)
LEMMA ViewSuffices == IInv => ActsOnScheduleInForce
  BY DEF IInv, ViewInv, ActsOnScheduleInForce

(***************************************************************************)
(* Power is switched by the schedule in force, except in a round the pad   *)
(* interfered with and while a change of day is postponed.                 *)
(***************************************************************************)
THEOREM SwitchesBySchedule == Spec => []ActsOnScheduleInForce
<1>1. Init => IInv
  BY InitIInv
<1>2. IInv /\ [Next]_vars => IInv'
  BY NextIInv
<1> QED
  BY <1>1, <1>2, ViewSuffices, PTL DEF Spec

(***************************************************************************)
(* Where no change of day is postponed, a time without a raised flag is    *)
(* the weekly one: no override outlives its use, and none is undone by     *)
(* halves.                                                                 *)
(***************************************************************************)
THEOREM OverridesAreUsedOnce == Spec => []OverrideUsedOnce
<1>1. Init => IInv
  BY InitIInv
<1>2. IInv /\ [Next]_vars => IInv'
  BY NextIInv
<1>3. IInv => OverrideUsedOnce
  BY DEF IInv
<1> QED
  BY <1>1, <1>2, <1>3, PTL DEF Spec

=============================================================================
