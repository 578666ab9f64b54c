---------------------------- MODULE EggmSchedule ----------------------------
(***************************************************************************)
(* The scheduler of eggm (eggm_schedule.c).  schedule_mgr_task reads the   *)
(* clock every half second, keeps the schedule in force up to date         *)
(* (g_eggm_cur_schedule, shared with the pad thread under schedule_mutex), *)
(* has the clock corrected once an hour and switches power and music at    *)
(* the start and end times.  The pad thread overrides the start or the end *)
(* time of the day and raises a flag, which postpones the change of day    *)
(* until the overridden time has come.                                     *)
(*                                                                         *)
(* The two times of a schedule, and the twin functions for them, are one   *)
(* function and one action over Sides.  Every lock..unlock section is a    *)
(* step; so is the unlocked test of the two flags (reading them one by one *)
(* gives the same outcomes, since only this thread lowers them).           *)
(***************************************************************************)
EXTENDS Integers

CONSTANTS
  DAYS, HOURS, MINS,  (* 7, 24 and 60 in the code                           *)
  Weeks,              (* the tables .eggm.sch.conf may hold                 *)
  PadTimes,           (* the times the pad may ask for                      *)
  Garbage,            (* what the loop's uninitialised cur_sch may hold     *)
  Budgets             (* how often each disturbance may still happen: a     *)
                      (* choice of combinations                             *)

Bit == {0, 1}
Sides == {"start", "end"}
Level(side) == IF side = "start" THEN 1 ELSE 0

WDay == 0..(DAYS - 1)
Time == [hour : Nat, min : Nat]
Schedule == [is_enable : Bit, at : [Sides -> Time]]
Clock == [wday : WDay, hour : 0..(HOURS - 1), min : 0..(MINS - 1)]

(***************************************************************************)
(* "pad": an override.  "power": power or music switched by somebody else. *)
(* "skip": a minute that passes while update_time() runs.  "jump": a clock *)
(* correction that moves the clock.                                        *)
(***************************************************************************)
Disturbances == {"pad", "power", "skip", "jump"}

ASSUME ClockAssumption == DAYS \in Nat \ {0} /\ HOURS \in Nat \ {0} /\ MINS \in Nat \ {0}
ASSUME WeeksAssumption == Weeks \subseteq [WDay -> Schedule]
ASSUME PadTimesAssumption == PadTimes \subseteq Time
ASSUME GarbageAssumption == Garbage \subseteq Schedule
ASSUME BudgetsAssumption == Budgets \subseteq [Disturbances -> Nat]

VARIABLES
  g_eggm_week_schedule,
  g_eggm_cur_schedule,
  g_is_static_sch_run,  (* the two override flags                           *)
  state_auto,           (* the commanded power state, of eggm_pw.c          *)
  run_state,            (* whether music should play, of eggm_music.c       *)
  clock,
  pc, tm_now, cur_sch, cur_sch_day, last_update_hour,
  side, upd,            (* the side being switched; update_cur_*_sch's copy *)
  budget,
  sampled,              (* has the task seen the present minute?            *)
  padSince, postponed,  (* history: has the pad stored since this round of  *)
                        (* the loop began; has a change of day been         *)
                        (* postponed since the last one that was made       *)
  uncorrected           (* history: hours that have begun since             *)
                        (* update_time() last returned; Late is Late or more *)

sharedVars == <<g_eggm_cur_schedule, g_is_static_sch_run>>
outputVars == <<state_auto, run_state>>
clockVars  == <<clock, sampled>>
localVars  == <<tm_now, cur_sch, cur_sch_day, last_update_hour, side, upd>>
history    == <<padSince, postponed, uncorrected>>
vars == <<g_eggm_week_schedule, sharedVars, outputVars, clockVars, pc, localVars,
          budget, history>>

Steps == {"conf", "time", "flags", "newday", "roll start", "roll end", "refresh",
          "updating", "power", "set power", "set music", "flag", "clear",
          "fetch", "store"}

\* The bound of uncorrected: a whole hour has passed, from its beginning on.
Late == 2

TypeOK ==
  /\ g_eggm_week_schedule \in [WDay -> Schedule]
  /\ g_eggm_cur_schedule \in Schedule
  /\ g_is_static_sch_run \in [Sides -> Bit]
  /\ state_auto \in Bit /\ run_state \in Bit
  /\ clock \in Clock /\ sampled \in BOOLEAN
  /\ pc \in Steps
  /\ tm_now \in Clock /\ cur_sch \in Schedule
  /\ cur_sch_day \in WDay \cup {-1}
  /\ last_update_hour \in 0..(HOURS - 1)
  /\ side \in Sides /\ upd \in Schedule
  /\ budget \in [Disturbances -> Nat]
  /\ padSince \in BOOLEAN /\ postponed \in BOOLEAN /\ uncorrected \in 0..Late

ZeroTime == [hour |-> 0, min |-> 0]
Zero == [is_enable |-> 0, at |-> [s \in Sides |-> ZeroTime]]

Init ==
  /\ g_eggm_week_schedule = [d \in WDay |-> Zero]
  /\ g_eggm_cur_schedule = Zero
  /\ g_is_static_sch_run = [s \in Sides |-> 0]
  /\ state_auto = 0 /\ run_state \in Bit
  /\ clock \in Clock /\ sampled = FALSE
  /\ pc = "conf"
  /\ tm_now = [wday |-> 0, hour |-> 0, min |-> 0]
  /\ cur_sch \in Garbage /\ cur_sch_day = -1
  /\ last_update_hour = 0
  /\ side = "start" /\ upd = Zero
  /\ budget \in Budgets
  /\ padSince = FALSE /\ postponed = FALSE /\ uncorrected = 0

Spend(kind) ==
  /\ budget[kind] > 0
  /\ budget' = [budget EXCEPT ![kind] = @ - 1]

(***************************************************************************)
(* schedule_mgr_task: start-up and the view of the schedule in force.      *)
(***************************************************************************)
LoadConf ==
  /\ pc = "conf"
  /\ g_eggm_week_schedule' \in Weeks
  /\ pc' = "time"
  /\ UNCHANGED <<sharedVars, outputVars, clockVars, localVars, budget, history>>

get_cur_time ==
  /\ pc = "time"
  /\ tm_now' = clock /\ sampled' = TRUE
  /\ pc' = IF cur_sch_day # clock.wday THEN "flags" ELSE "refresh"
  /\ padSince' = FALSE
  /\ UNCHANGED <<g_eggm_week_schedule, sharedVars, outputVars, clock, cur_sch,
                 cur_sch_day, last_update_hour, side, upd, budget, postponed, uncorrected>>

\* A new day: is an override still pending?
CheckFlags ==
  /\ pc = "flags"
  /\ \/ /\ \A s \in Sides : g_is_static_sch_run[s] = 0
        /\ cur_sch' = g_eggm_week_schedule[tm_now.wday]
        /\ cur_sch_day' = tm_now.wday
        /\ postponed' = FALSE
        /\ pc' = "newday"
     \/ /\ \E s \in Sides : g_is_static_sch_run[s] = 1
        /\ postponed' = TRUE
        /\ pc' = "roll start"
        /\ UNCHANGED <<cur_sch, cur_sch_day>>
  /\ UNCHANGED <<g_eggm_week_schedule, sharedVars, outputVars, clockVars, tm_now,
                 last_update_hour, side, upd, budget, padSince, uncorrected>>

\* Seeded fault: midnight is forgotten.
LaterHour == tm_now.hour > last_update_hour

\* What update_time() depends on: a later hour than last time, or midnight.
UpdateDue ==
  \/ tm_now.hour > last_update_hour
  \/ tm_now.hour = 0 /\ last_update_hour = HOURS - 1

ThenUpdateTime ==
  IF UpdateDue
  THEN pc' = "updating" /\ last_update_hour' = tm_now.hour
  ELSE pc' = "power" /\ UNCHANGED last_update_hour

set_cur_schedule(sch) == g_eggm_cur_schedule' = sch

SetNewDay ==
  /\ pc = "newday"
  /\ set_cur_schedule(cur_sch)
  /\ ThenUpdateTime
  /\ UNCHANGED <<g_eggm_week_schedule, g_is_static_sch_run, outputVars, clockVars,
                 tm_now, cur_sch, cur_sch_day, side, upd, budget, history>>

\* A pending override of an hour past midnight has reached its day.
Rolled(t) == [t EXCEPT !.hour = @ - HOURS]

\* Seeded faults: the hour is rolled over whatever it is, or never.
RollAlways(s) ==
  /\ cur_sch' = [cur_sch EXCEPT !.at[s] = Rolled(@)]
  /\ set_cur_schedule(cur_sch')
RollNever(s) == UNCHANGED <<cur_sch, g_eggm_cur_schedule>>

Roll(s) ==
  IF cur_sch.at[s].hour >= HOURS
  THEN /\ cur_sch' = [cur_sch EXCEPT !.at[s] = Rolled(@)]
       /\ set_cur_schedule(cur_sch')
  ELSE UNCHANGED <<cur_sch, g_eggm_cur_schedule>>

RollStart ==
  /\ pc = "roll start"
  /\ Roll("start")
  /\ pc' = "roll end"
  /\ UNCHANGED <<g_eggm_week_schedule, g_is_static_sch_run, outputVars, clockVars,
                 tm_now, cur_sch_day, last_update_hour, side, upd, budget, history>>

RollEnd ==
  /\ pc = "roll end"
  /\ Roll("end")
  /\ ThenUpdateTime
  /\ UNCHANGED <<g_eggm_week_schedule, g_is_static_sch_run, outputVars, clockVars,
                 tm_now, cur_sch_day, side, upd, budget, history>>

\* Seeded fault: the view is not refreshed within the day.
ViewKept ==
  /\ pc = "refresh"
  /\ UNCHANGED cur_sch
  /\ ThenUpdateTime
  /\ UNCHANGED <<g_eggm_week_schedule, sharedVars, outputVars, clockVars, tm_now,
                 cur_sch_day, side, upd, budget, history>>

get_cur_schedule ==
  /\ pc = "refresh"
  /\ cur_sch' = g_eggm_cur_schedule
  /\ ThenUpdateTime
  /\ UNCHANGED <<g_eggm_week_schedule, sharedVars, outputVars, clockVars, tm_now,
                 cur_sch_day, side, upd, budget, history>>

(***************************************************************************)
(* update_time() runs rdate and waits for it; the clock may come out       *)
(* anywhere.  The task goes on with the time it read before.               *)
(***************************************************************************)
update_time ==
  /\ pc = "updating"
  /\ pc' = "power" /\ uncorrected' = 0
  /\ UNCHANGED <<g_eggm_week_schedule, sharedVars, outputVars, clockVars, localVars,
                 budget, padSince, postponed>>

update_time_jump ==
  /\ pc = "updating"
  /\ Spend("jump")
  /\ clock' \in Clock /\ sampled' = FALSE
  /\ pc' = "power" /\ uncorrected' = 0
  /\ UNCHANGED <<g_eggm_week_schedule, sharedVars, outputVars, localVars, padSince,
                 postponed>>

(***************************************************************************)
(* Switching.                                                              *)
(***************************************************************************)
IsNow(t) == t.hour = tm_now.hour /\ t.min = tm_now.min
DueSide == IF state_auto = 0 THEN "start" ELSE "end"

get_pw_data ==
  /\ pc = "power"
  /\ \/ /\ IsNow(cur_sch.at[DueSide])
        /\ side' = DueSide /\ pc' = "set power"
     \/ /\ ~IsNow(cur_sch.at[DueSide])
        /\ pc' = "time" /\ UNCHANGED side
  /\ UNCHANGED <<g_eggm_week_schedule, sharedVars, outputVars, clockVars, tm_now,
                 cur_sch, cur_sch_day, last_update_hour, upd, budget, history>>

set_pw_auto_state ==
  /\ pc = "set power"
  /\ state_auto' = Level(side)
  /\ pc' = "set music"
  /\ UNCHANGED <<g_eggm_week_schedule, sharedVars, run_state, clockVars, localVars,
                 budget, history>>

set_music_run_state ==
  /\ pc = "set music"
  /\ run_state' = Level(side)
  /\ pc' = "flag"
  /\ UNCHANGED <<g_eggm_week_schedule, sharedVars, state_auto, clockVars, localVars,
                 budget, history>>

get_is_static_cur_schedule ==
  /\ pc = "flag"
  /\ pc' = IF g_is_static_sch_run[side] = 1 THEN "clear" ELSE "time"
  /\ UNCHANGED <<g_eggm_week_schedule, sharedVars, outputVars, clockVars, localVars,
                 budget, history>>

\* Seeded fault: the twin function's flag is lowered.
ClearOtherFlag ==
  /\ pc = "clear"
  /\ g_is_static_sch_run' = [s \in Sides |-> IF s = side THEN g_is_static_sch_run[s] ELSE 0]
  /\ pc' = "fetch"
  /\ UNCHANGED <<g_eggm_week_schedule, g_eggm_cur_schedule, outputVars, clockVars,
                 localVars, budget, history>>

clear_static_cur_schedule ==
  /\ pc = "clear"
  /\ g_is_static_sch_run' = [g_is_static_sch_run EXCEPT ![side] = 0]
  /\ pc' = "fetch"
  /\ UNCHANGED <<g_eggm_week_schedule, g_eggm_cur_schedule, outputVars, clockVars,
                 localVars, budget, history>>

\* Seeded fault: the weekly time is not put back.
FetchUnchanged ==
  /\ pc = "fetch"
  /\ upd' = g_eggm_cur_schedule
  /\ pc' = "store"
  /\ UNCHANGED <<g_eggm_week_schedule, sharedVars, outputVars, clockVars, tm_now,
                 cur_sch, cur_sch_day, last_update_hour, side, budget, history>>

\* update_cur_start_sch, update_cur_end_sch: read, then store the whole copy.
UpdateCurSchFetch ==
  /\ pc = "fetch"
  /\ upd' = [g_eggm_cur_schedule EXCEPT
               !.at[side] = g_eggm_week_schedule[tm_now.wday].at[side]]
  /\ pc' = "store"
  /\ UNCHANGED <<g_eggm_week_schedule, sharedVars, outputVars, clockVars, tm_now,
                 cur_sch, cur_sch_day, last_update_hour, side, budget, history>>

UpdateCurSchStore ==
  /\ pc = "store"
  /\ set_cur_schedule(upd)
  /\ pc' = "time"
  /\ UNCHANGED <<g_eggm_week_schedule, g_is_static_sch_run, outputVars, clockVars,
                 localVars, budget, history>>

schedule_mgr_task ==
  \/ LoadConf
  \/ get_cur_time \/ CheckFlags \/ SetNewDay \/ RollStart \/ RollEnd
  \/ get_cur_schedule \/ update_time
  \/ get_pw_data \/ set_pw_auto_state \/ set_music_run_state
  \/ get_is_static_cur_schedule \/ clear_static_cur_schedule
  \/ UpdateCurSchFetch \/ UpdateCurSchStore

(***************************************************************************)
(* The pad thread: eggm_pad_set_cur_sch_start and _end copy the schedule   *)
(* in force, but set_static_cur_*_schedule stores only their own fields,   *)
(* in one section, so the override is one step.                            *)
(***************************************************************************)
eggm_pad_set_cur_sch(s, t) ==
  /\ Spend("pad")
  /\ g_eggm_cur_schedule' = [g_eggm_cur_schedule EXCEPT !.is_enable = 1, !.at[s] = t]
  /\ g_is_static_sch_run' = [g_is_static_sch_run EXCEPT ![s] = 1]
  /\ padSince' = TRUE
  /\ UNCHANGED <<g_eggm_week_schedule, outputVars, clockVars, pc, localVars, postponed,
                 uncorrected>>

(***************************************************************************)
(* Everybody else who switches power or music (pad, power board).          *)
(***************************************************************************)
SwitchPower ==
  /\ Spend("power")
  /\ state_auto' = 1 - state_auto
  /\ UNCHANGED <<g_eggm_week_schedule, sharedVars, run_state, clockVars, pc,
                 localVars, history>>

SwitchMusic ==
  /\ Spend("power")
  /\ run_state' = 1 - run_state
  /\ UNCHANGED <<g_eggm_week_schedule, sharedVars, state_auto, clockVars, pc,
                 localVars, history>>

(***************************************************************************)
(* Time (external).  The task runs every half second, so a minute does not *)
(* pass unseen unless update_time() is holding the task up.                *)
(***************************************************************************)
NextMinute ==
  IF clock.min < MINS - 1 THEN [clock EXCEPT !.min = @ + 1]
  ELSE IF clock.hour < HOURS - 1 THEN [clock EXCEPT !.min = 0, !.hour = @ + 1]
  ELSE [wday |-> (clock.wday + 1) % DAYS, hour |-> 0, min |-> 0]

CountHour ==
  uncorrected' = IF NextMinute.min = 0 /\ uncorrected < Late THEN uncorrected + 1
                                                             ELSE uncorrected

Tick ==
  /\ sampled
  /\ clock' = NextMinute /\ sampled' = FALSE
  /\ CountHour
  /\ UNCHANGED <<g_eggm_week_schedule, sharedVars, outputVars, pc, localVars,
                 budget, padSince, postponed>>

SkipMinute ==
  /\ ~sampled /\ pc = "updating"
  /\ Spend("skip")
  /\ clock' = NextMinute
  /\ CountHour
  /\ UNCHANGED <<g_eggm_week_schedule, sharedVars, outputVars, sampled, pc,
                 localVars, padSince, postponed>>

Next ==
  \/ schedule_mgr_task
  \/ update_time_jump
  \/ \E s \in Sides, t \in PadTimes : eggm_pad_set_cur_sch(s, t)
  \/ SwitchPower \/ SwitchMusic
  \/ Tick \/ SkipMinute

Spec == Init /\ [][Next]_vars

(***************************************************************************)
(* The thread runs, rdate returns, time passes.                            *)
(***************************************************************************)
FairSpec == Spec /\ WF_vars(schedule_mgr_task) /\ WF_vars(Tick)

-----------------------------------------------------------------------------
(***************************************************************************)
(* Safety.                                                                 *)
(***************************************************************************)
\* The task has taken over a day's schedule; until then its cur_sch is
\* whatever the stack held.
Viewed == cur_sch_day # -1

NoOverride == \A s \in Sides : g_is_static_sch_run[s] = 0

(***************************************************************************)
(* Power is switched by the schedule in force: when the task has decided,  *)
(* the shared schedule itself asks for it, unless the pad changed it in    *)
(* this very round of the loop, or the round runs on yesterday's view      *)
(* because an override postpones the change of day                         *)
(* (eggm_schedule.c:221-236).                                              *)
(***************************************************************************)
ActsOnScheduleInForce ==
  pc = "set power" =>
    \/ IsNow(g_eggm_cur_schedule.at[side])
    \/ padSince
    \/ cur_sch_day # tm_now.wday /\ ~NoOverride

(***************************************************************************)
(* An override is used once.  As long as no change of day is postponed,    *)
(* every time whose flag is down is the weekly one of the day, through     *)
(* every interleaving of the pad with clear_static_cur_*_schedule and with *)
(* the read and the store of update_cur_*_sch (which is at work on that    *)
(* side in between).                                                       *)
(***************************************************************************)
Updating(s) == pc \in {"fetch", "store"} /\ side = s

OverrideUsedOnce ==
  Viewed /\ ~postponed /\ pc # "newday" =>
    \A s \in Sides : g_is_static_sch_run[s] = 0 /\ ~Updating(s) =>
      g_eggm_cur_schedule.at[s] = g_eggm_week_schedule[cur_sch_day].at[s]

(***************************************************************************)
(* Liveness, for times the clock can show once rolled over, and a task     *)
(* that has come to see a schedule (an override already pending in its     *)
(* first round makes it run on uninitialised times).                       *)
(***************************************************************************)
(***************************************************************************)
(* The scheduler never falls silent: power goes on and off for ever.       *)
(***************************************************************************)
SwitchesForEver == (<>Viewed) => []<>(state_auto = 1) /\ []<>(state_auto = 0)

(***************************************************************************)
(* Every override comes to an end, and with it the postponement of the     *)
(* change of day (eggm_schedule.c:210, 293-297, 316-320).                  *)
(***************************************************************************)
OverrideEnds ==
  \A s \in Sides : (Viewed /\ g_is_static_sch_run[s] = 1) ~> (g_is_static_sch_run[s] = 0)

(***************************************************************************)
(* Until a correction moves the clock, no whole hour of it passes without  *)
(* update_time() at work, over midnight, after a start at any hour and     *)
(* after a correction that ran into the next hour (eggm_schedule.c:247).   *)
(***************************************************************************)
Corrected == uncorrected < Late \/ pc = "updating"

HourlyUntilJump == budget["jump"] > 0 => Corrected

(***************************************************************************)
(* What the comments say.                                                  *)
(***************************************************************************)
(***************************************************************************)
(* eggm_schedule.c:243, "update time, per 1 hour": no whole hour of the    *)
(* clock passes without update_time() at work.  When two hours have begun  *)
(* since it last was, or since the start, the first of them is over.       *)
(***************************************************************************)
HourlyUpdate == Corrected

(***************************************************************************)
(* .eggm.sch.conf:1 disables a day ("sch,0,di,08:00,17:00"), and           *)
(* eggm_io.c:167 speaks of "check enable": power is not switched on by a   *)
(* disabled schedule.                                                      *)
(***************************************************************************)
DisabledNotRun ==
  [][ set_pw_auto_state /\ side = "start" => cur_sch.is_enable = 1 ]_vars

=============================================================================
