# Verification of eggm

eggm is the control daemon of a small building: one process on a Raspberry Pi
that switches the power through a board on a serial line, plays music with
`omxplayer`, follows a weekly schedule and is operated from a tablet (the
"pad") over TCP. The modules here model its threads and the records they share,
TLC checks the models on small instances, and TLAPS proves the main safety
properties for every value of the constants.

## 1. Inventory

`main` (`eggm.c:264-269`) starts five threads and sleeps; there is no shutdown.
All state is in global records, each with a mutex that covers single copies of
it, not the sequence "copy, decide, store". That is where most of what can go
wrong in this program comes from.

| Component | State | Operations | Interacts with |
|---|---|---|---|
| **Power manager** `eggm_pw.c` | `g_eggm_pw_data` (button, commanded, real state), `g_pw_machine_state`; locals `pw_data`, `pw_data_by_machine` | `get_pw_data`, `set_pw_data`, `set_pw_auto_state`, `pw_mgr_task` | serial line to the board; pad and scheduler write the record |
| **Serial frame** `eggm_pw.c:148-231`, `eggm_common.c:46-65` | bytes on the line | find the header, read the body, compare the checksum, flush | board |
| **Scheduler** `eggm_schedule.c` | `g_eggm_week_schedule`, `g_eggm_cur_schedule`, two override flags; locals `cur_sch`, `cur_sch_day`, `last_update_hour` | `schedule_mgr_task`, the getters and setters, `update_cur_{start,end}_sch` | reads and writes the power record, writes the music run state; the pad writes the schedule in force and raises the flags |
| **Clock** `eggm_time.c` | the system clock | `get_cur_time`, `update_time` (blocking `rdate`) | scheduler |
| **Music player** `eggm_music.c` | `g_cur_music`, `g_play_before`, `g_play_next`, `player_tid` (no lock), `g_music_list`; locals of `music_mgr_task`; one thread and one process per song; `/dev/shm/eggm_music_play` | `music_mgr_task`, `player_thread`, `music_play`, `music_stop`, `change_cur_music_list`, the skip functions, `sort_music_list` | pad (run state, list, skips), scheduler (run state), `omxplayer` |
| **Configuration** `eggm_io.c` | `.eggm.music.conf`, `.eggm.sch.conf`, the music directory | read the lists, read/write the choice, read the week | music player, scheduler, pad |
| **Pad server** `eggm_pad.c` | listening socket, receive and send buffers | bind (retry), accept, read, dispatch, answer, close | writes all three records |
| **Air conditioner** `eggm_ac.c` | `g_eggm_ac_data`, never written | sleeps | - |
| **Monitoring** `eggm.c`, **logging** `eggm_common.c` | - | printing | not started / output only |
| **Remote protocol** `eggm_serv.c`, `eggm_client.c`, `eggm_socket.c` | - | - | not in the Makefile's `OBJECTS` |

What makes each component correct, and what is hard about it:

* *Power.* Three threads read-modify-write one record. A store must not lose
  what another thread stored, server and board must end up agreeing whatever
  frames and answers are damaged or lost, and a command must reach the board.
  The code loses stores; the properties say exactly when, and that it recovers.
* *Scheduler.* A half-second loop with seven locked sections per round, against
  a pad that overrides times and raises flags at any moment. Power must be
  switched by the schedule in force; an override must be used once and be over;
  a pending override postpones the change of day, and must not do so for ever.
* *Music.* Player threads outlive the processes they started (the
  `pthread_cancel` in `music_stop` names no thread), share one output file and
  clear a `player_tid` that may be another's. Stopping must silence, changing
  the list must not mix directories, what the pad shows must be what plays, the
  music must go on to the next file.
* *Pad server.* One thread serves all tablets with one `read` per message into
  a buffer it never clears, and answers with records that four other threads
  write. A request must be carried out once and answered once, from whole
  records no older than the command; everybody must be served, although
  descriptors are lost; after a restart the port may be taken.
* *Configuration.* The pad can see and change the lists while the music task is
  still filling and sorting them; the choice is saved by a shell that empties
  the file first; the daemon may stop at any moment. List numbers must go on
  meaning the same list, and a restart must find the choice.
* *Serial bytes.* Bytes are damaged or lost, reads come too early, half of the
  checksum is compared. Nothing may be accepted that was not sent, nothing twice,
  what the check cannot tell apart must be known exactly, and an undamaged report
  that is there must be accepted.

The `hazards` of `PROJECT.json` list every such place with its line and the
properties that look at it.

## 2. Modules

| Module | Role |
|---|---|
| `EggmPw` | power record, `pw_mgr_task`, SET_PW, the scheduler's two accesses, line and board |
| `MCEggmPw` | instances for TLC |
| `EggmPwProofs` | inductive invariant and theorems |
| `EggmSchedule` | scheduler, overrides, clock |
| `MCEggmSchedule` | instances for TLC |
| `EggmScheduleProofs` | inductive invariant and theorems |
| `EggmMusic` | music task, players, `omxplayer`, list changes, skips, saved list |
| `MCEggmMusic` | instances for TLC |
| `EggmMusicProofs` | inductive invariant and theorems |
| `EggmPadMsg` | messages, answers and records of the pad's protocol |
| `EggmPadService` | what the pad server promises, as a client sees it |
| `EggmPad` | the pad server; implements `EggmPadService` |
| `EggmConf` | directory and configuration files to lists and week; the saved choice; restart |
| `EggmLine` | what the serial line promises the power manager |
| `EggmReport` | a report, its checksum, and what passes the check by mistake |
| `EggmSerial` | the reader, byte by byte; implements `EggmLine` |
| `EggmInduction` | induction over the numbers and over loops, for the proofs |
| `EggmPadProofs`, `EggmConfProofs`, `EggmSerialProofs` | inductive invariants and theorems |
| `MCEggmPad`, `MCEggmConf`, `MCEggmSerial` | instances for TLC |

How they fit together. Each record has one module that has all its writers:
`EggmPw` (power), `EggmSchedule` (schedule), `EggmMusic` (what plays),
`EggmConf` (lists and files). In each of them the other components appear as
the stores they make: a SET handler of the pad is two steps of the module whose
record it writes. `EggmPad` is the other side of that, the thread that calls the
handlers; there the other threads are one action (`StoreByOthers`). `EggmLine` is
the interface between `EggmSerial`, which provides it, and `EggmPw`, which reads
whole reports and has a line that makes no mistakes; for which values of damage that is
so is evaluated in `MCEggmPw` (`FrameAssumption`).

Conventions. A step is one lock..unlock section, or one unlocked access to
shared data, with the thread-local computation that follows it up to the next
one; a control variable (`pwPc`, `padPc`, `pc`) says where a thread is. Actions
are named after the function or the decision they stand for. Variables after
the comment "history" are read only by properties. What is outside the
program, the board, the line, the clock, `omxplayer`, is in actions of its own;
`PROJECT.json` marks them external. `Budget` (or `Budgets`) bounds how often
each kind of disturbance happens; every guard that uses it is a `Spend`. An operator introduced
by "Seeded fault" is not part of the specification: it is a wrong version of
the definition that follows and shows that a property would notice it.

### EggmPw

`get_pw_data` takes the copy, `ReadKey1`/`ReadKey2`/`ReadBody` are the three
`read` calls with the flushes, `FoldReal` and `FoldPhysical` the two comparisons
with their `set_pw_data`, `SendCopy` the answer. A frame carries the first thing
the reader would find wrong with it (`Faults`); a frame cut after its first byte
makes the reader take the next frame's first byte for a second one, and flush.
`PadGetPw`/`PadSetPw` are the halves of `eggm_pad_set_pw_auto`, `SchedGetPw`/
`set_pw_auto_state` those of a switching by the scheduler. The board is assumed
to report, wait for the answer, follow the `state_auto` in it, and report again;
it stops waiting only when nothing can arrive any more. `char` is unsigned, as on
the Raspberry Pi (elsewhere the first byte would never be recognised). That assumption is
external: a board that sends reports without waiting is not modelled. If the
device cannot be opened, `pwPc` stays "stopped", so the runs of this module do
not ask for the absence of deadlock.

### EggmSchedule

One round of the loop is: `get_cur_time`; on a new day `CheckFlags` and either
`SetNewDay` or `RollStart`, `RollEnd` (a pending override: hours past midnight
become hours of today, the change of day is left for later), else
`get_cur_schedule`; `update_time` if an hour has passed; `get_pw_data`, which
decides; `set_pw_auto_state`, `set_music_run_state`; then the flag is tested and
lowered and the weekly time put back in four sections. Twin functions for start
and end are one action over `Sides`. `cur_sch` is a local of the loop body that
nobody initialises: its first value is any of `Garbage`, and it keeps its value
between rounds, as its stack slot does in the build of the Makefile (no
optimisation).

`Tick` needs the task to have seen the present minute (the loop runs twice a
second), except while `update_time` blocks it (`SkipMinute`). `update_time_jump`
is a correction that moves the clock anywhere. `uncorrected` (history) counts the hours
that have begun since `update_time` last returned, up to two (`Late`): then a whole hour
has passed without one.

### EggmMusic

`music_mgr_task` is 15 steps: boot (`LoadLists`,
`eggm_io_read_selected_music_list`, `SelectList`) and the round `get_cur_music`,
`CheckList`, `CheckIdle`, `CheckBefore`, `CheckNext` with the calls of
`music_play` (`TestPlayer`, `music_stop`, `CreatePlayer`), `set_cur_music`
(`StoreMusic`) and `complate_play_music`. A player is a thread, a process and a
place in the output file: `StartOmxplayer` truncates the file, `EndSong` writes
the closing line, `ReadClosingLine` and `LeavePlayer` end the thread. Reading
positions are abstracted to which threads have a closing line ahead of them
(`unread`); two processes that have written the file together may destroy each
other's lines. `FailPlayer` is a `popen` that fails or a process that ends
without its closing line, as `omxplayer` does without a file to play; its thread polls for
ever. `endLost` (history) says that since the last player was created a process has failed,
or begun beside another, so that the end of the song may go unseen. `Killall` spares a process that has not begun. File
names are a list and a place in it; the array past the end of a list holds
empty names (`NoFile`). Lists are not empty and the pad names existing lists;
outside that the code indexes beyond its arrays.

### EggmPad

`Bind` and `RetryBind` are the two places where the port is taken; `port` says
who has it: another process ("held", which `fuser -k` ends), lingering
connections ("wait", until the kernel gives the port back), or the server.
`Accept`, `ReadMessage`, `Dispatch`, `Apply`, `make_system_info_packet` (three
copies, each under its own lock) and `WriteAndClose` are one turn of the loop.
`ReadNothing` is the path on which the connection is not closed; `lost` counts
descriptors nothing will close, one more for each song (`player_thread` opens its
output file and never closes it). A message may arrive in pieces: `fields` is how
much the one read finds, `rest` whether bytes are left, in which case closing
resets the connection. `Restart` ends the daemon and starts it on a port that may
be taken.

`EggmPadService` has no thread, no port and no descriptors: a request is carried
out (`CarryOut`), the other threads store (`Store`), a reply is made of records
as they have been since (`since`). The mapping takes the connection as being
served from the store of its command on, and the last answer from `sendBuff`.

### EggmConf

The music task's start is `eggm_io_read_music_list`, `add_music_list` (one call
per step), `sort_music_list` (one comparison or end of loop per step, all under
the lock), `eggm_io_read_selected_music_list`, `get_play_list_num_by_name`,
`FetchList`, `SetCurMusic`. The pad's two commands run beside it:
`get_music_list_cnt` and `make_music_list_packet` (one list per step),
`change_cur_music_list` with `get_music_list_by_num`, `PadSetCurMusic`,
`PadTruncate` and `eggm_io_write_selected_music_list`; numbers beyond the last
list are included, up to the size of the array. The scheduler's start reads the
week line by line into an array that holds any of `Stacks`, and stores it day by
day. Names are numbers in the order of `strcmp`; `Echoed` says whether the shell
gives a name back, alters it or cannot take it; `Tails` is the digit that may
follow the two that are copied of each number.

### EggmSerial

A report goes out byte by byte (`BoardSend`, `Arrive`); one byte of it may be
damaged or lost, or one may be added after it (`Spoil`), if nothing has happened to
the report before. The reader is `ReadKey1`, `ReadKey2` and `ReadBody`, each at any
moment, whatever has arrived. A read that comes too early finds less, and missing
bytes count as zero. `Icrnl` turns CR into NL. Each byte carries the number of its
report and its place in it, so that the property can tell which report the accepted
data are of; the reader looks at neither. `key`, the key read last, and `spoilt`,
what has happened to each report, are history. The data have `DATA` bytes, 6 in the
code.

One byte of checksum does not find everything. A report cut short is completed with
zeros, and zero may be its checksum; one that has lost a byte may fit with the first key
of the next in its last place; a CR changes what is compared. `Views` is what the reader
may find of a report in these three ways and `Mistakes` the data that then pass. `EggmLine`
accepts a report as what was sent or as one of its mistakes, so that the refinement says:
a whole report without a CR, damaged in one byte or not, is never taken for another; a
mistake is always one of the report whose turn it is; and no report is accepted twice,
because `accepted` is the sequence of all acceptances and each must have a greater number
than the one before. Nothing is assumed about the checksum. The run has mistakes in it: 164 in the place of
a state makes the sum 0. For the frame of the code, with button, command and power as
data, `MCEggmPw` has TLC evaluate which values of damage lead to mistakes
(`FrameAssumption`): 161 to 165, and no other. Two faults within a report, or in two
reports one after the other, can cancel out and are outside the model.

## 3. Checks

| Run | Question | Bounds |
|---|---|---|
| `pw` | copies current, stores lost only when overtaken, agreement in the end, which commands arrive | 2 commands (0, 1, 255), 2 presses, 1 line fault |
| `pw_physical_by_server` | *violated*: "do not chage by server" | 2 commands, 1 press, 1 fault |
| `pw_last_command` | *violated*: "folow last commnd" | 2 commands, no press, no fault |
| `sch` | switching by the schedule in force, overrides used once and over, hourly correction, switching for ever | 2 days x 2 hours x 2 minutes; 2 overrides and 1 outside switching, or 1 of each with 1 missed minute and 1 jump, or 2 overrides and 1 jump |
| `sch_hourly` | *violated*: "update time, per 1 hour" | 3 hours, 1 jump |
| `sch_disabled` | *violated*: a day marked `di` is not run | no disturbance |
| `music_safety` | copies, names, players, waiting, stop, saved list | lists of 3 and 1 files, 3 players; 2 switchings and 1 change of list, with 1 skip or 1 failing process |
| `music_live` | silence after a stop, skips served, rotation | the same lists; 2 switchings with 1 skip or 1 change of list, or 1 switching, 1 skip and 1 failing process |
| `pad` | each request carried out and answered once; everybody served | 2 tablets, 2 requests of 10 kinds, 2 descriptors; 1 message in pieces, 1 client going away and 1 song, or 1 store of another thread and 1 restart |
| `pad_retry` | *violated*: "retry pad socket bind" | the same |
| `conf` | lists sorted, numbers valid, choice found again, last line counts | 3 directories of 1 or 2 lists, up to 3 songs in descending order, 4 lines; 1 GET, 1 SET, 1 restart |
| `serial` | only sent reports accepted, each once; whole reports accepted | 2 data bytes, 3 kinds of report, 5 values of damage, one of which leads to mistakes; 3 reports, 2 faults |

What the properties say:

* `CopiesCurrent`, `LostOnlyWhenOvertaken` (`EggmPw`): a thread's copy differs
  from the record only if another thread has stored since, and a field is
  changed without reason only by writing back such a copy. `Convergence`: after
  the last disturbance the record and the board agree for good.
  `UnopposedCommandApplied`: a command reaches the board if no older report or
  command is still in a copy or on the line. `pw_last_command` shows that the
  condition is needed.
* `ActsOnScheduleInForce`: when the task has decided to switch, the shared
  schedule asks for it, but for a change of this round and for the day-old view
  of a postponed day. `OverrideUsedOnce`: a time whose flag is down is the
  weekly one. `SwitchesForEver`, `OverrideEnds`: no override, at whatever
  moment it is set, stops the scheduler. `HourlyUntilJump`: until a correction has set
  the clock anywhere, no whole hour passes without `update_time`; `sch_hourly` shows that
  after one has set it back the same does not hold (`HourlyUpdate`): the next hours are
  not later than `last_update_hour`, and one passes from beginning to end.
* `RoundCopyCurrent`: a stop or a change of list is undone only by a round that
  began before it. `SongOfList`, `NowPlaying`: the name shown belongs to the
  list shown, and is what plays. `SecondPlayerExplained`: two songs at once have
  one of two causes. `NeverWaitsForNothing`: while the task waits for a song to end
  there is a thread that will say so, unless the end was lost (`endLost`). `StopSilences`: after a stop only a process that had not
  begun still plays. `SavedListIsCurrent`: the saved list is the one in use
  unless the task wrote an older one back. `StopsEventually`, `SkipServed`,
  `Rotation`: music goes silent for good, skips are served, every file comes
  round again unless the end of a song was lost. That exception is a hole of the code: two
  processes that write one file destroy each other's lines, `popen` may fail, and "before",
  served after a change to a shorter list, may land past its end and ask for an empty name
  (`eggm_music.c:454-460`); the player then waits until a command makes a new one.
* `ServiceSpec`: the pad server implements `EggmPadService`. `Served`: who asks is
  answered, provided no tablet connects and stays silent, and songs and given up
  connections are fewer than descriptors. Both provisos are needed (without
  either TLC finds a tablet that waits for ever).
* `ListsSorted`: after the start each list holds the `.mp3` files of its directory
  in order. `ShownNumbersValid`: what GET_MUSIC_LIST has shown under a number is
  that list for as long as the daemon runs, also if it was shown while lists were
  being added. `ChoiceSurvives`: a restart finds the list last chosen, or takes
  the first, unless the write was cut off or the shell does not give the name
  back. `FirstFileShown`: the song that goes with a choice is the first in order,
  unless the choice was made before the lists were sorted. `LastLineCounts`: of
  several lines for a day the last counts. `StartCompletes`: nothing the pad does
  holds up the start. Every proviso was seen to be needed.
* `AcceptsOnlySent`: the reader implements `EggmLine`, with a byte damaged, lost or
  added wherever the report before was left alone: each report is accepted at most once and in
  order, as what was sent or as one of its mistakes. `WholeReportAccepted`: a report that has
  arrived whole when the reader looks for a first byte is accepted as it is, unless it contains a
  CR; such a report is rejected each time it is sent.

Why the bounds are enough. The interleavings of interest need one store of
another thread between the two halves of a copy-and-store, a second one to come
between the repair of the first, and one fault; the budgets allow these in any
order and at any moment. Lists of three files and of one make the wrap-around and
the index past the end happen, by one and by two, where "before" stays past it; with three players no run ever lacks a free one
(`CreatePlayer` is never held up by the bound), so killed, stale and current
players coexist. Two hours with two minutes give a weekly time on each day,
overrides before and past midnight, and the hour comparison at its wrap.
Two tablets let one wait while the other is served, silent or gone, and the
second request is the one that meets what the first left in the buffers. Three
songs are the shortest list in which bubble sort needs a second pass; one GET and
one SET may fall at any moment of the start, before or after the restart. Two
reports are enough for a read to run from one into the next, a third shows the
order; two data bytes suffice because the reader treats all of them alike.
Skips and changes of list come together, in any order, in `music_safety`; `music_live` has one
or the other, since both at once are several million states for three liveness properties.

Fairness. Threads are scheduled by the kernel and their locks are held for a few
instructions, so each thread gets weak fairness. The board keeps reporting
(undamaged reports are weakly fair, damaged ones are not), a song has an end,
`rdate` returns and time passes. The kernel gives a lingering port back
(`TimeWaitOver`). The start of the daemon and the pad's thread are threads like
the others. The serial line is under no fairness: a report need not arrive.
Nothing forces a command, a press, a fault or
an override, and every liveness property is of the form "once those are over",
by the budgets, or holds regardless.

### Findings

Five disagreements between a comment, message or configuration and the code, each
found as a counterexample, are listed under `findings` in `PROJECT.json`: a button
press undone by SET_PW, the last command not followed, whole hours without the
hourly update after the clock was set back, disabled days that run, and the pad server that
takes the port at the second attempt and does not listen on it.

## 4. Proofs

| Theorem | States |
|---|---|
| `EggmPwProofs!TypeCorrect` | `Spec => []TypeOK` |
| `EggmPwProofs!CopiesStayCurrent` | `Spec => []CopiesCurrent` |
| `EggmPwProofs!LostUpdatesAreOvertaken` | `Spec => LostOnlyWhenOvertaken` |
| `EggmScheduleProofs!TypeCorrect` | `Spec => []TypeOK` |
| `EggmScheduleProofs!SwitchesBySchedule` | `Spec => []ActsOnScheduleInForce` |
| `EggmScheduleProofs!OverridesAreUsedOnce` | `Spec => []OverrideUsedOnce` |
| `EggmMusicProofs!TypeCorrect` | `Spec => []TypeOK` |
| `EggmMusicProofs!RoundCopiesStayCurrent` | `Spec => []RoundCopyCurrent` |
| `EggmMusicProofs!FilesAreOfTheirList` | `Spec => []SongOfList` |
| `EggmMusicProofs!ShowsWhatPlays` | `Spec => []NowPlaying` |
| `EggmMusicProofs!SecondPlayersExplained` | `Spec => []SecondPlayerExplained` |
| `EggmMusicProofs!MusicGoesOn` | `Spec => []NeverWaitsForNothing` |
| `EggmMusicProofs!StopsSilence` | `Spec => []StopSilences` |
| `EggmMusicProofs!SavedListStaysCurrent` | `Spec => []SavedListIsCurrent` |
| `EggmConfProofs!TypeCorrect` | `Spec => []TypeOK` |
| `EggmConfProofs!SortCorrect` | `Spec => []ListsSorted` |
| `EggmConfProofs!NumbersCorrect` | `Spec => []ShownNumbersValid` |
| `EggmConfProofs!ChoiceCorrect` | `Spec => []ChoiceSurvives` |
| `EggmConfProofs!FirstFileCorrect` | `Spec => []FirstFileShown` |
| `EggmConfProofs!WeekCorrect` | `Spec => []LastLineCounts` |
| `EggmPadProofs!TypeCorrect` | `Spec => []TypeOK` |
| `EggmPadProofs!Refines` | `Spec => ServiceSpec` |
| `EggmSerialProofs!TypeCorrect` | `Spec => []TypeOK` |
| `EggmSerialProofs!Refines` | `Spec => AcceptsOnlySent` |

They hold for every set of commands, every week, clock size, set of override
times, start garbage and budget, and every number of lists, files and players,
that satisfies the modules' assumptions; for every number of tablets, descriptors
and messages; every set of directories, week files and contents of the stack; every
number of data bytes of a report. The assumptions used are the named `ASSUME`s: types
of the constants, that arrays are not overrun (no list is empty or longer than the
array of its names, no directory has more lists than fit), that a directory has no
two entries of one name, and for the serial line `DataAssumption` (only the keys of a
report have the values of keys).

*Power.* `TypeOK /\ CopiesCurrent` is inductive: every store of the record by one
thread raises the history flag of the other copies, every `get_pw_data` lowers
it. The action property then follows step by step: between the copy and the
store only a step that raises the flag changes the record.

*Scheduler.* `OverrideUsedOnce` is not inductive by itself. The invariant adds
that the schedule about to be stored at a change of day is the week's
(`DayInv`), that within a day the task's view equals the shared schedule unless
the pad has stored in this round (`ViewInv`), and that `update_cur_*_sch` holds
the weekly time of its side, and of the other side too while its flag is down
(`UpdInv`). `ActsOnScheduleInForce` follows from `ViewInv`.

*Music.* The invariant is proved in four groups, each by the 26 kinds of step.
What is shown: `SongOfList` needs that the task's list, its copy and the file
named in the copy agree whenever the copy is about to be stored (`ListInv`), and
that it is in that place for a reason (`TaskInv`). What is heard: a player that
has been created and has not begun must count as playing already, or the step
with which it begins would break `StopSilences` and `SecondPlayerExplained`
(`QuietInv`, `KnownInv`), and only a thread that has started a process may have
one (`ProcessInv`). What plays: the file handed to a player is the one shown, or
the one the next store will show (`FileInv`). What is saved: between a change of
list and its saving, and while booting, it is the pad's choice and the file that
agree with the record (`SaveInv`). What ends: as long as no end was lost,
a process that has not written the file alone has another one to come, whose beginning
counts as a loss (`AloneInv`, in `EndInv`); so the closing line of the last one is there to read.

*Configuration.* The lists added so far are the first of the directory, and those
under a smaller number never change their names, so that what an answer has shown
stays true whether it was made before, during or after the start (`ListInv`, `PadInv`).
`SortInv` has the invariant of the bubble sort: after `a` passes the last `a` files are
in place, and the pass under way carries the greatest of those it has compared; an
exchange changes neither the number nor the set of the files, which by induction over
the `readdir` loops are the `.mp3` files of the directory. `ChoiceInv` follows a choice
from the store over the file to the search after a restart; it holds no longer than
the file is whole (`intact`). `SchInv`: after `n` lines the row of a day is that of
the last of them that is for the day.

*Pad server.* The refinement needs four invariants. A tablet has one connection, and
what is being served is not in the backlog (`ConnInv`); the buffer holds what was
carried out last, or that completed by the request being served (`BuffInv`);
the history has every value a record has had since the command, among them each of
the copies made (`SinceInv`); and what is about to be sent is an answer the service
may give (`AnswerInv`). Every step then maps to one of `EggmPadService` or to none: `Apply`
and the dispatch of a question to `CarryOut`, `WriteAndClose` to the reply, all that
concerns port, backlog and descriptors to no step.

*Serial line.* The key read last, the bytes received and those under way are, in this
order, what the board sent: from each to the next the place goes up by one, or by
two over a byte that was lost, or to the start of the next report (`Follows`,
`ChainInv`, `KeyInv`, `WireInv`). Of two reports in a row one is as it was sent
(`CalmInv`). So a first key followed by a second are those of one report: at most one
of the two bytes is not what was sent, and the other tells the place (`KeysMeet`).
What is read after them is the rest of the report, or it without a byte
(`RestSeen`), cut off where the bytes end. If it is whole and has no CR, at most one byte is damaged, and
one byte that is changed changes the sum modulo 256 (`DamageFound`); if not, it is one of the
report's `Views`, and what passes is a mistake (`AcceptedReport`). That no report is accepted
twice is `NewInv`: of an accepted report no key is left to be read, also if it was accepted
before its end had arrived.

The strengthened invariants were model-checked before they were proved, and one
claim did not survive it. The line could first lose a byte of a report and add one
after it, and with other values of damage than the instance had, TLC found a report
accepted that was never sent; this is why a fault needs an untouched report before
it, and why the mistakes of the check are part of the promise.

Induction. The library's induction theorems take an operator and cannot be used with
the provers here. `EggmInduction` proves induction for sets of numbers instead,
from the well-foundedness of strict inclusion between finite sets, and with it
that a loop over `1..N` has the values it computes (`Recursion`). The loops of the
code (sums, `readdir`) are written as recursive functions and proved with it.

Only model-checked: all liveness properties (`Convergence`,
`UnopposedCommandApplied`, `SwitchesForEver`, `OverrideEnds`, `StopsEventually`,
`SkipServed`, `Rotation`, `Served`, `StartCompletes`, `WholeReportAccepted`), because
fairness and ENABLED are out of the prover's reach, and the violated properties, for which
TLC has counterexamples. Every safety property that the passing runs check is proved. Of
the power board only the types of its reactions are proved.

## 5. Not modelled

The air conditioner (no behaviour), printing, and the files that are not built.
`state_port` and the volume are never changed or read; `remove_music_list` is
never called. Memory effects of out-of-range input (list numbers beyond the
array, empty directories, more lists or files than the arrays hold, lines of the
week file with fields missing) have no defined result and are excluded by
assumptions, named where they are made. Two faults on the serial line in one report or
in neighbouring ones can defeat a one-byte checksum; they are left out of the model. What a
mistake of the check would do to the record is not followed into `EggmPw`. A platform where `char` is signed would accept no report at all. That
writing to a reset connection ends the daemon (SIGPIPE) is part of `Restart`,
which happens for whatever reason.

The threads are not composed into one module: each record has few enough writers
for its module to hold all of them, and the product of the modules is out of
TLC's reach.

## 6. Plan

Done: the inventory; all modules of the plan checked, and all their safety
properties proved. Next, in this order:

1. `EggmPw` over `EggmLine`: that the reports `EggmPw` takes from its line are those
   a reader that implements `EggmLine` accepts.
2. `EggmConf`: an abstract specification of the saved choice, and `ChoiceSurvives`
   as its refinement.
3. Lemmas towards the liveness properties: the bounds and the steps that decrease
   them, so that what is left to TLC is the fairness argument only.
