------------------------------ MODULE EggmConf ------------------------------
(***************************************************************************)
(* What eggm reads when it starts, and what it saves (eggm_io.c and the    *)
(* first half of music_mgr_task and schedule_mgr_task).  The music task    *)
(* reads the music directory, adds the lists one by one to the shared      *)
(* array, sorts the files of each under the lock, and takes up the list    *)
(* named in .eggm.music.conf.  The scheduler reads .eggm.sch.conf into an  *)
(* array on its stack and stores it day by day.  The pad thread does not   *)
(* wait for either: it hands out the lists and changes the current one,    *)
(* which a shell then saves, emptying the file first.  The daemon may stop *)
(* and start again between any two steps, and may find another directory.  *)
(*                                                                         *)
(* Names are numbers in the order of strcmp, 0 being the empty name.       *)
(***************************************************************************)
EXTENDS Integers, Sequences, FiniteSets

CONSTANTS
  MAX_MUSIC_LIST,      (* 20 in the code                                    *)
  Directories,         (* what MUSIC_DIR may hold, in the order of readdir  *)
  Echoed,              (* what the shell makes of each list name            *)
  DAYS,                (* 7 in the code                                     *)
  SchConfs,            (* what .eggm.sch.conf may hold: its lines           *)
  Stacks,              (* what the stack may hold where sch[] is put        *)
  Tails,               (* the digit that may follow the two digits copied   *)
                       (* of a number, or NoDigit                           *)
  Budgets              (* how often each disturbance may still happen       *)

Blank == 0
NoDigit == -1
Missing == -1
Empty == -2
Garbled == -3          \* a line that is the name of no list

Numbers == 0..(MAX_MUSIC_LIST - 1)
Entries == [name : Nat \ {Blank}, hidden : BOOLEAN, files : Seq([num : Nat \ {Blank}, mp3 : BOOLEAN])]
MusicList == [name : Nat, files : Seq(Nat)]
NoList == [name |-> Blank, files |-> <<>>]

WDay == 0..(DAYS - 1)
Time == [hour : Nat, min : Nat]
Row == [is_enable : BOOLEAN, start : Time, end : Time]
Lines == [sch : BOOLEAN, day : Int, is_enable : BOOLEAN, start : Time, end : Time]
Parts == {"start_hour", "start_min", "end_hour", "end_min"}
ZeroRow == [is_enable |-> FALSE, start |-> [hour |-> 0, min |-> 0], end |-> [hour |-> 0, min |-> 0]]

Disturbances == {"get", "set", "restart"}

\* The loops of readdir pass over some entries and keep the others in order:
\* what the one over seq has kept after n entries, at those positions.
Kept(seq, positions) ==
  LET kept[n \in 0..Len(seq)] ==
        IF n = 0 THEN <<>>
        ELSE IF n \in positions THEN Append(kept[n - 1], seq[n]) ELSE kept[n - 1]
  IN  kept

Visible(dir) == Kept(dir, {k \in DOMAIN dir : ~dir[k].hidden})[Len(dir)]
Names(dir) == {dir[i].name : i \in DOMAIN dir}

ASSUME MaxAssumption == MAX_MUSIC_LIST \in Nat \ {0} /\ DAYS \in Nat \ {0}
ASSUME DirectoriesAssumption ==
  \A dir \in Directories :
    /\ dir \in Seq(Entries) /\ Len(Visible(dir)) <= MAX_MUSIC_LIST
    /\ \A i, j \in DOMAIN dir : dir[i].name = dir[j].name => i = j
ASSUME EchoedAssumption ==
  Echoed \in [UNION {Names(dir) : dir \in Directories} -> {"same", "other", "nothing"}]
ASSUME SchConfsAssumption == SchConfs \subseteq Seq(Lines)
ASSUME StacksAssumption == Stacks \subseteq [WDay -> Row]
ASSUME TailsAssumption == Tails \subseteq [Parts -> 0..9 \cup {NoDigit}]
ASSUME BudgetsAssumption == Budgets \subseteq [Disturbances -> Nat]

VARIABLES
  directory, conf, schConf,      \* on disk
  g_music_list, g_music_list_cnt, g_cur_music, g_eggm_week_schedule,   \* shared
  pc, tmp_music_list, cnt, i, j, \* music_mgr_task, and the loops in it
  name, num, play_list,
  padPc, padNum, padName, padList, answer,   \* the pad thread
  schPc, sch, line, day, tails,  \* schedule_mgr_task
  budget,
  shown,                         \* history: the last answer of this run
  chosen, intact,                \* history: the list last saved; is it the last chosen?
  expected,                      \* history: the list the task should find saved
  early, padEarly                \* history: was the pad's copy, or the current choice,
                                 \* taken before the lists were sorted?

diskVars == <<directory, conf, schConf>>
listVars == <<g_music_list, g_music_list_cnt>>
loopVars == <<tmp_music_list, cnt, i, j>>
pickVars == <<name, num, play_list>>
padVars  == <<padPc, padNum, padName, padList, answer, padEarly>>
schVars  == <<g_eggm_week_schedule, schPc, sch, line, day, tails>>
history  == <<chosen, intact, expected, early>>
vars == <<diskVars, listVars, g_cur_music, pc, loopVars, pickVars, padVars, schVars, budget,
          shown, history>>

Saved == Nat \cup {Missing, Empty, Garbled}
NoMusic == [listname |-> Blank, filename |-> Blank]
\* Seeded fault: the second file is taken where there is one.
SecondFile(list) == IF Len(list.files) < 2 THEN Blank ELSE list.files[2]

FirstFile(list) == IF list.files = <<>> THEN Blank ELSE list.files[1]

TypeOK ==
  /\ directory \in Directories /\ conf \in Saved /\ schConf \in SchConfs
  /\ g_music_list \in [Numbers -> MusicList] /\ g_music_list_cnt \in 0..MAX_MUSIC_LIST
  /\ g_cur_music \in [listname : Nat, filename : Nat]
  /\ g_eggm_week_schedule \in [WDay -> Row]
  /\ pc \in {"read", "add", "sort", "conf", "find", "fetch", "set", "run"}
  /\ tmp_music_list \in Seq(MusicList) /\ cnt \in 0..MAX_MUSIC_LIST /\ i \in Nat /\ j \in Nat
  /\ name \in Saved /\ num \in Numbers /\ play_list \in MusicList
  /\ padPc \in {"idle", "name", "list", "store", "truncate", "write"}
  /\ padNum \in 0..MAX_MUSIC_LIST /\ padName \in Nat /\ padList \in MusicList
  /\ answer \in Seq(Nat) /\ shown \in Seq(Nat)
  /\ schPc \in {"read", "set", "run"} /\ sch \in [WDay -> Row]
  /\ line \in Nat /\ day \in 0..DAYS /\ tails \in Tails
  /\ budget \in [Disturbances -> Nat]
  /\ chosen \in Saved /\ intact \in BOOLEAN /\ expected \in Saved
  /\ early \in BOOLEAN /\ padEarly \in BOOLEAN

\* A daemon that has just been started finds its files, and its memory zero
\* but for the stack of the scheduler.
Init ==
  /\ directory \in Directories /\ schConf \in SchConfs /\ conf \in {Missing} \cup Names(directory)
  /\ g_music_list = [n \in Numbers |-> NoList] /\ g_music_list_cnt = 0
  /\ g_cur_music = NoMusic
  /\ g_eggm_week_schedule = [d \in WDay |-> ZeroRow]
  /\ pc = "read" /\ tmp_music_list = <<>> /\ cnt = 0 /\ i = 0 /\ j = 0
  /\ name = Blank /\ num = 0 /\ play_list = NoList
  /\ padPc = "idle" /\ padNum = 0 /\ padName = Blank /\ padList = NoList /\ answer = <<>>
  /\ schPc = "read" /\ sch \in Stacks /\ line = 0 /\ day = 0 /\ tails \in Tails
  /\ budget \in Budgets
  /\ shown = <<>> /\ chosen = conf /\ intact = (conf # Missing) /\ expected = Missing
  /\ early = FALSE /\ padEarly = FALSE

Spend(kind) ==
  /\ budget[kind] > 0
  /\ budget' = [budget EXCEPT ![kind] = @ - 1]

(***************************************************************************)
(* music_mgr_task: the lists.                                              *)
(***************************************************************************)
Mp3Files(entry) ==
  LET mp3 == Kept(entry.files, {k \in DOMAIN entry.files : entry.files[k].mp3})[Len(entry.files)]
  IN  [k \in DOMAIN mp3 |-> mp3[k].num]

eggm_io_read_music_list ==
  /\ pc = "read"
  /\ tmp_music_list' = LET dirs == Visible(directory)
                       IN  [k \in DOMAIN dirs |-> [name |-> dirs[k].name, files |-> Mp3Files(dirs[k])]]
  /\ pc' = "add"
  /\ UNCHANGED <<diskVars, listVars, g_cur_music, cnt, i, j, pickVars, padVars, schVars, budget,
                 shown, history>>

\* Seeded fault: the count goes up first, the list is copied by the next call.
AddCountFirst ==
  /\ pc = "add"
  /\ \/ /\ cnt < Len(tmp_music_list)
        /\ IF g_music_list_cnt < MAX_MUSIC_LIST
           THEN /\ g_music_list' = [n \in Numbers |-> IF n < cnt THEN tmp_music_list[n + 1] ELSE NoList]
                /\ g_music_list_cnt' = g_music_list_cnt + 1
           ELSE UNCHANGED listVars
        /\ cnt' = cnt + 1 /\ UNCHANGED pc
     \/ /\ cnt = Len(tmp_music_list)
        /\ g_music_list' = [n \in Numbers |-> IF n < cnt THEN tmp_music_list[n + 1] ELSE NoList]
        /\ UNCHANGED g_music_list_cnt
        /\ cnt' = 0 /\ pc' = "sort"
  /\ UNCHANGED <<diskVars, g_cur_music, tmp_music_list, i, j, pickVars, padVars,
                 schVars, budget, shown, history>>

\* One call of add_music_list after the other.
add_music_list ==
  /\ pc = "add"
  /\ \/ /\ cnt < Len(tmp_music_list)
        /\ IF g_music_list_cnt < MAX_MUSIC_LIST
           THEN /\ g_music_list' = [g_music_list EXCEPT ![g_music_list_cnt] = tmp_music_list[cnt + 1]]
                /\ g_music_list_cnt' = g_music_list_cnt + 1
           ELSE UNCHANGED listVars
        /\ cnt' = cnt + 1 /\ UNCHANGED pc
     \/ /\ cnt = Len(tmp_music_list)
        /\ cnt' = 0 /\ pc' = "sort" /\ UNCHANGED listVars
  /\ UNCHANGED <<diskVars, g_cur_music, tmp_music_list, i, j, pickVars, padVars,
                 schVars, budget, shown, history>>

Files == g_music_list[cnt].files
Swapped(files, k) == [files EXCEPT ![k] = files[k + 1], ![k + 1] = files[k]]

\* sort_music_list, all of it under the lock: one test of its loops at a time.
\* Seeded fault: the number of the list does not go up.
SameList ==
  /\ i >= Len(Files) - 1
  /\ i' = 0 /\ j' = 0
  /\ UNCHANGED <<g_music_list, cnt>>

NextList ==
  /\ i >= Len(Files) - 1
  /\ cnt' = cnt + 1 /\ i' = 0 /\ j' = 0
  /\ UNCHANGED g_music_list

\* Seeded fault: a pass stops one pair early.
NextPassEarly ==
  /\ i < Len(Files) - 1 /\ j >= Len(Files) - 2 - i
  /\ i' = i + 1 /\ j' = 0
  /\ UNCHANGED <<g_music_list, cnt>>

NextPass ==
  /\ i < Len(Files) - 1 /\ j >= Len(Files) - 1 - i
  /\ i' = i + 1 /\ j' = 0
  /\ UNCHANGED <<g_music_list, cnt>>

ComparePair ==
  /\ i < Len(Files) - 1 /\ j < Len(Files) - 1 - i
  /\ g_music_list' = IF Files[j + 1] > Files[j + 2]
                     THEN [g_music_list EXCEPT ![cnt].files = Swapped(@, j + 1)]
                     ELSE g_music_list
  /\ j' = j + 1
  /\ UNCHANGED <<cnt, i>>

sort_music_list ==
  /\ pc = "sort"
  /\ \/ /\ cnt < g_music_list_cnt
        /\ NextList \/ NextPass \/ ComparePair
        /\ UNCHANGED pc
     \/ /\ cnt >= g_music_list_cnt
        /\ pc' = "conf"
        /\ UNCHANGED <<g_music_list, cnt, i, j>>
  /\ UNCHANGED <<diskVars, g_music_list_cnt, g_cur_music, tmp_music_list, pickVars, padVars,
                 schVars, budget, shown, history>>

(***************************************************************************)
(* music_mgr_task: the choice of list.                                     *)
(***************************************************************************)
eggm_io_read_selected_music_list ==
  /\ pc = "conf"
  /\ \/ conf \in {Missing, Empty} /\ pc' = "fetch" /\ UNCHANGED name
     \/ conf \notin {Missing, Empty} /\ pc' = "find" /\ name' = conf
  /\ num' = 0
  /\ expected' = IF intact THEN chosen ELSE Missing
  /\ UNCHANGED <<diskVars, listVars, g_cur_music, loopVars, play_list, padVars, schVars, budget,
                 shown, chosen, intact, early>>

\* Numbers of the list of that name: at most one, the names are different.
Found(listname) == {n \in Numbers : n < g_music_list_cnt /\ g_music_list[n].name = listname}

\* Seeded fault: -1 is taken for the number of a list.
MinusOneKept ==
  /\ pc = "find"
  /\ \/ Found(name) # {} /\ num' \in Found(name)
     \/ Found(name) = {} /\ num' = -1
  /\ pc' = "fetch"
  /\ UNCHANGED <<diskVars, listVars, g_cur_music, loopVars, name, play_list, padVars, schVars,
                 budget, shown, history>>

get_play_list_num_by_name ==
  /\ pc = "find"
  /\ \/ Found(name) # {} /\ num' \in Found(name)
     \/ Found(name) = {} /\ num' = 0
  /\ pc' = "fetch"
  /\ UNCHANGED <<diskVars, listVars, g_cur_music, loopVars, name, play_list, padVars, schVars,
                 budget, shown, history>>

FetchList ==
  /\ pc = "fetch"
  /\ play_list' = g_music_list[num]
  /\ pc' = "set"
  /\ UNCHANGED <<diskVars, listVars, g_cur_music, loopVars, name, num, padVars, schVars, budget,
                 shown, history>>

SetCurMusic ==
  /\ pc = "set"
  /\ g_cur_music' = [listname |-> play_list.name, filename |-> FirstFile(play_list)]
  /\ early' = FALSE
  /\ pc' = "run"
  /\ UNCHANGED <<diskVars, listVars, loopVars, pickVars, padVars, schVars, budget, shown,
                 chosen, intact, expected>>

music_mgr_task ==
  \/ eggm_io_read_music_list \/ add_music_list \/ sort_music_list
  \/ eggm_io_read_selected_music_list \/ get_play_list_num_by_name \/ FetchList \/ SetCurMusic

(***************************************************************************)
(* The pad thread: GET_MUSIC_LIST and SET_MUSIC_LIST.                      *)
(***************************************************************************)
\* The lock of the lists is the music task's for as long as it sorts.
ListsFree == pc # "sort"

get_music_list_cnt ==
  /\ padPc = "idle"
  /\ Spend("get")
  /\ padNum' = g_music_list_cnt /\ answer' = <<>>
  /\ padPc' = "name"
  /\ UNCHANGED <<diskVars, listVars, g_cur_music, pc, loopVars, pickVars, padName, padList, padEarly,
                 schVars, shown, history>>

make_music_list_packet ==
  /\ padPc = "name"
  /\ \/ /\ Len(answer) < padNum /\ ListsFree
        /\ answer' = Append(answer, g_music_list[Len(answer)].name)
        /\ UNCHANGED <<padPc, shown>>
     \/ /\ Len(answer) >= padNum
        /\ shown' = answer
        /\ padPc' = "idle" /\ UNCHANGED answer
  /\ UNCHANGED <<diskVars, listVars, g_cur_music, pc, loopVars, pickVars, padNum, padName, padList,
                 padEarly, schVars, budget, history>>

change_cur_music_list(number) ==
  /\ padPc = "idle"
  /\ Spend("set")
  /\ padNum' = number /\ padName' = g_cur_music.listname
  /\ padPc' = "list"
  /\ UNCHANGED <<diskVars, listVars, g_cur_music, pc, loopVars, pickVars, padList, answer, padEarly,
                 schVars, shown, history>>

get_music_list_by_num ==
  /\ padPc = "list" /\ ListsFree
  /\ padList' = g_music_list[padNum]
  /\ padEarly' = (pc \in {"read", "add"})
  /\ padPc' = IF padList'.name = padName THEN "idle" ELSE "store"
  /\ UNCHANGED <<diskVars, listVars, g_cur_music, pc, loopVars, pickVars, padNum, padName, answer,
                 schVars, budget, shown, history>>

PadSetCurMusic ==
  /\ padPc = "store"
  /\ g_cur_music' = [listname |-> padList.name, filename |-> FirstFile(padList)]
  /\ early' = padEarly
  /\ intact' = FALSE
  /\ padPc' = "truncate"
  /\ UNCHANGED <<diskVars, listVars, pc, loopVars, pickVars, padNum, padName, padList, answer,
                 padEarly, schVars, budget, shown, chosen, expected>>

\* The shell empties the file, unless it cannot make a command of the line.
Result(listname) == IF listname = Blank THEN "same" ELSE Echoed[listname]

PadTruncate ==
  /\ padPc = "truncate"
  /\ \/ Result(padList.name) = "nothing" /\ padPc' = "idle" /\ UNCHANGED conf
     \/ Result(padList.name) # "nothing" /\ padPc' = "write" /\ conf' = Empty
  /\ UNCHANGED <<directory, schConf, listVars, g_cur_music, pc, loopVars, pickVars, padNum, padName,
                 padList, answer, padEarly, schVars, budget, shown, history>>

\* Seeded fault: the name saved is the one before the change.
WriteOldName ==
  /\ padPc = "write"
  /\ conf' = IF Result(padList.name) = "same" THEN padName ELSE Garbled
  /\ chosen' = padList.name
  /\ intact' = (Result(padList.name) = "same")
  /\ padPc' = "idle"
  /\ UNCHANGED <<directory, schConf, listVars, g_cur_music, pc, loopVars, pickVars, padNum, padName,
                 padList, answer, padEarly, schVars, budget, shown, expected, early>>

eggm_io_write_selected_music_list ==
  /\ padPc = "write"
  /\ conf' = IF Result(padList.name) = "same" THEN padList.name ELSE Garbled
  /\ chosen' = padList.name
  /\ intact' = (Result(padList.name) = "same")
  /\ padPc' = "idle"
  /\ UNCHANGED <<directory, schConf, listVars, g_cur_music, pc, loopVars, pickVars, padNum, padName,
                 padList, answer, padEarly, schVars, budget, shown, expected, early>>

pad_mgr_task ==
  \/ make_music_list_packet \/ get_music_list_by_num
  \/ PadSetCurMusic \/ PadTruncate \/ eggm_io_write_selected_music_list

(***************************************************************************)
(* schedule_mgr_task: the week.                                            *)
(***************************************************************************)
\* atoi of two digits and of what happens to follow them in the buffer.
Atoi(number, part) == IF tails[part] = NoDigit THEN number ELSE 10 * number + tails[part]

RowOf(l) ==
  [is_enable |-> l.is_enable,
   start |-> [hour |-> Atoi(l.start.hour, "start_hour"), min |-> Atoi(l.start.min, "start_min")],
   end   |-> [hour |-> Atoi(l.end.hour, "end_hour"), min |-> Atoi(l.end.min, "end_min")]]

\* Seeded fault: reading stops at the first line that is not for a day.
ReadUntilOddLine ==
  /\ schPc = "read"
  /\ \/ /\ line < Len(schConf) /\ schConf[line + 1].sch /\ schConf[line + 1].day \in WDay
        /\ sch' = [sch EXCEPT ![schConf[line + 1].day] = RowOf(schConf[line + 1])]
        /\ line' = line + 1 /\ UNCHANGED schPc
     \/ /\ line = Len(schConf) \/ ~schConf[line + 1].sch \/ schConf[line + 1].day \notin WDay
        /\ schPc' = "set" /\ UNCHANGED <<sch, line>>
  /\ UNCHANGED <<diskVars, listVars, g_cur_music, pc, loopVars, pickVars, padVars,
                 g_eggm_week_schedule, day, tails, budget, shown, history>>

eggm_io_read_sch_conf ==
  /\ schPc = "read"
  /\ \/ /\ line < Len(schConf)
        /\ LET l == schConf[line + 1]
           IN  sch' = IF l.sch /\ l.day \in WDay THEN [sch EXCEPT ![l.day] = RowOf(l)] ELSE sch
        /\ line' = line + 1 /\ UNCHANGED schPc
     \/ /\ line = Len(schConf)
        /\ schPc' = "set" /\ UNCHANGED <<sch, line>>
  /\ UNCHANGED <<diskVars, listVars, g_cur_music, pc, loopVars, pickVars, padVars,
                 g_eggm_week_schedule, day, tails, budget, shown, history>>

set_schedule_data_by_wday ==
  /\ schPc = "set"
  /\ \/ /\ day < DAYS
        /\ g_eggm_week_schedule' = [g_eggm_week_schedule EXCEPT ![day] = sch[day]]
        /\ day' = day + 1 /\ UNCHANGED schPc
     \/ /\ day = DAYS
        /\ schPc' = "run" /\ UNCHANGED <<g_eggm_week_schedule, day>>
  /\ UNCHANGED <<diskVars, listVars, g_cur_music, pc, loopVars, pickVars, padVars,
                 sch, line, tails, budget, shown, history>>

schedule_mgr_task == eggm_io_read_sch_conf \/ set_schedule_data_by_wday

(***************************************************************************)
(* The daemon stops and is started again; the disk stays, but for what     *)
(* somebody may have done to the music directory.                          *)
(***************************************************************************)
Restart ==
  /\ Spend("restart")
  /\ directory' \in Directories /\ schConf' \in SchConfs
  /\ g_music_list' = [n \in Numbers |-> NoList] /\ g_music_list_cnt' = 0
  /\ g_cur_music' = NoMusic
  /\ g_eggm_week_schedule' = [d \in WDay |-> ZeroRow]
  /\ pc' = "read" /\ tmp_music_list' = <<>> /\ cnt' = 0 /\ i' = 0 /\ j' = 0
  /\ name' = Blank /\ num' = 0 /\ play_list' = NoList
  /\ padPc' = "idle" /\ padNum' = 0 /\ padName' = Blank /\ padList' = NoList /\ answer' = <<>>
  /\ schPc' = "read" /\ sch' \in Stacks /\ line' = 0 /\ day' = 0 /\ tails' \in Tails
  /\ shown' = <<>> /\ expected' = Missing /\ early' = FALSE /\ padEarly' = FALSE
  /\ UNCHANGED <<conf, chosen, intact>>

Next ==
  \/ music_mgr_task \/ pad_mgr_task \/ schedule_mgr_task
  \/ get_music_list_cnt \/ (\E n \in Numbers : change_cur_music_list(n))
  \/ Restart

Spec == Init /\ [][Next]_vars

(***************************************************************************)
(* The threads are scheduled; nothing makes a tablet send a command.       *)
(***************************************************************************)
FairSpec ==
  Spec /\ WF_vars(music_mgr_task) /\ WF_vars(pad_mgr_task) /\ WF_vars(schedule_mgr_task)

-----------------------------------------------------------------------------
(***************************************************************************)
(* Safety.                                                                 *)
(***************************************************************************)
(***************************************************************************)
(* When the task goes on to choose a list, the files of every list are in  *)
(* ascending order, and they are the .mp3 files of its directory, whatever *)
(* the order of readdir (sort_music_list).                                 *)
(***************************************************************************)
ListsSorted ==
  pc \notin {"read", "add", "sort"} =>
    /\ g_music_list_cnt = Len(Visible(directory))
    /\ \A n \in 0..(g_music_list_cnt - 1) :
         LET files == g_music_list[n].files
             mp3   == {k \in DOMAIN Visible(directory)[n + 1].files : Visible(directory)[n + 1].files[k].mp3}
         IN  /\ \A k, l \in DOMAIN files : k < l => files[k] <= files[l]
             /\ Len(files) = Cardinality(mp3)
             /\ {files[k] : k \in DOMAIN files} = {Visible(directory)[n + 1].files[k].num : k \in mp3}

(***************************************************************************)
(* A number means to the daemon what it means to the tablet: for as long   *)
(* as this daemon runs, entry n of an answer to GET_MUSIC_LIST names list  *)
(* n, although the count is read without the lock and the answer may be    *)
(* made while the lists are being added or sorted.                         *)
(***************************************************************************)
ShownNumbersValid ==
  \A n \in DOMAIN shown :
    shown[n] = g_music_list[n - 1].name /\ shown[n] = Visible(directory)[n].name

(***************************************************************************)
(* A restart goes on with the list last chosen, or with the first if that  *)
(* is gone, provided the choice was saved: not cut off between the store   *)
(* and the end of the write, and with a name the shell gives back.         *)
(***************************************************************************)
ChoiceSurvives ==
  pc = "set" /\ expected # Missing =>
    \/ play_list.name = expected
    \/ expected \notin {e.name : e \in {Visible(directory)[k] : k \in DOMAIN Visible(directory)}}
       /\ play_list = g_music_list[0]

(***************************************************************************)
(* The file that goes with a list just chosen is its first in the sorted   *)
(* order, except for a choice made before the lists were sorted.           *)
(***************************************************************************)
FirstFileShown ==
  pc \notin {"read", "add", "sort"} /\ ~early =>
    \A n \in 0..(g_music_list_cnt - 1) :
      LET files == g_music_list[n].files
      IN  g_music_list[n].name = g_cur_music.listname =>
            \A k \in DOMAIN files : g_cur_music.filename <= files[k]

(***************************************************************************)
(* Of several lines for a day the last counts, and lines for no day are    *)
(* passed over, as long as no digit happens to follow the two that are     *)
(* copied of each number (eggm_io.c:186-195 puts no end to them).          *)
(***************************************************************************)
LastLineCounts ==
  schPc = "run" /\ (\A p \in Parts : tails[p] = NoDigit) =>
    \A d \in WDay, k \in DOMAIN schConf :
      /\ schConf[k].sch /\ schConf[k].day = d
      /\ \A l \in DOMAIN schConf : l > k /\ schConf[l].sch => schConf[l].day # d
      => g_eggm_week_schedule[d] = [is_enable |-> schConf[k].is_enable, start |-> schConf[k].start,
                                    end |-> schConf[k].end]

(***************************************************************************)
(* Liveness: whatever the pad does meanwhile, a daemon that is not stopped *)
(* comes to the end of its start, and a change of list to its end.         *)
(***************************************************************************)
StartCompletes == <>[](pc = "run" /\ schPc = "run") /\ []<>(padPc = "idle")

=============================================================================
