----------------------------- MODULE EggmMusic -----------------------------
(***************************************************************************)
(* The music player of eggm (eggm_music.c).  music_mgr_task looks at       *)
(* g_cur_music every 10 ms, starts and stops players, moves on to the next *)
(* file when player_tid has become 0 and serves the "before" and "next"    *)
(* commands.  Every file is played by a thread of its own, which starts an *)
(* omxplayer process with its output in ONE file under /dev/shm, polls     *)
(* that file for the closing line, waits for the process and clears        *)
(* player_tid.  music_stop kills the processes; the threads stay (the      *)
(* argument of its pthread_cancel names no thread).  The pad thread and    *)
(* the scheduler write g_cur_music too.                                    *)
(*                                                                         *)
(* Every lock..unlock section is a step, and so is every access to         *)
(* player_tid and to the skip flags outside the locks.  omxplayer and the  *)
(* output file are external.  File names are reduced to their list and     *)
(* their place in it; the volume, always 50, is left out.                  *)
(***************************************************************************)
EXTENDS Integers, FiniteSets

CONSTANTS
  LISTS,                    (* number of lists under MUSIC_DIR              *)
  FileCount,                (* how many files each of them holds            *)
  MAX_MUSIC_FILE_IN_LIST,   (* 20 in the code                               *)
  MaxPlayers,               (* bound on player threads alive at once        *)
  Budgets                   (* how often each disturbance may still happen: *)
                            (* a choice of combinations                     *)

Bit == {0, 1}
Lists == 0..(LISTS - 1)
Skips == {"before", "next"}
Players == 1..MaxPlayers
Disturbances == {"run", "skip", "list", "fault"}

ASSUME ListsAssumption == LISTS \in Nat \ {0}
ASSUME FileCountAssumption ==
  /\ MAX_MUSIC_FILE_IN_LIST \in Nat
  /\ FileCount \in [Lists -> 1..MAX_MUSIC_FILE_IN_LIST]
ASSUME PlayersAssumption == MaxPlayers \in Nat
ASSUME BudgetsAssumption == Budgets \subseteq [Disturbances -> Nat]

None == -1
Files == 0..(MAX_MUSIC_FILE_IN_LIST - 1)
Song == [list : Lists, num : Files]
NoFile == [list |-> None, num |-> 0]

VARIABLES
  g_cur_music,         (* shared: run_state, listname, filename             *)
  g_play,              (* shared: g_play_before and g_play_next             *)
  player_tid,          (* shared, unlocked: 0 or the last player            *)
  pc, task,            (* where music_mgr_task is, and why it calls         *)
                       (* music_play: "start", "advance" or a skip          *)
  play_music,          (* its copy of g_cur_music                           *)
  play_state, cur_play_num, play_list,
  padPc, padList,      (* change_cur_music_list in the pad thread           *)
  conf,                (* .eggm.music.conf                                  *)
  thread, omx, song,   (* the players: thread, process and the file it is   *)
                       (* to play or playing                                *)
  unread,              (* threads with a closing line ahead of them in the  *)
                       (* output file                                       *)
  lineInFile,          (* does the file hold a closing line?                *)
  solo,                (* the player that alone has written the file so far *)
  budget,
  stale,               (* history: has g_cur_music been stored into since   *)
                       (* play_music was copied?                            *)
  listChanged,         (* history: has the pad changed the list since the   *)
                       (* task last made g_cur_music and its player agree?  *)
  overwritten,         (* history: was the last change of list undone?      *)
  late, orphan,        (* history: players not yet begun at the last kill;  *)
                       (* players whose player_tid another one has cleared  *)
  endLost              (* history: since the last player was created, has a *)
                       (* process failed, or begun while another was there? *)

mgrVars    == <<pc, task, play_music, play_state, cur_play_num, play_list>>
padVars    == <<padPc, padList, conf>>
outputVars == <<unread, lineInFile, solo>>
playerVars == <<thread, omx, song, outputVars, late, orphan, endLost>>
history    == <<stale, listChanged, overwritten>>
vars == <<g_cur_music, g_play, player_tid, mgrVars, padVars, playerVars, budget, history>>

MusicData == [run_state : Bit, listname : Lists \cup {None}, filename : Song \cup {NoFile}]
NoMusic == [run_state |-> 0, listname |-> None, filename |-> NoFile]

TypeOK ==
  /\ g_cur_music \in MusicData
  /\ g_play \in [Skips -> Bit]
  /\ player_tid \in Players \cup {0}
  /\ pc \in {"boot", "conf", "select", "get", "stop", "list", "idle", "test", "kill", "create", "store",
             "before", "next", "skip", "complete"}
  /\ task \in {"start", "advance"} \cup Skips
  /\ play_music \in MusicData /\ play_state \in Bit
  /\ cur_play_num \in Files /\ play_list \in Lists
  /\ padPc \in {"idle", "set", "conf"} /\ padList \in Lists
  /\ conf \in Lists \cup {None}
  /\ thread \in [Players -> {"none", "created", "polling", "closing"}]
  /\ omx \in [Players -> BOOLEAN]
  /\ song \in [Players -> Song \cup {NoFile}]
  /\ unread \subseteq Players /\ lineInFile \in BOOLEAN /\ solo \in Players \cup {0}
  /\ budget \in [Disturbances -> Nat]
  /\ stale \in BOOLEAN /\ listChanged \in BOOLEAN /\ overwritten \in BOOLEAN
  /\ late \subseteq Players /\ orphan \subseteq Players /\ endLost \in BOOLEAN

Init ==
  /\ g_cur_music = NoMusic /\ g_play = [s \in Skips |-> 0]
  /\ player_tid = 0
  /\ pc = "boot" /\ task = "start"
  /\ play_music = NoMusic /\ play_state = 0
  /\ cur_play_num = 0 /\ play_list = 0
  /\ padPc = "idle" /\ padList = 0
  /\ conf \in Lists \cup {None}
  /\ thread = [p \in Players |-> "none"] /\ omx = [p \in Players |-> FALSE]
  /\ song = [p \in Players |-> NoFile]
  /\ unread = {} /\ lineInFile \in BOOLEAN /\ solo = 0
  /\ budget \in Budgets
  /\ stale = FALSE /\ listChanged = FALSE /\ overwritten = FALSE
  /\ late = {} /\ orphan = {} /\ endLost = FALSE

Spend(kind) ==
  /\ budget[kind] > 0
  /\ budget' = [budget EXCEPT ![kind] = @ - 1]

\* Entry i of a list: past its end the array holds empty names.
FileOf(list, i) == IF i < FileCount[list] THEN [list |-> list, num |-> i] ELSE NoFile

(***************************************************************************)
(* music_mgr_task: load the lists, take the one named in .eggm.music.conf  *)
(* or else the first, make it the current one.                             *)
(***************************************************************************)
LoadLists ==
  /\ pc = "boot"
  /\ pc' = "conf"
  /\ UNCHANGED <<g_cur_music, g_play, player_tid, task, play_music, play_state,
                 cur_play_num, play_list, padVars, playerVars, budget, history>>

eggm_io_read_selected_music_list ==
  /\ pc = "conf"
  /\ play_list' = IF conf = None THEN 0 ELSE conf
  /\ pc' = "select"
  /\ UNCHANGED <<g_cur_music, g_play, player_tid, task, play_music, play_state,
                 cur_play_num, padVars, playerVars, budget, history>>

SelectList ==
  /\ pc = "select"
  /\ g_cur_music' = [run_state |-> 0, listname |-> play_list, filename |-> FileOf(play_list, 0)]
  /\ play_music' = g_cur_music'
  /\ overwritten' = (g_cur_music.listname \notin {None, play_list})
  /\ pc' = "get"
  /\ UNCHANGED <<g_play, player_tid, task, play_state, cur_play_num, play_list, padVars,
                 playerVars, budget, stale, listChanged>>

\* Seeded fault: the copy is refreshed only when music is switched on or off.
CopyOnSwitch ==
  /\ pc = "get"
  /\ play_music' = IF g_cur_music.run_state = play_state THEN play_music ELSE g_cur_music
  /\ stale' = FALSE
  /\ play_state' = g_cur_music.run_state
  /\ task' = "start"
  /\ \/ g_cur_music.run_state = play_state /\ pc' = "list"
     \/ g_cur_music.run_state = 1 /\ play_state = 0 /\ pc' = "test"
     \/ g_cur_music.run_state = 0 /\ play_state = 1 /\ pc' = "stop"
  /\ UNCHANGED <<g_cur_music, g_play, player_tid, cur_play_num, play_list, padVars,
                 playerVars, budget, listChanged, overwritten>>

\* Seeded fault: a stop is noticed and nothing is killed.
StopWithoutKill ==
  /\ pc = "get"
  /\ play_music' = g_cur_music
  /\ stale' = FALSE
  /\ play_state' = g_cur_music.run_state
  /\ task' = "start"
  /\ pc' = IF g_cur_music.run_state > play_state THEN "test" ELSE "list"
  /\ UNCHANGED <<g_cur_music, g_play, player_tid, cur_play_num, play_list, padVars,
                 playerVars, budget, listChanged, overwritten>>

get_cur_music ==
  /\ pc = "get"
  /\ play_music' = g_cur_music
  /\ stale' = FALSE
  /\ play_state' = g_cur_music.run_state
  /\ task' = "start"
  /\ \/ g_cur_music.run_state = play_state /\ pc' = "list"
     \/ g_cur_music.run_state = 1 /\ play_state = 0 /\ pc' = "test"
     \/ g_cur_music.run_state = 0 /\ play_state = 1 /\ pc' = "stop"
  /\ UNCHANGED <<g_cur_music, g_play, player_tid, cur_play_num, play_list, padVars,
                 playerVars, budget, listChanged, overwritten>>

\* Seeded fault: the omxplayer script is killed, omxplayer.bin is not.
KillScriptOnly ==
  /\ late' = {p \in Players : thread[p] = "created"}
  /\ orphan' = {}
  /\ UNCHANGED <<thread, omx, song, outputVars, endLost>>

\* killall -9: a process not yet begun escapes; no closing line is written.
Killall ==
  /\ omx' = [p \in Players |-> FALSE]
  /\ late' = {p \in Players : thread[p] = "created"}
  /\ orphan' = {}
  /\ song' = [p \in Players |-> IF omx[p] THEN NoFile ELSE song[p]]
  /\ UNCHANGED <<thread, outputVars, endLost>>

\* music_stop, from the three places that call it.
music_stop(from, to) ==
  /\ pc = from
  /\ Killall
  /\ pc' = to
  /\ UNCHANGED <<g_cur_music, g_play, player_tid, task, play_music, play_state,
                 cur_play_num, play_list, padVars, budget, history>>

\* Seeded fault: the files of the new list are not fetched.
ListNotFetched ==
  /\ pc = "list"
  /\ pc' = "idle"
  /\ UNCHANGED <<g_cur_music, g_play, player_tid, task, play_music, play_state,
                 cur_play_num, play_list, padVars, playerVars, budget, history>>

CheckList ==
  /\ pc = "list"
  /\ play_list' = IF play_music.listname # None THEN play_music.listname ELSE play_list
  /\ pc' = "idle"
  /\ UNCHANGED <<g_cur_music, g_play, player_tid, task, play_music, play_state,
                 cur_play_num, padVars, playerVars, budget, history>>

\* Seeded faults: no wrap at the first file; wrap one file too early.
BeforeUnwrapped == cur_play_num - 1
NextEarlyWrap == IF cur_play_num + 1 >= FileCount[play_list] - 1 THEN 0 ELSE cur_play_num + 1

\* One on, or back to the first; one back, or to the last.
NextNum == IF cur_play_num + 1 >= FileCount[play_list] THEN 0 ELSE cur_play_num + 1
BeforeNum == IF cur_play_num - 1 < 0 THEN FileCount[play_list] - 1 ELSE cur_play_num - 1

\* What the copy and the index become when file num of play_list is to play.
PlayFile(num) ==
  /\ cur_play_num' = num
  /\ play_music' = [play_music EXCEPT !.filename = FileOf(play_list, num)]

\* Seeded fault: go on to the next file whether or not music is on.
AdvanceAlways ==
  /\ pc = "idle"
  /\ \/ /\ player_tid = 0
        /\ PlayFile(NextNum)
        /\ task' = "advance" /\ pc' = "test"
     \/ /\ player_tid # 0
        /\ pc' = "before" /\ UNCHANGED <<task, cur_play_num, play_music>>
  /\ UNCHANGED <<g_cur_music, g_play, player_tid, play_state, play_list, padVars,
                 playerVars, budget, history>>

CheckIdle ==
  /\ pc = "idle"
  /\ \/ /\ player_tid = 0 /\ play_state = 1
        /\ PlayFile(NextNum)
        /\ task' = "advance" /\ pc' = "test"
     \/ /\ ~(player_tid = 0 /\ play_state = 1)
        /\ pc' = "before" /\ UNCHANGED <<task, cur_play_num, play_music>>
  /\ UNCHANGED <<g_cur_music, g_play, player_tid, play_state, play_list, padVars,
                 playerVars, budget, history>>

\* if( g_play_before && play_state ) ... else if( g_play_next && play_state ).
CheckSkip(skip, num, otherwise) ==
  /\ pc = skip
  /\ \/ /\ g_play[skip] = 1 /\ play_state = 1
        /\ PlayFile(num)
        /\ task' = skip /\ pc' = "skip"
     \/ /\ ~(g_play[skip] = 1 /\ play_state = 1)
        /\ pc' = otherwise /\ UNCHANGED <<task, cur_play_num, play_music>>
  /\ UNCHANGED <<g_cur_music, g_play, player_tid, play_state, play_list, padVars,
                 playerVars, budget, history>>

CheckBefore == CheckSkip("before", BeforeNum, "next")
CheckNext   == CheckSkip("next", NextNum, "get")

\* music_play: kill what plays, create a player.
TestPlayer ==
  /\ pc = "test"
  /\ pc' = IF player_tid # 0 THEN "kill" ELSE "create"
  /\ UNCHANGED <<g_cur_music, g_play, player_tid, task, play_music, play_state,
                 cur_play_num, play_list, padVars, playerVars, budget, history>>

Free == {p \in Players : thread[p] = "none"}

CreatePlayer ==
  /\ pc = "create"
  /\ Free # {}
  /\ LET p == CHOOSE q \in Free : TRUE
     IN  /\ thread' = [thread EXCEPT ![p] = "created"]
         /\ song' = [song EXCEPT ![p] = play_music.filename]
         /\ player_tid' = p
         /\ late' = late \ {p} /\ orphan' = orphan \ {p}
         /\ unread' = unread \ {p}
  /\ endLost' = FALSE
  /\ pc' = IF task = "start" THEN "list" ELSE "store"
  /\ listChanged' = (listChanged /\ stale)
  /\ UNCHANGED <<g_cur_music, g_play, task, play_music, play_state, cur_play_num,
                 play_list, padVars, omx, lineInFile, solo, budget, stale, overwritten>>

\* Seeded fault: the file now playing is not published.
FileNotStored ==
  /\ pc = "store"
  /\ listChanged' = FALSE
  /\ pc' = IF task = "advance" THEN "before" ELSE "complete"
  /\ UNCHANGED <<g_cur_music, g_play, player_tid, task, play_music, play_state,
                 cur_play_num, play_list, padVars, playerVars, budget, stale, overwritten>>

\* set_cur_music: the whole copy, with the run state and the list of this round.
StoreMusic ==
  /\ pc = "store"
  /\ g_cur_music' = play_music
  /\ listChanged' = FALSE
  /\ overwritten' = (overwritten \/ (stale /\ g_cur_music.listname # play_music.listname))
  /\ pc' = IF task = "advance" THEN "before" ELSE "complete"
  /\ UNCHANGED <<g_play, player_tid, task, play_music, play_state, cur_play_num,
                 play_list, padVars, playerVars, budget, stale>>

\* Seeded fault: a served "before" clears the flag of "next", and vice versa.
CompleteOther ==
  /\ pc = "complete"
  /\ g_play' = [s \in Skips |-> IF s = task THEN g_play[s] ELSE 0]
  /\ pc' = "get"
  /\ UNCHANGED <<g_cur_music, player_tid, task, play_music, play_state, cur_play_num,
                 play_list, padVars, playerVars, budget, history>>

complate_play_music ==
  /\ pc = "complete"
  /\ g_play' = [g_play EXCEPT ![task] = 0]
  /\ pc' = "get"
  /\ UNCHANGED <<g_cur_music, player_tid, task, play_music, play_state, cur_play_num,
                 play_list, padVars, playerVars, budget, history>>

music_mgr_task ==
  \/ LoadLists \/ eggm_io_read_selected_music_list \/ SelectList \/ get_cur_music
  \/ music_stop("stop", "list") \/ music_stop("kill", "create")
  \/ music_stop("skip", "test")
  \/ CheckList \/ CheckIdle \/ CheckBefore \/ CheckNext
  \/ TestPlayer \/ CreatePlayer \/ StoreMusic \/ complate_play_music

(***************************************************************************)
(* player_thread and its omxplayer.  Starting one truncates the output     *)
(* file: closing lines still ahead of other threads may be lost, and this  *)
(* thread, which opens the file in the meantime, may find an old one.      *)
(***************************************************************************)
TruncateFor(p) ==
  /\ unread' \in SUBSET (unread \cup (IF lineInFile THEN {p} ELSE {}))
  /\ lineInFile' = FALSE

StartOmxplayer(p) ==
  /\ thread[p] = "created"
  /\ thread' = [thread EXCEPT ![p] = "polling"]
  /\ omx' = [omx EXCEPT ![p] = TRUE]
  /\ TruncateFor(p)
  /\ \/ (\A q \in Players : ~omx[q]) /\ solo' = p /\ UNCHANGED endLost
     \/ (\E q \in Players : omx[q]) /\ solo' = 0 /\ endLost' = TRUE
  /\ UNCHANGED <<g_cur_music, g_play, player_tid, mgrVars, padVars, song, late, orphan,
                 budget, history>>

(***************************************************************************)
(* The file is played to its end.  Whoever polls the output may find the   *)
(* closing line; its own thread is sure to only while no other process has *)
(* written the file, for two of them write over each other.                *)
(***************************************************************************)
Polling == {p \in Players : thread[p] = "polling"}

\* The process is gone.
Quit(p) ==
  /\ omx' = [omx EXCEPT ![p] = FALSE]
  /\ song' = [song EXCEPT ![p] = NoFile]
  /\ late' = late \ {p} /\ orphan' = orphan \ {p}

EndSong(p) ==
  /\ omx[p]
  /\ Quit(p)
  /\ lineInFile' = TRUE
  /\ \E readers \in SUBSET Polling :
       /\ p \in Polling /\ solo = p => p \in readers
       /\ unread' = unread \cup readers
  /\ UNCHANGED <<g_cur_music, g_play, player_tid, mgrVars, padVars, thread, solo,
                 endLost, budget, history>>

ReadClosingLine(p) ==
  /\ thread[p] = "polling" /\ p \in unread
  /\ thread' = [thread EXCEPT ![p] = "closing"]
  /\ unread' = unread \ {p}
  /\ UNCHANGED <<g_cur_music, g_play, player_tid, mgrVars, padVars, omx, song,
                 lineInFile, solo, late, orphan, endLost, budget, history>>

InPlay(p) == thread[p] = "created" \/ omx[p]

\* Seeded fault: a thread clears player_tid only where it names itself.
LeaveOwnOnly(p) ==
  /\ thread[p] = "closing" /\ ~omx[p]
  /\ thread' = [thread EXCEPT ![p] = "none"]
  /\ player_tid' = IF player_tid = p THEN 0 ELSE player_tid
  /\ UNCHANGED <<g_cur_music, g_play, mgrVars, padVars, omx, song, outputVars, late,
                 orphan, endLost, budget, history>>

\* pclose has waited for the process.  player_tid is cleared, whosever it is.
LeavePlayer(p) ==
  /\ thread[p] = "closing" /\ ~omx[p]
  /\ thread' = [thread EXCEPT ![p] = "none"]
  /\ player_tid' = 0
  /\ orphan' = orphan \cup {q \in Players \ {p} : q = player_tid /\ InPlay(q)}
  /\ UNCHANGED <<g_cur_music, g_play, mgrVars, padVars, omx, song, outputVars, late,
                 endLost, budget, history>>

(***************************************************************************)
(* popen fails and the thread ends; or omxplayer ends without the closing  *)
(* line, at once (a file it cannot open, or the empty name past the end of *)
(* a list) or later.                                                       *)
(***************************************************************************)
FailPlayer(p) ==
  /\ IF song[p] = NoFile /\ thread[p] = "created" THEN UNCHANGED budget ELSE Spend("fault")
  /\ \/ /\ thread[p] = "created"
        /\ thread' = [thread EXCEPT ![p] = "none"]
        /\ UNCHANGED outputVars
     \/ /\ thread[p] = "created"
        /\ thread' = [thread EXCEPT ![p] = "polling"]
        /\ TruncateFor(p) /\ solo' = 0
     \/ /\ omx[p]
        /\ UNCHANGED <<thread, outputVars>>
  /\ Quit(p)
  /\ endLost' = TRUE
  /\ UNCHANGED <<g_cur_music, g_play, player_tid, mgrVars, padVars, history>>

Player(p) ==
  StartOmxplayer(p) \/ EndSong(p) \/ ReadClosingLine(p) \/ LeavePlayer(p)

(***************************************************************************)
(* The pad thread and the scheduler.  Before the lists are loaded all      *)
(* names are empty and a change of list finds nothing to change; every     *)
(* change of list stops the music.                                         *)
(***************************************************************************)
change_cur_music_list(num) ==
  /\ padPc = "idle"
  /\ pc # "boot" /\ g_cur_music.listname # num
  /\ Spend("list")
  /\ padList' = num
  /\ padPc' = "set"
  /\ UNCHANGED <<g_cur_music, g_play, player_tid, mgrVars, conf, playerVars, history>>

PadSetMusic ==
  /\ padPc = "set"
  /\ g_cur_music' = [run_state |-> 0, listname |-> padList, filename |-> FileOf(padList, 0)]
  /\ stale' = TRUE /\ listChanged' = TRUE /\ overwritten' = FALSE
  /\ padPc' = "conf"
  /\ UNCHANGED <<g_play, player_tid, mgrVars, padList, conf, playerVars, budget>>

\* Seeded fault: the choice of list is not saved.
ChoiceNotSaved ==
  /\ padPc = "conf"
  /\ padPc' = "idle"
  /\ UNCHANGED <<g_cur_music, g_play, player_tid, mgrVars, padList, conf, playerVars, budget, history>>

eggm_io_write_selected_music_list ==
  /\ padPc = "conf"
  /\ conf' = padList
  /\ padPc' = "idle"
  /\ UNCHANGED <<g_cur_music, g_play, player_tid, mgrVars, padList, playerVars, budget, history>>

\* set_cur_music_run_state (pad) and set_music_run_state (scheduler).
set_music_run_state(is_on) ==
  /\ Spend("run")
  /\ g_cur_music' = [g_cur_music EXCEPT !.run_state = is_on]
  /\ stale' = TRUE
  /\ UNCHANGED <<g_play, player_tid, mgrVars, padVars, playerVars, listChanged, overwritten>>

play_skip_music(skip) ==
  /\ Spend("skip")
  /\ g_play' = [g_play EXCEPT ![skip] = 1]
  /\ UNCHANGED <<g_cur_music, player_tid, mgrVars, padVars, playerVars, history>>

Pad == PadSetMusic \/ eggm_io_write_selected_music_list

Next ==
  \/ music_mgr_task
  \/ \E p \in Players : Player(p) \/ FailPlayer(p)
  \/ Pad
  \/ \E num \in Lists : change_cur_music_list(num)
  \/ \E is_on \in Bit : set_music_run_state(is_on)
  \/ \E skip \in Skips : play_skip_music(skip)

Spec == Init /\ [][Next]_vars

(***************************************************************************)
(* Threads run, files have an end and the pad's handler returns.           *)
(***************************************************************************)
FairSpec ==
  /\ Spec
  /\ WF_vars(music_mgr_task) /\ WF_vars(Pad)
  /\ \A p \in Players : WF_vars(Player(p))

-----------------------------------------------------------------------------
(***************************************************************************)
(* Safety.                                                                 *)
(***************************************************************************)
(***************************************************************************)
(* What a round of the task writes back (set_cur_music stores the whole    *)
(* record) is the run state and the list as they are, unless the pad or    *)
(* the scheduler has stored since the round began: only then is a stop or  *)
(* a change of list lost.                                                  *)
(***************************************************************************)
RoundCopyCurrent ==
  pc \notin {"boot", "conf", "select", "get"} /\ ~stale =>
    /\ play_music.run_state = g_cur_music.run_state
    /\ play_music.listname = g_cur_music.listname

(***************************************************************************)
(* A file is never looked for in the wrong directory: the file named in    *)
(* g_cur_music is one of the list named there, through every race of a     *)
(* change of list with the task's own stores.                              *)
(***************************************************************************)
SongOfList ==
  g_cur_music.filename # NoFile => g_cur_music.filename.list = g_cur_music.listname

(***************************************************************************)
(* What the pad is shown is what plays: the player the task knows of, if   *)
(* it plays at all, plays the file g_cur_music names, unless a change of   *)
(* list intervened.                                                        *)
(***************************************************************************)
NowPlaying ==
  player_tid # 0 /\ pc # "store" /\ ~listChanged =>
    song[player_tid] \in {g_cur_music.filename, NoFile}

(***************************************************************************)
(* Two files are heard at once for two reasons only: a kill came before    *)
(* the process had begun, or another player's thread took the closing line *)
(* for its own and cleared player_tid (eggm_music.c:284, 305, 316).        *)
(***************************************************************************)
SecondPlayerExplained ==
  \A p \in Players : omx[p] /\ p # player_tid => p \in late \cup orphan

(***************************************************************************)
(* Music that is on never waits for nothing: as long as player_tid is set, *)
(* some player is yet to begin, is playing, or its thread has the closing  *)
(* line ahead of it or has read it, and will clear player_tid in the end,  *)
(* whosever player that names.  Not so once a process has failed (popen,   *)
(* or a "before" past the end of a new list, which gives omxplayer an      *)
(* empty name), or has begun while another was playing (eggm_music.c:265,  *)
(* 454-460, 270-284).  A kill is made good by the player created next.     *)
(***************************************************************************)
WillMoveOn(p) == InPlay(p) \/ p \in unread \/ thread[p] = "closing"

NeverWaitsForNothing ==
  player_tid # 0 /\ play_state = 1 /\ pc \notin {"test", "kill", "create"} /\ ~endLost =>
    \E p \in Players : WillMoveOn(p)

(***************************************************************************)
(* Once the task has carried out a stop, only a process that had not begun *)
(* by then still plays.                                                    *)
(***************************************************************************)
StopSilences ==
  play_state = 0 /\ pc # "stop" => \A p \in Players : omx[p] => p \in late

(***************************************************************************)
(* The list in .eggm.music.conf is the list in use, unless the task has    *)
(* written an older one back: at boot, or in a round that was under way.   *)
(***************************************************************************)
SavedListIsCurrent ==
  pc \notin {"boot", "conf", "select"} /\ padPc = "idle" /\ conf # None /\ ~overwritten =>
    conf = g_cur_music.listname

(***************************************************************************)
(* Liveness.                                                               *)
(***************************************************************************)
(***************************************************************************)
(* If music is to be off for good, it falls silent for good, whatever      *)
(* players were left behind.                                               *)
(***************************************************************************)
StopsEventually ==
  <>[](g_cur_music.run_state = 0) => <>[](\A p \in Players : ~omx[p])

(***************************************************************************)
(* A "before" or "next" command is served as long as music is on.          *)
(***************************************************************************)
SkipServed ==
  \A s \in Skips : (g_play[s] = 1) ~> (g_play[s] = 0 \/ g_cur_music.run_state = 0)

(***************************************************************************)
(* The player goes round: once music stays on, every file of the list in   *)
(* use is played again and again, whatever skips, whatever change of list  *)
(* and whatever stale threads came before.  Not so after the end of a song *)
(* may have been lost: two processes that play at once write over each     *)
(* other's output, and one that fails, for want of a process or of a name  *)
(* ("before" past the end of a new list), says nothing at all; then the    *)
(* player may wait for ever (eggm_music.c:265, 270-284, 454-460).          *)
(***************************************************************************)
Heard(list, i) == \E p \in Players : omx[p] /\ song[p] = [list |-> list, num |-> i]

Rotation ==
  <>[](g_cur_music.run_state = 1 /\ ~endLost) =>
    \A list \in Lists : []<>(g_cur_music.listname = list) =>
      \A i \in 0..(FileCount[list] - 1) : []<>Heard(list, i)

=============================================================================
