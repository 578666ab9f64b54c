-------------------------- MODULE EggmMusicProofs --------------------------
(***************************************************************************)
(* Proofs about EggmMusic, for every number of lists, files and players    *)
(* and every choice of budgets: types, what the task's own stores may      *)
(* undo, which file is shown and played, which processes can still be      *)
(* heard and which list is saved.                                          *)
(***************************************************************************)
EXTENDS EggmMusic, TLAPS

(***************************************************************************)
(* The inductive invariant.  Booting: before the first list is current;    *)
(* Creating: inside music_play, where a player is about to be created.     *)
(***************************************************************************)
Booting  == pc \in {"boot", "conf", "select"}
Creating == pc \in {"test", "kill", "create"}

\* What brought the task where it is.
TaskInv ==
  /\ pc = "store" => task # "start"
  /\ pc \in {"skip", "complete"} => task \in Skips
  /\ Creating \/ pc \in {"store", "skip", "complete"} => play_state = 1
  /\ Booting => player_tid = 0

\* The task takes its files from the list it works with.
ListInv ==
  /\ ~Booting => g_cur_music.listname \in Lists /\ play_music.listname \in Lists
  /\ pc \in {"idle", "before", "next", "skip", "store"} \/ (Creating /\ task # "start")
       => play_list = play_music.listname
  /\ play_music.filename # NoFile => play_music.filename.list = play_music.listname

\* A process has a thread that has started it.
ProcessInv == \A p \in Players : omx[p] => thread[p] \in {"polling", "closing"}

\* StopSilences, and players that are to start still.
QuietInv ==
  play_state = 0 /\ pc # "stop" => \A p \in Players : InPlay(p) => p \in late

\* SecondPlayerExplained, and players that are to start still; none has
\* escaped when the next one is created.
KnownInv ==
  /\ \A p \in Players : InPlay(p) /\ p # player_tid => p \in late \cup orphan
  /\ pc = "create" => \A p \in Players : InPlay(p) => p \in late \cup orphan

\* The file a player is given is the one shown, or about to be shown.
FileInv ==
  /\ Creating /\ task = "start" /\ (~stale \/ ~listChanged) =>
       play_music.filename = g_cur_music.filename
  /\ pc = "store" /\ player_tid # 0 => song[player_tid] \in {play_music.filename, NoFile}

\* Between the change of list and its saving, and while booting.
SaveInv ==
  /\ padPc = "conf" =>
       /\ g_cur_music.listname # None
       /\ ~overwritten => g_cur_music.listname = padList
  /\ Booting =>
       /\ ~overwritten
       /\ padPc = "idle" /\ g_cur_music.listname # None => conf = g_cur_music.listname
  /\ pc = "select" /\ g_cur_music.listname = None =>
       play_list = IF conf = None THEN 0 ELSE conf

\* The same in four groups, by what they speak of.
ShownInv  == RoundCopyCurrent /\ SongOfList /\ ListInv /\ TaskInv
SavedInv  == SavedListIsCurrent /\ SaveInv
PlayedInv == NowPlaying /\ FileInv
HeardInv  == ProcessInv /\ QuietInv /\ KnownInv
IInv == TypeOK /\ ShownInv /\ SavedInv /\ PlayedInv /\ HeardInv

\* A process that has not written the file alone has another one to come, whose
\* beginning will count as a loss.
AloneInv ==
  ~endLost => \A p \in Players : omx[p] /\ p # solo => \E q \in Players : thread[q] = "created"

EndInv ==
  /\ NeverWaitsForNothing /\ AloneInv
  /\ pc = "stop" => play_state = 0

-----------------------------------------------------------------------------
(***************************************************************************)
(* The places of a list: every list has a first file, and an index is one  *)
(* of the array's.                                                         *)
(***************************************************************************)
LEMMA PlaceTypes ==
  /\ 0 \in Lists /\ 0 \in Files
  /\ None \notin Lists
  /\ \A list \in Lists, i \in Files : FileOf(list, i) \in Song \cup {NoFile}
<1>1. 0 \in Lists
  BY ListsAssumption DEF Lists
<1>2. \A list \in Lists : FileCount[list] \in Nat /\ 1 <= FileCount[list]
                          /\ FileCount[list] <= MAX_MUSIC_FILE_IN_LIST
  BY FileCountAssumption
<1>3. 0 \in Files
  BY <1>1, <1>2, FileCountAssumption DEF Files
<1>4. None \notin Lists
  BY ListsAssumption DEF Lists, None
<1>5. \A list \in Lists, i \in Files : FileOf(list, i) \in Song \cup {NoFile}
  BY DEF FileOf, Song
<1> QED
  BY <1>1, <1>3, <1>4, <1>5

(***************************************************************************)
(* The file before and the file after are places of the array again.       *)
(***************************************************************************)
LEMMA NumTypes ==
  ASSUME cur_play_num \in Files, play_list \in Lists
  PROVE  NextNum \in Files /\ BeforeNum \in Files
<1>1. /\ FileCount[play_list] \in Nat /\ 1 <= FileCount[play_list]
      /\ FileCount[play_list] <= MAX_MUSIC_FILE_IN_LIST
  BY FileCountAssumption
<1>2. MAX_MUSIC_FILE_IN_LIST \in Nat
  BY FileCountAssumption
<1> QED
  BY <1>1, <1>2 DEF NextNum, BeforeNum, Files

(***************************************************************************)
(* A file's list is the list it was taken from.                            *)
(***************************************************************************)
LEMMA FileOfList ==
  ASSUME NEW list, NEW i
  PROVE  FileOf(list, i) # NoFile => FileOf(list, i).list = list
  BY DEF FileOf

(***************************************************************************)
(* Spending from the budget leaves a budget.                               *)
(***************************************************************************)
LEMMA SpendType ==
  ASSUME NEW kind \in Disturbances, budget \in [Disturbances -> Nat], Spend(kind)
  PROVE  budget' \in [Disturbances -> Nat]
  BY DEF Spend

(***************************************************************************)
(* The task's copy of the record, once it names another file.              *)
(***************************************************************************)
LEMMA PlayFileType ==
  ASSUME NEW num \in Files, play_list \in Lists, play_music \in MusicData, PlayFile(num)
  PROVE  /\ cur_play_num' \in Files /\ play_music' \in MusicData
         /\ play_music'.filename = FileOf(play_list, num)
         /\ play_music'.run_state = play_music.run_state
         /\ play_music'.listname = play_music.listname
  BY PlaceTypes DEF PlayFile, MusicData

(***************************************************************************)
(* Killing leaves the types as they are.                                   *)
(***************************************************************************)
LEMMA KillallType ==
  ASSUME TypeOK, Killall
  PROVE  /\ omx' \in [Players -> BOOLEAN] /\ song' \in [Players -> Song \cup {NoFile}]
         /\ late' \subseteq Players /\ orphan' \subseteq Players
         /\ UNCHANGED <<thread, unread, lineInFile, solo, endLost>>
  BY DEF Killall, TypeOK, outputVars

(***************************************************************************)
(* So does the end of a process.                                           *)
(***************************************************************************)
LEMMA QuitType ==
  ASSUME TypeOK, NEW p \in Players, Quit(p)
  PROVE  /\ omx' \in [Players -> BOOLEAN] /\ song' \in [Players -> Song \cup {NoFile}]
         /\ late' \subseteq Players /\ orphan' \subseteq Players
  BY DEF Quit, TypeOK

(***************************************************************************)
(* Type correctness is inductive on its own.                               *)
(***************************************************************************)
LEMMA InitTypeOK == Init => TypeOK
<1> SUFFICES ASSUME Init PROVE TypeOK
  OBVIOUS
<1>1. NoMusic \in MusicData
  BY DEF NoMusic, MusicData, Bit
<1> QED
  BY <1>1, PlaceTypes, BudgetsAssumption DEF Init, TypeOK, Bit

LEMMA NextTypeOK ==
  ASSUME TypeOK, [Next]_vars
  PROVE  TypeOK'
<1> USE DEF TypeOK
<1> USE DEF padVars, playerVars, outputVars, history, mgrVars
<1>1. CASE LoadLists
  BY <1>1 DEF LoadLists
<1>2. CASE eggm_io_read_selected_music_list
  BY <1>2, PlaceTypes DEF eggm_io_read_selected_music_list
<1>3. CASE SelectList
  <2>1. FileOf(play_list, 0) \in Song \cup {NoFile}
    BY PlaceTypes
  <2>2. g_cur_music' \in MusicData
    BY <1>3, <2>1 DEF SelectList, MusicData, Bit
  <2> QED
    BY <1>3, <2>2 DEF SelectList
<1>4. CASE get_cur_music
  <2>1. g_cur_music.run_state \in Bit
    BY DEF MusicData
  <2> QED
    BY <1>4, <2>1 DEF get_cur_music
<1>5. CASE music_stop("stop", "list")
  BY <1>5, KillallType DEF music_stop
<1>6. CASE music_stop("kill", "create")
  BY <1>6, KillallType DEF music_stop
<1>7. CASE music_stop("skip", "test")
  BY <1>7, KillallType DEF music_stop
<1>8. CASE CheckList
  <2>1. play_list' \in Lists
    BY <1>8 DEF CheckList, MusicData
  <2> QED
    BY <1>8, <2>1 DEF CheckList
<1>9. CASE CheckIdle
  <2>1. cur_play_num' \in Files /\ play_music' \in MusicData
    BY <1>9, NumTypes, PlayFileType DEF CheckIdle
  <2> QED
    BY <1>9, <2>1 DEF CheckIdle
<1>10. CASE CheckBefore
  <2>1. cur_play_num' \in Files /\ play_music' \in MusicData
    BY <1>10, NumTypes, PlayFileType DEF CheckBefore, CheckSkip
  <2> QED
    BY <1>10, <2>1 DEF CheckBefore, CheckSkip, Skips
<1>11. CASE CheckNext
  <2>1. cur_play_num' \in Files /\ play_music' \in MusicData
    BY <1>11, NumTypes, PlayFileType DEF CheckNext, CheckSkip
  <2> QED
    BY <1>11, <2>1 DEF CheckNext, CheckSkip, Skips
<1>12. CASE TestPlayer
  BY <1>12 DEF TestPlayer
<1>13. CASE CreatePlayer
  <2> DEFINE p == CHOOSE q \in Free : TRUE
  <2>1. /\ p \in Players
        /\ thread' = [thread EXCEPT ![p] = "created"]
        /\ song' = [song EXCEPT ![p] = play_music.filename]
        /\ player_tid' = p
        /\ late' = late \ {p} /\ orphan' = orphan \ {p} /\ unread' = unread \ {p}
    BY <1>13 DEF CreatePlayer, Free
  <2> HIDE DEF p
  <2>2. play_music.filename \in Song \cup {NoFile}
    BY DEF MusicData
  <2>3. song' \in [Players -> Song \cup {NoFile}]
    BY <2>1, <2>2
  <2> QED
    BY <1>13, <2>1, <2>3 DEF CreatePlayer
<1>14. CASE StoreMusic
  BY <1>14 DEF StoreMusic
<1>15. CASE complate_play_music
  <2>1. g_play' \in [Skips -> Bit]
    BY <1>15 DEF complate_play_music, Bit
  <2> QED
    BY <1>15, <2>1 DEF complate_play_music
<1>16. ASSUME NEW p \in Players, StartOmxplayer(p)
       PROVE  TypeOK'
  <2>1. unread' \subseteq Players /\ lineInFile' \in BOOLEAN
    BY <1>16 DEF StartOmxplayer, TruncateFor
  <2>2. solo' \in Players \cup {0} /\ endLost' \in BOOLEAN
    BY <1>16 DEF StartOmxplayer
  <2> QED
    BY <1>16, <2>1, <2>2 DEF StartOmxplayer
<1>17. ASSUME NEW p \in Players, EndSong(p)
       PROVE  TypeOK'
  <2>1. unread' \subseteq Players
    BY <1>17 DEF EndSong, Polling
  <2> QED
    BY <1>17, <2>1, QuitType DEF EndSong
<1>18. ASSUME NEW p \in Players, ReadClosingLine(p)
       PROVE  TypeOK'
  BY <1>18 DEF ReadClosingLine
<1>19. ASSUME NEW p \in Players, LeavePlayer(p)
       PROVE  TypeOK'
  BY <1>19 DEF LeavePlayer
<1>20. ASSUME NEW p \in Players, FailPlayer(p)
       PROVE  TypeOK'
  <2>1. budget' \in [Disturbances -> Nat]
    BY <1>20, SpendType DEF FailPlayer, Disturbances
  <2>2. /\ thread' \in [Players -> {"none", "created", "polling", "closing"}]
        /\ unread' \subseteq Players /\ lineInFile' \in BOOLEAN /\ solo' \in Players \cup {0}
    BY <1>20 DEF FailPlayer, TruncateFor
  <2>3. Quit(p)
    BY <1>20 DEF FailPlayer
  <2> QED
    BY <1>20, <2>1, <2>2, <2>3, QuitType DEF FailPlayer
<1>21. ASSUME NEW num \in Lists, change_cur_music_list(num)
       PROVE  TypeOK'
  <2>1. budget' \in [Disturbances -> Nat]
    BY <1>21, SpendType DEF change_cur_music_list, Disturbances
  <2> QED
    BY <1>21, <2>1 DEF change_cur_music_list
<1>22. CASE PadSetMusic
  <2>1. FileOf(padList, 0) \in Song \cup {NoFile}
    BY PlaceTypes
  <2>2. g_cur_music' \in MusicData
    BY <1>22, <2>1 DEF PadSetMusic, MusicData, Bit
  <2> QED
    BY <1>22, <2>2 DEF PadSetMusic
<1>23. CASE eggm_io_write_selected_music_list
  BY <1>23 DEF eggm_io_write_selected_music_list
<1>24. ASSUME NEW is_on \in Bit, set_music_run_state(is_on)
       PROVE  TypeOK'
  <2>1. budget' \in [Disturbances -> Nat]
    BY <1>24, SpendType DEF set_music_run_state, Disturbances
  <2>2. g_cur_music' \in MusicData
    BY <1>24 DEF set_music_run_state, MusicData
  <2> QED
    BY <1>24, <2>1, <2>2 DEF set_music_run_state
<1>25. ASSUME NEW skip \in Skips, play_skip_music(skip)
       PROVE  TypeOK'
  <2>1. budget' \in [Disturbances -> Nat]
    BY <1>25, SpendType DEF play_skip_music, Disturbances
  <2>2. g_play' \in [Skips -> Bit]
    BY <1>25 DEF play_skip_music, Bit
  <2> QED
    BY <1>25, <2>1, <2>2 DEF play_skip_music
<1>26. CASE UNCHANGED vars
  BY <1>26 DEF vars
<1> QED
  BY <1>1, <1>2, <1>3, <1>4, <1>5, <1>6, <1>7, <1>8, <1>9, <1>10, <1>11, <1>12, <1>13,
     <1>14, <1>15, <1>16, <1>17, <1>18, <1>19, <1>20, <1>21, <1>22, <1>23, <1>24,
     <1>25, <1>26
     DEF Next, music_mgr_task, Player, Pad

(***************************************************************************)
(* No player is player 0.                                                  *)
(***************************************************************************)
LEMMA NoPlayer == 0 \notin Players
  BY PlayersAssumption DEF Players

(***************************************************************************)
(* Killing ends songs and changes none; so does the end of a process.      *)
(***************************************************************************)
LEMMA KillallSong ==
  ASSUME TypeOK, Killall, player_tid # 0
  PROVE  song'[player_tid] \in {song[player_tid], NoFile}
  BY DEF Killall, TypeOK

LEMMA QuitSong ==
  ASSUME TypeOK, NEW p \in Players, Quit(p), player_tid # 0
  PROVE  song'[player_tid] \in {song[player_tid], NoFile}
  BY DEF Quit, TypeOK

(***************************************************************************)
(* What can still be heard when a process is gone, or a thread has failed  *)
(* to start one: nobody is in play that was not before.                    *)
(***************************************************************************)
LEMMA QuitHeard ==
  ASSUME TypeOK, HeardInv, NEW p \in Players, Quit(p),
         \/ UNCHANGED thread /\ omx[p]
         \/ thread' = [thread EXCEPT ![p] = "none"]
         \/ thread' = [thread EXCEPT ![p] = "polling"],
         UNCHANGED <<pc, play_state, player_tid>>
  PROVE  HeardInv'
<1>1. \A q \in Players \ {p} : thread'[q] = thread[q] /\ omx'[q] = omx[q]
  BY DEF Quit, TypeOK
<1>2. ~omx'[p] /\ thread'[p] # "created"
  BY DEF Quit, TypeOK, HeardInv, ProcessInv
<1>3. late' = late \ {p} /\ orphan' = orphan \ {p}
  BY DEF Quit
<1>4. ProcessInv'
  BY <1>1, <1>2 DEF HeardInv, ProcessInv
<1>5. QuietInv'
  BY <1>1, <1>2, <1>3 DEF HeardInv, QuietInv, InPlay
<1>6. KnownInv'
  BY <1>1, <1>2, <1>3 DEF HeardInv, KnownInv, InPlay
<1> QED
  BY <1>4, <1>5, <1>6 DEF HeardInv

(***************************************************************************)
(* Every step preserves the other parts of the invariant.                  *)
(***************************************************************************)
LEMMA NextInv ==
  ASSUME IInv, [Next]_vars
  PROVE  ShownInv' /\ SavedInv' /\ PlayedInv' /\ HeardInv'
<1> USE DEF IInv, padVars, playerVars, outputVars, history, mgrVars
<1>1. CASE LoadLists
  <2>1. ShownInv'
    BY <1>1 DEF LoadLists, ShownInv, RoundCopyCurrent, SongOfList, ListInv, TaskInv, Booting, Creating
  <2>2. SavedInv'
    BY <1>1 DEF LoadLists, SavedInv, SavedListIsCurrent, SaveInv, Booting
  <2>3. PlayedInv'
    BY <1>1 DEF LoadLists, PlayedInv, NowPlaying, FileInv, Creating
  <2>4. HeardInv'
    BY <1>1 DEF LoadLists, HeardInv, ProcessInv, QuietInv, KnownInv, InPlay
  <2> QED
    BY <2>1, <2>2, <2>3, <2>4
<1>2. CASE eggm_io_read_selected_music_list
  <2>1. ShownInv'
    BY <1>2 DEF eggm_io_read_selected_music_list, ShownInv, RoundCopyCurrent, SongOfList, ListInv, TaskInv, Booting, Creating
  <2>2. SavedInv'
    BY <1>2 DEF eggm_io_read_selected_music_list, SavedInv, SavedListIsCurrent, SaveInv, Booting
  <2>3. PlayedInv'
    BY <1>2 DEF eggm_io_read_selected_music_list, PlayedInv, NowPlaying, FileInv, Creating
  <2>4. HeardInv'
    BY <1>2 DEF eggm_io_read_selected_music_list, HeardInv, ProcessInv, QuietInv, KnownInv, InPlay
  <2> QED
    BY <2>1, <2>2, <2>3, <2>4
<1>3. CASE SelectList
  <2>0. /\ pc = "select" /\ pc' = "get" /\ player_tid' = player_tid /\ player_tid = 0
        /\ play_list \in Lists /\ play_list # None
        /\ g_cur_music'.listname = play_list
        /\ g_cur_music'.filename = FileOf(play_list, 0)
        /\ play_music' = g_cur_music'
        /\ overwritten' = (g_cur_music.listname \notin {None, play_list})
        /\ UNCHANGED <<padPc, padList, conf, play_state>>
    BY <1>3, PlaceTypes DEF SelectList, TypeOK, ShownInv, TaskInv, Booting
  <2>1. ShownInv'
    BY <2>0, FileOfList DEF ShownInv, RoundCopyCurrent, SongOfList, ListInv, TaskInv, Booting, Creating
  <2>2. SavedInv'
    BY <2>0 DEF SavedInv, SavedListIsCurrent, SaveInv, Booting
  <2>3. PlayedInv'
    BY <2>0 DEF PlayedInv, NowPlaying, FileInv, Creating
  <2>4. HeardInv'
    BY <1>3 DEF SelectList, HeardInv, ProcessInv, QuietInv, KnownInv, InPlay
  <2> QED
    BY <2>1, <2>2, <2>3, <2>4
<1>4. CASE get_cur_music
  <2>1. ShownInv'
    BY <1>4 DEF get_cur_music, ShownInv, RoundCopyCurrent, SongOfList, ListInv, TaskInv, Booting, Creating
  <2>2. SavedInv'
    BY <1>4 DEF get_cur_music, SavedInv, SavedListIsCurrent, SaveInv, Booting
  <2>3. PlayedInv'
    BY <1>4 DEF get_cur_music, PlayedInv, NowPlaying, FileInv, Creating
  <2>4. HeardInv'
    BY <1>4 DEF get_cur_music, HeardInv, ProcessInv, QuietInv, KnownInv, InPlay
  <2> QED
    BY <2>1, <2>2, <2>3, <2>4
<1>5. CASE music_stop("stop", "list")
  <2>1. ShownInv'
    BY <1>5 DEF music_stop, Killall, ShownInv, RoundCopyCurrent, SongOfList, ListInv, TaskInv, Booting, Creating
  <2>2. SavedInv'
    BY <1>5 DEF music_stop, Killall, SavedInv, SavedListIsCurrent, SaveInv, Booting
  <2>3. PlayedInv'
    BY <1>5, KillallSong DEF music_stop, PlayedInv, NowPlaying, FileInv, Creating
  <2>4. HeardInv'
    BY <1>5 DEF music_stop, Killall, HeardInv, ProcessInv, QuietInv, KnownInv, InPlay
  <2> QED
    BY <2>1, <2>2, <2>3, <2>4
<1>6. CASE music_stop("kill", "create")
  <2>1. ShownInv'
    BY <1>6 DEF music_stop, Killall, ShownInv, RoundCopyCurrent, SongOfList, ListInv, TaskInv, Booting, Creating
  <2>2. SavedInv'
    BY <1>6 DEF music_stop, Killall, SavedInv, SavedListIsCurrent, SaveInv, Booting
  <2>3. PlayedInv'
    BY <1>6, KillallSong DEF music_stop, PlayedInv, NowPlaying, FileInv, Creating
  <2>4. HeardInv'
    BY <1>6 DEF music_stop, Killall, HeardInv, ProcessInv, QuietInv, KnownInv, InPlay
  <2> QED
    BY <2>1, <2>2, <2>3, <2>4
<1>7. CASE music_stop("skip", "test")
  <2>1. ShownInv'
    BY <1>7 DEF music_stop, Killall, ShownInv, RoundCopyCurrent, SongOfList, ListInv, TaskInv, Booting, Creating
  <2>2. SavedInv'
    BY <1>7 DEF music_stop, Killall, SavedInv, SavedListIsCurrent, SaveInv, Booting
  <2>3. PlayedInv'
    BY <1>7, KillallSong DEF music_stop, ShownInv, TaskInv, Skips, PlayedInv, NowPlaying, FileInv, Creating
  <2>4. HeardInv'
    BY <1>7 DEF music_stop, Killall, HeardInv, ProcessInv, QuietInv, KnownInv, InPlay
  <2> QED
    BY <2>1, <2>2, <2>3, <2>4
<1>8. CASE CheckList
  <2>0. play_music.listname \in Lists /\ play_list' = play_music.listname
    BY <1>8, PlaceTypes DEF CheckList, ShownInv, ListInv, Booting
  <2>1. ShownInv'
    BY <1>8, <2>0 DEF CheckList, ShownInv, RoundCopyCurrent, SongOfList, ListInv, TaskInv, Booting, Creating
  <2>2. SavedInv'
    BY <1>8 DEF CheckList, SavedInv, SavedListIsCurrent, SaveInv, Booting
  <2>3. PlayedInv'
    BY <1>8 DEF CheckList, PlayedInv, NowPlaying, FileInv, Creating
  <2>4. HeardInv'
    BY <1>8 DEF CheckList, HeardInv, ProcessInv, QuietInv, KnownInv, InPlay
  <2> QED
    BY <2>1, <2>2, <2>3, <2>4
<1>9. CASE CheckIdle
  <2>1. ShownInv'
    <3>1. CASE PlayFile(NextNum)
      <4>1. /\ play_music'.filename = FileOf(play_list, NextNum)
            /\ play_music'.run_state = play_music.run_state
            /\ play_music'.listname = play_music.listname
        BY <3>1, NumTypes, PlayFileType DEF TypeOK
      <4>2. play_list = play_music.listname
        BY <1>9 DEF CheckIdle, ShownInv, ListInv
      <4> QED
        BY <1>9, <4>1, <4>2, FileOfList DEF CheckIdle, Skips, ShownInv, RoundCopyCurrent, SongOfList, ListInv, TaskInv, Booting, Creating
    <3>2. CASE UNCHANGED play_music
      BY <1>9, <3>2 DEF CheckIdle, Skips, ShownInv, RoundCopyCurrent, SongOfList, ListInv, TaskInv, Booting, Creating
    <3> QED
      BY <1>9, <3>1, <3>2 DEF CheckIdle
  <2>2. SavedInv'
    BY <1>9 DEF CheckIdle, SavedInv, SavedListIsCurrent, SaveInv, Booting
  <2>3. PlayedInv'
    BY <1>9 DEF CheckIdle, PlayedInv, NowPlaying, FileInv, Creating
  <2>4. HeardInv'
    BY <1>9 DEF CheckIdle, HeardInv, ProcessInv, QuietInv, KnownInv, InPlay
  <2> QED
    BY <2>1, <2>2, <2>3, <2>4
<1>10. CASE CheckBefore
  <2>1. ShownInv'
    <3>1. CASE PlayFile(BeforeNum)
      <4>1. /\ play_music'.filename = FileOf(play_list, BeforeNum)
            /\ play_music'.run_state = play_music.run_state
            /\ play_music'.listname = play_music.listname
        BY <3>1, NumTypes, PlayFileType DEF TypeOK
      <4>2. play_list = play_music.listname
        BY <1>10 DEF CheckBefore, CheckSkip, ShownInv, ListInv
      <4> QED
        BY <1>10, <4>1, <4>2, FileOfList DEF CheckBefore, CheckSkip, Skips, ShownInv, RoundCopyCurrent, SongOfList, ListInv, TaskInv, Booting, Creating
    <3>2. CASE UNCHANGED play_music
      BY <1>10, <3>2 DEF CheckBefore, CheckSkip, Skips, ShownInv, RoundCopyCurrent, SongOfList, ListInv, TaskInv, Booting, Creating
    <3> QED
      BY <1>10, <3>1, <3>2 DEF CheckBefore, CheckSkip
  <2>2. SavedInv'
    BY <1>10 DEF CheckBefore, CheckSkip, SavedInv, SavedListIsCurrent, SaveInv, Booting
  <2>3. PlayedInv'
    BY <1>10 DEF CheckBefore, CheckSkip, PlayedInv, NowPlaying, FileInv, Creating
  <2>4. HeardInv'
    BY <1>10 DEF CheckBefore, CheckSkip, HeardInv, ProcessInv, QuietInv, KnownInv, InPlay
  <2> QED
    BY <2>1, <2>2, <2>3, <2>4
<1>11. CASE CheckNext
  <2>1. ShownInv'
    <3>1. CASE PlayFile(NextNum)
      <4>1. /\ play_music'.filename = FileOf(play_list, NextNum)
            /\ play_music'.run_state = play_music.run_state
            /\ play_music'.listname = play_music.listname
        BY <3>1, NumTypes, PlayFileType DEF TypeOK
      <4>2. play_list = play_music.listname
        BY <1>11 DEF CheckNext, CheckSkip, ShownInv, ListInv
      <4> QED
        BY <1>11, <4>1, <4>2, FileOfList DEF CheckNext, CheckSkip, Skips, ShownInv, RoundCopyCurrent, SongOfList, ListInv, TaskInv, Booting, Creating
    <3>2. CASE UNCHANGED play_music
      BY <1>11, <3>2 DEF CheckNext, CheckSkip, Skips, ShownInv, RoundCopyCurrent, SongOfList, ListInv, TaskInv, Booting, Creating
    <3> QED
      BY <1>11, <3>1, <3>2 DEF CheckNext, CheckSkip
  <2>2. SavedInv'
    BY <1>11 DEF CheckNext, CheckSkip, SavedInv, SavedListIsCurrent, SaveInv, Booting
  <2>3. PlayedInv'
    BY <1>11 DEF CheckNext, CheckSkip, PlayedInv, NowPlaying, FileInv, Creating
  <2>4. HeardInv'
    BY <1>11 DEF CheckNext, CheckSkip, HeardInv, ProcessInv, QuietInv, KnownInv, InPlay
  <2> QED
    BY <2>1, <2>2, <2>3, <2>4
<1>12. CASE TestPlayer
  <2>1. ShownInv'
    BY <1>12 DEF TestPlayer, ShownInv, RoundCopyCurrent, SongOfList, ListInv, TaskInv, Booting, Creating
  <2>2. SavedInv'
    BY <1>12 DEF TestPlayer, SavedInv, SavedListIsCurrent, SaveInv, Booting
  <2>3. PlayedInv'
    BY <1>12 DEF TestPlayer, PlayedInv, NowPlaying, FileInv, Creating
  <2>4. HeardInv'
    BY <1>12, NoPlayer DEF TestPlayer, HeardInv, ProcessInv, QuietInv, KnownInv, InPlay
  <2> QED
    BY <2>1, <2>2, <2>3, <2>4
<1>13. CASE CreatePlayer
  <2> DEFINE p == CHOOSE q \in Free : TRUE
  <2>0. /\ p \in Players /\ thread[p] = "none"
        /\ thread' = [thread EXCEPT ![p] = "created"]
        /\ song' = [song EXCEPT ![p] = play_music.filename]
        /\ player_tid' = p
        /\ late' = late \ {p} /\ orphan' = orphan \ {p}
    BY <1>13 DEF CreatePlayer, Free
  <2> HIDE DEF p
  <2>1. ShownInv'
    BY <1>13 DEF CreatePlayer, ShownInv, RoundCopyCurrent, SongOfList, ListInv, TaskInv, Booting, Creating
  <2>2. SavedInv'
    BY <1>13 DEF CreatePlayer, SavedInv, SavedListIsCurrent, SaveInv, Booting
  <2>3. PlayedInv'
    <3>1. song'[player_tid'] = play_music.filename
      BY <2>0 DEF TypeOK
    <3>2. CASE task = "start"
      BY <1>13, <3>1, <3>2 DEF CreatePlayer, PlayedInv, NowPlaying, FileInv, Creating
    <3>3. CASE task # "start"
      BY <1>13, <3>1, <3>3 DEF CreatePlayer, PlayedInv, NowPlaying, FileInv, Creating
    <3> QED
      BY <3>2, <3>3
  <2>4. HeardInv'
    <3>1. play_state' = 1 /\ pc = "create" /\ pc' # "create" /\ omx' = omx
      BY <1>13 DEF CreatePlayer, ShownInv, TaskInv, Creating
    <3>2. \A q \in Players : q # p => thread'[q] = thread[q]
      BY <2>0 DEF TypeOK
    <3>3. ~omx[p]
      BY <2>0 DEF HeardInv, ProcessInv
    <3>4. ProcessInv'
      BY <3>1, <3>2, <3>3 DEF HeardInv, ProcessInv
    <3>5. QuietInv'
      BY <3>1 DEF QuietInv
    <3>6. KnownInv'
      BY <2>0, <3>1, <3>2 DEF HeardInv, KnownInv, InPlay
    <3> QED
      BY <3>4, <3>5, <3>6 DEF HeardInv
  <2> QED
    BY <2>1, <2>2, <2>3, <2>4
<1>14. CASE StoreMusic
  <2>1. ShownInv'
    BY <1>14 DEF StoreMusic, TypeOK, ShownInv, RoundCopyCurrent, SongOfList, ListInv, TaskInv, Booting, Creating
  <2>2. SavedInv'
    BY <1>14, PlaceTypes DEF StoreMusic, ShownInv, ListInv, RoundCopyCurrent, SavedInv, SavedListIsCurrent, SaveInv, Booting
  <2>3. PlayedInv'
    BY <1>14 DEF StoreMusic, PlayedInv, NowPlaying, FileInv, Creating
  <2>4. HeardInv'
    BY <1>14 DEF StoreMusic, HeardInv, ProcessInv, QuietInv, KnownInv, InPlay
  <2> QED
    BY <2>1, <2>2, <2>3, <2>4
<1>15. CASE complate_play_music
  <2>1. ShownInv'
    BY <1>15 DEF complate_play_music, ShownInv, RoundCopyCurrent, SongOfList, ListInv, TaskInv, Booting, Creating
  <2>2. SavedInv'
    BY <1>15 DEF complate_play_music, SavedInv, SavedListIsCurrent, SaveInv, Booting
  <2>3. PlayedInv'
    BY <1>15 DEF complate_play_music, PlayedInv, NowPlaying, FileInv, Creating
  <2>4. HeardInv'
    BY <1>15 DEF complate_play_music, HeardInv, ProcessInv, QuietInv, KnownInv, InPlay
  <2> QED
    BY <2>1, <2>2, <2>3, <2>4
<1>16. ASSUME NEW p \in Players, StartOmxplayer(p)
      PROVE  ShownInv' /\ SavedInv' /\ PlayedInv' /\ HeardInv'
  <2>1. ShownInv'
    BY <1>16 DEF StartOmxplayer, ShownInv, RoundCopyCurrent, SongOfList, ListInv, TaskInv, Booting, Creating
  <2>2. SavedInv'
    BY <1>16 DEF StartOmxplayer, SavedInv, SavedListIsCurrent, SaveInv, Booting
  <2>3. PlayedInv'
    BY <1>16 DEF StartOmxplayer, PlayedInv, NowPlaying, FileInv, Creating
  <2>4. HeardInv'
    <3>1. /\ thread' = [thread EXCEPT ![p] = "polling"] /\ omx' = [omx EXCEPT ![p] = TRUE]
          /\ thread[p] = "created"
          /\ UNCHANGED <<late, orphan, player_tid, pc, play_state>>
      BY <1>16 DEF StartOmxplayer
    <3>2. \A q \in Players : /\ q # p => thread'[q] = thread[q] /\ omx'[q] = omx[q]
                             /\ InPlay(q)' => InPlay(q)
      BY <3>1 DEF TypeOK, InPlay
    <3>3. thread'[p] = "polling"
      BY <3>1 DEF TypeOK
    <3>4. ProcessInv'
      BY <3>2, <3>3 DEF HeardInv, ProcessInv
    <3> QED
      BY <3>1, <3>2, <3>4 DEF HeardInv, QuietInv, KnownInv
  <2> QED
    BY <2>1, <2>2, <2>3, <2>4
<1>17. ASSUME NEW p \in Players, EndSong(p)
      PROVE  ShownInv' /\ SavedInv' /\ PlayedInv' /\ HeardInv'
  <2>1. ShownInv'
    BY <1>17 DEF EndSong, ShownInv, RoundCopyCurrent, SongOfList, ListInv, TaskInv, Booting, Creating
  <2>2. SavedInv'
    BY <1>17 DEF EndSong, SavedInv, SavedListIsCurrent, SaveInv, Booting
  <2>3. PlayedInv'
    BY <1>17, QuitSong DEF EndSong, PlayedInv, NowPlaying, FileInv, Creating
  <2>4. HeardInv'
    BY <1>17, QuitHeard DEF EndSong
  <2> QED
    BY <2>1, <2>2, <2>3, <2>4
<1>18. ASSUME NEW p \in Players, ReadClosingLine(p)
      PROVE  ShownInv' /\ SavedInv' /\ PlayedInv' /\ HeardInv'
  <2>1. ShownInv'
    BY <1>18 DEF ReadClosingLine, ShownInv, RoundCopyCurrent, SongOfList, ListInv, TaskInv, Booting, Creating
  <2>2. SavedInv'
    BY <1>18 DEF ReadClosingLine, SavedInv, SavedListIsCurrent, SaveInv, Booting
  <2>3. PlayedInv'
    BY <1>18 DEF ReadClosingLine, PlayedInv, NowPlaying, FileInv, Creating
  <2>4. HeardInv'
    BY <1>18 DEF ReadClosingLine, HeardInv, ProcessInv, QuietInv, KnownInv, InPlay
  <2> QED
    BY <2>1, <2>2, <2>3, <2>4
<1>19. ASSUME NEW p \in Players, LeavePlayer(p)
      PROVE  ShownInv' /\ SavedInv' /\ PlayedInv' /\ HeardInv'
  <2>1. ShownInv'
    BY <1>19 DEF LeavePlayer, ShownInv, RoundCopyCurrent, SongOfList, ListInv, TaskInv, Booting, Creating
  <2>2. SavedInv'
    BY <1>19 DEF LeavePlayer, SavedInv, SavedListIsCurrent, SaveInv, Booting
  <2>3. PlayedInv'
    BY <1>19 DEF LeavePlayer, PlayedInv, NowPlaying, FileInv, Creating
  <2>4. HeardInv'
    BY <1>19 DEF LeavePlayer, HeardInv, ProcessInv, QuietInv, KnownInv, InPlay
  <2> QED
    BY <2>1, <2>2, <2>3, <2>4
<1>20. ASSUME NEW p \in Players, FailPlayer(p)
      PROVE  ShownInv' /\ SavedInv' /\ PlayedInv' /\ HeardInv'
  <2>1. ShownInv'
    BY <1>20 DEF FailPlayer, ShownInv, RoundCopyCurrent, SongOfList, ListInv, TaskInv, Booting, Creating
  <2>2. SavedInv'
    BY <1>20 DEF FailPlayer, SavedInv, SavedListIsCurrent, SaveInv, Booting
  <2>3. PlayedInv'
    BY <1>20, QuitSong DEF FailPlayer, PlayedInv, NowPlaying, FileInv, Creating
  <2>4. HeardInv'
    BY <1>20, QuitHeard DEF FailPlayer
  <2> QED
    BY <2>1, <2>2, <2>3, <2>4
<1>21. ASSUME NEW num \in Lists, change_cur_music_list(num)
      PROVE  ShownInv' /\ SavedInv' /\ PlayedInv' /\ HeardInv'
  <2>1. ShownInv'
    BY <1>21 DEF change_cur_music_list, ShownInv, RoundCopyCurrent, SongOfList, ListInv, TaskInv, Booting, Creating
  <2>2. SavedInv'
    BY <1>21 DEF change_cur_music_list, SavedInv, SavedListIsCurrent, SaveInv, Booting
  <2>3. PlayedInv'
    BY <1>21 DEF change_cur_music_list, PlayedInv, NowPlaying, FileInv, Creating
  <2>4. HeardInv'
    BY <1>21 DEF change_cur_music_list, HeardInv, ProcessInv, QuietInv, KnownInv, InPlay
  <2> QED
    BY <2>1, <2>2, <2>3, <2>4
<1>22. CASE PadSetMusic
  <2>0. /\ g_cur_music'.listname = padList /\ padList \in Lists /\ padList # None
        /\ g_cur_music'.filename = FileOf(padList, 0)
        /\ padPc' = "conf" /\ padList' = padList
        /\ stale' = TRUE /\ listChanged' = TRUE /\ overwritten' = FALSE
        /\ UNCHANGED <<pc, task, play_music, play_state, play_list, player_tid, conf>>
    BY <1>22, PlaceTypes DEF PadSetMusic, TypeOK
  <2>1. ShownInv'
    BY <2>0, FileOfList DEF ShownInv, RoundCopyCurrent, SongOfList, ListInv, TaskInv, Booting, Creating
  <2>2. SavedInv'
    BY <2>0 DEF SavedInv, SavedListIsCurrent, SaveInv, Booting
  <2>3. PlayedInv'
    BY <1>22 DEF PadSetMusic, PlayedInv, NowPlaying, FileInv, Creating
  <2>4. HeardInv'
    BY <1>22 DEF PadSetMusic, HeardInv, ProcessInv, QuietInv, KnownInv, InPlay
  <2> QED
    BY <2>1, <2>2, <2>3, <2>4
<1>23. CASE eggm_io_write_selected_music_list
  <2>1. ShownInv'
    BY <1>23 DEF eggm_io_write_selected_music_list, ShownInv, RoundCopyCurrent, SongOfList, ListInv, TaskInv, Booting, Creating
  <2>2. SavedInv'
    BY <1>23 DEF eggm_io_write_selected_music_list, SavedInv, SavedListIsCurrent, SaveInv, Booting
  <2>3. PlayedInv'
    BY <1>23 DEF eggm_io_write_selected_music_list, PlayedInv, NowPlaying, FileInv, Creating
  <2>4. HeardInv'
    BY <1>23 DEF eggm_io_write_selected_music_list, HeardInv, ProcessInv, QuietInv, KnownInv, InPlay
  <2> QED
    BY <2>1, <2>2, <2>3, <2>4
<1>24. ASSUME NEW is_on \in Bit, set_music_run_state(is_on)
      PROVE  ShownInv' /\ SavedInv' /\ PlayedInv' /\ HeardInv'
  <2>1. ShownInv'
    BY <1>24 DEF set_music_run_state, ShownInv, RoundCopyCurrent, SongOfList, ListInv, TaskInv, Booting, Creating
  <2>2. SavedInv'
    BY <1>24 DEF set_music_run_state, SavedInv, SavedListIsCurrent, SaveInv, Booting
  <2>3. PlayedInv'
    BY <1>24 DEF set_music_run_state, PlayedInv, NowPlaying, FileInv, Creating
  <2>4. HeardInv'
    BY <1>24 DEF set_music_run_state, HeardInv, ProcessInv, QuietInv, KnownInv, InPlay
  <2> QED
    BY <2>1, <2>2, <2>3, <2>4
<1>25. ASSUME NEW skip \in Skips, play_skip_music(skip)
      PROVE  ShownInv' /\ SavedInv' /\ PlayedInv' /\ HeardInv'
  <2>1. ShownInv'
    BY <1>25 DEF play_skip_music, ShownInv, RoundCopyCurrent, SongOfList, ListInv, TaskInv, Booting, Creating
  <2>2. SavedInv'
    BY <1>25 DEF play_skip_music, SavedInv, SavedListIsCurrent, SaveInv, Booting
  <2>3. PlayedInv'
    BY <1>25 DEF play_skip_music, PlayedInv, NowPlaying, FileInv, Creating
  <2>4. HeardInv'
    BY <1>25 DEF play_skip_music, HeardInv, ProcessInv, QuietInv, KnownInv, InPlay
  <2> QED
    BY <2>1, <2>2, <2>3, <2>4
<1>26. CASE UNCHANGED vars
  <2>1. ShownInv'
    BY <1>26 DEF vars, ShownInv, RoundCopyCurrent, SongOfList, ListInv, TaskInv, Booting, Creating
  <2>2. SavedInv'
    BY <1>26 DEF vars, SavedInv, SavedListIsCurrent, SaveInv, Booting
  <2>3. PlayedInv'
    BY <1>26 DEF vars, PlayedInv, NowPlaying, FileInv, Creating
  <2>4. HeardInv'
    BY <1>26 DEF vars, HeardInv, ProcessInv, QuietInv, KnownInv, InPlay
  <2> QED
    BY <2>1, <2>2, <2>3, <2>4
<1> QED
  BY <1>1, <1>2, <1>3, <1>4, <1>5, <1>6, <1>7, <1>8, <1>9, <1>10, <1>11, <1>12, <1>13, <1>14, <1>15, <1>16, <1>17, <1>18, <1>19, <1>20, <1>21, <1>22, <1>23, <1>24, <1>25, <1>26
     DEF Next, music_mgr_task, Player, Pad

(***************************************************************************)
(* The end of a song.  Most steps leave the players alone and do not leave *)
(* music_play.                                                             *)
(***************************************************************************)
LEMMA AwayFromPlayers ==
  ASSUME EndInv, UNCHANGED <<playerVars, player_tid, play_state>>,
         pc \in {"test", "kill", "create"} => pc' \in {"test", "kill", "create"},
         pc' = "stop" => pc = "stop"
  PROVE  EndInv'
  BY DEF EndInv, NeverWaitsForNothing, WillMoveOn, InPlay, AloneInv, playerVars, outputVars

(***************************************************************************)
(* When a song ends, its thread or a player not yet begun will move on.    *)
(***************************************************************************)
LEMMA EndOfSong ==
  ASSUME TypeOK, ProcessInv, EndInv, NEW p \in Players, EndSong(p)
  PROVE  EndInv'
<1>1. /\ omx[p] /\ Quit(p)
      /\ p \in Polling /\ solo = p => p \in unread'
      /\ unread \subseteq unread'
      /\ UNCHANGED <<player_tid, pc, play_state, thread, solo, endLost>>
  BY DEF EndSong, mgrVars
<1>2. \A q \in Players : omx'[q] => omx[q]
  BY <1>1 DEF Quit, TypeOK
<1>3. AloneInv'
  BY <1>1, <1>2 DEF EndInv, AloneInv
<1>4. ~endLost => \E q \in Players : WillMoveOn(q)'
  <2>1. CASE thread[p] = "closing"
    BY <1>1, <2>1 DEF WillMoveOn
  <2>2. CASE thread[p] = "polling" /\ solo = p
    BY <1>1, <2>2 DEF WillMoveOn, Polling
  <2>3. CASE ~endLost /\ solo # p
    BY <1>1, <2>3 DEF EndInv, AloneInv, WillMoveOn, InPlay
  <2> QED
    BY <1>1, <2>1, <2>2, <2>3 DEF ProcessInv
<1> QED
  BY <1>1, <1>3, <1>4 DEF EndInv, NeverWaitsForNothing

(***************************************************************************)
(* Every step preserves EndInv.                                            *)
(***************************************************************************)
LEMMA NextEnd ==
  ASSUME IInv, EndInv, [Next]_vars
  PROVE  EndInv'
<1>0. TypeOK /\ ProcessInv
  BY DEF IInv, HeardInv
<1>1. CASE \/ LoadLists \/ eggm_io_read_selected_music_list \/ SelectList
           \/ CheckList \/ CheckIdle \/ CheckBefore \/ CheckNext
           \/ TestPlayer \/ StoreMusic \/ complate_play_music
  <2>1. /\ UNCHANGED <<playerVars, player_tid, play_state>> /\ pc' # "stop"
        /\ pc \in {"test", "kill", "create"} => pc' \in {"test", "kill", "create"}
    BY <1>1 DEF LoadLists, eggm_io_read_selected_music_list, SelectList, CheckList,
                CheckIdle, CheckBefore, CheckNext, CheckSkip, TestPlayer, StoreMusic,
                complate_play_music
  <2> QED
    BY <2>1, AwayFromPlayers
<1>2. CASE \/ Pad
           \/ \E num \in Lists : change_cur_music_list(num)
           \/ \E is_on \in Bit : set_music_run_state(is_on)
           \/ \E skip \in Skips : play_skip_music(skip)
           \/ UNCHANGED vars
  <2>1. UNCHANGED <<playerVars, player_tid, play_state, pc>>
    BY <1>2 DEF Pad, PadSetMusic, eggm_io_write_selected_music_list, change_cur_music_list,
                set_music_run_state, play_skip_music, vars, mgrVars
  <2> QED
    BY <2>1, AwayFromPlayers
<1>3. CASE get_cur_music
  BY <1>3 DEF get_cur_music, EndInv, NeverWaitsForNothing, WillMoveOn, InPlay, AloneInv,
              playerVars, outputVars
<1>4. CASE \/ music_stop("stop", "list") \/ music_stop("kill", "create")
           \/ music_stop("skip", "test")
  <2>1. \A p \in Players : ~omx'[p]
    BY <1>4 DEF music_stop, Killall
  <2>2. /\ play_state' = play_state
        /\ pc' \in {"test", "create"} \/ (pc = "stop" /\ pc' = "list")
    BY <1>4 DEF music_stop
  <2> QED
    BY <2>1, <2>2 DEF EndInv, NeverWaitsForNothing, AloneInv
<1>5. CASE CreatePlayer
  <2>1. PICK p \in Players : thread'[p] = "created"
    BY <1>0, <1>5 DEF CreatePlayer, Free, TypeOK
  <2>2. pc' # "stop"
    BY <1>5 DEF CreatePlayer
  <2> QED
    BY <2>1, <2>2 DEF EndInv, NeverWaitsForNothing, WillMoveOn, InPlay, AloneInv
<1>6. ASSUME NEW p \in Players, StartOmxplayer(p)
      PROVE  EndInv'
  <2>1. omx'[p] /\ UNCHANGED <<pc, play_state>>
    BY <1>0, <1>6 DEF StartOmxplayer, mgrVars, TypeOK
  <2>2. AloneInv'
    <3>1. CASE \A q \in Players : ~omx[q]
      BY <1>0, <1>6, <3>1 DEF StartOmxplayer, AloneInv, TypeOK
    <3>2. CASE \E q \in Players : omx[q]
      BY <1>6, <3>2 DEF StartOmxplayer, AloneInv
    <3> QED
      BY <3>1, <3>2
  <2> QED
    BY <2>1, <2>2 DEF EndInv, NeverWaitsForNothing, WillMoveOn, InPlay
<1>7. ASSUME NEW p \in Players, EndSong(p)
      PROVE  EndInv'
  BY <1>0, <1>7, EndOfSong
<1>8. ASSUME NEW p \in Players, ReadClosingLine(p)
      PROVE  EndInv'
  <2>1. /\ thread'[p] = "closing" /\ thread[p] = "polling"
        /\ \A q \in Players \ {p} : thread'[q] = thread[q]
        /\ UNCHANGED <<pc, play_state, omx, solo, endLost>>
    BY <1>0, <1>8 DEF ReadClosingLine, mgrVars, TypeOK
  <2>2. AloneInv'
    BY <2>1 DEF EndInv, AloneInv
  <2> QED
    BY <2>1, <2>2 DEF EndInv, NeverWaitsForNothing, WillMoveOn
<1>9. ASSUME NEW p \in Players, LeavePlayer(p)
      PROVE  EndInv'
  <2>1. /\ thread[p] = "closing" /\ player_tid' = 0
        /\ \A q \in Players \ {p} : thread'[q] = thread[q]
        /\ UNCHANGED <<pc, play_state, omx, solo, endLost>>
    BY <1>0, <1>9 DEF LeavePlayer, mgrVars, outputVars, TypeOK
  <2>2. AloneInv'
    BY <2>1 DEF EndInv, AloneInv
  <2> QED
    BY <2>1, <2>2 DEF EndInv, NeverWaitsForNothing
<1>10. ASSUME NEW p \in Players, FailPlayer(p)
       PROVE  EndInv'
  <2>1. endLost' /\ UNCHANGED <<pc, play_state>>
    BY <1>10 DEF FailPlayer, mgrVars
  <2> QED
    BY <2>1 DEF EndInv, NeverWaitsForNothing, AloneInv
<1> QED
  BY <1>1, <1>2, <1>3, <1>4, <1>5, <1>6, <1>7, <1>8, <1>9, <1>10
     DEF Next, music_mgr_task, Player

(***************************************************************************)
(* The other parts hold at the start: no player, no file, no list yet.     *)
(***************************************************************************)
LEMMA InitInv == Init => ShownInv /\ SavedInv /\ PlayedInv /\ HeardInv
<1> SUFFICES ASSUME Init PROVE ShownInv /\ SavedInv /\ PlayedInv /\ HeardInv
  OBVIOUS
<1>1. ShownInv
  BY DEF Init, NoMusic, ShownInv, RoundCopyCurrent, SongOfList, ListInv, TaskInv, Booting, Creating
<1>2. SavedInv
  BY DEF Init, NoMusic, SavedInv, SavedListIsCurrent, SaveInv, Booting
<1>3. PlayedInv
  BY DEF Init, PlayedInv, NowPlaying, FileInv, Creating
<1>4. HeardInv
  BY DEF Init, HeardInv, ProcessInv, QuietInv, KnownInv, InPlay
<1> QED
  BY <1>1, <1>2, <1>3, <1>4

(***************************************************************************)
(* The inductive invariant holds in every reachable state.                 *)
(***************************************************************************)
LEMMA Invariance == Spec => [](IInv /\ EndInv)
<1>1. Init => IInv
  BY InitTypeOK, InitInv DEF IInv
<1>2. Init => EndInv
  BY DEF Init, EndInv, NeverWaitsForNothing, AloneInv
<1>3. IInv /\ [Next]_vars => IInv'
  BY NextTypeOK, NextInv DEF IInv
<1>4. IInv /\ EndInv /\ [Next]_vars => EndInv'
  BY NextEnd
<1> QED
  BY <1>1, <1>2, <1>3, <1>4, PTL DEF Spec

-----------------------------------------------------------------------------
(***************************************************************************)
(* The variables keep their types; the index of the file to play stays     *)
(* within the array of file names, whatever skips and changes of list come *)
(* in between.                                                             *)
(***************************************************************************)
THEOREM TypeCorrect == Spec => []TypeOK
<1>1. IInv => TypeOK
  BY DEF IInv
<1> QED
  BY <1>1, Invariance, PTL

(***************************************************************************)
(* The task's copy of g_cur_music is out of date only in a round during    *)
(* which the pad or the scheduler has stored: no other round undoes a stop *)
(* or a change of list when it writes the whole record back.               *)
(***************************************************************************)
THEOREM RoundCopiesStayCurrent == Spec => []RoundCopyCurrent
<1>1. IInv => RoundCopyCurrent
  BY DEF IInv, ShownInv
<1> QED
  BY <1>1, Invariance, PTL

(***************************************************************************)
(* The file named in g_cur_music always lies in the list named there.      *)
(***************************************************************************)
THEOREM FilesAreOfTheirList == Spec => []SongOfList
<1>1. IInv => SongOfList
  BY DEF IInv, ShownInv
<1> QED
  BY <1>1, Invariance, PTL

(***************************************************************************)
(* The player the task knows of plays the file the pad is shown, unless a  *)
(* change of list intervened.                                              *)
(***************************************************************************)
THEOREM ShowsWhatPlays == Spec => []NowPlaying
<1>1. IInv => NowPlaying
  BY DEF IInv, PlayedInv
<1> QED
  BY <1>1, Invariance, PTL

(***************************************************************************)
(* A process other than the known player's escaped a kill by beginning     *)
(* after it, or had its player_tid cleared by another player's thread.     *)
(***************************************************************************)
THEOREM SecondPlayersExplained == Spec => []SecondPlayerExplained
<1>1. IInv => SecondPlayerExplained
  BY DEF IInv, HeardInv, KnownInv, InPlay, SecondPlayerExplained
<1> QED
  BY <1>1, Invariance, PTL

(***************************************************************************)
(* Unless a process has failed or has begun beside another one since the   *)
(* last player was created, somebody will clear player_tid whenever it is  *)
(* set: music that is on goes on.                                          *)
(***************************************************************************)
THEOREM MusicGoesOn == Spec => []NeverWaitsForNothing
<1>1. EndInv => NeverWaitsForNothing
  BY DEF EndInv
<1> QED
  BY <1>1, Invariance, PTL

(***************************************************************************)
(* A stop the task has carried out silences every process that had begun.  *)
(***************************************************************************)
THEOREM StopsSilence == Spec => []StopSilences
<1>1. IInv => StopSilences
  BY DEF IInv, HeardInv, QuietInv, InPlay, StopSilences
<1> QED
  BY <1>1, Invariance, PTL

(***************************************************************************)
(* The saved list is the one in use unless the task has written an older   *)
(* one back.                                                               *)
(***************************************************************************)
THEOREM SavedListStaysCurrent == Spec => []SavedListIsCurrent
<1>1. IInv => SavedListIsCurrent
  BY DEF IInv, SavedInv
<1> QED
  BY <1>1, Invariance, PTL

=============================================================================
