------------------------------- MODULE EggmPw -------------------------------
(***************************************************************************)
(* The power component of eggm: the shared record g_eggm_pw_data, guarded  *)
(* by pw_mutex (eggm_pw.c), and its three writers:                         *)
(*                                                                         *)
(*   - pw_mgr_task (eggm_pw.c), which copies the record, waits for a       *)
(*     report of the power board on the serial line, folds the report into *)
(*     its COPY, stores the copy back and answers the board with it;       *)
(*   - the pad thread's SET_PW handler (eggm_pad.c), which copies the      *)
(*     record, changes state_auto and stores the copy back;                *)
(*   - the schedule thread (eggm_schedule.c), which reads state_auto and   *)
(*     later stores the opposite value, touching that field only.          *)
(*                                                                         *)
(* Every lock..unlock section is one step; between two sections of one     *)
(* thread the others may run.  The board and the line are external.        *)
(***************************************************************************)
EXTENDS Naturals, Sequences

CONSTANTS
  PadCommands,  (* values the pad sends as data[0] of EGGM_PAD_SET_PW       *)
  Budget        (* how often each kind of disturbance may still happen      *)

Bit == {0, 1}
Disturbances == {"command", "press", "fault"}

ASSUME PadCommandsAssumption == PadCommands \subseteq 0..255
ASSUME BudgetAssumption == Budget \in [Disturbances -> Nat]

VARIABLES
  g_eggm_pw_data,      (* the shared record                                 *)
  g_pw_machine_state,  (* 1 once a frame has been read from the board       *)
  pwPc,                (* where pw_mgr_task is                              *)
  pw_data,             (* pw_mgr_task's local copy of the record            *)
  pw_data_by_machine,  (* the report it is folding in                       *)
  padPc, padPw,        (* the SET_PW handler and its local copy             *)
  schedPc, schedAuto,  (* the schedule thread and the value it will store   *)
  rx, tx,              (* serial line: board to host, host to board         *)
  board, waiting,      (* the board, and whether it waits for an answer     *)
  budget,              (* what is left of Budget                            *)
  pwStale, padStale    (* history: has another thread stored into the       *)
                       (* record since this thread's copy equalled it?      *)

pwVars    == <<pwPc, pw_data, pw_data_by_machine, g_pw_machine_state, pwStale>>
padVars   == <<padPc, padPw, padStale>>
schedVars == <<schedPc, schedAuto>>
lineVars  == <<rx, tx>>
boardVars == <<board, waiting>>
vars == <<g_eggm_pw_data, pwVars, padVars, schedVars, lineVars, boardVars, budget>>

(***************************************************************************)
(* state_port is copied along and never changed or read, so it is left     *)
(* out.  state_auto is a char taken from the pad as it is (0xFF: "set      *)
(* port").                                                                 *)
(***************************************************************************)
PwData == [state_physical : Bit, state_auto : Bit \cup PadCommands, state_real : Bit]

(***************************************************************************)
(* A report on the line, and the first thing wrong with it as seen by the  *)
(* reader: a bad first or second header byte, nothing after the first      *)
(* byte, or a checksum that does not match.                                *)
(***************************************************************************)
Faults == {"key1", "cut", "key2", "sum"}
Frame == [state_physical : Bit, state_real : Bit, bad : Faults \cup {"none"}]
Report(b, bad) == [state_physical |-> b.physical, state_real |-> b.real, bad |-> bad]

TypeOK ==
  /\ g_eggm_pw_data \in PwData
  /\ g_pw_machine_state \in Bit
  /\ pwPc \in {"stopped", "get", "key1", "key2", "body", "real", "physical", "send"}
  /\ pw_data \in PwData
  /\ pw_data_by_machine \in [state_physical : Bit, state_real : Bit]
  /\ padPc \in {"idle", "set"} /\ padPw \in PwData
  /\ schedPc \in {"idle", "set"} /\ schedAuto \in Bit
  /\ rx \in Seq(Frame) /\ tx \in Seq(PwData)
  /\ (pwPc \in {"key2", "body"}) => rx # <<>>
  /\ board \in [physical : Bit, real : Bit] /\ waiting \in BOOLEAN
  /\ budget \in [Disturbances -> Nat]
  /\ pwStale \in BOOLEAN /\ padStale \in BOOLEAN

(***************************************************************************)
(* The globals start as zeros.  pw_mgr_task ends at once when              *)
(* /dev/ttyUSB0 cannot be opened.                                          *)
(***************************************************************************)
Zero == [state_physical |-> 0, state_auto |-> 0, state_real |-> 0]

Init ==
  /\ g_eggm_pw_data = Zero /\ g_pw_machine_state = 0
  /\ pwPc \in {"stopped", "get"}
  /\ pw_data = Zero
  /\ pw_data_by_machine = [state_physical |-> 0, state_real |-> 0]
  /\ padPc = "idle" /\ padPw = Zero
  /\ schedPc = "idle" /\ schedAuto = 0
  /\ rx = <<>> /\ tx = <<>>
  /\ board \in [physical : Bit, real : Bit] /\ waiting = FALSE
  /\ budget = Budget
  /\ pwStale = FALSE /\ padStale = FALSE

Spend(kind) ==
  /\ budget[kind] > 0
  /\ budget' = [budget EXCEPT ![kind] = @ - 1]

(***************************************************************************)
(* pw_mgr_task.                                                            *)
(***************************************************************************)
get_pw_data ==
  /\ pwPc = "get"
  /\ pw_data' = g_eggm_pw_data
  /\ pwStale' = FALSE
  /\ pwPc' = "key1"
  /\ UNCHANGED <<g_eggm_pw_data, g_pw_machine_state, pw_data_by_machine,
                 padVars, schedVars, lineVars, boardVars, budget>>

\* What a read that leaves the record alone may change.
Reading == UNCHANGED <<g_eggm_pw_data, pw_data, pwStale, padVars, schedVars,
                       boardVars, budget>>

\* tcflush(fd, TCIOFLUSH): everything received and everything unsent is lost.
Tcflush == rx' = <<>> /\ tx' = <<>> /\ pwPc' = "get"

\* The read came back without a byte: around the loop, copying afresh.
ReadNothing ==
  /\ pwPc = "key1" /\ rx = <<>>
  /\ pwPc' = "get"
  /\ UNCHANGED <<lineVars, g_pw_machine_state, pw_data_by_machine>>
  /\ Reading

ReadKey1 ==
  /\ pwPc = "key1" /\ rx # <<>>
  /\ \/ Head(rx).bad = "key1" /\ Tcflush
     \/ Head(rx).bad # "key1" /\ pwPc' = "key2" /\ UNCHANGED lineVars
  /\ UNCHANGED <<g_pw_machine_state, pw_data_by_machine>>
  /\ Reading

ReadKey2 ==
  /\ pwPc = "key2"
  /\ \/ Head(rx).bad = "cut" /\ Len(rx) = 1 /\ pwPc' = "get" /\ rx' = <<>> /\ UNCHANGED tx
     \/ Head(rx).bad = "cut" /\ Len(rx) > 1 /\ Tcflush   \* the next frame's first byte
     \/ Head(rx).bad = "key2" /\ Tcflush
     \/ Head(rx).bad \notin {"cut", "key2"} /\ pwPc' = "body" /\ UNCHANGED lineVars
  /\ UNCHANGED <<g_pw_machine_state, pw_data_by_machine>>
  /\ Reading

ReadBody ==
  /\ pwPc = "body"
  /\ g_pw_machine_state' = 1
  /\ \/ Head(rx).bad = "sum" /\ Tcflush /\ UNCHANGED pw_data_by_machine
     \/ /\ Head(rx).bad # "sum"
        /\ pw_data_by_machine' = [state_physical |-> Head(rx).state_physical,
                                  state_real |-> Head(rx).state_real]
        /\ rx' = Tail(rx) /\ UNCHANGED tx
        /\ pwPc' = "real"
  /\ Reading

\* set_pw_data by pw_mgr_task: the whole record becomes the (changed) copy.
StoreCopy(copy) ==
  /\ pw_data' = copy
  /\ g_eggm_pw_data' = copy
  /\ pwStale' = FALSE
  /\ padStale' = TRUE
KeepCopy == UNCHANGED <<pw_data, g_eggm_pw_data, pwStale, padStale>>

\* Seeded fault: the real state is folded into the copy and not stored.
FoldRealUnstored ==
  /\ pwPc = "real"
  /\ pwPc' = "physical"
  /\ pw_data' = [pw_data EXCEPT !.state_real = pw_data_by_machine.state_real,
                                !.state_auto = pw_data_by_machine.state_real]
  /\ UNCHANGED <<g_eggm_pw_data, pwStale, padStale, pw_data_by_machine,
                 g_pw_machine_state, padPc, padPw, schedVars, lineVars, boardVars, budget>>

\* Seeded fault: the test for a difference is missing.
FoldRealAlways ==
  /\ pwPc = "real"
  /\ pwPc' = "physical"
  /\ StoreCopy([pw_data EXCEPT !.state_real = pw_data_by_machine.state_real,
                               !.state_auto = pw_data_by_machine.state_real])
  /\ UNCHANGED <<pw_data_by_machine, g_pw_machine_state, padPc, padPw, schedVars,
                 lineVars, boardVars, budget>>

FoldReal ==
  /\ pwPc = "real"
  /\ pwPc' = "physical"
  /\ IF pw_data.state_real # pw_data_by_machine.state_real
     THEN StoreCopy([pw_data EXCEPT !.state_real = pw_data_by_machine.state_real,
                                    !.state_auto = pw_data_by_machine.state_real])
     ELSE KeepCopy
  /\ UNCHANGED <<pw_data_by_machine, g_pw_machine_state, padPc, padPw, schedVars,
                 lineVars, boardVars, budget>>

\* Seeded fault: a change of the button also resets the commanded state.
FoldPhysicalAndAuto ==
  /\ pwPc = "physical"
  /\ pwPc' = "send"
  /\ IF pw_data.state_physical # pw_data_by_machine.state_physical
     THEN StoreCopy([pw_data EXCEPT !.state_physical = pw_data_by_machine.state_physical,
                                    !.state_auto = pw_data_by_machine.state_real])
     ELSE KeepCopy
  /\ UNCHANGED <<pw_data_by_machine, g_pw_machine_state, padPc, padPw, schedVars,
                 lineVars, boardVars, budget>>

FoldPhysical ==
  /\ pwPc = "physical"
  /\ pwPc' = "send"
  /\ IF pw_data.state_physical # pw_data_by_machine.state_physical
     THEN StoreCopy([pw_data EXCEPT !.state_physical = pw_data_by_machine.state_physical])
     ELSE KeepCopy
  /\ UNCHANGED <<pw_data_by_machine, g_pw_machine_state, padPc, padPw, schedVars,
                 lineVars, boardVars, budget>>

\* Seeded fault: the answer carries the real state where the command belongs.
SendReal ==
  /\ pwPc = "send"
  /\ tx' = Append(tx, [pw_data EXCEPT !.state_auto = pw_data.state_real])
  /\ pwPc' = "get"
  /\ UNCHANGED <<g_eggm_pw_data, g_pw_machine_state, pw_data, pw_data_by_machine,
                 pwStale, padVars, schedVars, rx, boardVars, budget>>

\* The answer carries the copy, not what the record holds by now.
SendCopy ==
  /\ pwPc = "send"
  /\ tx' = Append(tx, pw_data)
  /\ pwPc' = "get"
  /\ UNCHANGED <<g_eggm_pw_data, g_pw_machine_state, pw_data, pw_data_by_machine,
                 pwStale, padVars, schedVars, rx, boardVars, budget>>

pw_mgr_task ==
  \/ get_pw_data \/ ReadNothing \/ ReadKey1 \/ ReadKey2 \/ ReadBody
  \/ FoldReal \/ FoldPhysical \/ SendCopy

(***************************************************************************)
(* eggm_pad_set_pw_auto in the pad thread: copy, change, store.            *)
(***************************************************************************)
PadGetPw(is_on) ==
  /\ padPc = "idle"
  /\ Spend("command")
  /\ padPw' = [g_eggm_pw_data EXCEPT !.state_auto = is_on]
  /\ padStale' = FALSE
  /\ padPc' = "set"
  /\ UNCHANGED <<g_eggm_pw_data, pwVars, schedVars, lineVars, boardVars>>

PadSetPw ==
  /\ padPc = "set"
  /\ g_eggm_pw_data' = padPw
  /\ pwStale' = TRUE
  /\ padPc' = "idle"
  /\ UNCHANGED <<padPw, padStale, pwPc, pw_data, pw_data_by_machine,
                 g_pw_machine_state, schedVars, lineVars, boardVars, budget>>

\* Seeded fault: the opposite is computed by arithmetic.
SchedGetPwComplement ==
  /\ schedPc = "idle"
  /\ Spend("command")
  /\ schedAuto' = 1 - g_eggm_pw_data.state_auto
  /\ schedPc' = "set"
  /\ UNCHANGED <<g_eggm_pw_data, pwVars, padVars, lineVars, boardVars>>

(***************************************************************************)
(* The schedule thread at a start or end time: it reads state_auto, and a  *)
(* section later stores the opposite with set_pw_auto_state.               *)
(***************************************************************************)
SchedGetPw ==
  /\ schedPc = "idle"
  /\ Spend("command")
  /\ schedAuto' = IF g_eggm_pw_data.state_auto = 0 THEN 1 ELSE 0
  /\ schedPc' = "set"
  /\ UNCHANGED <<g_eggm_pw_data, pwVars, padVars, lineVars, boardVars>>

set_pw_auto_state ==
  /\ schedPc = "set"
  /\ g_eggm_pw_data' = [g_eggm_pw_data EXCEPT !.state_auto = schedAuto]
  /\ pwStale' = TRUE /\ padStale' = TRUE
  /\ schedPc' = "idle"
  /\ UNCHANGED <<schedAuto, pwPc, pw_data, pw_data_by_machine, g_pw_machine_state,
                 padPc, padPw, lineVars, boardVars, budget>>

(***************************************************************************)
(* The board and the line (external): it reports, waits for the answer and *)
(* follows the state_auto in it; its button switches it at once.  It gives *)
(* up waiting only when neither frame nor answer can still arrive.         *)
(***************************************************************************)
BoardReport(bad) ==
  /\ ~waiting
  /\ IF bad = "none" THEN UNCHANGED budget ELSE Spend("fault")
  /\ rx' = Append(rx, Report(board, bad))
  /\ waiting' = TRUE
  /\ UNCHANGED <<g_eggm_pw_data, pwVars, padVars, schedVars, tx, board>>

BoardFollow ==
  /\ tx # <<>>
  /\ board' = IF Head(tx).state_auto \in Bit
              THEN [board EXCEPT !.real = Head(tx).state_auto] ELSE board
  /\ tx' = Tail(tx)
  /\ waiting' = FALSE
  /\ UNCHANGED <<g_eggm_pw_data, pwVars, padVars, schedVars, rx, budget>>

BoardGiveUp ==
  /\ waiting /\ rx = <<>> /\ tx = <<>>
  /\ pwPc \in {"stopped", "get", "key1"}
  /\ waiting' = FALSE
  /\ UNCHANGED <<g_eggm_pw_data, pwVars, padVars, schedVars, lineVars, board, budget>>

ButtonPress ==
  /\ Spend("press")
  /\ board' = [physical |-> 1 - board.physical, real |-> 1 - board.physical]
  /\ UNCHANGED <<g_eggm_pw_data, pwVars, padVars, schedVars, lineVars, waiting>>

AnswerLost ==
  /\ tx # <<>>
  /\ Spend("fault")
  /\ tx' = Tail(tx)
  /\ UNCHANGED <<g_eggm_pw_data, pwVars, padVars, schedVars, rx, boardVars>>

\* A stray byte: read as a first byte that is not 0xC3.
LineNoise ==
  /\ Spend("fault")
  /\ rx' = Append(rx, Report(board, "key1"))
  /\ UNCHANGED <<g_eggm_pw_data, pwVars, padVars, schedVars, tx, boardVars>>

Board == (\E bad \in Faults \cup {"none"} : BoardReport(bad)) \/ BoardFollow \/ BoardGiveUp

Next ==
  \/ pw_mgr_task
  \/ (\E v \in PadCommands : PadGetPw(v)) \/ PadSetPw
  \/ SchedGetPw \/ set_pw_auto_state
  \/ Board
  \/ ButtonPress \/ AnswerLost \/ LineNoise

Spec == Init /\ [][Next]_vars

(***************************************************************************)
(* Threads are not starved and the board keeps reporting; nothing makes    *)
(* anybody press a button or send a command.                               *)
(***************************************************************************)
Fairness ==
  /\ WF_vars(pw_mgr_task)
  /\ WF_vars(PadSetPw) /\ WF_vars(set_pw_auto_state)
  /\ WF_vars(BoardReport("none")) /\ WF_vars(BoardFollow) /\ WF_vars(BoardGiveUp)

FairSpec == Spec /\ Fairness

-----------------------------------------------------------------------------
(***************************************************************************)
(* Safety.                                                                 *)
(***************************************************************************)
PwCopyInUse == pwPc \in {"key1", "key2", "body", "real", "physical", "send"}

(***************************************************************************)
(* A copy of the record differs from the record itself only when another   *)
(* thread has stored since: get_pw_data and set_pw_data keep the two       *)
(* together through the whole loop of pw_mgr_task and through the SET_PW   *)
(* handler (which has its own state_auto).                                 *)
(***************************************************************************)
CopiesCurrent ==
  /\ PwCopyInUse /\ ~pwStale => pw_data = g_eggm_pw_data
  /\ padPc = "set" /\ ~padStale =>
       padPw = [g_eggm_pw_data EXCEPT !.state_auto = padPw.state_auto]

(***************************************************************************)
(* The price of storing whole copies, stated exactly.  pw_mgr_task changes *)
(* the commanded state only because the board reports another real state,  *)
(* or by writing back a copy that a store of another thread has overtaken; *)
(* SET_PW changes the board's two fields only in the latter way.           *)
(***************************************************************************)
LostOnlyWhenOvertaken ==
  [][ /\ (FoldReal \/ FoldPhysical) /\ g_eggm_pw_data'.state_auto # g_eggm_pw_data.state_auto
         => pwStale \/ pw_data.state_real # pw_data_by_machine.state_real
      /\ PadSetPw /\ (\/ g_eggm_pw_data'.state_physical # g_eggm_pw_data.state_physical
                      \/ g_eggm_pw_data'.state_real # g_eggm_pw_data.state_real)
         => padStale ]_vars

(***************************************************************************)
(* Liveness.                                                               *)
(***************************************************************************)
Agreed ==
  /\ g_eggm_pw_data.state_real = board.real
  /\ g_eggm_pw_data.state_physical = board.physical
  /\ g_eggm_pw_data.state_auto \in Bit => g_eggm_pw_data.state_auto = board.real

(***************************************************************************)
(* Once commands, presses and line faults are over, server and board come  *)
(* to agree and stay so: whatever stores were lost on the way, folding the *)
(* reported real state into state_auto (eggm_pw.c:235-240) repairs them.   *)
(***************************************************************************)
Convergence == (pwPc # "stopped") => <>[]Agreed

\* No more disturbances, and no store of a copy or a decision outstanding.
Quiet == padPc = "idle" /\ schedPc = "idle" /\ \A k \in Disturbances : budget[k] = 0

\* Every copy of the board's state, in memory or on the line, is up to date.
BoardKnown ==
  LET Current(c) == c.state_physical = board.physical /\ c.state_real = board.real
  IN  /\ Current(g_eggm_pw_data)
      /\ PwCopyInUse => Current(pw_data)
      /\ pwPc \in {"real", "physical"} => Current(pw_data_by_machine)
      /\ \A i \in 1..Len(rx) : Current(rx[i])

\* Every command not yet carried out is v or leaves the board as it is.
Unopposed(v) ==
  /\ g_eggm_pw_data.state_auto = v
  /\ PwCopyInUse => pw_data.state_auto \in {v, board.real}
  /\ \A i \in 1..Len(tx) : tx[i].state_auto \in {v, board.real}

(***************************************************************************)
(* A command reaches the board if, when the last disturbance is over, no   *)
(* older report or command is still under way: the exact condition under   *)
(* which "state_real follows the last command" (eggm.h:83).                *)
(***************************************************************************)
UnopposedCommandApplied ==
  (pwPc # "stopped") =>
    \A v \in Bit : (Quiet /\ BoardKnown /\ Unopposed(v)) ~> (board.real = v)

(***************************************************************************)
(* What the comments say.                                                  *)
(***************************************************************************)
(***************************************************************************)
(* eggm.h:81 says of state_physical: "physical button, on:1, off:0 // do   *)
(* not chage by server": no step of the pad or schedule thread changes it. *)
(***************************************************************************)
PhysicalNotChangedByServer ==
  [][ PadSetPw \/ set_pw_auto_state
      => g_eggm_pw_data'.state_physical = g_eggm_pw_data.state_physical ]_vars

(***************************************************************************)
(* eggm.h:83 says of state_real: "real power state => folow last commnd":  *)
(* with no button pressed, the command that stands when the last one has   *)
(* been given is the one the board ends up following.                      *)
(***************************************************************************)
LastCommandFollowed ==
  (pwPc # "stopped") =>
    \A v \in Bit : (Quiet /\ g_eggm_pw_data.state_auto = v) ~> (board.real = v)

=============================================================================
