---------------------------- MODULE EggmPwProofs ----------------------------
(***************************************************************************)
(* Proofs about EggmPw, for every set of pad commands and every budget of  *)
(* disturbances: types, the two copies of the power record, and the action *)
(* property that says when whole-copy stores lose an update.               *)
(***************************************************************************)
EXTENDS EggmPw, SequenceTheorems, TLAPS

(***************************************************************************)
(* The two kinds of record TypeOK speaks of: changing a field of a copy    *)
(* keeps it a power record.                                                *)
(***************************************************************************)
LEMMA PwDataUpdate ==
  ASSUME NEW c \in PwData
  PROVE  /\ c.state_real \in Bit /\ c.state_physical \in Bit
         /\ \A r \in Bit : /\ [c EXCEPT !.state_real = r, !.state_auto = r] \in PwData
                           /\ [c EXCEPT !.state_physical = r] \in PwData
                           /\ [c EXCEPT !.state_auto = r] \in PwData
         /\ \A a \in PadCommands : [c EXCEPT !.state_auto = a] \in PwData
  BY DEF PwData, Bit

(***************************************************************************)
(* Spending from the budget leaves a budget.                               *)
(***************************************************************************)
LEMMA SpendType ==
  ASSUME NEW kind \in Disturbances, budget \in [Disturbances -> Nat], Spend(kind)
  PROVE  budget' \in [Disturbances -> Nat]
  BY DEF Spend

(***************************************************************************)
(* A report of a typed board is a frame of the line.                       *)
(***************************************************************************)
LEMMA ReportType ==
  ASSUME NEW b \in [physical : Bit, real : Bit], NEW bad \in Faults \cup {"none"}
  PROVE  Report(b, bad) \in Frame
  BY DEF Report, Frame

(***************************************************************************)
(* Type correctness is inductive on its own.                               *)
(***************************************************************************)
LEMMA InitTypeOK == Init => TypeOK
<1> SUFFICES ASSUME Init PROVE TypeOK
  OBVIOUS
<1>1. Zero \in PwData
  BY DEF Zero, PwData, Bit
<1>2. rx \in Seq(Frame) /\ tx \in Seq(PwData)
  BY DEF Init
<1>3. pw_data_by_machine \in [state_physical : Bit, state_real : Bit]
  BY DEF Init, Bit
<1> QED
  BY <1>1, <1>2, <1>3, BudgetAssumption DEF Init, TypeOK, Bit

LEMMA NextTypeOK ==
  ASSUME TypeOK, [Next]_vars
  PROVE  TypeOK'
<1> USE DEF TypeOK
<1>1. CASE get_pw_data
  BY <1>1 DEF get_pw_data, padVars, schedVars, lineVars, boardVars
<1>2. CASE ReadNothing
  BY <1>2 DEF ReadNothing, Reading, padVars, schedVars, lineVars, boardVars
<1>3. CASE ReadKey1
  <2>1. CASE Tcflush
    BY <1>3, <2>1 DEF ReadKey1, Reading, Tcflush, padVars, schedVars, lineVars, boardVars
  <2>2. CASE pwPc' = "key2" /\ UNCHANGED lineVars
    BY <1>3, <2>2 DEF ReadKey1, Reading, padVars, schedVars, lineVars, boardVars
  <2> QED
    BY <1>3, <2>1, <2>2 DEF ReadKey1
<1>4. CASE ReadKey2
  <2>1. rx' \in Seq(Frame) /\ tx' \in Seq(PwData)
    <3>1. CASE UNCHANGED lineVars
      BY <3>1 DEF lineVars
    <3>2. CASE rx' = <<>> /\ UNCHANGED tx
      BY <3>2
    <3>3. CASE Tcflush
      BY <3>3 DEF Tcflush
    <3> QED
      BY <1>4, <3>1, <3>2, <3>3 DEF ReadKey2
  <2>2. pwPc' \in {"get", "body"} /\ (pwPc' = "body" => rx' = rx /\ pwPc = "key2")
    BY <1>4 DEF ReadKey2, Tcflush, lineVars
  <2> QED
    BY <1>4, <2>1, <2>2 DEF ReadKey2, Reading, padVars, schedVars, boardVars
<1>5. CASE ReadBody
  <2>1. Head(rx) \in Frame /\ Tail(rx) \in Seq(Frame)
    BY <1>5, HeadTailProperties DEF ReadBody
  <2>2. CASE Tcflush /\ UNCHANGED pw_data_by_machine
    BY <1>5, <2>2 DEF ReadBody, Reading, Tcflush, Bit, padVars, schedVars, boardVars
  <2>3. CASE /\ pw_data_by_machine' = [state_physical |-> Head(rx).state_physical,
                                       state_real |-> Head(rx).state_real]
             /\ rx' = Tail(rx) /\ UNCHANGED tx
             /\ pwPc' = "real"
    BY <1>5, <2>1, <2>3 DEF ReadBody, Reading, Frame, Bit, padVars, schedVars, boardVars
  <2> QED
    BY <1>5, <2>2, <2>3 DEF ReadBody
<1>6. CASE FoldReal
  <2>1. pw_data_by_machine.state_real \in Bit
    OBVIOUS
  <2>2. pw_data' \in PwData /\ g_eggm_pw_data' \in PwData
        /\ pwStale' \in BOOLEAN /\ padStale' \in BOOLEAN
    <3>1. CASE pw_data.state_real # pw_data_by_machine.state_real
      <4> DEFINE folded == [pw_data EXCEPT !.state_real = pw_data_by_machine.state_real,
                                           !.state_auto = pw_data_by_machine.state_real]
      <4>1. StoreCopy(folded)
        BY <1>6, <3>1 DEF FoldReal
      <4>2. folded \in PwData
        BY <2>1, PwDataUpdate
      <4> QED
        BY <4>1, <4>2 DEF StoreCopy
    <3>2. CASE pw_data.state_real = pw_data_by_machine.state_real
      BY <1>6, <3>2 DEF FoldReal, KeepCopy
    <3> QED
      BY <3>1, <3>2
  <2> QED
    BY <1>6, <2>2 DEF FoldReal, schedVars, lineVars, boardVars
<1>7. CASE FoldPhysical
  <2>1. pw_data_by_machine.state_physical \in Bit
    OBVIOUS
  <2>2. pw_data' \in PwData /\ g_eggm_pw_data' \in PwData
        /\ pwStale' \in BOOLEAN /\ padStale' \in BOOLEAN
    <3>1. CASE pw_data.state_physical # pw_data_by_machine.state_physical
      <4>1. StoreCopy([pw_data EXCEPT !.state_physical = pw_data_by_machine.state_physical])
        BY <1>7, <3>1 DEF FoldPhysical
      <4>2. [pw_data EXCEPT !.state_physical = pw_data_by_machine.state_physical] \in PwData
        BY <2>1, PwDataUpdate
      <4> QED
        BY <4>1, <4>2 DEF StoreCopy
    <3>2. CASE pw_data.state_physical = pw_data_by_machine.state_physical
      BY <1>7, <3>2 DEF FoldPhysical, KeepCopy
    <3> QED
      BY <3>1, <3>2
  <2> QED
    BY <1>7, <2>2 DEF FoldPhysical, schedVars, lineVars, boardVars
<1>8. CASE SendCopy
  <2>1. Append(tx, pw_data) \in Seq(PwData)
    OBVIOUS
  <2> QED
    BY <1>8, <2>1 DEF SendCopy, padVars, schedVars, boardVars
<1>9. ASSUME NEW v \in PadCommands, PadGetPw(v)
      PROVE  TypeOK'
  <2>1. padPw' \in PwData
    BY <1>9, PwDataUpdate DEF PadGetPw
  <2>2. budget' \in [Disturbances -> Nat]
    BY <1>9, SpendType DEF PadGetPw, Disturbances
  <2> QED
    BY <1>9, <2>1, <2>2 DEF PadGetPw, pwVars, schedVars, lineVars, boardVars
<1>10. CASE PadSetPw
  BY <1>10 DEF PadSetPw, schedVars, lineVars, boardVars
<1>11. CASE SchedGetPw
  <2>1. budget' \in [Disturbances -> Nat]
    BY <1>11, SpendType DEF SchedGetPw, Disturbances
  <2> QED
    BY <1>11, <2>1 DEF SchedGetPw, Bit, pwVars, padVars, lineVars, boardVars
<1>12. CASE set_pw_auto_state
  <2>1. g_eggm_pw_data' \in PwData
    BY <1>12, PwDataUpdate DEF set_pw_auto_state
  <2> QED
    BY <1>12, <2>1 DEF set_pw_auto_state, lineVars, boardVars
<1>13. ASSUME NEW bad \in Faults \cup {"none"}, BoardReport(bad)
       PROVE  TypeOK'
  <2>1. budget' \in [Disturbances -> Nat]
    BY <1>13, SpendType DEF BoardReport, Disturbances
  <2>2. rx' \in Seq(Frame) /\ rx' # <<>>
    BY <1>13, ReportType DEF BoardReport
  <2> QED
    BY <1>13, <2>1, <2>2 DEF BoardReport, pwVars, padVars, schedVars
<1>14. CASE BoardFollow
  <2>1. tx' \in Seq(PwData)
    BY <1>14, HeadTailProperties DEF BoardFollow
  <2>2. board' \in [physical : Bit, real : Bit]
    BY <1>14 DEF BoardFollow
  <2> QED
    BY <1>14, <2>1, <2>2 DEF BoardFollow, pwVars, padVars, schedVars
<1>15. CASE BoardGiveUp
  BY <1>15 DEF BoardGiveUp, pwVars, padVars, schedVars, lineVars
<1>16. CASE ButtonPress
  <2>1. budget' \in [Disturbances -> Nat]
    BY <1>16, SpendType DEF ButtonPress, Disturbances
  <2>2. board' \in [physical : Bit, real : Bit]
    BY <1>16 DEF ButtonPress, Bit
  <2> QED
    BY <1>16, <2>1, <2>2 DEF ButtonPress, pwVars, padVars, schedVars, lineVars
<1>17. CASE AnswerLost
  <2>1. budget' \in [Disturbances -> Nat]
    BY <1>17, SpendType DEF AnswerLost, Disturbances
  <2>2. tx' \in Seq(PwData)
    BY <1>17, HeadTailProperties DEF AnswerLost
  <2> QED
    BY <1>17, <2>1, <2>2 DEF AnswerLost, pwVars, padVars, schedVars, boardVars
<1>18. CASE LineNoise
  <2>1. budget' \in [Disturbances -> Nat]
    BY <1>18, SpendType DEF LineNoise, Disturbances
  <2>2. rx' \in Seq(Frame) /\ rx' # <<>>
    BY <1>18, ReportType DEF LineNoise, Faults
  <2> QED
    BY <1>18, <2>1, <2>2 DEF LineNoise, pwVars, padVars, schedVars, boardVars
<1>19. CASE UNCHANGED vars
  BY <1>19 DEF vars, pwVars, padVars, schedVars, lineVars, boardVars
<1> QED
  BY <1>1, <1>2, <1>3, <1>4, <1>5, <1>6, <1>7, <1>8, <1>9, <1>10, <1>11, <1>12,
     <1>13, <1>14, <1>15, <1>16, <1>17, <1>18, <1>19 DEF Next, pw_mgr_task, Board

(***************************************************************************)
(* Every reachable state is well typed, whatever the pad sends and however *)
(* often the board and the line disturb it.                                *)
(***************************************************************************)
THEOREM TypeCorrect == Spec => []TypeOK
  BY InitTypeOK, NextTypeOK, PTL DEF Spec

-----------------------------------------------------------------------------
(***************************************************************************)
(* The inductive invariant of the record and its copies.                   *)
(***************************************************************************)
IInv == TypeOK /\ CopiesCurrent

(***************************************************************************)
(* Both copies are in order at start-up: no thread has one in use that     *)
(* differs from the zeroed record.                                         *)
(***************************************************************************)
LEMMA InitIInv == Init => IInv
  BY InitTypeOK DEF Init, IInv, CopiesCurrent, PwCopyInUse

(***************************************************************************)
(* Steps that leave the record, both copies and both history flags alone   *)
(* and start no new use of a copy keep the copies current.                 *)
(***************************************************************************)
LEMMA UntouchedCopies ==
  ASSUME CopiesCurrent,
         UNCHANGED <<g_eggm_pw_data, pw_data, padPw, pwStale, padStale>>,
         PwCopyInUse' => PwCopyInUse, padPc' = "set" => padPc = "set"
  PROVE  CopiesCurrent'
  BY DEF CopiesCurrent

LEMMA NextIInv ==
  ASSUME IInv, [Next]_vars
  PROVE  CopiesCurrent'
<1> USE DEF IInv
<1>1. CASE get_pw_data
  BY <1>1 DEF get_pw_data, CopiesCurrent, padVars
<1>2. CASE ReadNothing \/ ReadKey1 \/ ReadKey2 \/ ReadBody
  <2>1. PwCopyInUse /\ Reading
    BY <1>2 DEF ReadNothing, ReadKey1, ReadKey2, ReadBody, PwCopyInUse
  <2> QED
    BY <2>1, UntouchedCopies DEF Reading, padVars
<1>3. CASE FoldReal
  <2>1. CASE pw_data.state_real # pw_data_by_machine.state_real
    BY <1>3, <2>1 DEF FoldReal, StoreCopy, CopiesCurrent
  <2>2. CASE pw_data.state_real = pw_data_by_machine.state_real
    BY <1>3, <2>2, UntouchedCopies DEF FoldReal, KeepCopy, PwCopyInUse
  <2> QED
    BY <2>1, <2>2
<1>4. CASE FoldPhysical
  <2>1. CASE pw_data.state_physical # pw_data_by_machine.state_physical
    BY <1>4, <2>1 DEF FoldPhysical, StoreCopy, CopiesCurrent
  <2>2. CASE pw_data.state_physical = pw_data_by_machine.state_physical
    BY <1>4, <2>2, UntouchedCopies DEF FoldPhysical, KeepCopy, PwCopyInUse
  <2> QED
    BY <2>1, <2>2
<1>5. CASE SendCopy
  BY <1>5, UntouchedCopies DEF SendCopy, PwCopyInUse, padVars
<1>6. ASSUME NEW v \in PadCommands, PadGetPw(v)
      PROVE  CopiesCurrent'
  <2>1. padPw' = [g_eggm_pw_data' EXCEPT !.state_auto = padPw'.state_auto]
    BY <1>6 DEF PadGetPw, TypeOK, PwData
  <2> QED
    BY <1>6, <2>1 DEF PadGetPw, CopiesCurrent, PwCopyInUse, pwVars
<1>7. CASE PadSetPw
  BY <1>7 DEF PadSetPw, CopiesCurrent
<1>8. CASE SchedGetPw
  BY <1>8, UntouchedCopies DEF SchedGetPw, PwCopyInUse, pwVars, padVars
<1>9. CASE set_pw_auto_state
  BY <1>9 DEF set_pw_auto_state, CopiesCurrent
<1>10. CASE Board \/ ButtonPress \/ AnswerLost \/ LineNoise
  <2>1. UNCHANGED <<g_eggm_pw_data, pwVars, padVars>>
    BY <1>10 DEF Board, BoardReport, BoardFollow, BoardGiveUp, ButtonPress,
                 AnswerLost, LineNoise
  <2> QED
    BY <2>1, UntouchedCopies DEF PwCopyInUse, pwVars, padVars
<1>11. CASE UNCHANGED vars
  BY <1>11, UntouchedCopies DEF vars, PwCopyInUse, pwVars, padVars
<1> QED
  BY <1>1, <1>2, <1>3, <1>4, <1>5, <1>6, <1>7, <1>8, <1>9, <1>10, <1>11
     DEF Next, pw_mgr_task

(***************************************************************************)
(* A copy in use equals the record unless another thread has stored since  *)
(* it was taken, through every interleaving of the three writers.          *)
(***************************************************************************)
THEOREM CopiesStayCurrent == Spec => []CopiesCurrent
<1>1. Init => IInv
  BY InitIInv
<1>2. IInv /\ [Next]_vars => IInv'
  BY NextTypeOK, NextIInv DEF IInv
<1>3. IInv => CopiesCurrent
  BY DEF IInv
<1> QED
  BY <1>1, <1>2, <1>3, PTL DEF Spec

-----------------------------------------------------------------------------
(***************************************************************************)
(* LostOnlyWhenOvertaken, one step at a time: with a current copy, folding *)
(* in a report touches the command only when the real state differs, and   *)
(* SET_PW stores the board's own fields back unchanged.                    *)
(***************************************************************************)
LEMMA FoldKeepsCommand ==
  ASSUME IInv, FoldReal \/ FoldPhysical,
         g_eggm_pw_data'.state_auto # g_eggm_pw_data.state_auto, ~pwStale
  PROVE  pw_data.state_real # pw_data_by_machine.state_real
<1>1. pw_data = g_eggm_pw_data /\ g_eggm_pw_data \in PwData
  BY DEF IInv, CopiesCurrent, PwCopyInUse, TypeOK, FoldReal, FoldPhysical
<1>2. CASE FoldReal
  BY <1>2 DEF FoldReal, KeepCopy
<1>3. CASE FoldPhysical
  BY <1>1, <1>3 DEF FoldPhysical, StoreCopy, KeepCopy, PwData
<1> QED
  BY <1>2, <1>3

LEMMA SetPwKeepsReport ==
  ASSUME IInv, PadSetPw, ~padStale
  PROVE  /\ g_eggm_pw_data'.state_physical = g_eggm_pw_data.state_physical
         /\ g_eggm_pw_data'.state_real = g_eggm_pw_data.state_real
  BY DEF IInv, CopiesCurrent, TypeOK, PadSetPw, PwData

(***************************************************************************)
(* No update of the record is lost except by storing a copy that another   *)
(* thread's store has overtaken.                                           *)
(***************************************************************************)
THEOREM LostUpdatesAreOvertaken == Spec => LostOnlyWhenOvertaken
<1>1. Init => IInv
  BY InitIInv
<1>2. IInv /\ [Next]_vars => IInv'
  BY NextTypeOK, NextIInv DEF IInv
<1>3. IInv /\ [Next]_vars =>
        [ /\ (FoldReal \/ FoldPhysical) /\ g_eggm_pw_data'.state_auto # g_eggm_pw_data.state_auto
             => pwStale \/ pw_data.state_real # pw_data_by_machine.state_real
          /\ PadSetPw /\ (\/ g_eggm_pw_data'.state_physical # g_eggm_pw_data.state_physical
                          \/ g_eggm_pw_data'.state_real # g_eggm_pw_data.state_real)
             => padStale ]_vars
  BY FoldKeepsCommand, SetPwKeepsReport
<1> QED
  BY <1>1, <1>2, <1>3, PTL DEF Spec, LostOnlyWhenOvertaken

=============================================================================
