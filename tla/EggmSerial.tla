----------------------------- MODULE EggmSerial -----------------------------
(***************************************************************************)
(* The serial line from the power board, byte by byte (pw_mgr_task in      *)
(* eggm_pw.c).  The reader takes the two keys of a report one by one and   *)
(* then whatever is there of the rest.  A byte that is not expected makes  *)
(* it throw away all that has arrived.                                     *)
(*                                                                         *)
(* Bytes carry the number of the report they belong to and their place in  *)
(* it, which the reader never looks at.                                    *)
(***************************************************************************)
EXTENDS EggmReport

CONSTANT Budgets   (* bounds: reports sent, and bytes damaged, lost or added *)

ASSUME BudgetsAssumption == Budgets \subseteq [{"send", "fault"} -> Nat]

After == Size + 1      \* the place of a byte that comes after a report

VARIABLES
  wire,              (* bytes of the report being sent that have not arrived *)
  rx,                (* bytes received and not read                          *)
  pc,                (* where the reader is                                 *)
  sent, accepted,    (* history: the reports sent, and those accepted        *)
  key,               (* history: the key read last                           *)
  spoilt,            (* history: what has happened to each report: the place *)
                     (* of the byte damaged, lost or added, or 0             *)
  budget

vars == <<wire, rx, pc, sent, accepted, key, spoilt, budget>>

TaggedByte == [val : Byte, of : 0..Len(sent), pos : 0..After]
TakenReport == [num : 0..Len(sent), data : [1..DATA -> Byte]]
NoByte == [val |-> 0, of |-> 0, pos |-> 0]

TypeOK ==
  /\ wire \in Seq(TaggedByte) /\ Len(wire) <= Size
  /\ rx \in Seq(TaggedByte) /\ key \in TaggedByte
  /\ pc \in {"key1", "key2", "body"}
  /\ sent \in Seq(Data) /\ accepted \in Seq(TakenReport)
  /\ spoilt \in [0..Len(sent) -> 0..After]
  /\ budget \in [{"send", "fault"} -> Nat]

Init ==
  /\ wire = <<>> /\ rx = <<>>
  /\ pc = "key1" /\ key = NoByte
  /\ sent = <<>> /\ accepted = <<>> /\ spoilt = [n \in {0} |-> 0]
  /\ budget \in Budgets

Spend(kind) ==
  /\ budget[kind] > 0
  /\ budget' = [budget EXCEPT ![kind] = @ - 1]

-----------------------------------------------------------------------------
(***************************************************************************)
(* The board and the line (external).  Bytes arrive in order; one byte of  *)
(* a report may be damaged or lost, or one may appear after it, if nothing *)
(* has happened to the report before.                                      *)
(***************************************************************************)
BoardSend(d) ==
  /\ wire = <<>>
  /\ Spend("send")
  /\ wire' = [k \in 1..Size |-> [val |-> Report(d)[k], of |-> Len(sent) + 1, pos |-> k]]
  /\ sent' = Append(sent, d)
  /\ spoilt' = [n \in 0..(Len(sent) + 1) |-> IF n <= Len(sent) THEN spoilt[n] ELSE 0]
  /\ UNCHANGED <<rx, pc, key, accepted>>

Arrive ==
  /\ wire # <<>>
  /\ rx' = Append(rx, [Head(wire) EXCEPT !.val = Icrnl(@)])
  /\ wire' = Tail(wire)
  /\ UNCHANGED <<pc, sent, accepted, key, spoilt, budget>>

Spoil(place) ==
  /\ spoilt[Len(sent)] = 0
  /\ Len(sent) > 0 => spoilt[Len(sent) - 1] = 0
  /\ Spend("fault")
  /\ spoilt' = [spoilt EXCEPT ![Len(sent)] = place]
  /\ UNCHANGED <<pc, sent, accepted, key>>

Damage(v) ==
  /\ wire # <<>> /\ v # Head(wire).val
  /\ Spoil(Head(wire).pos)
  /\ wire' = [wire EXCEPT ![1].val = v]
  /\ UNCHANGED rx

Lose ==
  /\ wire # <<>>
  /\ Spoil(Head(wire).pos)
  /\ wire' = Tail(wire)
  /\ UNCHANGED rx

Noise(v) ==
  /\ wire = <<>>
  /\ Spoil(After)
  /\ rx' = Append(rx, [val |-> Icrnl(v), of |-> Len(sent), pos |-> After])
  /\ UNCHANGED wire

Line ==
  \/ (\E d \in Data : BoardSend(d)) \/ Arrive \/ Lose
  \/ (\E v \in Damaged : Damage(v) \/ Noise(v))

-----------------------------------------------------------------------------
(***************************************************************************)
(* The reader.                                                             *)
(***************************************************************************)
Reading == UNCHANGED <<wire, sent, spoilt, budget>>
Nothing == UNCHANGED accepted

\* Looking for a first byte again, with what is left.
FromKey1 == pc' = "key1" /\ key' = NoByte
Tcflush == rx' = <<>> /\ FromKey1
Take == key' = Head(rx) /\ rx' = Tail(rx)

ReadKey1 ==
  /\ pc = "key1" /\ rx # <<>>
  /\ \/ Head(rx).val = KEY1 /\ Take /\ pc' = "key2"
     \/ Head(rx).val # KEY1 /\ Tcflush
  /\ Reading /\ Nothing

ReadKey2 ==
  /\ pc = "key2"
  /\ \/ rx = <<>> /\ FromKey1 /\ UNCHANGED rx
     \/ rx # <<>> /\ Head(rx).val = KEY2 /\ Take /\ pc' = "body"
     \/ rx # <<>> /\ Head(rx).val # KEY2 /\ Tcflush
  /\ Reading /\ Nothing

\* Seeded fault: a byte less is asked for.
OneByteShort == [k \in 1..Rest |-> IF k < Rest /\ k \in DOMAIN rx THEN rx[k].val ELSE 0]

\* Seeded fault: the buffer is not set to zero and has the last report.
NotCleared ==
  [k \in 1..Rest |-> IF k \in DOMAIN rx THEN rx[k].val
                     ELSE IF accepted = <<>> THEN 0 ELSE Body(accepted[Len(accepted)].data)[k]]

\* What one read finds of the rest; the buffer was set to zero before.
ReadBuff == [k \in 1..Rest |-> IF k \in DOMAIN rx THEN rx[k].val ELSE 0]

\* The report that is read: that of the first byte taken for data.
NumberRead ==
  IF rx = <<>> THEN key.of ELSE IF Head(rx).pos = After THEN 0 ELSE Head(rx).of

Accept ==
  /\ Matches(ReadBuff)
  /\ accepted' = Append(accepted, [num |-> NumberRead, data |-> SubSeq(ReadBuff, 1, DATA)])

\* Seeded fault: the report is not taken from what has been received, and is
\* there for the next turn.
ReadBodyAgain ==
  /\ pc = "body"
  /\ \/ Accept /\ UNCHANGED <<rx, pc, key>>
     \/ ~Matches(ReadBuff) /\ Tcflush /\ Nothing
  /\ Reading

ReadBody ==
  /\ pc = "body"
  /\ \/ Accept /\ rx' = SubSeq(rx, Rest + 1, Len(rx)) /\ FromKey1
     \/ ~Matches(ReadBuff) /\ Tcflush /\ Nothing
  /\ Reading

pw_mgr_task == ReadKey1 \/ ReadKey2 \/ ReadBody

Next == Line \/ pw_mgr_task

Spec == Init /\ [][Next]_vars

(***************************************************************************)
(* The thread is scheduled; the board need not send.                       *)
(***************************************************************************)
FairSpec == Spec /\ WF_vars(pw_mgr_task)

-----------------------------------------------------------------------------
LineSpecification == INSTANCE EggmLine

(***************************************************************************)
(* Refinement: with a byte of a report damaged, lost or added wherever the *)
(* report before was left alone, and reads that come too early, the reader *)
(* accepts only reports the board sent, each once and in their order,      *)
(* although it compares one byte of the checksum (eggm_pw.c:220).  It      *)
(* takes them for what was sent; or, if one is cut short, has lost a byte  *)
(* or has a CR in it, for one of its mistakes.                             *)
(***************************************************************************)
AcceptsOnlySent == LineSpecification!Spec

(***************************************************************************)
(* Liveness: a report that lies there whole when the reader looks for a    *)
(* first byte is accepted, unless one of its bytes is a CR: then it is     *)
(* rejected however often the board repeats it (eggm_pw.c:125).            *)
(***************************************************************************)
Lies(n) ==
  /\ pc = "key1"
  /\ Len(rx) >= Size
  /\ \A k \in 1..Size : rx[k].of = n /\ rx[k].pos = k

Numbers == UNION {1..b["send"] : b \in Budgets}
Clean(n) == n <= Len(sent) /\ spoilt[n] \in {0, After}
NoCR(n) == \A k \in 1..Size : Report(sent[n])[k] # CR

Has(n) ==
  /\ n \in DOMAIN sent
  /\ \E k \in DOMAIN accepted : accepted[k] = [num |-> n, data |-> sent[n]]

WholeReportAccepted ==
  \A n \in Numbers : (Clean(n) /\ Lies(n) /\ NoCR(n)) ~> Has(n)

=============================================================================
