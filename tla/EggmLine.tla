------------------------------ MODULE EggmLine ------------------------------
(***************************************************************************)
(* What the serial line promises the power manager: a report that is       *)
(* accepted is one the board sent, and later than the one accepted before: *)
(* none is accepted twice.  It has the data that were sent, or what the    *)
(* check of a report takes for them by mistake.  A report may be lost.     *)
(* EggmPw takes its reports from such a line, and its line makes no        *)
(* mistakes; EggmSerial is the reader of bytes that provides it.           *)
(***************************************************************************)
EXTENDS Naturals, Sequences

CONSTANTS
  Data,
  Mistakes   (* for data sent, the other data that may be taken for them    *)

VARIABLES
  sent,      (* the reports sent                                            *)
  accepted   (* the reports accepted: their numbers and what they say       *)

lineVars == <<sent, accepted>>

Init == sent = <<>> /\ accepted = <<>>

\* The number of the report last accepted, 0 before the first.
last == IF accepted = <<>> THEN 0 ELSE accepted[Len(accepted)].num

Send(d) == sent' = Append(sent, d) /\ UNCHANGED accepted

Accept(n, d) ==
  /\ n > last
  /\ accepted' = Append(accepted, [num |-> n, data |-> d])
  /\ UNCHANGED sent

Next ==
  \/ \E d \in Data : Send(d)
  \/ \E n \in DOMAIN sent : \E d \in {sent[n]} \cup Mistakes[sent[n]] : Accept(n, d)

Spec == Init /\ [][Next]_lineVars

=============================================================================
