----------------------------- MODULE EggmReport -----------------------------
(***************************************************************************)
(* The reports of the power board and the check of a report (pw_mgr_task   *)
(* in eggm_pw.c): KEY1, KEY2, the data and a checksum of two bytes, of     *)
(* which the reader compares the second.  What is missing when it reads    *)
(* counts as zero.  The terminal turns CR into NL.                         *)
(***************************************************************************)
EXTENDS Integers, Sequences

CONSTANTS
  DATA,      (* data bytes of a report: EGGM_SR_MSG_DATA_SIZE, 6 in the code *)
  Data,      (* what the board may report                                    *)
  Damaged    (* values a byte may take on the line                           *)

Byte == 0..255
KEY1 == 195
KEY2 == 153
CR == 13
NL == 10
Rest == DATA + 2       \* what follows the keys
Size == Rest + 2       \* a whole report

\* The sum of bytes as the two ends form it, starting with the keys.
Total(bytes) ==
  LET total[k \in 0..Len(bytes)] == IF k = 0 THEN KEY1 + KEY2 ELSE total[k - 1] + bytes[k]
  IN  total
SumOf(bytes) == Total(bytes)[Len(bytes)]
Low(sum) == sum % 256

\* Seeded fault: the low byte is not cut to eight bits.
SumUnmasked(d) == <<Low(SumOf(d) \div 256), SumOf(d)>>

make_eggm_sr_checksum(d) == <<Low(SumOf(d) \div 256), Low(SumOf(d))>>

Body(d) == d \o make_eggm_sr_checksum(d)
Report(d) == <<KEY1, KEY2>> \o Body(d)

\* The low byte only: the other half of the comparison is commented out.
Matches(buff) == buff[DATA + 2] = Low(SumOf(SubSeq(buff, 1, DATA)))

Icrnl(v) == IF v = CR THEN NL ELSE v

ASSUME DataSizeAssumption == DATA \in Nat \ {0}
ASSUME DamagedAssumption == Damaged \subseteq Byte

\* Only the keys have the values of keys.
ASSUME DataAssumption ==
  /\ Data \subseteq [1..DATA -> Byte]
  /\ \A d \in Data, k \in 1..Rest : Body(d)[k] \notin {KEY1, KEY2}

\* What arrives of the rest b of a report, what the reader makes of it when only
\* n bytes are there, and what it finds when the k-th has been lost: the first
\* byte of the next report comes last.
Received(b) == [k \in 1..Rest |-> Icrnl(b[k])]
Cut(b, n) == [k \in 1..Rest |-> IF k <= n THEN b[k] ELSE 0]
Without(b, k) == [l \in 1..Rest |-> IF l < k THEN b[l] ELSE IF l < Rest THEN b[l + 1] ELSE KEY1]
Altered(b) == {b} \cup {[b EXCEPT ![k] = v] : k \in 1..Rest, v \in Damaged}

(***************************************************************************)
(* A checksum of one byte does not find everything.  A whole report with   *)
(* at most one byte damaged is never taken for another one, unless it has  *)
(* a CR in it (EggmSerialProofs); one that is cut short, or has lost a     *)
(* byte, may pass with zeros, or the next key, in the place of what is     *)
(* missing: Mistakes has the data that are then taken for those sent.      *)
(***************************************************************************)
HasCR(d) == \E k \in 1..Rest : Body(d)[k] = CR

Views(d) ==
  {Cut(Received(b), n) : b \in Altered(Body(d)), n \in 0..(Rest - 1)}
  \cup {Cut(Received(Without(Body(d), k)), n) : k \in 1..Rest, n \in 0..Rest}
  \cup {Received(b) : b \in {a \in Altered(Body(d)) : HasCR(d)}}

Mistakes == [d \in Data |-> {SubSeq(v, 1, DATA) : v \in {u \in Views(d) : Matches(u)}}]

=============================================================================
