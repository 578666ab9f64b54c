-------------------------- MODULE EggmSerialProofs --------------------------
(***************************************************************************)
(* Proofs about EggmSerial, for every number of data bytes, all reports    *)
(* and all values of damage that its assumptions allow, and any number of  *)
(* faults: types, and that the reader implements EggmLine.                 *)
(***************************************************************************)
EXTENDS EggmSerial, EggmInduction, SequenceTheorems

(***************************************************************************)
(* The inductive invariant is about the bytes in the order in which the    *)
(* board sent them: the key read last, those received, those under way.    *)
(* In the definitions s is the reports sent, f what has happened to each,  *)
(* w what is under way and l the report accepted last.                     *)
(***************************************************************************)
last == IF accepted = <<>> THEN 0 ELSE accepted[Len(accepted)].num

Genuine(b, s) == Report(s[b.of])[b.pos]

\* A byte received is one of a report, as it was unless it is the one damaged,
\* or one that was added.
ReceivedByte(b, s, f) ==
  \/ /\ b.of \in 1..Len(s) /\ b.pos \in 1..Size
     /\ \/ b.val = Icrnl(Genuine(b, s))
        \/ f[b.of] = b.pos /\ \E v \in Damaged : b.val = Icrnl(v)
  \/ b.of \in 0..Len(s) /\ b.pos = After /\ f[b.of] = After

\* Nothing can have been between a and b but a byte that is lost.
Follows(a, b, f) ==
  \/ b.of = a.of /\ b.pos = a.pos + 1
  \/ b.of = a.of /\ b.pos = a.pos + 2 /\ f[a.of] = a.pos + 1
  \/ b.of = a.of + 1 /\ b.pos = 1 /\ a.pos \in {Size, After}
  \/ b.of = a.of + 1 /\ b.pos = 1 /\ a.pos = Size - 1 /\ f[a.of] = Size
  \/ b.of = a.of + 1 /\ b.pos = 2 /\ a.pos = Size /\ f[b.of] = 1

\* After b comes what is under way, or the next report.
Newest(b, w, s, f) ==
  IF w # <<>> THEN Follows(b, w[1], f)
  ELSE /\ b.of = Len(s)
       /\ \/ b.pos \in {Size, After}
          \/ b.pos = Size - 1 /\ f[b.of] = Size

Before(a, b) == \/ a.of < b.of
                \/ a.of = b.of /\ a.pos < b.pos

\* b is of a report after the one accepted, or not one of its keys.
New(b, l) == \/ b.of > l
             \/ b.of = l /\ b.pos > 2

\* What has not arrived is the end of the report sent last.
Place(k, w) == Size - Len(w) + k
WireInv ==
  /\ wire # <<>> => Len(sent) > 0
  /\ \A k \in 1..Len(wire) :
       /\ wire[k].of = Len(sent) /\ wire[k].pos = Place(k, wire)
       /\ \/ wire[k].val = Genuine(wire[k], sent)
          \/ k = 1 /\ spoilt[Len(sent)] = wire[k].pos /\ wire[k].val \in Damaged

CalmInv == \A n \in 1..Len(sent) : spoilt[n] = 0 \/ spoilt[n - 1] = 0

\* What has been received is in the order sent, without gaps but lost bytes.
ChainInv ==
  /\ \A k \in 1..Len(rx) : ReceivedByte(rx[k], sent, spoilt)
  /\ \A k \in 1..(Len(rx) - 1) : Follows(rx[k], rx[k + 1], spoilt)
  /\ \A k, l \in 1..Len(rx) : k < l => Before(rx[k], rx[l])
  /\ \A k \in 1..Len(rx) : wire # <<>> => Before(rx[k], wire[1])
  /\ rx # <<>> => Newest(rx[Len(rx)], wire, sent, spoilt)

\* The reader has taken a first key, or both keys of a report, last.
KeyInv ==
  pc # "key1" =>
    /\ ReceivedByte(key, sent, spoilt)
    /\ rx # <<>> => Follows(key, rx[1], spoilt)
    /\ rx = <<>> => Newest(key, wire, sent, spoilt)
    /\ pc = "key2" => key.val = KEY1
    /\ pc = "body" => key.pos = 2 /\ key.of > last

\* Nothing of an accepted report is taken for a first key again.
NewInv ==
  /\ \A k \in 1..Len(rx) : New(rx[k], last)
  /\ wire # <<>> => New(wire[1], last)

IInv == TypeOK /\ WireInv /\ CalmInv /\ ChainInv /\ KeyInv /\ NewInv

-----------------------------------------------------------------------------
LEMMA ByteIsNumber == \A b \in Byte : b \in Nat /\ b \in 0..255
  BY DEF Byte

(***************************************************************************)
(* The checksum.  The sum of a sequence of bytes is a loop over it.        *)
(***************************************************************************)
LEMMA TotalLoop ==
  ASSUME NEW s \in Seq(Byte)
  PROVE  /\ Total(s)[0] = KEY1 + KEY2
         /\ \A n \in 1..Len(s) : Total(s)[n] = Total(s)[n - 1] + s[n]
         /\ \A n \in 0..Len(s) : Total(s)[n] \in Nat
<1> DEFINE Rec(f) == f = [n \in 0..Len(s) |-> IF n = 0 THEN KEY1 + KEY2 ELSE f[n - 1] + s[n]]
           step == [n \in 1..Len(s) |-> [x \in Nat |-> x + s[n]]]
           base == KEY1 + KEY2
<1>0. Len(s) \in Nat /\ \A n \in 1..Len(s) : s[n] \in Nat
  <2>1. Len(s) \in Nat /\ \A n \in 1..Len(s) : s[n] \in Byte
    BY ElementOfSeq
  <2> QED  BY <2>1, ByteIsNumber
<1>1. \E f \in Runs(Len(s), Nat) : Rec(f)
  <2>1. base \in Nat /\ Len(s) \in Nat
    BY DEF KEY1, KEY2
  <2>2. step \in Steps(Len(s), Nat)
    BY <1>0 DEF Steps
  <2>3. PICK f \in Runs(Len(s), Nat) : Loop(f, Len(s), base, step)
    <3> HIDE DEF step, base
    <3> QED  BY <2>1, <2>2, Recursion
  <2>4. ASSUME NEW n \in 1..Len(s) PROVE f[n] = f[n - 1] + s[n]
    <3>1. f[n - 1] \in Nat
      <4>1. n - 1 \in 0..Len(s)
        BY <2>1
      <4> QED  BY <4>1, <2>3 DEF Runs
    <3>2. f[n] = step[n][f[n - 1]]
      <4> HIDE DEF step
      <4> QED  BY <2>3 DEF Loop
    <3> QED  BY <3>1, <3>2
  <2>5. f = [n \in 0..Len(s) |-> f[n]]
    BY <2>3 DEF Runs
  <2>6. ASSUME NEW n \in 0..Len(s)
        PROVE  f[n] = IF n = 0 THEN KEY1 + KEY2 ELSE f[n - 1] + s[n]
    <3>1. CASE n = 0
      BY <3>1, <2>3 DEF Loop
    <3>2. CASE n \in 1..Len(s)
      BY <3>2, <2>4
    <3> QED  BY <3>1, <3>2
  <2>7. Rec(f)
    BY <2>5, <2>6
  <2> QED  BY <2>3, <2>7
<1>2. Total(s) = CHOOSE f : Rec(f)
  BY DEF Total
<1>3. Rec(Total(s))
  <2> HIDE DEF Rec
  <2> QED  BY <1>1, <1>2
<1>4. \A n \in 0..Len(s) : Total(s)[n] = IF n = 0 THEN KEY1 + KEY2 ELSE Total(s)[n - 1] + s[n]
  BY <1>3
<1> HIDE DEF Rec, step, base
<1>5. Total(s)[0] = KEY1 + KEY2
  BY <1>4
<1>6. ASSUME NEW n \in 1..Len(s) PROVE Total(s)[n] = Total(s)[n - 1] + s[n]
  BY <1>4
<1>7. \A n \in 0..Len(s) : Total(s)[n] \in Nat
  <2> DEFINE T == {n \in Nat : n <= Len(s) => Total(s)[n] \in Nat}
  <2>1. 0 \in T
    BY <1>5 DEF KEY1, KEY2
  <2>2. ASSUME NEW n \in T PROVE n + 1 \in T
    <3> SUFFICES ASSUME n + 1 <= Len(s) PROVE Total(s)[n + 1] \in Nat
      OBVIOUS
    <3>1. n \in Nat /\ n + 1 \in 1..Len(s) /\ (n + 1) - 1 = n
      BY <1>0
    <3>2. Total(s)[n + 1] = Total(s)[n] + s[n + 1] /\ Total(s)[n] \in Nat /\ s[n + 1] \in Nat
      BY <3>1, <1>0, <1>6
    <3> QED  BY <3>2
  <2>3. \A n \in Nat : n \in T
    <3> HIDE DEF T
    <3>1. T \in SUBSET Nat
      BY DEF T
    <3> QED  BY <2>1, <2>2, <3>1, NaturalInduction
  <2> QED  BY <2>3
<1> QED  BY <1>5, <1>6, <1>7

\* A change of one byte changes the sum by as much.
LEMMA SumChanges ==
  ASSUME NEW s \in Seq(Byte), NEW t \in Seq(Byte), Len(s) = Len(t), NEW j \in 1..Len(s),
         \A k \in 1..Len(s) : k # j => s[k] = t[k]
  PROVE  /\ SumOf(s) \in Nat /\ SumOf(t) \in Nat
         /\ SumOf(t) = SumOf(s) + (t[j] - s[j])
<1> DEFINE Off(k) == IF k < j THEN 0 ELSE t[j] - s[j]
           T == {k \in Nat : k <= Len(s) => Total(t)[k] = Total(s)[k] + Off(k)}
<1>1. 0 \in T
  BY TotalLoop DEF KEY1, KEY2
<1>2. ASSUME NEW k \in T PROVE k + 1 \in T
  <2> SUFFICES ASSUME k + 1 <= Len(s) PROVE Total(t)[k + 1] = Total(s)[k + 1] + Off(k + 1)
    OBVIOUS
  <2>1. /\ Total(t)[k + 1] = Total(t)[k] + t[k + 1] /\ Total(s)[k + 1] = Total(s)[k] + s[k + 1]
        /\ Total(t)[k] \in Nat /\ Total(s)[k] \in Nat
    <3>1. k + 1 \in 1..Len(s) /\ (k + 1) - 1 = k /\ k \in 0..Len(s)
      OBVIOUS
    <3> QED  BY <3>1, TotalLoop
  <2>2. Total(t)[k] = Total(s)[k] + Off(k)
    OBVIOUS
  <2>3. s[k + 1] \in Nat /\ t[k + 1] \in Nat /\ s[j] \in Nat /\ t[j] \in Nat
    <3>1. k + 1 \in 1..Len(s)
      OBVIOUS
    <3>2. s[k + 1] \in Byte /\ t[k + 1] \in Byte /\ s[j] \in Byte /\ t[j] \in Byte
      BY <3>1, ElementOfSeq
    <3> QED  BY <3>2, ByteIsNumber
  <2>4. CASE k + 1 = j
    BY <2>1, <2>2, <2>3, <2>4
  <2>5. CASE k + 1 # j
    <3>1. s[k + 1] = t[k + 1] /\ Off(k + 1) = Off(k)
      BY <2>5
    <3>2. Off(k) \in Int
      BY <2>3
    <3> HIDE DEF Off
    <3> QED  BY <2>1, <2>2, <2>3, <3>1, <3>2
  <2> QED  BY <2>4, <2>5
<1>3. \A k \in Nat : k \in T
  <2>1. T \in SUBSET Nat
    OBVIOUS
  <2> HIDE DEF T
  <2> QED  BY <1>1, <1>2, <2>1, NaturalInduction
<1>4. Len(s) \in Nat /\ Len(s) \in 0..Len(s) /\ ~(Len(s) < j)
  OBVIOUS
<1> QED  BY <1>3, <1>4, TotalLoop DEF SumOf

\* Of two sums that differ by less than 256 the low bytes differ.
LEMMA LowDiffers ==
  ASSUME NEW x \in Nat, NEW y \in Int, x + y \in Nat, -256 < y, y < 256, y # 0
  PROVE  Low(x + y) # Low(x)
<1>1. PICK q \in Int, r \in 0..255 : x = 256 * q + r
  <2>1. x \div 256 \in Int /\ x % 256 \in 0..255 /\ x = 256 * (x \div 256) + (x % 256)
    OBVIOUS
  <2> QED  BY <2>1
<1>2. Low(x) = r
  BY <1>1 DEF Low
<1>3. CASE r + y < 0
  <2>1. x + y = 256 * (q - 1) + (r + y + 256) /\ r + y + 256 \in 0..255
    BY <1>1, <1>3
  <2>2. Low(x + y) = r + y + 256
    BY <2>1 DEF Low
  <2> QED  BY <1>2, <2>2
<1>4. CASE r + y \in 0..255
  <2>1. x + y = 256 * q + (r + y)
    BY <1>1
  <2>2. Low(x + y) = r + y
    BY <1>4, <2>1 DEF Low
  <2> QED  BY <1>2, <2>2
<1>5. CASE r + y > 255
  <2>1. x + y = 256 * (q + 1) + (r + y - 256) /\ r + y - 256 \in 0..255
    BY <1>1, <1>5
  <2>2. Low(x + y) = r + y - 256
    BY <2>1 DEF Low
  <2> QED  BY <1>2, <2>2
<1> QED  BY <1>3, <1>4, <1>5

-----------------------------------------------------------------------------
(***************************************************************************)
(* Reports.                                                                *)
(***************************************************************************)
LEMMA SumType ==
  ASSUME NEW s \in Seq(Byte)
  PROVE  SumOf(s) \in Nat
<1>1. Len(s) \in 0..Len(s)
  OBVIOUS
<1> QED  BY <1>1, TotalLoop DEF SumOf

LEMMA LowType ==
  ASSUME NEW x \in Nat
  PROVE  Low(x) \in Byte /\ Low(x \div 256) \in Byte
  BY DEF Low, Byte

LEMMA DataType ==
  ASSUME NEW d \in Data
  PROVE  d \in Seq(Byte) /\ Len(d) = DATA /\ d \in [1..DATA -> Byte]
<1>1. d \in [1..DATA -> Byte] /\ DATA \in Nat
  BY DataAssumption, DataSizeAssumption
<1> QED  BY <1>1

\* The bytes of a report: the keys, the data and the checksum, in this order.
LEMMA BodyBytes ==
  ASSUME NEW d \in Data
  PROVE  /\ Body(d) \in Seq(Byte) /\ Len(Body(d)) = Rest
         /\ \A k \in 1..DATA : Body(d)[k] = d[k]
         /\ Body(d)[DATA + 2] = Low(SumOf(d))
         /\ \A k \in 1..Rest : Body(d)[k] \in Byte
<1> DEFINE check == make_eggm_sr_checksum(d)
<1>1. check \in Seq(Byte) /\ Len(check) = 2 /\ check[2] = Low(SumOf(d))
  BY DataType, SumType, LowType DEF make_eggm_sr_checksum
<1>2. d \in Seq(Byte) /\ Len(d) = DATA /\ DATA \in Nat
  BY DataType, DataSizeAssumption
<1> HIDE DEF check
<1>3. /\ d \o check \in Seq(Byte) /\ Len(d \o check) = DATA + 2
      /\ \A k \in 1..(DATA + 2) : (d \o check)[k] = IF k <= DATA THEN d[k] ELSE check[k - DATA]
  <2>1. /\ d \o check \in Seq(Byte) /\ Len(d \o check) = Len(d) + Len(check)
        /\ \A k \in 1..Len(d) + Len(check) :
             (d \o check)[k] = IF k <= Len(d) THEN d[k] ELSE check[k - Len(d)]
    BY <1>1, <1>2, ConcatProperties
  <2> QED  BY <1>1, <1>2, <2>1
<1>4. Body(d) = d \o check
  BY DEF Body, check
<1>5. (DATA + 2) - DATA = 2 /\ ~(DATA + 2 <= DATA) /\ DATA + 2 \in 1..(DATA + 2)
  BY <1>2
<1>6. Body(d)[DATA + 2] = Low(SumOf(d))
  BY <1>1, <1>3, <1>4, <1>5
<1>7. \A k \in 1..DATA : Body(d)[k] = d[k]
  BY <1>2, <1>3, <1>4
<1> QED  BY <1>3, <1>4, <1>6, <1>7, ElementOfSeq DEF Rest

LEMMA ReportBytes ==
  ASSUME NEW d \in Data
  PROVE  /\ Report(d) \in Seq(Byte) /\ Len(Report(d)) = Size
         /\ Report(d)[1] = KEY1 /\ Report(d)[2] = KEY2
         /\ \A k \in 1..Rest : Report(d)[k + 2] = Body(d)[k]
         /\ \A k \in 1..Size : Report(d)[k] \in Byte
<1> DEFINE keys == <<KEY1, KEY2>>
<1>1. keys \in Seq(Byte) /\ Len(keys) = 2 /\ keys[1] = KEY1 /\ keys[2] = KEY2
  BY DEF KEY1, KEY2, Byte
<1>2. Body(d) \in Seq(Byte) /\ Len(Body(d)) = Rest /\ Rest \in Nat
  BY BodyBytes, DataSizeAssumption DEF Rest
<1> HIDE DEF keys
<1>3. /\ keys \o Body(d) \in Seq(Byte) /\ Len(keys \o Body(d)) = 2 + Rest
      /\ \A k \in 1..(2 + Rest) :
           (keys \o Body(d))[k] = IF k <= 2 THEN keys[k] ELSE Body(d)[k - 2]
  <2>1. /\ keys \o Body(d) \in Seq(Byte) /\ Len(keys \o Body(d)) = Len(keys) + Len(Body(d))
        /\ \A k \in 1..Len(keys) + Len(Body(d)) :
             (keys \o Body(d))[k] = IF k <= Len(keys) THEN keys[k] ELSE Body(d)[k - Len(keys)]
    BY <1>1, <1>2, ConcatProperties
  <2> QED  BY <1>1, <1>2, <2>1
<1>4. Report(d) = keys \o Body(d)
  BY DEF Report, keys
<1>5. \A k \in 1..Rest : k + 2 \in 1..(2 + Rest) /\ ~(k + 2 <= 2) /\ (k + 2) - 2 = k
  BY <1>2
<1>6. \A k \in 1..Rest : Report(d)[k + 2] = Body(d)[k]
  BY <1>3, <1>4, <1>5
<1>7. Report(d)[1] = KEY1 /\ Report(d)[2] = KEY2
  BY <1>1, <1>2, <1>3, <1>4
<1>8. 2 + Rest = Size
  BY <1>2 DEF Size
<1> QED  BY <1>3, <1>4, <1>6, <1>7, <1>8, ElementOfSeq

\* Where the values of the keys are in a report, as it arrives.
LEMMA KeysInReport ==
  ASSUME NEW d \in Data, NEW k \in 1..Size
  PROVE  /\ Icrnl(Report(d)[k]) = KEY1 <=> k = 1
         /\ Icrnl(Report(d)[k]) = KEY2 <=> k = 2
<1>1. CASE k \in {1, 2}
  BY <1>1, ReportBytes DEF Icrnl, KEY1, KEY2, CR
<1>2. CASE k \notin {1, 2}
  <2>1. k - 2 \in 1..Rest /\ (k - 2) + 2 = k
    BY <1>2, DataSizeAssumption DEF Size, Rest
  <2>2. Report(d)[k] = Body(d)[k - 2]
    BY <2>1, ReportBytes
  <2>3. Report(d)[k] \notin {KEY1, KEY2}
    BY <2>1, <2>2, DataAssumption
  <2> QED  BY <1>2, <2>3 DEF Icrnl, KEY1, KEY2, CR, NL
<1> QED  BY <1>1, <1>2

(***************************************************************************)
(* A report that passes the comparison of one byte of the checksum, whole, *)
(* without a CR and with at most one byte damaged, has the data sent.      *)
(***************************************************************************)
LEMMA DamageFound ==
  ASSUME NEW d \in Data, ~HasCR(d), NEW b \in Altered(Body(d)), Matches(Received(b))
  PROVE  SubSeq(Received(b), 1, DATA) = d
<1> DEFINE t == SubSeq(Received(b), 1, DATA)
<1>0. DATA \in Nat \ {0} /\ Rest = DATA + 2 /\ d \in Seq(Byte) /\ Len(d) = DATA
  BY DataSizeAssumption, DataType DEF Rest
<1>1. \A k \in 1..Rest : Body(d)[k] # CR
  BY DEF HasCR
<1>2. DOMAIN Body(d) = 1..Rest
  BY BodyBytes
<1>3. PICK j \in 1..Rest : \A k \in 1..Rest : k # j => b[k] = Body(d)[k]
  <2>1. CASE b = Body(d)
    BY <2>1, <1>0
  <2>2. CASE \E k \in 1..Rest, v \in Damaged : b = [Body(d) EXCEPT ![k] = v]
    BY <2>2, <1>2
  <2> QED  BY <2>1, <2>2 DEF Altered
<1>4. \A k \in 1..Rest : b[k] \in Byte
  <2>1. CASE b = Body(d)
    BY <2>1, BodyBytes
  <2>2. CASE \E k \in 1..Rest, v \in Damaged : b = [Body(d) EXCEPT ![k] = v]
    BY <2>2, <1>2, BodyBytes, DamagedAssumption
  <2> QED  BY <2>1, <2>2 DEF Altered
<1>5. \A k \in 1..Rest : Received(b)[k] \in Byte
  BY <1>4 DEF Received, Icrnl, Byte, NL
<1>6. \A k \in 1..Rest : k # j => Received(b)[k] = Body(d)[k]
  BY <1>1, <1>3 DEF Received, Icrnl
<1>7. t \in Seq(Byte) /\ Len(t) = DATA /\ \A k \in 1..DATA : t[k] = Received(b)[k]
  <2>1. \A k \in 1..DATA : Received(b)[k] \in Byte
    BY <1>0, <1>5
  <2>2. /\ t \in Seq(Byte) /\ Len(t) = IF 1 <= DATA THEN DATA - 1 + 1 ELSE 0
        /\ \A k \in 1..(DATA - 1 + 1) : t[k] = Received(b)[1 + k - 1]
    BY <1>0, <2>1, SubSeqProperties
  <2> QED  BY <1>0, <2>2
<1> HIDE DEF t
<1>8. \A k \in 1..DATA : k # j => t[k] = d[k]
  BY <1>0, <1>6, <1>7, BodyBytes
<1>9. CASE j \notin 1..DATA
  BY <1>0, <1>7, <1>8, <1>9, SeqEqual DEF t
<1>10. CASE j \in 1..DATA
  <2>1. Received(b)[DATA + 2] = Low(SumOf(d))
    BY <1>0, <1>6, <1>10, BodyBytes
  <2>2. Low(SumOf(t)) = Low(SumOf(d))
    BY <2>1 DEF Matches, t
  <2>3. SumOf(d) \in Nat /\ SumOf(t) \in Nat /\ SumOf(t) = SumOf(d) + (t[j] - d[j])
    BY <1>0, <1>7, <1>8, <1>10, SumChanges
  <2>4. t[j] \in 0..255 /\ d[j] \in 0..255
    <3>1. t[j] \in Byte /\ d[j] \in Byte
      BY <1>0, <1>7, <1>10, ElementOfSeq
    <3> QED  BY <3>1, ByteIsNumber
  <2>5. t[j] = d[j]
    <3>1. /\ t[j] - d[j] \in Int /\ -256 < t[j] - d[j] /\ t[j] - d[j] < 256
          /\ t[j] # d[j] => t[j] - d[j] # 0
      <4>1. \A x, y \in 0..255 : /\ x - y \in Int /\ -256 < x - y /\ x - y < 256
                                 /\ x # y => x - y # 0
        OBVIOUS
      <4> QED  BY <2>4, <4>1
    <3> QED  BY <2>2, <2>3, <3>1, LowDiffers
  <2> QED  BY <1>0, <1>7, <1>8, <2>5, SeqEqual DEF t
<1> QED  BY <1>9, <1>10

-----------------------------------------------------------------------------
(***************************************************************************)
(* Types.                                                                  *)
(***************************************************************************)
LEMMA Sizes == /\ DATA \in Nat \ {0} /\ Rest = DATA + 2 /\ Size = DATA + 4 /\ After = DATA + 5
               /\ Rest \in Nat /\ Size \in Nat /\ After \in Nat
  BY DataSizeAssumption DEF Rest, Size, After

LEMMA SeqGrows ==
  ASSUME NEW S, NEW T, S \subseteq T, NEW s \in Seq(S)
  PROVE  s \in Seq(T)
  OBVIOUS

LEMMA IcrnlType ==
  ASSUME NEW v \in Byte
  PROVE  Icrnl(v) \in Byte
  BY DEF Icrnl, Byte, NL

\* What Head and Tail are, by index.
LEMMA Taken ==
  ASSUME NEW S, NEW s \in Seq(S), s # <<>>
  PROVE  /\ Len(s) \in Nat \ {0} /\ Head(s) = s[1] /\ s[1] \in S
         /\ Tail(s) \in Seq(S) /\ Len(Tail(s)) = Len(s) - 1
         /\ \A k \in 1..(Len(s) - 1) : Tail(s)[k] = s[k + 1]
<1>1. Len(s) \in Nat \ {0}
  BY EmptySeq
<1>2. Head(s) = s[1] /\ s[1] \in S
  BY <1>1, ElementOfSeq
<1> QED  BY <1>1, <1>2, HeadTailProperties

LEMMA InitType == Init => TypeOK
<1> SUFFICES ASSUME Init PROVE TypeOK
  OBVIOUS
<1>1. Len(sent) = 0 /\ Len(wire) = 0
  BY DEF Init
<1>2. key \in TaggedByte
  BY <1>1, Sizes DEF Init, TaggedByte, NoByte, Byte
<1>3. spoilt \in [0..Len(sent) -> 0..After]
  BY <1>1, Sizes DEF Init
<1>4. budget \in [{"send", "fault"} -> Nat]
  BY BudgetsAssumption DEF Init
<1>5. wire \in Seq(TaggedByte) /\ rx \in Seq(TaggedByte) /\ sent \in Seq(Data)
  BY DEF Init
<1>6. accepted \in Seq(TakenReport)
  BY DEF Init
<1> QED  BY <1>1, <1>2, <1>3, <1>4, <1>5, <1>6, Sizes DEF Init, TypeOK

LEMMA NextType == TypeOK /\ WireInv /\ [Next]_vars => TypeOK'
<1> SUFFICES ASSUME TypeOK, WireInv, [Next]_vars PROVE TypeOK'
  OBVIOUS
<1>0. Len(sent) \in Nat /\ NoByte \in TaggedByte
  BY Sizes DEF TypeOK, TaggedByte, NoByte, Byte
<1>1. ASSUME NEW d \in Data, BoardSend(d) PROVE TypeOK'
  <2>1. sent' \in Seq(Data) /\ Len(sent') = Len(sent) + 1
    BY <1>1, AppendProperties DEF BoardSend, TypeOK
  <2>2. TaggedByte \subseteq TaggedByte'
    BY <2>1, <1>0 DEF TaggedByte
  <2>3. \A k \in 1..Size : [val |-> Report(d)[k], of |-> Len(sent) + 1, pos |-> k] \in TaggedByte'
    BY <2>1, <1>0, Sizes, ReportBytes DEF TaggedByte
  <2>4. wire' \in Seq(TaggedByte') /\ Len(wire') = Size
    BY <1>1, <2>3, Sizes DEF BoardSend
  <2>5. rx' \in Seq(TaggedByte') /\ key' \in TaggedByte'
    BY <1>1, <2>2, SeqGrows DEF BoardSend, TypeOK
  <2>6. spoilt' \in [0..Len(sent') -> 0..After]
    BY <1>1, <2>1, <1>0, Sizes DEF BoardSend, TypeOK
  <2>7. budget' \in [{"send", "fault"} -> Nat]
    BY <1>1 DEF BoardSend, Spend, TypeOK
  <2>8. accepted' \in Seq(TakenReport')
    <3>1. TakenReport \subseteq TakenReport'
      BY <2>1, <1>0 DEF TakenReport
    <3> QED  BY <1>1, <3>1, SeqGrows DEF BoardSend, TypeOK
  <2> QED  BY <1>1, <2>1, <2>4, <2>5, <2>6, <2>7, <2>8, Sizes DEF BoardSend, TypeOK
<1>2. CASE Arrive
  <2>1. /\ wire[1] \in TaggedByte /\ wire' \in Seq(TaggedByte) /\ Len(wire') <= Size
        /\ rx' = Append(rx, [wire[1] EXCEPT !.val = Icrnl(@)])
    <3>1. wire \in Seq(TaggedByte) /\ wire # <<>> /\ Len(wire) <= Size
      BY <1>2 DEF Arrive, TypeOK
    <3>2. /\ wire[1] \in TaggedByte /\ Head(wire) = wire[1] /\ Tail(wire) \in Seq(TaggedByte)
          /\ Len(Tail(wire)) = Len(wire) - 1 /\ Len(wire) \in Nat
      BY <3>1, Taken
    <3> QED  BY <1>2, <3>1, <3>2, Sizes DEF Arrive
  <2>2. [wire[1] EXCEPT !.val = Icrnl(@)] \in TaggedByte
    BY <2>1, IcrnlType DEF TaggedByte
  <2>3. rx' \in Seq(TaggedByte)
    BY <2>1, <2>2, AppendProperties DEF TypeOK
  <2> QED  BY <1>2, <2>1, <2>3 DEF Arrive, TypeOK, TaggedByte, TakenReport
<1>3. ASSUME NEW place \in 1..After, Spoil(place)
      PROVE  spoilt' \in [0..Len(sent) -> 0..After] /\ budget' \in [{"send", "fault"} -> Nat]
  BY <1>3, Sizes DEF Spoil, Spend, TypeOK
<1>4. ASSUME wire # <<>>
      PROVE  wire[1] \in TaggedByte /\ Head(wire) = wire[1] /\ wire[1].pos \in 1..After
  <2>1. Len(wire) \in 1..Size /\ wire[1] \in TaggedByte /\ Head(wire) = wire[1]
    BY <1>4, Taken DEF TypeOK
  <2>2. wire[1].pos = Size - Len(wire) + 1
    BY <2>1 DEF WireInv, Place
  <2> QED  BY <2>1, <2>2, Sizes
<1>5. ASSUME NEW v \in Damaged, Damage(v) PROVE TypeOK'
  <2>1. Len(wire) \in Nat \ {0} /\ 1 \in DOMAIN wire
    BY <1>5, Taken DEF Damage, TypeOK
  <2>2. [wire[1] EXCEPT !.val = v] \in TaggedByte
    BY <1>4, <1>5, DamagedAssumption DEF Damage, TaggedByte
  <2>3. wire' = [wire EXCEPT ![1] = [wire[1] EXCEPT !.val = v]]
    BY <1>5 DEF Damage
  <2>4. wire' \in Seq(TaggedByte) /\ Len(wire') = Len(wire)
    BY <2>1, <2>2, <2>3 DEF TypeOK
  <2> QED  BY <1>3, <1>4, <1>5, <2>4 DEF Damage, Spoil, TypeOK, TaggedByte, TakenReport
<1>6. CASE Lose
  <2>1. wire' \in Seq(TaggedByte) /\ Len(wire') <= Size
    BY <1>6, Taken, Sizes DEF Lose, TypeOK
  <2> QED  BY <1>3, <1>4, <1>6, <2>1 DEF Lose, Spoil, TypeOK, TaggedByte, TakenReport
<1>7. ASSUME NEW v \in Damaged, Noise(v) PROVE TypeOK'
  <2>1. [val |-> Icrnl(v), of |-> Len(sent), pos |-> After] \in TaggedByte
    BY <1>0, Sizes, IcrnlType, DamagedAssumption DEF TaggedByte
  <2>2. rx' \in Seq(TaggedByte)
    BY <1>7, <2>1, AppendProperties DEF Noise, TypeOK
  <2>3. After \in 1..After
    BY Sizes
  <2> QED  BY <1>3, <1>7, <2>2, <2>3 DEF Noise, Spoil, TypeOK, TaggedByte, TakenReport
<1>8. CASE ReadKey1 \/ ReadKey2
  <2>1. rx' \in Seq(TaggedByte) /\ key' \in TaggedByte
    <3>1. rx \in Seq(TaggedByte)
      BY DEF TypeOK
    <3>2. rx # <<>> => Head(rx) \in TaggedByte /\ Tail(rx) \in Seq(TaggedByte)
      BY <3>1, Taken
    <3>3. <<>> \in Seq(TaggedByte)
      OBVIOUS
    <3> HIDE DEF TaggedByte, NoByte
    <3> QED  BY <1>0, <1>8, <3>1, <3>2, <3>3 DEF ReadKey1, ReadKey2, Take, Tcflush, FromKey1
  <2>2. UNCHANGED <<wire, sent, spoilt, budget, accepted>>
    BY <1>8 DEF ReadKey1, ReadKey2, Reading, Nothing
  <2> QED  BY <1>8, <2>1, <2>2
           DEF ReadKey1, ReadKey2, Tcflush, FromKey1, TypeOK, TaggedByte, TakenReport
<1>9. CASE ReadBody
  <2>1. UNCHANGED <<wire, sent, spoilt, budget>> /\ key' = NoByte /\ pc' = "key1"
    BY <1>9 DEF ReadBody, Reading, Tcflush, FromKey1
  <2>2. CASE Accept /\ rx' = SubSeq(rx, Rest + 1, Len(rx))
    <3> DEFINE d == SubSeq(ReadBuff, 1, DATA)
    <3>1. NumberRead \in 0..Len(sent)
      <4>1. rx # <<>> => Head(rx) \in TaggedByte
        BY Taken DEF TypeOK
      <4>2. (rx # <<>> => Head(rx).of \in 0..Len(sent)) /\ key.of \in 0..Len(sent)
        BY <4>1 DEF TaggedByte, TypeOK
      <4> QED  BY <1>0, <4>2 DEF NumberRead
    <3>2. \A k \in 1..DATA : ReadBuff[k] \in Byte
      <4> SUFFICES ASSUME NEW k \in 1..DATA PROVE ReadBuff[k] \in Byte
        OBVIOUS
      <4>1. k \in 1..Rest /\ 0 \in Byte
        BY Sizes DEF Byte
      <4>2. k \in DOMAIN rx => rx[k] \in TaggedByte
        BY DEF TypeOK
      <4> QED  BY <4>1, <4>2 DEF ReadBuff, TaggedByte
    <3>3. d \in [1..DATA -> Byte]
      <4>1. d \in Seq(Byte) /\ Len(d) = IF 1 <= DATA THEN DATA - 1 + 1 ELSE 0
        BY <3>2, Sizes, SubSeqProperties
      <4>2. Len(d) = DATA
        BY <4>1, Sizes
      <4> HIDE DEF d
      <4> QED  BY <4>1, <4>2
    <3> HIDE DEF d
    <3>4. \A k \in (Rest + 1)..Len(rx) : rx[k] \in TaggedByte
      BY Sizes DEF TypeOK
    <3>5. rx' \in Seq(TaggedByte)
      <4>1. Rest + 1 \in Int /\ Len(rx) \in Int
        BY Sizes DEF TypeOK
      <4> QED  BY <2>2, <3>4, <4>1, SubSeqProperties
    <3>6. accepted' \in Seq(TakenReport)
      <4>1. [num |-> NumberRead, data |-> d] \in TakenReport
        BY <3>1, <3>3 DEF TakenReport
      <4>2. accepted' = Append(accepted, [num |-> NumberRead, data |-> d])
        BY <2>2 DEF Accept, d
      <4>3. accepted \in Seq(TakenReport)
        BY DEF TypeOK
      <4> QED  BY <4>1, <4>2, <4>3, AppendProperties
    <3>7. TaggedByte' = TaggedByte /\ TakenReport' = TakenReport
      BY <2>1 DEF TaggedByte, TakenReport
    <3> QED  BY <2>1, <3>5, <3>6, <3>7, <1>0 DEF TypeOK
  <2>3. CASE rx' = <<>> /\ UNCHANGED accepted
    BY <2>1, <2>3, <1>0 DEF TypeOK, TaggedByte, TakenReport
  <2> QED  BY <1>9, <2>2, <2>3 DEF ReadBody, Tcflush, Nothing, FromKey1
<1>10. CASE UNCHANGED vars
  BY <1>10 DEF vars, TypeOK, TaggedByte, TakenReport
<1> QED  BY <1>1, <1>2, <1>5, <1>6, <1>7, <1>8, <1>9, <1>10 DEF Next, Line, pw_mgr_task

-----------------------------------------------------------------------------
(***************************************************************************)
(* What happens on the line leaves the order of the bytes as it is.        *)
(***************************************************************************)
\* Reports are added; what has happened to one stays.
Extends(s, f, t, g) ==
  /\ s \in Seq(Data) /\ t \in Seq(Data) /\ Len(s) <= Len(t)
  /\ \A n \in 1..Len(s) : t[n] = s[n]
  /\ \A n \in 0..Len(s) : f[n] # 0 => g[n] = f[n]

LEMMA ReceivedStays ==
  ASSUME NEW s, NEW f, NEW t, NEW g, NEW b, Extends(s, f, t, g), ReceivedByte(b, s, f)
  PROVE  ReceivedByte(b, t, g)
<1>1. Len(s) \in Nat /\ Len(t) \in Nat /\ Len(s) <= Len(t)
  BY DEF Extends
<1>2. CASE b.pos = After
  BY <1>1, <1>2, Sizes DEF Extends, ReceivedByte
<1>3. CASE b.pos \in 1..Size /\ b.of \in 1..Len(s)
  <2>1. b.of \in 1..Len(t) /\ t[b.of] = s[b.of] /\ b.pos # 0 /\ b.of \in 0..Len(s) /\ b.pos # After
    BY <1>1, <1>3, Sizes DEF Extends
  <2>2. f[b.of] = b.pos => g[b.of] = b.pos
    BY <2>1 DEF Extends
  <2> QED  BY <1>3, <2>1, <2>2 DEF ReceivedByte, Genuine
<1> QED  BY <1>2, <1>3 DEF ReceivedByte

LEMMA FollowsStays ==
  ASSUME NEW s, NEW f, NEW t, NEW g, NEW a, NEW b, Extends(s, f, t, g),
         a.of \in 0..Len(s), b.of \in 0..Len(s), a.pos \in Nat, Follows(a, b, f)
  PROVE  Follows(a, b, g)
<1>1. f[a.of] = a.pos + 1 => g[a.of] = a.pos + 1
  BY DEF Extends
<1>2. f[a.of] = Size => g[a.of] = Size
  BY Sizes DEF Extends
<1>3. f[b.of] = 1 => g[b.of] = 1
  BY DEF Extends
<1> QED  BY <1>1, <1>2, <1>3 DEF Follows

LEMMA ReceivedNumbers ==
  ASSUME NEW s \in Seq(Data), NEW f, NEW b, ReceivedByte(b, s, f)
  PROVE  b.of \in 0..Len(s) /\ b.of \in Nat /\ b.pos \in 1..After /\ b.pos \in Nat
<1>1. Len(s) \in Nat
  OBVIOUS
<1> QED  BY <1>1, Sizes DEF ReceivedByte

\* The invariants of what has been read and received, if no byte arrives.
LEMMA NotReceived ==
  ASSUME TypeOK, ChainInv, KeyInv, UNCHANGED <<rx, key, pc, last>>,
         Extends(sent, spoilt, sent', spoilt'),
         \A b : ReceivedByte(b, sent, spoilt) =>
                  /\ Newest(b, wire, sent, spoilt) => Newest(b, wire', sent', spoilt')
                  /\ (wire # <<>> => Before(b, wire[1])) /\ wire' # <<>> => Before(b, wire'[1])
  PROVE  ChainInv' /\ KeyInv'
<1>0. sent \in Seq(Data) /\ rx \in Seq(TaggedByte) /\ Len(rx) \in Nat
  BY DEF TypeOK
<1>1. \A k \in 1..Len(rx) : ReceivedByte(rx[k], sent', spoilt')
  BY ReceivedStays DEF ChainInv
<1>2. ASSUME NEW k \in 1..(Len(rx) - 1) PROVE Follows(rx[k], rx[k + 1], spoilt')
  <2>1. k \in 1..Len(rx) /\ k + 1 \in 1..Len(rx)
    BY <1>0
  <2>2. ReceivedByte(rx[k], sent, spoilt) /\ ReceivedByte(rx[k + 1], sent, spoilt)
        /\ Follows(rx[k], rx[k + 1], spoilt)
    BY <2>1 DEF ChainInv
  <2> QED  BY <1>0, <2>2, FollowsStays, ReceivedNumbers
<1>3. \A k \in 1..Len(rx) : wire' # <<>> => Before(rx[k], wire'[1])
  BY DEF ChainInv
<1>4. rx # <<>> => Newest(rx[Len(rx)], wire', sent', spoilt')
  <2>1. rx # <<>> => Len(rx) \in 1..Len(rx)
    BY <1>0, EmptySeq
  <2> QED  BY <2>1 DEF ChainInv
<1>5. ChainInv'
  BY <1>1, <1>2, <1>3, <1>4 DEF ChainInv
<1>6. KeyInv'
  <2> SUFFICES ASSUME pc # "key1"
               PROVE  /\ ReceivedByte(key, sent', spoilt')
                      /\ rx # <<>> => Follows(key, rx[1], spoilt')
                      /\ rx = <<>> => Newest(key, wire', sent', spoilt')
    BY DEF KeyInv
  <2>1. ReceivedByte(key, sent, spoilt)
    BY DEF KeyInv
  <2>2. ReceivedByte(key, sent', spoilt')
    BY <2>1, ReceivedStays
  <2>3. ASSUME rx # <<>> PROVE Follows(key, rx[1], spoilt')
    <3>1. 1 \in 1..Len(rx)
      BY <1>0, <2>3, EmptySeq
    <3>2. ReceivedByte(rx[1], sent, spoilt) /\ Follows(key, rx[1], spoilt)
      BY <2>3, <3>1 DEF ChainInv, KeyInv
    <3> QED  BY <1>0, <2>1, <3>2, FollowsStays, ReceivedNumbers
  <2>4. rx = <<>> => Newest(key, wire', sent', spoilt')
    BY <2>1 DEF KeyInv
  <2> QED  BY <2>2, <2>3, <2>4
<1> QED  BY <1>5, <1>6

\* The same if the byte x arrives.
LEMMA OneReceived ==
  ASSUME TypeOK, ChainInv, KeyInv, UNCHANGED <<key, pc, last>>,
         Extends(sent, spoilt, sent', spoilt'),
         NEW x \in TaggedByte, rx' = Append(rx, x),
         ReceivedByte(x, sent', spoilt'), Newest(x, wire', sent', spoilt'),
         wire' # <<>> => Before(x, wire'[1]),
         \A b : ReceivedByte(b, sent, spoilt) =>
                  /\ Newest(b, wire, sent, spoilt) => Follows(b, x, spoilt')
                  /\ (wire # <<>> => Before(b, wire[1])) =>
                       /\ Before(b, x)
                       /\ wire' # <<>> => Before(b, wire'[1])
  PROVE  ChainInv' /\ KeyInv'
<1>0. sent \in Seq(Data) /\ rx \in Seq(TaggedByte) /\ Len(rx) \in Nat
  BY DEF TypeOK
<1> DEFINE L == Len(rx)
<1>1. /\ Len(rx') = L + 1 /\ rx' # <<>> /\ rx'[L + 1] = x
      /\ \A k \in 1..L : rx'[k] = rx[k]
  BY <1>0, AppendProperties
<1>2. \A k \in 1..(L + 1) : k \in 1..L \/ k = L + 1
  BY <1>0
<1>3. \A k \in 1..L : ReceivedByte(rx[k], sent, spoilt) /\ ReceivedByte(rx[k], sent', spoilt')
  BY ReceivedStays DEF ChainInv
<1>4. \A k \in 1..L : wire # <<>> => Before(rx[k], wire[1])
  BY DEF ChainInv
<1>5. \A k \in 1..L : Before(rx[k], x) /\ (wire' # <<>> => Before(rx[k], wire'[1]))
  BY <1>3, <1>4
<1>6. ASSUME NEW k \in 1..L PROVE Follows(rx'[k], rx'[k + 1], spoilt')
  <2>1. CASE k = L
    <3>1. Newest(rx[k], wire, sent, spoilt)
      BY <1>0, <2>1, EmptySeq DEF ChainInv
    <3> QED  BY <1>1, <1>3, <2>1, <3>1
  <2>2. CASE k # L
    <3>1. k \in 1..(L - 1) /\ k + 1 \in 1..L
      BY <1>0, <2>2
    <3>2. Follows(rx[k], rx[k + 1], spoilt)
      BY <3>1 DEF ChainInv
    <3>3. Follows(rx[k], rx[k + 1], spoilt')
      BY <1>0, <1>3, <3>1, <3>2, FollowsStays, ReceivedNumbers
    <3> QED  BY <1>1, <3>1, <3>3
  <2> QED  BY <2>1, <2>2
<1>7. ASSUME NEW k \in 1..(L + 1), NEW l \in 1..(L + 1), k < l PROVE Before(rx'[k], rx'[l])
  <2>1. k \in 1..L
    BY <1>0, <1>7
  <2>2. l \in 1..L => Before(rx[k], rx[l])
    BY <1>7, <2>1 DEF ChainInv
  <2> QED  BY <1>1, <1>2, <1>5, <2>1, <2>2
<1>8. (L + 1) - 1 = L /\ 1 \in 1..(L + 1)
  BY <1>0
<1>9. ChainInv'
  <2> HIDE DEF L
  <2>1. \A k \in 1..Len(rx)' : ReceivedByte(rx'[k], sent', spoilt')
    BY <1>1, <1>2, <1>3
  <2>2. \A k \in 1..(Len(rx)' - 1) : Follows(rx'[k], rx'[k + 1], spoilt')
    BY <1>1, <1>6, <1>8
  <2>3. \A k \in 1..Len(rx)' : wire' # <<>> => Before(rx'[k], wire'[1])
    BY <1>1, <1>2, <1>5
  <2>4. \A k, l \in 1..Len(rx)' : k < l => Before(rx'[k], rx'[l])
    BY <1>1, <1>7
  <2>5. Newest(rx'[Len(rx)'], wire', sent', spoilt')
    BY <1>1
  <2> QED  BY <2>1, <2>2, <2>3, <2>4, <2>5 DEF ChainInv
<1>10. KeyInv'
  <2> SUFFICES ASSUME pc # "key1"
               PROVE  ReceivedByte(key, sent', spoilt') /\ Follows(key, rx'[1], spoilt')
    BY <1>1 DEF KeyInv
  <2>1. ReceivedByte(key, sent, spoilt)
    BY DEF KeyInv
  <2>2. CASE rx = <<>>
    <3>1. L = 0 /\ rx'[1] = x
      BY <1>1, <2>2
    <3> QED  BY <2>1, <2>2, <3>1, ReceivedStays DEF KeyInv
  <2>3. CASE rx # <<>>
    <3>1. 1 \in 1..L /\ rx'[1] = rx[1]
      BY <1>0, <1>1, <2>3, EmptySeq
    <3>2. ReceivedByte(rx[1], sent, spoilt) /\ Follows(key, rx[1], spoilt)
      BY <1>3, <2>3, <3>1 DEF KeyInv
    <3> QED  BY <1>0, <2>1, <3>1, <3>2, FollowsStays, ReceivedNumbers, ReceivedStays
  <2> QED  BY <2>2, <2>3
<1> QED  BY <1>9, <1>10

-----------------------------------------------------------------------------
(***************************************************************************)
(* The steps of the line.                                                  *)
(***************************************************************************)
\* The first byte under way.
LEMMA WireHead ==
  ASSUME TypeOK, WireInv, wire # <<>>
  PROVE  /\ Len(wire) \in 1..Size /\ Head(wire) = wire[1] /\ wire[1] \in TaggedByte
         /\ wire[1].of = Len(sent) /\ wire[1].pos = Size - Len(wire) + 1
         /\ wire[1].pos \in 1..Size /\ Len(sent) \in Nat \ {0}
         /\ Len(Tail(wire)) = Len(wire) - 1 /\ Tail(wire) \in Seq(TaggedByte)
         /\ \A k \in 1..(Len(wire) - 1) : Tail(wire)[k] = wire[k + 1]
         /\ Tail(wire) # <<>> =>
              Tail(wire)[1].of = Len(sent) /\ Tail(wire)[1].pos = wire[1].pos + 1
         /\ Tail(wire) = <<>> => wire[1].pos = Size
<1>1. /\ Len(wire) \in 1..Size /\ Head(wire) = wire[1] /\ wire[1] \in TaggedByte
      /\ Len(Tail(wire)) = Len(wire) - 1 /\ Tail(wire) \in Seq(TaggedByte)
      /\ \A k \in 1..(Len(wire) - 1) : Tail(wire)[k] = wire[k + 1]
  BY Taken, Sizes DEF TypeOK
<1>2. \A k \in 1..Len(wire) : wire[k].of = Len(sent) /\ wire[k].pos = Size - Len(wire) + k
  BY DEF WireInv, Place
<1>3. 1 \in 1..Len(wire) /\ Size \in Nat
  BY <1>1, Sizes
<1>4. wire[1].of = Len(sent) /\ wire[1].pos = Size - Len(wire) + 1
  BY <1>2, <1>3
<1>5. ASSUME Tail(wire) # <<>>
      PROVE  Tail(wire)[1].of = Len(sent) /\ Tail(wire)[1].pos = wire[1].pos + 1
  <2>1. Len(Tail(wire)) \in Nat \ {0}
    BY <1>1, <1>5, EmptySeq
  <2>2. 1 \in 1..(Len(wire) - 1) /\ 2 \in 1..Len(wire)
    BY <1>1, <1>3, <2>1
  <2>3. Tail(wire)[1] = wire[2]
    BY <1>1, <2>2
  <2> QED  BY <1>1, <1>2, <1>3, <1>4, <2>2, <2>3
<1>6. ASSUME Tail(wire) = <<>> PROVE wire[1].pos = Size
  <2>1. Len(Tail(wire)) = 0
    BY <1>1, <1>6, EmptySeq
  <2>2. Len(wire) = 1
    <3>1. Len(wire) \in Nat
      BY <1>1, <1>3
    <3>2. Len(wire) - 1 = 0
      BY <1>1, <2>1, Zenon
    <3> QED  BY <3>1, <3>2
  <2> QED  BY <1>3, <1>4, <2>2
<1>7. Len(sent) \in Nat \ {0}
  BY DEF TypeOK, WireInv
<1>8. wire[1].pos \in 1..Size
  BY <1>1, <1>3, <1>4
<1> QED  BY <1>1, <1>4, <1>5, <1>6, <1>7, <1>8

\* What remains of a report under way is as it was sent.
LEMMA TailWire ==
  ASSUME TypeOK, WireInv, wire # <<>>, wire' = Tail(wire), sent' = sent
  PROVE  WireInv'
<1>1. ASSUME NEW k \in 1..Len(wire')
      PROVE  /\ wire'[k].of = Len(sent) /\ wire'[k].pos = Size - Len(wire') + k
             /\ wire'[k].val = Genuine(wire'[k], sent)
  <2>1. /\ k \in 1..(Len(wire) - 1) /\ Len(wire') = Len(wire) - 1 /\ wire'[k] = wire[k + 1]
        /\ Len(wire) \in Nat /\ Size \in Nat
    BY <1>1, WireHead, Sizes DEF TypeOK
  <2>2. k + 1 \in 1..Len(wire) /\ k + 1 # 1
    BY <2>1
  <2>3. /\ wire[k + 1].of = Len(sent) /\ wire[k + 1].pos = Size - Len(wire) + (k + 1)
        /\ wire[k + 1].val = Genuine(wire[k + 1], sent)
    BY <2>2 DEF WireInv, Place
  <2>4. Size - Len(wire) + (k + 1) = Size - (Len(wire) - 1) + k
    BY <2>1
  <2> QED  BY <2>1, <2>3, <2>4
<1>2. Len(sent) > 0
  BY DEF WireInv
<1> QED  BY <1>1, <1>2 DEF WireInv, Place

LineInv == TypeOK /\ WireInv /\ CalmInv /\ ChainInv /\ KeyInv

LEMMA ExtendsSelf == TypeOK => Extends(sent, spoilt, sent, spoilt)
  BY DEF TypeOK, Extends

LEMMA SendLine ==
  ASSUME LineInv, NEW d \in Data, BoardSend(d)
  PROVE  WireInv' /\ CalmInv' /\ ChainInv' /\ KeyInv'
<1> DEFINE N == Len(sent)
<1>0. TypeOK /\ N \in Nat /\ wire = <<>> /\ sent \in Seq(Data)
  BY DEF LineInv, BoardSend, TypeOK
<1>1. /\ sent' \in Seq(Data) /\ Len(sent') = N + 1 /\ sent'[N + 1] = d
      /\ \A n \in 1..N : sent'[n] = sent[n]
  BY <1>0, AppendProperties DEF BoardSend
<1>2. /\ spoilt'[N + 1] = 0 /\ \A n \in 0..N : spoilt'[n] = spoilt[n]
  BY <1>0 DEF BoardSend
<1>3. /\ Len(wire') = Size /\ wire' # <<>>
      /\ \A k \in 1..Size : wire'[k] = [val |-> Report(d)[k], of |-> N + 1, pos |-> k]
  <2>1. wire' = [k \in 1..Size |-> [val |-> Report(d)[k], of |-> N + 1, pos |-> k]]
    BY DEF BoardSend
  <2>2. Len(wire') = Size /\ Size \in Nat \ {0}
    BY <2>1, Sizes
  <2>3. wire' # <<>>
    BY <2>2
  <2> QED  BY <2>1, <2>2, <2>3
<1> HIDE DEF N
<1>4. Extends(sent, spoilt, sent', spoilt')
  BY <1>0, <1>1, <1>2 DEF Extends, N
<1>5. WireInv'
  <2>1. \A k \in 1..Size : Size - Size + k = k
    BY Sizes
  <2> QED  BY <1>0, <1>1, <1>3, <2>1 DEF WireInv, Place, Genuine
<1>6. CalmInv'
  <2>1. \A n \in 1..(N + 1) : n = N + 1 \/ n \in 1..N
    BY <1>0
  <2>2. \A n \in 1..N : n \in 0..N /\ n - 1 \in 0..N
    BY <1>0
  <2> QED  BY <1>0, <1>1, <1>2, <2>1, <2>2 DEF CalmInv, LineInv, N
<1>7. wire'[1].of = N + 1 /\ wire'[1].pos = 1
  BY <1>3, Sizes
<1>8. ASSUME NEW b, ReceivedByte(b, sent, spoilt)
      PROVE  /\ Newest(b, wire, sent, spoilt) => Newest(b, wire', sent', spoilt')
             /\ Before(b, wire'[1])
  <2>1. b.of \in 0..N /\ b.of \in Nat /\ b.pos \in Nat
    BY <1>0, <1>8, ReceivedNumbers DEF N
  <2>2. Before(b, wire'[1])
    BY <1>0, <1>7, <2>1 DEF Before
  <2>3. ASSUME Newest(b, wire, sent, spoilt) PROVE Follows(b, wire'[1], spoilt')
    BY <1>0, <1>2, <1>7, <2>1, <2>3 DEF Newest, Follows, N
  <2> QED  BY <1>3, <2>2, <2>3 DEF Newest
<1>9. UNCHANGED <<rx, key, pc, last>> /\ ChainInv /\ KeyInv
  BY DEF BoardSend, LineInv, last
<1>10. ChainInv' /\ KeyInv'
  BY <1>0, <1>4, <1>8, <1>9, NotReceived
<1> QED  BY <1>5, <1>6, <1>10

LEMMA ArriveLine ==
  ASSUME LineInv, Arrive
  PROVE  WireInv' /\ CalmInv' /\ ChainInv' /\ KeyInv'
<1> DEFINE x == [wire[1] EXCEPT !.val = Icrnl(@)]
<1>0. TypeOK /\ WireInv /\ wire # <<>> /\ Extends(sent, spoilt, sent, spoilt)
  BY ExtendsSelf DEF LineInv, Arrive
<1>1. /\ wire' = Tail(wire) /\ rx' = Append(rx, x)
      /\ UNCHANGED <<pc, sent, last, key, spoilt>>
  BY <1>0, WireHead DEF Arrive, last
<1>2. /\ x \in TaggedByte /\ x.of = wire[1].of /\ x.pos = wire[1].pos /\ x.val = Icrnl(wire[1].val)
  BY <1>0, WireHead, IcrnlType DEF TaggedByte
<1> HIDE DEF x
<1>3. ReceivedByte(x, sent, spoilt)
  <2>1. \/ wire[1].val = Genuine(wire[1], sent)
        \/ spoilt[Len(sent)] = wire[1].pos /\ wire[1].val \in Damaged
    BY <1>0, WireHead DEF WireInv
  <2> QED  BY <1>0, <1>2, <2>1, WireHead DEF ReceivedByte, Genuine
<1>4. Newest(x, wire', sent, spoilt)
  BY <1>0, <1>1, <1>2, WireHead DEF Newest, Follows
<1>5. wire' # <<>> => Before(x, wire'[1])
  BY <1>0, <1>1, <1>2, WireHead DEF Before
<1>6. ASSUME NEW b, ReceivedByte(b, sent, spoilt)
      PROVE  /\ Newest(b, wire, sent, spoilt) => Follows(b, x, spoilt)
             /\ Before(b, wire[1]) => Before(b, x) /\ (wire' # <<>> => Before(b, wire'[1]))
  <2>1. b.of \in Nat /\ b.pos \in Nat
    BY <1>0, <1>6, ReceivedNumbers DEF TypeOK
  <2>2. Newest(b, wire, sent, spoilt) => Follows(b, x, spoilt)
    BY <1>0, <1>2 DEF Newest, Follows
  <2>3. Before(b, wire[1]) => Before(b, x) /\ (wire' # <<>> => Before(b, wire'[1]))
    BY <1>0, <1>1, <1>2, <2>1, WireHead DEF Before
  <2> QED  BY <2>2, <2>3
<1>7. ChainInv' /\ KeyInv'
  <2>1. UNCHANGED <<key, pc, last>> /\ ChainInv /\ KeyInv /\ sent' = sent /\ spoilt' = spoilt
    BY <1>1 DEF LineInv
  <2> QED  BY <1>0, <1>1, <1>2, <1>3, <1>4, <1>5, <1>6, <2>1, OneReceived
<1>8. WireInv'
  BY <1>0, <1>1, WireHead, TailWire DEF WireInv
<1>9. CalmInv'
  BY <1>1 DEF LineInv, CalmInv
<1> QED  BY <1>7, <1>8, <1>9

\* What a fault does to the record of faults.
LEMMA Spoiled ==
  ASSUME LineInv, NEW place \in 1..After, Spoil(place)
  PROVE  /\ Len(sent) \in Nat /\ spoilt[Len(sent)] = 0 /\ (Len(sent) > 0 => spoilt[Len(sent) - 1] = 0)
         /\ spoilt'[Len(sent)] = place
         /\ Extends(sent, spoilt, sent', spoilt') /\ CalmInv'
         /\ UNCHANGED <<pc, sent, last, key>>
<1> DEFINE N == Len(sent)
<1>0. N \in Nat /\ sent \in Seq(Data) /\ spoilt \in [0..N -> 0..After] /\ CalmInv
  BY DEF LineInv, TypeOK
<1>1. /\ spoilt[N] = 0 /\ (N > 0 => spoilt[N - 1] = 0) /\ spoilt' = [spoilt EXCEPT ![N] = place]
      /\ UNCHANGED <<pc, sent, last, key>>
  BY DEF Spoil, last
<1>2. spoilt'[N] = place /\ \A n \in 0..N : n # N => spoilt'[n] = spoilt[n]
  BY <1>0, <1>1
<1>3. Extends(sent, spoilt, sent', spoilt')
  BY <1>0, <1>1, <1>2 DEF Extends
<1>4. ASSUME NEW n \in 1..N PROVE spoilt'[n] = 0 \/ spoilt'[n - 1] = 0
  <2>1. n \in 0..N /\ n - 1 \in 0..N /\ n - 1 # N
    BY <1>0
  <2>2. CASE n = N
    BY <1>0, <1>1, <1>2, <2>1, <2>2
  <2>3. CASE n # N
    BY <1>0, <1>2, <2>1, <2>3 DEF CalmInv
  <2> QED  BY <2>2, <2>3
<1>5. CalmInv'
  BY <1>1, <1>4 DEF CalmInv
<1> QED  BY <1>0, <1>1, <1>2, <1>3, <1>5

LEMMA DamageLine ==
  ASSUME LineInv, NEW v \in Damaged, Damage(v)
  PROVE  WireInv' /\ CalmInv' /\ ChainInv' /\ KeyInv'
<1> DEFINE N == Len(sent)
<1>0. TypeOK /\ WireInv /\ ChainInv /\ KeyInv /\ wire # <<>> /\ sent \in Seq(Data)
  BY DEF LineInv, Damage, TypeOK
<1>1. wire[1].pos \in 1..After /\ Spoil(wire[1].pos)
  BY <1>0, WireHead, Sizes DEF Damage
<1>2. /\ spoilt'[N] = wire[1].pos /\ Extends(sent, spoilt, sent', spoilt') /\ CalmInv'
      /\ UNCHANGED <<pc, sent, last, key>>
  BY <1>1, Spoiled
<1>3. /\ Len(wire') = Len(wire) /\ wire'[1] = [wire[1] EXCEPT !.val = v]
      /\ \A k \in 1..Len(wire) : k # 1 => wire'[k] = wire[k]
  <2>1. wire' = [wire EXCEPT ![1] = [wire[1] EXCEPT !.val = v]]
    BY DEF Damage
  <2>2. wire \in Seq(TaggedByte) /\ 1 \in 1..Len(wire)
    BY <1>0, WireHead DEF TypeOK
  <2> QED  BY <2>1, <2>2
<1>4. wire'[1].of = wire[1].of /\ wire'[1].pos = wire[1].pos /\ wire'[1].val = v
  BY <1>0, <1>3, WireHead DEF TaggedByte
<1>5. WireInv'
  <2>1. ASSUME NEW k \in 1..Len(wire)
        PROVE  /\ wire'[k].of = N /\ wire'[k].pos = Place(k, wire)
               /\ \/ wire'[k].val = Genuine(wire'[k], sent)
                  \/ k = 1 /\ spoilt'[N] = wire'[k].pos /\ wire'[k].val \in Damaged
    BY <1>0, <1>2, <1>3, <1>4 DEF WireInv
  <2>2. N > 0
    BY <1>0 DEF WireInv
  <2> QED  BY <1>2, <1>3, <2>1, <2>2 DEF WireInv, Place
<1>6. ASSUME NEW b, ReceivedByte(b, sent, spoilt)
      PROVE  /\ Newest(b, wire, sent, spoilt) => Newest(b, wire', sent', spoilt')
             /\ Before(b, wire[1]) => Before(b, wire'[1])
  <2>1. b.of \in 0..N /\ b.pos \in Nat /\ wire[1].of \in 0..N
    BY <1>0, <1>6, ReceivedNumbers, WireHead
  <2>2. wire' # <<>>
    BY <1>0, <1>3, WireHead
  <2>3. ASSUME Newest(b, wire, sent, spoilt) PROVE Follows(b, wire'[1], spoilt')
    <3>1. Follows(b, wire[1], spoilt)
      BY <1>0, <2>3 DEF Newest
    <3>2. Follows(b, wire[1], spoilt')
      BY <1>2, <2>1, <3>1, FollowsStays
    <3> QED  BY <1>4, <3>2 DEF Follows
  <2> QED  BY <1>4, <2>2, <2>3 DEF Newest, Before
<1>7. UNCHANGED <<rx, key, pc, last>>
  BY <1>2 DEF Damage
<1> QED  BY <1>0, <1>2, <1>5, <1>6, <1>7, NotReceived

LEMMA LoseLine ==
  ASSUME LineInv, Lose
  PROVE  WireInv' /\ CalmInv' /\ ChainInv' /\ KeyInv'
<1> DEFINE N == Len(sent)
           p == wire[1].pos
<1>0. TypeOK /\ WireInv /\ ChainInv /\ KeyInv /\ wire # <<>> /\ wire' = Tail(wire) /\ sent \in Seq(Data)
  BY DEF LineInv, Lose, TypeOK
<1>1. p \in 1..Size /\ p \in 1..After /\ Spoil(p) /\ wire[1].of = N /\ N \in Nat \ {0}
  BY <1>0, WireHead, Sizes DEF Lose
<1>2. /\ spoilt[N] = 0 /\ spoilt[N - 1] = 0 /\ spoilt'[N] = p
      /\ Extends(sent, spoilt, sent', spoilt') /\ CalmInv'
      /\ UNCHANGED <<pc, sent, last, key>>
  BY <1>1, Spoiled
<1>3. /\ wire' # <<>> => wire'[1].of = N /\ wire'[1].pos = p + 1
      /\ wire' = <<>> => p = Size
  BY <1>0, WireHead
<1> HIDE DEF N, p
<1>4. ASSUME NEW b, ReceivedByte(b, sent, spoilt)
      PROVE  /\ Newest(b, wire, sent, spoilt) => Newest(b, wire', sent', spoilt')
             /\ Before(b, wire[1]) /\ wire' # <<>> => Before(b, wire'[1])
  <2>1. b.of \in Nat /\ b.pos \in 1..After /\ b.pos \in Nat
    BY <1>0, <1>4, ReceivedNumbers
  <2>2. b.pos = After => spoilt[b.of] = After
    BY <1>4, Sizes DEF ReceivedByte
  <2>3. ASSUME Newest(b, wire, sent, spoilt)
        PROVE  \/ b.of = N /\ b.pos = p - 1
               \/ b.of = N - 1 /\ p = 1 /\ b.pos = Size
    <3>1. Follows(b, wire[1], spoilt) /\ wire[1].of = N /\ wire[1].pos = p
      BY <1>0, <1>1, <2>3 DEF Newest, p
    <3>2. CASE wire[1].of = b.of /\ wire[1].pos = b.pos + 1
      BY <1>1, <2>1, <3>1, <3>2
    <3>3. CASE wire[1].of = b.of /\ wire[1].pos = b.pos + 2 /\ spoilt[b.of] = b.pos + 1
      BY <1>1, <1>2, <2>1, <3>1, <3>3
    <3>4. CASE wire[1].of = b.of + 1 /\ wire[1].pos = 1 /\ b.pos \in {Size, After}
      BY <1>1, <1>2, <2>1, <2>2, <3>1, <3>4, Sizes
    <3>5. CASE wire[1].of = b.of + 1 /\ wire[1].pos = 1 /\ spoilt[b.of] = Size
      BY <1>1, <1>2, <2>1, <3>1, <3>5, Sizes
    <3>6. CASE spoilt[wire[1].of] = 1
      BY <1>2, <3>1, <3>6
    <3> QED  BY <3>1, <3>2, <3>3, <3>4, <3>5, <3>6 DEF Follows
  <2>4. ASSUME Newest(b, wire, sent, spoilt), wire' # <<>>
        PROVE  Follows(b, wire'[1], spoilt')
    <3>1. CASE b.of = N /\ b.pos = p - 1
      BY <1>1, <1>2, <1>3, <2>4, <3>1 DEF Follows
    <3>2. CASE b.of = N - 1 /\ p = 1 /\ b.pos = Size
      BY <1>1, <1>2, <1>3, <2>4, <3>2 DEF Follows
    <3> QED  BY <2>3, <2>4, <3>1, <3>2
  <2>5. ASSUME Newest(b, wire, sent, spoilt), wire' = <<>>
        PROVE  b.of = N /\ b.pos = Size - 1 /\ spoilt'[N] = Size
    BY <1>2, <1>3, <2>3, <2>5, Sizes
  <2>6. Newest(b, wire, sent, spoilt) => Newest(b, wire', sent', spoilt')
    BY <1>2, <2>4, <2>5 DEF Newest, N
  <2>7. ASSUME Before(b, wire[1]), wire' # <<>> PROVE Before(b, wire'[1])
    BY <1>1, <1>3, <2>1, <2>7 DEF Before, p
  <2> QED  BY <2>6, <2>7
<1>5. WireInv'
  BY <1>0, <1>2, TailWire
<1>6. UNCHANGED <<rx, key, pc, last>>
  BY <1>2 DEF Lose
<1>7. ChainInv' /\ KeyInv'
  BY <1>0, <1>2, <1>4, <1>6, NotReceived
<1> QED  BY <1>2, <1>5, <1>7

LEMMA NoiseLine ==
  ASSUME LineInv, NEW v \in Damaged, Noise(v)
  PROVE  WireInv' /\ CalmInv' /\ ChainInv' /\ KeyInv'
<1> DEFINE N == Len(sent)
           x == [val |-> Icrnl(v), of |-> N, pos |-> After]
<1>0. TypeOK /\ WireInv /\ ChainInv /\ KeyInv /\ wire = <<>> /\ wire' = <<>> /\ sent \in Seq(Data)
  BY DEF LineInv, Noise, TypeOK
<1>1. After \in 1..After /\ Spoil(After) /\ rx' = Append(rx, x)
  BY Sizes DEF Noise
<1>2. /\ N \in Nat /\ spoilt[N] = 0 /\ spoilt'[N] = After
      /\ Extends(sent, spoilt, sent', spoilt') /\ CalmInv'
      /\ UNCHANGED <<pc, sent, last, key>>
  BY <1>1, Spoiled
<1>3. x \in TaggedByte /\ x.of = N /\ x.pos = After
  BY <1>1, <1>2, IcrnlType, DamagedAssumption DEF TaggedByte
<1> HIDE DEF x, N
<1>4. ReceivedByte(x, sent', spoilt')
  BY <1>2, <1>3 DEF ReceivedByte, N
<1>5. Newest(x, wire', sent', spoilt')
  BY <1>0, <1>2, <1>3 DEF Newest, N
<1>6. ASSUME NEW b, ReceivedByte(b, sent, spoilt)
      PROVE  /\ Newest(b, wire, sent, spoilt) => Follows(b, x, spoilt')
             /\ Before(b, x)
  <2>1. b.of \in 0..N /\ b.of \in Nat /\ b.pos \in 1..After /\ b.pos \in Nat
    BY <1>0, <1>6, ReceivedNumbers DEF N
  <2>2. b.pos = After => spoilt[b.of] = After
    BY <1>6, Sizes DEF ReceivedByte
  <2>3. Before(b, x)
    BY <1>2, <1>3, <2>1, <2>2, Sizes DEF Before
  <2>4. ASSUME Newest(b, wire, sent, spoilt) PROVE b.of = N /\ b.pos = Size
    BY <1>0, <1>2, <2>1, <2>2, <2>4, Sizes DEF Newest, N
  <2>5. Newest(b, wire, sent, spoilt) => Follows(b, x, spoilt')
    BY <1>3, <2>4, Sizes DEF Follows
  <2> QED  BY <2>3, <2>5
<1>7. WireInv'
  BY <1>0 DEF WireInv
<1>8. ChainInv' /\ KeyInv'
  BY <1>0, <1>1, <1>2, <1>3, <1>4, <1>5, <1>6, OneReceived
<1> QED  BY <1>2, <1>7, <1>8

\* The report accepted last is one that was sent.
LEMMA LastType ==
  ASSUME TypeOK
  PROVE  last \in 0..Len(sent) /\ last \in Nat
<1>1. accepted \in Seq(TakenReport) /\ Len(sent) \in Nat
  BY DEF TypeOK
<1>2. CASE accepted = <<>>
  BY <1>1, <1>2 DEF last
<1>3. CASE accepted # <<>>
  <2>1. Len(accepted) \in 1..Len(accepted)
    BY <1>1, <1>3, EmptySeq
  <2>2. accepted[Len(accepted)] \in TakenReport
    BY <1>1, <2>1, ElementOfSeq
  <2> QED  BY <1>1, <1>3, <2>2 DEF last, TakenReport
<1> QED  BY <1>2, <1>3

LEMMA LineKeepsNew ==
  ASSUME LineInv, NewInv, Line
  PROVE  NewInv'
<1>0. /\ TypeOK /\ WireInv /\ rx \in Seq(TaggedByte) /\ Len(rx) \in Nat /\ Len(sent) \in Nat
      /\ last \in 0..Len(sent) /\ last \in Nat
  <2>1. TypeOK /\ WireInv
    BY DEF LineInv
  <2> QED  BY <2>1, LastType DEF TypeOK
<1>1. ASSUME NEW d \in Data, BoardSend(d) PROVE NewInv'
  <2>1. wire' = [k \in 1..Size |-> [val |-> Report(d)[k], of |-> Len(sent) + 1, pos |-> k]]
    BY <1>1 DEF BoardSend
  <2>2. wire'[1].of = Len(sent) + 1
    BY <2>1, Sizes
  <2>3. New(wire'[1], last)
    BY <1>0, <2>2 DEF New
  <2>4. last' = last /\ rx' = rx
    BY <1>1 DEF BoardSend, last
  <2> QED  BY <2>3, <2>4 DEF NewInv
<1>2. ASSUME wire # <<>>, wire' = Tail(wire), last' = last PROVE wire' # <<>> => New(wire'[1], last')
  <2>1. New(wire[1], last) /\ wire[1].pos \in 1..Size /\ wire[1].of = Len(sent)
    BY <1>0, <1>2, WireHead DEF NewInv
  <2>2. wire' # <<>> => wire'[1].of = Len(sent) /\ wire'[1].pos = wire[1].pos + 1
    BY <1>0, <1>2, WireHead
  <2> QED  BY <1>0, <1>2, <2>1, <2>2 DEF New
<1>3. ASSUME NEW x \in TaggedByte, rx' = Append(rx, x), New(x, last), last' = last
      PROVE  \A k \in 1..Len(rx)' : New(rx'[k], last')
  <2>1. Len(rx') = Len(rx) + 1 /\ rx'[Len(rx) + 1] = x /\ \A k \in 1..Len(rx) : rx'[k] = rx[k]
    BY <1>0, <1>3, AppendProperties
  <2>2. \A k \in 1..Len(rx)' : k \in 1..Len(rx) \/ k = Len(rx) + 1
    BY <1>0, <2>1
  <2> QED  BY <1>3, <2>1, <2>2 DEF NewInv
<1>4. CASE Arrive
  <2> DEFINE x == [wire[1] EXCEPT !.val = Icrnl(@)]
  <2>1. wire # <<>> /\ wire' = Tail(wire) /\ last' = last /\ rx' = Append(rx, x)
    BY <1>0, <1>4, WireHead DEF Arrive, last
  <2>2. x \in TaggedByte /\ x.of = wire[1].of /\ x.pos = wire[1].pos
    BY <1>0, <2>1, WireHead, IcrnlType DEF TaggedByte
  <2>3. New(x, last)
    BY <2>1, <2>2 DEF NewInv, New
  <2> HIDE DEF x
  <2> QED  BY <1>2, <1>3, <2>1, <2>2, <2>3 DEF NewInv
<1>5. CASE Lose
  <2>1. wire # <<>> /\ wire' = Tail(wire) /\ last' = last /\ rx' = rx
    BY <1>5 DEF Lose, Spoil, last
  <2> QED  BY <1>2, <2>1 DEF NewInv
<1>6. ASSUME NEW v \in Damaged, Damage(v) PROVE NewInv'
  <2>1. wire # <<>> /\ wire' = [wire EXCEPT ![1] = [wire[1] EXCEPT !.val = v]] /\ UNCHANGED <<rx, last>>
    BY <1>6 DEF Damage, Spoil, last
  <2>2. wire \in Seq(TaggedByte) /\ 1 \in 1..Len(wire) /\ wire[1] \in TaggedByte
    BY <1>0, <2>1, WireHead DEF TypeOK
  <2>3. wire'[1].of = wire[1].of /\ wire'[1].pos = wire[1].pos
    BY <2>1, <2>2 DEF TaggedByte
  <2> QED  BY <2>1, <2>3 DEF NewInv, New
<1>7. ASSUME NEW v \in Damaged, Noise(v) PROVE NewInv'
  <2> DEFINE x == [val |-> Icrnl(v), of |-> Len(sent), pos |-> After]
  <2>1. wire' = <<>> /\ last' = last /\ rx' = Append(rx, x)
    BY <1>7 DEF Noise, Spoil, last
  <2>2. x \in TaggedByte /\ New(x, last)
    BY <1>0, Sizes, IcrnlType, DamagedAssumption DEF TaggedByte, New
  <2> HIDE DEF x
  <2> QED  BY <1>3, <2>1, <2>2 DEF NewInv
<1> QED  BY <1>1, <1>4, <1>5, <1>6, <1>7 DEF Line

-----------------------------------------------------------------------------
(***************************************************************************)
(* The steps of the reader.                                                *)
(***************************************************************************)
\* Whatever is read or thrown away, it is from the front.
LEMMA FrontTaken ==
  ASSUME TypeOK, ChainInv, UNCHANGED <<wire, sent, spoilt>>,
         NEW m \in 0..Len(rx), rx' \in Seq(TaggedByte), Len(rx') = Len(rx) - m,
         \A k \in 1..(Len(rx) - m) : rx'[k] = rx[k + m]
  PROVE  ChainInv'
<1> DEFINE L == Len(rx)
<1>0. L \in Nat /\ m \in Nat /\ m <= L
  BY DEF TypeOK
<1>1. \A k \in 1..(L - m) : k + m \in 1..L
  BY <1>0
<1>2. \A k \in 1..(L - m) : ReceivedByte(rx'[k], sent, spoilt) /\ (wire # <<>> => Before(rx'[k], wire[1]))
  BY <1>1 DEF ChainInv
<1>3. ASSUME NEW k \in 1..((L - m) - 1) PROVE Follows(rx'[k], rx'[k + 1], spoilt)
  <2>1. /\ k \in 1..(L - m) /\ k + 1 \in 1..(L - m) /\ k + m \in 1..(L - 1)
        /\ (k + 1) + m = (k + m) + 1
    BY <1>0
  <2>2. rx'[k] = rx[k + m]
    BY <2>1
  <2>3. rx'[k + 1] = rx[(k + 1) + m]
    <3>1. \A j \in 1..(L - m) : rx'[j] = rx[j + m]
      OBVIOUS
    <3> HIDE DEF L
    <3> QED  BY <2>1, <3>1
  <2>4. rx'[k + 1] = rx[(k + m) + 1]
    BY <2>1, <2>3
  <2>5. Follows(rx[k + m], rx[(k + m) + 1], spoilt)
    BY <2>1 DEF ChainInv
  <2> QED  BY <2>2, <2>4, <2>5
<1>4. ASSUME NEW k \in 1..(L - m), NEW l \in 1..(L - m), k < l PROVE Before(rx'[k], rx'[l])
  <2>1. k + m \in 1..L /\ l + m \in 1..L /\ k + m < l + m
    BY <1>0, <1>4
  <2>2. rx'[k] = rx[k + m] /\ rx'[l] = rx[l + m]
    OBVIOUS
  <2> QED  BY <2>1, <2>2 DEF ChainInv
<1>5. ASSUME rx' # <<>> PROVE Newest(rx'[Len(rx')], wire, sent, spoilt)
  <2>1. Len(rx') \in Nat \ {0}
    BY <1>5, EmptySeq
  <2> HIDE DEF L
  <2>4. Len(rx') = L - m
    BY DEF L
  <2>5. L - m \in Nat \ {0}
    BY <2>1, <2>4
  <2>2. L - m \in 1..(L - m) /\ (L - m) + m = L /\ L # 0
    BY <1>0, <2>5
  <2>3. rx'[L - m] = rx[L] /\ rx # <<>>
    BY <2>2 DEF L
  <2> QED  BY <2>3, <2>4 DEF ChainInv, L
<1> HIDE DEF L
<1>6. Len(rx') = L - m
  BY DEF L
<1> QED  BY <1>2, <1>3, <1>4, <1>5, <1>6 DEF ChainInv

\* After throwing away all that has arrived.
LEMMA Flushed ==
  ASSUME rx' = <<>>, pc' = "key1", UNCHANGED <<wire, sent, spoilt, last>>, NewInv
  PROVE  ChainInv' /\ KeyInv' /\ NewInv'
<1>1. Len(rx') = 0
  OBVIOUS
<1>2. \A k \in 1..Len(rx') : FALSE
  BY <1>1
<1>3. \A k \in 1..(Len(rx') - 1) : FALSE
  BY <1>1
<1> QED  BY <1>2, <1>3 DEF ChainInv, KeyInv, NewInv

\* After taking one byte.
LEMMA OneTaken ==
  ASSUME TypeOK, ChainInv, NewInv, rx # <<>>, Take, UNCHANGED <<wire, sent, spoilt, last>>
  PROVE  /\ ChainInv' /\ NewInv'
         /\ key' = rx[1] /\ ReceivedByte(rx[1], sent, spoilt) /\ New(rx[1], last)
         /\ rx' # <<>> => Follows(key', rx'[1], spoilt)
         /\ rx' = <<>> => Newest(key', wire, sent, spoilt)
<1>0. rx \in Seq(TaggedByte)
  BY DEF TypeOK
<1>1. /\ Len(rx) \in Nat \ {0} /\ rx' \in Seq(TaggedByte) /\ Len(rx') = Len(rx) - 1
      /\ \A k \in 1..(Len(rx) - 1) : rx'[k] = rx[k + 1]
      /\ key' = rx[1]
  BY <1>0, Taken DEF Take
<1>2. 1 \in 0..Len(rx) /\ 1 \in 1..Len(rx) /\ \A k \in 1..(Len(rx) - 1) : k + 1 \in 1..Len(rx)
  BY <1>1
<1>3. ChainInv'
  BY <1>1, <1>2, FrontTaken
<1>4. NewInv'
  BY <1>1, <1>2 DEF NewInv
<1>5. ReceivedByte(rx[1], sent, spoilt) /\ New(rx[1], last)
  BY <1>2 DEF ChainInv, NewInv
<1>6. ASSUME rx' # <<>> PROVE Follows(key', rx'[1], spoilt)
  <2>1. Len(rx') \in Nat \ {0}
    BY <1>1, <1>6, EmptySeq
  <2>2. 1 \in 1..(Len(rx) - 1)
    BY <1>1, <2>1
  <2>3. rx'[1] = rx[1 + 1] /\ Follows(rx[1], rx[1 + 1], spoilt)
    BY <1>1, <2>2 DEF ChainInv
  <2> QED  BY <1>1, <2>3
<1>7. ASSUME rx' = <<>> PROVE Newest(key', wire, sent, spoilt)
  <2>1. Len(rx') = 0
    BY <1>7
  <2>2. Len(rx) = 1
    BY <1>1, <2>1
  <2>3. Newest(rx[Len(rx)], wire, sent, spoilt)
    BY DEF ChainInv
  <2> QED  BY <1>1, <2>2, <2>3
<1> QED  BY <1>1, <1>3, <1>4, <1>5, <1>6, <1>7

\* A byte of a report with the value of a key is that key or damaged.
LEMMA KeyValue ==
  ASSUME NEW s \in Seq(Data), NEW f, NEW b, ReceivedByte(b, s, f)
  PROVE  /\ b.val = KEY1 => b.pos = 1 \/ f[b.of] = b.pos
         /\ b.val = KEY2 => b.pos = 2 \/ f[b.of] = b.pos
         /\ b.of \in 0..Len(s) /\ b.of \in Nat /\ b.pos \in 1..After /\ b.pos \in Nat
         /\ b.pos # After => b.of \in 1..Len(s)
<1>1. CASE b.of \in 1..Len(s) /\ b.val = Icrnl(Genuine(b, s)) /\ b.pos \in 1..Size
  <2>1. s[b.of] \in Data
    BY <1>1, ElementOfSeq
  <2> QED  BY <1>1, <2>1, KeysInReport, ReceivedNumbers DEF Genuine
<1> QED  BY <1>1, ReceivedNumbers DEF ReceivedByte

\* Where the two keys come one after the other, the second is that of a report:
\* for another byte to look like it would take two faults, of the report or of
\* it and the report before.
LEMMA KeysMeet ==
  ASSUME TypeOK, CalmInv, NEW x, NEW y,
         ReceivedByte(x, sent, spoilt), ReceivedByte(y, sent, spoilt), Follows(x, y, spoilt),
         x.val = KEY1, y.val = KEY2
  PROVE  y.pos = 2
<1>0. sent \in Seq(Data)
  BY DEF TypeOK
<1>1. /\ x.pos = 1 \/ spoilt[x.of] = x.pos
      /\ x.of \in 0..Len(sent) /\ x.of \in Nat /\ x.pos \in 1..After
      /\ x.pos # After => x.of \in 1..Len(sent)
  BY <1>0, KeyValue
<1>2. /\ y.pos = 2 \/ spoilt[y.of] = y.pos
      /\ y.of \in 0..Len(sent) /\ y.of \in Nat /\ y.pos \in 1..After
      /\ y.pos # After => y.of \in 1..Len(sent)
  BY <1>0, KeyValue
<1> SUFFICES ASSUME y.pos # 2 PROVE FALSE
  OBVIOUS
<1>3. spoilt[y.of] = y.pos
  BY <1>2
<1>4. CASE y.of = x.of /\ y.pos = x.pos + 1
  BY <1>1, <1>3, <1>4
<1>5. CASE y.of = x.of /\ y.pos = x.pos + 2 /\ spoilt[x.of] = x.pos + 1
  BY <1>1, <1>3, <1>5
<1>6. CASE y.of = x.of + 1 /\ y.pos = 1 /\ x.pos # 1
  <2>1. y.of \in 1..Len(sent) /\ y.of - 1 = x.of
    BY <1>1, <1>2, <1>6, Sizes
  <2>2. spoilt[y.of] = 0 \/ spoilt[x.of] = 0
    BY <2>1 DEF CalmInv
  <2> QED  BY <1>1, <1>3, <1>6, <2>2
<1>7. x.pos \in {Size, After, Size - 1} => x.pos # 1
  BY Sizes
<1> QED  BY <1>4, <1>5, <1>6, <1>7 DEF Follows

LEMMA ReadKey1Keeps ==
  ASSUME IInv, ReadKey1
  PROVE  WireInv' /\ CalmInv' /\ ChainInv' /\ KeyInv' /\ NewInv'
<1>0. TypeOK /\ WireInv /\ CalmInv /\ ChainInv /\ NewInv /\ UNCHANGED <<wire, sent, spoilt, last>>
  BY DEF IInv, ReadKey1, Reading, Nothing, last
<1>1. WireInv' /\ CalmInv'
  BY <1>0 DEF WireInv, CalmInv
<1>2. CASE Head(rx).val = KEY1 /\ Take /\ pc' = "key2"
  <2>1. rx # <<>> /\ Head(rx) = rx[1]
    BY <1>0, Taken DEF ReadKey1, TypeOK
  <2> QED  BY <1>0, <1>1, <1>2, <2>1, OneTaken DEF KeyInv
<1>3. CASE Tcflush
  BY <1>0, <1>1, <1>3, Flushed DEF Tcflush, FromKey1
<1> QED  BY <1>2, <1>3 DEF ReadKey1

LEMMA ReadKey2Keeps ==
  ASSUME IInv, ReadKey2
  PROVE  WireInv' /\ CalmInv' /\ ChainInv' /\ KeyInv' /\ NewInv'
<1>0. /\ TypeOK /\ WireInv /\ CalmInv /\ ChainInv /\ KeyInv /\ NewInv /\ pc = "key2"
      /\ UNCHANGED <<wire, sent, spoilt, last>>
  BY DEF IInv, ReadKey2, Reading, Nothing, last
<1>1. WireInv' /\ CalmInv'
  BY <1>0 DEF WireInv, CalmInv
<1>2. CASE FromKey1 /\ UNCHANGED rx
  BY <1>0, <1>1, <1>2 DEF FromKey1, ChainInv, KeyInv, NewInv
<1>3. CASE rx # <<>> /\ Head(rx).val = KEY2 /\ Take /\ pc' = "body"
  <2>1. Head(rx) = rx[1]
    BY <1>0, <1>3, Taken DEF TypeOK
  <2>2. /\ ChainInv' /\ NewInv'
        /\ key' = rx[1] /\ ReceivedByte(rx[1], sent, spoilt) /\ New(rx[1], last)
        /\ rx' # <<>> => Follows(key', rx'[1], spoilt)
        /\ rx' = <<>> => Newest(key', wire, sent, spoilt)
    BY <1>0, <1>3, OneTaken
  <2>3. ReceivedByte(key, sent, spoilt) /\ Follows(key, rx[1], spoilt) /\ key.val = KEY1
    BY <1>0, <1>3 DEF KeyInv
  <2>4. rx[1].pos = 2
    BY <1>0, <1>3, <2>1, <2>2, <2>3, KeysMeet
  <2>5. rx[1].of > last
    BY <2>2, <2>4 DEF New
  <2> QED  BY <1>0, <1>1, <1>3, <2>2, <2>4, <2>5 DEF KeyInv
<1>4. CASE Tcflush
  BY <1>0, <1>1, <1>4, Flushed DEF Tcflush, FromKey1
<1> QED  BY <1>2, <1>3, <1>4 DEF ReadKey2

(***************************************************************************)
(* What is read after the keys.  Of the report whose keys have been read   *)
(* the bytes come in their order, and either all of them up to what has    *)
(* arrived, or one has been lost, and then the next report begins.         *)
(***************************************************************************)
At(b, n, p) == b.of = n /\ b.pos = p
Straight(n, m) == \A k \in 1..m : At(rx[k], n, k + 2)
Shifted(n, m, j) ==
  /\ j \in 1..m /\ spoilt[n] = j + 2
  /\ \A k \in 1..m : /\ k < j => At(rx[k], n, k + 2)
                     /\ k >= j /\ k < Rest => At(rx[k], n, k + 3)
                     /\ k >= j /\ k = Rest => At(rx[k], n + 1, 1)

\* One byte more.
LEMMA NextSeen ==
  ASSUME TypeOK, CalmInv, NEW n \in 1..Len(sent), NEW m \in Nat, m < Rest,
         NEW a, NEW b, ReceivedByte(b, sent, spoilt), Follows(a, b, spoilt)
  PROVE  /\ At(a, n, m + 2) => \/ At(b, n, m + 3)
                               \/ /\ spoilt[n] = m + 3
                                  /\ m + 1 < Rest => At(b, n, m + 4)
                                  /\ m + 1 = Rest => At(b, n + 1, 1)
         /\ \A j \in 1..m : (At(a, n, m + 3) /\ spoilt[n] = j + 2) =>
              /\ m + 1 < Rest => At(b, n, m + 4)
              /\ m + 1 = Rest => At(b, n + 1, 1)
<1>0. /\ sent \in Seq(Data) /\ Len(sent) \in Nat
      /\ b.of \in 0..Len(sent) /\ b.of \in Nat /\ b.pos \in 1..After /\ b.pos \in Nat
      /\ b.pos # After => b.of \in 1..Len(sent)
  BY KeyValue DEF TypeOK
<1>1. b.pos = After => spoilt[b.of] = After
  BY Sizes DEF ReceivedByte
<1>2. ASSUME spoilt[n] # 0, b.of = n + 1, b.pos = 2 PROVE spoilt[b.of] # 1
  <2>1. n + 1 \in 1..Len(sent) /\ (n + 1) - 1 = n
    BY <1>0, <1>2, Sizes
  <2> QED  BY <1>2, <2>1 DEF CalmInv
<1>3. ASSUME At(a, n, m + 2)
      PROVE  \/ At(b, n, m + 3)
             \/ /\ spoilt[n] = m + 3
                /\ m + 1 < Rest => At(b, n, m + 4)
                /\ m + 1 = Rest => At(b, n + 1, 1)
  <2>0. a.of = n /\ a.pos = m + 2
    BY <1>3 DEF At
  <2>1. CASE b.of = a.of /\ b.pos = a.pos + 1
    BY <2>0, <2>1 DEF At
  <2>2. CASE b.of = a.of /\ b.pos = a.pos + 2 /\ spoilt[a.of] = a.pos + 1
    <3>1. spoilt[n] = m + 3 /\ b.of = n /\ b.pos = m + 4
      BY <2>0, <2>2
    <3>2. m + 1 # Rest
      BY <1>1, <3>1, Sizes
    <3> QED  BY <3>1, <3>2 DEF At
  <2>3. CASE b.of = a.of + 1 /\ b.pos = 1 /\ a.pos \in {Size, After}
    BY <2>0, <2>3, Sizes
  <2>4. CASE b.of = a.of + 1 /\ b.pos = 1 /\ a.pos = Size - 1 /\ spoilt[a.of] = Size
    BY <2>0, <2>4, Sizes DEF At
  <2>5. CASE a.pos = Size
    BY <2>0, <2>5, Sizes
  <2> QED  BY <2>1, <2>2, <2>3, <2>4, <2>5 DEF Follows
<1>4. ASSUME NEW j \in 1..m, At(a, n, m + 3), spoilt[n] = j + 2
      PROVE  /\ m + 1 < Rest => At(b, n, m + 4)
             /\ m + 1 = Rest => At(b, n + 1, 1)
  <2>0. a.of = n /\ a.pos = m + 3
    BY <1>4 DEF At
  <2>1. CASE b.of = a.of /\ b.pos = a.pos + 1
    <3>1. b.of = n /\ b.pos = m + 4
      BY <2>0, <2>1
    <3>2. m + 1 # Rest
      BY <1>1, <1>4, <3>1, Sizes
    <3> QED  BY <3>1, <3>2 DEF At
  <2>2. CASE spoilt[a.of] = a.pos + 1
    BY <1>4, <2>0, <2>2
  <2>3. CASE b.of = a.of + 1 /\ b.pos = 1 /\ a.pos \in {Size, After}
    BY <2>0, <2>3, Sizes DEF At
  <2>4. CASE a.pos = Size - 1 /\ spoilt[a.of] = Size
    BY <1>4, <2>0, <2>4, Sizes
  <2>5. CASE b.of = a.of + 1 /\ b.pos = 2 /\ spoilt[b.of] = 1
    BY <1>2, <1>4, <2>0, <2>5
  <2> QED  BY <2>1, <2>2, <2>3, <2>4, <2>5 DEF Follows
<1> QED  BY <1>3, <1>4

\* The bytes of the rest that have arrived.
There == IF Len(rx) < Rest THEN Len(rx) ELSE Rest

LEMMA ThereType ==
  ASSUME TypeOK
  PROVE  /\ There \in 0..Rest /\ There <= Len(rx) /\ Len(rx) \in Nat
         /\ \A k \in 1..Rest : ReadBuff[k] = IF k <= There THEN rx[k].val ELSE 0
<1>1. Len(rx) \in Nat /\ DOMAIN rx = 1..Len(rx)
  BY DEF TypeOK
<1>2. There \in 0..Rest /\ There <= Len(rx) /\ \A k \in 1..Rest : k <= There <=> k \in DOMAIN rx
  BY <1>1, Sizes DEF There
<1> QED  BY <1>1, <1>2 DEF ReadBuff

LEMMA RestSeen ==
  ASSUME TypeOK, CalmInv, ChainInv, KeyInv, pc = "body"
  PROVE  /\ key.of \in 1..Len(sent)
         /\ Straight(key.of, There) \/ \E j \in 1..There : Shifted(key.of, There, j)
<1> DEFINE n == key.of
           T == {m \in Nat : m <= There => Straight(n, m) \/ \E j \in 1..m : Shifted(n, m, j)}
<1>0. /\ sent \in Seq(Data) /\ ReceivedByte(key, sent, spoilt) /\ key.pos = 2
      /\ rx # <<>> => Follows(key, rx[1], spoilt)
      /\ There \in 0..Rest /\ There <= Len(rx) /\ Len(rx) \in Nat
  BY ThereType DEF KeyInv, TypeOK
<1>1. n \in 1..Len(sent)
  BY <1>0, KeyValue, Sizes
<1>2. 0 \in T
  BY DEF Straight
<1>3. ASSUME NEW m \in T PROVE m + 1 \in T
  <2>0. m \in Nat
    OBVIOUS
  <2> SUFFICES ASSUME m + 1 <= There
               PROVE  Straight(n, m + 1) \/ \E j \in 1..(m + 1) : Shifted(n, m + 1, j)
    BY <2>0
  <2>1. m < Rest /\ m + 1 \in 1..Len(rx) /\ m <= There
    BY <1>0, <2>0, Sizes
  <2>2. Straight(n, m) \/ \E j \in 1..m : Shifted(n, m, j)
    BY <2>1
  <2> DEFINE a == IF m = 0 THEN key ELSE rx[m]
             b == rx[m + 1]
  <2>3. ReceivedByte(b, sent, spoilt) /\ Follows(a, b, spoilt)
    <3>1. ReceivedByte(b, sent, spoilt)
      BY <2>1 DEF ChainInv
    <3>2. CASE m = 0
      <4>1. rx # <<>>
        BY <2>1, <1>0
      <4> QED  BY <1>0, <3>1, <3>2, <4>1
    <3>3. CASE m # 0
      <4>1. m \in 1..(Len(rx) - 1)
        BY <1>0, <2>0, <2>1, <3>3
      <4> QED  BY <3>1, <3>3, <4>1 DEF ChainInv
    <3> QED  BY <3>2, <3>3
  <2>4. \A k \in 1..(m + 1) : k \in 1..m \/ k = m + 1
    BY <2>0
  <2> HIDE DEF n, T
  <2>5. CASE Straight(n, m)
    <3>1. At(a, n, m + 2)
      <4>1. CASE m = 0
        BY <1>0, <4>1 DEF At, n
      <4>2. CASE m # 0
        BY <2>0, <2>5, <4>2 DEF Straight
      <4> QED  BY <4>1, <4>2
    <3> HIDE DEF a, b
    <3>2. CASE At(b, n, m + 3)
      <4>1. Straight(n, m + 1)
        BY <2>0, <2>4, <2>5, <3>2 DEF Straight, At, b
      <4> QED  BY <4>1
    <3>3. CASE /\ spoilt[n] = m + 3
               /\ m + 1 < Rest => At(b, n, m + 4)
               /\ m + 1 = Rest => At(b, n + 1, 1)
      <4>1. Shifted(n, m + 1, m + 1)
        <5>1. m + 1 \in 1..(m + 1) /\ (m + 1) + 2 = m + 3 /\ (m + 1) + 3 = m + 4
          BY <2>0
        <5>2. \A k \in 1..m : k < m + 1 /\ ~(k >= m + 1) /\ At(rx[k], n, k + 2)
          BY <2>0, <2>5 DEF Straight
        <5>3. ~(m + 1 < m + 1)
          BY <2>0
        <5> QED  BY <2>4, <3>3, <5>1, <5>2, <5>3 DEF Shifted, b
      <4> QED  BY <2>0, <4>1
    <3> QED  BY <1>1, <2>0, <2>1, <2>3, <3>1, <3>2, <3>3, NextSeen
  <2>6. ASSUME NEW j \in 1..m, Shifted(n, m, j) PROVE Shifted(n, m + 1, j)
    <3>1. m # 0 /\ m \in 1..m /\ m >= j /\ m + 1 >= j /\ ~(m + 1 < j) /\ j \in 1..(m + 1)
      BY <2>0
    <3>2. At(a, n, m + 3) /\ spoilt[n] = j + 2
      BY <2>1, <2>6, <3>1 DEF Shifted
    <3>3. /\ m + 1 < Rest => At(b, n, m + 4)
          /\ m + 1 = Rest => At(b, n + 1, 1)
      <4> HIDE DEF a, b
      <4> QED  BY <1>1, <2>0, <2>1, <2>3, <3>2, NextSeen
    <3>4. (m + 1) + 3 = m + 4
      BY <2>0
    <3> QED  BY <2>4, <2>6, <3>1, <3>3, <3>4 DEF Shifted, b
  <2>7. \A j \in 1..m : j \in 1..(m + 1)
    BY <2>0
  <2> QED  BY <2>2, <2>5, <2>6, <2>7
<1>4. \A m \in Nat : m \in T
  <2>1. T \in SUBSET Nat
    OBVIOUS
  <2> HIDE DEF T
  <2> QED  BY <1>2, <1>3, <2>1, NaturalInduction
<1>5. There \in Nat
  BY <1>0, Sizes
<1> QED  BY <1>1, <1>4, <1>5

\* A byte of the rest of report n in its place, as it arrives.
LEMMA InPlace ==
  ASSUME NEW s \in Seq(Data), NEW f, NEW n \in 1..Len(s), NEW k \in 1..Rest, NEW p \in 3..Size,
         NEW b, ReceivedByte(b, s, f), At(b, n, p)
  PROVE  /\ b.val = Icrnl(Body(s[n])[p - 2]) \/ (f[n] = p /\ \E v \in Damaged : b.val = Icrnl(v))
         /\ s[n] \in Data
<1>1. b.of = n /\ b.pos = p /\ p # After /\ p - 2 \in 1..Rest /\ (p - 2) + 2 = p
  BY Sizes DEF At
<1>2. s[n] \in Data
  BY ElementOfSeq
<1>3. Genuine(b, s) = Body(s[n])[p - 2]
  BY <1>1, <1>2, ReportBytes DEF Genuine
<1> QED  BY <1>1, <1>2, <1>3 DEF ReceivedByte

\* What is found of a report in its order is it or it with a byte damaged, as far
\* as it has arrived.
LEMMA StraightRead ==
  ASSUME TypeOK, ChainInv, NEW n \in 1..Len(sent), Straight(n, There)
  PROVE  \E b \in Altered(Body(sent[n])) : ReadBuff = Cut(Received(b), There)
<1> DEFINE d == sent[n]
           M == There
<1>0. /\ sent \in Seq(Data) /\ M \in 0..Rest /\ M <= Len(rx) /\ Len(rx) \in Nat /\ M \in Nat
      /\ \A k \in 1..Rest : ReadBuff[k] = IF k <= M THEN rx[k].val ELSE 0
  BY ThereType, Sizes DEF TypeOK
<1>1. d \in Data
  BY <1>0, ElementOfSeq
<1> HIDE DEF d, M
<1>2. DOMAIN Body(d) = 1..Rest
  BY <1>1, BodyBytes
<1>3. ASSUME NEW k \in 1..M
      PROVE  \/ rx[k].val = Icrnl(Body(d)[k])
             \/ spoilt[n] = k + 2 /\ \E v \in Damaged : rx[k].val = Icrnl(v)
  <2>1. k \in 1..Rest /\ k \in 1..Len(rx) /\ k + 2 \in 3..Size /\ (k + 2) - 2 = k
    BY <1>0, Sizes
  <2>2. ReceivedByte(rx[k], sent, spoilt) /\ At(rx[k], n, k + 2)
    BY <2>1 DEF ChainInv, Straight, M
  <2> QED  BY <1>0, <2>1, <2>2, InPlace DEF d
<1>4. \E b \in Altered(Body(d)) : \A k \in 1..M : rx[k].val = Icrnl(b[k])
  <2>1. CASE \A k \in 1..M : rx[k].val = Icrnl(Body(d)[k])
    BY <2>1 DEF Altered
  <2>2. CASE \E k \in 1..M : rx[k].val # Icrnl(Body(d)[k])
    <3>1. PICK j \in 1..M : rx[j].val # Icrnl(Body(d)[j])
      BY <2>2
    <3>2. PICK v \in Damaged : rx[j].val = Icrnl(v)
      BY <1>3, <3>1
    <3>3. spoilt[n] = j + 2
      BY <1>3, <3>1
    <3> DEFINE b == [Body(d) EXCEPT ![j] = v]
    <3>4. j \in 1..Rest /\ \A k \in 1..M : k \in 1..Rest
      BY <1>0, Sizes
    <3>5. b \in Altered(Body(d))
      BY <3>4 DEF Altered
    <3>6. b[j] = v /\ \A k \in 1..Rest : k # j => b[k] = Body(d)[k]
      BY <1>2, <3>4
    <3>7. \A k \in 1..M : k # j => rx[k].val = Icrnl(Body(d)[k])
      <4>1. \A k \in 1..M : k # j => k + 2 # j + 2
        OBVIOUS
      <4> QED  BY <1>3, <3>3, <4>1
    <3> HIDE DEF b
    <3> QED  BY <3>2, <3>4, <3>5, <3>6, <3>7
  <2> QED  BY <2>1, <2>2
<1>5. PICK b \in Altered(Body(d)) : \A k \in 1..M : rx[k].val = Icrnl(b[k])
  BY <1>4
<1>6. ReadBuff = Cut(Received(b), M)
  <2>1. \A k \in 1..Rest : ReadBuff[k] = Cut(Received(b), M)[k]
    <3> SUFFICES ASSUME NEW k \in 1..Rest PROVE ReadBuff[k] = Cut(Received(b), M)[k]
      OBVIOUS
    <3>1. k <= M => k \in 1..M
      BY <1>0
    <3> QED  BY <1>0, <1>5, <3>1 DEF Cut, Received
  <2> QED  BY <2>1 DEF ReadBuff, Cut
<1> QED  BY <1>5, <1>6 DEF d, M

\* If a byte has been lost, what is found is that.
LEMMA ShiftedRead ==
  ASSUME TypeOK, CalmInv, ChainInv, NEW n \in 1..Len(sent), NEW j \in 1..There, Shifted(n, There, j)
  PROVE  ReadBuff = Cut(Received(Without(Body(sent[n]), j)), There)
<1> DEFINE d == sent[n]
           M == There
           b == Without(Body(d), j)
<1>0. /\ sent \in Seq(Data) /\ M \in 0..Rest /\ M <= Len(rx) /\ Len(rx) \in Nat /\ M \in Nat
      /\ \A k \in 1..Rest : ReadBuff[k] = IF k <= M THEN rx[k].val ELSE 0
      /\ Len(sent) \in Nat
  BY ThereType, Sizes DEF TypeOK
<1>1. spoilt[n] = j + 2 /\ j \in 1..M
  BY DEF Shifted
<1> HIDE DEF M
<1>2. ASSUME NEW k \in 1..M PROVE rx[k].val = Icrnl(b[k])
  <2>1. k \in 1..Rest /\ k \in 1..Len(rx) /\ j \in 1..Rest
    BY <1>0, <1>1, Sizes
  <2>2. ReceivedByte(rx[k], sent, spoilt)
    BY <2>1 DEF ChainInv
  <2>3. CASE k < j
    <3>1. At(rx[k], n, k + 2)
      BY <2>3 DEF Shifted, M
    <3>2. k + 2 \in 3..Size /\ (k + 2) - 2 = k /\ k + 2 # j + 2
      BY <2>1, <2>3, Sizes
    <3>3. rx[k].val = Icrnl(Body(d)[k])
      BY <1>0, <1>1, <2>1, <2>2, <3>1, <3>2, InPlace
    <3> QED  BY <2>1, <2>3, <3>3 DEF Without
  <2>4. CASE k >= j /\ k < Rest
    <3>1. At(rx[k], n, k + 3)
      BY <2>4 DEF Shifted, M
    <3>2. k + 3 \in 3..Size /\ (k + 3) - 2 = k + 1 /\ k + 3 # j + 2 /\ ~(k < j)
      BY <2>1, <2>4, Sizes
    <3>3. rx[k].val = Icrnl(Body(d)[k + 1])
      BY <1>0, <1>1, <2>1, <2>2, <3>1, <3>2, InPlace
    <3> QED  BY <2>1, <2>4, <3>2, <3>3 DEF Without
  <2>5. CASE k >= j /\ k = Rest
    <3>1. rx[k].of = n + 1 /\ rx[k].pos = 1
      BY <2>5 DEF Shifted, M, At
    <3>2. rx[k].of \in 1..Len(sent)
      <4>1. rx[k].pos # After
        BY <3>1, Sizes
      <4> QED  BY <1>0, <2>2, <4>1, KeyValue
    <3>3. spoilt[n + 1] # 1
      <4>1. n + 1 \in 1..Len(sent) /\ (n + 1) - 1 = n
        BY <3>1, <3>2
      <4>2. spoilt[n + 1] = 0 \/ spoilt[n] = 0
        BY <4>1 DEF CalmInv
      <4> QED  BY <1>1, <4>2
    <3>4. rx[k].val = Icrnl(KEY1)
      <4>1. sent[n + 1] \in Data
        BY <1>0, <3>1, <3>2, ElementOfSeq
      <4>2. Genuine(rx[k], sent) = KEY1
        BY <3>1, <4>1, ReportBytes DEF Genuine
      <4> QED  BY <2>2, <3>1, <3>3, <4>2, Sizes DEF ReceivedByte
    <3>5. b[k] = KEY1
      BY <2>1, <2>5 DEF Without
    <3> QED  BY <3>4, <3>5
  <2>6. k < j \/ (k >= j /\ k < Rest) \/ (k >= j /\ k = Rest)
    BY <2>1, Sizes
  <2> QED  BY <2>3, <2>4, <2>5, <2>6
<1> HIDE DEF b
<1>3. ReadBuff = Cut(Received(b), M)
  <2>1. \A k \in 1..Rest : ReadBuff[k] = Cut(Received(b), M)[k]
    <3> SUFFICES ASSUME NEW k \in 1..Rest PROVE ReadBuff[k] = Cut(Received(b), M)[k]
      OBVIOUS
    <3>1. k <= M => k \in 1..M
      BY <1>0
    <3> QED  BY <1>0, <1>2, <3>1 DEF Cut, Received
  <2> QED  BY <2>1 DEF ReadBuff, Cut
<1> QED  BY <1>3 DEF b, M

\* A view of report d that passes is a mistake.
LEMMA MistakeMade ==
  ASSUME NEW d \in Data, NEW v \in Views(d), Matches(v)
  PROVE  SubSeq(v, 1, DATA) \in Mistakes[d]
  BY DEF Mistakes

\* What passes the comparison is of the report whose keys were read; its data
\* are those sent, or one of the mistakes.
LEMMA AcceptedReport ==
  ASSUME TypeOK, CalmInv, ChainInv, KeyInv, pc = "body", Matches(ReadBuff)
  PROVE  /\ key.of \in 1..Len(sent) /\ NumberRead = key.of
         /\ SubSeq(ReadBuff, 1, DATA) \in {sent[key.of]} \cup Mistakes[sent[key.of]]
<1> DEFINE n == key.of
           d == sent[n]
<1>0. /\ n \in 1..Len(sent) /\ sent \in Seq(Data) /\ d \in Data
      /\ There \in 0..Rest /\ There <= Len(rx) /\ Len(rx) \in Nat
      /\ Straight(n, There) \/ \E j \in 1..There : Shifted(n, There, j)
  <2>1. /\ n \in 1..Len(sent) /\ sent \in Seq(Data)
        /\ Straight(n, There) \/ \E j \in 1..There : Shifted(n, There, j)
    BY RestSeen DEF TypeOK
  <2> QED  BY <2>1, ThereType, ElementOfSeq
<1>1. NumberRead = n
  <2>1. CASE rx = <<>>
    BY <2>1 DEF NumberRead
  <2>2. CASE rx # <<>>
    <3>1. rx \in Seq(TaggedByte) /\ Head(rx) = rx[1] /\ Len(rx) \in Nat \ {0}
      BY <2>2, Taken DEF TypeOK
    <3>2. 1 \in 1..There /\ 1 \in 1..Rest /\ 1 < Rest
      BY <3>1, Sizes DEF There
    <3>3. At(rx[1], n, 3) \/ At(rx[1], n, 4)
      <4>1. CASE Straight(n, There)
        BY <3>2, <4>1 DEF Straight
      <4>2. ASSUME NEW j \in 1..There, Shifted(n, There, j) PROVE At(rx[1], n, 3) \/ At(rx[1], n, 4)
        BY <1>0, <3>2, <4>2 DEF Shifted
      <4> QED  BY <1>0, <4>1, <4>2
    <3>4. rx[1].of = n /\ rx[1].pos # After
      BY <3>3, Sizes DEF At
    <3> QED  BY <2>2, <3>1, <3>4 DEF NumberRead
  <2> QED  BY <2>1, <2>2
<1>2. ASSUME NEW j \in 1..There, Shifted(n, There, j)
      PROVE  SubSeq(ReadBuff, 1, DATA) \in Mistakes[d]
  <2>1. ReadBuff = Cut(Received(Without(Body(d), j)), There)
    BY <1>0, <1>2, ShiftedRead
  <2>2. j \in 1..Rest
    BY <1>0, Sizes
  <2>3. ReadBuff \in Views(d)
    BY <1>0, <2>1, <2>2 DEF Views
  <2> QED  BY <1>0, <2>3, MistakeMade
<1>3. ASSUME Straight(n, There)
      PROVE  SubSeq(ReadBuff, 1, DATA) \in {d} \cup Mistakes[d]
  <2>1. PICK b \in Altered(Body(d)) : ReadBuff = Cut(Received(b), There)
    BY <1>0, <1>3, StraightRead
  <2>2. CASE There # Rest
    <3>1. There \in 0..(Rest - 1)
      BY <1>0, <2>2, Sizes
    <3>2. ReadBuff \in Views(d)
      BY <2>1, <3>1 DEF Views
    <3> QED  BY <1>0, <3>2, MistakeMade
  <2>3. CASE There = Rest
    <3>1. ReadBuff = Received(b)
      <4>1. \A k \in 1..Rest : Cut(Received(b), Rest)[k] = Received(b)[k]
        BY Sizes DEF Cut
      <4> QED  BY <2>1, <2>3, <4>1 DEF Cut, Received
    <3>2. CASE HasCR(d)
      <4>1. ReadBuff \in Views(d)
        BY <3>1, <3>2 DEF Views
      <4> QED  BY <1>0, <4>1, MistakeMade
    <3>3. CASE ~HasCR(d)
      BY <1>0, <3>1, <3>3, DamageFound
    <3> QED  BY <3>2, <3>3
  <2> QED  BY <2>2, <2>3
<1> QED  BY <1>0, <1>1, <1>2, <1>3

\* What has been taken after the keys of report n ends behind these.
LEMMA Behind ==
  ASSUME TypeOK, CalmInv, ChainInv, KeyInv, pc = "body", Len(rx) >= Rest
  PROVE  rx[Rest].of > key.of \/ (rx[Rest].of = key.of /\ rx[Rest].pos > 2)
<1>1. There = Rest /\ Rest \in 1..There /\ key.of \in 1..Len(sent) /\ Len(sent) \in Nat
  BY ThereType, RestSeen, Sizes DEF There, TypeOK
<1>2. CASE Straight(key.of, There)
  <2>1. At(rx[Rest], key.of, Rest + 2)
    BY <1>1, <1>2 DEF Straight
  <2> QED  BY <2>1, Sizes DEF At
<1>3. ASSUME NEW j \in 1..There, Shifted(key.of, There, j)
      PROVE  rx[Rest].of > key.of
  <2>1. Rest >= j /\ ~(Rest < j) /\ ~(Rest < Rest)
    BY <1>1, Sizes
  <2>2. At(rx[Rest], key.of + 1, 1)
    BY <1>1, <1>3, <2>1 DEF Shifted
  <2> QED  BY <1>1, <2>2 DEF At
<1> QED  BY <1>2, <1>3, RestSeen

LEMMA ReadBodyKeeps ==
  ASSUME IInv, ReadBody, TypeOK'
  PROVE  WireInv' /\ CalmInv' /\ ChainInv' /\ KeyInv' /\ NewInv'
<1>0. /\ TypeOK /\ WireInv /\ CalmInv /\ ChainInv /\ KeyInv /\ NewInv /\ pc = "body"
      /\ UNCHANGED <<wire, sent, spoilt>>
  BY DEF IInv, ReadBody, Reading
<1>1. WireInv' /\ CalmInv'
  BY <1>0 DEF WireInv, CalmInv
<1>2. CASE Accept /\ rx' = SubSeq(rx, Rest + 1, Len(rx)) /\ FromKey1
  <2>1. key.of \in 1..Len(sent) /\ NumberRead = key.of /\ Len(sent) \in Nat
    BY <1>0, <1>2, AcceptedReport DEF Accept, TypeOK
  <2>2. last' = key.of
    <3> DEFINE r == [num |-> NumberRead, data |-> SubSeq(ReadBuff, 1, DATA)]
    <3>1. accepted' = Append(accepted, r) /\ r.num = key.of
      BY <1>2, <2>1 DEF Accept
    <3>2. accepted \in Seq(TakenReport) /\ accepted' \in Seq(TakenReport')
      BY <1>0 DEF TypeOK
    <3> HIDE DEF r
    <3>3. Len(accepted) \in Nat /\ Len(accepted') = Len(accepted) + 1 /\ accepted'[Len(accepted) + 1] = r
      BY <3>1, <3>2
    <3>4. accepted' # <<>>
      BY <3>2, <3>3, EmptySeq
    <3> QED  BY <3>1, <3>3, <3>4 DEF last
  <2>3. /\ Len(rx) \in Nat /\ Rest \in Nat /\ rx \in Seq(TaggedByte)
        /\ key.of \in Nat /\ key.pos = 2
    BY <1>0, <2>1, Sizes DEF TypeOK, KeyInv
  <2>4. CASE Len(rx) >= Rest
    <3>1. Rest \in 1..Len(rx) /\ Rest \in 0..Len(rx)
      BY <2>3, <2>4, Sizes
    <3>2. /\ rx' \in Seq(TaggedByte) /\ Len(rx') = Len(rx) - Rest
          /\ \A k \in 1..(Len(rx) - Rest) : rx'[k] = rx[k + Rest]
      <4>1. \A k \in (Rest + 1)..Len(rx) : rx[k] \in TaggedByte
        BY <2>3
      <4>2. Rest + 1 \in Int /\ Len(rx) \in Int
        BY <2>3
      <4>3. /\ SubSeq(rx, Rest + 1, Len(rx)) \in Seq(TaggedByte)
            /\ Len(SubSeq(rx, Rest + 1, Len(rx))) =
                 IF Rest + 1 <= Len(rx) THEN Len(rx) - (Rest + 1) + 1 ELSE 0
            /\ \A k \in 1..(Len(rx) - (Rest + 1) + 1) :
                 SubSeq(rx, Rest + 1, Len(rx))[k] = rx[Rest + 1 + k - 1]
        BY <4>1, <4>2, SubSeqProperties
      <4>4. /\ (IF Rest + 1 <= Len(rx) THEN Len(rx) - (Rest + 1) + 1 ELSE 0) = Len(rx) - Rest
            /\ Len(rx) - (Rest + 1) + 1 = Len(rx) - Rest
            /\ \A k \in 1..(Len(rx) - Rest) : Rest + 1 + k - 1 = k + Rest
        BY <2>3, <2>4
      <4> QED  BY <1>2, <4>3, <4>4
    <3>3. ChainInv'
      BY <1>0, <2>3, <3>1, <3>2, FrontTaken
    <3>4. \A b \in TaggedByte : Before(rx[Rest], b) => New(b, key.of)
      <4>1. rx[Rest].of > key.of \/ (rx[Rest].of = key.of /\ rx[Rest].pos > 2)
        BY <1>0, <2>4, Behind
      <4>2. rx[Rest] \in TaggedByte
        BY <2>3, <3>1
      <4>3. rx[Rest].of \in Nat /\ rx[Rest].pos \in Nat
        BY <2>1, <4>2, Sizes DEF TaggedByte
      <4> QED  BY <2>1, <2>3, <4>1, <4>3, Sizes DEF Before, New, TaggedByte
    <3>5. ASSUME NEW k \in 1..(Len(rx) - Rest) PROVE New(rx'[k], key.of)
      <4>1. k + Rest \in 1..Len(rx) /\ Rest < k + Rest
        BY <2>3
      <4>2. Before(rx[Rest], rx[k + Rest])
        BY <1>0, <3>1, <4>1 DEF ChainInv
      <4>3. rx[k + Rest] \in TaggedByte
        BY <2>3, <4>1
      <4> QED  BY <3>2, <3>4, <4>2, <4>3
    <3>6. ASSUME wire # <<>> PROVE New(wire[1], key.of)
      <4>1. Before(rx[Rest], wire[1]) /\ wire[1] \in TaggedByte
        BY <1>0, <3>1, <3>6, WireHead DEF ChainInv
      <4> QED  BY <3>4, <4>1
    <3>7. NewInv'
      BY <1>0, <2>2, <3>2, <3>5, <3>6 DEF NewInv
    <3> QED  BY <1>1, <1>2, <3>3, <3>7 DEF KeyInv, FromKey1
  <2>5. CASE ~(Len(rx) >= Rest)
    <3>1. rx' = <<>> /\ Len(rx') = 0
      <4>1. Rest + 1 \in Int /\ Len(rx) \in Int /\ ~(Rest + 1 <= Len(rx))
        BY <2>3, <2>5
      <4>2. \A k \in (Rest + 1)..Len(rx) : rx[k] \in TaggedByte
        BY <4>1
      <4>3. SubSeq(rx, Rest + 1, Len(rx)) \in Seq(TaggedByte) /\ Len(SubSeq(rx, Rest + 1, Len(rx))) = 0
        BY <4>1, <4>2, SubSeqProperties
      <4> QED  BY <1>2, <4>3, EmptySeq
    <3>2. \A k \in 1..Len(rx') : FALSE
      BY <3>1
    <3>3. \A k \in 1..(Len(rx') - 1) : FALSE
      BY <3>1
    <3>4. ASSUME wire # <<>> PROVE New(wire[1], key.of)
      <4>0. /\ wire[1] \in TaggedByte /\ wire[1].of \in Nat /\ wire[1].pos \in Nat
        BY <1>0, <2>1, <3>4, WireHead, Sizes DEF TaggedByte
      <4>1. CASE rx = <<>>
        <5>1. Follows(key, wire[1], spoilt)
          BY <1>0, <3>4, <4>1 DEF KeyInv, Newest
        <5> QED  BY <2>3, <5>1, Sizes DEF Follows, New
      <4>2. CASE rx # <<>>
        <5>1. 1 \in 1..Len(rx)
          BY <2>3, <4>2, EmptySeq
        <5>2. Follows(key, rx[1], spoilt) /\ Before(rx[1], wire[1]) /\ rx[1] \in TaggedByte
          BY <1>0, <2>3, <3>4, <4>2, <5>1 DEF KeyInv, ChainInv
        <5>3. rx[1].of \in Nat /\ rx[1].pos \in Nat
          BY <2>1, <5>2, Sizes DEF TaggedByte
        <5>4. rx[1].of > key.of \/ (rx[1].of = key.of /\ rx[1].pos > 2)
          BY <2>3, <5>2, Sizes DEF Follows
        <5> QED  BY <2>3, <4>0, <5>2, <5>3, <5>4 DEF Before, New
      <4> QED  BY <4>1, <4>2
    <3>5. NewInv'
      BY <1>0, <2>2, <3>2, <3>4 DEF NewInv
    <3>6. ChainInv'
      BY <3>1, <3>2, <3>3 DEF ChainInv
    <3> QED  BY <1>1, <1>2, <3>5, <3>6 DEF KeyInv, FromKey1
  <2> QED  BY <2>4, <2>5
<1>3. CASE Tcflush /\ Nothing
  BY <1>0, <1>1, <1>3, Flushed DEF Tcflush, FromKey1, Nothing, last
<1> QED  BY <1>2, <1>3 DEF ReadBody

-----------------------------------------------------------------------------
(***************************************************************************)
(* The inductive invariant, and what follows from it.                      *)
(***************************************************************************)
LEMMA InitIInv == Init => IInv
<1> SUFFICES ASSUME Init PROVE IInv
  OBVIOUS
<1>1. Len(sent) = 0 /\ Len(wire) = 0 /\ Len(rx) = 0
  BY DEF Init
<1>2. /\ \A k \in 1..Len(wire) : FALSE
      /\ \A k \in 1..Len(rx) : FALSE
      /\ \A k \in 1..(Len(rx) - 1) : FALSE
      /\ \A n \in 1..Len(sent) : FALSE
  BY <1>1
<1>3. WireInv /\ CalmInv /\ ChainInv /\ KeyInv /\ NewInv
  BY <1>2 DEF Init, WireInv, CalmInv, ChainInv, KeyInv, NewInv
<1> QED  BY <1>3, InitType DEF IInv

LEMMA NextIInv == IInv /\ [Next]_vars => IInv'
<1> SUFFICES ASSUME IInv, [Next]_vars PROVE IInv'
  OBVIOUS
<1>0. TypeOK' /\ LineInv /\ NewInv
  BY NextType DEF IInv, LineInv
<1>1. CASE Line
  <2>1. NewInv'
    BY <1>0, <1>1, LineKeepsNew
  <2>2. WireInv' /\ CalmInv' /\ ChainInv' /\ KeyInv'
    BY <1>0, <1>1, SendLine, ArriveLine, LoseLine, DamageLine, NoiseLine DEF Line
  <2> QED  BY <1>0, <2>1, <2>2 DEF IInv
<1>2. CASE pw_mgr_task
  BY <1>0, <1>2, ReadKey1Keeps, ReadKey2Keeps, ReadBodyKeeps DEF pw_mgr_task, IInv
<1>3. CASE UNCHANGED vars
  BY <1>0, <1>3 DEF vars, IInv, WireInv, CalmInv, ChainInv, KeyInv, NewInv, last
<1> QED  BY <1>1, <1>2, <1>3 DEF Next

\* A step of the model is one of the line as EggmLine has it, or none.
LEMMA StepRefines ==
  IInv /\ [Next]_vars => [LineSpecification!Next]_(LineSpecification!lineVars)
<1> SUFFICES ASSUME IInv, [Next]_vars
             PROVE  LineSpecification!Next \/ UNCHANGED <<sent, accepted>>
  BY DEF LineSpecification!lineVars
<1>1. ASSUME NEW d \in Data, BoardSend(d) PROVE LineSpecification!Next
  BY <1>1 DEF BoardSend, LineSpecification!Next, LineSpecification!Send
<1>2. CASE Line /\ ~(\E d \in Data : BoardSend(d))
  BY <1>2 DEF Line, Arrive, Lose, Damage, Noise, Spoil
<1>3. CASE ReadKey1 \/ ReadKey2
  BY <1>3 DEF ReadKey1, ReadKey2, Reading, Nothing
<1>4. CASE ReadBody
  <2>0. TypeOK /\ CalmInv /\ ChainInv /\ KeyInv /\ pc = "body" /\ sent' = sent
    BY <1>4 DEF IInv, ReadBody, Reading
  <2>1. CASE Accept
    <3> DEFINE d == SubSeq(ReadBuff, 1, DATA)
    <3>1. /\ key.of \in 1..Len(sent) /\ NumberRead = key.of
          /\ d \in {sent[key.of]} \cup Mistakes[sent[key.of]]
      BY <2>0, <2>1, AcceptedReport DEF Accept
    <3>2. key.of > LineSpecification!last
      BY <2>0 DEF KeyInv, last, LineSpecification!last
    <3>3. accepted' = Append(accepted, [num |-> key.of, data |-> d])
      BY <2>1, <3>1 DEF Accept
    <3> HIDE DEF d
    <3>4. LineSpecification!Accept(key.of, d)
      BY <2>0, <3>2, <3>3 DEF LineSpecification!Accept
    <3>5. key.of \in DOMAIN sent
      BY <2>0, <3>1 DEF TypeOK
    <3> QED  BY <3>1, <3>4, <3>5 DEF LineSpecification!Next
  <2>2. CASE Nothing
    BY <2>0, <2>2 DEF Nothing
  <2> QED  BY <1>4, <2>1, <2>2 DEF ReadBody
<1>5. CASE UNCHANGED vars
  BY <1>5 DEF vars
<1> QED  BY <1>1, <1>2, <1>3, <1>4, <1>5 DEF Next, pw_mgr_task

(***************************************************************************)
(* Types: among them, what a read finds are bytes, and a report accepted   *)
(* is one that was sent (pw_mgr_task).                                     *)
(***************************************************************************)
THEOREM TypeCorrect == Spec => []TypeOK
<1>1. IInv => TypeOK
  BY DEF IInv
<1> QED  BY <1>1, InitIInv, NextIInv, PTL DEF Spec

(***************************************************************************)
(* The reader implements the line of EggmLine: whatever is damaged, lost   *)
(* or added and however early it reads, each report that passes the        *)
(* comparison of one byte of the checksum (eggm_pw.c:220) is one the board *)
(* sent, later than the one accepted before it, so none is accepted twice; *)
(* and it has the data that were sent, or, if it was cut short, lost a     *)
(* byte or has a CR, those of one of its mistakes.                         *)
(***************************************************************************)
THEOREM Refines == Spec => AcceptsOnlySent
<1>1. Init => LineSpecification!Init
  BY DEF Init, LineSpecification!Init
<1> QED  BY <1>1, InitIInv, NextIInv, StepRefines, PTL DEF Spec, AcceptsOnlySent, LineSpecification!Spec

=============================================================================
