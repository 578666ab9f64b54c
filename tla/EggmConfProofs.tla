--------------------------- MODULE EggmConfProofs ---------------------------
(***************************************************************************)
(* Proofs about EggmConf, for every directory, list name, week file and    *)
(* number of restarts: types, what reading and sorting make of a           *)
(* directory, what the numbers shown to a tablet mean, which list and file *)
(* a restart goes on with, and what the week file comes to.                *)
(***************************************************************************)
EXTENDS EggmConf, EggmInduction, SequenceTheorems

(***************************************************************************)
(* The inductive invariant.  Starting: the lists are not sorted yet.       *)
(***************************************************************************)
Starting == pc \in {"read", "add", "sort"}
Storing  == padPc \in {"store", "truncate", "write"}

Dirs == Visible(directory)

\* files are the .mp3 files of entry in some order.
Contents(files) == {files[k] : k \in DOMAIN files}
Mp3At(entry) == {k \in DOMAIN entry.files : entry.files[k].mp3}

FilesOf(files, entry) ==
  /\ Len(files) = Cardinality(Mp3At(entry))
  /\ Contents(files) = {entry.files[k].num : k \in Mp3At(entry)}

ListFor(list, entry) == list.name = entry.name /\ FilesOf(list.files, entry)

\* The lists added so far are the first of the directory, the rest is zero.
ListInv ==
  /\ pc = "read" => g_music_list_cnt = 0
  /\ pc \in {"read", "add"} => cnt = g_music_list_cnt /\ i = 0 /\ j = 0
  /\ pc \in {"add", "sort"} =>
       /\ Len(tmp_music_list) = Len(Dirs)
       /\ \A k \in 1..Len(Dirs) : ListFor(tmp_music_list[k], Dirs[k])
  /\ g_music_list_cnt <= Len(Dirs)
  /\ pc \notin {"read", "add"} => g_music_list_cnt = Len(Dirs)
  /\ \A n \in Numbers : IF n < g_music_list_cnt THEN ListFor(g_music_list[n], Dirs[n + 1])
                                                ELSE g_music_list[n] = NoList

Ascending(files) == \A k, l \in 1..Len(files) : k < l => files[k] <= files[l]

\* After a passes the last a files are in their places; after b comparisons
\* of a pass the greatest of the first b + 1 files is at b + 1.
Passes(files, a, b) ==
  /\ a = 0 \/ a < Len(files)
  /\ b = 0 \/ b < Len(files) - a
  /\ \A k, l \in 1..Len(files) : k < l /\ l > Len(files) - a => files[k] <= files[l]
  /\ \A k \in 1..b : files[k] <= files[b + 1]

SortInv ==
  /\ pc = "sort" => /\ cnt <= g_music_list_cnt
                    /\ \A n \in Numbers : n < cnt => Ascending(g_music_list[n].files)
                    /\ IF cnt < g_music_list_cnt THEN Passes(Files, i, j) ELSE i = 0 /\ j = 0
  /\ ~Starting => \A n \in Numbers : Ascending(g_music_list[n].files)

\* Each name the tablet gets is that of the list with its number.
Shows(names) == Len(names) <= g_music_list_cnt /\ \A n \in 1..Len(names) : names[n] = Dirs[n].name

PadInv ==
  /\ Shows(shown)
  /\ padPc = "name" => Shows(answer) /\ Len(answer) <= padNum /\ padNum <= g_music_list_cnt
  /\ padPc = "list" \/ Storing => padNum \in Numbers
  /\ Storing /\ ~padEarly => ~Starting /\ padList = g_music_list[padNum]

\* The current list is one of the sorted ones, unless it was taken early.
CurrentInv ==
  /\ pc = "set" => play_list = g_music_list[num]
  /\ ~early => \/ g_cur_music = NoMusic
               \/ /\ ~Starting
                  /\ \E n \in Numbers : g_cur_music = [listname |-> g_music_list[n].name,
                                                       filename |-> FirstFile(g_music_list[n])]

\* What is saved is what was chosen; the task looks for it and finds its list.
ChoiceInv ==
  /\ intact => conf = chosen /\ chosen \in Nat
  /\ padPc \in {"truncate", "write"} => ~intact
  /\ pc = "find" /\ expected # Missing => name = expected
  /\ pc \in {"fetch", "set"} /\ expected # Missing =>
       num \in Found(expected) \/ (Found(expected) = {} /\ num = 0)

\* The last of the first n lines that is for a day.
LastFor(d, k, n) ==
  /\ schConf[k].sch /\ schConf[k].day = d
  /\ \A l \in 1..n : l > k /\ schConf[l].sch => schConf[l].day # d

SchInv ==
  /\ line <= Len(schConf) /\ (schPc # "read" => line = Len(schConf))
  /\ (\A p \in Parts : tails[p] = NoDigit) =>
       \A d \in WDay, k \in 1..line :
         LastFor(d, k, line) => sch[d] = [is_enable |-> schConf[k].is_enable,
                                          start |-> schConf[k].start, end |-> schConf[k].end]
  /\ schPc = "read" => day = 0
  /\ \A d \in WDay : d < day => g_eggm_week_schedule[d] = sch[d]
  /\ schPc = "run" => day = DAYS

IInv == TypeOK /\ ListInv /\ SortInv /\ PadInv /\ CurrentInv /\ ChoiceInv /\ SchInv
-----------------------------------------------------------------------------
(***************************************************************************)
(* What the loops of readdir keep.                                         *)
(***************************************************************************)
NextKept(kept, seq, positions, n) ==
  IF n \in positions THEN Append(kept, seq[n]) ELSE kept

(***************************************************************************)
(* Kept is the loop it is written as: nothing before the first entry, and  *)
(* after each entry what was kept before, with the entry if it is wanted.  *)
(***************************************************************************)
LEMMA KeptLoop ==
  ASSUME NEW S, NEW s \in Seq(S), NEW I
  PROVE  /\ Kept(s, I)[0] = <<>>
         /\ \A n \in 1..Len(s) : Kept(s, I)[n] = NextKept(Kept(s, I)[n - 1], s, I, n)
<1> DEFINE Rec(f) == f = [n \in 0..Len(s) |->
                            IF n = 0 THEN <<>>
                            ELSE IF n \in I THEN Append(f[n - 1], s[n]) ELSE f[n - 1]]
           step == [n \in 1..Len(s) |-> [x \in Seq(S) |-> NextKept(x, s, I, n)]]
           base == <<>>
<1>1. \E f : Rec(f)
  <2>1. base \in Seq(S) /\ Len(s) \in Nat
    OBVIOUS
  <2>2. step \in Steps(Len(s), Seq(S))
    BY DEF NextKept, Steps
  <2>3. PICK f \in Runs(Len(s), Seq(S)) : Loop(f, Len(s), base, step)
    <3> HIDE DEF step, base
    <3> QED  BY <2>1, <2>2, Recursion
  <2>4. ASSUME NEW n \in 1..Len(s) PROVE f[n] = NextKept(f[n - 1], s, I, n)
    <3>1. f[n - 1] \in Seq(S)
      BY <2>1, <2>3 DEF Runs
    <3>2. f[n] = step[n][f[n - 1]]
      <4> HIDE DEF step
      <4> QED  BY <2>3 DEF Loop
    <3> QED  BY <3>1, <3>2
  <2>5. f = [n \in 0..Len(s) |-> f[n]]
    BY <2>3 DEF Runs
  <2>6. ASSUME NEW n \in 0..Len(s)
        PROVE  f[n] = IF n = 0 THEN <<>>
                      ELSE IF n \in I THEN Append(f[n - 1], s[n]) ELSE f[n - 1]
    <3>1. CASE n = 0
      BY <3>1, <2>3 DEF Loop
    <3>2. CASE n \in 1..Len(s)
      <4>1. f[n] = NextKept(f[n - 1], s, I, n) /\ n # 0
        BY <3>2, <2>4
      <4> QED  BY <4>1 DEF NextKept
    <3> QED  BY <3>1, <3>2
  <2>7. Rec(f)
    BY <2>5, <2>6
  <2> QED  BY <2>7
<1>2. Kept(s, I) = CHOOSE f : Rec(f)
  BY DEF Kept
<1>3. Rec(Kept(s, I))
  <2> HIDE DEF Rec
  <2> QED  BY <1>1, <1>2
<1>4. \A n \in 0..Len(s) : Kept(s, I)[n] =
        IF n = 0 THEN <<>> ELSE NextKept(Kept(s, I)[n - 1], s, I, n)
  <2> TAKE n \in 0..Len(s)
  <2> QED  BY <1>3 DEF NextKept
<1> HIDE DEF Rec
<1>5. 0 \in 0..Len(s) /\ \A n \in 1..Len(s) : n \in 0..Len(s) /\ n # 0
  OBVIOUS
<1> QED  BY <1>4, <1>5

\* How many of the first n entries are wanted.
Rank(I, n) == Cardinality(I \cap (1..n))

LEMMA RankStep ==
  ASSUME NEW I, NEW n \in Nat
  PROVE  /\ Rank(I, n) \in Nat /\ Rank(I, 0) = 0
         /\ Rank(I, n + 1) = IF n + 1 \in I THEN Rank(I, n) + 1 ELSE Rank(I, n)
<1>1. IsFiniteSet(1..n) /\ I \cap (1..n) \in SUBSET (1..n)
  BY FS_Interval
<1>2. IsFiniteSet(I \cap (1..n))
  BY <1>1, FS_Subset
<1>3. I \cap (1..(n + 1)) = IF n + 1 \in I THEN (I \cap (1..n)) \cup {n + 1} ELSE I \cap (1..n)
  OBVIOUS
<1>4. I \cap (1..0) = {} /\ n + 1 \notin I \cap (1..n)
  OBVIOUS
<1>5. Rank(I, n) \in Nat
  BY <1>2, FS_CardinalityType DEF Rank
<1>6. Rank(I, 0) = 0
  BY <1>4, FS_EmptySet DEF Rank
<1>7. Cardinality((I \cap (1..n)) \cup {n + 1}) = Cardinality(I \cap (1..n)) + 1
  BY <1>2, <1>4, FS_AddElement
<1> QED  BY <1>3, <1>5, <1>6, <1>7 DEF Rank

(***************************************************************************)
(* After n entries what is kept are the wanted ones among them, each at    *)
(* the place its rank gives it.                                            *)
(***************************************************************************)
KeptUpTo(s, I, n) ==
  LET kept == Kept(s, I)[n]
  IN  /\ Len(kept) = Rank(I, n)
      /\ \A m \in 1..n : m \in I => Rank(I, m) \in 1..Len(kept) /\ kept[Rank(I, m)] = s[m]
      /\ \A k \in 1..Len(kept) : \E m \in 1..n : m \in I /\ Rank(I, m) = k

LEMMA KeptWanted ==
  ASSUME NEW S, NEW s \in Seq(S), NEW I, NEW n \in 0..Len(s)
  PROVE  Kept(s, I)[n] \in Seq(S) /\ KeptUpTo(s, I, n)
<1> DEFINE P(m) == Kept(s, I)[m] \in Seq(S) /\ KeptUpTo(s, I, m)
           T == {m \in Nat : m <= Len(s) => P(m)}
<1>1. 0 \in T
  <2>1. Kept(s, I)[0] = <<>> /\ Rank(I, 0) = 0
    BY KeptLoop, RankStep
  <2>2. KeptUpTo(s, I, 0)
    BY <2>1 DEF KeptUpTo
  <2>3. P(0)
    BY <2>1, <2>2
  <2> HIDE DEF P
  <2> QED  BY <2>3
<1>2. ASSUME NEW m \in T PROVE m + 1 \in T
  <2>1. m \in Nat
    OBVIOUS
  <2> SUFFICES ASSUME m + 1 <= Len(s) PROVE P(m + 1)
    BY <2>1
  <2> DEFINE old == Kept(s, I)[m]
             new == Kept(s, I)[m + 1]
  <2>2. old \in Seq(S) /\ KeptUpTo(s, I, m) /\ s[m + 1] \in S
    BY <2>1
  <2>3. new = NextKept(old, s, I, m + 1)
    BY KeptLoop, <2>1, m + 1 \in 1..Len(s), (m + 1) - 1 = m
  <2>4. Rank(I, m) \in Nat /\ Rank(I, m + 1) = IF m + 1 \in I THEN Rank(I, m) + 1 ELSE Rank(I, m)
    BY RankStep, <2>1
  <2>5. CASE m + 1 \notin I
    <3>1. new = old
      BY <2>3, <2>5 DEF NextKept
    <3>2. \A k \in 1..(m + 1) : k \in I => k \in 1..m
      BY <2>1, <2>5
    <3> QED  BY <3>1, <3>2, <2>1, <2>2, <2>4, <2>5 DEF KeptUpTo
  <2>6. CASE m + 1 \in I
    <3>1. new = Append(old, s[m + 1])
      BY <2>3, <2>6 DEF NextKept
    <3>2. /\ new \in Seq(S) /\ Len(new) = Len(old) + 1 /\ Len(old) = Rank(I, m)
          /\ \A k \in 1..Len(old) : new[k] = old[k]
          /\ new[Len(old) + 1] = s[m + 1]
      <4> HIDE DEF old, new
      <4> QED  BY <3>1, <2>2, AppendProperties DEF KeptUpTo, old
    <3>3. ASSUME NEW k \in 1..(m + 1), k \in I
          PROVE  Rank(I, k) \in 1..Len(new) /\ new[Rank(I, k)] = s[k]
      <4>1. CASE k = m + 1
        BY <4>1, <3>2, <2>4, <2>6
      <4>2. CASE k \in 1..m
        <5>1. Rank(I, k) \in 1..Len(old) /\ old[Rank(I, k)] = s[k]
          BY <4>2, <3>3, <2>2 DEF KeptUpTo
        <5> QED  BY <5>1, <3>2, <2>4
      <4> QED  BY <4>1, <4>2, <2>1
    <3>4. ASSUME NEW k \in 1..Len(new)
          PROVE  \E x \in 1..(m + 1) : x \in I /\ Rank(I, x) = k
      <4>1. CASE k = Len(new)
        BY <4>1, <3>2, <2>4, <2>6, <2>1
      <4>2. CASE k \in 1..Len(old)
        <5>1. PICK x \in 1..m : x \in I /\ Rank(I, x) = k
          BY <4>2, <2>2 DEF KeptUpTo
        <5> QED  BY <5>1, <2>1
      <4> QED  BY <4>1, <4>2, <3>2, <2>4
    <3> QED  BY <3>2, <3>3, <3>4, <2>4, <2>6 DEF KeptUpTo
  <2> QED  BY <2>5, <2>6
<1>3. T \in SUBSET Nat /\ n \in Nat /\ n <= Len(s)
  OBVIOUS
<1>4. n \in T
  <2> HIDE DEF T
  <2> QED  BY <1>1, <1>2, <1>3, NaturalInduction
<1> QED  BY <1>3, <1>4

(***************************************************************************)
(* The entries of a directory that are not hidden are lists with a name of *)
(* their own, and there is room for all of them.                           *)
(***************************************************************************)
LEMMA VisibleType ==
  ASSUME NEW dir \in Directories
  PROVE  /\ Visible(dir) \in Seq(Entries) /\ Len(Visible(dir)) \in 0..MAX_MUSIC_LIST
         /\ \A k \in 1..Len(Visible(dir)) : Visible(dir)[k] \in Entries
         /\ \A k, l \in 1..Len(Visible(dir)) :
              Visible(dir)[k].name = Visible(dir)[l].name => k = l
<1> DEFINE I == {k \in DOMAIN dir : ~dir[k].hidden}
<1>1. /\ dir \in Seq(Entries) /\ Len(Visible(dir)) <= MAX_MUSIC_LIST
      /\ \A k, l \in DOMAIN dir : dir[k].name = dir[l].name => k = l
  BY DirectoriesAssumption
<1>2. Visible(dir) = Kept(dir, I)[Len(dir)]
  BY DEF Visible
<1> HIDE DEF I
<1>3. Visible(dir) \in Seq(Entries) /\ KeptUpTo(dir, I, Len(dir))
  BY <1>1, <1>2, KeptWanted
<1>4. \A k \in 1..Len(Visible(dir)) : Visible(dir)[k] \in Entries
  BY <1>3
<1>5. ASSUME NEW k \in 1..Len(Visible(dir)), NEW l \in 1..Len(Visible(dir)),
             Visible(dir)[k].name = Visible(dir)[l].name
      PROVE  k = l
  <2>1. PICK m \in 1..Len(dir) : m \in I /\ Rank(I, m) = k
    BY <1>2, <1>3 DEF KeptUpTo
  <2>2. PICK n \in 1..Len(dir) : n \in I /\ Rank(I, n) = l
    BY <1>2, <1>3 DEF KeptUpTo
  <2>3. Visible(dir)[k] = dir[m] /\ Visible(dir)[l] = dir[n]
    BY <1>2, <1>3, <2>1, <2>2 DEF KeptUpTo
  <2>4. m = n
    BY <2>3, <1>1, <1>5
  <2> QED  BY <2>1, <2>2, <2>4
<1> QED  BY <1>1, <1>3, <1>4, <1>5, MaxAssumption

(***************************************************************************)
(* What is read from the directory of a list are its .mp3 files.           *)
(***************************************************************************)
LEMMA Mp3FilesOf ==
  ASSUME NEW entry \in Entries
  PROVE  Mp3Files(entry) \in Seq(Nat) /\ FilesOf(Mp3Files(entry), entry)
<1> DEFINE I == Mp3At(entry)
           mp3 == Kept(entry.files, I)[Len(entry.files)]
           File == [num : Nat \ {Blank}, mp3 : BOOLEAN]
<1>1. entry.files \in Seq(File)
  BY DEF Entries
<1>2. Mp3Files(entry) = [k \in DOMAIN mp3 |-> mp3[k].num]
  BY DEF Mp3Files, Mp3At
<1>3. I \cap (1..Len(entry.files)) = I /\ I \subseteq 1..Len(entry.files)
  BY <1>1 DEF Mp3At
<1> HIDE DEF I
<1>4. mp3 \in Seq(File) /\ KeptUpTo(entry.files, I, Len(entry.files))
  BY <1>1, KeptWanted
<1>5. Len(mp3) = Cardinality(I)
  BY <1>3, <1>4 DEF KeptUpTo, Rank
<1>6. /\ Mp3Files(entry) \in Seq(Nat) /\ Len(Mp3Files(entry)) = Len(mp3)
      /\ DOMAIN Mp3Files(entry) = 1..Len(mp3)
      /\ \A k \in 1..Len(mp3) : Mp3Files(entry)[k] = mp3[k].num
  <2> HIDE DEF mp3
  <2>1. \A k \in 1..Len(mp3) : mp3[k] \in File
    <3> HIDE DEF File
    <3> QED  BY <1>4
  <2>2. \A k \in 1..Len(mp3) : mp3[k].num \in Nat
    BY <2>1
  <2>3. Len(mp3) \in Nat /\ DOMAIN mp3 = 1..Len(mp3)
    <3> HIDE DEF File
    <3> QED  BY <1>4
  <2> QED  BY <1>2, <2>2, <2>3
<1>7. ASSUME NEW k \in 1..Len(mp3) PROVE \E m \in I : mp3[k].num = entry.files[m].num
  <2>1. PICK m \in 1..Len(entry.files) : m \in I /\ Rank(I, m) = k
    BY <1>4 DEF KeptUpTo
  <2>2. mp3[k] = entry.files[m]
    BY <2>1, <1>4 DEF KeptUpTo
  <2> QED  BY <2>1, <2>2
<1>8. ASSUME NEW m \in I PROVE \E k \in 1..Len(mp3) : mp3[k].num = entry.files[m].num
  <2>1. Rank(I, m) \in 1..Len(mp3) /\ mp3[Rank(I, m)] = entry.files[m]
    BY <1>3, <1>4 DEF KeptUpTo
  <2> QED  BY <2>1
<1> HIDE DEF mp3
<1>9. {Mp3Files(entry)[k] : k \in DOMAIN Mp3Files(entry)} = {entry.files[k].num : k \in I}
  <2> DEFINE read == Mp3Files(entry)
             onDisk == entry.files
  <2>1. \A k \in 1..Len(mp3) : \E m \in I : read[k] = onDisk[m].num
    BY <1>6, <1>7
  <2>2. \A m \in I : \E k \in 1..Len(mp3) : read[k] = onDisk[m].num
    BY <1>6, <1>8
  <2>3. DOMAIN read = 1..Len(mp3)
    BY <1>6
  <2> HIDE DEF read, onDisk
  <2>4. {read[k] : k \in DOMAIN read} = {onDisk[k].num : k \in I}
    BY <2>1, <2>2, <2>3
  <2> QED  BY <2>4 DEF read, onDisk
<1> QED  BY <1>5, <1>6, <1>9 DEF FilesOf, Contents, I

-----------------------------------------------------------------------------
(***************************************************************************)
(* Types.                                                                  *)
(***************************************************************************)
LEMMA FirstFileType == \A list \in MusicList : FirstFile(list) \in Nat
BY DEF FirstFile, MusicList, Blank

LEMMA RowOfType ==
  ASSUME TypeOK, NEW l \in Lines
  PROVE  RowOf(l) \in Row
<1>1. \A n \in Nat, part \in Parts : Atoi(n, part) \in Nat
  <2> TAKE n \in Nat, part \in Parts
  <2>1. tails[part] \in (0..9) \cup {NoDigit}
    BY TailsAssumption DEF TypeOK
  <2> QED  BY <2>1 DEF Atoi, NoDigit
<1> QED  BY <1>1 DEF RowOf, Lines, Row, Time, Parts

(***************************************************************************)
(* Comparing the files at k and k + 1 and swapping them if they are out of *)
(* order keeps the files and puts the greater one at k + 1.                *)
(***************************************************************************)
LEMMA Compared ==
  ASSUME NEW files \in Seq(Nat), NEW k \in 1..(Len(files) - 1), NEW new,
         new = IF files[k] > files[k + 1] THEN Swapped(files, k) ELSE files
  PROVE  /\ new \in Seq(Nat) /\ Len(new) = Len(files)
         /\ new[k] <= new[k + 1] /\ files[k] <= new[k + 1]
         /\ \/ new[k] = files[k] /\ new[k + 1] = files[k + 1]
            \/ new[k] = files[k + 1] /\ new[k + 1] = files[k]
         /\ \A l \in 1..Len(files) : l # k /\ l # k + 1 => new[l] = files[l]
         /\ Contents(new) = Contents(files)
<1>1. Len(files) \in Nat /\ k + 1 \in 1..Len(files) /\ k \in 1..Len(files) /\ k # k + 1
  OBVIOUS
<1>2. /\ Swapped(files, k) \in Seq(Nat) /\ Len(Swapped(files, k)) = Len(files)
      /\ \A l \in 1..Len(files) :
           Swapped(files, k)[l] = IF l = k + 1 THEN files[k]
                                  ELSE IF l = k THEN files[k + 1] ELSE files[l]
  BY <1>1 DEF Swapped
<1>3. files[k] \in Nat /\ files[k + 1] \in Nat
  BY <1>1
<1>4. /\ new \in Seq(Nat) /\ Len(new) = Len(files)
      /\ new[k] <= new[k + 1] /\ files[k] <= new[k + 1]
      /\ \/ new[k] = files[k] /\ new[k + 1] = files[k + 1]
         \/ new[k] = files[k + 1] /\ new[k + 1] = files[k]
      /\ \A l \in 1..Len(files) : l # k /\ l # k + 1 => new[l] = files[l]
  BY <1>1, <1>2, <1>3
<1>5. DOMAIN new = 1..Len(files) /\ DOMAIN files = 1..Len(files)
  BY <1>4
<1>6. \A l \in DOMAIN files : \E m \in DOMAIN new : new[m] = files[l]
  BY <1>1, <1>4, <1>5
<1>7. \A l \in DOMAIN new : \E m \in DOMAIN files : files[m] = new[l]
  BY <1>1, <1>4, <1>5
<1>8. Contents(new) = Contents(files)
  BY <1>6, <1>7 DEF Contents
<1> QED  BY <1>4, <1>8

LEMMA InitInv == Init => IInv
<1> SUFFICES ASSUME Init PROVE IInv
  OBVIOUS
<1>1. /\ Len(Visible(directory)) \in 0..MAX_MUSIC_LIST /\ Names(directory) \subseteq Nat
      /\ \A n \in Numbers : n \in Int /\ n >= 0
  <2>1. \A dir \in Directories : dir \in Seq(Entries)
    BY DirectoriesAssumption
  <2>2. directory \in Directories
    BY DEF Init
  <2>3. \A k \in DOMAIN directory : directory[k] \in Entries
    BY <2>1, <2>2
  <2>4. Names(directory) \subseteq Nat
    BY <2>3 DEF Names, Entries
  <2> QED  BY <2>2, <2>4, VisibleType, MaxAssumption DEF Numbers
<1>2. TypeOK
  <2>1. /\ NoList \in MusicList /\ NoMusic \in [listname : Nat, filename : Nat]
        /\ ZeroRow \in Row /\ 0 \in Numbers
    BY MaxAssumption DEF NoList, NoMusic, MusicList, Blank, Row, ZeroRow, Time, Numbers
  <2>2. conf \in Saved
    BY <1>1 DEF Init, Saved
  <2> QED  BY <2>1, <2>2, MaxAssumption, StacksAssumption, BudgetsAssumption
           DEF Init, TypeOK, Saved, Missing, Blank
<1>3. ListInv /\ SortInv
  BY <1>1 DEF Init, ListInv, SortInv, Starting, Dirs
<1>4. PadInv
  BY <1>1 DEF Init, PadInv, Storing, Shows, Dirs
<1>5. CurrentInv /\ ChoiceInv
  BY <1>1 DEF Init, CurrentInv, ChoiceInv, Names, Missing
<1>6. SchInv
  BY SchConfsAssumption DEF Init, SchInv, WDay
<1> QED  BY <1>2, <1>3, <1>4, <1>5, <1>6 DEF IInv

LEMMA NextTypeOK == IInv /\ [Next]_vars => TypeOK'
<1> SUFFICES ASSUME IInv, [Next]_vars PROVE TypeOK'
  OBVIOUS
<1>0. TypeOK /\ ListInv /\ PadInv
  BY DEF IInv
<1> USE <1>0 DEF vars, diskVars, listVars, loopVars, pickVars, padVars, schVars, history
<1>a. /\ Dirs \in Seq(Entries) /\ Len(Dirs) \in 0..MAX_MUSIC_LIST
      /\ \A k \in 1..Len(Dirs) : Dirs[k] \in Entries
  BY VisibleType DEF Dirs, TypeOK
<1>b. /\ MAX_MUSIC_LIST \in Nat /\ DAYS \in Nat /\ 0 \in Numbers
      /\ \A n \in Nat : n \in Numbers <=> n < MAX_MUSIC_LIST
  BY MaxAssumption DEF Numbers
<1>c. /\ tmp_music_list \in Seq(MusicList) /\ g_music_list \in [Numbers -> MusicList]
      /\ cnt \in 0..MAX_MUSIC_LIST /\ g_music_list_cnt \in 0..MAX_MUSIC_LIST
      /\ i \in Nat /\ j \in Nat /\ padNum \in 0..MAX_MUSIC_LIST /\ answer \in Seq(Nat)
  BY DEF TypeOK
<1>1. CASE eggm_io_read_music_list
  <2>1. /\ tmp_music_list' = [k \in 1..Len(Dirs) |-> [name |-> Dirs[k].name, files |-> Mp3Files(Dirs[k])]]
    BY <1>1, <1>a DEF eggm_io_read_music_list, Dirs
  <2>2. \A k \in 1..Len(Dirs) : [name |-> Dirs[k].name, files |-> Mp3Files(Dirs[k])] \in MusicList
    BY <1>a, Mp3FilesOf DEF Entries, MusicList
  <2>3. tmp_music_list' \in Seq(MusicList)
    BY <2>1, <2>2, <1>a
  <2> QED  BY <1>1, <2>3 DEF eggm_io_read_music_list, TypeOK
<1>2. CASE add_music_list
  <2>1. CASE cnt < Len(tmp_music_list)
    <3>1. tmp_music_list[cnt + 1] \in MusicList /\ cnt + 1 \in 0..MAX_MUSIC_LIST
      <4>1. Len(tmp_music_list) = Len(Dirs)
        BY <1>2 DEF ListInv, add_music_list
      <4> QED  BY <4>1, <2>1, <1>a, <1>c, <1>b
    <3>2. g_music_list' \in [Numbers -> MusicList] /\ g_music_list_cnt' \in 0..MAX_MUSIC_LIST
      BY <3>1, <2>1, <1>2, <1>b, <1>c DEF add_music_list
    <3> QED  BY <3>1, <3>2, <2>1, <1>2 DEF TypeOK, add_music_list
  <2>2. CASE cnt = Len(tmp_music_list)
    BY <2>2, <1>2, MaxAssumption DEF TypeOK, add_music_list
  <2> QED  BY <2>1, <2>2, <1>2 DEF add_music_list
<1>3. CASE sort_music_list
  <2>1. CASE cnt < g_music_list_cnt /\ (NextList \/ NextPass)
    <3>1. cnt' \in 0..MAX_MUSIC_LIST /\ i' \in Nat /\ j' \in Nat
      BY <2>1, <1>b, <1>c DEF NextList, NextPass
    <3>2. g_music_list' = g_music_list /\ pc' = pc
      BY <2>1, <1>c, <1>3 DEF NextList, NextPass, sort_music_list
    <3> QED  BY <3>1, <3>2, <1>3 DEF TypeOK, sort_music_list
  <2>2. CASE cnt < g_music_list_cnt /\ ComparePair
    <3>1. cnt \in Numbers /\ Files \in Seq(Nat) /\ j + 1 \in 1..(Len(Files) - 1)
      <4>1. cnt \in Numbers
        BY <2>2, <1>b, <1>c
      <4>2. Files \in Seq(Nat)
        BY <4>1, <1>c DEF Files, MusicList
      <4>3. j < Len(Files) - 1 - i /\ Len(Files) \in Nat
        BY <4>2, <2>2 DEF ComparePair
      <4> QED  BY <4>1, <4>2, <4>3, <1>c
    <3> DEFINE new == IF Files[j + 1] > Files[j + 2] THEN Swapped(Files, j + 1) ELSE Files
    <3>2. new \in Seq(Nat)
      BY <3>1, Compared, (j + 1) + 1 = j + 2 DEF TypeOK
    <3>3. g_music_list' \in [Numbers -> MusicList]
      BY <3>1, <3>2, <2>2 DEF TypeOK, ComparePair, MusicList, Files
    <3>4. cnt' = cnt /\ i' = i /\ j' \in Nat /\ pc' = pc
      BY <2>2, <1>c, <1>3 DEF sort_music_list, ComparePair
    <3> QED  BY <3>3, <3>4, <1>3 DEF TypeOK, sort_music_list
  <2>3. CASE cnt >= g_music_list_cnt
    BY <2>3, <1>3 DEF TypeOK, sort_music_list, NextList, NextPass, ComparePair
  <2> QED  BY <2>1, <2>2, <2>3, <1>3 DEF sort_music_list
<1>4. CASE eggm_io_read_selected_music_list
  BY <1>4, MaxAssumption
     DEF TypeOK, eggm_io_read_selected_music_list, Numbers, Saved, Missing
<1>5. CASE get_play_list_num_by_name
  BY <1>5, MaxAssumption DEF TypeOK, get_play_list_num_by_name, Numbers, Found
<1>6. CASE FetchList
  BY <1>6 DEF TypeOK, FetchList
<1>7. CASE SetCurMusic
  BY <1>7, FirstFileType DEF TypeOK, SetCurMusic, MusicList
<1>8. CASE make_music_list_packet
  <2>1. CASE Len(answer) < padNum
    <3>1. Len(answer) \in Numbers
      BY <2>1, <1>b, <1>c
    <3>2. answer' \in Seq(Nat)
      <4>1. answer' = Append(answer, g_music_list[Len(answer)].name)
        BY <2>1, <1>8, <1>c DEF make_music_list_packet
      <4>2. g_music_list[Len(answer)].name \in Nat
        BY <3>1, <1>c DEF MusicList
      <4> QED  BY <4>1, <4>2, <1>c
    <3> QED  BY <3>2, <2>1, <1>8 DEF TypeOK, make_music_list_packet
  <2>2. CASE Len(answer) >= padNum
    BY <2>2, <1>8 DEF TypeOK, make_music_list_packet
  <2> QED  BY <2>1, <2>2, <1>8 DEF make_music_list_packet
<1>9. CASE get_music_list_by_num
  BY <1>9 DEF TypeOK, get_music_list_by_num, PadInv
<1>10. CASE PadSetCurMusic
  BY <1>10, FirstFileType DEF TypeOK, PadSetCurMusic, MusicList
<1>11. CASE PadTruncate
  BY <1>11 DEF TypeOK, PadTruncate, Saved
<1>12. CASE eggm_io_write_selected_music_list
  BY <1>12 DEF TypeOK, eggm_io_write_selected_music_list, MusicList, Saved
<1>13. CASE eggm_io_read_sch_conf
  <2>1. CASE line < Len(schConf)
    <3>1. schConf[line + 1] \in Lines
      BY <2>1, SchConfsAssumption DEF TypeOK
    <3>2. RowOf(schConf[line + 1]) \in Row
      BY <3>1, RowOfType
    <3>3. sch' \in [WDay -> Row]
      BY <3>2, <2>1, <1>13 DEF TypeOK, eggm_io_read_sch_conf
    <3> QED  BY <3>3, <2>1, <1>13 DEF TypeOK, eggm_io_read_sch_conf
  <2>2. CASE line = Len(schConf)
    BY <2>2, <1>13 DEF TypeOK, eggm_io_read_sch_conf
  <2> QED  BY <2>1, <2>2, <1>13 DEF eggm_io_read_sch_conf
<1>14. CASE set_schedule_data_by_wday
  <2>1. g_eggm_week_schedule' \in [WDay -> Row] /\ day' \in 0..DAYS
    BY <1>14, MaxAssumption DEF TypeOK, set_schedule_data_by_wday, WDay
  <2> QED  BY <2>1, <1>14 DEF TypeOK, set_schedule_data_by_wday
<1>15. CASE get_music_list_cnt
  BY <1>15 DEF TypeOK, get_music_list_cnt, Spend, Disturbances
<1>16. CASE \E n \in Numbers : change_cur_music_list(n)
  BY <1>16, MaxAssumption DEF TypeOK, change_cur_music_list, Spend, Numbers, Disturbances
<1>17. CASE Restart
  <2>1. budget' \in [Disturbances -> Nat]
    BY <1>17 DEF TypeOK, Restart, Spend, Disturbances
  <2>2. /\ NoList \in MusicList /\ NoMusic \in [listname : Nat, filename : Nat]
        /\ ZeroRow \in Row /\ 0 \in Numbers
    BY MaxAssumption DEF NoList, NoMusic, MusicList, Blank, Row, ZeroRow, Time, Numbers
  <2>3. /\ g_music_list' \in [Numbers -> MusicList] /\ g_music_list_cnt' \in 0..MAX_MUSIC_LIST
        /\ g_eggm_week_schedule' \in [WDay -> Row] /\ sch' \in [WDay -> Row]
    BY <2>2, <1>17, <1>b, StacksAssumption DEF Restart
  <2>4. /\ tmp_music_list' \in Seq(MusicList) /\ cnt' \in 0..MAX_MUSIC_LIST
        /\ i' \in Nat /\ j' \in Nat /\ name' \in Saved /\ num' \in Numbers
        /\ padNum' \in 0..MAX_MUSIC_LIST /\ padName' \in Nat /\ answer' \in Seq(Nat)
        /\ shown' \in Seq(Nat) /\ line' \in Nat /\ day' \in 0..DAYS /\ expected' \in Saved
    BY <2>2, <1>17, <1>b DEF Restart, Saved, Blank
  <2> QED  BY <2>1, <2>2, <2>3, <2>4, <1>17 DEF TypeOK, Restart
<1>18. CASE UNCHANGED vars
  BY <1>18 DEF TypeOK
<1> QED
  BY <1>1, <1>2, <1>3, <1>4, <1>5, <1>6, <1>7, <1>8, <1>9, <1>10, <1>11, <1>12, <1>13, <1>14,
     <1>15, <1>16, <1>17, <1>18
     DEF Next, music_mgr_task, pad_mgr_task, schedule_mgr_task

-----------------------------------------------------------------------------
(***************************************************************************)
(* What each thread leaves alone.                                          *)
(***************************************************************************)
OtherThreads ==
  \/ pad_mgr_task \/ schedule_mgr_task
  \/ get_music_list_cnt \/ \E n \in Numbers : change_cur_music_list(n)
  \/ UNCHANGED vars

LEMMA NextCases == [Next]_vars <=> music_mgr_task \/ OtherThreads \/ Restart
BY DEF Next, OtherThreads

LEMMA OtherThreadsKeep ==
  OtherThreads => UNCHANGED <<directory, listVars, pc, loopVars, pickVars, expected>>
BY DEF OtherThreads, pad_mgr_task, schedule_mgr_task, get_music_list_cnt, change_cur_music_list,
       make_music_list_packet, get_music_list_by_num, PadSetCurMusic, PadTruncate,
       eggm_io_write_selected_music_list, eggm_io_read_sch_conf, set_schedule_data_by_wday,
       vars, diskVars, listVars, loopVars, pickVars, padVars, schVars, history

LEMMA MusicTaskKeeps ==
  music_mgr_task => UNCHANGED <<diskVars, padVars, schVars, shown, chosen, intact>>
BY DEF music_mgr_task, eggm_io_read_music_list, add_music_list, sort_music_list,
       eggm_io_read_selected_music_list, get_play_list_num_by_name, FetchList, SetCurMusic,
       history

\* Once the lists are in order the task does not touch them.
Choosing ==
  \/ eggm_io_read_selected_music_list \/ get_play_list_num_by_name \/ FetchList \/ SetCurMusic

LEMMA ChoosingKeeps ==
  Choosing => /\ pc \notin {"read", "add", "sort"} /\ pc' \notin {"read", "add", "sort"}
              /\ UNCHANGED <<directory, listVars, loopVars>>
BY DEF Choosing, eggm_io_read_selected_music_list, get_play_list_num_by_name, FetchList,
       SetCurMusic, diskVars

-----------------------------------------------------------------------------
(***************************************************************************)
(* The lists.                                                              *)
(***************************************************************************)
\* What TypeOK says of the lists, and of the loops over them.
LEMMA ListTypes ==
  ASSUME TypeOK
  PROVE  /\ Dirs \in Seq(Entries) /\ Len(Dirs) \in 0..MAX_MUSIC_LIST
         /\ \A k \in 1..Len(Dirs) : Dirs[k] \in Entries
         /\ MAX_MUSIC_LIST \in Nat /\ 0 \in Numbers
         /\ \A n \in Nat : n \in Numbers <=> n < MAX_MUSIC_LIST
         /\ \A n \in Numbers : n \in Nat
         /\ tmp_music_list \in Seq(MusicList) /\ g_music_list \in [Numbers -> MusicList]
         /\ cnt \in 0..MAX_MUSIC_LIST /\ g_music_list_cnt \in 0..MAX_MUSIC_LIST
         /\ i \in Nat /\ j \in Nat
<1>1. /\ Dirs \in Seq(Entries) /\ Len(Dirs) \in 0..MAX_MUSIC_LIST
      /\ \A k \in 1..Len(Dirs) : Dirs[k] \in Entries
  BY VisibleType DEF Dirs, TypeOK
<1>2. /\ MAX_MUSIC_LIST \in Nat /\ 0 \in Numbers /\ \A n \in Numbers : n \in Nat
      /\ \A n \in Nat : n \in Numbers <=> n < MAX_MUSIC_LIST
  BY MaxAssumption DEF Numbers
<1> QED  BY <1>1, <1>2 DEF TypeOK

(***************************************************************************)
(* A comparison of sort_music_list: one list changes, and that to its      *)
(* files after the comparison.                                             *)
(***************************************************************************)
LEMMA ComparePairStep ==
  ASSUME TypeOK, cnt < g_music_list_cnt, ComparePair
  PROVE  /\ cnt \in Numbers /\ Files \in Seq(Nat) /\ j + 1 \in 1..(Len(Files) - 1)
         /\ cnt' = cnt /\ i' = i /\ j' = j + 1
         /\ \E new \in Seq(Nat) :
              /\ new = IF Files[j + 1] > Files[(j + 1) + 1] THEN Swapped(Files, j + 1) ELSE Files
              /\ g_music_list' = [g_music_list EXCEPT ![cnt].files = new]
              /\ g_music_list'[cnt].files = new /\ g_music_list'[cnt].name = g_music_list[cnt].name
              /\ \A n \in Numbers : n # cnt => g_music_list'[n] = g_music_list[n]
<1>1. cnt \in Numbers
  BY ListTypes
<1>2. Files \in Seq(Nat) /\ g_music_list[cnt] \in MusicList
  BY <1>1, ListTypes DEF Files, MusicList
<1>3. j < Len(Files) - 1 - i /\ Len(Files) \in Nat
  BY <1>2 DEF ComparePair
<1>4. j + 1 \in 1..(Len(Files) - 1) /\ (j + 1) + 1 = j + 2
  BY <1>2, <1>3, ListTypes
<1> DEFINE new == IF Files[j + 1] > Files[j + 2] THEN Swapped(Files, j + 1) ELSE Files
<1>5. new \in Seq(Nat)
  BY <1>2, <1>4, Compared
<1>6. g_music_list' = [g_music_list EXCEPT ![cnt].files = new]
  BY <1>1, <1>2, ListTypes DEF ComparePair, Files, MusicList
<1> HIDE DEF new
<1>7. /\ g_music_list'[cnt].files = new /\ g_music_list'[cnt].name = g_music_list[cnt].name
      /\ \A n \in Numbers : n # cnt => g_music_list'[n] = g_music_list[n]
  BY <1>1, <1>2, <1>6, ListTypes DEF MusicList
<1> QED  BY <1>1, <1>2, <1>4, <1>5, <1>6, <1>7 DEF ComparePair, new

LEMMA NextListInv == IInv /\ [Next]_vars => ListInv'
<1> SUFFICES ASSUME IInv, [Next]_vars PROVE ListInv'
  OBVIOUS
<1>0. TypeOK /\ ListInv
  BY DEF IInv
<1>a. directory' = directory => Dirs' = Dirs
  BY DEF Dirs
<1>1. CASE eggm_io_read_music_list
  <2>1. Dirs' = Dirs
    BY <1>1, <1>a DEF eggm_io_read_music_list, diskVars
  <2>2. tmp_music_list' = [k \in 1..Len(Dirs) |-> [name |-> Dirs[k].name, files |-> Mp3Files(Dirs[k])]]
    BY <1>1, <1>0, ListTypes DEF eggm_io_read_music_list, Dirs
  <2>3. ASSUME NEW k \in 1..Len(Dirs)
        PROVE  ListFor([name |-> Dirs[k].name, files |-> Mp3Files(Dirs[k])], Dirs[k])
    BY Mp3FilesOf, <1>0, ListTypes DEF ListFor
  <2>4. /\ Len(tmp_music_list') = Len(Dirs)
        /\ \A k \in 1..Len(Dirs) : ListFor(tmp_music_list'[k], Dirs[k])
    <3>1. Len(Dirs) \in Nat
      BY <1>0, ListTypes
    <3> QED  BY <2>2, <2>3, <3>1
  <2>5. pc = "read" /\ pc' = "add" /\ UNCHANGED <<g_music_list, g_music_list_cnt, cnt, i, j>>
    BY <1>1 DEF eggm_io_read_music_list, listVars
  <2> QED  BY <2>1, <2>4, <2>5, <1>0 DEF ListInv
<1>2. CASE add_music_list
  <2>1. Dirs' = Dirs
    BY <1>2, <1>a DEF add_music_list, diskVars
  <2>2. pc = "add" /\ UNCHANGED <<tmp_music_list, i, j>>
    BY <1>2 DEF add_music_list
  <2>3. Len(tmp_music_list) = Len(Dirs) /\ cnt = g_music_list_cnt
    BY <1>0, <2>2 DEF ListInv
  <2>4. CASE cnt < Len(tmp_music_list)
    <3>1. g_music_list_cnt < MAX_MUSIC_LIST /\ g_music_list_cnt \in Numbers
      BY <2>3, <2>4, <1>0, ListTypes
    <3>2. /\ g_music_list' = [g_music_list EXCEPT ![g_music_list_cnt] = tmp_music_list[cnt + 1]]
          /\ g_music_list_cnt' = g_music_list_cnt + 1 /\ cnt' = cnt + 1 /\ pc' = pc
      BY <3>1, <2>4, <1>2, <1>0, ListTypes DEF add_music_list
    <3>3. ListFor(tmp_music_list[cnt + 1], Dirs[cnt + 1])
      BY <2>2, <2>3, <2>4, <1>0, ListTypes DEF ListInv
    <3>4. \A n \in Numbers : g_music_list'[n] = IF n = cnt THEN tmp_music_list[cnt + 1] ELSE g_music_list[n]
      BY <3>1, <3>2, <2>3, <1>0, ListTypes
    <3>5. \A n \in Numbers : IF n < cnt + 1 THEN ListFor(g_music_list'[n], Dirs[n + 1])
                                            ELSE g_music_list'[n] = NoList
      BY <3>3, <3>4, <2>3, <1>0, ListTypes DEF ListInv
    <3>6. cnt + 1 <= Len(Dirs)
      BY <2>3, <2>4, <1>0, ListTypes
    <3> QED  BY <3>2, <3>5, <3>6, <2>1, <2>2, <2>3, <1>0 DEF ListInv
  <2>5. CASE cnt = Len(tmp_music_list)
    <3>1. cnt' = 0 /\ pc' = "sort" /\ UNCHANGED <<g_music_list, g_music_list_cnt>>
      BY <2>5, <1>2, <1>0, ListTypes DEF add_music_list, listVars
    <3> QED  BY <3>1, <2>1, <2>2, <2>3, <2>5, <1>0 DEF ListInv
  <2> QED  BY <2>4, <2>5, <1>2 DEF add_music_list
<1>3. CASE sort_music_list
  <2>1. Dirs' = Dirs
    BY <1>3, <1>a DEF sort_music_list, diskVars
  <2>2. pc = "sort" /\ pc' \in {"sort", "conf"} /\ UNCHANGED <<tmp_music_list, g_music_list_cnt>>
    BY <1>3 DEF sort_music_list
  <2>3. CASE g_music_list' = g_music_list
    BY <2>1, <2>2, <2>3, <1>0 DEF ListInv
  <2>4. CASE cnt < g_music_list_cnt /\ ComparePair
    <3>1. PICK new \in Seq(Nat) :
            /\ new = IF Files[j + 1] > Files[(j + 1) + 1] THEN Swapped(Files, j + 1) ELSE Files
            /\ g_music_list'[cnt].files = new /\ g_music_list'[cnt].name = g_music_list[cnt].name
            /\ \A n \in Numbers : n # cnt => g_music_list'[n] = g_music_list[n]
      BY <2>4, <1>0, ComparePairStep
    <3>2. cnt \in Numbers /\ Files \in Seq(Nat) /\ j + 1 \in 1..(Len(Files) - 1)
      BY <2>4, <1>0, ComparePairStep
    <3>3. Len(new) = Len(Files) /\ Contents(new) = Contents(Files)
      BY <3>1, <3>2, Compared
    <3>4. ListFor(g_music_list[cnt], Dirs[cnt + 1])
      BY <3>2, <2>4, <1>0 DEF ListInv
    <3>5. ListFor(g_music_list'[cnt], Dirs[cnt + 1])
      BY <3>1, <3>3, <3>4 DEF ListFor, FilesOf, Files
    <3>6. \A n \in Numbers : IF n < g_music_list_cnt THEN ListFor(g_music_list'[n], Dirs[n + 1])
                                                     ELSE g_music_list'[n] = NoList
      BY <3>1, <3>2, <3>5, <2>4, <1>0 DEF ListInv
    <3> QED  BY <3>6, <2>1, <2>2, <1>0 DEF ListInv
  <2> QED  BY <2>3, <2>4, <1>3 DEF sort_music_list, NextList, NextPass
<1>4. CASE Choosing
  <2>1. Dirs' = Dirs
    BY <1>4, <1>a, ChoosingKeeps
  <2> QED  BY <2>1, <1>4, <1>0, ChoosingKeeps DEF ListInv, listVars
<1>5. CASE OtherThreads
  <2>1. Dirs' = Dirs
    BY <1>5, <1>a, OtherThreadsKeep
  <2> QED  BY <2>1, <1>5, <1>0, OtherThreadsKeep DEF ListInv, listVars, loopVars
<1>6. CASE Restart
  <2>1. directory' \in Directories
    BY <1>6 DEF Restart
  <2>2. Len(Dirs') \in Nat
    BY <2>1, VisibleType DEF Dirs
  <2>3. \A n \in Numbers : ~(n < 0)
    BY <1>0, ListTypes
  <2> QED  BY <2>2, <2>3, <1>6 DEF Restart, ListInv
<1> QED
  BY <1>1, <1>2, <1>3, <1>4, <1>5, <1>6, NextCases DEF music_mgr_task, Choosing

-----------------------------------------------------------------------------
(***************************************************************************)
(* The order of the files.                                                 *)
(***************************************************************************)
LEMMA PassesStart ==
  ASSUME NEW files \in Seq(Nat)
  PROVE  Passes(files, 0, 0)
BY DEF Passes

LEMMA PassesEnd ==
  ASSUME NEW files \in Seq(Nat), NEW a \in Nat, NEW b \in Nat, Passes(files, a, b),
         a >= Len(files) - 1
  PROVE  Ascending(files)
BY DEF Passes, Ascending

LEMMA PassesNextPass ==
  ASSUME NEW files \in Seq(Nat), NEW a \in Nat, NEW b \in Nat, Passes(files, a, b),
         a < Len(files) - 1, b >= Len(files) - 1 - a
  PROVE  Passes(files, a + 1, 0)
<1>1. b = Len(files) - 1 - a /\ Len(files) \in Nat
  BY DEF Passes
<1>2. ASSUME NEW k \in 1..Len(files), NEW l \in 1..Len(files), k < l, l > Len(files) - (a + 1)
      PROVE  files[k] <= files[l]
  <2>1. CASE l > Len(files) - a
    BY <2>1, <1>2 DEF Passes
  <2>2. CASE l = Len(files) - a
    BY <2>2, <1>1, <1>2 DEF Passes
  <2> QED  BY <2>1, <2>2, <1>1, <1>2
<1> QED  BY <1>1, <1>2 DEF Passes

LEMMA PassesCompare ==
  ASSUME NEW files \in Seq(Nat), NEW a \in Nat, NEW b \in Nat, Passes(files, a, b),
         a < Len(files) - 1, b < Len(files) - 1 - a, NEW c, c = b + 1, NEW new,
         new = IF files[c] > files[c + 1] THEN Swapped(files, c) ELSE files
  PROVE  Passes(new, a, c)
<1>1. c \in 1..(Len(files) - 1) /\ Len(files) \in Nat
  OBVIOUS
<1>2. /\ new \in Seq(Nat) /\ Len(new) = Len(files)
      /\ new[c] <= new[c + 1] /\ files[c] <= new[c + 1]
      /\ \/ new[c] = files[c] /\ new[c + 1] = files[c + 1]
         \/ new[c] = files[c + 1] /\ new[c + 1] = files[c]
      /\ \A l \in 1..Len(files) : l # c /\ l # c + 1 => new[l] = files[l]
  BY <1>1, Compared
<1>3. /\ \A l \in 1..Len(files) : files[l] \in Nat
      /\ \A l \in 1..Len(new) : new[l] \in Nat
  <2>1. \A t \in Seq(Nat) : \A l \in 1..Len(t) : t[l] \in Nat
    OBVIOUS
  <2> QED  BY <1>2, <2>1
<1>4. ASSUME NEW k \in 1..Len(files), NEW l \in 1..Len(files), k < l, l > Len(files) - a
      PROVE  new[k] <= new[l]
  <2>1. new[l] = files[l] /\ l > c + 1
    BY <1>1, <1>2, <1>4
  <2>2. \A m \in 1..Len(files) : m < l => files[m] <= files[l]
    BY <1>4 DEF Passes
  <2>3. c < l /\ c \in 1..Len(files) /\ c + 1 < l /\ c + 1 \in 1..Len(files)
    BY <2>1, <1>1
  <2>4. PICK m \in 1..Len(files) : new[k] = files[m] /\ m < l
    BY <2>3, <1>2, <1>4
  <2> QED  BY <2>1, <2>2, <2>4
<1>5. ASSUME NEW k \in 1..c
      PROVE  new[k] <= new[c + 1]
  <2>1. CASE k = c
    BY <2>1, <1>2
  <2>2. CASE k \in 1..b
    <3>1. c \in 1..Len(files) /\ c + 1 \in 1..Len(files) /\ k \in 1..Len(files)
      BY <2>2, <1>1
    <3>2. files[k] <= files[c] /\ new[k] = files[k]
      BY <3>1, <2>2, <1>1, <1>2 DEF Passes
    <3> DEFINE x == files[k]
               y == files[c]
               z == new[c + 1]
    <3>3. x \in Nat /\ y \in Nat
      BY <3>1, <1>3
    <3>4. z \in Nat
      BY <3>1, <1>2, <1>3
    <3>5. y <= z
      BY <1>2
    <3>6. x <= y /\ new[k] = x
      BY <3>2
    <3> HIDE DEF x, y, z
    <3>7. x <= z
      BY <3>3, <3>4, <3>5, <3>6
    <3> QED  BY <3>6, <3>7 DEF z
  <2> QED  BY <2>1, <2>2
<1>6. Len(new) = Len(files)
  BY <1>2
<1>7. a < Len(new) /\ c < Len(new) - a
  BY <1>6
<1>8. \A k, l \in 1..Len(new) : k < l /\ l > Len(new) - a => new[k] <= new[l]
  BY <1>4, <1>6
<1> QED  BY <1>5, <1>7, <1>8 DEF Passes

LEMMA NextSortInv == IInv /\ [Next]_vars => SortInv'
<1> SUFFICES ASSUME IInv, [Next]_vars PROVE SortInv'
  OBVIOUS
<1>0. TypeOK /\ ListInv /\ SortInv
  BY DEF IInv
<1>a. \A n \in Numbers : g_music_list[n].files \in Seq(Nat)
  BY <1>0, ListTypes DEF MusicList
<1>1. CASE eggm_io_read_music_list
  BY <1>1 DEF eggm_io_read_music_list, SortInv, Starting
<1>2. CASE add_music_list
  <2>1. CASE cnt < Len(tmp_music_list)
    BY <2>1, <1>2, <1>0, ListTypes DEF add_music_list, SortInv, Starting
  <2>2. CASE cnt = Len(tmp_music_list)
    <3>1. /\ cnt' = 0 /\ pc' = "sort" /\ i' = 0 /\ j' = 0
          /\ UNCHANGED <<g_music_list, g_music_list_cnt>>
      BY <2>2, <1>2, <1>0, ListTypes DEF add_music_list, listVars, ListInv
    <3>2. 0 < g_music_list_cnt => Passes(g_music_list[0].files, 0, 0)
      BY <1>a, <1>0, ListTypes, PassesStart
    <3>3. \A n \in Numbers : ~(n < 0)
      BY <1>0, ListTypes
    <3> QED  BY <3>1, <3>2, <3>3, <1>0, ListTypes DEF SortInv, Files, Starting
  <2> QED  BY <2>1, <2>2, <1>2 DEF add_music_list
<1>3. CASE sort_music_list
  <2>0. pc = "sort" /\ g_music_list_cnt' = g_music_list_cnt
    BY <1>3 DEF sort_music_list
  <2>1. CASE cnt < g_music_list_cnt
    <3>0. /\ pc' = "sort" /\ cnt \in Numbers /\ Files \in Seq(Nat) /\ Passes(Files, i, j)
          /\ \A n \in Numbers : n < cnt => Ascending(g_music_list[n].files)
      BY <2>0, <2>1, <1>3, <1>0, <1>a, ListTypes DEF sort_music_list, SortInv, Files
    <3>1. CASE NextList
      <4>1. cnt' = cnt + 1 /\ i' = 0 /\ j' = 0 /\ g_music_list' = g_music_list /\ i >= Len(Files) - 1
        BY <3>1 DEF NextList
      <4>2. Ascending(g_music_list[cnt].files)
        BY <4>1, <3>0, <1>0, ListTypes, PassesEnd DEF Files
      <4>3. \A n \in Numbers : n < cnt + 1 => Ascending(g_music_list[n].files)
        BY <4>2, <3>0, <1>0, ListTypes
      <4>4. cnt + 1 < g_music_list_cnt => Passes(g_music_list[cnt + 1].files, 0, 0)
        BY <1>a, <1>0, ListTypes, PassesStart
      <4> QED  BY <4>1, <4>3, <4>4, <3>0, <2>0, <2>1, <1>0, ListTypes DEF SortInv, Files, Starting
    <3>2. CASE NextPass
      <4>1. /\ cnt' = cnt /\ i' = i + 1 /\ j' = 0 /\ g_music_list' = g_music_list
            /\ i < Len(Files) - 1 /\ j >= Len(Files) - 1 - i
        BY <3>2 DEF NextPass
      <4>2. Passes(Files, i + 1, 0)
        BY <4>1, <3>0, <1>0, ListTypes, PassesNextPass
      <4> QED  BY <4>1, <4>2, <3>0, <2>0, <2>1, <1>0, ListTypes DEF SortInv, Files, Starting
    <3>3. CASE ComparePair
      <4>1. PICK new \in Seq(Nat) :
              /\ new = IF Files[j + 1] > Files[(j + 1) + 1] THEN Swapped(Files, j + 1) ELSE Files
              /\ g_music_list'[cnt].files = new
              /\ \A n \in Numbers : n # cnt => g_music_list'[n] = g_music_list[n]
        BY <2>1, <3>3, <1>0, ComparePairStep
      <4>2. cnt' = cnt /\ i' = i /\ j' = j + 1 /\ i < Len(Files) - 1 /\ j < Len(Files) - 1 - i
        BY <3>3 DEF ComparePair
      <4>3. Passes(new, i, j + 1)
        BY <4>1, <4>2, <3>0, <1>0, ListTypes, PassesCompare
      <4>4. \A n \in Numbers : n < cnt => Ascending(g_music_list'[n].files)
        <5> TAKE n \in Numbers
        <5>1. n < cnt => g_music_list'[n] = g_music_list[n]
          BY <4>1, <1>0, ListTypes
        <5> QED  BY <5>1, <3>0
      <4> QED  BY <4>1, <4>2, <4>3, <4>4, <3>0, <2>0, <2>1, <1>0, ListTypes
               DEF SortInv, Files, Starting
    <3> QED  BY <3>1, <3>2, <3>3, <2>1, <1>3, <1>0, ListTypes DEF sort_music_list
  <2>2. CASE cnt >= g_music_list_cnt
    <3>1. pc' = "conf" /\ g_music_list' = g_music_list
      BY <2>2, <1>3, <1>0, ListTypes DEF sort_music_list
    <3>2. ASSUME NEW n \in Numbers PROVE Ascending(g_music_list[n].files)
      <4>1. CASE n < g_music_list_cnt
        BY <4>1, <2>0, <2>2, <1>0, ListTypes DEF SortInv
      <4>2. CASE ~(n < g_music_list_cnt)
        <5>1. g_music_list[n].files = <<>>
          BY <4>2, <1>0 DEF ListInv, NoList
        <5> QED  BY <5>1 DEF Ascending
      <4> QED  BY <4>1, <4>2
    <3> QED  BY <3>1, <3>2 DEF SortInv
  <2> QED  BY <2>1, <2>2, <1>0, ListTypes
<1>4. CASE Choosing
  BY <1>4, <1>0, ChoosingKeeps DEF SortInv, Starting, listVars
<1>5. CASE OtherThreads
  <2>1. UNCHANGED <<pc, g_music_list, g_music_list_cnt, cnt, i, j>>
    BY <1>5, OtherThreadsKeep DEF listVars, loopVars
  <2> QED  BY <2>1, <1>0 DEF SortInv, Starting, Files
<1>6. CASE Restart
  BY <1>6 DEF Restart, SortInv, Starting
<1> QED
  BY <1>1, <1>2, <1>3, <1>4, <1>5, <1>6, NextCases DEF music_mgr_task, Choosing

-----------------------------------------------------------------------------
(***************************************************************************)
(* The pad thread, the current list and the one saved.                     *)
(***************************************************************************)
\* Lists are only added; once they are sorted they stay as they are.
LEMMA ListsOnlyAdded ==
  ASSUME TypeOK, music_mgr_task
  PROVE  /\ g_music_list_cnt' \in Nat /\ g_music_list_cnt' >= g_music_list_cnt /\ Dirs' = Dirs
         /\ ~Starting => Choosing /\ ~Starting' /\ UNCHANGED <<g_music_list, g_music_list_cnt>>
<1>1. Dirs' = Dirs
  BY MusicTaskKeeps DEF Dirs, diskVars
<1>2. CASE eggm_io_read_music_list \/ sort_music_list
  BY <1>1, <1>2, ListTypes
     DEF eggm_io_read_music_list, sort_music_list, listVars, Starting
<1>3. CASE add_music_list
  BY <1>1, <1>3, ListTypes DEF add_music_list, listVars, Starting
<1>4. CASE Choosing
  BY <1>1, <1>4, ListTypes, ChoosingKeeps DEF listVars, Starting
<1> QED  BY <1>2, <1>3, <1>4 DEF music_mgr_task, Choosing

LEMMA NextPadInv == IInv /\ [Next]_vars => PadInv'
<1> SUFFICES ASSUME IInv, [Next]_vars PROVE PadInv'
  OBVIOUS
<1>0. TypeOK /\ ListInv /\ PadInv
  BY DEF IInv
<1>a. shown \in Seq(Nat) /\ answer \in Seq(Nat) /\ padNum \in 0..MAX_MUSIC_LIST
  BY <1>0 DEF TypeOK
<1>1. CASE music_mgr_task
  <2>1. UNCHANGED <<padPc, padNum, padName, padList, answer, padEarly, shown>>
    BY <1>1, MusicTaskKeeps DEF padVars
  <2>2. Shows(shown)'
    BY <2>1, <1>0, <1>1, <1>a, ListTypes, ListsOnlyAdded DEF PadInv, Shows
  <2>3. padPc = "name" => Shows(answer)'
    BY <2>1, <1>0, <1>1, <1>a, ListTypes, ListsOnlyAdded DEF PadInv, Shows
  <2>4. padPc = "name" => padNum <= g_music_list_cnt'
    BY <1>0, <1>1, <1>a, ListTypes, ListsOnlyAdded DEF PadInv
  <2>5. Storing /\ ~padEarly => ~Starting' /\ padList = g_music_list'[padNum]
    BY <1>0, <1>1, ListsOnlyAdded DEF PadInv
  <2> QED  BY <2>1, <2>2, <2>3, <2>4, <2>5, <1>0 DEF PadInv, Storing
<1>2. CASE OtherThreads
  <2>0. UNCHANGED <<Dirs, Starting, g_music_list, g_music_list_cnt, pc>>
    BY <1>2, OtherThreadsKeep DEF listVars, Dirs, Starting
  <2>1. CASE make_music_list_packet
    <3>1. padPc = "name" /\ UNCHANGED padNum
      BY <2>1 DEF make_music_list_packet
    <3>2. CASE Len(answer) < padNum
      <4>1. /\ answer' = Append(answer, g_music_list[Len(answer)].name)
            /\ padPc' = padPc /\ shown' = shown
        BY <2>1, <3>2, <1>a DEF make_music_list_packet
      <4>2. Len(answer) \in Numbers /\ Len(answer) < g_music_list_cnt
        BY <3>1, <3>2, <1>a, <1>0, ListTypes DEF PadInv
      <4>3. /\ g_music_list[Len(answer)].name = Dirs[Len(answer) + 1].name
            /\ g_music_list[Len(answer)].name \in Nat
        BY <4>2, <1>0, ListTypes DEF ListInv, ListFor, MusicList
      <4>4. Shows(answer)'
        <5>1. Len(answer') = Len(answer) + 1 /\ Len(answer) \in Nat
          BY <4>1, <4>3, <1>a
        <5>2. \A n \in 1..Len(answer') :
                answer'[n] = IF n <= Len(answer) THEN answer[n] ELSE g_music_list[Len(answer)].name
          BY <4>1, <4>3, <1>a, <5>1
        <5>3. \A n \in 1..Len(answer) : answer[n] = Dirs[n].name
          BY <3>1, <1>0 DEF PadInv, Shows
        <5>4. \A n \in 1..Len(answer') : answer'[n] = Dirs[n].name
          BY <5>1, <5>2, <5>3, <4>3
        <5>5. Len(answer') <= g_music_list_cnt
          BY <5>1, <4>2, <1>0, ListTypes
        <5> QED  BY <5>4, <5>5, <2>0 DEF Shows
      <4>5. Len(answer') <= padNum
        BY <4>1, <4>3, <3>2, <1>a
      <4> QED  BY <4>1, <4>4, <4>5, <3>1, <1>0, <2>0 DEF PadInv, Storing, Shows
    <3>3. CASE Len(answer) >= padNum
      <4>1. shown' = answer /\ padPc' = "idle"
        BY <2>1, <3>3, <1>a DEF make_music_list_packet
      <4> QED  BY <4>1, <3>1, <1>0, <2>0 DEF PadInv, Storing, Shows
    <3> QED  BY <3>2, <3>3, <1>a
  <2>2. CASE get_music_list_by_num
    <3>1. /\ padPc = "list" /\ padPc' \in {"idle", "store"} /\ UNCHANGED <<padNum, shown>>
          /\ padList' = g_music_list[padNum] /\ (~padEarly' => ~Starting)
      BY <2>2 DEF get_music_list_by_num, ListsFree, Starting
    <3> QED  BY <3>1, <1>0, <2>0 DEF PadInv, Storing, Shows
  <2>3. CASE PadSetCurMusic \/ PadTruncate \/ eggm_io_write_selected_music_list
    <3>1. /\ Storing /\ padPc' \in {"truncate", "write", "idle"}
          /\ UNCHANGED <<padNum, padList, padEarly, shown>>
      BY <2>3 DEF PadSetCurMusic, PadTruncate, eggm_io_write_selected_music_list, Storing
    <3> QED  BY <3>1, <1>0, <2>0 DEF PadInv, Storing, Shows
  <2>4. CASE get_music_list_cnt
    <3>1. padNum' = g_music_list_cnt /\ answer' = <<>> /\ padPc' = "name" /\ shown' = shown
      BY <2>4 DEF get_music_list_cnt
    <3>2. g_music_list_cnt \in Nat
      BY <1>0, ListTypes
    <3> QED  BY <3>1, <3>2, <1>0, <2>0 DEF PadInv, Storing, Shows
  <2>5. CASE \E n \in Numbers : change_cur_music_list(n)
    <3>1. padNum' \in Numbers /\ padPc' = "list" /\ shown' = shown
      BY <2>5 DEF change_cur_music_list
    <3> QED  BY <3>1, <1>0, <2>0 DEF PadInv, Storing, Shows
  <2>6. CASE schedule_mgr_task \/ UNCHANGED vars
    <3>1. UNCHANGED <<padPc, padNum, padList, answer, padEarly, shown>>
      BY <2>6 DEF schedule_mgr_task, eggm_io_read_sch_conf, set_schedule_data_by_wday, padVars, vars
    <3> QED  BY <3>1, <1>0, <2>0 DEF PadInv, Storing, Shows
  <2> QED  BY <2>1, <2>2, <2>3, <2>4, <2>5, <2>6, <1>2 DEF OtherThreads, pad_mgr_task
<1>3. CASE Restart
  BY <1>3 DEF Restart, PadInv, Shows, Storing
<1> QED  BY <1>1, <1>2, <1>3, NextCases

LEMMA NextCurrentInv == IInv /\ [Next]_vars => CurrentInv'
<1> SUFFICES ASSUME IInv, [Next]_vars PROVE CurrentInv'
  OBVIOUS
<1>0. TypeOK /\ PadInv /\ CurrentInv
  BY DEF IInv
<1>1. CASE music_mgr_task /\ ~Choosing
  <2>1. Starting /\ UNCHANGED <<g_cur_music, early>> /\ pc' # "set"
    BY <1>1 DEF music_mgr_task, Choosing, Starting, eggm_io_read_music_list, add_music_list,
       sort_music_list, history
  <2> QED  BY <2>1, <1>0 DEF CurrentInv
<1>2. CASE Choosing
  <2>0. ~Starting /\ ~Starting' /\ UNCHANGED g_music_list
    BY <1>2, ChoosingKeeps DEF listVars, Starting
  <2>1. CASE eggm_io_read_selected_music_list \/ get_play_list_num_by_name
    <3>1. UNCHANGED <<g_cur_music, early>> /\ pc' # "set"
      BY <2>1 DEF eggm_io_read_selected_music_list, get_play_list_num_by_name, history
    <3> QED  BY <3>1, <2>0, <1>0 DEF CurrentInv
  <2>2. CASE FetchList
    <3>1. UNCHANGED <<g_cur_music, early, num>> /\ play_list' = g_music_list[num]
      BY <2>2 DEF FetchList, history
    <3> QED  BY <3>1, <2>0, <1>0 DEF CurrentInv
  <2>3. CASE SetCurMusic
    <3>1. /\ g_cur_music' = [listname |-> play_list.name, filename |-> FirstFile(play_list)]
          /\ pc = "set" /\ pc' = "run"
      BY <2>3 DEF SetCurMusic
    <3>2. play_list = g_music_list[num] /\ num \in Numbers
      BY <3>1, <1>0 DEF CurrentInv, TypeOK
    <3> QED  BY <3>1, <3>2, <2>0 DEF CurrentInv
  <2> QED  BY <2>1, <2>2, <2>3, <1>2 DEF Choosing
<1>3. CASE OtherThreads
  <2>0. UNCHANGED <<g_music_list, pc, Starting, play_list, num>>
    BY <1>3, OtherThreadsKeep DEF listVars, pickVars, Starting
  <2>1. CASE PadSetCurMusic
    <3>1. /\ g_cur_music' = [listname |-> padList.name, filename |-> FirstFile(padList)]
          /\ early' = padEarly /\ Storing
      BY <2>1 DEF PadSetCurMusic, Storing
    <3>2. ~padEarly => ~Starting /\ padList = g_music_list[padNum] /\ padNum \in Numbers
      BY <3>1, <1>0 DEF PadInv
    <3> QED  BY <3>1, <3>2, <2>0, <1>0 DEF CurrentInv
  <2>2. CASE ~PadSetCurMusic
    <3>1. UNCHANGED <<g_cur_music, early>>
      BY <2>2, <1>3 DEF OtherThreads, pad_mgr_task, schedule_mgr_task, get_music_list_cnt,
         change_cur_music_list, make_music_list_packet, get_music_list_by_num, PadTruncate,
         eggm_io_write_selected_music_list, eggm_io_read_sch_conf, set_schedule_data_by_wday,
         vars, history
    <3> QED  BY <3>1, <2>0, <1>0 DEF CurrentInv
  <2> QED  BY <2>1, <2>2
<1>4. CASE Restart
  BY <1>4 DEF Restart, CurrentInv
<1> QED  BY <1>1, <1>2, <1>3, <1>4, NextCases

LEMMA NextChoiceInv == IInv /\ [Next]_vars => ChoiceInv'
<1> SUFFICES ASSUME IInv, [Next]_vars PROVE ChoiceInv'
  OBVIOUS
<1>0. TypeOK /\ ChoiceInv
  BY DEF IInv
<1>1. CASE music_mgr_task
  <2>0. UNCHANGED <<conf, chosen, intact, padPc>>
    BY <1>1, MusicTaskKeeps DEF diskVars, padVars
  <2>1. CASE ~Choosing
    <3>1. pc' \in {"add", "sort", "conf"}
      BY <1>1, <2>1 DEF music_mgr_task, Choosing, eggm_io_read_music_list, add_music_list,
         sort_music_list
    <3> QED  BY <3>1, <2>0, <1>0 DEF ChoiceInv
  <2>2. CASE Choosing
    <3>0. UNCHANGED <<g_music_list, g_music_list_cnt>>
      BY <2>2, ChoosingKeeps DEF listVars
    <3>1. CASE eggm_io_read_selected_music_list
      <4>1. /\ expected' = IF intact THEN chosen ELSE Missing
            /\ \/ conf \in {Missing, Empty} /\ pc' = "fetch"
               \/ conf \notin {Missing, Empty} /\ pc' = "find" /\ name' = conf
        BY <3>1 DEF eggm_io_read_selected_music_list
      <4>2. intact => conf = chosen /\ conf \in Nat
        BY <1>0 DEF ChoiceInv
      <4>3. intact => conf \notin {Missing, Empty}
        BY <4>2 DEF Missing, Empty
      <4> QED  BY <4>1, <4>2, <4>3, <2>0, <1>0 DEF ChoiceInv
    <3>2. CASE get_play_list_num_by_name
      <4>1. /\ pc = "find" /\ pc' = "fetch" /\ expected' = expected
            /\ \/ num' \in Found(name)
               \/ Found(name) = {} /\ num' = 0
        BY <3>2 DEF get_play_list_num_by_name, history
      <4>2. \A listname : Found(listname)' = Found(listname)
        BY <3>0 DEF Found
      <4>3. expected # Missing => name = expected
        BY <4>1, <1>0 DEF ChoiceInv
      <4>4. expected # Missing =>
              num' \in Found(expected)' \/ (Found(expected)' = {} /\ num' = 0)
        BY <4>1, <4>2, <4>3
      <4> QED  BY <4>1, <4>4, <2>0, <1>0 DEF ChoiceInv
    <3>3. CASE FetchList \/ SetCurMusic
      <4>1. /\ pc \in {"fetch", "set"} /\ pc' \in {"set", "run"} /\ UNCHANGED <<expected, num>>
        BY <3>3 DEF FetchList, SetCurMusic, history, pickVars
      <4> QED  BY <4>1, <3>0, <2>0, <1>0 DEF ChoiceInv, Found
    <3> QED  BY <3>1, <3>2, <3>3, <2>2 DEF Choosing
  <2> QED  BY <2>1, <2>2
<1>2. CASE OtherThreads
  <2>0. UNCHANGED <<g_music_list, g_music_list_cnt, pc, name, num, expected>>
    BY <1>2, OtherThreadsKeep DEF listVars, pickVars
  <2>1. /\ pc' = "find" /\ expected' # Missing => name' = expected'
        /\ pc' \in {"fetch", "set"} /\ expected' # Missing =>
             num' \in Found(expected)' \/ (Found(expected)' = {} /\ num' = 0)
    BY <2>0, <1>0 DEF ChoiceInv, Found
  <2>2. CASE PadSetCurMusic
    BY <2>1, <2>2 DEF PadSetCurMusic, ChoiceInv
  <2>3. CASE PadTruncate
    <3>1. padPc = "truncate" /\ UNCHANGED <<chosen, intact>>
      BY <2>3 DEF PadTruncate, history
    <3> QED  BY <3>1, <2>1, <1>0 DEF ChoiceInv
  <2>4. CASE eggm_io_write_selected_music_list
    <3>1. padList.name \in Nat
      BY <1>0 DEF TypeOK, MusicList
    <3>2. /\ conf' = IF Result(padList.name) = "same" THEN padList.name ELSE Garbled
          /\ chosen' = padList.name /\ intact' = (Result(padList.name) = "same")
          /\ padPc' = "idle"
      BY <2>4 DEF eggm_io_write_selected_music_list
    <3> QED  BY <3>1, <3>2, <2>1 DEF ChoiceInv
  <2>5. CASE ~(PadSetCurMusic \/ PadTruncate \/ eggm_io_write_selected_music_list)
    <3>1. UNCHANGED <<conf, chosen, intact>> /\ (padPc' \in {"truncate", "write"} => padPc' = padPc)
      BY <2>5, <1>2 DEF OtherThreads, pad_mgr_task, schedule_mgr_task, get_music_list_cnt,
         change_cur_music_list, make_music_list_packet, get_music_list_by_num,
         eggm_io_read_sch_conf, set_schedule_data_by_wday, vars, history, diskVars, padVars
    <3> QED  BY <3>1, <2>1, <1>0 DEF ChoiceInv
  <2> QED  BY <2>2, <2>3, <2>4, <2>5
<1>3. CASE Restart
  BY <1>3, <1>0 DEF Restart, ChoiceInv
<1> QED  BY <1>1, <1>2, <1>3, NextCases

-----------------------------------------------------------------------------
(***************************************************************************)
(* The week.                                                               *)
(***************************************************************************)
Undisturbed == \A p \in Parts : tails[p] = NoDigit
TimesOf(l) == [is_enable |-> l.is_enable, start |-> l.start, end |-> l.end]

LEMMA RowOfUndisturbed ==
  ASSUME Undisturbed, NEW l \in Lines
  PROVE  RowOf(l) = TimesOf(l)
<1>1. \A number, part : part \in Parts => Atoi(number, part) = number
  BY DEF Atoi, Undisturbed
<1>2. /\ l.start = [hour |-> l.start.hour, min |-> l.start.min]
      /\ l.end = [hour |-> l.end.hour, min |-> l.end.min]
  BY DEF Lines, Time
<1> QED  BY <1>1, <1>2 DEF RowOf, TimesOf, Parts

LEMMA NextSchInv == IInv /\ [Next]_vars => SchInv'
<1> SUFFICES ASSUME IInv, [Next]_vars PROVE SchInv'
  OBVIOUS
<1>0. TypeOK /\ SchInv
  BY DEF IInv
<1>a. /\ line \in Nat /\ sch \in [WDay -> Row] /\ schConf \in Seq(Lines)
      /\ g_eggm_week_schedule \in [WDay -> Row] /\ day \in 0..DAYS /\ DAYS \in Nat
  BY <1>0, SchConfsAssumption, MaxAssumption DEF TypeOK
<1>1. CASE eggm_io_read_sch_conf
  <2>0. schPc = "read" /\ UNCHANGED <<schConf, tails, day, g_eggm_week_schedule>> /\ day = 0
    BY <1>1, <1>0 DEF eggm_io_read_sch_conf, diskVars, SchInv
  <2>1. CASE line < Len(schConf)
    <3> DEFINE l == schConf[line + 1]
    <3>1. /\ sch' = IF l.sch /\ l.day \in WDay THEN [sch EXCEPT ![l.day] = RowOf(l)] ELSE sch
          /\ line' = line + 1 /\ schPc' = schPc
      BY <2>1, <1>1 DEF eggm_io_read_sch_conf
    <3>2. l \in Lines
      BY <2>1, <1>a
    <3>3. \A d \in WDay : sch'[d] = IF l.sch /\ l.day = d THEN RowOf(l) ELSE sch[d]
      <4> HIDE DEF l
      <4> QED  BY <3>1, <1>a
    <3>4. ASSUME Undisturbed, NEW d \in WDay, NEW k \in 1..(line + 1), LastFor(d, k, line + 1)
          PROVE  sch'[d] = TimesOf(schConf[k])
      <4>1. CASE k = line + 1
        <5>1. RowOf(l) = TimesOf(l)
          BY <3>2, <3>4, RowOfUndisturbed
        <5> QED  BY <5>1, <4>1, <3>3, <3>4 DEF LastFor
      <4>2. CASE k \in 1..line
        <5>1. LastFor(d, k, line) /\ ~(l.sch /\ l.day = d)
          BY <4>2, <3>4, <1>a DEF LastFor
        <5>2. sch[d] = TimesOf(schConf[k])
          BY <5>1, <4>2, <3>4, <1>0 DEF SchInv, Undisturbed, TimesOf
        <5> QED  BY <5>1, <5>2, <3>3
      <4> QED  BY <4>1, <4>2, <1>a
    <3>5. \A d \in WDay : ~(d < 0)
      BY DEF WDay
    <3>6. line + 1 <= Len(schConf)
      BY <2>1, <1>a
    <3> HIDE DEF l
    <3> QED  BY <3>1, <3>4, <3>5, <3>6, <2>0 DEF SchInv, Undisturbed, TimesOf, LastFor
  <2>2. CASE line = Len(schConf)
    <3>1. schPc' = "set" /\ UNCHANGED <<sch, line>>
      BY <2>2, <1>1, <1>a DEF eggm_io_read_sch_conf
    <3> QED  BY <3>1, <2>0, <2>2, <1>0 DEF SchInv, LastFor
  <2> QED  BY <2>1, <2>2, <1>1 DEF eggm_io_read_sch_conf
<1>2. CASE set_schedule_data_by_wday
  <2>0. schPc = "set" /\ UNCHANGED <<schConf, tails, sch, line>> /\ line = Len(schConf)
    BY <1>2, <1>0 DEF set_schedule_data_by_wday, diskVars, SchInv
  <2>1. CASE day < DAYS
    <3>1. /\ g_eggm_week_schedule' = [g_eggm_week_schedule EXCEPT ![day] = sch[day]]
          /\ day' = day + 1 /\ schPc' = schPc
      BY <2>1, <1>2, <1>a DEF set_schedule_data_by_wday
    <3>2. \A d \in WDay : d < day + 1 => g_eggm_week_schedule'[d] = sch[d]
      BY <3>1, <1>a, <1>0 DEF SchInv, WDay
    <3> QED  BY <3>1, <3>2, <2>0, <1>0 DEF SchInv, LastFor
  <2>2. CASE day = DAYS
    <3>1. schPc' = "run" /\ UNCHANGED <<g_eggm_week_schedule, day>>
      BY <2>2, <1>2, <1>a DEF set_schedule_data_by_wday
    <3> QED  BY <3>1, <2>0, <2>2, <1>0 DEF SchInv, LastFor
  <2> QED  BY <2>1, <2>2, <1>2 DEF set_schedule_data_by_wday
<1>3. CASE Restart
  <2>1. line' = 0 /\ day' = 0 /\ schPc' = "read" /\ schConf' \in SchConfs
    BY <1>3 DEF Restart
  <2>2. Len(schConf') \in Nat /\ \A d \in WDay : ~(d < 0)
    BY <2>1, SchConfsAssumption DEF WDay
  <2> QED  BY <2>1, <2>2 DEF SchInv
<1>4. CASE music_mgr_task \/ (OtherThreads /\ ~schedule_mgr_task)
  <2>1. UNCHANGED <<schConf, schPc, sch, line, day, tails, g_eggm_week_schedule>>
    BY <1>4, MusicTaskKeeps DEF OtherThreads, pad_mgr_task, get_music_list_cnt,
       change_cur_music_list, make_music_list_packet, get_music_list_by_num, PadSetCurMusic,
       PadTruncate, eggm_io_write_selected_music_list, vars, diskVars, schVars
  <2> QED  BY <2>1, <1>0 DEF SchInv, LastFor
<1> QED  BY <1>1, <1>2, <1>3, <1>4, NextCases DEF OtherThreads, schedule_mgr_task

-----------------------------------------------------------------------------
LEMMA Inductive == Spec => []IInv
<1>1. Init => IInv
  BY InitInv
<1>2. IInv /\ [Next]_vars => IInv'
  BY NextTypeOK, NextListInv, NextSortInv, NextPadInv, NextCurrentInv, NextChoiceInv, NextSchInv
     DEF IInv
<1> QED  BY <1>1, <1>2, PTL DEF Spec

(***************************************************************************)
(* Every variable keeps its type; in particular the number of a list the   *)
(* task works with is always one of the array's, although the search for a *)
(* name may come back with -1.                                             *)
(***************************************************************************)
THEOREM TypeCorrect == Spec => []TypeOK
<1>1. IInv => TypeOK
  BY DEF IInv
<1> QED  BY <1>1, Inductive, PTL

(***************************************************************************)
(* Whatever readdir hands out, sort_music_list leaves the files of each    *)
(* list in ascending order, and they are the .mp3 files of its directory.  *)
(***************************************************************************)
THEOREM SortCorrect == Spec => []ListsSorted
<1>1. IInv => ListsSorted
  <2> SUFFICES ASSUME IInv, pc \notin {"read", "add", "sort"} PROVE
        /\ g_music_list_cnt = Len(Dirs)
        /\ \A n \in 0..(g_music_list_cnt - 1) :
             /\ \A k, l \in DOMAIN g_music_list[n].files :
                  k < l => g_music_list[n].files[k] <= g_music_list[n].files[l]
             /\ FilesOf(g_music_list[n].files, Dirs[n + 1])
    BY DEF ListsSorted, Dirs, FilesOf, Contents, Mp3At
  <2>1. TypeOK /\ g_music_list_cnt = Len(Dirs)
    BY DEF IInv, ListInv
  <2>2. ASSUME NEW n \in 0..(g_music_list_cnt - 1)
        PROVE  /\ \A k, l \in DOMAIN g_music_list[n].files :
                    k < l => g_music_list[n].files[k] <= g_music_list[n].files[l]
               /\ FilesOf(g_music_list[n].files, Dirs[n + 1])
    <3>1. n \in Numbers /\ n < g_music_list_cnt
      BY <2>1, ListTypes
    <3>2. g_music_list[n].files \in Seq(Nat)
      BY <3>1, <2>1, ListTypes DEF MusicList
    <3>3. Ascending(g_music_list[n].files) /\ FilesOf(g_music_list[n].files, Dirs[n + 1])
      BY <3>1 DEF IInv, ListInv, SortInv, ListFor, Starting
    <3>4. DOMAIN g_music_list[n].files = 1..Len(g_music_list[n].files)
      BY <3>2
    <3> QED  BY <3>3, <3>4 DEF Ascending
  <2> QED  BY <2>1, <2>2
<1> QED  BY <1>1, Inductive, PTL

(***************************************************************************)
(* Entry n of an answer names list n for as long as the daemon runs, even  *)
(* when the answer is made while the lists are being added.                *)
(***************************************************************************)
THEOREM NumbersCorrect == Spec => []ShownNumbersValid
<1>1. IInv => ShownNumbersValid
  <2> SUFFICES ASSUME IInv, NEW n \in DOMAIN shown
               PROVE  shown[n] = g_music_list[n - 1].name /\ shown[n] = Dirs[n].name
    BY DEF ShownNumbersValid, Dirs
  <2>1. TypeOK /\ shown \in Seq(Nat) /\ Shows(shown)
    BY DEF IInv, TypeOK, PadInv
  <2>2. n \in 1..Len(shown)
    BY <2>1
  <2>3. n - 1 \in Numbers /\ n - 1 < g_music_list_cnt
    BY <2>1, <2>2, ListTypes DEF Shows
  <2>4. ListFor(g_music_list[n - 1], Dirs[(n - 1) + 1])
    BY <2>3 DEF IInv, ListInv
  <2>5. (n - 1) + 1 = n
    BY <2>2
  <2> QED  BY <2>1, <2>2, <2>4, <2>5 DEF Shows, ListFor
<1> QED  BY <1>1, Inductive, PTL

(***************************************************************************)
(* A restart goes on with the list that was chosen and saved, or with the  *)
(* first if that is gone.                                                  *)
(***************************************************************************)
THEOREM ChoiceCorrect == Spec => []ChoiceSurvives
<1>1. IInv => ChoiceSurvives
  <2> SUFFICES ASSUME IInv, pc = "set", expected # Missing
               PROVE  \/ play_list.name = expected
                      \/ /\ \A k \in 1..Len(Dirs) : Dirs[k].name # expected
                         /\ play_list = g_music_list[0]
    <3>1. IInv => Dirs \in Seq(Entries)
      BY ListTypes DEF IInv
    <3> QED  BY <3>1 DEF ChoiceSurvives, Dirs
  <2>1. TypeOK /\ play_list = g_music_list[num] /\ g_music_list_cnt = Len(Dirs)
    BY DEF IInv, CurrentInv, ListInv
  <2>2. CASE num \in Found(expected)
    BY <2>1, <2>2 DEF Found
  <2>3. CASE Found(expected) = {} /\ num = 0
    <3>1. ASSUME NEW k \in 1..Len(Dirs) PROVE Dirs[k].name # expected
      <4>1. k - 1 \in Numbers /\ k - 1 < g_music_list_cnt /\ (k - 1) + 1 = k
        BY <2>1, ListTypes
      <4>2. g_music_list[k - 1].name = Dirs[k].name
        BY <4>1 DEF IInv, ListInv, ListFor
      <4> QED  BY <4>1, <4>2, <2>3 DEF Found
    <3> QED  BY <3>1, <2>1, <2>3
  <2> QED  BY <2>2, <2>3 DEF IInv, ChoiceInv
<1> QED  BY <1>1, Inductive, PTL

(***************************************************************************)
(* The file shown with the current list is the first of its sorted files,  *)
(* unless the pad thread took the list before it was sorted.               *)
(***************************************************************************)
THEOREM FirstFileCorrect == Spec => []FirstFileShown
<1>1. IInv => FirstFileShown
  <2> SUFFICES ASSUME IInv, ~Starting, ~early, NEW n \in 0..(g_music_list_cnt - 1),
                      g_music_list[n].name = g_cur_music.listname,
                      NEW k \in DOMAIN g_music_list[n].files
               PROVE  g_cur_music.filename <= g_music_list[n].files[k]
    BY DEF FirstFileShown, Starting
  <2>1. TypeOK /\ ListInv /\ g_music_list_cnt = Len(Dirs)
    BY DEF IInv, ListInv, Starting
  <2>2. n \in Numbers /\ n < g_music_list_cnt /\ n + 1 \in 1..Len(Dirs)
    BY <2>1, ListTypes
  <2>3. g_music_list[n].name = Dirs[n + 1].name /\ Dirs[n + 1].name # Blank
    BY <2>1, <2>2, ListTypes DEF ListInv, ListFor, Entries
  <2>4. PICK m \in Numbers : g_cur_music = [listname |-> g_music_list[m].name,
                                            filename |-> FirstFile(g_music_list[m])]
    <3>1. g_cur_music.listname # Blank
      BY <2>3
    <3>2. g_cur_music # NoMusic
      BY <3>1 DEF NoMusic
    <3> QED  BY <3>2 DEF IInv, CurrentInv
  <2>5. m < g_music_list_cnt
    <3>1. g_music_list[m].name # Blank
      BY <2>3, <2>4
    <3>2. g_music_list[m] # NoList
      BY <3>1 DEF NoList
    <3> QED  BY <3>2, <2>1 DEF ListInv
  <2>6. m = n
    <3>1. m + 1 \in 1..Len(Dirs) /\ g_music_list[m].name = Dirs[m + 1].name
      BY <2>1, <2>5, ListTypes DEF ListInv, ListFor
    <3>2. m + 1 = n + 1
      BY <3>1, <2>1, <2>2, <2>3, <2>4, VisibleType DEF Dirs, TypeOK
    <3> QED  BY <3>2, <2>1, <2>2, ListTypes
  <2>7. g_music_list[n].files \in Seq(Nat) /\ Ascending(g_music_list[n].files)
    BY <2>1, <2>2, ListTypes DEF IInv, SortInv, MusicList
  <2> DEFINE files == g_music_list[n].files
  <2>8. files # <<>> /\ k \in 1..Len(files) /\ g_cur_music.filename = files[1]
    <3>1. k \in 1..Len(files) /\ files # <<>>
      BY <2>7
    <3> QED  BY <3>1, <2>4, <2>6 DEF FirstFile
  <2> HIDE DEF files
  <2>9. files[1] <= files[k]
    BY <2>7, <2>8 DEF Ascending, files
  <2> QED  BY <2>8, <2>9 DEF files
<1> QED  BY <1>1, Inductive, PTL

(***************************************************************************)
(* Of several lines for a day the last counts, for every week file.        *)
(***************************************************************************)
THEOREM WeekCorrect == Spec => []LastLineCounts
<1>1. IInv => LastLineCounts
  <2> SUFFICES ASSUME IInv, schPc = "run", Undisturbed, NEW d \in WDay,
                      NEW k \in DOMAIN schConf, schConf[k].sch, schConf[k].day = d,
                      \A l \in DOMAIN schConf : l > k /\ schConf[l].sch => schConf[l].day # d
               PROVE  g_eggm_week_schedule[d] = TimesOf(schConf[k])
    BY DEF LastLineCounts, Undisturbed, TimesOf
  <2>1. line = Len(schConf) /\ day = DAYS /\ schConf \in Seq(Lines)
    BY SchConfsAssumption DEF IInv, SchInv, TypeOK
  <2>2. k \in 1..line /\ LastFor(d, k, line)
    BY <2>1 DEF LastFor
  <2>3. sch[d] = TimesOf(schConf[k])
    BY <2>2 DEF IInv, SchInv, Undisturbed, TimesOf
  <2>4. d < day
    BY <2>1, MaxAssumption DEF WDay
  <2> QED  BY <2>3, <2>4 DEF IInv, SchInv
<1> QED  BY <1>1, Inductive, PTL
=============================================================================
