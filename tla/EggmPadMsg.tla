---------------------------- MODULE EggmPadMsg ----------------------------
(***************************************************************************)
(* The messages between the tablet and the pad server (struct              *)
(* eggm_pad_msg_t), and the records of the daemon that they are about.     *)
(* Of a message the type and the first data byte are kept (in the two      *)
(* schedule commands, hour and minute count as one value); of an answer    *)
(* the records other threads change: the air conditioner's data never      *)
(* change and the week only at boot.                                       *)
(***************************************************************************)
EXTENDS Integers

CONSTANTS
  Clients,   \* the tablets
  Values,    \* what a data byte may hold: states, list numbers, times
  None,      \* no client
  Sent,      \* the messages the tablets send
  Garbage    \* what an uninitialised buffer may hold

Types == {"GET_SYSTEM", "GET_MUSIC_LIST", "SET_PW", "SET_CUR_MUSIC", "PLAY_BEFORE", "PLAY_NEXT",
          "SCH_START", "SCH_END", "SET_MUSIC_LIST"}
Messages == [type : Types \cup {"unknown"}, data : Values]
NoMessage == [type |-> "none"]

ASSUME NoneAssumption == None \notin Clients
ASSUME ValuesAssumption == 0 \in Values
ASSUME SentAssumption == Sent \subseteq Messages
ASSUME GarbageAssumption == Garbage \subseteq Messages

\* A message under way: how many of its fields (type, data) the server's one
\* read finds, and whether it leaves bytes unread.
Whole == 2
Requests == [msg : Sent, fields : 0..Whole, rest : BOOLEAN]
NoRequest == [msg |-> NoMessage, fields |-> 0, rest |-> FALSE]

\* The receive buffer after such a read: its first fields are overwritten.
Overwrite(buff, r) == [type |-> IF r.fields >= 1 THEN r.msg.type ELSE buff.type,
                       data |-> IF r.fields >= 2 THEN r.msg.data ELSE buff.data]

MusicData == [run : Values, list : Values]
SchData == [start : Values, end : Values]
SharedData == [pw : Values, music : MusicData, sch : SchData, skips : SUBSET {"before", "next"}]

NoAnswer == [type |-> "zeroed"]
ListAnswer == [type |-> "GET_MUSIC_LIST"]
SystemAnswer(pw, music, sch) == [type |-> "GET_SYSTEM", pw |-> pw, music |-> music, sch |-> sch]
Answers == {NoAnswer, ListAnswer}
             \cup [type : {"GET_SYSTEM"}, pw : Values, music : MusicData, sch : SchData]

=============================================================================
