-------------------------- MODULE EggmPadService --------------------------
(***************************************************************************)
(* What the pad server of eggm (eggm_pad.c) promises to its clients, one   *)
(* step per thing a client can notice.  A client connects and asks; its    *)
(* request is carried out once; it gets one answer, in which each record   *)
(* is whole and is one the record has been since the request was carried   *)
(* out.  Two exceptions are part of the promise.  A message that is not    *)
(* there in one piece when the server reads is completed from the message  *)
(* carried out before it, and its answer may be lost.  A message of        *)
(* unknown type gets the answer last given to anybody.                     *)
(***************************************************************************)
EXTENDS EggmPadMsg

VARIABLES
  shared,    \* the records of the daemon
  client,    \* what each client is doing
  request,   \* what it has asked
  serving,   \* the client whose request has been carried out and not answered
  message,   \* what has been carried out last (at first the buffer's garbage)
  since,     \* what each record has been since
  last       \* the last answer given

vars == <<shared, client, request, serving, message, since, last>>

Connected == {"silent", "asked", "quit", "left"}
NotServing == [pw |-> {}, music |-> {}, sch |-> {}]

Init ==
  /\ shared \in SharedData
  /\ client = [c \in Clients |-> "none"]
  /\ request = [c \in Clients |-> NoRequest]
  /\ message \in Garbage
  /\ serving = None /\ since = NotServing /\ last = NoAnswer

Connect(c) ==
  /\ client[c] \in {"none", "answered", "lost"}
  /\ client' = [client EXCEPT ![c] = "silent"]
  /\ UNCHANGED <<shared, request, serving, message, since, last>>

Ask(c) ==
  /\ client[c] = "silent"
  /\ client' = [client EXCEPT ![c] = "asked"]
  /\ \E r \in Requests : request' = [request EXCEPT ![c] = r]
  /\ UNCHANGED <<shared, serving, message, since, last>>

\* A client goes away, before or after it has asked.
HangUp(c) ==
  /\ \/ client[c] = "silent" /\ client' = [client EXCEPT ![c] = "quit"]
     \/ client[c] = "asked"  /\ client' = [client EXCEPT ![c] = "left"]
  /\ UNCHANGED <<shared, request, serving, message, since, last>>

Forget(c) ==
  /\ client[c] = "quit"
  /\ client' = [client EXCEPT ![c] = "none"]
  /\ UNCHANGED <<shared, request, serving, message, since, last>>

\* What carrying out m may make of the records s.
Outcomes(s, m) ==
  CASE m.type = "SET_PW"        -> {[s EXCEPT !.pw = m.data]}
    [] m.type = "SET_CUR_MUSIC" -> {[s EXCEPT !.music.run = m.data]}
    [] m.type = "PLAY_BEFORE"   -> {[s EXCEPT !.skips = @ \cup {"before"}]}
    [] m.type = "PLAY_NEXT"     -> {[s EXCEPT !.skips = @ \cup {"next"}]}
    [] m.type = "SCH_START"     -> {[s EXCEPT !.sch.start = m.data]}
    [] m.type = "SCH_END"       -> {[s EXCEPT !.sch.end = m.data]}
    [] m.type = "SET_MUSIC_LIST" ->
         {[s EXCEPT !.music = [run |-> 0, list |-> m.data]]}
           \cup (IF s.music.list = m.data THEN {s} ELSE {})
    [] OTHER -> {s}

CarryOut(c) ==
  /\ serving = None
  /\ client[c] \in {"asked", "left"}
  /\ serving' = c
  /\ message' = Overwrite(message, request[c])
  /\ shared' \in Outcomes(shared, message')
  /\ since' = [pw |-> {shared'.pw}, music |-> {shared'.music}, sch |-> {shared'.sch}]
  /\ UNCHANGED <<client, request, last>>

\* Another thread of the daemon stores into a record.
Store ==
  /\ shared' \in SharedData
  /\ since' = IF serving = None THEN since
              ELSE [pw |-> since.pw \cup {shared'.pw}, music |-> since.music \cup {shared'.music},
                    sch |-> since.sch \cup {shared'.sch}]
  /\ UNCHANGED <<client, request, serving, message, last>>

Answer ==
  CASE message.type = "unknown" -> {last}
    [] message.type = "GET_MUSIC_LIST" -> {ListAnswer}
    [] OTHER -> {SystemAnswer(pw, music, sch) : pw \in since.pw, music \in since.music, sch \in since.sch}

Reply(c) ==
  /\ serving = c
  /\ last' \in Answer
  /\ \/ client[c] = "left" /\ client' = [client EXCEPT ![c] = "none"]
     \/ client[c] = "asked" /\ client' = [client EXCEPT ![c] = "answered"]
     \/ client[c] = "asked" /\ request[c].rest /\ client' = [client EXCEPT ![c] = "lost"]
  /\ request' = [request EXCEPT ![c] = NoRequest]
  /\ serving' = None /\ since' = NotServing
  /\ UNCHANGED <<shared, message>>

\* The daemon ends and is started again.
Restart ==
  /\ client' = [c \in Clients |-> IF client[c] \in Connected THEN "lost" ELSE client[c]]
  /\ shared' \in SharedData
  /\ request' = [c \in Clients |-> NoRequest]
  /\ message' \in Garbage
  /\ serving' = None /\ since' = NotServing /\ last' = NoAnswer

Next ==
  \/ \E c \in Clients : Connect(c) \/ Ask(c) \/ HangUp(c) \/ Forget(c) \/ CarryOut(c) \/ Reply(c)
  \/ Store \/ Restart

Spec == Init /\ [][Next]_vars

=============================================================================
