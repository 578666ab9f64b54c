------------------------------ MODULE EggmPad ------------------------------
(***************************************************************************)
(* The pad server of eggm: pad_mgr_task (eggm_pad.c).  One thread takes    *)
(* port 11001, then for ever accepts a connection, reads a message with    *)
(* ONE read into a buffer that is never cleared, carries the message out,  *)
(* puts the answer together record by record, each under its own lock,     *)
(* writes and closes.  A connection that ends without a message is not     *)
(* closed; a client that stays silent is waited for.  When the port is     *)
(* taken the thread kills the holder, tries again and, once it succeeds,   *)
(* returns.                                                                *)
(*                                                                         *)
(* Clients, network, kernel and the other threads' stores are external.    *)
(* What the commands do inside the other components is in EggmPw,          *)
(* EggmSchedule and EggmMusic; here a command is its decision and its      *)
(* store, and of the power record only state_auto is kept.  The lists      *)
(* themselves are in EggmConf.                                             *)
(***************************************************************************)
EXTENDS EggmPadMsg, Sequences

CONSTANTS
  LISTEN_BACKLOG,      (* 10 in the code                                    *)
  MaxFds,              (* descriptors left to connections and songs         *)
  Budgets              (* how often each disturbance may still happen: a    *)
                       (* choice of combinations                            *)

Disturbances == {"request", "cut", "quit", "store", "song", "restart"}

ASSUME BacklogAssumption == LISTEN_BACKLOG \in Nat \ {0}
ASSUME FdsAssumption == MaxFds \in Nat
ASSUME BudgetsAssumption == Budgets \subseteq [Disturbances -> Nat]

VARIABLES
  pc,                  (* where pad_mgr_task is                             *)
  port,                (* who has TCP port 11001                            *)
  backlog,             (* connections waiting for accept                    *)
  connfd,              (* the client being served                           *)
  recvBuff, send_pad_msg, sendBuff, sys_data,
  shared,              (* the records of the other components               *)
  lost,                (* descriptors that nothing will close any more      *)
  client, request,     (* what each client is doing and has asked           *)
  budget,
  message,             (* history: what has been carried out last           *)
  since,               (* history: what each record has been since the      *)
                       (* request was carried out                           *)
  strain               (* history: songs and given up connections so far    *)

serverVars == <<pc, port, connfd, recvBuff, send_pad_msg, sendBuff, sys_data, lost>>
clientVars == <<backlog, client, request>>
history    == <<message, since, strain>>
vars == <<serverVars, clientVars, shared, budget, history>>

Copying == {"pw", "music", "sch"}
Setup == {"bind", "retry", "ended"}
NotServing == [pw |-> {}, music |-> {}, sch |-> {}]
SysData == [pw : Values, music : MusicData, sch : SchData]
ZeroSystem == [pw |-> 0, music |-> [run |-> 0, list |-> 0], sch |-> [start |-> 0, end |-> 0]]
ZeroShared == [pw |-> 0, music |-> ZeroSystem.music, sch |-> ZeroSystem.sch, skips |-> {}]

TypeOK ==
  /\ pc \in Setup \cup {"accept", "read", "serve", "apply", "lists", "write"} \cup Copying
  /\ port \in {"free", "held", "wait", "ours"}
  /\ backlog \in Seq(Clients) /\ connfd \in Clients \cup {None}
  /\ recvBuff \in Messages /\ send_pad_msg \in Answers /\ sendBuff \in Answers
  /\ sys_data \in SysData /\ shared \in SharedData
  /\ lost \in 0..MaxFds
  /\ client \in [Clients -> {"none", "silent", "asked", "quit", "left", "answered", "lost"}]
  /\ request \in [Clients -> Requests \cup {NoRequest}]
  /\ budget \in [Disturbances -> Nat] /\ message \in Messages
  /\ since \in [pw : SUBSET Values, music : SUBSET MusicData, sch : SUBSET SchData]
  /\ strain \in Nat

\* The buffer is not initialised; the port may be taken from the outset.
Init ==
  /\ pc = "bind" /\ port \in {"free", "held", "wait"}
  /\ backlog = <<>> /\ connfd = None
  /\ recvBuff \in Garbage
  /\ send_pad_msg = NoAnswer /\ sendBuff = NoAnswer /\ sys_data = ZeroSystem
  /\ shared = ZeroShared /\ lost = 0
  /\ client = [c \in Clients |-> "none"]
  /\ request = [c \in Clients |-> NoRequest]
  /\ budget \in Budgets
  /\ message = recvBuff /\ since = NotServing /\ strain = 0

Spend(kind) ==
  /\ budget[kind] > 0
  /\ budget' = [budget EXCEPT ![kind] = @ - 1]

(***************************************************************************)
(* Taking the port.                                                        *)
(***************************************************************************)
\* fuser -k: a process holding the port is gone; its connections linger.
Fuser == port' = "free" \/ port' = "wait"

Bind ==
  /\ pc = "bind"
  /\ \/ port = "free" /\ port' = "ours" /\ pc' = "accept"
     \/ port = "held" /\ Fuser /\ pc' = "retry"
     \/ port = "wait" /\ UNCHANGED port /\ pc' = "retry"
  /\ UNCHANGED <<backlog, connfd, recvBuff, send_pad_msg, sendBuff, sys_data, lost,
                 client, request, shared, budget, history>>

\* The loop of retries ends with a port that nobody listens on.
RetryBind ==
  /\ pc = "retry"
  /\ \/ port = "free" /\ port' = "ours" /\ pc' = "ended"
     \/ port = "held" /\ Fuser /\ UNCHANGED pc
  /\ UNCHANGED <<backlog, connfd, recvBuff, send_pad_msg, sendBuff, sys_data, lost,
                 client, request, shared, budget, history>>

(***************************************************************************)
(* One connection.                                                         *)
(***************************************************************************)
\* accept, which fails for as long as no descriptor is left.
Accept ==
  /\ pc = "accept" /\ backlog # <<>> /\ lost < MaxFds
  /\ connfd' = Head(backlog) /\ backlog' = Tail(backlog)
  /\ pc' = "read"
  /\ UNCHANGED <<port, recvBuff, send_pad_msg, sendBuff, sys_data, lost,
                 client, request, shared, budget, history>>

\* What the read finds overwrites the beginning of the buffer.
ReadMessage ==
  /\ pc = "read" /\ client[connfd] \in {"asked", "left"}
  /\ recvBuff' = Overwrite(recvBuff, request[connfd])
  /\ pc' = "serve"
  /\ UNCHANGED <<port, backlog, connfd, send_pad_msg, sendBuff, sys_data, lost,
                 client, request, shared, budget, history>>

\* End of file: back to accept, and the connection stays open.
ReadNothing ==
  /\ pc = "read" /\ client[connfd] = "quit"
  /\ client' = [client EXCEPT ![connfd] = "none"]
  /\ lost' = lost + 1
  /\ connfd' = None
  /\ pc' = "accept"
  /\ UNCHANGED <<port, backlog, recvBuff, send_pad_msg, sendBuff, sys_data,
                 request, shared, budget, history>>

Asks(m) == m.type \in {"GET_SYSTEM", "GET_MUSIC_LIST", "unknown"}
\* change_cur_music_list returns early when the list is the current one.
SameList(m) == m.type = "SET_MUSIC_LIST" /\ m.data = shared.music.list

\* From here on the message counts as carried out.
CarriedOut(s) ==
  /\ message' = recvBuff
  /\ since' = [pw |-> {s.pw}, music |-> {s.music}, sch |-> {s.sch}]

Dispatch ==
  /\ pc = "serve"
  /\ sys_data' = ZeroSystem
  /\ \/ /\ Asks(recvBuff) \/ SameList(recvBuff)
        /\ pc' = CASE recvBuff.type = "GET_MUSIC_LIST" -> "lists"
                   [] recvBuff.type = "unknown" -> "write"
                   [] OTHER -> "pw"
        /\ CarriedOut(shared)
     \/ /\ ~Asks(recvBuff) /\ ~SameList(recvBuff)
        /\ pc' = "apply"
        /\ UNCHANGED <<message, since>>
  /\ UNCHANGED <<port, backlog, connfd, recvBuff, send_pad_msg, sendBuff, lost,
                 client, request, shared, budget, strain>>

\* Seeded fault: lists are counted from 1.
StoredFromOne(m) ==
  CASE m.type = "SET_PW"         -> [shared EXCEPT !.pw = m.data]
    [] m.type = "SET_CUR_MUSIC"  -> [shared EXCEPT !.music.run = m.data]
    [] m.type = "PLAY_BEFORE"    -> [shared EXCEPT !.skips = @ \cup {"before"}]
    [] m.type = "PLAY_NEXT"      -> [shared EXCEPT !.skips = @ \cup {"next"}]
    [] m.type = "SCH_START"      -> [shared EXCEPT !.sch.start = m.data]
    [] m.type = "SCH_END"        -> [shared EXCEPT !.sch.end = m.data]
    [] m.type = "SET_MUSIC_LIST" -> [shared EXCEPT !.music = [run |-> 0, list |-> m.data + 1]]

\* The stores of the handlers eggm_pad_set_... and play_..._music.
Stored(m) ==
  CASE m.type = "SET_PW"         -> [shared EXCEPT !.pw = m.data]
    [] m.type = "SET_CUR_MUSIC"  -> [shared EXCEPT !.music.run = m.data]
    [] m.type = "PLAY_BEFORE"    -> [shared EXCEPT !.skips = @ \cup {"before"}]
    [] m.type = "PLAY_NEXT"      -> [shared EXCEPT !.skips = @ \cup {"next"}]
    [] m.type = "SCH_START"      -> [shared EXCEPT !.sch.start = m.data]
    [] m.type = "SCH_END"        -> [shared EXCEPT !.sch.end = m.data]
    [] m.type = "SET_MUSIC_LIST" -> [shared EXCEPT !.music = [run |-> 0, list |-> m.data]]

Apply ==
  /\ pc = "apply"
  /\ shared' = Stored(recvBuff)
  /\ CarriedOut(shared')
  /\ pc' = "pw"
  /\ UNCHANGED <<port, backlog, connfd, recvBuff, send_pad_msg, sendBuff, sys_data, lost,
                 client, request, budget, strain>>

\* Seeded fault: the schedule is left out of the answer.
CopyWithoutSch(record, next) ==
  /\ pc = record
  /\ sys_data' = IF record = "sch" THEN sys_data ELSE [sys_data EXCEPT ![record] = shared[record]]
  /\ send_pad_msg' = IF record = "sch"
                     THEN SystemAnswer(sys_data'.pw, sys_data'.music, sys_data'.sch)
                     ELSE send_pad_msg
  /\ pc' = next
  /\ UNCHANGED <<port, backlog, connfd, recvBuff, sendBuff, lost, client, request,
                 shared, budget, history>>

\* make_system_info_packet: record after record, each under its lock; the
\* message is filled in after the last.
CopyRecord(record, next) ==
  /\ pc = record
  /\ sys_data' = [sys_data EXCEPT ![record] = shared[record]]
  /\ send_pad_msg' = IF record = "sch"
                     THEN SystemAnswer(sys_data'.pw, sys_data'.music, sys_data'.sch)
                     ELSE send_pad_msg
  /\ pc' = next
  /\ UNCHANGED <<port, backlog, connfd, recvBuff, sendBuff, lost, client, request,
                 shared, budget, history>>

make_system_info_packet ==
  CopyRecord("pw", "music") \/ CopyRecord("music", "sch") \/ CopyRecord("sch", "write")

make_music_list_packet ==
  /\ pc = "lists"
  /\ send_pad_msg' = ListAnswer
  /\ pc' = "write"
  /\ UNCHANGED <<port, backlog, connfd, recvBuff, sendBuff, sys_data, lost, client,
                 request, shared, budget, history>>

\* What becomes of the client when its answer is written and the connection
\* closed: closing with bytes unread resets it, and the answer may be lost.
Answered ==
  \/ client[connfd] = "left"  /\ client' = [client EXCEPT ![connfd] = "none"]
  \/ client[connfd] = "asked" /\ client' = [client EXCEPT ![connfd] = "answered"]
  \/ /\ client[connfd] = "asked" /\ request[connfd].rest
     /\ client' = [client EXCEPT ![connfd] = "lost"]

\* Seeded fault: the connection is not closed.
WriteWithoutClose ==
  /\ pc = "write" /\ lost < MaxFds
  /\ sendBuff' = send_pad_msg
  /\ Answered /\ request' = [request EXCEPT ![connfd] = NoRequest]
  /\ lost' = lost + 1
  /\ connfd' = None /\ since' = NotServing
  /\ pc' = "accept"
  /\ UNCHANGED <<port, backlog, recvBuff, send_pad_msg, sys_data, shared, budget,
                 message, strain>>

WriteAndClose ==
  /\ pc = "write"
  /\ sendBuff' = send_pad_msg
  /\ Answered /\ request' = [request EXCEPT ![connfd] = NoRequest]
  /\ connfd' = None /\ since' = NotServing
  /\ pc' = "accept"
  /\ UNCHANGED <<port, backlog, recvBuff, send_pad_msg, sys_data, lost, shared, budget,
                 message, strain>>

pad_mgr_task ==
  \/ Bind \/ RetryBind
  \/ Accept \/ ReadMessage \/ ReadNothing \/ Dispatch \/ Apply
  \/ make_system_info_packet \/ make_music_list_packet \/ WriteAndClose

(***************************************************************************)
(* Clients, kernel and the rest of the daemon (external).                  *)
(***************************************************************************)
Listening == pc \notin Setup

Connect(c) ==
  /\ client[c] \in {"none", "answered", "lost"}
  /\ Listening /\ Len(backlog) < LISTEN_BACKLOG
  /\ budget["request"] > 0
  /\ client' = [client EXCEPT ![c] = "silent"]
  /\ backlog' = Append(backlog, c)
  /\ UNCHANGED <<serverVars, request, shared, budget, history>>

Ask(c, r) ==
  /\ client[c] = "silent"
  /\ r.msg \in Sent
  /\ budget["request"] > 0
  /\ r.fields < Whole \/ r.rest => budget["cut"] > 0
  /\ budget' = [budget EXCEPT !["request"] = @ - 1,
                              !["cut"] = IF r.fields < Whole \/ r.rest THEN @ - 1 ELSE @]
  /\ client' = [client EXCEPT ![c] = "asked"]
  /\ request' = [request EXCEPT ![c] = r]
  /\ UNCHANGED <<serverVars, backlog, shared, history>>

HangUp(c) ==
  /\ Spend("quit")
  /\ \/ client[c] = "silent" /\ client' = [client EXCEPT ![c] = "quit"] /\ strain' = strain + 1
     \/ client[c] = "asked"  /\ client' = [client EXCEPT ![c] = "left"] /\ UNCHANGED strain
  /\ UNCHANGED <<serverVars, backlog, request, shared, message, since>>

\* The scheduler, the board's reports and the music task change their records.
StoreByOthers ==
  /\ Spend("store")
  /\ shared' \in {[shared EXCEPT !.pw = v] : v \in Values}
            \cup {[shared EXCEPT !.music = m] : m \in MusicData}
            \cup {[shared EXCEPT !.sch = s] : s \in SchData}
            \cup {[shared EXCEPT !.skips = @ \ {s}] : s \in {"before", "next"}}
  /\ since' = IF pc \in Copying \cup {"lists", "write"}
              THEN [r \in Copying |-> since[r] \cup {shared'[r]}] ELSE since
  /\ UNCHANGED <<serverVars, clientVars, message, strain>>

\* player_thread opens the output file and never closes it.
SongPlayed ==
  /\ Spend("song")
  /\ lost + (IF connfd = None THEN 0 ELSE 1) < MaxFds
  /\ lost' = lost + 1 /\ strain' = strain + 1
  /\ UNCHANGED <<pc, port, connfd, recvBuff, send_pad_msg, sendBuff, sys_data,
                 clientVars, shared, message, since>>

TimeWaitOver ==
  /\ port = "wait"
  /\ port' = "free"
  /\ UNCHANGED <<pc, connfd, recvBuff, send_pad_msg, sendBuff, sys_data, lost,
                 clientVars, shared, budget, history>>

\* The daemon ends and is started again.  A player process it leaves behind has
\* inherited the socket; connections it has closed itself linger.
Restart ==
  /\ Spend("restart")
  /\ pc' = "bind" /\ port' \in {"free", "held", "wait"}
  /\ backlog' = <<>> /\ connfd' = None
  /\ recvBuff' \in Garbage /\ message' = recvBuff'
  /\ send_pad_msg' = NoAnswer /\ sendBuff' = NoAnswer /\ sys_data' = ZeroSystem
  /\ shared' = ZeroShared /\ lost' = 0 /\ since' = NotServing /\ strain' = 0
  /\ client' = [c \in Clients |-> IF client[c] \in {"silent", "asked", "quit", "left"}
                                  THEN "lost" ELSE client[c]]
  /\ request' = [c \in Clients |-> NoRequest]

Environment ==
  \/ \E c \in Clients : Connect(c) \/ (\E r \in Requests : Ask(c, r)) \/ HangUp(c)
  \/ StoreByOthers \/ SongPlayed \/ TimeWaitOver \/ Restart

Next == pad_mgr_task \/ Environment

Spec == Init /\ [][Next]_vars

(***************************************************************************)
(* The thread is scheduled and the kernel gives a lingering port back;     *)
(* nothing makes a client ask or a thread store.                           *)
(***************************************************************************)
FairSpec == Spec /\ WF_vars(pad_mgr_task) /\ WF_vars(TimeWaitOver)

-----------------------------------------------------------------------------
(***************************************************************************)
(* The server implements EggmPadService: whatever clients do and whenever  *)
(* the other threads store, each request is carried out once and answered  *)
(* once, each record in the answer is whole and not older than the         *)
(* command; only messages that came in pieces mix with earlier ones.       *)
(***************************************************************************)
Carried == pc \in Copying \cup {"lists", "write"}

Service == INSTANCE EggmPadService WITH
             serving <- IF Carried THEN connfd ELSE None,
             last    <- sendBuff

ServiceSpec == Service!Spec

(***************************************************************************)
(* Everyone who asks is answered or sees the connection go, if no client   *)
(* stays silent for ever and there have been fewer songs and given up      *)
(* connections than descriptors.  Both conditions are needed: the one      *)
(* thread waits for a silent client, and a descriptor is lost with every   *)
(* song and every given up connection.                                     *)
(***************************************************************************)
Served ==
  (/\ \A c \in Clients : []<>(client[c] # "silent")
   /\ [](strain < MaxFds))
  => \A c \in Clients : (client[c] = "asked") ~> (client[c] # "asked")

(***************************************************************************)
(* eggm_pad.c:186 says "retry pad socket bind": the retry is for serving   *)
(* the pad, so a port that has been taken is one the server listens on.    *)
(***************************************************************************)
BoundPortIsServed == port = "ours" => Listening

=============================================================================
