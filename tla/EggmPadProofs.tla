--------------------------- MODULE EggmPadProofs ---------------------------
(***************************************************************************)
(* Proofs about EggmPad, for every number of clients, every set of         *)
(* messages, every backlog and every number of descriptors: types, and     *)
(* that the server implements EggmPadService.                              *)
(***************************************************************************)
EXTENDS EggmPad, SequenceTheorems, TLAPS

(***************************************************************************)
(* The inductive invariant.                                                *)
(***************************************************************************)
InUse == {"silent", "asked", "quit", "left"}
HasAsked == {"asked", "left"}

\* A client has one connection at most, in the backlog or being served; the
\* one being served has a descriptor.
ConnInv ==
  /\ connfd = None <=> pc \in Setup \cup {"accept"}
  /\ connfd # None => client[connfd] \in InUse /\ lost < MaxFds
  /\ \A k \in 1..Len(backlog) : client[backlog[k]] \in InUse /\ backlog[k] # connfd
  /\ \A k, l \in 1..Len(backlog) : backlog[k] = backlog[l] => k = l
  /\ \A c \in Clients : request[c] \in IF client[c] \in HasAsked THEN Requests ELSE {NoRequest}

\* What is in the buffer was carried out last, or is completed from that by
\* the request of the client being served.
BuffInv ==
  /\ pc \in {"serve", "apply"} \/ Carried => client[connfd] \in HasAsked
  /\ recvBuff = IF pc \in {"serve", "apply"} THEN Overwrite(message, request[connfd]) ELSE message
  /\ pc = "apply" => ~Asks(recvBuff)

\* The history has what the records are; the copies made are from it.
SinceInv ==
  /\ ~Carried => since = NotServing
  /\ Carried => \A r \in Copying : shared[r] \in since[r]
  /\ pc \in {"music", "sch"} => sys_data.pw \in since.pw
  /\ pc = "sch" => sys_data.music \in since.music

\* The answer that is written is one the service may give.
AnswerInv ==
  /\ pc # "write" => send_pad_msg = sendBuff
  /\ pc = "lists" => message.type = "GET_MUSIC_LIST"
  /\ pc \in Copying => message.type \notin {"GET_MUSIC_LIST", "unknown"}
  /\ pc = "write" => send_pad_msg \in Service!Answer

IInv == TypeOK /\ ConnInv /\ BuffInv /\ SinceInv /\ AnswerInv

-----------------------------------------------------------------------------
(***************************************************************************)
(* What the operators of the model return.                                 *)
(***************************************************************************)
\* A read leaves a message in the buffer, in however many pieces it comes.
LEMMA OverwriteType ==
  ASSUME NEW m \in Messages, NEW r \in Requests
  PROVE  Overwrite(m, r) \in Messages
<1>1. r.msg \in Messages
  BY SentAssumption DEF Requests
<1> QED
  BY <1>1 DEF Overwrite, Messages

\* A command leaves records.
LEMMA StoredType ==
  ASSUME shared \in SharedData, NEW m \in Messages, ~Asks(m)
  PROVE  Stored(m) \in SharedData
<1>1. m.type \in {"SET_PW", "SET_CUR_MUSIC", "PLAY_BEFORE", "PLAY_NEXT", "SCH_START", "SCH_END",
                  "SET_MUSIC_LIST"}
  BY DEF Messages, Types, Asks
<1>2. m.data \in Values /\ 0 \in Values
  BY ValuesAssumption DEF Messages
<1> QED
  BY <1>1, <1>2 DEF Stored, SharedData, MusicData, SchData

\* So does a store by another thread.
LEMMA OthersType ==
  ASSUME shared \in SharedData, StoreByOthers
  PROVE  shared' \in SharedData
  BY DEF StoreByOthers, SharedData

LEMMA ZeroType == ZeroShared \in SharedData /\ ZeroSystem \in SysData /\ NoAnswer \in Answers
  BY ValuesAssumption DEF ZeroShared, ZeroSystem, SharedData, SysData, MusicData, SchData, Answers

\* What the answer with all records is, if it is one.
LEMMA SystemAnswerType ==
  ASSUME NEW pw \in Values, NEW music \in MusicData, NEW sch \in SchData
  PROVE  SystemAnswer(pw, music, sch) \in Answers
  BY DEF SystemAnswer, Answers

LEMMA CarriedOutType ==
  ASSUME NEW s \in SharedData
  PROVE  [pw |-> {s.pw}, music |-> {s.music}, sch |-> {s.sch}]
           \in [pw : SUBSET Values, music : SUBSET MusicData, sch : SUBSET SchData]
  BY DEF SharedData

LEMMA NotServingType ==
  NotServing \in [pw : SUBSET Values, music : SUBSET MusicData, sch : SUBSET SchData]
  BY DEF NotServing

\* The history after a store, as a record.
LEMMA SinceGrows ==
  ASSUME NEW h \in [pw : SUBSET Values, music : SUBSET MusicData, sch : SUBSET SchData],
         NEW s \in SharedData
  PROVE  /\ [r \in Copying |-> h[r] \cup {s[r]}]
              = [pw |-> h.pw \cup {s.pw}, music |-> h.music \cup {s.music}, sch |-> h.sch \cup {s.sch}]
         /\ [r \in Copying |-> h[r] \cup {s[r]}]
              \in [pw : SUBSET Values, music : SUBSET MusicData, sch : SUBSET SchData]
<1> DEFINE grown == [pw |-> h.pw \cup {s.pw}, music |-> h.music \cup {s.music},
                     sch |-> h.sch \cup {s.sch}]
<1>1. [r \in Copying |-> h[r] \cup {s[r]}] = grown
  BY DEF Copying
<1>2. grown \in [pw : SUBSET Values, music : SUBSET MusicData, sch : SUBSET SchData]
  BY DEF SharedData
<1> QED
  BY <1>1, <1>2

-----------------------------------------------------------------------------
(***************************************************************************)
(* Types.                                                                  *)
(***************************************************************************)
LEMMA InitType == Init => TypeOK
<1> SUFFICES ASSUME Init PROVE TypeOK
  OBVIOUS
<1>1. recvBuff \in Messages /\ message \in Messages
  BY GarbageAssumption DEF Init
<1>2. since \in [pw : SUBSET Values, music : SUBSET MusicData, sch : SUBSET SchData]
  BY NotServingType DEF Init
<1>3. budget \in [Disturbances -> Nat]
  BY BudgetsAssumption DEF Init
<1>4. backlog \in Seq(Clients) /\ connfd \in Clients \cup {None} /\ lost \in 0..MaxFds /\ strain \in Nat
  BY FdsAssumption DEF Init
<1>5. /\ sys_data \in SysData /\ shared \in SharedData
      /\ send_pad_msg \in Answers /\ sendBuff \in Answers
  BY ZeroType DEF Init
<1> QED
  BY <1>1, <1>2, <1>3, <1>4, <1>5 DEF Init, TypeOK, Setup

LEMMA NextType == IInv /\ [Next]_vars => TypeOK'
<1> SUFFICES ASSUME IInv, [Next]_vars PROVE TypeOK'
  OBVIOUS
<1> USE DEF IInv
<1>1. CASE Bind \/ RetryBind \/ TimeWaitOver
  BY <1>1 DEF TypeOK, Bind, RetryBind, TimeWaitOver, Fuser, history, clientVars, Setup
<1>2. CASE Accept
  <2>1. connfd' \in Clients /\ backlog' \in Seq(Clients)
    BY <1>2, HeadTailProperties DEF Accept, TypeOK
  <2> QED
    BY <1>2, <2>1 DEF TypeOK, Accept, history
<1>3. CASE ReadMessage
  <2>1. connfd \in Clients
    BY <1>3 DEF ReadMessage, TypeOK, ConnInv, Setup
  <2>2. request[connfd] \in Requests
    BY <1>3, <2>1 DEF ReadMessage, ConnInv, HasAsked
  <2>3. recvBuff' \in Messages
    BY <1>3, <2>2, OverwriteType DEF ReadMessage, TypeOK
  <2> QED
    BY <1>3, <2>3 DEF TypeOK, ReadMessage, history
<1>4. CASE ReadNothing
  <2>1. lost + 1 \in 0..MaxFds
    BY <1>4, FdsAssumption DEF ReadNothing, TypeOK, ConnInv, Setup
  <2> QED
    BY <1>4, <2>1 DEF TypeOK, ReadNothing, history
<1>5. CASE Dispatch
  <2>1. pc' \in {"lists", "write", "pw", "apply"}
    BY <1>5 DEF Dispatch
  <2>2. message' \in Messages
    BY <1>5 DEF Dispatch, CarriedOut, TypeOK
  <2>3. since' \in [pw : SUBSET Values, music : SUBSET MusicData, sch : SUBSET SchData]
    BY <1>5, CarriedOutType DEF Dispatch, CarriedOut, TypeOK
  <2>4. sys_data' \in SysData
    BY <1>5, ZeroType DEF Dispatch
  <2> QED
    BY <1>5, <2>1, <2>2, <2>3, <2>4 DEF TypeOK, Dispatch, Copying
<1>6. CASE Apply
  <2>1. shared' \in SharedData
    BY <1>6, StoredType DEF Apply, TypeOK, BuffInv
  <2>2. since' \in [pw : SUBSET Values, music : SUBSET MusicData, sch : SUBSET SchData]
    BY <1>6, <2>1, CarriedOutType DEF Apply, CarriedOut
  <2> QED
    BY <1>6, <2>1, <2>2 DEF TypeOK, Apply, CarriedOut, Copying
<1>7. CASE make_system_info_packet
  <2>1. PICK record \in Copying, next \in {"music", "sch", "write"} : CopyRecord(record, next)
    BY <1>7 DEF make_system_info_packet, Copying
  <2>2. sys_data' \in SysData
    BY <2>1 DEF CopyRecord, TypeOK, SysData, SharedData, Copying
  <2>3. send_pad_msg' \in Answers
    <3>1. sys_data'.pw \in Values /\ sys_data'.music \in MusicData /\ sys_data'.sch \in SchData
      BY <2>2 DEF SysData
    <3> QED
      BY <2>1, <3>1, SystemAnswerType DEF CopyRecord, TypeOK
  <2> QED
    BY <2>1, <2>2, <2>3 DEF TypeOK, CopyRecord, history, Copying
<1>8. CASE make_music_list_packet
  BY <1>8 DEF TypeOK, make_music_list_packet, history, Answers
<1>9. CASE WriteAndClose
  <2>1. client' \in [Clients -> {"none", "silent", "asked", "quit", "left", "answered", "lost"}]
    BY <1>9 DEF WriteAndClose, Answered, TypeOK
  <2>2. request' \in [Clients -> Requests \cup {NoRequest}]
    BY <1>9 DEF WriteAndClose, TypeOK
  <2> QED
    BY <1>9, <2>1, <2>2, NotServingType DEF TypeOK, WriteAndClose
<1>10. ASSUME NEW c \in Clients, Connect(c) PROVE TypeOK'
  <2>1. backlog' \in Seq(Clients)
    BY <1>10, AppendProperties DEF Connect, TypeOK
  <2> QED
    BY <1>10, <2>1 DEF TypeOK, Connect, serverVars, history
<1>11. ASSUME NEW c \in Clients, NEW r \in Requests, Ask(c, r) PROVE TypeOK'
  <2>1. budget' \in [Disturbances -> Nat]
    BY <1>11 DEF Ask, TypeOK, Disturbances
  <2> QED
    BY <1>11, <2>1 DEF TypeOK, Ask, serverVars, history
<1>12. ASSUME NEW c \in Clients, HangUp(c) PROVE TypeOK'
  <2>1. budget' \in [Disturbances -> Nat]
    BY <1>12 DEF HangUp, Spend, TypeOK, Disturbances
  <2>2. client' \in [Clients -> {"none", "silent", "asked", "quit", "left", "answered", "lost"}]
    BY <1>12 DEF HangUp, TypeOK
  <2>3. strain' \in Nat
    BY <1>12 DEF HangUp, TypeOK
  <2> QED
    BY <1>12, <2>1, <2>2, <2>3 DEF TypeOK, HangUp, serverVars
<1>13. CASE StoreByOthers
  <2>1. budget' \in [Disturbances -> Nat]
    BY <1>13 DEF StoreByOthers, Spend, TypeOK, Disturbances
  <2>2. shared' \in SharedData
    BY <1>13, OthersType DEF TypeOK
  <2>3. since' \in [pw : SUBSET Values, music : SUBSET MusicData, sch : SUBSET SchData]
    BY <1>13, <2>2, SinceGrows DEF StoreByOthers, TypeOK
  <2> QED
    BY <1>13, <2>1, <2>2, <2>3 DEF TypeOK, StoreByOthers, serverVars, clientVars
<1>14. CASE SongPlayed
  <2>1. budget' \in [Disturbances -> Nat]
    BY <1>14 DEF SongPlayed, Spend, TypeOK, Disturbances
  <2>2. lost' \in 0..MaxFds
    BY <1>14, FdsAssumption DEF SongPlayed, TypeOK
  <2> QED
    BY <1>14, <2>1, <2>2 DEF TypeOK, SongPlayed, clientVars
<1>15. CASE Restart
  <2>1. budget' \in [Disturbances -> Nat]
    BY <1>15 DEF Restart, Spend, TypeOK, Disturbances
  <2>2. recvBuff' \in Messages /\ message' \in Messages
    BY <1>15, GarbageAssumption DEF Restart
  <2>3. lost' \in 0..MaxFds /\ strain' \in Nat /\ backlog' \in Seq(Clients)
    BY <1>15, FdsAssumption DEF Restart
  <2>4. client' \in [Clients -> {"none", "silent", "asked", "quit", "left", "answered", "lost"}]
    BY <1>15 DEF Restart, TypeOK
  <2>5. pc' \in Setup /\ port' \in {"free", "held", "wait", "ours"}
    BY <1>15 DEF Restart, Setup
  <2>6. /\ sys_data' \in SysData /\ shared' \in SharedData
        /\ send_pad_msg' \in Answers /\ sendBuff' \in Answers
    BY <1>15, ZeroType DEF Restart
  <2>7. connfd' \in Clients \cup {None} /\ request' \in [Clients -> Requests \cup {NoRequest}]
    BY <1>15 DEF Restart
  <2>8. since' \in [pw : SUBSET Values, music : SUBSET MusicData, sch : SUBSET SchData]
    BY <1>15, NotServingType DEF Restart
  <2> QED
    BY <2>1, <2>2, <2>3, <2>4, <2>5, <2>6, <2>7, <2>8 DEF TypeOK
<1>16. CASE UNCHANGED vars
  BY <1>16 DEF TypeOK, vars, serverVars, clientVars, history
<1> QED
  BY <1>1, <1>2, <1>3, <1>4, <1>5, <1>6, <1>7, <1>8, <1>9, <1>10, <1>11, <1>12, <1>13, <1>14,
     <1>15, <1>16 DEF Next, pad_mgr_task, Environment

-----------------------------------------------------------------------------
(***************************************************************************)
(* Connections: each client has one at most.                               *)
(***************************************************************************)
\* A client that has a connection is known to the server by it alone.
LEMMA InitConn == Init => ConnInv
<1> SUFFICES ASSUME Init PROVE ConnInv
  OBVIOUS
<1>1. backlog = <<>> /\ connfd = None /\ pc = "bind"
  BY DEF Init
<1>2. 1..Len(backlog) = {}
  BY <1>1
<1>3. \A c \in Clients : client[c] = "none" /\ request[c] = NoRequest
  BY DEF Init
<1> QED
  BY <1>1, <1>2, <1>3 DEF ConnInv, Setup, HasAsked

\* What a step of the server or of another thread that touches no connection
\* leaves true.
LEMMA ConnKept ==
  ASSUME ConnInv, UNCHANGED <<backlog, connfd, client, request>>,
         (pc \in Setup \cup {"accept"}) <=> (pc' \in Setup \cup {"accept"}),
         connfd # None => lost' < MaxFds
  PROVE  ConnInv'
  BY DEF ConnInv

LEMMA NextConn == IInv /\ [Next]_vars => ConnInv'
<1> SUFFICES ASSUME IInv, [Next]_vars PROVE ConnInv'
  OBVIOUS
<1>a. TypeOK /\ ConnInv
  BY DEF IInv
<1>b. Len(backlog) \in Nat /\ \A k \in 1..Len(backlog) : backlog[k] \in Clients
  BY <1>a DEF TypeOK
<1>1. CASE Bind \/ RetryBind \/ TimeWaitOver
  BY <1>1, <1>a, ConnKept DEF Bind, RetryBind, TimeWaitOver, Setup, clientVars, ConnInv
<1>2. CASE Accept
  <2>1. /\ connfd' = backlog[1] /\ connfd' \in Clients /\ Len(backlog') = Len(backlog) - 1
        /\ \A k \in 1..Len(backlog') : backlog'[k] = backlog[k + 1]
        /\ 1 \in 1..Len(backlog)
    <3>1. backlog \in Seq(Clients) /\ backlog # <<>>
      BY <1>2, <1>a DEF Accept, TypeOK
    <3>2. Len(backlog) \in Nat \ {0}
      BY <3>1, EmptySeq
    <3> QED
      BY <1>2, <3>1, <3>2, HeadTailProperties DEF Accept
  <2>2. \A k \in 1..Len(backlog') : k + 1 \in 1..Len(backlog)
    BY <2>1, <1>b
  <2>3. \A k, l \in 1..Len(backlog') : backlog'[k] = backlog'[l] => k = l
    <3> SUFFICES ASSUME NEW k \in 1..Len(backlog'), NEW l \in 1..Len(backlog'),
                        backlog'[k] = backlog'[l]
                 PROVE  k = l
      OBVIOUS
    <3>1. k + 1 = l + 1
      BY <2>1, <2>2, <1>a DEF ConnInv
    <3> QED
      BY <3>1
  <2>4. \A k \in 1..Len(backlog') : backlog'[k] # connfd' /\ client'[backlog'[k]] \in InUse
    <3> SUFFICES ASSUME NEW k \in 1..Len(backlog')
                 PROVE  backlog'[k] # connfd' /\ client'[backlog'[k]] \in InUse
      OBVIOUS
    <3>1. k + 1 # 1
      BY <1>b
    <3> QED
      BY <1>2, <2>1, <2>2, <3>1, <1>a DEF ConnInv, Accept
  <2>5. connfd' # None /\ client'[connfd'] \in InUse /\ lost' < MaxFds
    BY <1>2, <2>1, <1>a, NoneAssumption DEF Accept, ConnInv
  <2> QED
    BY <1>2, <2>3, <2>4, <2>5, <1>a DEF ConnInv, Accept, Setup
<1>3. CASE ReadMessage \/ Dispatch \/ Apply \/ make_music_list_packet
  BY <1>3, <1>a, ConnKept
     DEF ReadMessage, Dispatch, Apply, make_music_list_packet, ConnInv, Setup
<1>4. CASE ReadNothing
  <2>1. connfd \in Clients
    BY <1>4, <1>a DEF ReadNothing, TypeOK, ConnInv, Setup
  <2>2. /\ connfd' = None /\ pc' = "accept" /\ UNCHANGED <<backlog, request>>
        /\ \A c \in Clients : c # connfd => client'[c] = client[c]
        /\ client'[connfd] = "none" /\ client[connfd] = "quit"
    BY <1>4, <2>1, <1>a DEF ReadNothing, TypeOK
  <2>3. \A k \in 1..Len(backlog) : client'[backlog[k]] \in InUse /\ backlog[k] # connfd'
    BY <2>2, <1>a, <1>b, NoneAssumption DEF ConnInv
  <2>4. \A c \in Clients : request[c] \in IF client'[c] \in HasAsked THEN Requests ELSE {NoRequest}
    BY <2>2, <1>a DEF ConnInv, HasAsked
  <2> QED
    BY <2>2, <2>3, <2>4, <1>a DEF ConnInv
<1>5. CASE make_system_info_packet
  BY <1>5, <1>a, ConnKept DEF make_system_info_packet, CopyRecord, ConnInv, Setup
<1>6. CASE WriteAndClose
  <2>1. connfd \in Clients
    BY <1>6, <1>a DEF WriteAndClose, TypeOK, ConnInv, Setup
  <2>2. /\ connfd' = None /\ pc' = "accept" /\ UNCHANGED backlog
        /\ \A c \in Clients : c # connfd => client'[c] = client[c] /\ request'[c] = request[c]
        /\ client'[connfd] \in {"none", "answered", "lost"} /\ request'[connfd] = NoRequest
    BY <1>6, <2>1, <1>a DEF WriteAndClose, Answered, TypeOK
  <2>3. \A k \in 1..Len(backlog) : client'[backlog[k]] \in InUse /\ backlog[k] # connfd'
    BY <2>2, <1>a, <1>b, NoneAssumption DEF ConnInv
  <2>4. \A c \in Clients : request'[c] \in IF client'[c] \in HasAsked THEN Requests ELSE {NoRequest}
    BY <2>2, <1>a DEF ConnInv, HasAsked
  <2> QED
    BY <2>2, <2>3, <2>4, <1>a DEF ConnInv
<1>7. ASSUME NEW c \in Clients, Connect(c) PROVE ConnInv'
  <2>1. /\ Len(backlog') = Len(backlog) + 1
        /\ \A k \in 1..Len(backlog) : backlog'[k] = backlog[k]
        /\ backlog'[Len(backlog) + 1] = c
    BY <1>7, <1>a, AppendProperties DEF Connect, TypeOK
  <2>2. /\ client[c] \notin InUse /\ client'[c] = "silent"
        /\ \A d \in Clients : d # c => client'[d] = client[d]
    BY <1>7, <1>a DEF Connect, TypeOK, InUse
  <2>3. c # connfd /\ \A k \in 1..Len(backlog) : backlog[k] # c
    BY <2>2, <1>a, NoneAssumption DEF ConnInv
  <2>4. \A k \in 1..Len(backlog') : k \in 1..Len(backlog) \/ k = Len(backlog) + 1
    BY <2>1, <1>b
  <2>5. \A k \in 1..Len(backlog') : client'[backlog'[k]] \in InUse /\ backlog'[k] # connfd
    BY <2>1, <2>2, <2>3, <2>4, <1>a, <1>b DEF ConnInv, InUse
  <2>6. \A k, l \in 1..Len(backlog') : backlog'[k] = backlog'[l] => k = l
    BY <2>1, <2>3, <2>4, <1>a DEF ConnInv
  <2>7. \A d \in Clients : request[d] \in IF client'[d] \in HasAsked THEN Requests ELSE {NoRequest}
    BY <2>2, <1>a DEF ConnInv, HasAsked, InUse
  <2>8. connfd # None => client'[connfd] \in InUse
    BY <2>2, <2>3, <1>a DEF ConnInv, TypeOK
  <2> QED
    BY <1>7, <2>5, <2>6, <2>7, <2>8, <1>a DEF ConnInv, Connect, serverVars
<1>8. ASSUME NEW c \in Clients, NEW r \in Requests, Ask(c, r) PROVE ConnInv'
  <2>1. /\ client'[c] = "asked" /\ request'[c] = r
        /\ \A d \in Clients : d # c => client'[d] = client[d] /\ request'[d] = request[d]
    BY <1>8, <1>a DEF Ask, TypeOK
  <2>2. \A d \in Clients : client[d] \in InUse => client'[d] \in InUse
    BY <2>1 DEF InUse
  <2>3. \A d \in Clients : request'[d] \in IF client'[d] \in HasAsked THEN Requests ELSE {NoRequest}
    BY <2>1, <1>a DEF ConnInv, HasAsked
  <2> QED
    BY <1>8, <2>2, <2>3, <1>a, <1>b DEF ConnInv, TypeOK, Ask, serverVars
<1>9. ASSUME NEW c \in Clients, HangUp(c) PROVE ConnInv'
  <2>1. /\ \/ client[c] = "silent" /\ client'[c] = "quit"
           \/ client[c] = "asked" /\ client'[c] = "left"
        /\ \A d \in Clients : d # c => client'[d] = client[d]
    BY <1>9, <1>a DEF HangUp, TypeOK
  <2>2. \A d \in Clients : client[d] \in InUse => client'[d] \in InUse
    BY <2>1 DEF InUse
  <2>3. \A d \in Clients : request[d] \in IF client'[d] \in HasAsked THEN Requests ELSE {NoRequest}
    BY <2>1, <1>a DEF ConnInv, HasAsked
  <2> QED
    BY <1>9, <2>2, <2>3, <1>a, <1>b DEF ConnInv, TypeOK, HangUp, serverVars
<1>10. CASE StoreByOthers
  BY <1>10, <1>a, ConnKept DEF StoreByOthers, serverVars, clientVars, ConnInv
<1>11. CASE SongPlayed
  <2>1. connfd # None => lost' < MaxFds
    BY <1>11, <1>a DEF SongPlayed, TypeOK
  <2> QED
    BY <1>11, <2>1, <1>a, ConnKept DEF SongPlayed, clientVars
<1>12. CASE Restart
  <2>1. backlog' = <<>> /\ connfd' = None /\ pc' = "bind"
    BY <1>12 DEF Restart
  <2>2. 1..Len(backlog') = {}
    BY <2>1
  <2>3. \A c \in Clients : request'[c] = NoRequest /\ client'[c] \notin HasAsked
    BY <1>12, <1>a DEF Restart, TypeOK, HasAsked
  <2> QED
    BY <2>1, <2>2, <2>3 DEF ConnInv, Setup
<1>13. CASE UNCHANGED vars
  BY <1>13, <1>a, ConnKept DEF vars, serverVars, clientVars, ConnInv
<1> QED
  BY <1>1, <1>2, <1>3, <1>4, <1>5, <1>6, <1>7, <1>8, <1>9, <1>10, <1>11, <1>12, <1>13
     DEF Next, pad_mgr_task, Environment

-----------------------------------------------------------------------------
(***************************************************************************)
(* The receive buffer: what a request in pieces is completed from.         *)
(***************************************************************************)
\* The client being served, once its request has been read.
LEMMA ServedAsked ==
  ASSUME TypeOK, ConnInv, BuffInv, pc \in {"serve", "apply"} \/ Carried
  PROVE  /\ connfd \in Clients /\ connfd # None
         /\ client[connfd] \in HasAsked /\ request[connfd] \in Requests
<1>1. connfd \in Clients /\ connfd # None
  BY NoneAssumption DEF TypeOK, ConnInv, Carried, Setup, Copying
<1> QED
  BY <1>1 DEF BuffInv, ConnInv

\* What a step that leaves the buffer, the request and the asking client
\* alone, and is not part of reading and carrying out, leaves true.
LEMMA BuffKept ==
  ASSUME BuffInv, UNCHANGED <<connfd, recvBuff, message, request, pc>>,
         pc \in {"serve", "apply"} \/ Carried => client'[connfd] \in HasAsked
  PROVE  BuffInv'
  BY DEF BuffInv, Carried, Asks

LEMMA NextBuff == IInv /\ [Next]_vars => BuffInv'
<1> SUFFICES ASSUME IInv, [Next]_vars PROVE BuffInv'
  OBVIOUS
<1>a. TypeOK /\ ConnInv /\ BuffInv
  BY DEF IInv
<1>1. CASE Bind \/ RetryBind \/ Accept \/ ReadNothing
  BY <1>1, <1>a
     DEF BuffInv, Bind, RetryBind, Accept, ReadNothing, history, Carried, Copying
<1>2. CASE TimeWaitOver
  BY <1>2, <1>a, BuffKept DEF TimeWaitOver, clientVars, history, BuffInv
<1>3. CASE ReadMessage
  BY <1>3, <1>a DEF ReadMessage, BuffInv, HasAsked, history, Carried, Copying
<1>4. CASE Dispatch
  <2>1. pc' \in {"lists", "write", "pw", "apply"}
    BY <1>4 DEF Dispatch
  <2>2. client'[connfd'] \in HasAsked
    BY <1>4, <1>a DEF Dispatch, BuffInv
  <2>3. pc' = "apply" => UNCHANGED <<message, request, connfd, recvBuff>> /\ ~Asks(recvBuff)
    BY <1>4 DEF Dispatch
  <2>4. pc' # "apply" => message' = recvBuff /\ recvBuff' = recvBuff
    BY <1>4 DEF Dispatch, CarriedOut
  <2> QED
    BY <1>4, <2>1, <2>2, <2>3, <2>4, <1>a DEF Dispatch, BuffInv, Asks
<1>5. CASE Apply
  BY <1>5, <1>a DEF Apply, CarriedOut, BuffInv, Carried
<1>6. CASE make_system_info_packet
  BY <1>6, <1>a DEF make_system_info_packet, CopyRecord, BuffInv, history, Carried, Copying
<1>7. CASE make_music_list_packet
  BY <1>7, <1>a DEF make_music_list_packet, BuffInv, history, Carried
<1>8. CASE WriteAndClose
  BY <1>8, <1>a DEF WriteAndClose, BuffInv, Carried, Copying
<1>9. ASSUME NEW c \in Clients, Connect(c) PROVE BuffInv'
  <2>1. ASSUME pc \in {"serve", "apply"} \/ Carried PROVE client'[connfd] = client[connfd]
    BY <1>9, <2>1, <1>a, ServedAsked DEF Connect, HasAsked, TypeOK
  <2> QED
    BY <1>9, <2>1, <1>a, BuffKept DEF Connect, serverVars, history, BuffInv
<1>10. ASSUME NEW c \in Clients, NEW r \in Requests, Ask(c, r) PROVE BuffInv'
  <2>1. ASSUME pc \in {"serve", "apply"} \/ Carried
        PROVE  client'[connfd] = client[connfd] /\ request'[connfd] = request[connfd]
    BY <1>10, <2>1, <1>a, ServedAsked DEF Ask, HasAsked, TypeOK
  <2> QED
    BY <1>10, <2>1, <1>a DEF Ask, serverVars, history, BuffInv, Carried, Asks
<1>11. ASSUME NEW c \in Clients, HangUp(c) PROVE BuffInv'
  <2>1. ASSUME pc \in {"serve", "apply"} \/ Carried PROVE client'[connfd] \in HasAsked
    BY <1>11, <2>1, <1>a, ServedAsked DEF HangUp, HasAsked, TypeOK
  <2> QED
    BY <1>11, <2>1, <1>a, BuffKept DEF HangUp, serverVars, BuffInv
<1>12. CASE StoreByOthers \/ SongPlayed
  BY <1>12, <1>a, BuffKept DEF StoreByOthers, SongPlayed, serverVars, clientVars, BuffInv
<1>13. CASE Restart
  BY <1>13 DEF Restart, BuffInv, Carried, Copying
<1>14. CASE UNCHANGED vars
  BY <1>14, <1>a, BuffKept DEF vars, serverVars, clientVars, history, BuffInv
<1> QED
  BY <1>1, <1>2, <1>3, <1>4, <1>5, <1>6, <1>7, <1>8, <1>9, <1>10, <1>11, <1>12, <1>13, <1>14
     DEF Next, pad_mgr_task, Environment

-----------------------------------------------------------------------------
(***************************************************************************)
(* What the records have been since a request was carried out.             *)
(***************************************************************************)
LEMMA SinceKept ==
  ASSUME SinceInv, UNCHANGED <<since, shared, sys_data, pc>>
  PROVE  SinceInv'
  BY DEF SinceInv, Carried

LEMMA NextSince == IInv /\ [Next]_vars => SinceInv'
<1> SUFFICES ASSUME IInv, [Next]_vars PROVE SinceInv'
  OBVIOUS
<1>a. TypeOK /\ SinceInv
  BY DEF IInv
<1>1. CASE Bind \/ RetryBind \/ Accept \/ ReadNothing \/ ReadMessage
  BY <1>1, <1>a
     DEF SinceInv, Bind, RetryBind, Accept, ReadNothing, ReadMessage, history, Carried, Copying
<1>2. CASE Dispatch
  BY <1>2, <1>a DEF SinceInv, Dispatch, CarriedOut, Carried, Copying
<1>3. CASE Apply
  BY <1>3, <1>a DEF SinceInv, Apply, CarriedOut, Carried, Copying
<1>4. CASE make_system_info_packet
  <2>1. /\ CopyRecord("pw", "music") => sys_data'.pw = shared.pw
        /\ CopyRecord("music", "sch") => sys_data'.music = shared.music /\ sys_data'.pw = sys_data.pw
    BY <1>a DEF CopyRecord, TypeOK, SysData
  <2> QED
    BY <1>4, <2>1, <1>a
       DEF SinceInv, make_system_info_packet, CopyRecord, history, Carried, Copying
<1>5. CASE make_music_list_packet
  BY <1>5, <1>a DEF SinceInv, make_music_list_packet, history, Carried, Copying
<1>6. CASE WriteAndClose
  BY <1>6 DEF SinceInv, WriteAndClose, Carried, Copying
<1>7. CASE \E c \in Clients : Connect(c) \/ (\E r \in Requests : Ask(c, r)) \/ HangUp(c)
  BY <1>7, <1>a, SinceKept DEF Connect, Ask, HangUp, serverVars, history
<1>8. CASE StoreByOthers
  <2>1. shared' \in SharedData
    BY <1>8, <1>a, OthersType DEF TypeOK
  <2>2. CASE Carried
    <3>1. since' = [pw |-> since.pw \cup {shared'.pw}, music |-> since.music \cup {shared'.music},
                    sch |-> since.sch \cup {shared'.sch}]
      BY <1>8, <2>1, <2>2, <1>a, SinceGrows DEF StoreByOthers, Carried, TypeOK
    <3> QED
      BY <1>8, <2>2, <3>1, <1>a DEF SinceInv, StoreByOthers, serverVars, Carried, Copying
  <2>3. CASE ~Carried
    BY <1>8, <2>3, <1>a DEF SinceInv, StoreByOthers, serverVars, Carried, Copying
  <2> QED
    BY <2>2, <2>3
<1>9. CASE SongPlayed \/ TimeWaitOver
  BY <1>9, <1>a, SinceKept DEF SongPlayed, TimeWaitOver, history
<1>10. CASE Restart
  BY <1>10 DEF SinceInv, Restart, Carried, Copying
<1>11. CASE UNCHANGED vars
  BY <1>11, <1>a, SinceKept DEF vars, serverVars, history
<1> QED
  BY <1>1, <1>2, <1>3, <1>4, <1>5, <1>6, <1>7, <1>8, <1>9, <1>10, <1>11
     DEF Next, pad_mgr_task, Environment

-----------------------------------------------------------------------------
(***************************************************************************)
(* The answer.                                                             *)
(***************************************************************************)
LEMMA AnswerKept ==
  ASSUME AnswerInv, UNCHANGED <<pc, send_pad_msg, sendBuff, message, since>>
  PROVE  AnswerInv'
  BY DEF AnswerInv, Service!Answer

LEMMA NextAnswer == IInv /\ [Next]_vars => AnswerInv'
<1> SUFFICES ASSUME IInv, [Next]_vars PROVE AnswerInv'
  OBVIOUS
<1>a. TypeOK /\ AnswerInv
  BY DEF IInv
<1>1. CASE Bind \/ RetryBind \/ Accept \/ ReadMessage \/ ReadNothing
  BY <1>1, <1>a
     DEF AnswerInv, Bind, RetryBind, Accept, ReadMessage, ReadNothing, history, Copying
<1>2. CASE Dispatch
  <2>1. send_pad_msg' = sendBuff' /\ sendBuff' = sendBuff
    BY <1>2, <1>a DEF AnswerInv, Dispatch
  <2>2. CASE pc' = "apply"
    BY <2>1, <2>2 DEF AnswerInv, Copying
  <2>3. CASE pc' # "apply"
    <3>1. /\ message' = recvBuff
          /\ pc' = CASE recvBuff.type = "GET_MUSIC_LIST" -> "lists"
                     [] recvBuff.type = "unknown" -> "write"
                     [] OTHER -> "pw"
      BY <1>2, <2>3 DEF Dispatch, CarriedOut
    <3>2. pc' = "write" => send_pad_msg' \in Service!Answer'
      BY <2>1, <3>1 DEF Service!Answer
    <3> QED
      BY <2>1, <3>1, <3>2 DEF AnswerInv, Copying
  <2> QED
    BY <2>2, <2>3
<1>3. CASE Apply
  BY <1>3, <1>a DEF AnswerInv, Apply, CarriedOut, IInv, BuffInv, Asks, Copying
<1>4. CASE CopyRecord("pw", "music") \/ CopyRecord("music", "sch")
  BY <1>4, <1>a DEF AnswerInv, CopyRecord, history, Copying
<1>5. CASE CopyRecord("sch", "write")
  <2>1. /\ sys_data'.pw \in since.pw /\ sys_data'.music \in since.music
        /\ sys_data'.sch \in since.sch
    BY <1>5, <1>a DEF CopyRecord, TypeOK, SysData, IInv, SinceInv, Carried, Copying
  <2>2. /\ send_pad_msg' = SystemAnswer(sys_data'.pw, sys_data'.music, sys_data'.sch)
        /\ pc' = "write" /\ UNCHANGED <<message, since, sendBuff>>
        /\ message.type \notin {"GET_MUSIC_LIST", "unknown"}
    BY <1>5, <1>a DEF CopyRecord, AnswerInv, history, Copying
  <2>3. Service!Answer' = {SystemAnswer(pw, music, sch) : pw \in since'.pw, music \in since'.music,
                                                         sch \in since'.sch}
    BY <2>2 DEF Service!Answer, Service!SystemAnswer, SystemAnswer
  <2>4. send_pad_msg' \in Service!Answer'
    BY <2>1, <2>2, <2>3
  <2> QED
    BY <2>2, <2>4 DEF AnswerInv, Copying
<1>6. CASE make_music_list_packet
  <2>1. /\ send_pad_msg' = ListAnswer /\ message'.type = "GET_MUSIC_LIST" /\ pc' = "write"
    BY <1>6, <1>a DEF make_music_list_packet, AnswerInv, history
  <2>2. Service!Answer' = {ListAnswer}
    BY <2>1 DEF Service!Answer, Service!ListAnswer, ListAnswer
  <2> QED
    BY <2>1, <2>2 DEF AnswerInv, Copying
<1>7. CASE WriteAndClose
  BY <1>7 DEF AnswerInv, WriteAndClose, Copying
<1>8. CASE \E c \in Clients : Connect(c) \/ (\E r \in Requests : Ask(c, r)) \/ HangUp(c)
  BY <1>8, <1>a, AnswerKept DEF Connect, Ask, HangUp, serverVars, history
<1>9. CASE StoreByOthers
  <2>1. CASE pc = "write"
    <3>1. since' = [pw |-> since.pw \cup {shared'.pw}, music |-> since.music \cup {shared'.music},
                    sch |-> since.sch \cup {shared'.sch}]
      BY <1>9, <2>1, <1>a, OthersType, SinceGrows DEF StoreByOthers, TypeOK
    <3>2. since.pw \subseteq since'.pw /\ since.music \subseteq since'.music /\ since.sch \subseteq since'.sch
      BY <3>1
    <3>3. UNCHANGED <<pc, send_pad_msg, sendBuff, message>>
      BY <1>9 DEF StoreByOthers, serverVars
    <3>4. send_pad_msg' \in Service!Answer'
      BY <2>1, <3>2, <3>3, <1>a DEF AnswerInv, Service!Answer
    <3> QED
      BY <2>1, <3>3, <3>4 DEF AnswerInv, Copying
  <2>2. CASE pc # "write"
    BY <1>9, <2>2, <1>a DEF AnswerInv, StoreByOthers, serverVars
  <2> QED
    BY <2>1, <2>2
<1>10. CASE SongPlayed \/ TimeWaitOver
  BY <1>10, <1>a, AnswerKept DEF SongPlayed, TimeWaitOver, history
<1>11. CASE Restart
  BY <1>11 DEF AnswerInv, Restart, Copying
<1>12. CASE UNCHANGED vars
  BY <1>12, <1>a, AnswerKept DEF vars, serverVars, history
<1> QED
  BY <1>1, <1>2, <1>3, <1>4, <1>5, <1>6, <1>7, <1>8, <1>9, <1>10, <1>11, <1>12
     DEF Next, pad_mgr_task, Environment, make_system_info_packet

-----------------------------------------------------------------------------
(***************************************************************************)
(* The invariant holds in every reachable state.                           *)
(***************************************************************************)
LEMMA InitIInv == Init => IInv
<1> SUFFICES ASSUME Init PROVE IInv
  OBVIOUS
<1>1. BuffInv
  BY DEF Init, BuffInv, Carried, Copying
<1>2. SinceInv
  BY DEF Init, SinceInv, Carried, Copying
<1>3. AnswerInv
  BY DEF Init, AnswerInv, Copying
<1> QED
  BY <1>1, <1>2, <1>3, InitType, InitConn DEF IInv

LEMMA Invariance == Spec => []IInv
<1>1. IInv /\ [Next]_vars => IInv'
  BY NextType, NextConn, NextBuff, NextSince, NextAnswer DEF IInv
<1> QED
  BY <1>1, InitIInv, PTL DEF Spec

\* The types, TypeOK of EggmPad: in particular no descriptor is taken that is
\* not there, whatever songs and given up connections have lost.
THEOREM TypeCorrect == Spec => []TypeOK
<1>1. IInv => TypeOK
  BY DEF IInv
<1> QED
  BY <1>1, Invariance, PTL

-----------------------------------------------------------------------------
(***************************************************************************)
(* The server implements the service.                                      *)
(***************************************************************************)
Serving == IF Carried THEN connfd ELSE None

\* Nothing a client can notice has happened.
LEMMA Unnoticed ==
  ASSUME UNCHANGED <<shared, client, request, message, since, sendBuff>>, Serving' = Serving
  PROVE  UNCHANGED Service!vars
  BY DEF Service!vars, Serving

\* The store of a command is one of its outcomes.
LEMMA StoredOutcome ==
  ASSUME NEW m \in Messages, ~Asks(m)
  PROVE  Stored(m) \in Service!Outcomes(shared, m)
<1>1. m.type \in {"SET_PW", "SET_CUR_MUSIC", "PLAY_BEFORE", "PLAY_NEXT", "SCH_START", "SCH_END",
                  "SET_MUSIC_LIST"}
  BY DEF Messages, Types, Asks
<1> QED
  BY <1>1 DEF Stored, Service!Outcomes

\* For a question, or the list that is current, nothing is stored.
LEMMA NoOutcome ==
  ASSUME NEW m \in Messages, Asks(m) \/ SameList(m)
  PROVE  shared \in Service!Outcomes(shared, m)
  BY DEF Asks, SameList, Service!Outcomes

LEMMA InitMaps == Init => Service!Init
<1> SUFFICES ASSUME Init PROVE Service!Init
  OBVIOUS
<1>1. ~Carried
  BY DEF Init, Carried, Copying
<1> QED
  BY <1>1, ZeroType
     DEF Init, Service!Init, NotServing, Service!NotServing, NoAnswer, Service!NoAnswer,
         NoRequest, Service!NoRequest, NoMessage, Service!NoMessage, SharedData,
         Service!SharedData, MusicData, Service!MusicData, SchData, Service!SchData

LEMMA CarriesOut ==
  ASSUME IInv, Dispatch \/ Apply, pc' # "apply"
  PROVE  Service!CarryOut(connfd)
<1>1. TypeOK /\ ConnInv /\ BuffInv
  BY DEF IInv
<1>2. connfd \in Clients /\ client[connfd] \in HasAsked /\ pc \in {"serve", "apply"}
  BY <1>1, ServedAsked DEF Dispatch, Apply
<1>3. Serving = None /\ Serving' = connfd
  BY <1>2 DEF Dispatch, Apply, Serving, Carried, Copying
<1>4. message' = Service!Overwrite(message, request[connfd]) /\ message' = recvBuff
  BY <1>1, <1>2 DEF BuffInv, Dispatch, Apply, CarriedOut, Overwrite, Service!Overwrite
<1>5. shared' \in Service!Outcomes(shared, message')
  BY <1>1, <1>4, StoredOutcome, NoOutcome DEF Dispatch, Apply, TypeOK, BuffInv
<1>6. since' = [pw |-> {shared'.pw}, music |-> {shared'.music}, sch |-> {shared'.sch}]
  BY DEF Dispatch, Apply, CarriedOut
<1>7. UNCHANGED <<client, request, sendBuff>>
  BY DEF Dispatch, Apply
<1> QED
  BY <1>2, <1>3, <1>4, <1>5, <1>6, <1>7 DEF Service!CarryOut, Serving, HasAsked

LEMMA Replies ==
  ASSUME IInv, WriteAndClose
  PROVE  Service!Reply(connfd)
<1>1. TypeOK /\ ConnInv /\ BuffInv /\ AnswerInv
  BY DEF IInv
<1>2. Serving = connfd /\ Serving' = None
  BY DEF WriteAndClose, Serving, Carried, Copying
<1>3. sendBuff' \in Service!Answer
  BY <1>1 DEF AnswerInv, WriteAndClose
<1> QED
  BY <1>2, <1>3
     DEF Service!Reply, Serving, WriteAndClose, Answered, NotServing, Service!NotServing,
         NoRequest, Service!NoRequest, NoMessage, Service!NoMessage

LEMMA Stores ==
  ASSUME IInv, StoreByOthers
  PROVE  Service!Store
<1>1. TypeOK /\ ConnInv /\ BuffInv /\ SinceInv
  BY DEF IInv
<1>2. shared' \in SharedData
  BY <1>1, OthersType DEF TypeOK
<1>3. UNCHANGED <<client, request, message, sendBuff>> /\ Serving' = Serving
  BY DEF StoreByOthers, serverVars, clientVars, Serving, Carried
<1>4. since' = IF Serving = None THEN since
               ELSE [pw |-> since.pw \cup {shared'.pw}, music |-> since.music \cup {shared'.music},
                     sch |-> since.sch \cup {shared'.sch}]
  <2>1. CASE Carried
    <3>1. Serving # None
      BY <2>1, <1>1, ServedAsked DEF Serving
    <3> QED
      BY <2>1, <3>1, <1>1, <1>2, SinceGrows DEF StoreByOthers, Carried, TypeOK
  <2>2. CASE ~Carried
    BY <2>2 DEF StoreByOthers, Serving, Carried
  <2> QED
    BY <2>1, <2>2
<1> QED
  BY <1>2, <1>3, <1>4
     DEF Service!Store, Serving, SharedData, Service!SharedData, MusicData, Service!MusicData,
         SchData, Service!SchData

LEMMA NextMaps == IInv /\ [Next]_vars => [Service!Next]_(Service!vars)
<1> SUFFICES ASSUME IInv, [Next]_vars PROVE [Service!Next]_(Service!vars)
  OBVIOUS
<1>a. TypeOK /\ ConnInv /\ BuffInv
  BY DEF IInv
<1>1. CASE Bind \/ RetryBind \/ Accept \/ ReadMessage
  BY <1>1, Unnoticed
     DEF Bind, RetryBind, Accept, ReadMessage, history, Serving, Carried, Copying
<1>2. CASE ReadNothing
  <2>1. connfd \in Clients
    BY <1>2, <1>a DEF ReadNothing, TypeOK, ConnInv, Setup
  <2>2. Service!Forget(connfd)
    BY <1>2 DEF ReadNothing, Service!Forget, history, Carried, Copying
  <2> QED
    BY <2>1, <2>2 DEF Service!Next
<1>3. CASE Dispatch \/ Apply
  <2>1. CASE pc' = "apply"
    BY <1>3, <2>1, Unnoticed DEF Dispatch, Apply, Serving, Carried, Copying
  <2>2. CASE pc' # "apply"
    <3>1. connfd \in Clients
      BY <1>3, <1>a, ServedAsked DEF Dispatch, Apply
    <3> QED
      BY <1>3, <2>2, <3>1, CarriesOut DEF Service!Next
  <2> QED
    BY <2>1, <2>2
<1>4. CASE make_system_info_packet \/ make_music_list_packet
  BY <1>4, Unnoticed
     DEF make_system_info_packet, make_music_list_packet, CopyRecord, history, Serving,
         Carried, Copying
<1>5. CASE WriteAndClose
  <2>1. connfd \in Clients
    BY <1>5, <1>a, ServedAsked DEF WriteAndClose, Carried
  <2> QED
    BY <1>5, <2>1, Replies DEF Service!Next
<1>6. ASSUME NEW c \in Clients, Connect(c) PROVE Service!Next
  <2>1. Service!Connect(c)
    BY <1>6 DEF Connect, Service!Connect, serverVars, history, Carried
  <2> QED
    BY <2>1 DEF Service!Next
<1>7. ASSUME NEW c \in Clients, NEW r \in Requests, Ask(c, r) PROVE Service!Next
  <2>1. Service!Ask(c)
    BY <1>7
       DEF Ask, Service!Ask, serverVars, history, Carried, Requests, Service!Requests, Whole,
           Service!Whole
  <2> QED
    BY <2>1 DEF Service!Next
<1>8. ASSUME NEW c \in Clients, HangUp(c) PROVE Service!Next
  <2>1. Service!HangUp(c)
    BY <1>8 DEF HangUp, Service!HangUp, serverVars, Carried
  <2> QED
    BY <2>1 DEF Service!Next
<1>9. CASE StoreByOthers
  BY <1>9, Stores DEF Service!Next
<1>10. CASE SongPlayed \/ TimeWaitOver
  BY <1>10, Unnoticed DEF SongPlayed, TimeWaitOver, clientVars, history, Serving, Carried
<1>11. CASE Restart
  <2>1. ~Carried'
    BY <1>11 DEF Restart, Carried, Copying
  <2>2. shared' \in Service!SharedData
    BY <1>11, ZeroType
       DEF Restart, SharedData, Service!SharedData, MusicData, Service!MusicData, SchData,
           Service!SchData
  <2>3. Service!Restart
    BY <1>11, <2>1, <2>2
       DEF Restart, Service!Restart, Service!Connected, NotServing, Service!NotServing, NoAnswer,
           Service!NoAnswer, NoRequest, Service!NoRequest, NoMessage, Service!NoMessage
  <2> QED
    BY <2>3 DEF Service!Next
<1>12. CASE UNCHANGED vars
  BY <1>12, Unnoticed DEF vars, serverVars, clientVars, history, Serving, Carried
<1> QED
  BY <1>1, <1>2, <1>3, <1>4, <1>5, <1>6, <1>7, <1>8, <1>9, <1>10, <1>11, <1>12
     DEF Next, pad_mgr_task, Environment

\* The refinement ServiceSpec of EggmPad: a request is carried out once and
\* answered once, no record of the answer is torn or older than the command,
\* and only messages that come in pieces mix with earlier ones.
THEOREM Refines == Spec => ServiceSpec
<1> QED
  BY InitMaps, NextMaps, Invariance, PTL DEF Spec, ServiceSpec, Service!Spec

=============================================================================
