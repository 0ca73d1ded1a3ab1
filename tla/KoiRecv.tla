------------------------------ MODULE KoiRecv ------------------------------
(***************************************************************************)
(* How koid answers RECV commands: the message table (lib/kData), the      *)
(* table of waiting RECV commands (lib/kRecvTimeoutTimer), the commands    *)
(* of the dispatcher that use them, and the main loop around them.         *)
(*                                                                         *)
(* A message that was sent or received is appended to a linked list and    *)
(* stays there, marked read once it was delivered, until it is flushed.  A *)
(* RECV that finds no unread message is appended to a second linked list,  *)
(* and every turn of the main loop walks that list.  Both lists are those  *)
(* of KoiList, with its last pointers.                                     *)
(*                                                                         *)
(* A turn of the loop is: close timers, walk of the waiting RECVs, one     *)
(* event from select().  koid has one thread; the phases are its order.    *)
(* The walk is modelled node by node, and time passes at any moment.       *)
(***************************************************************************)
EXTENDS KoiList, KoiSocketTable, FiniteSets

CONSTANTS
  MSG_MAXMSGNUM,  \* kData: the message id at which it refuses messages
  OpenTypes,      \* types of socket that the commands open
  RecvIds,        \* the socket ids that RECV commands carry
  Timeouts,       \*   and their timeouts
  MaxSockets,     \* bounds of the model: entries of the socket table,
  MaxMessages,    \*   messages ever registered,
  MaxRequests,    \*   RECV commands,
  MaxTime         \*   and the clock

ASSUME RecvAssumption ==
  /\ MSG_MAXMSGNUM \in Nat
  /\ OpenTypes \subseteq ListenTypes \union DataTypes
  /\ RecvIds \subseteq Int /\ Timeouts \subseteq Nat
  /\ MaxSockets \in Nat /\ MaxMessages \in Nat
  /\ MaxRequests \in Nat /\ MaxTime \in Nat

VARIABLES
  sockets,     \* g_socket_start_ptr; its length is g_socket_socketid
  message,     \* every message ever registered, freed ones included
  msgs,        \* g_msg_start_ptr, g_msg_last_ptr: list over message
  msg_dataid,  \* g_msg_dataid
  request,     \* every RECV command
  timers,      \* g_rt_start_ptr, g_rt_last_ptr: list over request
  rt_num,      \* g_rt_num
  acks,        \* the RECV acks written, in the order they were written
  now,         \* what gettimeofday() would return, in whole ticks
  phase,       \* where the main loop stands
  pos,         \* kRecvTimerProc: the node its walk stands on, 0 = none
  current_time \* kRecvTimerProc: the clock reading it compares with

tables == <<sockets, message, msgs, msg_dataid, request, timers, rt_num, acks>>
loop == <<phase, pos, current_time>>
vars == <<tables, now, loop>>

----------------------------------------------------------------------------
(* kData *)

\* The messages that satisfy a RECV: unread, received, and of that socket,
\* of a live child of that listening socket, or of any socket for id 0.
Wanted(id) ==
  {m \in msgs.linked :
     /\ message[m].mode = "RECV" /\ ~message[m].read
     /\ \/ id = 0
        \/ /\ id # 0 /\ sockets[id].type \in DataTypes
           /\ message[m].socketid = id
        \/ /\ id # 0 /\ sockets[id].type \in ListenTypes
           /\ sockets[message[m].socketid].type \in {"DATA", "UDP"}
           /\ sockets[message[m].socketid].alive
           /\ sockets[message[m].socketid].parent = id}

\* kDataGetDataBySocketid looks at the socket id only when there is a list.
BadId(id) ==
  /\ msgs.linked # {}
  /\ id # 0
  /\ id \in DOMAIN sockets => sockets[id].type \in UnixTypes

HasData(id) == ~BadId(id) /\ msgs.linked # {} /\ Wanted(id) # {}

\* Mutant: the newest message instead of the oldest.
DataFor_Newest(id) == Final(Wanted(id))

\* The message that kDataGetDataBySocketid returns: the first on the list.
DataFor(id) == First(Wanted(id))

\* Mutant: a delivered message is not marked.
MarkRead_Not(m) == UNCHANGED message

MarkRead(m) == message' = [message EXCEPT ![m].read = TRUE]

NewMessage(s, mode) ==
  [dataid |-> msg_dataid + 1, socketid |-> s, mode |-> mode, read |-> FALSE]

\* The early returns of kDataRegist.
RegistRefused(t, s) == msg_dataid = MSG_MAXMSGNUM \/ t[s].type \notin DataTypes

\* kDataRegist, on the table t of sockets.
kDataRegist(t, s, mode) ==
  IF RegistRefused(t, s)
    THEN UNCHANGED <<message, msgs, msg_dataid>>
    ELSE /\ message' = Append(message, NewMessage(s, mode))
         /\ msgs' = Link(msgs, Len(message) + 1)
         /\ msg_dataid' = msg_dataid + 1

kDataInit == msgs' = EmptyList /\ msg_dataid' = 0

Matching(socketid_flag, dataid_flag, socketid, dataid) ==
  {m \in msgs.linked :
     \/ dataid_flag = 1 /\ message[m].dataid = dataid
     \/ socketid_flag = 1 /\ message[m].socketid = socketid}

kDataClear(socketid_flag, dataid_flag, socketid, dataid) ==
  IF msgs.linked # {} /\ <<socketid_flag, dataid_flag>> = <<0, 0>>
    THEN IF socketid = 0 /\ dataid = 0 THEN kDataInit
         ELSE UNCHANGED <<msgs, msg_dataid>>
    ELSE /\ msgs' = UnlinkAll(msgs, Matching(socketid_flag, dataid_flag,
                                             socketid, dataid))
         /\ UNCHANGED msg_dataid
----------------------------------------------------------------------------
(* kRecvTimeoutTimer *)

\* Mutant: one waiting RECV per socket is not enforced.
TimerRefused_NoDoubleCheck(id) == id < 0 \/ rt_num = Len(sockets)

\* The early returns of kRecvTimerSet.
TimerRefused(id) ==
  \/ id < 0
  \/ rt_num = Len(sockets)
  \/ \E r \in timers.linked : request[r].socketid = id

\* kRecvTimerSet for the RECV command that becomes request Len(request) + 1.
kRecvTimerSet(id) ==
  IF TimerRefused(id) THEN UNCHANGED <<timers, rt_num>>
  ELSE /\ timers' = Link(timers, Len(request) + 1)
       /\ rt_num' = rt_num + 1

\* Mutant: the node stays on the list.
kRecvTimerRemove_KeepsNode(r) == UNCHANGED <<timers, rt_num>>

\* kRecvTimerRemove: only one node on the list has the socket id of r.
kRecvTimerRemove(r) ==
  /\ timers' = Unlink(timers, r)
  /\ rt_num' = rt_num - 1

\* kRecvTimerInit returns early when the list is empty, counter and last
\* pointer as they are, and it never resets the last pointer.
kRecvTimerInit ==
  IF timers.linked = {} THEN UNCHANGED <<timers, rt_num>>
  ELSE /\ timers' = [timers EXCEPT !.linked = {}]
       /\ rt_num' = 0

\* recv_ack_return
Ack(r, result, m) == acks' = Append(acks, [req |-> r, result |-> result, msg |-> m])

\* Mutant: the clock is not read again.
ClockReading_Stale == current_time
ClockReading == now

\* The walk of kRecvTimerProc.
WalkStart ==
  /\ phase = "close"
  /\ current_time' = ClockReading
  /\ IF rt_num = 0 \/ timers.linked = {}
       THEN phase' = "select" /\ pos' = 0
       ELSE phase' = "walk" /\ pos' = First(timers.linked)
  /\ UNCHANGED <<tables, now>>

\* Mutant: the deadline itself does not count.
Expired_Strict(r) == request[r].expire < current_time

Expired(r) == request[r].expire <= current_time

\* The loop goes on with the rt_next of the node it stood on, freed or not.
WalkOn ==
  /\ pos' = NextNode(timers, pos)
  /\ phase' = IF pos' = 0 THEN "select" ELSE "walk"
  /\ UNCHANGED <<sockets, msgs, msg_dataid, request, now, current_time>>

WalkError ==
  /\ phase = "walk" /\ BadId(request[pos].socketid)
  /\ kRecvTimerRemove(pos)
  /\ UNCHANGED <<message, acks>>
  /\ WalkOn

WalkDelivers ==
  /\ phase = "walk" /\ HasData(request[pos].socketid)
  /\ MarkRead(DataFor(request[pos].socketid))
  /\ Ack(pos, "OK", DataFor(request[pos].socketid))
  /\ kRecvTimerRemove(pos)
  /\ WalkOn

NoData(id) == ~BadId(id) /\ ~HasData(id)

WalkTimesOut ==
  /\ phase = "walk" /\ NoData(request[pos].socketid) /\ Expired(pos)
  /\ Ack(pos, "NG_TIMEOUT", 0)
  /\ kRecvTimerRemove(pos)
  /\ UNCHANGED message
  /\ WalkOn

WalkWaits ==
  /\ phase = "walk" /\ NoData(request[pos].socketid) /\ ~Expired(pos)
  /\ UNCHANGED <<message, timers, rt_num, acks>>
  /\ WalkOn
----------------------------------------------------------------------------
(* The events of the main loop *)

\* select() returned and one handle is served: the next turn begins.
Served == phase = "select" /\ phase' = "close" /\ UNCHANGED <<now, pos, current_time>>

\* A close timer expires and kSocketClose(id) runs.  A CLOSE command may
\* name any id; what the stack holds is not known.
CloseTimerFires ==
  /\ phase = "close"
  /\ \E id \in 0 .. MaxSockets, garbage \in BOOLEAN :
       sockets' = MarkClosed(sockets, ClosedBy(sockets, id, garbage))
  /\ UNCHANGED <<message, msgs, msg_dataid, request, timers, rt_num, acks, now, loop>>

NewSocket(type, parent) == [type |-> type, alive |-> TRUE, parent |-> parent]

\* A client connects to the UNIX socket.
ClientConnects ==
  /\ Served /\ Len(sockets) < MaxSockets
  /\ sockets' = Append(sockets, NewSocket("UNIX_DATA", 0))
  /\ UNCHANGED <<message, msgs, msg_dataid, request, timers, rt_num, acks>>

Client(c) == c \in DOMAIN sockets /\ sockets[c].type = "UNIX_DATA" /\ sockets[c].alive

\* A CONNEC or LISTEN command opens a socket; of its answer nothing is kept.
OpenReq(type) ==
  /\ Served /\ Len(sockets) < MaxSockets
  /\ \E c \in DOMAIN sockets : Client(c)
  /\ sockets' = Append(sockets, NewSocket(type, 0))
  /\ UNCHANGED <<message, msgs, msg_dataid, request, timers, rt_num, acks>>

\* kDispatcherProcPort: a connection on a listening TCP socket.
Accept(l) ==
  /\ Served /\ Len(sockets) < MaxSockets
  /\ Alive(sockets, l) /\ sockets[l].type = "LISTEN_TCP"
  /\ sockets' = Append(sockets, NewSocket("DATA", l))
  /\ UNCHANGED <<message, msgs, msg_dataid, request, timers, rt_num, acks>>

\* The same on a listening UDP socket: the datagram is registered at once.
AcceptUdp(l) ==
  /\ Served /\ Len(sockets) < MaxSockets /\ Len(message) < MaxMessages
  /\ Alive(sockets, l) /\ sockets[l].type = "LISTEN_UDP"
  /\ sockets' = Append(sockets, NewSocket("UDP", l))
  /\ kDataRegist(sockets', Len(sockets) + 1, "RECV")
  /\ UNCHANGED <<request, timers, rt_num, acks>>

\* A whole message arrives on a data socket.
Arrive(s) ==
  /\ Served /\ Len(message) < MaxMessages
  /\ Alive(sockets, s) /\ sockets[s].type \in DataTypes
  /\ kDataRegist(sockets, s, "RECV")
  /\ UNCHANGED <<sockets, request, timers, rt_num, acks>>

\* SEND, or the data of a CONNEC.  kSocketSend does not ask whether the
\* socket is alive; a send that fails changes nothing.
SendReq(s) ==
  /\ Served /\ Len(message) < MaxMessages
  /\ \E c \in DOMAIN sockets : Client(c)
  /\ s \in DOMAIN sockets /\ sockets[s].type \in DataTypes
  /\ kDataRegist(sockets, s, "SEND")
  /\ UNCHANGED <<sockets, request, timers, rt_num, acks>>

NewRequest(c, id, expire) == [client |-> c, socketid |-> id, expire |-> expire]

RecvStart(c) ==
  /\ Served /\ Len(request) < MaxRequests
  /\ Client(c)
  /\ UNCHANGED <<sockets, msgs, msg_dataid>>

\* process_command_recv_req, its three outcomes.
RecvRefused(c, id) ==
  /\ RecvStart(c) /\ BadId(id)
  /\ request' = Append(request, NewRequest(c, id, 0))
  /\ Ack(Len(request) + 1, "NG_OTHER", 0)
  /\ UNCHANGED <<message, timers, rt_num>>

RecvDelivers(c, id) ==
  /\ RecvStart(c) /\ HasData(id)
  /\ request' = Append(request, NewRequest(c, id, 0))
  /\ MarkRead(DataFor(id))
  /\ Ack(Len(request) + 1, "OK", DataFor(id))
  /\ UNCHANGED <<timers, rt_num>>

RecvWaits(c, id) ==
  /\ RecvStart(c) /\ NoData(id)
  /\ \E t \in Timeouts : request' = Append(request, NewRequest(c, id, now + t))
  /\ kRecvTimerSet(id)
  /\ UNCHANGED <<message, acks>>

\* FLUSH
FlushReq ==
  /\ Served
  /\ \E c \in DOMAIN sockets : Client(c)
  /\ \E socketid_flag, dataid_flag \in {0, 1},
        socketid \in 0 .. MaxSockets, dataid \in 0 .. MSG_MAXMSGNUM :
       kDataClear(socketid_flag, dataid_flag, socketid, dataid)
  /\ UNCHANGED <<sockets, message, request, timers, rt_num, acks>>

\* End of file from a client: process_si_type_unixd_data closes its socket
\* and every other that is not a UNIX socket, and drops all waiting RECVs.
Hangup(c) ==
  /\ Served
  /\ Client(c)
  /\ sockets' = MarkClosed(sockets, {c} \union CloseAll(sockets))
  /\ kRecvTimerInit
  /\ UNCHANGED <<message, msgs, msg_dataid, request, acks>>

\* select() times out, or the handle changes none of this state.
Idle == Served /\ UNCHANGED tables

Tick == now < MaxTime /\ now' = now + 1 /\ UNCHANGED <<tables, loop>>
----------------------------------------------------------------------------
Init ==
  /\ sockets = <<NewSocket("UNIX", 0)>>
  /\ message = <<>>
  /\ msgs = EmptyList
  /\ msg_dataid = 0
  /\ request = <<>>
  /\ timers = EmptyList
  /\ rt_num = 0
  /\ acks = <<>>
  /\ now = 0
  /\ phase = "close"
  /\ pos = 0
  /\ current_time = 0

Walk == WalkError \/ WalkDelivers \/ WalkTimesOut \/ WalkWaits

RecvReq(c, id) == RecvRefused(c, id) \/ RecvDelivers(c, id) \/ RecvWaits(c, id)

Event ==
  \/ ClientConnects
  \/ \E type \in OpenTypes : OpenReq(type)
  \/ \E s \in DOMAIN sockets :
       Accept(s) \/ AcceptUdp(s) \/ Arrive(s) \/ SendReq(s)
  \/ \E c \in DOMAIN sockets :
       Hangup(c) \/ \E id \in RecvIds : RecvReq(c, id)
  \/ FlushReq
  \/ Idle

Next == CloseTimerFires \/ WalkStart \/ Walk \/ Event \/ Tick

Spec == Init /\ [][Next]_vars

\* One thread runs the loop and select() returns after LOOPWAIT_SEC at the
\* latest; the scan of the close timers ends; time passes.
Fairness ==
  WF_vars(WalkStart) /\ WF_vars(Walk) /\ WF_vars(Event) /\ WF_vars(Tick)

FairSpec == Spec /\ Fairness
----------------------------------------------------------------------------
MessageEntry ==
  [dataid : Nat, socketid : Nat, mode : {"SEND", "RECV"}, read : BOOLEAN]
RequestEntry == [client : Nat, socketid : Int, expire : Nat]
AckEntry == [req : Nat, result : {"OK", "NG_TIMEOUT", "NG_OTHER"}, msg : Nat]

TypeOK ==
  /\ sockets \in Seq(SocketEntry)
  /\ message \in Seq(MessageEntry)
  /\ \A m \in DOMAIN message : message[m].socketid \in DOMAIN sockets
  /\ msgs \in [linked : SUBSET (DOMAIN message), last : Nat]
  /\ msg_dataid \in 0 .. MSG_MAXMSGNUM
  /\ request \in Seq(RequestEntry)
  /\ timers \in [linked : SUBSET (DOMAIN request), last : Nat]
  /\ rt_num \in Nat
  /\ acks \in Seq(AckEntry)
  /\ \A i \in DOMAIN acks : acks[i].req \in DOMAIN request
  /\ now \in Nat /\ current_time \in Nat
  /\ phase \in {"close", "walk", "select"}
  /\ pos \in {0} \union DOMAIN request

Delivery(i) == acks[i].result = "OK"

\* A RECV command gets at most one answer, whoever gives it: the command
\* itself, a later walk that finds data, or the timeout.
AckedOnce ==
  \A i, j \in DOMAIN acks : acks[i].req = acks[j].req => i = j

\* No message is delivered twice, neither to two RECV commands of different
\* socket ids that both cover it (0, the listening socket, the socket).
DeliveredOnce ==
  \A i, j \in DOMAIN acks :
    Delivery(i) /\ Delivery(j) /\ acks[i].msg = acks[j].msg => i = j

\* The messages of one socket are delivered in the order they arrived,
\* through whichever socket ids they are asked for.
DeliveredInOrder ==
  \A i, j \in DOMAIN acks :
    /\ Delivery(i) /\ Delivery(j) /\ i < j
    /\ message[acks[i].msg].socketid = message[acks[j].msg].socketid
    => acks[i].msg < acks[j].msg

\* When a walk is over, no RECV on the list could have been answered: what
\* one node takes out of the list hides no other node from the walk.
WalkLeavesNothingDue ==
  phase = "select" =>
    \A r \in timers.linked :
      /\ NoData(request[r].socketid)
      /\ request[r].expire > current_time

\* kRecvTimerProc skips its walk when rt_num is 0: the counter never falls
\* below the number of RECVs on the list.
CounterCoversList == rt_num >= Cardinality(timers.linked)

\* One RECV per socket id waits: kRecvTimerRemove takes the first node with
\* the socket id for the one the walk stands on.
OneTimerPerSocket ==
  \A r, q \in timers.linked : request[r].socketid = request[q].socketid => r = q

\* The list of waiting RECVs can be trusted: it is walked as long as there is
\* something on it, and what is removed is what was answered.
WaitingListSound == CounterCoversList /\ OneTimerPerSocket

\* A message id names one message of the table, and ids grow along the list,
\* however often it was flushed.
DataIdsGrow ==
  \A m, n \in msgs.linked : m < n => message[m].dataid < message[n].dataid

\* A RECV that waits on the list with a deadline inside the modelled time
\* leaves it: answered with data or a timeout, or dropped because a client
\* hung up or its socket id turned out to be a bad one.
WaitEnds ==
  \A r \in 1 .. MaxRequests :
    (r \in timers.linked /\ request[r].expire <= MaxTime)
      ~> (r \notin timers.linked)
----------------------------------------------------------------------------
(* What a comment in the code says of the message table and does not hold. *)

\* "last data's next is new": a new message is linked behind the last one,
\* so that it and the others are on the list (kDataRegist).
MessageLinkedLast ==
  [][ msg_dataid' > msg_dataid =>
        msgs'.linked = msgs.linked \union {Len(message')} ]_vars
=============================================================================
