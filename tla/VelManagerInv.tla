-------------------------- MODULE VelManagerInv --------------------------
(***************************************************************************)
(* What holds of velm and its agents in every state: the invariants that   *)
(* VelManager_proofs proves, what they are built from, and the cases that  *)
(* the steps fall into.                                                    *)
(***************************************************************************)
EXTENDS VelManager

Kinds == {"connect", "traffic", "close", "delay", "sync"}
InResume(t) == \E i \in 1 .. Len(resume) : resume[i] = t
Stands(t) == stmtPos[t] <= Len(Program(t))
Current(t) == Program(t)[stmtPos[t]]
Ops(t) == StepsOf(Current(t).kind)

----------------------------------------
(* Types. *)

AnswerOps == Stats \ {"ACCEPT"}
Requests == [op : AnswerOps, id : Nat, thread : Threads]
Messages == [op : AnswerOps \union {"ACCEPTED", "CLOSED"}, id : Nat,
             id_sock : Nat, thread : Threads, ok : BOOLEAN]
SocketType == [kind : {"tcp", "udp", "listen"}, thread : Threads, id_req : Nat,
               reads : BOOLEAN, busy : {"no", "SEND", "RECVTERM"}]

ThreadTypes ==
  /\ scenario \in Scenarios
  /\ stmtPos \in [Threads -> Nat \ {0}] /\ step \in [Threads -> Nat \ {0}]
  /\ aborted \subseteq Threads /\ resume \in Seq(Threads)
  /\ waitfor \in [Events -> SUBSET Threads] /\ fired \subseteq Events
  /\ \A e \in Events : waitfor[e] \subseteq Members[e]

TableTypes ==
  /\ requestNo \in Nat \ {0}
  /\ requests \in [Agents -> SUBSET [id : Nat, stat : Stats, thread : Threads]]
  /\ connects \in [Agents -> SUBSET [stat : {"OPENED", "CONNECTED", "CLOSING"},
                                     thread : Threads, id_sock : Fds]]
  /\ listens \subseteq [port : Ports, stat : {"REQ_LISTEN", "LISTEN"}, id_req : Nat]
  /\ accepts \subseteq [thread : Threads, port : Ports, id_sock : Fds]
  /\ incidents \subseteq {"request lost", "refused", "not connected", "unexpected",
                           "failed", "stray"}

AgentTypes ==
  /\ toAgent \in [Agents -> Seq(Requests)]
  /\ toManager \in [Agents -> Seq(Messages)]
  /\ fds \in [Agents -> [Fds -> {FreeFd} \union SocketType]]
  /\ backlog \in [Ports -> Seq(Threads)] /\ closed \in [Agents -> SUBSET Threads]
  /\ failures \in Nat

\* Operations on a socket name a descriptor, and so do good answers.
Proper(a, m) ==
  /\ m.op \in SocketOps \union {"CLOSED"} => m.id \in Fds /\ m.id_sock = m.id
  /\ m.ok => m.id_sock \in Fds
  /\ m.op = "ACCEPTED" => a = Server /\ m.ok

FdTypes ==
  \A a \in Agents :
    /\ \A i \in 1 .. Len(toAgent[a]) :
         toAgent[a][i].op \in SocketOps => toAgent[a][i].id \in Fds
    /\ \A i \in 1 .. Len(toManager[a]) : Proper(a, toManager[a][i])
    /\ \A r \in requests[a] : r.stat \in SocketOps => r.id \in Fds

TypeInv == ThreadTypes /\ TableTypes /\ AgentTypes /\ FdTypes

----------------------------------------
(* What the steps do to the queues and to the set of requests. *)

\* Remembering it.
Req(t, stat, id) == [id |-> id, stat |-> stat, thread |-> t]
Fresh(a, stat, id) == \A q \in requests[a] : q.id # id \/ q.stat # stat

----------------------------------------
(* The places of the threads, and how the steps move them. *)

\* t waits at that step of its statement.
Waits(t, end, op) ==
  /\ t \notin aborted /\ ~InResume(t) /\ Stands(t)
  /\ step[t] <= Len(Ops(t)) /\ Ops(t)[step[t]] = <<end, op>>
WaitsAt(t, a, op) ==
  \E end \in {"client", "server"} : a = AgentAt(end, t) /\ Waits(t, end, op)

\* t is past step k of its connect.
Past(t, k) ==
  \E i \in 1 .. Len(Program(t)) :
    /\ Program(t)[i].kind = "connect"
    /\ i < stmtPos[t] \/ (i = stmtPos[t] /\ step[t] > k)

\* A step leaves u where it is.
Still(u) ==
  /\ stmtPos'[u] = stmtPos[u] /\ step'[u] = step[u]
  /\ u \in aborted' <=> u \in aborted
  /\ InResume(u)' <=> InResume(u)

ResumeInv ==
  /\ \A i, j \in 1 .. Len(resume) : resume[i] = resume[j] => i = j
  /\ \A t \in Threads : InResume(t) => t \notin aborted

StepInv ==
  \A t \in Threads :
    /\ step[t] \in 1 .. 5
    /\ Stands(t) /\ ~InResume(t) /\ t \notin aborted => step[t] <= Len(Ops(t))

\* The threads that have reached an event wait there for the others.
SyncInv ==
  \A e \in Events : e \notin fired => \A t \in Members[e] \ waitfor[e] :
    Waits(t, "velm", "sync") /\ Current(t).event = e

\* A request is that of a thread that waits for its answer.
PendingInv ==
  \A a \in Agents : \A r \in requests[a] :
    /\ WaitsAt(r.thread, a, r.stat)
    /\ r.stat = "ACCEPT" => Conn(r.thread).protocol = "tcp"
    /\ \A q \in requests[a] : q.thread = r.thread => q = r

PlaceInv == ResumeInv /\ StepInv /\ SyncInv /\ PendingInv

----------------------------------------
(* What an operation is: a request, an accept that waits or finds its      *)
(* connection, or a matter of the thread alone.                            *)

NewOps == {"OPEN", "LISTEN"}
Known(op) == IF op = "CONNECT" THEN "OPENED" ELSE "CONNECTED"

Issues(t, a, end, op, id) ==
  /\ At(t, <<end, op>>) /\ a = AgentAt(end, t) /\ op \in AnswerOps
  /\ Send(t, a, op, id) /\ Request(t, a, op, id) /\ Wait
  /\ UNCHANGED <<scenario, accepts, toManager, agents>>
  /\ \/ /\ op \in NewOps /\ id = requestNo /\ requestNo' = requestNo + 1
        /\ UNCHANGED connects
        /\ op = "OPEN" => UNCHANGED listens
        /\ op = "LISTEN" =>
             /\ ~(Conn(t).protocol = "tcp" /\ Listening(Conn(t).port))
             /\ listens' = IF Listening(Conn(t).port) THEN listens
                           ELSE listens \union {[port |-> Conn(t).port, stat |-> "REQ_LISTEN",
                                                 id_req |-> id]}
     \/ /\ op \in SocketOps /\ UNCHANGED <<requestNo, listens>>
        /\ \E c \in Sockets(t, a, Known(op)) :
             /\ id = c.id_sock
             /\ connects' = IF op = "CLOSE"
                            THEN [connects EXCEPT ![a] =
                                   (connects[a] \ {c}) \union {[c EXCEPT !.stat = "CLOSING"]}]
                            ELSE connects

Awaits(t, l) ==
  /\ At(t, <<"server", "ACCEPT">>) /\ Conn(t).protocol = "tcp"
  /\ l \in listens /\ l.port = Conn(t).port
  /\ ~\E c \in accepts : c.thread = t /\ c.port = Conn(t).port
  /\ Request(t, Server, "ACCEPT", l.id_req) /\ Wait
  /\ UNCHANGED <<scenario, requestNo, listens, accepts, connects, toAgent, toManager, agents>>

Takes(t, c) ==
  /\ At(t, <<"server", "ACCEPT">>) /\ Conn(t).protocol = "tcp"
  /\ c \in accepts /\ c.thread = t /\ c.port = Conn(t).port
  /\ connects' = [connects EXCEPT ![Server] = connects[Server] \union
       {[stat |-> "CONNECTED", thread |-> t, id_sock |-> c.id_sock]}]
  /\ accepts' = accepts \ {c}
  /\ Skip(t)
  /\ UNCHANGED <<scenario, requestNo, requests, listens, toAgent, toManager, agents, incidents>>

Alone(t) ==
  /\ UNCHANGED <<scenario, requestNo, tables, toAgent, toManager, agents>>
  /\ \/ /\ UNCHANGED incidents
        /\ \/ OpSync(t) \/ OpDelay(t) \/ StatementEnds(t)
           \/ /\ At(t, <<"server", "LISTEN">>) /\ Conn(t).protocol = "tcp"
              /\ Listening(Conn(t).port) /\ Skip(t)
           \/ At(t, <<"server", "ACCEPT">>) /\ Conn(t).protocol = "udp" /\ Skip(t)
           \/ \E end \in {"client", "server"} :
                /\ At(t, <<end, "CLOSE">>) /\ Sockets(t, AgentAt(end, t), "CONNECTED") = {}
                /\ Skip(t)
     \/ /\ \E end \in {"client", "server"}, op \in Stats : At(t, <<end, op>>)
        /\ Abort(t)
        /\ \E i \in {"refused", "not connected"} : incidents' = incidents \union {i}

----------------------------------------
(* What an answer does: it settles the request that it answers.            *)

Pending(t) == {l \in listens : l.port = Conn(t).port /\ l.stat = "REQ_LISTEN"}

SettlesConnects(a, m, r) ==
  \/ /\ UNCHANGED connects
     /\ m.ok => m.op \notin {"OPEN", "CONNECT", "CLOSE"}
                  /\ ~(m.op = "LISTEN" /\ Conn(r.thread).protocol # "tcp")
  \/ m.op = "CLOSE" /\ connects' = HearClosing(a, r)
  \/ \E s \in {"OPENED", "CONNECTED"} :
       /\ m.ok
       /\ m.op = (IF s = "OPENED" THEN "OPEN" ELSE "CONNECT")
       /\ connects' = [connects EXCEPT ![a] = connects[a] \union
            {[stat |-> s, thread |-> r.thread, id_sock |-> m.id_sock]}]
  \/ /\ m.ok /\ m.op = "LISTEN" /\ Conn(r.thread).protocol # "tcp"
     /\ connects' = [connects EXCEPT ![Server] = connects[Server] \union
          {[stat |-> "CONNECTED", thread |-> r.thread, id_sock |-> m.id_sock]}]

SettlesListens(m, r) ==
  \/ m.op # "LISTEN" /\ UNCHANGED listens
  \/ m.op = "LISTEN" /\ ~m.ok /\ listens' = listens \ Pending(r.thread)
  \/ \E l \in Pending(r.thread) :
       /\ m.op = "LISTEN" /\ m.ok
       /\ listens' = IF Conn(r.thread).protocol = "tcp"
                     THEN (listens \ {l}) \union {[l EXCEPT !.stat = "LISTEN", !.id_req = m.id]}
                     ELSE listens \ {l}

Settles(a, m, r) ==
  /\ r \in requests[a] /\ r.id = m.id /\ r.stat = m.op
  /\ requests' = [requests EXCEPT ![a] = requests[a] \ {r}]
  /\ UNCHANGED <<accepts, waitfor, fired>>
  /\ \/ Complete(<<r.thread>>) /\ UNCHANGED incidents /\ (m.ok \/ m.op = "CLOSE")
     \/ Fail(r.thread) /\ incidents' = incidents \union {"failed"} /\ ~m.ok
  /\ SettlesConnects(a, m, r) /\ SettlesListens(m, r)

----------------------------------------
(* What an agent does with a descriptor. *)

\* A request for a new socket is declined, or there is one.
Declines(a, r) ==
  /\ Tell(a, Answer(r.op, r.id, 0, r.thread, FALSE))
  /\ failures' = failures + 1 /\ UNCHANGED fds

Creates(a, r, f, k) ==
  /\ fds[a][f] = FreeFd
  /\ k = (IF r.op = "LISTEN" /\ Conn(r.thread).protocol = "tcp"
          THEN "listen" ELSE Conn(r.thread).protocol)
  /\ fds' = [fds EXCEPT ![a][f] = Socket(k, r.thread, r.id)]
  /\ Tell(a, Answer(r.op, r.id, f, r.thread, TRUE))
  /\ UNCHANGED failures

\* A request at a socket: there is none, or it is connected, reads, is busy
\* from now on, or is closed.
Misses(a, r) ==
  /\ fds[a][r.id] = FreeFd
  /\ Tell(a, Answer(r.op, r.id, r.id, r.thread, FALSE))
  /\ UNCHANGED <<fds, backlog, closed, incidents>>

Dials(a, r) ==
  LET s == fds[a][r.id]
      port == Conn(r.thread).port
  IN  /\ r.op = "CONNECT"
      /\ Tell(a, Answer(r.op, r.id, r.id, r.thread, s.kind = "udp" \/ ListensAt(port)))
      /\ backlog' = IF s.kind = "tcp" /\ ListensAt(port)
                    THEN [backlog EXCEPT ![port] = Append(@, r.thread)]
                    ELSE backlog
      /\ UNCHANGED <<fds, closed>>

Reads(a, r) ==
  /\ r.op = "RECV"
  /\ fds' = [fds EXCEPT ![a][r.id] = [fds[a][r.id] EXCEPT !.reads = TRUE]]
  /\ Tell(a, Answer(r.op, r.id, r.id, r.thread, TRUE))
  /\ UNCHANGED <<backlog, closed>>

Begins(a, r) ==
  /\ r.op \in {"SEND", "RECVTERM"}
  /\ fds' = [fds EXCEPT ![a][r.id] = [fds[a][r.id] EXCEPT !.busy = r.op]]
  /\ UNCHANGED <<toManager, backlog, closed>>

Shuts(a, r) ==
  /\ r.op = "CLOSE"
  /\ fds' = [fds EXCEPT ![a][r.id] = FreeFd]
  /\ closed' = [closed EXCEPT ![a] = closed[a] \union {fds[a][r.id].thread}]
  /\ Tell(a, Answer(r.op, r.id, r.id, r.thread, TRUE))
  /\ UNCHANGED backlog

----------------------------------------
(* Every step keeps the types. *)

DataTypes == TableTypes /\ AgentTypes /\ FdTypes

----------------------------------------
(* A report that a connection was accepted. *)

Admits(m, r) ==
  /\ r \in Accepting(m)
  /\ requests' = [requests EXCEPT ![Server] = requests[Server] \ {r}]
  /\ connects' = [connects EXCEPT ![Server] = connects[Server] \union
       {[stat |-> "CONNECTED", thread |-> r.thread, id_sock |-> m.id_sock]}]
  /\ Complete(<<r.thread>>)
  /\ UNCHANGED <<listens, accepts, waitfor, fired, incidents>>

Keeps(m) ==
  /\ Accepting(m) = {}
  /\ accepts' = accepts \union
       {[thread |-> m.thread, port |-> Conn(m.thread).port, id_sock |-> m.id_sock]}
  /\ UNCHANGED <<threads, requests, connects, listens, incidents>>

\* The kinds of steps that velm makes when it hears something.
HearSteps(a, m) ==
  \/ /\ m.op = "CLOSED"
     /\ UNCHANGED <<threads, requests, listens, accepts, incidents>>
     /\ \/ UNCHANGED connects
        \/ \E c \in connects[a] : c.id_sock = m.id_sock
             /\ connects' = [connects EXCEPT ![a] = connects[a] \ {c}]
  \/ /\ m.op = "ACCEPTED" /\ \E l \in listens : l.id_req = m.id
     /\ Keeps(m) \/ \E r \in requests[Server] : Admits(m, r)
  \/ m.op \in AnswerOps /\ \E r \in requests[a] : Settles(a, m, r)
  \/ /\ Unexpected
     /\ \/ m.op = "ACCEPTED" /\ \A l \in listens : l.id_req # m.id
        \/ m.op \in AnswerOps /\ \A r \in requests[a] : r.id # m.id \/ r.stat # m.op
        \/ m.op = "LISTEN" /\ \E r \in requests[a] :
             r.id = m.id /\ r.stat = m.op /\ Pending(r.thread) = {}

----------------------------------------
(* What the agents do keeps the types. *)

\* What an agent accepts.
PortOf(f) == Conn(fds[Server][f].thread).port
FirstAt(p) == backlog[p][1]
Accepts(f, g) ==
  /\ fds[Server][g] = FreeFd
  /\ fds' = [fds EXCEPT ![Server][g] = Socket("tcp", FirstAt(PortOf(f)), 0)]
  /\ Tell(Server, Answer("ACCEPTED", fds[Server][f].id_req, g, FirstAt(PortOf(f)), TRUE))

----------------------------------------
(* Every step leaves the threads that wait where they are, but for those   *)
(* that it wakes.                                                          *)

Monotone(u) ==
  /\ stmtPos'[u] >= stmtPos[u]
  /\ stmtPos'[u] = stmtPos[u] => step'[u] >= step[u]

----------------------------------------
(* The tables: keys, the threads of the requests, and what the entries of  *)
(* connects_ say of their threads.                                         *)

KeyInv ==
  /\ \A a \in Agents : \A r, q \in requests[a] : r.id = q.id /\ r.stat = q.stat => r = q
  /\ \A k, l \in listens : k.port = l.port => k = l

\* How far a thread is when velm learns of a socket of its.
Learned(a, c) ==
  IF c.stat = "OPENED" THEN a # Server /\ Past(c.thread, 1)
  ELSE IF a # Server THEN Past(c.thread, 3)
  ELSE IF Conn(c.thread).protocol = "tcp" THEN Past(c.thread, 4)
  ELSE Past(c.thread, 2)

SocketInv ==
  \A a \in Agents : \A c \in connects[a] :
    /\ Learned(a, c)
    /\ \A d \in connects[a] :
         c.thread = d.thread /\ (c.stat = "OPENED" <=> d.stat = "OPENED") => c = d

StateInv == PlaceInv /\ KeyInv /\ SocketInv

----------------------------------------
(* The steps keep the tables in order. *)

\* connects_ of an agent gets the socket that an answer brings.
Learns(b, s, t, f) ==
  connects' = [connects EXCEPT ![b] = connects[b] \union {[stat |-> s, thread |-> t, id_sock |-> f]}]

----------------------------------------
(* The types, and the keys of the tables. *)

IInv == ThreadTypes /\ DataTypes /\ StateInv

----------------------------------------
(* A thread waits for one thing: its request is on its way to the agent,   *)
(* or the agent works on it, or the answer is on its way back.             *)

IsAnswer(m) == m.op \in AnswerOps
Busy(a, f) == fds[a][f] # FreeFd /\ fds[a][f].busy # "no"

AskInv(a) ==
  \A i \in 1 .. Len(toAgent[a]) :
    /\ WaitsAt(toAgent[a][i].thread, a, toAgent[a][i].op)
    /\ \A j \in 1 .. Len(toAgent[a]) : toAgent[a][j].thread = toAgent[a][i].thread => i = j
    /\ \A j \in 1 .. Len(toManager[a]) :
         IsAnswer(toManager[a][j]) => toManager[a][j].thread # toAgent[a][i].thread
    /\ \A f \in Fds : Busy(a, f) => fds[a][f].thread # toAgent[a][i].thread

AnswerInv(a) ==
  \A i \in 1 .. Len(toManager[a]) : IsAnswer(toManager[a][i]) =>
    /\ WaitsAt(toManager[a][i].thread, a, toManager[a][i].op)
    /\ \A j \in 1 .. Len(toManager[a]) :
         IsAnswer(toManager[a][j]) /\ toManager[a][j].thread = toManager[a][i].thread => i = j
    /\ \A f \in Fds : Busy(a, f) => fds[a][f].thread # toManager[a][i].thread

WorkInv(a) ==
  \A f \in Fds : Busy(a, f) =>
    /\ WaitsAt(fds[a][f].thread, a, fds[a][f].busy)
    /\ \A g \in Fds : Busy(a, g) /\ fds[a][g].thread = fds[a][f].thread => f = g

TokenAt(a) == AskInv(a) /\ AnswerInv(a) /\ WorkInv(a)
TokenInv == \A a \in Agents : TokenAt(a)

\* A step keeps what is there, d or e places further on, except for what
\* concerns t, which is then in the place q only.
OldAsk(a, i, d, q, t) ==
  \E m \in Requests :
    /\ i + d \in 1 .. Len(toAgent[a]) /\ m = toAgent[a][i + d] /\ toAgent'[a][i] = m
    /\ q = "none" \/ m.thread # t
    /\ Still(m.thread)
NewAsk(a, i, q, t) ==
  \E m \in Requests :
    /\ q = "ask" /\ i = Len(toAgent'[a]) /\ toAgent'[a][i] = m /\ m.thread = t
    /\ WaitsAt(t, a, m.op)'

OldAnswer(a, i, e, q, t) ==
  \E m \in Messages :
    /\ i + e \in 1 .. Len(toManager[a]) /\ m = toManager[a][i + e] /\ toManager'[a][i] = m
    /\ q = "none" \/ m.thread # t
    /\ Still(m.thread)
NewAnswer(a, i, q, t) ==
  \E m \in Messages :
    /\ q = "answer" /\ i = Len(toManager'[a]) /\ toManager'[a][i] = m /\ m.thread = t
    /\ WaitsAt(t, a, m.op)'

OldWork(a, f, q, t) ==
  \E s \in SocketType :
    /\ Busy(a, f) /\ fds[a][f].thread = s.thread /\ fds[a][f].busy = s.busy
    /\ fds'[a][f].thread = s.thread /\ fds'[a][f].busy = s.busy
    /\ q = "none" \/ s.thread # t
    /\ Still(s.thread)
NewWork(a, f, g, q, t) ==
  \E s \in SocketType :
    /\ q = "work" /\ f = g /\ fds'[a][f] = s /\ s.thread = t
    /\ WaitsAt(t, a, s.busy)'

\* What a step leaves of the threads that wait at a: they stay, or the one
\* that does not has nothing left there.
Stays(a, q, t) ==
  \A u \in Threads : (\E op \in AnswerOps : WaitsAt(u, a, op)) => Still(u) \/ (u = t /\ q # "none")

\* Nothing is under way at a for a thread that does not wait there.
Quiet(a, t) ==
  /\ \A i \in 1 .. Len(toAgent[a]) : toAgent[a][i].thread # t
  /\ \A i \in 1 .. Len(toManager[a]) : IsAnswer(toManager[a][i]) => toManager[a][i].thread # t
  /\ \A f \in Fds : Busy(a, f) => fds[a][f].thread # t

\* An answer finds the request of its own thread.
OwnAnswers ==
  \A a \in Agents : \A i \in 1 .. Len(toManager[a]) : IsAnswer(toManager[a][i]) =>
    \A r \in requests[a] : r.id = toManager[a][i].id /\ r.stat = toManager[a][i].op =>
      r.thread = toManager[a][i].thread

\* An agent that serves a request answers it, or begins to work on it.
Served(a, r, m) ==
  /\ Tell(a, m) /\ m.op = r.op /\ m.id = r.id /\ m.thread = r.thread
  /\ \A b \in Agents, f \in Fds : Busy(b, f)' =>
       Busy(b, f) /\ fds'[b][f].thread = fds[b][f].thread /\ fds'[b][f].busy = fds[b][f].busy

----------------------------------------
(* A connection that waits to be accepted, was reported, or is kept for    *)
(* its thread, is in one of these places, and its thread is at the end of  *)
(* its connect.                                                            *)
InBacklog(t) == \E p \in Ports : \E i \in 1 .. Len(backlog[p]) : backlog[p][i] = t
Reported(t) ==
  \E i \in 1 .. Len(toManager[Server]) :
    toManager[Server][i].op = "ACCEPTED" /\ toManager[Server][i].thread = t
Kept(t) == \E c \in accepts : c.thread = t
Dialing(t) ==
  \E i \in 1 .. Len(toAgent[Conn(t).client]) :
    toAgent[Conn(t).client][i].thread = t /\ toAgent[Conn(t).client][i].op = "CONNECT"
Connecting(t) ==
  /\ Stands(t) /\ Current(t).kind = "connect" /\ Conn(t).protocol = "tcp"
  /\ step[t] = 4 \/ (step[t] = 3 /\ ~InResume(t))
  /\ ~Dialing(t)
CallInv ==
  \A t \in Threads :
    /\ InBacklog(t) \/ Reported(t) \/ Kept(t) => Connecting(t)
    /\ ~(InBacklog(t) /\ Reported(t)) /\ ~(InBacklog(t) /\ Kept(t)) /\ ~(Reported(t) /\ Kept(t))
BacklogInv ==
  \A p \in Ports : \A i \in 1 .. Len(backlog[p]) :
    /\ Conn(backlog[p][i]).port = p
    /\ \A j \in 1 .. Len(backlog[p]) : backlog[p][j] = backlog[p][i] => i = j
ReportInv ==
  \A i, j \in 1 .. Len(toManager[Server]) :
    /\ toManager[Server][i].op = "ACCEPTED" /\ toManager[Server][j].op = "ACCEPTED"
    /\ toManager[Server][i].thread = toManager[Server][j].thread
    => i = j
KeptInv ==
  \A c \in accepts :
    /\ c.port = Conn(c.thread).port
    /\ \A d \in accepts : c.thread = d.thread => c = d
ConnectionInv == CallInv /\ BacklogInv /\ ReportInv /\ KeptInv

----------------------------------------
(* What becomes of the sockets. *)
SameSocket(a, f) ==
  /\ fds[a][f] # FreeFd /\ fds'[a][f].kind = fds[a][f].kind
  /\ fds'[a][f].thread = fds[a][f].thread /\ fds'[a][f].id_req = fds[a][f].id_req

\* An agent makes a socket for a request, or accepts a connection.
Created(a, f) ==
  \E r \in Requests :
    /\ Serve(a) /\ 1 \in 1 .. Len(toAgent[a]) /\ r = toAgent[a][1] /\ r.op \in NewOps
    /\ \E k \in {"tcp", "udp", "listen"} : Creates(a, r, f, k)
Accepted(a, f) ==
  a = Server /\ \E g \in Fds : Accept(g) /\ Accepts(g, f)

\* The kind of a socket is that of its thread's connection.
KindOf(a, k, t) ==
  /\ k = "listen" => Conn(t).protocol = "tcp" /\ a = Server
  /\ k # "listen" => k = Conn(t).protocol
KindInv ==
  \A a \in Agents : \A f \in Fds : fds[a][f] # FreeFd =>
    KindOf(a, fds[a][f].kind, fds[a][f].thread)

\* A connect at a socket of TCP that finds its server.
Calls(a, r) ==
  /\ r = toAgent[a][1] /\ r.op = "CONNECT" /\ r.id \in Fds
  /\ fds[a][r.id] # FreeFd /\ fds[a][r.id].kind = "tcp"
  /\ "stray" \notin incidents' => fds[a][r.id].thread = r.thread
  /\ backlog' = [backlog EXCEPT ![Conn(r.thread).port] = Append(@, r.thread)]

\* What an agent serves first.
Serving(a, r) ==
  /\ 1 \in 1 .. Len(toAgent[a]) /\ r = toAgent[a][1] /\ (ServeNew(a, r) \/ ServeSocket(a, r))
  /\ r.op \in SocketOps \/ r.op \in NewOps
  /\ r.op \in SocketOps => r.id \in Fds

\* While no request is served at the socket of another thread, and answers
\* find the requests of their own threads, everything has its place.
Orderly == TokenInv /\ ConnectionInv /\ KindInv

----------------------------------------
(* Where what is on its way, or in a table, comes from. *)
NextCases ==
  \/ UNCHANGED vars
  \/ ThreadRests \/ (\E e \in Events : SyncFires(e)) \/ (\E t \in Threads : DelayEnds(t))
  \/ \E t \in Threads : Operation(t)
  \/ \E a \in Agents : Hear(a) \/ Serve(a)
  \/ \E f \in Fds : Accept(f) \/ \E a \in Agents : Report(a, f) \/ EndOfStream(a, f)

Ask(t, op, id) == [op |-> op, id |-> id, thread |-> t]

\* An element of one of the tables of sockets stands for a socket of a thread.
Of(c, f, t) == c.id_sock = f /\ c.thread = t
First(a) == toManager[a][1]

\* What an agent tells velm: an answer to a request, or that what was asked
\* for is done, or that a stream is at its end, or that there is a connection.
Replies(a, m) ==
  \E r \in Requests :
    /\ Serve(a) /\ 1 \in 1 .. Len(toAgent[a]) /\ r = toAgent[a][1]
    /\ m.op = r.op /\ m.id = r.id /\ m.thread = r.thread
    /\ r.op \in SocketOps => m.id_sock = m.id
    /\ r.op \in NewOps =>
         IF m.ok THEN m.id_sock \in Fds /\ \E k \in {"tcp", "udp", "listen"} : Creates(a, r, m.id_sock, k)
         ELSE Declines(a, r)
Reports(a, m) ==
  \E f \in Fds :
    /\ Report(a, f) \/ EndOfStream(a, f)
    /\ fds[a][f] # FreeFd /\ m.id = f /\ m.id_sock = f /\ m.thread = fds[a][f].thread
    /\ Report(a, f) => Busy(a, f) /\ m.op = fds[a][f].busy
    /\ EndOfStream(a, f) => m.op = "CLOSED"
Announces(a, m) ==
  \E f, g \in Fds :
    /\ a = Server /\ Accept(f) /\ Accepts(f, g)
    /\ m.op = "ACCEPTED" /\ m.id = fds[Server][f].id_req /\ m.id_sock = g
    /\ m.thread = FirstAt(PortOf(f)) /\ m.ok
Says(a, m) == Replies(a, m) \/ Reports(a, m) \/ Announces(a, m)

----------------------------------------
(* The numbers of the requests for new sockets.                            *)
Numbered(a, n, t) ==
  \/ \E r \in requests[a] : r.stat \in NewOps /\ r.id = n /\ r.thread = t
  \/ \E i \in 1 .. Len(toAgent[a]) :
       toAgent[a][i].op \in NewOps /\ toAgent[a][i].id = n /\ toAgent[a][i].thread = t
  \/ \E i \in 1 .. Len(toManager[a]) :
       toManager[a][i].op \in NewOps /\ toManager[a][i].id = n /\ toManager[a][i].thread = t

\* A number is that of one thread, and will not be given again.
NumberInv ==
  \A a \in Agents : \A n \in Nat : \A t : Numbered(a, n, t) =>
    n < requestNo /\ \A u : Numbered(a, n, u) => u = t

----------------------------------------
(* Who names a descriptor of an agent, and for which thread.               *)
Names(m, f, t) == m.op \in SocketOps /\ m.id = f /\ m.thread = t
Ref(a, f, t) ==
  \/ fds[a][f] # FreeFd /\ fds[a][f].thread = t
  \/ \E c \in connects[a] : Of(c, f, t)
  \/ a = Server /\ \E c \in accepts : Of(c, f, t)
  \/ \E r \in requests[a] : r.stat \in SocketOps /\ r.id = f /\ r.thread = t
  \/ \E i \in 1 .. Len(toAgent[a]) : Names(toAgent[a][i], f, t)
  \/ \E i \in 1 .. Len(toManager[a]) : toManager[a][i].ok /\ Of(toManager[a][i], f, t)
  \/ \E i \in 1 .. Len(toManager[a]) : Names(toManager[a][i], f, t)

\* A new socket of t.
Comes(a, f, t) ==
  /\ fds[a][f] = FreeFd /\ fds'[a][f].thread = t
  /\ Created(a, f) \/ Accepted(a, f)

----------------------------------------
(* Where all threads wait for each other between their connects and their  *)
(* first closes: no thread is past the event before it is over, and none   *)
(* is before it any more after that.                                       *)
SeparatedAt(e) ==
  /\ Members[e] = Threads
  /\ \A t \in Threads : \E k \in 1 .. Len(Program(t)) : SyncsOnceAt(t, e, k)
Before(t, e) ==
  \A k \in 1 .. Len(Program(t)) : SyncsOnceAt(t, e, k) =>
    stmtPos[t] < k \/ (stmtPos[t] = k /\ step[t] = 1)
After(t, e) ==
  \A k \in 1 .. Len(Program(t)) : SyncsOnceAt(t, e, k) => stmtPos[t] >= k
GateInv(e) ==
  \A t \in Threads : IF e \in fired THEN After(t, e) ELSE Before(t, e)

----------------------------------------
(* While no thread closes, no socket goes.                                 *)
SocketsStay == \A b \in Agents, g \in Fds : fds[b][g] # FreeFd => fds'[b][g] # FreeFd

----------------------------------------
(* Each descriptor is that of one thread, on both sides of the event.      *)
RefInv ==
  \A a \in Agents, f \in Fds : \A t, u : Ref(a, f, t) /\ Ref(a, f, u) => t = u
OpenInv ==
  \A a \in Agents : closed[a] = {} /\ \A f \in Fds : \A t : Ref(a, f, t) => fds[a][f] # FreeFd
ApartInv(e) ==
  /\ GateInv(e) /\ RefInv /\ Orderly
  /\ e \notin fired => OpenInv
  /\ "stray" \notin incidents
OwnInv == NumberInv /\ \A e \in Events : SeparatedAt(e) => ApartInv(e)

----------------------------------------
(* Everything under way has its request in the table of velm.              *)
RequestInv ==
  \A a \in Agents :
    /\ \A i \in 1 .. Len(toAgent[a]) :
         Req(toAgent[a][i].thread, toAgent[a][i].op, toAgent[a][i].id) \in requests[a]
    /\ \A i \in 1 .. Len(toManager[a]) : IsAnswer(toManager[a][i]) =>
         Req(toManager[a][i].thread, toManager[a][i].op, toManager[a][i].id) \in requests[a]
    /\ \A f \in Fds : Busy(a, f) => Req(fds[a][f].thread, fds[a][f].busy, f) \in requests[a]

\* Whether a request was lost.
Loses == "request lost" \in incidents

----------------------------------------
(* The servers.  listens_ has an entry for each server that velm has asked *)
(* for and that has not failed; it carries the number of the request.      *)
Entry(n, p) == \E l \in listens : l.port = p /\ l.id_req = n
Asked(n, p) == [port |-> p, stat |-> "REQ_LISTEN", id_req |-> n]
Serves(f, n) == fds[Server][f] # FreeFd /\ fds[Server][f].kind = "listen" /\ fds[Server][f].id_req = n
Announced(i, n) == toManager[Server][i].op = "ACCEPTED" /\ toManager[Server][i].id = n
\* No server has that number.
NoSuch(n) ==
  /\ \A f \in Fds : ~Serves(f, n)
  /\ \A i \in 1 .. Len(toManager[Server]) : ~Announced(i, n)
AskedInv ==
  \A r \in requests[Server] : r.stat = "LISTEN" => Asked(r.id, Conn(r.thread).port) \in listens
ServerInv ==
  \A f \in Fds : \A n : Serves(f, n) => Entry(n, Conn(fds[Server][f].thread).port)
AnnouncedInv ==
  \A i \in 1 .. Len(toManager[Server]) : \A n : Announced(i, n) =>
    Entry(n, Conn(toManager[Server][i].thread).port)
FailedInv ==
  /\ \A i \in 1 .. Len(toAgent[Server]) :
       toAgent[Server][i].op = "LISTEN" => NoSuch(toAgent[Server][i].id)
  /\ \A i \in 1 .. Len(toManager[Server]) :
       toManager[Server][i].op = "LISTEN" /\ ~toManager[Server][i].ok => NoSuch(toManager[Server][i].id)
\* t has come to its server.
Come(t) == Past(t, 2) \/ (Past(t, 1) /\ ~InResume(t))
EntryInv ==
  \A l \in listens :
    /\ l.id_req < requestNo
    /\ \E t \in Threads : Conn(t).port = l.port /\ Come(t)
ListenInv == AskedInv /\ ServerInv /\ AnnouncedInv /\ FailedInv /\ EntryInv

\* A step asks for a new server, or hears of one that was asked for.
AddsEntry(t, n) ==
  /\ \E end \in {"client", "server"} : Issues(t, Server, end, "LISTEN", n)
  /\ ~Listening(Conn(t).port)
  /\ listens' = listens \union {Asked(n, Conn(t).port)}
HearsOf(r, m, l) ==
  /\ Hear(Server) /\ m = toManager[Server][1] /\ m.op = "LISTEN"
  /\ r.id = m.id /\ r.stat = "LISTEN" /\ Settles(Server, m, r)
  /\ l = Asked(m.id, Conn(r.thread).port)
  /\ \/ listens' = listens \ {l} /\ (~m.ok \/ Conn(r.thread).protocol = "udp")
     \/ listens' = (listens \ {l}) \union {[l EXCEPT !.stat = "LISTEN"]}

----------------------------------------
(* While no socket is taken for another and no request is lost, and unless *)
(* a server of UDP shares its address, velm finds what it hears of.        *)
Clean == "stray" \notin incidents /\ ~Loses /\ ~SharedUdp
Surprised == "unexpected" \in incidents
CleanInv == Clean => Orderly /\ RequestInv /\ ListenInv /\ ~Surprised
FindInv == NumberInv /\ CleanInv

\* velm finds nothing that m belongs to.
NotFound(a, m) ==
  \/ m.op = "ACCEPTED" /\ \A l \in listens : l.id_req # m.id
  \/ m.op \in AnswerOps /\ \A r \in requests[a] : r.id # m.id \/ r.stat # m.op
  \/ m.op = "LISTEN" /\ \E r \in requests[a] :
       r.id = m.id /\ r.stat = m.op /\ Pending(r.thread) = {}

----------------------------------------
(* A thread that waits is woken.  Each of these is of a step that goes     *)
(* well, at servers that do not share their addresses over UDP.            *)
Smooth == incidents = {} /\ ~SharedUdp

\* A thread that stands at a statement and does not go on there waits for its
\* timer, for the others of its event, or for an answer.
Rests(t) == Stands(t) /\ t \notin aborted /\ ~InResume(t)
AtEvent(t) ==
  /\ Current(t).kind = "sync"
  /\ t \in Members[Current(t).event] \ waitfor[Current(t).event]
  /\ Current(t).event \notin fired
HasRequest(t) == \E a \in Agents : \E r \in requests[a] : r.thread = t
WaitInv ==
  \A t \in Threads : Rests(t) => Current(t).kind = "delay" \/ AtEvent(t) \/ HasRequest(t)

\* A request is on its way to the agent, or at it, or answered.
AsksFor(a, r) == \E i \in 1 .. Len(toAgent[a]) : toAgent[a][i] = Ask(r.thread, r.stat, r.id)
Answers(m, r) == m.op = r.stat /\ m.id = r.id /\ m.thread = r.thread
Answered(a, r) == \E i \in 1 .. Len(toManager[a]) : Answers(toManager[a][i], r)
WorksOn(a, r) ==
  r.id \in Fds /\ Busy(a, r.id) /\ fds[a][r.id].busy = r.stat /\ fds[a][r.id].thread = r.thread
DueInv ==
  \A a \in Agents : \A r \in requests[a] :
    r.stat # "ACCEPT" => AsksFor(a, r) \/ Answered(a, r) \/ WorksOn(a, r)

\* An accept waits for a connection that has been made, by the number of its
\* server.
Called(t) == InBacklog(t) \/ Reported(t)
AcceptInv ==
  \A r \in requests[Server] : r.stat = "ACCEPT" =>
    Called(r.thread) /\ Entry(r.id, Conn(r.thread).port)

\* A connection has been made when its client hears so.
Confirms(m, t) == m.op = "CONNECT" /\ m.thread = t /\ m.ok
Dialed(t) ==
  \/ \E i \in 1 .. Len(toManager[Conn(t).client]) : Confirms(toManager[Conn(t).client][i], t)
  \/ Stands(t) /\ Current(t).kind = "connect" /\ step[t] = 4 /\ InResume(t)
DialedInv ==
  \A t \in Threads : Conn(t).protocol = "tcp" /\ Dialed(t) => Called(t) \/ Kept(t)

\* Only servers read; so a client closes when it is asked to, which is in the
\* first step of a close, and before its server can be busy again the server
\* is asked to close, too.
ReadsInv == \A a \in Agents : \A f \in Fds : fds[a][f] # FreeFd /\ fds[a][f].reads => a = Server
Closes(t) ==
  /\ Stands(t) /\ Current(t).kind = "close"
  /\ (step[t] = 1 /\ ~InResume(t)) \/ (step[t] = 2 /\ InResume(t))
HasClosed(t) ==
  /\ \A c \in connects[Server] : c.thread = t => c.stat # "CONNECTED"
  /\ Stands(t) /\ Current(t).kind = "traffic" => step[t] = 1 /\ (InResume(t) \/ t \in aborted)
ClosedInv ==
  \A t \in Threads :
    /\ WaitsAt(t, Conn(t).client, "CLOSE") => Past(t, 5)
    /\ t \in closed[Conn(t).client] => Past(t, 5) /\ (Closes(t) \/ HasClosed(t))

WakeInv == Smooth => WaitInv /\ DueInv /\ AcceptInv /\ DialedInv /\ ReadsInv /\ ClosedInv

\* How a thread moves in a step that goes well: velm runs it, or it is at its
\* end, or it is woken by its timer, by its event, or by what velm hears.
Hears(a, r) ==
  /\ Hear(a) /\ 1 \in 1 .. Len(toManager[a]) /\ r \in requests[a]
  /\ Settles(a, First(a), r) \/ (a = Server /\ First(a).op = "ACCEPTED" /\ Admits(First(a), r))
Woken(t) ==
  /\ Rests(t) /\ stmtPos'[t] = stmtPos[t] /\ step'[t] = step[t] + 1 /\ InResume(t)'
  /\ t \in aborted' <=> t \in aborted
  /\ \/ \E op \in {"delay", "sync"} : Waits(t, "velm", op)
     \/ \E a \in Agents : \E r \in requests[a] : r.thread = t /\ Hears(a, r)
=============================================================================
