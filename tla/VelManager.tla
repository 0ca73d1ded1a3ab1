----------------------------- MODULE VelManager -----------------------------
(***************************************************************************)
(* velm runs a scenario: threads that each work through the statements of  *)
(* one connection, by requests to the agents (vela) at its two ends.       *)
(*                                                                         *)
(* velm has one thread of control.  An answer completes the step that      *)
(* waited for it and the thread goes on, statement after statement, until  *)
(* it has to wait again: resume holds the threads that are to go on before *)
(* velm turns to the next answer.  What velm knows of the sockets is in    *)
(* four sets, each keyed, which the answers and reports of the agents      *)
(* change; the agents name a socket by its file descriptor, and use the    *)
(* descriptor of a closed socket again.                                    *)
(*                                                                         *)
(* Here all servers are at one agent, and each thread connects once.  What *)
(* happens between the sockets during a traffic statement is the matter of *)
(* VelTraffic, and here each of its requests is answered once, some time.  *)
(***************************************************************************)
EXTENDS Naturals, Sequences, FiniteSets

CONSTANTS
  Threads,     \* the threads, each with a connection of its own
  Clients,     \* agents that connections start from,
  Server,      \*   the one that has the servers,
  Ports,       \*   and the addresses these listen at
  Events,      \* sync events, and
  Members,     \*   the threads that each of them names
  Scenarios,   \* what the threads do
  MaxFd,       \* bounds of the model: descriptors of an agent,
  MaxFailures  \*   and bind() or listen() calls that fail

Statements == [kind : {"connect", "traffic", "close", "delay"}]
                \union [kind : {"sync"}, event : Events]
Connections == [client : Clients, protocol : {"tcp", "udp"}, port : Ports]

ASSUME ManagerAssumption ==
  /\ Scenarios \subseteq [program : [Threads -> Seq(Statements)],
                          conn : [Threads -> Connections]]
  /\ \A s \in Scenarios : \A t \in Threads : \A i, j \in 1 .. Len(s.program[t]) :
       s.program[t][i].kind = "connect" /\ s.program[t][j].kind = "connect" => i = j
  /\ IsFiniteSet(Threads)
  /\ Members \in [Events -> SUBSET Threads]
  /\ Server \notin Clients
  /\ MaxFd \in Nat /\ MaxFailures \in Nat

VARIABLES
  scenario,   \* the scenario that is run
  stmtPos,    \* TgExecThread::stmtPos_, from 1
  step,       \* TgStatement::step_ of the statement there, from 1
  aborted,    \* the threads that have given up (stmtPos_ = -1)
  resume,     \* the threads that velm goes on with before it listens again
  waitfor,    \* TgSyncEvent: threads that have not reached the event,
  fired,      \*   and the events that are over
  requestNo,  \* TgReqElm::newRequestNo
  requests,   \* TgAgntCtrl, for each agent: requests_,
  listens,    \*   listens_ of the server,
  accepts,    \*   accepts_ of the server, and
  connects,   \*   connects_
  toAgent,    \* requests on their way to each agent
  toManager,  \* answers and reports on their way back
  fds,        \* TgServer::agentSet_ of each agent, by descriptor
  backlog,    \* connections that wait to be accepted, for each port
  closed,     \* for each agent, the threads whose socket it has closed
  failures,   \* bind() or listen() calls that have failed
  incidents   \* history: what has gone wrong

threads == <<stmtPos, step, aborted, resume, waitfor, fired>>
tables == <<requests, listens, accepts, connects>>
agents == <<fds, backlog, closed, failures>>
vars == <<scenario, threads, requestNo, tables, toAgent, toManager, agents,
          incidents>>

Agents == Clients \union {Server}
Fds == 1 .. MaxFd
FreeFd == [kind |-> "free"]
Conn(t) == scenario.conn[t]
Program(t) == scenario.program[t]
Peer(a, t) == IF a = Server THEN Conn(t).client ELSE Server

\* TgStatement::doStep of each kind: the end and the operation of a step.
StepsOf(kind) ==
  CASE kind = "connect" -> <<<<"client", "OPEN">>, <<"server", "LISTEN">>,
                             <<"client", "CONNECT">>, <<"server", "ACCEPT">>>>
    [] kind = "traffic" -> <<<<"server", "RECV">>, <<"client", "SEND">>, <<"server", "RECVTERM">>>>
    [] kind = "close" -> <<<<"client", "CLOSE">>, <<"server", "CLOSE">>>>
    [] OTHER -> <<<<"velm", kind>>>>

Init ==
  /\ scenario \in Scenarios
  /\ stmtPos = [t \in Threads |-> 1] /\ step = [t \in Threads |-> 1]
  /\ aborted = {}
  /\ resume \in {r \in [1 .. Cardinality(Threads) -> Threads] :
                   \A i, j \in DOMAIN r : r[i] = r[j] => i = j}
  /\ waitfor = Members /\ fired = {}
  /\ requestNo = 1
  /\ requests = [a \in Agents |-> {}] /\ connects = [a \in Agents |-> {}]
  /\ listens = {} /\ accepts = {}
  /\ toAgent = [a \in Agents |-> <<>>] /\ toManager = [a \in Agents |-> <<>>]
  /\ fds = [a \in Agents |-> [f \in Fds |-> FreeFd]]
  /\ backlog = [p \in Ports |-> <<>>] /\ closed = [a \in Agents |-> {}]
  /\ failures = 0 /\ incidents = {}

----------------------------------------------------------------------------
(* velm: the thread at the head of resume does one step, and goes on with  *)
(* the next one unless it has to wait                                      *)

Going(t) ==
  /\ resume # <<>> /\ t = Head(resume)
  /\ t \notin aborted /\ stmtPos[t] <= Len(Program(t))

AgentAt(end, t) == IF end = "client" THEN Conn(t).client ELSE Server

\* t stands at that step.
At(t, op) ==
  /\ Going(t)
  /\ LET ops == StepsOf(Program(t)[stmtPos[t]].kind)
     IN  step[t] <= Len(ops) /\ ops[step[t]] = op

Wait == resume' = Tail(resume) /\ UNCHANGED <<stmtPos, step, aborted, waitfor, fired>>
Skip(t) ==
  /\ step' = [step EXCEPT ![t] = @ + 1]
  /\ UNCHANGED <<stmtPos, aborted, resume, waitfor, fired>>
Abort(t) ==
  /\ aborted' = aborted \union {t} /\ resume' = Tail(resume)
  /\ UNCHANGED <<stmtPos, step, waitfor, fired>>

\* Mutant: the set keeps both elements.
Request_Both(t, a, stat, id) ==
  /\ requests' = [requests EXCEPT ![a] =
                    @ \union {[id |-> id, stat |-> stat, thread |-> t]}]
  /\ UNCHANGED incidents

\* Request elements are keyed by number and kind; add() keeps the one there,
\* and the new one is lost.
Request(t, a, stat, id) ==
  IF \E r \in requests[a] : r.id = id /\ r.stat = stat
  THEN /\ incidents' = incidents \union {"request lost"}
       /\ UNCHANGED requests
  ELSE /\ requests' = [requests EXCEPT ![a] =
                        @ \union {[id |-> id, stat |-> stat, thread |-> t]}]
       /\ UNCHANGED incidents

Send(t, a, op, id) ==
  toAgent' = [toAgent EXCEPT ![a] =
                Append(@, [op |-> op, id |-> id, thread |-> t])]

\* connects_.find(addr, thread, status); the address is that of the thread.
Sockets(t, a, stat) == {c \in connects[a] : c.thread = t /\ c.stat = stat}

OpOpen(t) ==
  /\ At(t, <<"client", "OPEN">>)
  /\ requestNo' = requestNo + 1
  /\ Send(t, Conn(t).client, "OPEN", requestNo)
  /\ Request(t, Conn(t).client, "OPEN", requestNo)
  /\ Wait
  /\ UNCHANGED <<scenario, listens, accepts, connects, toManager, agents>>

\* Somebody listens there already, or has asked to.
Listening(port) == \E l \in listens : l.port = port

OpListen(t) ==
  /\ At(t, <<"server", "LISTEN">>)
  /\ \/ /\ Conn(t).protocol = "tcp" /\ Listening(Conn(t).port)
        /\ Skip(t)
        /\ UNCHANGED <<requestNo, requests, listens, toAgent, incidents>>
     \/ /\ ~(Conn(t).protocol = "tcp" /\ Listening(Conn(t).port))
        /\ requestNo' = requestNo + 1
        /\ Send(t, Server, "LISTEN", requestNo) /\ Request(t, Server, "LISTEN", requestNo)
        /\ listens' = IF Listening(Conn(t).port) THEN listens
                      ELSE listens \union {[port |-> Conn(t).port, stat |-> "REQ_LISTEN",
                                            id_req |-> requestNo]}
        /\ Wait
  /\ UNCHANGED <<scenario, accepts, connects, toManager, agents>>

OpAccept(t) ==
  /\ At(t, <<"server", "ACCEPT">>)
  /\ \/ /\ Conn(t).protocol = "udp"
        /\ Skip(t)
        /\ UNCHANGED <<requests, accepts, connects, incidents>>
     \/ /\ Conn(t).protocol = "tcp"
        /\ \E c \in accepts :
             /\ c.thread = t /\ c.port = Conn(t).port
             /\ connects' = [connects EXCEPT ![Server] = @ \union
                  {[stat |-> "CONNECTED", thread |-> t, id_sock |-> c.id_sock]}]
             /\ accepts' = accepts \ {c}
        /\ Skip(t)
        /\ UNCHANGED <<requests, incidents>>
     \/ /\ Conn(t).protocol = "tcp"
        /\ ~\E c \in accepts : c.thread = t /\ c.port = Conn(t).port
        /\ \E l \in listens :
             /\ l.port = Conn(t).port
             /\ Request(t, Server, "ACCEPT", l.id_req)
        /\ Wait
        /\ UNCHANGED <<accepts, connects>>
     \/ /\ Conn(t).protocol = "tcp" /\ ~Listening(Conn(t).port)
        /\ ~\E c \in accepts : c.thread = t /\ c.port = Conn(t).port
        /\ Abort(t)
        /\ incidents' = incidents \union {"refused"}
        /\ UNCHANGED <<requests, accepts, connects>>
  /\ UNCHANGED <<scenario, requestNo, listens, toAgent, toManager, agents>>

\* opConnect, opSend, opReceive, opRecvTerminate: the socket must be known.
OpOnSocket(t) ==
  \E end \in {"client", "server"}, op \in {"CONNECT", "RECV", "SEND", "RECVTERM"} :
    LET a == AgentAt(end, t)
        known == Sockets(t, a, IF op = "CONNECT" THEN "OPENED" ELSE "CONNECTED")
    IN  /\ At(t, <<end, op>>)
        /\ \/ /\ \E c \in known : Send(t, a, op, c.id_sock) /\ Request(t, a, op, c.id_sock)
              /\ Wait
           \/ /\ known = {}
              /\ Abort(t)
              /\ incidents' = incidents \union {"not connected"}
              /\ UNCHANGED <<toAgent, requests>>
        /\ UNCHANGED <<scenario, requestNo, listens, accepts, connects, toManager, agents>>

\* opClose: nothing to do for a socket that was reported closed.
OpClose(t) ==
  \E end \in {"client", "server"} :
    LET a == AgentAt(end, t)
        known == Sockets(t, a, "CONNECTED")
    IN  /\ At(t, <<end, "CLOSE">>)
        /\ \/ /\ known = {}
              /\ Skip(t)
              /\ UNCHANGED <<connects, toAgent, requests, incidents>>
           \/ /\ \E c \in known :
                   /\ connects' = [connects EXCEPT ![a] =
                                     (@ \ {c}) \union {[c EXCEPT !.stat = "CLOSING"]}]
                   /\ Send(t, a, "CLOSE", c.id_sock) /\ Request(t, a, "CLOSE", c.id_sock)
              /\ Wait
        /\ UNCHANGED <<scenario, requestNo, listens, accepts, toManager, agents>>

\* syncEvent: the event is one of those not over, and names the thread.
OpSync(t) ==
  /\ At(t, <<"velm", "sync">>)
  /\ LET e == Program(t)[stmtPos[t]].event
     IN  \/ /\ e \notin fired /\ t \in waitfor[e]
            /\ waitfor' = [waitfor EXCEPT ![e] = @ \ {t}]
            /\ resume' = Tail(resume)
            /\ UNCHANGED <<stmtPos, step, aborted, fired>>
         \/ /\ e \in fired \/ t \notin waitfor[e]
            /\ Abort(t)
  /\ UNCHANGED <<scenario, requestNo, tables, toAgent, toManager, agents, incidents>>

\* TgStmtDelay: waits for its timer.
OpDelay(t) ==
  /\ At(t, <<"velm", "delay">>)
  /\ Wait
  /\ UNCHANGED <<scenario, requestNo, tables, toAgent, toManager, agents, incidents>>

\* TgExecThread::next: the statement is over, or the thread is.
StatementEnds(t) ==
  /\ Going(t)
  /\ step[t] > Len(StepsOf(Program(t)[stmtPos[t]].kind))
  /\ stmtPos' = [stmtPos EXCEPT ![t] = @ + 1] /\ step' = [step EXCEPT ![t] = 1]
  /\ UNCHANGED <<aborted, resume, waitfor, fired>>
  /\ UNCHANGED <<scenario, requestNo, tables, toAgent, toManager, agents, incidents>>

ThreadRests ==
  /\ resume # <<>> /\ ~Going(Head(resume))
  /\ resume' = Tail(resume)
  /\ UNCHANGED <<stmtPos, step, aborted, waitfor, fired>>
  /\ UNCHANGED <<scenario, requestNo, tables, toAgent, toManager, agents, incidents>>

Operation(t) ==
  OpOpen(t) \/ OpListen(t) \/ OpAccept(t) \/ OpOnSocket(t) \/ OpClose(t)
    \/ OpSync(t) \/ OpDelay(t) \/ StatementEnds(t)

----------------------------------------------------------------------------
(* velm: its dispatch loop, until every thread has ended                   *)

Ended(t) == t \in aborted \/ stmtPos[t] > Len(Program(t))
Idle == resume = <<>> /\ \E t \in Threads : ~Ended(t)

\* TgStatement::onComplete of the statements of these threads.
Complete(order) ==
  /\ step' = [t \in Threads |-> IF \E i \in 1 .. Len(order) : order[i] = t
                                THEN step[t] + 1 ELSE step[t]]
  /\ resume' = order
  /\ UNCHANGED <<stmtPos, aborted>>

Fail(t) ==
  /\ aborted' = aborted \union {t}
  /\ UNCHANGED <<stmtPos, step, resume>>

\* Mutant: the event is complete when the last but one has come.
AllHere_Early(e) == Cardinality(waitfor[e]) <= 1

AllHere(e) == waitfor[e] = {}

\* TgSyncEvent::timerExpired: the callbacks, in the order they came; the
\* event is deleted.
SyncFires(e) ==
  /\ Idle /\ e \notin fired /\ AllHere(e)
  /\ \E order \in {o \in [1 .. Cardinality(Members[e] \ waitfor[e]) -> Members[e] \ waitfor[e]] :
                     \A i, j \in DOMAIN o : o[i] = o[j] => i = j} : Complete(order)
  /\ fired' = fired \union {e}
  /\ UNCHANGED waitfor
  /\ UNCHANGED <<scenario, requestNo, tables, toAgent, toManager, agents, incidents>>

\* TgExecDelayTimer::timerExpired
DelayEnds(t) ==
  /\ Idle /\ ~Ended(t)
  /\ Program(t)[stmtPos[t]].kind = "delay" /\ step[t] = 1
  /\ Complete(<<t>>)
  /\ UNCHANGED <<waitfor, fired>>
  /\ UNCHANGED <<scenario, requestNo, tables, toAgent, toManager, agents, incidents>>

\* An answer for which there is no request is complained about and dropped.
Unexpected ==
  /\ incidents' = incidents \union {"unexpected"}
  /\ UNCHANGED <<threads, tables>>

\* What a request that was answered well adds to the tables.
HearOpened(a, r, m) ==
  /\ connects' = [connects EXCEPT ![a] = @ \union
       {[stat |-> IF r.stat = "OPEN" THEN "OPENED" ELSE "CONNECTED",
         thread |-> r.thread, id_sock |-> m.id_sock]}]
  /\ UNCHANGED listens

\* Mutant: the entry of a server is taken out and not put back.
HearListening_Gone(r, m, l) ==
  /\ listens' = listens \ {l}
  /\ IF Conn(r.thread).protocol = "tcp" THEN UNCHANGED connects
     ELSE connects' = [connects EXCEPT ![Server] = @ \union
            {[stat |-> "CONNECTED", thread |-> r.thread, id_sock |-> m.id_sock]}]

HearListening(r, m, l) ==
  IF Conn(r.thread).protocol = "tcp"
  THEN /\ listens' = (listens \ {l}) \union {[l EXCEPT !.stat = "LISTEN", !.id_req = m.id]}
       /\ UNCHANGED connects
  ELSE /\ listens' = listens \ {l}
       /\ connects' = [connects EXCEPT ![Server] = @ \union
            {[stat |-> "CONNECTED", thread |-> r.thread, id_sock |-> m.id_sock]}]

\* recvCloseConfirm: the entry goes, if it is still there.
HearClosing(a, r) ==
  [connects EXCEPT ![a] = @ \ Sockets(r.thread, a, "CLOSING")]

\* recvOpenConfirm and the other confirmations: a request is looked up by its
\* number or, once there is a socket, by the socket.
HearAnswer(a, m) ==
  LET found == {r \in requests[a] : r.id = m.id /\ r.stat = m.op}
      pending(r) == {l \in listens : l.port = Conn(r.thread).port /\ l.stat = "REQ_LISTEN"}
  IN  \/ found = {} /\ Unexpected
      \/ \E r \in found :
           /\ m.op = "LISTEN" /\ pending(r) = {}
           /\ Unexpected
      \/ \E r \in found :
           /\ m.op = "LISTEN" => pending(r) # {}
           /\ requests' = [requests EXCEPT ![a] = @ \ {r}]
           /\ UNCHANGED accepts
           /\ \/ /\ m.ok
                 /\ CASE m.op \in {"OPEN", "CONNECT"} -> HearOpened(a, r, m)
                      [] m.op = "LISTEN" -> \E l \in pending(r) : HearListening(r, m, l)
                      [] m.op = "CLOSE" -> connects' = HearClosing(a, r) /\ UNCHANGED listens
                      [] OTHER -> UNCHANGED <<connects, listens>>
                 /\ Complete(<<r.thread>>)
                 /\ UNCHANGED <<waitfor, fired, incidents>>
              \/ /\ ~m.ok
                 /\ listens' = IF m.op = "LISTEN" THEN listens \ pending(r) ELSE listens
                 /\ connects' = IF m.op = "CLOSE" THEN HearClosing(a, r) ELSE connects
                 /\ IF m.op = "CLOSE" /\ Sockets(r.thread, a, "CLOSING") = {}
                    THEN Complete(<<r.thread>>) /\ UNCHANGED incidents
                    ELSE Fail(r.thread) /\ incidents' = incidents \union {"failed"}
                 /\ UNCHANGED <<waitfor, fired>>

\* Mutant: an accept is matched without its client.
Accepting_Any(m) == {r \in requests[Server] : r.id = m.id /\ r.stat = "ACCEPT"}

\* The request that an accepted connection completes.
Accepting(m) ==
  {r \in requests[Server] : r.id = m.id /\ r.stat = "ACCEPT" /\ r.thread = m.thread}

\* opAcceptedReport: nobody waits for this client yet, so it is kept.
HearAccepted(m) ==
  \/ /\ \A l \in listens : l.id_req # m.id
     /\ Unexpected
  \/ /\ \E l \in listens : l.id_req = m.id
     /\ \/ \E r \in Accepting(m) :
             /\ requests' = [requests EXCEPT ![Server] = @ \ {r}]
             /\ connects' = [connects EXCEPT ![Server] = @ \union
                  {[stat |-> "CONNECTED", thread |-> r.thread, id_sock |-> m.id_sock]}]
             /\ Complete(<<r.thread>>)
             /\ UNCHANGED accepts
        \/ /\ Accepting(m) = {}
           /\ accepts' = accepts \union
                {[thread |-> m.thread, port |-> Conn(m.thread).port, id_sock |-> m.id_sock]}
           /\ UNCHANGED <<requests, connects, stmtPos, step, aborted, resume>>
     /\ UNCHANGED <<listens, waitfor, fired, incidents>>

\* recvClosedReport: whichever entry has that descriptor.
HearClosed(a, m) ==
  /\ LET found == {c \in connects[a] : c.id_sock = m.id_sock}
     IN  \/ found = {} /\ UNCHANGED connects
         \/ \E c \in found : connects' = [connects EXCEPT ![a] = @ \ {c}]
  /\ UNCHANGED <<threads, requests, listens, accepts, incidents>>

Hear(a) ==
  /\ Idle /\ toManager[a] # <<>>
  /\ toManager' = [toManager EXCEPT ![a] = Tail(@)]
  /\ LET m == Head(toManager[a])
     IN  CASE m.op = "CLOSED" -> HearClosed(a, m)
           [] m.op = "ACCEPTED" -> HearAccepted(m)
           [] OTHER -> HearAnswer(a, m)
  /\ UNCHANGED <<scenario, requestNo, toAgent, agents>>

----------------------------------------------------------------------------
(* vela *)

Answer(op, id, f, t, ok) ==
  [op |-> op, id |-> id, id_sock |-> f, thread |-> t, ok |-> ok]
Tell(a, m) == toManager' = [toManager EXCEPT ![a] = Append(@, m)]

\* The kernel gives the lowest descriptor that is free.
Lowest(a, f) == fds[a][f] = FreeFd /\ \A g \in Fds : g < f => fds[a][g] # FreeFd
Socket(kind, t, id_req) ==
  [kind |-> kind, thread |-> t, id_req |-> id_req, reads |-> FALSE, busy |-> "no"]
ListensAt(port) ==
  \E f \in Fds : fds[Server][f].kind = "listen" /\ Conn(fds[Server][f].thread).port = port

\* openRequest and listenRequest; over UDP the socket that listens is the one
\* that receives.
ServeNew(a, r) ==
  \/ /\ r.op \in {"OPEN", "LISTEN"} /\ failures < MaxFailures
     /\ failures' = failures + 1
     /\ Tell(a, Answer(r.op, r.id, 0, r.thread, FALSE))
     /\ UNCHANGED <<fds, backlog, closed, incidents>>
  \/ \E f \in Fds :
       /\ r.op \in {"OPEN", "LISTEN"} /\ Lowest(a, f)
       /\ fds' = [fds EXCEPT ![a][f] =
            Socket(IF r.op = "LISTEN" /\ Conn(r.thread).protocol = "tcp"
                   THEN "listen" ELSE Conn(r.thread).protocol, r.thread, r.id)]
       /\ Tell(a, Answer(r.op, r.id, f, r.thread, TRUE))
       /\ UNCHANGED <<backlog, closed, failures, incidents>>

\* connectRequest, recvRequest, closeRequest and the others: findAgent() looks
\* the descriptor up, whoever has it now.  What is sent or awaited is
\* answered later.
ServeSocket(a, r) ==
  LET s == fds[a][r.id]
      port == Conn(r.thread).port
      Put(new) == fds' = [fds EXCEPT ![a][r.id] = new]
  IN  /\ r.op \notin {"OPEN", "LISTEN"}
      /\ UNCHANGED failures
      /\ \/ /\ s = FreeFd
            /\ Tell(a, Answer(r.op, r.id, r.id, r.thread, FALSE))
            /\ UNCHANGED <<fds, backlog, closed, incidents>>
         \/ /\ s # FreeFd
            /\ LET stray == IF s.thread = r.thread THEN {} ELSE {"stray"}
                   refused == r.op = "CONNECT" /\ s.kind = "tcp" /\ ~ListensAt(port)
               IN  incidents' = incidents \union stray
                                 \union IF refused THEN {"refused"} ELSE {}
            /\ CASE r.op = "CONNECT" ->
                      /\ Tell(a, Answer(r.op, r.id, r.id, r.thread,
                                        s.kind = "udp" \/ ListensAt(port)))
                      /\ backlog' = IF s.kind = "tcp" /\ ListensAt(port)
                                    THEN [backlog EXCEPT ![port] = Append(@, r.thread)]
                                    ELSE backlog
                      /\ UNCHANGED <<fds, closed>>
                 [] r.op = "RECV" ->
                      /\ Put([s EXCEPT !.reads = TRUE])
                      /\ Tell(a, Answer(r.op, r.id, r.id, r.thread, TRUE))
                      /\ UNCHANGED <<backlog, closed>>
                 [] r.op \in {"SEND", "RECVTERM"} ->
                      /\ Put([s EXCEPT !.busy = r.op])
                      /\ UNCHANGED <<toManager, backlog, closed>>
                 [] r.op = "CLOSE" ->
                      /\ Put(FreeFd)
                      /\ closed' = [closed EXCEPT ![a] = @ \union {s.thread}]
                      /\ Tell(a, Answer(r.op, r.id, r.id, r.thread, TRUE))
                      /\ UNCHANGED backlog

Serve(a) ==
  /\ toAgent[a] # <<>>
  /\ toAgent' = [toAgent EXCEPT ![a] = Tail(@)]
  /\ LET r == Head(toAgent[a]) IN ServeNew(a, r) \/ ServeSocket(a, r)
  /\ UNCHANGED <<scenario, threads, requestNo, tables>>

\* What was sent or awaited is done (VelTraffic): reported.
Report(a, f) ==
  /\ fds[a][f] # FreeFd /\ fds[a][f].busy # "no"
  /\ Tell(a, Answer(fds[a][f].busy, f, f, fds[a][f].thread, TRUE))
  /\ fds' = [fds EXCEPT ![a][f].busy = "no"]
  /\ UNCHANGED <<scenario, threads, requestNo, tables, toAgent, backlog, closed,
                 failures, incidents>>

\* TcAccept::accept
Accept(f) ==
  /\ fds[Server][f].kind = "listen"
  /\ LET port == Conn(fds[Server][f].thread).port
     IN  /\ backlog[port] # <<>>
         /\ backlog' = [backlog EXCEPT ![port] = Tail(@)]
         /\ \E g \in Fds :
              /\ Lowest(Server, g)
              /\ fds' = [fds EXCEPT ![Server][g] = Socket("tcp", Head(backlog[port]), 0)]
              /\ Tell(Server, Answer("ACCEPTED", fds[Server][f].id_req, g,
                                  Head(backlog[port]), TRUE))
  /\ UNCHANGED <<scenario, threads, requestNo, tables, toAgent, closed, failures,
                 incidents>>

\* receivePacket at the end of the stream: reported, and the socket deleted.
EndOfStream(a, f) ==
  /\ fds[a][f] # FreeFd /\ fds[a][f].kind = "tcp" /\ fds[a][f].reads
  /\ fds[a][f].thread \in closed[Peer(a, fds[a][f].thread)]
  /\ fds' = [fds EXCEPT ![a][f] = FreeFd]
  /\ closed' = [closed EXCEPT ![a] = @ \union {fds[a][f].thread}]
  /\ Tell(a, Answer("CLOSED", f, f, fds[a][f].thread, TRUE))
  /\ UNCHANGED <<scenario, threads, requestNo, tables, toAgent, backlog, failures,
                 incidents>>

----------------------------------------------------------------------------
Manager ==
  \/ ThreadRests \/ \E t \in Threads : Operation(t)

Next ==
  \/ Manager
  \/ \E e \in Events : SyncFires(e)
  \/ \E t \in Threads : DelayEnds(t)
  \/ \E a \in Agents : Hear(a) \/ Serve(a)
  \/ \E f \in Fds : Accept(f) \/ \E a \in Agents : Report(a, f) \/ EndOfStream(a, f)

\* The dispatch loops serve what is ready and timers run out.
Fairness ==
  /\ WF_vars(Manager)
  /\ \A e \in Events : WF_vars(SyncFires(e))
  /\ \A t \in Threads : WF_vars(DelayEnds(t))
  /\ \A a \in Agents : WF_vars(Hear(a)) /\ WF_vars(Serve(a))
  /\ \A f \in Fds : WF_vars(Accept(f)) /\ \A a \in Agents : WF_vars(Report(a, f))

Spec == Init /\ [][Next]_vars
FairSpec == Spec /\ Fairness

----------------------------------------------------------------------------
SocketOps == {"CONNECT", "RECV", "SEND", "RECVTERM", "CLOSE"}
Stats == SocketOps \union {"OPEN", "LISTEN", "ACCEPT"}

\* Every variable keeps its type, and the tables of velm their keys.
TypeOK ==
  /\ scenario \in Scenarios
  /\ stmtPos \in [Threads -> Nat] /\ step \in [Threads -> 1 .. 5]
  /\ aborted \subseteq Threads /\ resume \in Seq(Threads)
  /\ waitfor \in [Events -> SUBSET Threads] /\ fired \subseteq Events
  /\ requestNo \in Nat
  /\ \A a \in Agents :
       /\ requests[a] \subseteq [id : Nat, stat : Stats, thread : Threads]
       /\ \A r, q \in requests[a] : r.id = q.id /\ r.stat = q.stat => r = q
       /\ connects[a] \subseteq [stat : {"OPENED", "CONNECTED", "CLOSING"},
                                  thread : Threads, id_sock : Fds]
       /\ \A c, d \in connects[a] : c.thread = d.thread /\ c.stat = d.stat => c = d
       /\ \A i \in 1 .. Len(toAgent[a]) : toAgent[a][i] \in
            [op : Stats \ {"ACCEPT"}, id : Nat, thread : Threads]
       /\ \A f \in Fds : fds[a][f] = FreeFd \/ fds[a][f] \in
            [kind : {"tcp", "udp", "listen"}, thread : Threads, id_req : Nat,
             reads : BOOLEAN, busy : {"no", "SEND", "RECVTERM"}]
  /\ listens \subseteq [port : Ports, stat : {"REQ_LISTEN", "LISTEN"}, id_req : Nat]
  /\ \A k, l \in listens : k.port = l.port => k = l
  /\ accepts \subseteq [thread : Threads, port : Ports, id_sock : Fds]
  /\ backlog \in [Ports -> Seq(Threads)] /\ closed \in [Agents -> SUBSET Threads]
  /\ failures \in Nat
  /\ incidents \subseteq {"request lost", "refused", "not connected", "unexpected",
                           "failed", "stray"}

\* Two threads have the same server address, one of them over UDP: listens_
\* has one entry for both, since an address is compared without its protocol,
\* and the first confirmation takes it away.
SharedUdp ==
  \E t, u \in Threads :
    t # u /\ Conn(t).port = Conn(u).port /\ Conn(t).protocol = "udp"

\* What the code itself calls an internal error, an answer for which there is
\* no request, does not happen, unless a descriptor was taken for another, a
\* request was lost, or a UDP server shares its address with another one.
NoInternalError ==
  "unexpected" \in incidents =>
    SharedUdp \/ incidents \intersect {"stray", "request lost"} # {}

\* Where every thread waits for all the others after its connect and before
\* its first close, no request is served at the socket of another thread,
\* although descriptors are used again as soon as the agents have closed them.
SyncsOnceAt(t, e, k) ==
  \A i \in 1 .. Len(Program(t)) :
    /\ Program(t)[i].kind = "sync" /\ Program(t)[i].event = e <=> i = k
    /\ Program(t)[i].kind = "connect" => i < k
    /\ Program(t)[i].kind = "close" => i > k

Separated ==
  \E e \in Events :
    /\ Members[e] = Threads
    /\ \A t \in Threads : \E k \in 1 .. Len(Program(t)) : SyncsOnceAt(t, e, k)

OwnSocket == Separated => "stray" \notin incidents

\* A thread waits only while something is under way that will wake it: the
\* other members of its event, a timer, or its request, at an agent or on its
\* way; an accept may also wait for a connection to come.  Servers that share
\* an address with one of UDP are left out: the confirmation of the one takes
\* the entry of the other out of listens_, and an accept may wait under another
\* number than the one its connection is reported by.
UnderWay(a, r) ==
  \/ \E i \in 1 .. Len(toAgent[a]) : toAgent[a][i].op = r.stat /\ toAgent[a][i].id = r.id
  \/ \E i \in 1 .. Len(toManager[a]) : toManager[a][i].op = r.stat /\ toManager[a][i].id = r.id
  \/ r.stat \in {"SEND", "RECVTERM"} /\ fds[a][r.id] # FreeFd /\ fds[a][r.id].busy = r.stat
  \/ r.stat = "ACCEPT" /\ \/ \E p \in Ports : \E i \in 1 .. Len(backlog[p]) : backlog[p][i] = r.thread
                          \/ \E i \in 1 .. Len(toManager[a]) :
                               toManager[a][i].op = "ACCEPTED" /\ toManager[a][i].thread = r.thread

WakeupUnderWay ==
  incidents = {} /\ ~SharedUdp =>
    \A t \in Threads :
      \/ Ended(t)
      \/ \E i \in 1 .. Len(resume) : resume[i] = t
      \/ Program(t)[stmtPos[t]].kind = "delay"
      \/ Program(t)[stmtPos[t]].kind = "sync"
           /\ t \notin waitfor[Program(t)[stmtPos[t]].event]
           /\ Program(t)[stmtPos[t]].event \notin fired
      \/ \E a \in Agents : \E r \in requests[a] : r.thread = t /\ UnderWay(a, r)

\* Unless something of the kind goes wrong, the scenario comes to its end.
\* The exception is the one of WakeupUnderWay.
ScenarioEnds == [](incidents = {} /\ ~SharedUdp) => <>(\A t \in Threads : Ended(t))

\* The sync events are the barrier they promise to be.
Barrier == INSTANCE VelBarrier WITH
  arrived <- [e \in Events |-> Members[e] \ waitfor[e]], active <- fired
ImplementsBarrier == Barrier!Spec
=============================================================================
