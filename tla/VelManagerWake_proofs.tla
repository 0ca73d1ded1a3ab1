----------------------- MODULE VelManagerWake_proofs -----------------------
(***************************************************************************)
(* Proofs that a thread of velm that waits is woken, for any number of     *)
(* threads, agents, ports, events and descriptors, and for any scenarios.  *)
(***************************************************************************)
EXTENDS VelManager_proofs

\* An operation of velm leaves its agents to themselves.
LEMMA OneAtATime ==
  ASSUME NEW t, Operation(t)
  PROVE  \A a : ~Hear(a)
<1>1. resume # <<>>
  BY DEF Operation, OpOpen, OpListen, OpAccept, OpOnSocket, OpClose, OpSync, OpDelay,
         StatementEnds, At, Going
<1>. QED  BY <1>1 DEF Hear, Idle

\* A step that goes well is one of a few.
LEMMA HearsWell ==
  ASSUME IInv, NEW a \in Agents, Hear(a), incidents' = {}
  PROVE  \/ UNCHANGED threads /\ requests' = requests
         \/ \E r \in requests[a] : Hears(a, r)
<1>1. AgentTypes
  BY DEF IInv, DataTypes
<1>2. 1 \in 1 .. Len(toManager[a]) /\ HearSteps(a, First(a))
  BY <1>1, HearFacts, HearCases DEF First
<1>3. ~Unexpected
  BY DEF Unexpected
<1>4. CASE First(a).op = "ACCEPTED" /\ \E r \in requests[Server] : Admits(First(a), r)
  <2>1. a = Server
    BY <1>1, <1>2, <1>4 DEF IInv, DataTypes, FdTypes, Proper, First
  <2>. QED  BY <1>2, <1>4, <2>1 DEF Hears
<1>5. CASE \E r \in requests[a] : Settles(a, First(a), r)
  BY <1>2, <1>5 DEF Hears
<1>6. CASE Keeps(First(a))
  BY <1>6 DEF Keeps
<1>. QED  BY <1>2, <1>3, <1>4, <1>5, <1>6 DEF HearSteps

\* What an answer does to the thread that waits for it.
LEMMA HearsMoves ==
  ASSUME IInv, NEW a \in Agents, NEW r \in requests[a], Hears(a, r), incidents' = {}
  PROVE  /\ r.thread \in Threads /\ WaitsAt(r.thread, a, r.stat) /\ Woken(r.thread)
         /\ \A u \in Threads \ {r.thread} : Still(u)
         /\ requests' = [requests EXCEPT ![a] = requests[a] \ {r}]
<1>1. ThreadTypes /\ DataTypes /\ StateInv /\ AgentTypes /\ TableTypes /\ PendingInv
  BY DEF IInv, DataTypes, StateInv, PlaceInv
<1>2. /\ r.thread \in Threads /\ WaitsAt(r.thread, a, r.stat)
      /\ 1 \in 1 .. Len(toManager[a]) /\ First(a) \in Messages /\ Hear(a) /\ Proper(a, First(a))
  BY <1>1, ElementFacts, HearFacts DEF Hears, PendingInv, First, DataTypes, FdTypes
<1>3. /\ Rests(r.thread) /\ scenario' = scenario
  BY <1>1, <1>2, WaitsAtFacts DEF Rests, Hear
<1>4. resume = <<>>
  BY <1>2 DEF Hear, Idle
<1>5. CASE Settles(a, First(a), r)
  <2>1. r.stat = First(a).op /\ First(a).op \in AnswerOps /\ (First(a).ok => First(a).id_sock \in Fds)
    <3>1. r.stat = First(a).op
      BY <1>5 DEF Settles
    <3>. QED  BY <1>1, <1>2, <3>1, ElementFacts DEF Messages, AnswerOps, Stats, SocketOps, Proper
  <2>2. /\ \A u \in Threads \ {r.thread} : Still(u)
        /\ stmtPos' = stmtPos
        /\ \/ step'[r.thread] = step[r.thread] + 1 /\ aborted' = aborted /\ InResume(r.thread)'
           \/ Fail(r.thread) /\ ~First(a).ok /\ step'[r.thread] = step[r.thread] /\ r.thread \in aborted'
    BY <1>1, <1>2, <1>3, <1>4, <1>5, <2>1, SettleState
  <2>3. incidents' # incidents \union {"failed"}
    OBVIOUS
  <2>4. Complete(<<r.thread>>) /\ requests' = [requests EXCEPT ![a] = requests[a] \ {r}]
    BY <1>5, <2>3 DEF Settles
  <2>5. aborted' = aborted
    BY <2>4 DEF Complete
  <2>6. step'[r.thread] = step[r.thread] + 1 /\ InResume(r.thread)'
    BY <1>3, <2>2, <2>5 DEF Rests
  <2>. QED  BY <1>2, <1>3, <2>2, <2>4, <2>5, <2>6 DEF Woken
<1>6. CASE a = Server /\ First(a).op = "ACCEPTED" /\ Admits(First(a), r)
  <2>1. First(a).id_sock \in Fds
    BY <1>2, <1>6 DEF Proper
  <2>2. /\ \A u \in Threads \ {r.thread} : Still(u)
        /\ r.stat = "ACCEPT" /\ step'[r.thread] = 5 /\ stmtPos' = stmtPos /\ aborted' = aborted
        /\ InResume(r.thread)' /\ WaitsAt(r.thread, Server, "ACCEPT")
    BY <1>1, <1>3, <1>4, <1>6, <2>1, AdmitState DEF Admits, Accepting
  <2>3. step[r.thread] = 4
    BY <1>1, <1>2, <2>2, WaitsAtFacts
  <2>4. requests' = [requests EXCEPT ![a] = requests[a] \ {r}]
    BY <1>6 DEF Admits
  <2>5. Woken(r.thread)
    BY <1>2, <1>3, <2>2, <2>3 DEF Woken
  <2>. QED  BY <1>2, <2>2, <2>4, <2>5
<1>. QED  BY <1>5, <1>6 DEF Hears

\* How a step that goes well moves a thread.
LEMMA Moves ==
  ASSUME IInv, [Next]_vars, incidents' = {}, NEW u \in Threads
  PROVE  \/ Still(u)
         \/ Operation(u) /\ InResume(u)
         \/ ThreadRests /\ InResume(u) /\ ~Stands(u) /\ stmtPos' = stmtPos /\ scenario' = scenario
         \/ Woken(u)
<1>. DEFINE P == \/ Still(u)
                 \/ Operation(u) /\ InResume(u)
                 \/ ThreadRests /\ InResume(u) /\ ~Stands(u) /\ stmtPos' = stmtPos /\ scenario' = scenario
                 \/ Woken(u)
<1>1. ThreadTypes /\ DataTypes /\ StateInv /\ PlaceInv /\ ResumeInv /\ StepInv
  BY DEF IInv, StateInv, PlaceInv
<1>2. ASSUME UNCHANGED threads, scenario' = scenario PROVE Still(u)
  BY <1>1, <1>2, UnmovedFacts
<1>3. ASSUME ThreadRests PROVE P
  BY <1>1, <1>3, RestMoves
<1>4. ASSUME NEW e \in Events, SyncFires(e) PROVE P
  <2>1. /\ stmtPos' = stmtPos /\ aborted' = aborted
        /\ Still(u) \/ (Waits(u, "velm", "sync") /\ step'[u] = step[u] + 1 /\ InResume(u)')
    BY <1>1, <1>4, FirePlaces
  <2>. QED  BY <2>1 DEF Woken, Rests, Waits
<1>5. ASSUME NEW t \in Threads, DelayEnds(t) PROVE P
  <2>1. /\ stmtPos' = stmtPos /\ aborted' = aborted
        /\ Still(u) \/ (Waits(u, "velm", "delay") /\ step'[u] = step[u] + 1 /\ InResume(u)')
    BY <1>1, <1>5, DelayPlaces
  <2>. QED  BY <2>1 DEF Woken, Rests, Waits
<1>6. ASSUME NEW t \in Threads, Operation(t) PROVE P
  BY <1>1, <1>6, OperationMoves
<1>7. ASSUME NEW a \in Agents, Hear(a) PROVE P
  <2>1. CASE UNCHANGED threads
    BY <1>2, <1>7, <2>1 DEF Hear
  <2>2. ASSUME NEW r \in requests[a], Hears(a, r) PROVE P
    BY <2>2, HearsMoves
  <2>. QED  BY <1>7, <2>1, <2>2, HearsWell
<1>8. ASSUME \/ \E a \in Agents : Serve(a)
             \/ \E f \in Fds : Accept(f) \/ \E a \in Agents : Report(a, f) \/ EndOfStream(a, f)
      PROVE  P
  BY <1>2, <1>8, AgentKeeps
<1>9. ASSUME UNCHANGED vars PROVE P
  BY <1>2, <1>9 DEF vars, threads
<1>. HIDE DEF P
<1>10. P
  BY <1>3, <1>4, <1>5, <1>6, <1>7, <1>8, <1>9, NextIs DEF NextCases
<1>. QED  BY <1>10 DEF P

\* A request is there until its answer is heard.
LEMMA RequestGoes ==
  ASSUME IInv, [Next]_vars, incidents' = {}, NEW a \in Agents, NEW r \in requests[a]
  PROVE  r \in requests'[a] \/ Hears(a, r)
<1>1. TableTypes
  BY DEF IInv, DataTypes
<1>2. CASE \A b \in Agents : ~Hear(b)
  BY <1>2, RequestsGrow
<1>3. ASSUME NEW b \in Agents, Hear(b), ~Hears(a, r) PROVE r \in requests'[a]
  <2>1. CASE requests' = requests
    BY <2>1
  <2>2. ASSUME NEW q \in requests[b], Hears(b, q) PROVE r \in requests'[a]
    <3>1. requests' = [requests EXCEPT ![b] = requests[b] \ {q}]
      BY <2>2, HearsMoves
    <3>2. a # b \/ r # q
      BY <1>3, <2>2
    <3>. QED  BY <1>1, <3>1, <3>2 DEF TableTypes
  <2>. QED  BY <1>3, <2>1, <2>2, HearsWell
<1>. QED  BY <1>2, <1>3

\* An operation that goes well: a request, an accept that waits or finds its
\* connection, or one that changes no table.
LEMMA OperationWell ==
  ASSUME IInv, NEW t \in Threads, Operation(t), incidents' = {}
  PROVE  \/ \E a \in Agents, id \in Nat : \E end \in {"client", "server"}, op \in AnswerOps :
              /\ Issues(t, a, end, op, id) /\ Req(t, op, id) \in requests'[a]
              /\ WaitsAt(t, a, op)' /\ stmtPos' = stmtPos
         \/ \E l \in listens : /\ Awaits(t, l) /\ Req(t, "ACCEPT", l.id_req) \in requests'[Server]
                               /\ WaitsAt(t, Server, "ACCEPT")' /\ stmtPos' = stmtPos
         \/ \E c \in accepts : Takes(t, c)
         \/ /\ Alone(t) /\ UNCHANGED <<scenario, requestNo, tables, toAgent, toManager, agents>>
            /\ \/ OpSync(t) \/ OpDelay(t) \/ StatementEnds(t)
               \/ Skip(t) /\ \/ At(t, <<"server", "LISTEN">>)
                              \/ At(t, <<"server", "ACCEPT">>)
                              \/ \E end \in {"client", "server"} :
                                   At(t, <<end, "CLOSE">>) /\ Sockets(t, AgentAt(end, t), "CONNECTED") = {}
<1>1. ThreadTypes /\ DataTypes /\ TableTypes /\ ResumeInv
  BY DEF IInv, DataTypes, StateInv, PlaceInv
<1>2. ~Loses'
  BY DEF Loses
<1>3. ASSUME NEW a, NEW id, NEW end \in {"client", "server"}, NEW op \in AnswerOps, Issues(t, a, end, op, id)
      PROVE  /\ a \in Agents /\ id \in Nat /\ Req(t, op, id) \in requests'[a]
             /\ WaitsAt(t, a, op)' /\ stmtPos' = stmtPos
  <2>1. /\ Request(t, a, op, id) /\ At(t, <<end, op>>) /\ Wait /\ scenario' = scenario /\ a = AgentAt(end, t)
        /\ op \in Stats
    BY <1>3 DEF Issues, AnswerOps
  <2>2. a \in Agents /\ id \in Nat
    BY <1>1, <1>3, IssueTypes
  <2>3. Req(t, op, id) \in requests'[a]
    BY <1>1, <1>2, <2>1, <2>2, RequestAdds
  <2>. QED  BY <1>1, <2>1, <2>2, <2>3, AtWaits DEF Wait
<1>4. ASSUME NEW l \in listens, Awaits(t, l)
      PROVE  /\ Req(t, "ACCEPT", l.id_req) \in requests'[Server]
             /\ WaitsAt(t, Server, "ACCEPT")' /\ stmtPos' = stmtPos
  <2>1. /\ Request(t, Server, "ACCEPT", l.id_req) /\ At(t, <<"server", "ACCEPT">>) /\ Wait /\ scenario' = scenario
        /\ Server = AgentAt("server", t) /\ Server \in Agents
    BY <1>4 DEF Awaits, AgentAt, Agents
  <2>2. l.id_req \in Nat
    BY <1>1, <1>4, AwaitTypes
  <2>3. Req(t, "ACCEPT", l.id_req) \in requests'[Server]
    BY <1>1, <1>2, <2>1, <2>2, RequestAdds DEF Stats
  <2>. QED  BY <1>1, <2>1, <2>3, AtWaits DEF Wait
<1>5. ASSUME Alone(t)
      PROVE  /\ UNCHANGED <<scenario, requestNo, tables, toAgent, toManager, agents>>
             /\ \/ OpSync(t) \/ OpDelay(t) \/ StatementEnds(t)
                \/ Skip(t) /\ \/ At(t, <<"server", "LISTEN">>)
                               \/ At(t, <<"server", "ACCEPT">>)
                               \/ \E end \in {"client", "server"} :
                                    At(t, <<end, "CLOSE">>) /\ Sockets(t, AgentAt(end, t), "CONNECTED") = {}
  BY <1>5 DEF Alone
<1>. QED  BY <1>3, <1>4, <1>5, OperationCases

\* An event stays for a thread until it wakes it.
LEMMA EventStays ==
  ASSUME IInv, [Next]_vars, NEW u \in Threads, Still(u), ~InResume(u), Stands(u), AtEvent(u)
  PROVE  AtEvent(u)'
<1>1. ThreadTypes /\ PlaceInv
  BY DEF IInv, StateInv
<1>2. Current(u)' = Current(u)
  BY StillFacts, ScenarioStays
<1>3. PICK e \in Events : e = Current(u).event
  <2>1. Current(u).event \in Events
    BY <1>1, StandsFacts, ScenarioFacts DEF AtEvent, ThreadTypes, Current
  <2>. QED  BY <2>1
<1>4. u \in Members[e] \ waitfor[e] /\ e \notin fired
  BY <1>3 DEF AtEvent
<1>5. e \notin fired' /\ u \notin waitfor'[e]
  <2>1. CASE UNCHANGED <<waitfor, fired>>
    BY <1>4, <2>1
  <2>2. ASSUME NEW d \in Events, SyncFires(d) PROVE e \notin fired' /\ u \notin waitfor'[e]
    <3>1. /\ waitfor' = waitfor /\ fired' = fired \union {d}
          /\ \A v \in Members[d] : InResume(v)'
      BY <1>1, <2>2, FirePlaces
    <3>2. d # e
      BY <1>4, <3>1 DEF Still
    <3>. QED  BY <1>4, <3>1, <3>2
  <2>3. ASSUME NEW t \in Threads, Operation(t) PROVE e \notin fired' /\ u \notin waitfor'[e]
    <3>1. CASE OpSync(t)
      <4>1. fired' = fired /\ (waitfor' = waitfor \/ \E d : waitfor' = [waitfor EXCEPT ![d] = @ \ {t}])
        BY <3>1 DEF OpSync, Abort
      <4>. QED  BY <1>1, <1>4, <4>1 DEF ThreadTypes
    <3>2. CASE ~OpSync(t)
      <4>1. UNCHANGED <<waitfor, fired>>
        BY <2>3, <3>2, OperationThreads DEF Wait, Skip, Abort, StatementEnds
      <4>. QED  BY <2>1, <4>1
    <3>. QED  BY <3>1, <3>2
  <2>4. CASE ThreadRests \/ UNCHANGED vars
    <3>1. UNCHANGED <<waitfor, fired>>
      BY <2>4 DEF ThreadRests, vars, threads
    <3>. QED  BY <2>1, <3>1
  <2>. QED  BY <2>1, <2>2, <2>3, <2>4, Elsewhere, NextIs DEF NextCases
<1>. QED  BY <1>2, <1>3, <1>4, <1>5 DEF AtEvent

\* A thread that velm leaves waits for something.
LEMMA WaitBegins ==
  ASSUME IInv, NEW u \in Threads, Operation(u), incidents' = {}, Rests(u)'
  PROVE  (Current(u).kind)' = "delay" \/ AtEvent(u)' \/ HasRequest(u)'
<1>1. ThreadTypes /\ ResumeInv /\ InResume(u) /\ Server \in Agents
  BY OperationMoves DEF IInv, StateInv, PlaceInv, Agents
<1>2. ASSUME NEW a \in Agents, NEW id, NEW op, Req(u, op, id) \in requests'[a] PROVE HasRequest(u)'
  BY <1>2, ReqFacts DEF HasRequest
<1>3. resume' # resume /\ u \notin aborted'
  BY <1>1 DEF Rests, InResume
<1>4. ~Skip(u) /\ ~StatementEnds(u) /\ ~Abort(u) /\ \A c \in accepts : ~Takes(u, c)
  BY <1>3 DEF Skip, StatementEnds, Abort, Takes
<1>5. CASE OpDelay(u)
  <2>1. At(u, <<"velm", "delay">>) /\ UNCHANGED scenario /\ stmtPos' = stmtPos
    BY <1>5 DEF OpDelay, Wait
  <2>2. /\ Current(u).kind \in Kinds /\ step[u] \in Nat \ {0}
        /\ step[u] <= Len(Ops(u)) /\ Ops(u)[step[u]] = <<"velm", "delay">>
    BY <1>1, <2>1, AtFacts DEF ThreadTypes
  <2>3. Current(u).kind = "delay"
    BY <2>2, StepFacts DEF Ops
  <2>. QED  BY <2>1, <2>3 DEF Current, Program
<1>6. CASE OpSync(u)
  <2>1. At(u, <<"velm", "sync">>) /\ UNCHANGED scenario
    BY <1>6 DEF OpSync
  <2>2. /\ Current(u).kind \in Kinds /\ step[u] \in Nat \ {0} /\ Stands(u)
        /\ step[u] <= Len(Ops(u)) /\ Ops(u)[step[u]] = <<"velm", "sync">>
    BY <1>1, <2>1, AtFacts DEF ThreadTypes
  <2>3. Current(u).kind = "sync"
    BY <2>2, StepFacts DEF Ops
  <2>4. PICK e : e = Current(u).event
    OBVIOUS
  <2>5. e \in Events
    BY <1>1, <2>2, <2>3, <2>4, StandsFacts, ScenarioFacts DEF ThreadTypes, Current
  <2>6. /\ e \notin fired /\ u \in waitfor[e]
        /\ waitfor' = [waitfor EXCEPT ![e] = @ \ {u}]
        /\ stmtPos' = stmtPos /\ fired' = fired
    BY <1>4, <1>6, <2>4 DEF OpSync, Current
  <2>7. u \in Members[e] \ waitfor'[e]
    BY <1>1, <2>5, <2>6 DEF ThreadTypes
  <2>8. (Current(u))' = Current(u)
    BY <2>1, <2>6 DEF Current, Program
  <2>. QED  BY <2>3, <2>4, <2>6, <2>7, <2>8 DEF AtEvent
<1>. QED  BY <1>1, <1>2, <1>4, <1>5, <1>6, OperationWell

LEMMA WaitStep ==
  ASSUME IInv, WaitInv, [Next]_vars, incidents' = {}
  PROVE  WaitInv'
<1>1. SUFFICES ASSUME NEW u \in Threads, Rests(u)'
               PROVE  (Current(u).kind)' = "delay" \/ AtEvent(u)' \/ HasRequest(u)'
  BY DEF WaitInv
<1>2. CASE Still(u)
  <2>1. scenario' = scenario /\ Current(u)' = Current(u) /\ Rests(u)
    BY <1>1, <1>2, ScenarioStays, StillFacts DEF Rests, Still
  <2>2. CASE Current(u).kind = "delay"
    BY <2>1, <2>2
  <2>3. CASE AtEvent(u)
    BY <1>2, <2>1, <2>3, EventStays DEF Rests
  <2>4. ASSUME NEW a \in Agents, NEW r \in requests[a], r.thread = u PROVE HasRequest(u)'
    <3>1. ~Hears(a, r)
      BY <1>1, <2>4, HearsMoves DEF Woken, Rests
    <3>. QED  BY <2>4, <3>1, RequestGoes DEF HasRequest
  <2>. QED  BY <2>1, <2>2, <2>3, <2>4 DEF WaitInv, HasRequest
<1>3. CASE Operation(u)
  BY <1>1, <1>3, WaitBegins
<1>4. CASE ~Stands(u) /\ stmtPos' = stmtPos /\ scenario' = scenario
  BY <1>1, <1>4 DEF Rests, Stands, Program
<1>5. CASE Woken(u)
  BY <1>1, <1>5 DEF Woken, Rests
<1>. QED  BY <1>2, <1>3, <1>4, <1>5, Moves

\* What is on its way stays there until it is taken.
LEMMA AskStays ==
  ASSUME IInv, [Next]_vars, NEW a \in Agents, NEW i \in 1 .. Len(toAgent[a])
  PROVE  \/ \E j \in 1 .. Len(toAgent'[a]) : toAgent'[a][j] = toAgent[a][i]
         \/ Serve(a) /\ i = 1
<1>. DEFINE P == \E j \in 1 .. Len(toAgent'[a]) : toAgent'[a][j] = toAgent[a][i]
<1>1. ThreadTypes /\ DataTypes /\ AgentTypes /\ Len(toAgent[a]) \in Nat
  BY TokenThreads DEF IInv, DataTypes
<1>2. ASSUME toAgent' = toAgent PROVE P
  BY <1>2
<1>3. ASSUME NEW t, NEW b, NEW id, NEW end \in {"client", "server"}, NEW op \in AnswerOps, Issues(t, b, end, op, id)
      PROVE  P
  <2>1. b \in Agents /\ t \in Threads /\ id \in Nat /\ Send(t, b, op, id)
    BY <1>1, <1>3, IssueTypes DEF Issues
  <2>2. /\ \A c \in Agents \ {b} : toAgent'[c] = toAgent[c]
        /\ Len(toAgent'[b]) = Len(toAgent[b]) + 1
        /\ \A j \in 1 .. Len(toAgent[b]) : toAgent'[b][j] = toAgent[b][j]
    BY <1>1, <2>1, SendFacts
  <2>3. i \in 1 .. Len(toAgent'[a]) /\ toAgent'[a][i] = toAgent[a][i]
    BY <1>1, <2>2
  <2>. QED  BY <2>3
<1>4. ASSUME NEW b \in Agents, Serve(b) PROVE P \/ (Serve(a) /\ i = 1)
  <2>1. CASE a # b
    BY <1>1, <1>4, <2>1, ServeFacts
  <2>2. CASE a = b /\ i # 1
    <3>1. toAgent' = [toAgent EXCEPT ![a] = Tail(@)] /\ toAgent[a] # <<>> /\ toAgent[a] \in Seq(Requests)
      BY <1>1, <1>4, <2>2 DEF Serve, AgentTypes
    <3>2. toAgent'[a] = Tail(toAgent[a])
      BY <1>1, <3>1 DEF AgentTypes
    <3>3. Len(toAgent[a]) \in Nat /\ Len(toAgent'[a]) = Len(toAgent[a]) - 1
      BY <3>1, <3>2, TailFacts
    <3>4. PICK k : k = i - 1
      OBVIOUS
    <3>5. k \in 1 .. Len(toAgent'[a]) /\ k + 1 = i
      BY <2>2, <3>3, <3>4
    <3>6. toAgent'[a][k] = toAgent[a][k + 1]
      BY <3>1, <3>2, <3>5, TailFacts
    <3>. QED  BY <3>5, <3>6
  <2>. QED  BY <1>4, <2>1, <2>2
<1>5. ASSUME NEW t \in Threads, Operation(t) PROVE P
  <2>1. CASE \A b, id : \A end \in {"client", "server"}, op \in AnswerOps : ~Issues(t, b, end, op, id)
    <3>1. toAgent' = toAgent
      BY <1>5, <2>1, OperationCases DEF Awaits, Takes, Alone
    <3>. QED  BY <1>2, <3>1
  <2>. QED  BY <1>3, <2>1
<1>6. ASSUME NEW b \in Agents, Hear(b) PROVE P
  BY <1>2, <1>6 DEF Hear
<1>7. ASSUME NEW f \in Fds, Accept(f) \/ \E b \in Agents : Report(b, f) \/ EndOfStream(b, f) PROVE P
  BY <1>2, <1>7 DEF Accept, Report, EndOfStream
<1>8. ASSUME \/ UNCHANGED vars \/ ThreadRests \/ (\E e \in Events : SyncFires(e))
             \/ (\E u \in Threads : DelayEnds(u))
      PROVE  P
  BY <1>2, <1>8, LocalKeeps
<1>. HIDE DEF P
<1>9. P \/ (Serve(a) /\ i = 1)
  BY <1>4, <1>5, <1>6, <1>7, <1>8, NextIs DEF NextCases
<1>. QED  BY <1>9 DEF P

LEMMA AnswerStays ==
  ASSUME IInv, [Next]_vars, NEW a \in Agents, NEW i \in 1 .. Len(toManager[a])
  PROVE  \/ \E j \in 1 .. Len(toManager'[a]) : toManager'[a][j] = toManager[a][i]
         \/ Hear(a) /\ i = 1
<1>1. AgentTypes /\ Len(toManager[a]) \in Nat
  BY TokenThreads DEF IInv, DataTypes
<1>2. ASSUME NEW b \in Agents, Hear(b), a # b \/ i # 1
      PROVE  \E j \in 1 .. Len(toManager'[a]) : toManager'[a][j] = toManager[a][i]
  <2>1. CASE a # b
    BY <1>1, <1>2, <2>1, HearFacts
  <2>2. CASE a = b /\ i # 1
    <3>1. toManager' = [toManager EXCEPT ![a] = Tail(@)] /\ toManager[a] # <<>> /\ toManager[a] \in Seq(Messages)
      BY <1>1, <1>2, <2>2 DEF Hear, AgentTypes
    <3>2. toManager'[a] = Tail(toManager[a])
      BY <1>1, <3>1 DEF AgentTypes
    <3>3. Len(toManager[a]) \in Nat /\ Len(toManager'[a]) = Len(toManager[a]) - 1
      BY <3>1, <3>2, TailFacts
    <3>4. PICK k : k = i - 1
      OBVIOUS
    <3>5. k \in 1 .. Len(toManager'[a]) /\ k + 1 = i
      BY <2>2, <3>3, <3>4
    <3>6. toManager'[a][k] = toManager[a][k + 1]
      BY <3>1, <3>2, <3>5, TailFacts
    <3>. QED  BY <3>5, <3>6
  <2>. QED  BY <1>2, <2>1, <2>2
<1>3. ASSUME NEW b \in Agents, NEW m \in Messages, Tell(b, m)
      PROVE  \E j \in 1 .. Len(toManager'[a]) : toManager'[a][j] = toManager[a][i]
  <2>1. CASE a = b
    BY <1>1, <1>3, <2>1, TellFacts
  <2>2. CASE a # b
    BY <1>1, <1>3, <2>2, TellFacts
  <2>. QED  BY <2>1, <2>2
<1>. QED  BY <1>2, <1>3, Tells

\* A descriptor that another one changes is as it was.
LEMMA PutAside ==
  ASSUME AgentTypes, NEW b \in Agents, NEW g \in Fds, NEW new \in {FreeFd} \union SocketType,
         fds' = [fds EXCEPT ![b][g] = new], NEW a \in Agents, NEW f \in Fds, a # b \/ f # g
  PROVE  fds'[a][f] = fds[a][f]
<1>1. CASE a = b
  BY <1>1, PutFacts
<1>2. CASE a # b
  BY <1>2, PutFacts
<1>. QED  BY <1>1, <1>2

\* What a report or the end of a stream leaves of a socket.
LEMMA ReportPuts ==
  ASSUME IInv, NEW a \in Agents, NEW f \in Fds, Report(a, f) \/ EndOfStream(a, f)
  PROVE  /\ fds[a][f] # FreeFd
         /\ \E new \in {FreeFd} \union SocketType :
              /\ fds' = [fds EXCEPT ![a][f] = new]
              /\ new # FreeFd => new.reads = fds[a][f].reads
<1>1. AgentTypes /\ fds[a][f] # FreeFd
  BY DEF IInv, DataTypes, Report, EndOfStream
<1>2. PICK s \in SocketType : s = fds[a][f]
  BY <1>1, SocketFacts
<1>3. CASE Report(a, f)
  <2>1. PICK n : n = [s EXCEPT !.busy = "no"]
    OBVIOUS
  <2>2. n \in SocketType /\ n.reads = s.reads
    BY <2>1 DEF SocketType
  <2>3. fds' = [fds EXCEPT ![a][f] = n]
    BY <1>2, <1>3, <2>1 DEF Report
  <2>. QED  BY <1>1, <1>2, <2>2, <2>3
<1>4. CASE EndOfStream(a, f)
  <2>1. fds' = [fds EXCEPT ![a][f] = FreeFd]
    BY <1>4 DEF EndOfStream
  <2>2. PICK n \in {FreeFd} \union SocketType : n = FreeFd
    OBVIOUS
  <2>. QED  BY <1>1, <2>1, <2>2
<1>. QED  BY <1>3, <1>4

\* A request at a socket changes only that one.
LEMMA ServePuts ==
  ASSUME IInv, NEW a \in Agents, NEW r \in Requests, r.op \in SocketOps, r.id \in Fds, Serving(a, r),
         "stray" \notin incidents', fds' # fds
  PROVE  /\ fds[a][r.id] # FreeFd /\ fds[a][r.id].thread = r.thread
         /\ \E new \in {FreeFd} \union SocketType :
              /\ fds' = [fds EXCEPT ![a][r.id] = new]
              /\ new # FreeFd => new.reads = fds[a][r.id].reads \/ r.op = "RECV"
<1>1. AgentTypes
  BY DEF IInv, DataTypes
<1>2. /\ fds[a][r.id] # FreeFd /\ fds[a][r.id].thread = r.thread
      /\ Reads(a, r) \/ Begins(a, r) \/ Shuts(a, r)
  BY <1>1, SocketCases DEF Serving, Misses, Dials
<1>3. PICK s \in SocketType : s = fds[a][r.id]
  BY <1>1, <1>2, SocketFacts
<1>4. CASE Reads(a, r)
  <2>1. PICK n : n = [s EXCEPT !.reads = TRUE]
    OBVIOUS
  <2>2. n \in SocketType
    BY <2>1 DEF SocketType
  <2>3. fds' = [fds EXCEPT ![a][r.id] = n] /\ r.op = "RECV"
    BY <1>3, <1>4, <2>1 DEF Reads
  <2>. QED  BY <1>2, <2>2, <2>3
<1>5. CASE Begins(a, r)
  <2>1. PICK op \in {"SEND", "RECVTERM"} : op = r.op
    BY <1>5 DEF Begins
  <2>2. PICK n : n = [s EXCEPT !.busy = op]
    OBVIOUS
  <2>3. n \in SocketType /\ n.reads = s.reads
    BY <2>2 DEF SocketType
  <2>4. fds' = [fds EXCEPT ![a][r.id] = n]
    BY <1>3, <1>5, <2>1, <2>2 DEF Begins
  <2>. QED  BY <1>2, <1>3, <2>3, <2>4
<1>6. CASE Shuts(a, r)
  <2>1. fds' = [fds EXCEPT ![a][r.id] = FreeFd]
    BY <1>6 DEF Shuts
  <2>2. PICK n \in {FreeFd} \union SocketType : n = FreeFd
    OBVIOUS
  <2>. QED  BY <1>2, <2>1, <2>2
<1>. QED  BY <1>2, <1>4, <1>5, <1>6

\* How a step changes a descriptor: there is a new socket; a socket reports, or
\* is at the end of its stream; or a request is served at a socket.
LEMMA Puts ==
  ASSUME IInv, [Next]_vars, "stray" \notin incidents'
  PROVE  \/ fds' = fds
         \/ \E a \in Agents, f \in Fds, new \in {FreeFd} \union SocketType :
              /\ fds' = [fds EXCEPT ![a][f] = new]
              /\ \/ fds[a][f] = FreeFd /\ new.reads = FALSE
                 \/ /\ Report(a, f) \/ EndOfStream(a, f)
                    /\ fds[a][f] # FreeFd /\ (new # FreeFd => new.reads = fds[a][f].reads)
                 \/ \E r \in Requests :
                      /\ Serve(a) /\ 1 \in 1 .. Len(toAgent[a]) /\ r = toAgent[a][1] /\ r.id = f
                      /\ fds[a][f] # FreeFd /\ fds[a][f].thread = r.thread
                      /\ new # FreeFd => new.reads = fds[a][f].reads \/ r.op = "RECV"
<1>. DEFINE Put == \E a \in Agents, f \in Fds, new \in {FreeFd} \union SocketType :
              /\ fds' = [fds EXCEPT ![a][f] = new]
              /\ \/ fds[a][f] = FreeFd /\ new.reads = FALSE
                 \/ /\ Report(a, f) \/ EndOfStream(a, f)
                    /\ fds[a][f] # FreeFd /\ (new # FreeFd => new.reads = fds[a][f].reads)
                 \/ \E r \in Requests :
                      /\ Serve(a) /\ 1 \in 1 .. Len(toAgent[a]) /\ r = toAgent[a][1] /\ r.id = f
                      /\ fds[a][f] # FreeFd /\ fds[a][f].thread = r.thread
                      /\ new # FreeFd => new.reads = fds[a][f].reads \/ r.op = "RECV"
<1>1. AgentTypes /\ scenario \in Scenarios /\ Server \in Agents
  BY DEF IInv, DataTypes, ThreadTypes, Agents
<1>2. ASSUME NEW a \in Agents, NEW f \in Fds, Report(a, f) \/ EndOfStream(a, f) PROVE Put
  BY <1>2, ReportPuts
<1>3. ASSUME NEW g \in Fds, Accept(g) PROVE Put
  <2>1. FirstAt(PortOf(g)) \in Threads /\ \E f \in Fds : Accepts(g, f)
    BY <1>1, <1>3, AcceptFacts
  <2>2. PICK f \in Fds : Accepts(g, f)
    BY <2>1
  <2>3. PICK k \in {"tcp", "udp", "listen"}, t \in Threads, n \in Nat :
          k = "tcp" /\ t = FirstAt(PortOf(g)) /\ n = 0
    BY <2>1
  <2>4. PICK new : new = Socket(k, t, n)
    OBVIOUS
  <2>5. new \in SocketType /\ new.reads = FALSE
    <3>1. Socket(k, t, n) \in SocketType /\ Socket(k, t, n).reads = FALSE
      BY DEF Socket, SocketType
    <3>. QED  BY <2>4, <3>1, Zenon
  <2>6. fds' = [fds EXCEPT ![Server][f] = new] /\ fds[Server][f] = FreeFd
    BY <2>2, <2>3, <2>4 DEF Accepts
  <2>. QED  BY <1>1, <2>5, <2>6
<1>4. ASSUME NEW a \in Agents, Serve(a), fds' # fds PROVE Put
  <2>1. PICK r \in Requests : Serving(a, r)
    BY <1>4, ServeRequest
  <2>2. CASE r.op \in NewOps
    <3>1. PICK f \in Fds, k \in {"tcp", "udp", "listen"} : Creates(a, r, f, k)
      BY <1>1, <1>4, <2>1, <2>2, NewCases DEF Serving, Declines
    <3>2. PICK t \in Threads, n \in Nat : t = r.thread /\ n = r.id
      BY DEF Requests
    <3>3. PICK new : new = Socket(k, t, n)
      OBVIOUS
    <3>4. new \in SocketType /\ new.reads = FALSE
      <4>1. Socket(k, t, n) \in SocketType /\ Socket(k, t, n).reads = FALSE
        BY DEF Socket, SocketType
      <4>. QED  BY <3>3, <4>1, Zenon
    <3>5. fds' = [fds EXCEPT ![a][f] = new] /\ fds[a][f] = FreeFd
      BY <3>1, <3>2, <3>3 DEF Creates
    <3>. QED  BY <3>4, <3>5
  <2>3. CASE r.op \in SocketOps
    <3>1. r.id \in Fds /\ 1 \in 1 .. Len(toAgent[a]) /\ r = toAgent[a][1]
      BY <2>1, <2>3 DEF Serving
    <3>2. PICK f \in Fds : f = r.id
      BY <3>1
    <3>3. /\ fds[a][f] # FreeFd /\ fds[a][f].thread = r.thread
          /\ \E new \in {FreeFd} \union SocketType :
               /\ fds' = [fds EXCEPT ![a][f] = new]
               /\ new # FreeFd => new.reads = fds[a][f].reads \/ r.op = "RECV"
      BY <1>4, <2>1, <2>3, <3>1, <3>2, ServePuts
    <3>4. PICK new \in {FreeFd} \union SocketType :
               /\ fds' = [fds EXCEPT ![a][f] = new]
               /\ new # FreeFd => new.reads = fds[a][f].reads \/ r.op = "RECV"
      BY <3>3
    <3>5. /\ Serve(a) /\ 1 \in 1 .. Len(toAgent[a]) /\ r = toAgent[a][1] /\ r.id = f
          /\ fds[a][f] # FreeFd /\ fds[a][f].thread = r.thread
          /\ new # FreeFd => new.reads = fds[a][f].reads \/ r.op = "RECV"
      BY <1>4, <3>1, <3>2, <3>3, <3>4
    <3>. QED  BY <3>4, <3>5, Zenon
  <2>. QED  BY <2>1, <2>2, <2>3 DEF Serving
<1>. HIDE DEF Put
<1>5. ASSUME \/ UNCHANGED vars \/ ThreadRests \/ (\E t \in Threads : Operation(t))
             \/ (\E e \in Events : SyncFires(e)) \/ (\E t \in Threads : DelayEnds(t))
             \/ (\E a \in Agents : Hear(a))
      PROVE  fds' = fds
  BY <1>5, ManagerAgents DEF agents, Manager
<1>6. fds' = fds \/ Put
  BY <1>2, <1>3, <1>4, <1>5, NextIs DEF NextCases
<1>. QED  BY <1>6 DEF Put

\* A socket is busy until it reports, or its stream ends.
LEMMA BusyStays ==
  ASSUME IInv, TokenInv, [Next]_vars, "stray" \notin incidents', NEW a \in Agents, NEW f \in Fds, Busy(a, f)
  PROVE  fds'[a][f] = fds[a][f] \/ Report(a, f) \/ EndOfStream(a, f)
<1>1. AgentTypes /\ fds[a][f] # FreeFd
  BY DEF IInv, DataTypes, Busy
<1>2. ASSUME NEW b \in Agents, NEW g \in Fds, NEW new \in {FreeFd} \union SocketType,
             fds' = [fds EXCEPT ![b][g] = new], a # b \/ f # g
      PROVE  fds'[a][f] = fds[a][f]
  BY <1>1, <1>2, PutAside
<1>3. ASSUME NEW r \in Requests, 1 \in 1 .. Len(toAgent[a]), r = toAgent[a][1], fds[a][f].thread = r.thread
      PROVE  FALSE
  BY <1>1, <1>3, AskedAlone DEF TokenInv
<1>. QED  BY <1>1, <1>2, <1>3, Puts

\* Only servers read.
LEMMA ReadsStep ==
  ASSUME IInv, TokenInv, ReadsInv, [Next]_vars, "stray" \notin incidents'
  PROVE  ReadsInv'
<1>1. AgentTypes /\ ThreadTypes
  BY DEF IInv, DataTypes
<1>2. SUFFICES ASSUME NEW a \in Agents, NEW f \in Fds, fds'[a][f] # FreeFd, fds'[a][f].reads, a # Server
               PROVE  FALSE
  BY DEF ReadsInv
<1>3. fds'[a][f] # fds[a][f]
  BY <1>2 DEF ReadsInv
<1>4. PICK b \in Agents, g \in Fds, new \in {FreeFd} \union SocketType :
              /\ fds' = [fds EXCEPT ![b][g] = new]
              /\ \/ fds[b][g] = FreeFd /\ new.reads = FALSE
                 \/ /\ Report(b, g) \/ EndOfStream(b, g)
                    /\ fds[b][g] # FreeFd /\ (new # FreeFd => new.reads = fds[b][g].reads)
                 \/ \E r \in Requests :
                      /\ Serve(b) /\ 1 \in 1 .. Len(toAgent[b]) /\ r = toAgent[b][1] /\ r.id = g
                      /\ fds[b][g] # FreeFd /\ fds[b][g].thread = r.thread
                      /\ new # FreeFd => new.reads = fds[b][g].reads \/ r.op = "RECV"
  BY <1>3, Puts
<1>5. a = b /\ f = g
  BY <1>1, <1>3, <1>4, PutAside
<1>6. fds'[b][g] = new
  BY <1>1, <1>4, PutFacts
<1>7. PICK r \in Requests : 1 \in 1 .. Len(toAgent[a]) /\ r = toAgent[a][1] /\ r.op = "RECV"
  BY <1>2, <1>4, <1>5, <1>6 DEF ReadsInv
<1>8. WaitsAt(r.thread, a, "RECV") /\ r.thread \in Threads
  BY <1>1, <1>7 DEF TokenInv, TokenAt, AskInv, Requests
<1>. QED  BY <1>1, <1>2, <1>8, WaitsAtFacts

\* A message that an agent tells is in the queue.
LEMMA TellIn ==
  ASSUME IInv, NEW a \in Agents, NEW m \in Messages, Tell(a, m)
  PROVE  \E j \in 1 .. Len(toManager'[a]) : toManager'[a][j] = m
<1>1. AgentTypes
  BY DEF IInv, DataTypes
<1>2. /\ Len(toManager'[a]) = Len(toManager[a]) + 1 /\ Len(toManager[a]) \in Nat
      /\ toManager'[a][Len(toManager[a]) + 1] = m
  BY <1>1, TellFacts
<1>. QED  BY <1>2

LEMMA AskDue ==
  ASSUME IInv, [Next]_vars, "stray" \notin incidents', NEW a \in Agents, NEW r \in requests[a], AsksFor(a, r)
  PROVE  AsksFor(a, r)' \/ Answered(a, r)' \/ WorksOn(a, r)'
<1>1. AgentTypes
  BY DEF IInv, DataTypes
<1>2. PICK i \in 1 .. Len(toAgent[a]) : toAgent[a][i] = Ask(r.thread, r.stat, r.id)
  BY DEF AsksFor
<1>3. CASE \E j \in 1 .. Len(toAgent'[a]) : toAgent'[a][j] = toAgent[a][i]
  BY <1>2, <1>3 DEF AsksFor
<1>4. CASE Serve(a) /\ i = 1
  <2>1. PICK q \in Requests : q = toAgent[a][1]
    BY <1>1, <1>4, ServeFacts
  <2>2. q.op = r.stat /\ q.id = r.id /\ q.thread = r.thread
    BY <1>2, <1>4, <2>1, AskFields
  <2>3. \/ \E m \in Messages : Served(a, q, m)
        \/ /\ Begins(a, q) /\ q.id \in Fds /\ fds[a][q.id] # FreeFd
           /\ fds[a][q.id].thread = q.thread
    BY <1>4, <2>1, ServeOutcome
  <2>4. ASSUME NEW m \in Messages, Served(a, q, m) PROVE Answered(a, r)'
    BY <2>2, <2>4, TellIn DEF Served, Answered, Answers
  <2>5. ASSUME Begins(a, q), q.id \in Fds, fds[a][q.id] # FreeFd, fds[a][q.id].thread = q.thread
        PROVE  WorksOn(a, r)'
    <3>1. PICK s \in SocketType, op \in {"SEND", "RECVTERM"} : s = fds[a][q.id] /\ op = q.op
      BY <1>1, <2>5, SocketFacts DEF Begins
    <3>2. PICK n : n = [s EXCEPT !.busy = op]
      OBVIOUS
    <3>3. n \in SocketType /\ n.busy = op /\ n.thread = s.thread
      BY <3>1, <3>2 DEF SocketType
    <3>4. fds' = [fds EXCEPT ![a][q.id] = n]
      BY <2>5, <3>1, <3>2 DEF Begins
    <3>5. fds'[a][q.id] = n
      BY <1>1, <2>5, <3>3, <3>4, PutFacts
    <3>6. n # FreeFd
      BY <3>3, FreeIsNoSocket
    <3>. QED  BY <2>2, <2>5, <3>1, <3>3, <3>5, <3>6 DEF WorksOn, Busy
  <2>. QED  BY <2>3, <2>4, <2>5
<1>. QED  BY <1>2, <1>3, <1>4, AskStays

LEMMA AnswerDue ==
  ASSUME IInv, [Next]_vars, incidents' = {}, NEW a \in Agents, NEW r \in requests[a], ~Hears(a, r),
         r.stat # "ACCEPT", Answered(a, r)
  PROVE  Answered(a, r)'
<1>1. AgentTypes /\ TableTypes /\ KeyInv
  BY DEF IInv, DataTypes, StateInv
<1>2. PICK i \in 1 .. Len(toManager[a]) : Answers(toManager[a][i], r)
  BY DEF Answered
<1>3. ASSUME Hear(a), i = 1 PROVE FALSE
  <2>1. 1 \in 1 .. Len(toManager[a]) /\ HearSteps(a, First(a))
    BY <1>1, <1>3, HearFacts, HearCases DEF First
  <2>2. First(a).op = r.stat /\ First(a).id = r.id
    BY <1>2, <1>3 DEF Answers, First
  <2>3. r.stat \notin {"CLOSED", "ACCEPTED"}
    BY <1>1, ElementFacts DEF Stats, SocketOps
  <2>4. ~Unexpected
    BY DEF Unexpected
  <2>5. PICK q \in requests[a] : Settles(a, First(a), q)
    BY <2>1, <2>2, <2>3, <2>4 DEF HearSteps
  <2>6. q = r
    BY <1>1, <2>2, <2>5 DEF Settles, KeyInv
  <2>. QED  BY <1>3, <2>1, <2>5, <2>6 DEF Hears
<1>4. PICK j \in 1 .. Len(toManager'[a]) : toManager'[a][j] = toManager[a][i]
  BY <1>3, AnswerStays
<1>. QED  BY <1>2, <1>4 DEF Answered, Answers

\* What is to be received from a closed client is not waited for.
LEMMA NoneEnds ==
  ASSUME IInv, TokenInv, ReadsInv, ClosedInv, NEW a \in Agents, NEW f \in Fds, Busy(a, f), EndOfStream(a, f)
  PROVE  FALSE
<1>1. ThreadTypes /\ AgentTypes
  BY DEF IInv, DataTypes
<1>2. PICK t \in Threads : t = fds[a][f].thread
  BY <1>1, TokenThreads
<1>3. a = Server /\ t \in closed[Conn(t).client]
  BY <1>2 DEF EndOfStream, ReadsInv, Peer
<1>4. WaitsAt(t, a, fds[a][f].busy) /\ fds[a][f].busy \in {"SEND", "RECVTERM"}
  BY <1>1, <1>2, TokenThreads DEF TokenInv, TokenAt, WorkInv
<1>5. /\ Stands(t) /\ Current(t).kind = "traffic" /\ ~InResume(t) /\ t \notin aborted
  BY <1>1, <1>4, WaitsAtFacts
<1>. QED  BY <1>3, <1>5 DEF ClosedInv, Closes, HasClosed

LEMMA WorkDue ==
  ASSUME IInv, TokenInv, ReadsInv, ClosedInv, [Next]_vars, "stray" \notin incidents',
         NEW a \in Agents, NEW r \in requests[a], WorksOn(a, r)
  PROVE  Answered(a, r)' \/ WorksOn(a, r)'
<1>1. AgentTypes
  BY DEF IInv, DataTypes
<1>2. PICK f \in Fds : f = r.id
  BY DEF WorksOn
<1>3. Busy(a, f) /\ fds[a][f].busy = r.stat /\ fds[a][f].thread = r.thread
  BY <1>2 DEF WorksOn
<1>4. CASE fds'[a][f] = fds[a][f]
  BY <1>2, <1>3, <1>4 DEF WorksOn, Busy
<1>5. CASE Report(a, f)
  <2>1. Tell(a, Answer(fds[a][f].busy, f, f, fds[a][f].thread, TRUE))
    BY <1>5 DEF Report
  <2>2. PICK t \in Threads, op \in {"SEND", "RECVTERM"} : t = fds[a][f].thread /\ op = fds[a][f].busy
    BY <1>1, <1>3, TokenThreads
  <2>3. PICK m : m = Answer(op, f, f, t, TRUE)
    OBVIOUS
  <2>4. m \in Messages /\ m.op = op /\ m.id = f /\ m.thread = t
    BY <2>3 DEF Answer, Messages, Fds, AnswerOps, Stats, SocketOps
  <2>5. Tell(a, m)
    BY <2>1, <2>2, <2>3
  <2>. QED  BY <1>2, <1>3, <2>2, <2>4, <2>5, TellIn DEF Answered, Answers
<1>. QED  BY <1>3, <1>4, <1>5, NoneEnds, BusyStays

LEMMA DueStep ==
  ASSUME IInv, TokenInv, DueInv, ReadsInv, ClosedInv, [Next]_vars, incidents' = {}
  PROVE  DueInv'
<1>1. SUFFICES ASSUME NEW a \in Agents, NEW r \in requests'[a], r.stat # "ACCEPT"
               PROVE  AsksFor(a, r)' \/ Answered(a, r)' \/ WorksOn(a, r)'
  BY DEF DueInv
<1>2. ThreadTypes /\ DataTypes /\ AgentTypes /\ TableTypes
  BY DEF IInv, DataTypes
<1>3. "stray" \notin incidents'
  OBVIOUS
<1>4. CASE r \in requests[a]
  <2>1. ~Hears(a, r)
    <3>1. ASSUME Hears(a, r) PROVE FALSE
      <4>1. requests' = [requests EXCEPT ![a] = requests[a] \ {r}]
        BY <1>4, <3>1, HearsMoves
      <4>. QED  BY <1>1, <1>2, <4>1 DEF TableTypes
    <3>. QED  BY <3>1
  <2>2. AsksFor(a, r) \/ Answered(a, r) \/ WorksOn(a, r)
    BY <1>1, <1>4 DEF DueInv
  <2>. QED  BY <1>1, <1>3, <1>4, <2>1, <2>2, AskDue, AnswerDue, WorkDue
<1>5. ASSUME NEW t \in Threads, NEW id \in Nat, NEW end \in {"client", "server"}, NEW op \in AnswerOps,
             Issues(t, a, end, op, id), r = Req(t, op, id)
      PROVE  AsksFor(a, r)'
  <2>1. Send(t, a, op, id)
    BY <1>5 DEF Issues
  <2>2. /\ Len(toAgent'[a]) = Len(toAgent[a]) + 1 /\ Len(toAgent[a]) \in Nat
        /\ toAgent'[a][Len(toAgent[a]) + 1] = Ask(t, op, id)
    BY <1>2, <2>1, SendFacts DEF Ask
  <2>. QED  BY <1>5, <2>2, ReqFacts DEF AsksFor
<1>6. ASSUME NEW t, NEW l, r = Req(t, "ACCEPT", l) PROVE FALSE
  BY <1>1, <1>6, ReqFacts
<1>. QED  BY <1>4, <1>5, <1>6, RequestFrom

\* A connection waits until the server accepts it, and that is reported.
LEMMA BacklogStays ==
  ASSUME IInv, [Next]_vars, NEW t \in Threads, InBacklog(t)
  PROVE  Called(t)'
<1>1. AgentTypes /\ scenario \in Scenarios /\ Server \in Agents
  BY DEF IInv, DataTypes, ThreadTypes, Agents
<1>2. PICK p \in Ports : \E i \in 1 .. Len(backlog[p]) : backlog[p][i] = t
  BY DEF InBacklog
<1>. PICK i \in 1 .. Len(backlog[p]) : backlog[p][i] = t
  BY <1>2
<1>3. ASSUME backlog' = backlog PROVE Called(t)'
  BY <1>2, <1>3 DEF Called, InBacklog
<1>4. ASSUME NEW a \in Agents, Serve(a) PROVE Called(t)'
  <2>1. ASSUME NEW r \in Requests, Calls(a, r) PROVE Called(t)'
    <3>1. PICK u \in Threads, q \in Ports : u = r.thread /\ q = Conn(u).port
      BY <1>1, ScenarioFacts DEF Requests
    <3>2. backlog' = [backlog EXCEPT ![q] = Append(@, u)]
      BY <2>1, <3>1 DEF Calls
    <3>3. backlog'[p] = IF p = q THEN Append(backlog[p], u) ELSE backlog[p]
      BY <1>1, <3>1, <3>2 DEF AgentTypes
    <3>4. backlog[p] \in Seq(Threads)
      BY <1>1 DEF AgentTypes
    <3>5. i \in 1 .. Len(backlog'[p]) /\ backlog'[p][i] = t
      BY <1>2, <3>1, <3>3, <3>4, AppendFacts
    <3>. QED  BY <3>5 DEF Called, InBacklog
  <2>. QED  BY <1>3, <1>4, <2>1, ServeBacklog
<1>5. ASSUME NEW f \in Fds, Accept(f) PROVE Called(t)'
  <2>1. /\ backlog[PortOf(f)] # <<>> /\ FirstAt(PortOf(f)) \in Threads /\ PortOf(f) \in Ports
        /\ fds[Server][f].id_req \in Nat /\ \E g \in Fds : Accepts(f, g)
        /\ \A q \in Ports \ {PortOf(f)} : backlog'[q] = backlog[q]
    BY <1>1, <1>5, AcceptFacts
  <2>2. CASE p # PortOf(f)
    BY <1>2, <2>1, <2>2 DEF Called, InBacklog
  <2>3. CASE p = PortOf(f) /\ i = 1
    <3>1. PICK g \in Fds : Accepts(f, g)
      BY <2>1
    <3>2. PICK n \in Nat : n = fds[Server][f].id_req
      BY <2>1
    <3>3. PICK m : m = Answer("ACCEPTED", n, g, t, TRUE)
      OBVIOUS
    <3>4. m \in Messages /\ m.op = "ACCEPTED" /\ m.thread = t
      BY <3>3 DEF Answer, Messages, Fds
    <3>5. Tell(Server, m)
      BY <1>2, <2>3, <3>1, <3>2, <3>3 DEF Accepts, FirstAt
    <3>. QED  BY <1>1, <3>4, <3>5, TellIn DEF Called, Reported
  <2>4. CASE p = PortOf(f) /\ i # 1
    <3>1. backlog[p] \in Seq(Threads) /\ backlog[p] # <<>>
      BY <1>1, <2>1, <2>4 DEF AgentTypes
    <3>2. backlog'[p] = Tail(backlog[p])
      BY <1>1, <1>5, <2>4 DEF Accept, PortOf, AgentTypes
    <3>3. Len(backlog[p]) \in Nat /\ Len(backlog'[p]) = Len(backlog[p]) - 1
      BY <3>1, <3>2, TailFacts
    <3>4. PICK k : k = i - 1
      OBVIOUS
    <3>5. k \in 1 .. Len(backlog'[p]) /\ k + 1 = i
      BY <2>4, <3>3, <3>4
    <3>6. backlog'[p][k] = backlog[p][k + 1]
      BY <3>1, <3>2, <3>5, TailFacts
    <3>. QED  BY <1>2, <3>5, <3>6 DEF Called, InBacklog
  <2>. QED  BY <2>2, <2>3, <2>4
<1>6. ASSUME \/ UNCHANGED vars \/ ThreadRests \/ (\E u \in Threads : Operation(u))
             \/ (\E e \in Events : SyncFires(e)) \/ (\E u \in Threads : DelayEnds(u))
             \/ (\E a \in Agents : Hear(a))
      PROVE  Called(t)'
  BY <1>3, <1>6, ManagerAgents DEF agents, Manager
<1>7. ASSUME NEW a \in Agents, NEW f \in Fds, Report(a, f) \/ EndOfStream(a, f) PROVE Called(t)'
  BY <1>3, <1>7 DEF Report, EndOfStream
<1>. QED  BY <1>4, <1>5, <1>6, <1>7, NextIs DEF NextCases

\* A connection that velm has not heard of is still to be heard of; then it is
\* kept, or wakes the thread that waits for it.
LEMMA CalledStays ==
  ASSUME IInv, [Next]_vars, incidents' = {}, NEW t \in Threads, Called(t), ~Called(t)'
  PROVE  /\ Hear(Server) /\ First(Server).op = "ACCEPTED" /\ First(Server).thread = t
         /\ 1 \in 1 .. Len(toManager[Server])
         /\ \/ Keeps(First(Server)) /\ Kept(t)'
            \/ \E r \in requests[Server] : r.thread = t /\ r.stat = "ACCEPT" /\ Hears(Server, r)
<1>1. AgentTypes /\ Server \in Agents
  BY DEF IInv, DataTypes, Agents
<1>2. PICK i \in 1 .. Len(toManager[Server]) :
        toManager[Server][i].op = "ACCEPTED" /\ toManager[Server][i].thread = t
  BY BacklogStays DEF Called, Reported
<1>3. Hear(Server) /\ i = 1
  <2>1. ~\E j \in 1 .. Len(toManager'[Server]) : toManager'[Server][j] = toManager[Server][i]
    BY <1>2 DEF Called, Reported
  <2>. QED  BY <1>1, <2>1, AnswerStays
<1>4. 1 \in 1 .. Len(toManager[Server]) /\ HearSteps(Server, First(Server))
  BY <1>1, <1>3, HearFacts, HearCases DEF First
<1>5. First(Server).op = "ACCEPTED" /\ First(Server).thread = t
  BY <1>2, <1>3 DEF First
<1>6. ~Unexpected
  BY DEF Unexpected
<1>7. CASE Keeps(First(Server))
  <2>1. Kept(t)'
    <3>1. PICK c : c = [thread |-> First(Server).thread, port |-> Conn(First(Server).thread).port,
                        id_sock |-> First(Server).id_sock]
      OBVIOUS
    <3>2. c.thread = t /\ c \in accepts'
      BY <1>5, <1>7, <3>1 DEF Keeps
    <3>. QED  BY <3>2 DEF Kept
  <2>. QED  BY <1>3, <1>4, <1>5, <1>7, <2>1
<1>8. ASSUME NEW r \in requests[Server], Admits(First(Server), r)
      PROVE  r.thread = t /\ r.stat = "ACCEPT" /\ Hears(Server, r)
  BY <1>3, <1>4, <1>5, <1>8 DEF Admits, Accepting, Hears
<1>. QED  BY <1>3, <1>4, <1>5, <1>6, <1>7, <1>8 DEF HearSteps, AnswerOps, Stats, SocketOps

\* The number of an entry of listens_ is that of its address.
LEMMA EntryOne ==
  ASSUME KeyInv, NEW n, NEW k, NEW p, Entry(n, p), Entry(k, p)
  PROVE  n = k
BY DEF KeyInv, Entry

LEMMA AcceptStep ==
  ASSUME IInv, Orderly, ListenInv, AcceptInv, DialedInv, ~SharedUdp, [Next]_vars, incidents' = {}
  PROVE  AcceptInv'
<1>1. SUFFICES ASSUME NEW r \in requests'[Server], r.stat = "ACCEPT"
               PROVE  Called(r.thread)' /\ Entry(r.id, Conn(r.thread).port)'
  BY DEF AcceptInv
<1>2. /\ ThreadTypes /\ AgentTypes /\ TableTypes /\ KeyInv /\ PendingInv /\ Server \in Agents
      /\ scenario' = scenario
  BY ScenarioStays DEF IInv, DataTypes, StateInv, PlaceInv, Agents
<1>3. CASE r \in requests[Server]
  <2>1. /\ r.thread \in Threads /\ Conn(r.thread).protocol = "tcp"
        /\ Called(r.thread) /\ Entry(r.id, Conn(r.thread).port)
    BY <1>1, <1>2, <1>3, ElementFacts DEF PendingInv, AcceptInv
  <2>2. ~Hears(Server, r)
    <3>1. ASSUME Hears(Server, r) PROVE FALSE
      <4>1. requests' = [requests EXCEPT ![Server] = requests[Server] \ {r}]
        BY <1>2, <1>3, <3>1, HearsMoves
      <4>. QED  BY <1>1, <1>2, <4>1 DEF TableTypes
    <3>. QED  BY <3>1
  <2>3. Called(r.thread)'
    <3>1. SUFFICES ASSUME ~Called(r.thread)' PROVE FALSE
      OBVIOUS
    <3>2. /\ First(Server).op = "ACCEPTED" /\ First(Server).thread = r.thread
          /\ 1 \in 1 .. Len(toManager[Server])
          /\ \/ Keeps(First(Server))
             \/ \E q \in requests[Server] : q.thread = r.thread /\ Hears(Server, q)
      BY <2>1, <3>1, CalledStays
    <3>3. Keeps(First(Server))
      BY <1>2, <1>3, <2>2, <3>2 DEF PendingInv
    <3>4. PICK n : n = First(Server).id
      OBVIOUS
    <3>5. Entry(n, Conn(r.thread).port)
      BY <3>2, <3>4 DEF ListenInv, AnnouncedInv, Announced, First
    <3>6. n = r.id
      BY <1>2, <2>1, <3>5, EntryOne
    <3>. QED  BY <1>1, <1>3, <3>2, <3>3, <3>4, <3>6 DEF Keeps, Accepting
  <2>4. Entry(r.id, Conn(r.thread).port)'
    <3>0. PICK n : n = r.id
      OBVIOUS
    <3>1. PICK p : n = r.id /\ p = Conn(r.thread).port
      BY <3>0
    <3>2. Conn(r.thread)' = Conn(r.thread)
      BY <1>2, SameConn
    <3>3. ASSUME ~Entry(n, p)' PROVE FALSE
      <4>1. PICK q \in requests[Server], m \in Messages :
              /\ p = Conn(q.thread).port /\ q.thread \in Threads
              /\ ~m.ok \/ Conn(q.thread).protocol = "udp"
              /\ ~m.ok => incidents' # {}
        BY <2>1, <3>1, <3>3, EntryGoes DEF ListenInv
      <4>2. q.thread = r.thread
        BY <2>1, <3>1, <4>1, OwnServer
      <4>. QED  BY <2>1, <4>1, <4>2
    <3>. QED  BY <3>1, <3>2, <3>3
  <2>. QED  BY <2>3, <2>4
<1>4. ASSUME NEW t \in Threads, NEW l \in listens, Awaits(t, l), r = Req(t, "ACCEPT", l.id_req)
      PROVE  Called(r.thread)' /\ Entry(r.id, Conn(r.thread).port)'
  <2>1. /\ r.thread = t /\ r.id = l.id_req
    BY <1>4, ReqFacts
  <2>2. /\ At(t, <<"server", "ACCEPT">>) /\ Conn(t).protocol = "tcp" /\ l.port = Conn(t).port
        /\ ~\E c \in accepts : c.thread = t /\ c.port = Conn(t).port
        /\ UNCHANGED <<listens, toManager, agents>>
    BY <1>4 DEF Awaits
  <2>3. Dialed(t)
    <3>1. /\ Stands(t) /\ InResume(t) /\ Current(t).kind \in Kinds /\ step[t] \in Nat \ {0}
          /\ step[t] <= Len(Ops(t)) /\ Ops(t)[step[t]] = <<"server", "ACCEPT">>
      BY <1>2, <2>2, AtFacts DEF ThreadTypes
    <3>2. Current(t).kind = "connect" /\ step[t] = 4
      BY <3>1, StepFacts DEF Ops
    <3>. QED  BY <3>1, <3>2 DEF Dialed
  <2>4. ~Kept(t)
    BY <2>2 DEF Kept, Orderly, ConnectionInv, KeptInv
  <2>5. Called(t)
    BY <2>2, <2>3, <2>4 DEF DialedInv
  <2>6. Called(t)'
    BY <2>2, <2>5 DEF Called, InBacklog, Reported, agents
  <2>7. Conn(t)' = Conn(t)
    BY <1>2, SameConn
  <2>. QED  BY <2>1, <2>2, <2>6, <2>7 DEF Entry
<1>5. ASSUME NEW t, NEW op \in AnswerOps, NEW id, r = Req(t, op, id) PROVE FALSE
  BY <1>1, <1>5, ReqFacts DEF AnswerOps
<1>6. r \in requests[Server] \/ \E t \in Threads : \E l \in listens :
        Awaits(t, l) /\ r = Req(t, "ACCEPT", l.id_req)
  BY <1>2, <1>5, RequestFrom
<1>. QED  BY <1>3, <1>4, <1>6

\* The agent of a client confirms a connection over TCP when it has made it.
LEMMA DialedServe ==
  ASSUME IInv, TokenInv, KindInv, incidents' = {}, NEW t \in Threads, Conn(t).protocol = "tcp",
         NEW a \in Agents, a = Conn(t).client, Serve(a),
         NEW i \in 1 .. Len(toManager'[a]), Confirms(toManager'[a][i], t)
  PROVE  (\E j \in 1 .. Len(toManager[a]) : Confirms(toManager[a][j], t)) \/ InBacklog(t)'
<1>1. AgentTypes /\ ThreadTypes /\ scenario \in Scenarios
  BY DEF IInv, DataTypes, ThreadTypes
<1>2. SUFFICES ASSUME ~\E j \in 1 .. Len(toManager[a]) : Confirms(toManager[a][j], t) PROVE InBacklog(t)'
  OBVIOUS
<1>3. PICK r \in Requests : Serving(a, r)
  BY ServeRequest
<1>4. PICK op \in AnswerOps, n \in Nat, u \in Threads : op = r.op /\ n = r.id /\ u = r.thread
  BY DEF Requests
<1>5. ASSUME NEW m \in Messages, Tell(a, m) PROVE m.op = "CONNECT" /\ m.thread = t /\ m.ok
  BY <1>1, <1>2, <1>5, Told DEF Confirms
<1>6. ASSUME NEW f \in Nat, NEW ok \in BOOLEAN, Tell(a, Answer(r.op, r.id, f, r.thread, ok))
      PROVE  op = "CONNECT" /\ u = t /\ ok
  <2>1. /\ Answer(op, n, f, u, ok) \in Messages /\ Answer(op, n, f, u, ok).op = op
        /\ Answer(op, n, f, u, ok).thread = u /\ Answer(op, n, f, u, ok).ok = ok
    BY AnswerFacts
  <2>2. Tell(a, Answer(op, n, f, u, ok))
    BY <1>4, <1>6
  <2>. QED  BY <1>5, <2>1, <2>2
<1>7. toManager' # toManager
  BY <1>2
<1>8. op = "CONNECT" /\ u = t
  <2>1. PICK m \in Messages : Tell(a, m) /\ Replies(a, m)
    BY <1>7, ServeReplies
  <2>. QED  BY <1>3, <1>4, <1>5, <2>1 DEF Replies, Serving
<1>10. \/ Misses(a, r)
       \/ /\ Dials(a, r) /\ fds[a][r.id] # FreeFd /\ fds[a][r.id].thread = r.thread
          /\ fds[a][r.id].kind = "tcp" => ListensAt(Conn(r.thread).port)
  <2>1. r.id \in Fds /\ r.op = "CONNECT" /\ r.op \in SocketOps
    BY <1>3, <1>4, <1>8 DEF Serving, SocketOps
  <2>2. ServeNew(a, r) \/ ServeSocket(a, r)
    BY <1>3 DEF Serving
  <2>. QED  BY <1>1, <2>1, <2>2, SocketCases DEF Reads, Begins, Shuts
<1>11. ~Misses(a, r)
  BY <1>4, <1>6 DEF Misses
<1>12. fds[a][r.id].kind = "tcp"
  <2>1. r.id \in Fds /\ a # Server
    BY <1>1, <1>3, <1>4, <1>8, ScenarioFacts DEF Serving, SocketOps
  <2>. QED  BY <1>4, <1>8, <1>10, <1>11, <2>1 DEF KindInv, KindOf
<1>13. PICK p \in Ports : p = Conn(t).port
  BY <1>1, ScenarioFacts
<1>14. backlog' = [backlog EXCEPT ![p] = Append(@, t)]
  BY <1>4, <1>8, <1>10, <1>11, <1>12, <1>13 DEF Dials
<1>15. backlog[p] \in Seq(Threads) /\ backlog'[p] = Append(backlog[p], t)
  BY <1>1, <1>14 DEF AgentTypes
<1>16. /\ Len(backlog'[p]) = Len(backlog[p]) + 1 /\ Len(backlog[p]) \in Nat
       /\ backlog'[p][Len(backlog[p]) + 1] = t
  BY <1>15, AppendFacts
<1>. QED  BY <1>16 DEF InBacklog

\* Where a thread knows from that it is connected.
LEMMA DialedFrom ==
  ASSUME IInv, TokenInv, KindInv, RequestInv, [Next]_vars, incidents' = {}, NEW t \in Threads,
         Conn(t).protocol = "tcp", Dialed(t)'
  PROVE  Dialed(t) \/ InBacklog(t)'
<1>1. /\ AgentTypes /\ TableTypes /\ ThreadTypes /\ ResumeInv /\ scenario' = scenario
      /\ Conn(t).client \in Agents /\ Conn(t)' = Conn(t)
  BY ScenarioStays, ScenarioFacts, SameConn DEF IInv, DataTypes, ThreadTypes, StateInv, PlaceInv
<1>2. PICK a \in Agents : a = Conn(t).client
  BY <1>1
<1>3. ASSUME NEW i \in 1 .. Len(toManager'[a]), Confirms(toManager'[a][i], t)
      PROVE  Dialed(t) \/ InBacklog(t)'
  <2>1. ASSUME NEW j \in 1 .. Len(toManager[a]), Confirms(toManager[a][j], t) PROVE Dialed(t)
    BY <1>2, <2>1 DEF Dialed
  <2>2. ASSUME NEW m \in Messages, m.op = "CONNECT", Says(a, m) PROVE Serve(a)
    <3>1. ~Announces(a, m)
      BY <2>2 DEF Announces
    <3>2. ~Reports(a, m)
      BY <1>1, <2>2, TokenThreads DEF Reports
    <3>. QED  BY <2>2, <3>1, <3>2 DEF Says, Replies
  <2>3. CASE Serve(a)
    BY <1>2, <1>3, <2>1, <2>3, DialedServe
  <2>4. \/ \E j \in 1 .. Len(toManager[a]) : Confirms(toManager[a][j], t)
        \/ Serve(a)
    BY <1>3, <2>2, TellFrom DEF Confirms
  <2>. QED  BY <2>1, <2>3, <2>4
<1>4. ASSUME Stands(t)', (Current(t).kind)' = "connect", step'[t] = 4, InResume(t)'
      PROVE  Dialed(t)
  <2>1. CASE Still(t)
    BY <1>1, <1>4, <2>1, StillFacts DEF Dialed, Still
  <2>2. CASE Operation(t)
    <3>1. t = Head(resume) /\ resume # <<>>
      BY <1>1, <2>2, OperationMoves DEF IInv, StateInv, PlaceInv
    <3>2. resume' # Tail(resume)
      BY <1>1, <1>4, <3>1, LeaveFacts
    <3>3. ~StatementEnds(t)
      BY <1>1, <1>4 DEF StatementEnds, ThreadTypes
    <3>4. ~OpSync(t) /\ ~OpDelay(t) /\ ~Wait
      BY <3>2 DEF OpSync, OpDelay, Wait, Abort
    <3>5. ASSUME NEW end \in {"client", "server"}, NEW op \in {"LISTEN", "ACCEPT", "CLOSE"}, At(t, <<end, op>>), Skip(t)
          PROVE  FALSE
      <4>1. /\ Current(t).kind \in Kinds /\ step[t] \in Nat \ {0}
            /\ step[t] <= Len(Ops(t)) /\ Ops(t)[step[t]] = <<end, op>>
        BY <1>1, <3>5, AtFacts DEF ThreadTypes
      <4>2. stmtPos' = stmtPos /\ step'[t] = step[t] + 1
        BY <1>1, <3>5 DEF Skip, ThreadTypes
      <4>3. (Current(t).kind)' = Current(t).kind
        BY <1>1, <4>2 DEF Current, Program
      <4>4. /\ op = "LISTEN" => step[t] = 2
            /\ op = "ACCEPT" => step[t] = 4
            /\ op = "CLOSE" => Current(t).kind = "close"
        BY <4>1, StepFacts DEF Ops
      <4>. QED  BY <1>4, <4>2, <4>3, <4>4
    <3>. QED  BY <2>2, <3>3, <3>4, <3>5, OperationWell DEF Issues, Awaits, Takes
  <2>3. CASE ~Stands(t) /\ stmtPos' = stmtPos
    BY <1>1, <1>4, <2>3 DEF Stands, Program
  <2>4. CASE Woken(t)
    <3>1. /\ stmtPos'[t] = stmtPos[t] /\ step[t] = 3 /\ Current(t).kind = "connect"
      BY <1>1, <1>4, <2>4 DEF Woken, ThreadTypes, Current, Program
    <3>2. \A op \in {"delay", "sync"} : ~Waits(t, "velm", op)
      BY <1>1, <3>1, WaitsFacts
    <3>3. PICK b \in Agents : \E r \in requests[b] : r.thread = t /\ Hears(b, r)
      BY <2>4, <3>2 DEF Woken
    <3>10. PICK r \in requests[b] : r.thread = t /\ Hears(b, r)
      BY <3>3
    <3>4. WaitsAt(t, b, r.stat)
      BY <3>10, HearsMoves
    <3>5. r.stat = "CONNECT" /\ b = a
      BY <1>1, <1>2, <3>1, <3>4, WaitsAtFacts DEF Stats, SocketOps
    <3>6. Settles(b, First(b), r) /\ Hear(b) /\ 1 \in 1 .. Len(toManager[b])
      BY <3>10, <3>5 DEF Hears, Admits, Accepting
    <3>7. First(b).op = "CONNECT" /\ First(b).id = r.id
      BY <3>5, <3>6 DEF Settles
    <3>8. First(b).ok
      <4>1. incidents' # incidents \union {"failed"}
        OBVIOUS
      <4>. QED  BY <3>6, <3>7, <4>1 DEF Settles
    <3>9. First(b).thread = t
      BY <3>10, <3>5, <3>6, <3>7, HeardRequest DEF First, AnswerOps, Stats, SocketOps
    <3>. QED  BY <1>2, <3>5, <3>6, <3>7, <3>8, <3>9 DEF Dialed, Confirms, First
  <2>. QED  BY <2>1, <2>2, <2>3, <2>4, Moves
<1>. QED  BY <1>1, <1>2, <1>3, <1>4 DEF Dialed

\* A connection is kept until its thread takes it.
LEMMA KeptStays ==
  ASSUME IInv, [Next]_vars, NEW c \in accepts
  PROVE  c \in accepts' \/ \E t \in Threads : Takes(t, c)
<1>1. AgentTypes
  BY DEF IInv, DataTypes
<1>2. ASSUME NEW t \in Threads, Operation(t), ~Takes(t, c) PROVE c \in accepts'
  BY <1>2, OperationCases DEF Issues, Awaits, Takes, Alone, tables
<1>3. ASSUME NEW a \in Agents, Hear(a) PROVE c \in accepts'
  <2>1. HearSteps(a, toManager[a][1])
    BY <1>1, <1>3, HearCases
  <2>. QED  BY <2>1 DEF HearSteps, Keeps, Admits, Settles, Unexpected, tables
<1>4. ASSUME UNCHANGED vars PROVE c \in accepts'
  BY <1>4 DEF vars, tables
<1>. QED  BY <1>2, <1>3, <1>4, NextIs, LocalKeeps, AgentKeeps DEF NextCases

LEMMA DialedStep ==
  ASSUME IInv, TokenInv, KindInv, RequestInv, DialedInv, [Next]_vars, incidents' = {}
  PROVE  DialedInv'
<1>1. /\ AgentTypes /\ TableTypes /\ ThreadTypes /\ scenario' = scenario
  BY ScenarioStays DEF IInv, DataTypes
<1>2. SUFFICES ASSUME NEW t \in Threads, Conn(t).protocol = "tcp", Dialed(t)', ~Called(t)', ~Kept(t)'
               PROVE  FALSE
  BY <1>1, SameConn DEF DialedInv
<1>3. PICK a \in Agents : a = Conn(t).client /\ a # Server
  <2>1. Conn(t).client \in Agents /\ Conn(t).client # Server
    BY <1>1, ScenarioFacts DEF ThreadTypes
  <2>. QED  BY <2>1
<1>4. Called(t) \/ Kept(t)
  BY <1>2, DialedFrom DEF DialedInv, Called
<1>5. ASSUME toManager'[a] = toManager[a], InResume(t) \/ WaitsAt(t, Server, "ACCEPT"), step'[t] = 5
      PROVE  FALSE
  <2>1. ~(step'[t] = 4)
    BY <1>5
  <2>2. Conn(t)' = Conn(t)
    BY <1>1, SameConn
  <2>3. PICK i \in 1 .. Len(toManager[a]) : Confirms(toManager[a][i], t)
    BY <1>2, <1>3, <1>5, <2>1, <2>2 DEF Dialed
  <2>4. WaitsAt(t, a, "CONNECT")
    BY <1>3, <2>3 DEF TokenInv, TokenAt, AnswerInv, IsAnswer, Confirms, AnswerOps, Stats, SocketOps
  <2>. QED  BY <1>1, <1>3, <1>5, <2>4, WaitsAtFacts
<1>6. CASE Called(t)
  <2>1. PICK r \in requests[Server] : r.thread = t /\ r.stat = "ACCEPT" /\ Hears(Server, r)
    BY <1>2, <1>6, CalledStays
  <2>2. Server \in Agents
    BY DEF Agents
  <2>3. WaitsAt(t, Server, "ACCEPT") /\ Woken(t) /\ step[t] = 4
    BY <1>1, <2>1, <2>2, HearsMoves, WaitsAtFacts
  <2>4. step'[t] = 5
    BY <2>3 DEF Woken
  <2>5. toManager'[a] = toManager[a]
    BY <1>1, <1>3, <2>1, <2>2, HearFacts DEF Hears
  <2>. QED  BY <1>5, <2>3, <2>4, <2>5
<1>7. CASE Kept(t)
  <2>1. PICK c \in accepts : c.thread = t /\ c \notin accepts'
    BY <1>2, <1>7 DEF Kept
  <2>2. PICK u \in Threads : Takes(u, c)
    BY <2>1, KeptStays
  <2>3. u = t /\ At(t, <<"server", "ACCEPT">>) /\ Skip(t) /\ toManager' = toManager
    BY <2>1, <2>2 DEF Takes
  <2>4. InResume(t) /\ step[t] = 4
    <3>1. /\ Current(t).kind \in Kinds /\ step[t] \in Nat \ {0} /\ InResume(t)
          /\ step[t] <= Len(Ops(t)) /\ Ops(t)[step[t]] = <<"server", "ACCEPT">>
      BY <1>1, <2>3, AtFacts
    <3>. QED  BY <3>1, StepFacts DEF Ops
  <2>5. step'[t] = 5
    BY <1>1, <2>3, <2>4 DEF Skip, ThreadTypes
  <2>. QED  BY <1>5, <2>3, <2>4, <2>5
<1>. QED  BY <1>4, <1>6, <1>7

\* What stands at a step, and the step that a statement begins with.
LEMMA AtKind ==
  ASSUME ThreadTypes, NEW t, NEW end, NEW op, At(t, <<end, op>>)
  PROVE  /\ t \in Threads /\ Stands(t) /\ InResume(t) /\ t \notin aborted
         /\ op \in {"OPEN", "LISTEN", "CONNECT", "ACCEPT"} => Current(t).kind = "connect"
         /\ op \in {"RECV", "SEND", "RECVTERM"} => Current(t).kind = "traffic"
         /\ op = "CLOSE" => Current(t).kind = "close" /\ step[t] = IF end = "client" THEN 1 ELSE 2
         /\ op \in {"sync", "delay"} => Current(t).kind = op
         /\ Current(t).kind = "traffic" /\ step[t] = 1 => op = "RECV" /\ end = "server"
         /\ Current(t).kind = "close" /\ step[t] = 2 => op = "CLOSE" /\ end = "server"
<1>1. /\ t \in Threads /\ Stands(t) /\ InResume(t) /\ t \notin aborted
      /\ Current(t).kind \in Kinds /\ step[t] \in Nat \ {0}
      /\ step[t] <= Len(Ops(t)) /\ Ops(t)[step[t]] = <<end, op>>
  BY AtFacts
<1>2. /\ step[t] \in 1 .. 4
      /\ \/ end \in {"client", "server"} /\ op \in Stats /\ Current(t).kind \in {"connect", "traffic", "close"}
         \/ end = "velm" /\ op = Current(t).kind /\ step[t] = 1 /\ Current(t).kind \in {"delay", "sync"}
      /\ op = "OPEN" => Current(t).kind = "connect"
      /\ op = "LISTEN" => Current(t).kind = "connect"
      /\ op = "CONNECT" => Current(t).kind = "connect"
      /\ op = "ACCEPT" => Current(t).kind = "connect"
      /\ op = "RECV" => Current(t).kind = "traffic"
      /\ op = "SEND" => Current(t).kind = "traffic"
      /\ op = "RECVTERM" => Current(t).kind = "traffic"
      /\ op = "CLOSE" => Current(t).kind = "close" /\ step[t] = IF end = "client" THEN 1 ELSE 2
  BY <1>1, StepFacts DEF Ops
<1>3. Current(t).kind = "traffic" /\ step[t] = 1 => op = "RECV" /\ end = "server"
  BY <1>1 DEF Ops, StepsOf
<1>4. Current(t).kind = "close" /\ step[t] = 2 => op = "CLOSE" /\ end = "server"
  BY <1>1 DEF Ops, StepsOf
<1>. QED  BY <1>1, <1>2, <1>3, <1>4 DEF Stats, SocketOps

\* The client is only asked to close after the connect.
LEMMA CloseAsked ==
  ASSUME IInv, ClosedInv, [Next]_vars, incidents' = {}, NEW t \in Threads,
         WaitsAt(t, Conn(t).client, "CLOSE")'
  PROVE  Past(t, 5)'
<1>1. /\ ThreadTypes /\ TableTypes /\ ResumeInv /\ SocketInv /\ scenario' = scenario /\ ThreadTypes'
      /\ Conn(t)' = Conn(t) /\ Conn(t).client \in Agents /\ Conn(t).client # Server
  BY ScenarioStays, ScenarioFacts, SameConn, Invariance DEF IInv, DataTypes, StateInv, PlaceInv, ThreadTypes
<1>2. PICK a \in Agents : a = Conn(t).client /\ a # Server
  BY <1>1
<1>3. /\ WaitsAt(t, a, "CLOSE")' /\ ~InResume(t)' /\ Stands(t)' /\ t \notin aborted'
      /\ (Current(t).kind)' = "close"
      /\ \A b, op : WaitsAt(t, b, op)' => b = a /\ op = "CLOSE"
      /\ ~Waits(t, "velm", "sync")' /\ ~Waits(t, "velm", "delay")'
  <2>1. WaitsAt(t, a, "CLOSE")'
    BY <1>1, <1>2
  <2>2. PICK end \in {"client", "server"} : a = AgentAt(end, t)' /\ Waits(t, end, "CLOSE")'
    BY <2>1 DEF WaitsAt
  <2>3. /\ ~InResume(t)' /\ Stands(t)' /\ t \notin aborted'
        /\ step'[t] <= Len(Ops(t)') /\ Ops(t)'[step'[t]] = <<end, "CLOSE">>
    BY <2>2 DEF Waits
  <2>4. PICK k \in Kinds : k = (Current(t).kind)'
    <3>1. stmtPos'[t] \in 1 .. Len(Program(t)) /\ Program(t)' = Program(t)
      BY <1>1, <2>3, ScenarioFacts DEF Stands, Program, ThreadTypes
    <3>2. Program(t)[stmtPos'[t]].kind \in Kinds
      BY <1>1, <3>1, ScenarioFacts DEF ThreadTypes
    <3>. QED  BY <3>1, <3>2 DEF Current
  <2>5. Ops(t)' = StepsOf(k) /\ step'[t] \in Nat \ {0}
    BY <1>1, <2>4 DEF Ops, ThreadTypes
  <2>6. k = "close"
    BY <2>3, <2>5, StepFacts
  <2>7. ASSUME NEW op, NEW e, Waits(t, e, op)' PROVE e = end /\ op = "CLOSE"
    BY <2>3, <2>7 DEF Waits
  <2>. QED  BY <2>1, <2>2, <2>3, <2>4, <2>6, <2>7 DEF WaitsAt
<1>4. CASE Still(t)
  BY <1>1, <1>2, <1>3, <1>4, StillFacts DEF ClosedInv
<1>5. ASSUME Past(t, 5) PROVE Past(t, 5)'
  BY <1>1, <1>5, GoesOn, PastGrows
<1>6. CASE Operation(t)
  <2>1. resume' # resume
    BY <1>1, <1>3, <1>6, OperationMoves DEF InResume, IInv, StateInv, PlaceInv
  <2>2. ~StatementEnds(t) /\ ~Skip(t)
    BY <2>1 DEF StatementEnds, Skip
  <2>3. ~OpDelay(t)
    BY <1>1, <1>3, AtWaits DEF OpDelay
  <2>4. ~OpSync(t)
    <3>1. SUFFICES ASSUME OpSync(t) PROVE FALSE
      OBVIOUS
    <3>2. Current(t).kind = "sync" /\ stmtPos' = stmtPos
      BY <1>1, <3>1, AtKind DEF OpSync, Abort
    <3>. QED  BY <1>1, <1>3, <3>2 DEF Current, Program
  <2>5. ASSUME NEW b \in Agents, NEW id \in Nat, NEW end \in {"client", "server"}, NEW op \in AnswerOps,
               Issues(t, b, end, op, id), WaitsAt(t, b, op)'
        PROVE  Past(t, 5)
    <3>1. b = a /\ op = "CLOSE"
      BY <1>3, <2>5
    <3>2. PICK c \in connects[a] : c.thread = t /\ c.stat = "CONNECTED"
      BY <2>5, <3>1 DEF Issues, NewOps, Sockets, Known
    <3>3. Past(t, 3)
      BY <1>2, <3>2 DEF IInv, StateInv, SocketInv, Learned
    <3>4. Current(t).kind = "close"
      BY <1>1, <2>5, <3>1, AtKind DEF Issues
    <3>. QED  BY <3>3, <3>4 DEF Past, Current
  <2>. QED  BY <1>3, <1>5, <1>6, <2>2, <2>3, <2>4, <2>5, OperationWell DEF Takes, AnswerOps
<1>. QED  BY <1>1, <1>3, <1>4, <1>6, Moves DEF Woken, Stands, Program

\* Only a client that is asked to close closes.
LEMMA ClosedFrom ==
  ASSUME IInv, TokenInv, ReadsInv, [Next]_vars, "stray" \notin incidents', NEW a \in Agents, a # Server,
         NEW t, t \in closed'[a]
  PROVE  t \in closed[a] \/ (Serve(a) /\ WaitsAt(t, a, "CLOSE"))
<1>1. AgentTypes /\ scenario \in Scenarios
  BY DEF IInv, DataTypes, ThreadTypes
<1>2. ASSUME closed' = closed PROVE t \in closed[a]
  BY <1>2
<1>3. ASSUME NEW b \in Agents, NEW f \in Fds, EndOfStream(b, f) PROVE t \in closed[a]
  <2>1. b = Server
    BY <1>3 DEF EndOfStream, ReadsInv
  <2>. QED  BY <1>1, <1>3, <2>1 DEF EndOfStream, AgentTypes
<1>4. ASSUME NEW b \in Agents, Serve(b), closed' # closed PROVE t \in closed[a] \/ (Serve(a) /\ WaitsAt(t, a, "CLOSE"))
  <2>1. PICK r \in Requests : Serving(b, r)
    BY <1>4, ServeRequest
  <2>2. r.op \in SocketOps /\ r.id \in Fds
    BY <1>1, <1>4, <2>1, NewCases DEF Serving
  <2>3. Shuts(b, r) /\ fds[b][r.id].thread = r.thread
    BY <1>1, <1>4, <2>1, <2>2, SocketCases DEF Serving, Misses, Dials, Reads, Begins
  <2>4. WaitsAt(r.thread, b, r.op)
    BY <2>1 DEF TokenInv, TokenAt, AskInv, Serving
  <2>. QED  BY <1>1, <1>4, <2>3, <2>4 DEF Shuts, AgentTypes
<1>5. ASSUME \/ \E f \in Fds : Accept(f) \/ \E b \in Agents : Report(b, f) PROVE closed' = closed
  BY <1>5 DEF Accept, Report
<1>6. ASSUME \/ UNCHANGED vars \/ ThreadRests \/ (\E e \in Events : SyncFires(e))
             \/ (\E u \in Threads : DelayEnds(u)) \/ (\E u \in Threads : Operation(u)) \/ \E b \in Agents : Hear(b)
      PROVE  closed' = closed
  BY <1>6, ManagerAgents DEF Manager, agents
<1>. QED  BY <1>2, <1>3, <1>4, <1>5, <1>6, NextIs DEF NextCases

\* Until it has closed the server, too, a thread goes on to do so.
LEMMA ClosesStay ==
  ASSUME IInv, [Next]_vars, incidents' = {}, NEW t \in Threads, Closes(t)
  PROVE  Closes(t)' \/ HasClosed(t)'
<1>1. /\ ThreadTypes /\ TableTypes /\ ResumeInv /\ scenario' = scenario
      /\ Server \in Agents
  BY ScenarioStays DEF IInv, DataTypes, StateInv, PlaceInv, Agents
<1>2. ASSUME stmtPos' = stmtPos
      PROVE  (Stands(t)' <=> Stands(t)) /\ Current(t)' = Current(t)
  BY <1>1, <1>2 DEF Stands, Current, Program
<1>3. CASE Still(t)
  BY <1>1, <1>3, StillFacts DEF Closes, Still
<1>4. CASE Woken(t)
  <2>1. step[t] = 1 /\ stmtPos'[t] = stmtPos[t] /\ step'[t] = 2 /\ InResume(t)'
    BY <1>1, <1>4 DEF Woken, Rests, Closes, ThreadTypes
  <2>. QED  BY <1>1, <2>1 DEF Closes, Stands, Current, Program
<1>5. CASE Operation(t) /\ InResume(t)
  <2>1. Stands(t) /\ Current(t).kind = "close" /\ step[t] = 2
    BY <1>5 DEF Closes
  <2>2. ASSUME NEW end, NEW op, At(t, <<end, op>>) PROVE op = "CLOSE" /\ end = "server"
    BY <1>1, <2>1, <2>2, AtKind
  <2>3. ASSUME stmtPos' = stmtPos,
               \A c \in connects'[Server] : c.thread = t => c.stat # "CONNECTED"
        PROVE  HasClosed(t)'
    BY <1>2, <2>1, <2>3 DEF HasClosed
  <2>4. ASSUME NEW a, NEW id, NEW end \in {"client", "server"}, NEW op \in AnswerOps,
               Issues(t, a, end, op, id), stmtPos' = stmtPos
        PROVE  HasClosed(t)'
    <3>1. op = "CLOSE" /\ a = Server
      BY <2>2, <2>4 DEF Issues, AgentAt
    <3>2. PICK c \in connects[Server] :
            /\ c.thread = t /\ c.stat = "CONNECTED"
            /\ connects' = [connects EXCEPT ![Server] =
                             (connects[Server] \ {c}) \union {[c EXCEPT !.stat = "CLOSING"]}]
      BY <2>4, <3>1 DEF Issues, NewOps, Sockets, Known
    <3>3. [c EXCEPT !.stat = "CLOSING"].stat = "CLOSING"
      BY <1>1, <3>2, ElementFacts
    <3>4. ASSUME NEW d \in connects[Server] \ {c}, d.thread = t PROVE d.stat # "CONNECTED"
      BY <1>1, <3>2, <3>4 DEF IInv, StateInv, SocketInv
    <3>5. connects'[Server] = (connects[Server] \ {c}) \union {[c EXCEPT !.stat = "CLOSING"]}
      BY <1>1, <3>2 DEF TableTypes
    <3>. QED  BY <2>3, <2>4, <3>3, <3>4, <3>5
  <2>5. ~StatementEnds(t)
    BY <2>1 DEF StatementEnds, StepsOf, Current
  <2>6. ASSUME NEW end \in {"client", "server"}, At(t, <<end, "CLOSE">>), Skip(t), connects' = connects,
               Sockets(t, AgentAt(end, t), "CONNECTED") = {}
        PROVE  HasClosed(t)'
    BY <2>2, <2>3, <2>6 DEF Skip, Sockets, AgentAt
  <2>7. ~OpSync(t) /\ ~OpDelay(t)
    BY <2>2 DEF OpSync, OpDelay
  <2>8. ~At(t, <<"server", "LISTEN">>) /\ ~At(t, <<"server", "ACCEPT">>)
    BY <2>2
  <2>9. (\A l : ~Awaits(t, l)) /\ (\A c : ~Takes(t, c))
    BY <2>8 DEF Awaits, Takes
  <2>. QED  BY <1>5, <2>4, <2>5, <2>6, <2>7, <2>8, <2>9, OperationWell DEF tables
<1>. QED  BY <1>3, <1>4, <1>5, Moves DEF Closes

\* velm learns of a connected socket while its thread connects.
LEMMA ConnectNew ==
  ASSUME IInv, [Next]_vars, NEW a \in Agents, NEW c \in connects'[a], c.stat = "CONNECTED"
  PROVE  c \in connects[a] \/ (c.thread \in Threads /\ Stands(c.thread) /\ Current(c.thread).kind = "connect")
<1>1. /\ ThreadTypes /\ TableTypes /\ AgentTypes /\ PendingInv /\ Server \in Agents
  BY DEF IInv, DataTypes, StateInv, PlaceInv, Agents
<1>. DEFINE P == c \in connects[a] \/ (c.thread \in Threads /\ Stands(c.thread) /\ Current(c.thread).kind = "connect")
<1>2. ASSUME NEW b \in Agents, connects'[b] \subseteq connects[b],
             \A d \in Agents \ {b} : connects'[d] = connects[d]
      PROVE  P
  BY <1>2
<1>3. ASSUME NEW b \in Agents, NEW s, NEW u \in Threads, NEW f, Stands(u), Current(u).kind = "connect",
             Learns(b, s, u, f)
      PROVE  P
  <2>1. c \in connects[a] \/ c = [stat |-> s, thread |-> u, id_sock |-> f]
    BY <1>1, <1>3 DEF Learns, TableTypes
  <2>. QED  BY <1>3, <2>1
<1>4. ASSUME NEW t \in Threads, Operation(t) PROVE P
  <2>1. ASSUME NEW b, NEW id, NEW end \in {"client", "server"}, NEW op \in AnswerOps, Issues(t, b, end, op, id)
        PROVE  P
    <3>1. CASE UNCHANGED connects
      BY <3>1
    <3>2. ASSUME NEW d \in connects[b],
                 connects' = [connects EXCEPT ![b] = (connects[b] \ {d}) \union {[d EXCEPT !.stat = "CLOSING"]}]
          PROVE  P
      <4>1. b \in Agents
        BY <1>1, <2>1, IssueTypes DEF IInv
      <4>2. [d EXCEPT !.stat = "CLOSING"].stat = "CLOSING"
        BY <1>1, <3>2, <4>1, ElementFacts
      <4>. QED  BY <1>1, <3>2, <4>1, <4>2 DEF TableTypes
    <3>. QED  BY <2>1, <3>1, <3>2 DEF Issues, Sockets
  <2>2. ASSUME NEW d \in accepts, Takes(t, d) PROVE P
    <3>1. Stands(t) /\ Current(t).kind = "connect"
      BY <1>1, <2>2, AtKind DEF Takes
    <3>. QED  BY <1>1, <1>3, <2>2, <3>1 DEF Takes, Learns
  <2>. QED  BY <1>4, <2>1, <2>2, OperationCases DEF Awaits, Alone, tables
<1>5. ASSUME NEW b \in Agents, Hear(b) PROVE P
  <2>1. HearSteps(b, toManager[b][1])
    BY <1>1, <1>5, HearCases
  <2>2. ASSUME NEW d, NEW r \in requests[d], d \in Agents, r.stat \in {"OPEN", "LISTEN", "CONNECT", "ACCEPT"}
        PROVE  r.thread \in Threads /\ Stands(r.thread) /\ Current(r.thread).kind = "connect"
    BY <1>1, <2>2, ElementFacts, WaitsAtFacts DEF PendingInv
  <2>3. ASSUME NEW r \in requests[b], Settles(b, toManager[b][1], r) PROVE P
    <3>1. r.stat = toManager[b][1].op /\ SettlesConnects(b, toManager[b][1], r)
      BY <2>3 DEF Settles
    <3>2. CASE connects' = HearClosing(b, r)
      BY <1>1, <3>2, ConnectsShrink DEF HearClosing
    <3>3. ASSUME NEW s, NEW d \in Agents, r.stat \in {"OPEN", "LISTEN", "CONNECT", "ACCEPT"},
                 Learns(d, s, r.thread, toManager[b][1].id_sock)
          PROVE  P
      <4>1. r.thread \in Threads /\ Stands(r.thread) /\ Current(r.thread).kind = "connect"
        BY <2>2, <2>3, <3>3
      <4>. QED  BY <1>3, <3>3, <4>1
    <3>4. \/ connects' = connects \/ connects' = HearClosing(b, r)
          \/ \E s, d : /\ d \in Agents /\ r.stat \in {"OPEN", "LISTEN", "CONNECT", "ACCEPT"}
                       /\ Learns(d, s, r.thread, toManager[b][1].id_sock)
      BY <1>1, <3>1 DEF SettlesConnects, Learns
    <3>. QED  BY <3>2, <3>3, <3>4
  <2>4. ASSUME NEW r \in requests[Server], Admits(toManager[b][1], r) PROVE P
    <3>1. r.stat = "ACCEPT"
      BY <2>4 DEF Admits, Accepting
    <3>. QED  BY <1>1, <1>3, <2>2, <2>4, <3>1 DEF Admits, Learns
  <2>5. ASSUME NEW d \in connects[b], connects' = [connects EXCEPT ![b] = connects[b] \ {d}] PROVE P
    BY <1>1, <2>5, ConnectsShrink
  <2>. QED  BY <2>1, <2>3, <2>4, <2>5 DEF HearSteps, Keeps, Unexpected, tables
<1>. HIDE DEF P
<1>6. connects' = connects => P
  BY DEF P
<1>7. P
  BY <1>4, <1>5, <1>6, NextIs, LocalKeeps, AgentKeeps DEF NextCases, vars, tables
<1>. QED  BY <1>7 DEF P

\* A thread that is done with its server does not come back to it.
LEMMA HasClosedStays ==
  ASSUME IInv, [Next]_vars, incidents' = {}, NEW t \in Threads, Past(t, 5), HasClosed(t)
  PROVE  HasClosed(t)'
<1>1. /\ ThreadTypes /\ TableTypes /\ ResumeInv /\ StepInv /\ scenario' = scenario
      /\ Server \in Agents
  BY ScenarioStays DEF IInv, DataTypes, StateInv, PlaceInv, Agents
<1>2. ASSUME stmtPos'[t] = stmtPos[t]
      PROVE  (Stands(t)' <=> Stands(t)) /\ Current(t)' = Current(t)
  BY <1>1, <1>2 DEF Stands, Current, Program
<1>3. ~(Stands(t) /\ Current(t).kind = "connect")
  <2>1. step[t] \in 1 .. 5
    BY <1>1 DEF StepInv
  <2>. QED  BY <1>1, <2>1, PastAt
<1>4. ASSUME NEW c \in connects'[Server], c.thread = t PROVE c.stat # "CONNECTED"
  BY <1>1, <1>3, <1>4, ConnectNew DEF HasClosed
<1>5. SUFFICES ASSUME Stands(t)', (Current(t).kind)' = "traffic"
               PROVE  step'[t] = 1 /\ (InResume(t)' \/ t \in aborted')
  BY <1>4 DEF HasClosed
<1>6. CASE Still(t)
  BY <1>1, <1>5, <1>6, StillFacts DEF HasClosed, Still
<1>7. CASE Woken(t)
  BY <1>2, <1>5, <1>7 DEF Woken, Rests, HasClosed
<1>8. CASE Operation(t) /\ InResume(t)
  <2>1. ASSUME NEW end, NEW op, At(t, <<end, op>>), stmtPos' = stmtPos
        PROVE  /\ op = "RECV" /\ end = "server" /\ step[t] = 1
               /\ Current(t).kind = "traffic"
    <3>1. Stands(t) /\ Current(t).kind = "traffic"
      BY <1>2, <1>5, <2>1
    <3>2. step[t] = 1
      BY <3>1 DEF HasClosed
    <3>. QED  BY <1>1, <2>1, <3>1, <3>2, AtKind
  <2>2. ASSUME NEW a, NEW id, NEW end \in {"client", "server"}, NEW op \in AnswerOps,
               Issues(t, a, end, op, id), stmtPos' = stmtPos
        PROVE  FALSE
    <3>1. op = "RECV" /\ a = Server
      BY <2>1, <2>2 DEF Issues, AgentAt
    <3>2. \E c \in connects[Server] : c.thread = t /\ c.stat = "CONNECTED"
      BY <2>2, <3>1 DEF Issues, NewOps, Sockets, Known
    <3>. QED  BY <3>2 DEF HasClosed
  <2>3. CASE StatementEnds(t)
    <3>1. t \in Threads /\ step'[t] = 1 /\ resume' = resume
      BY <1>1, <2>3 DEF StatementEnds, ThreadTypes
    <3>. QED  BY <1>8, <3>1 DEF InResume
  <2>4. ~OpDelay(t)
    BY <2>1 DEF OpDelay, Wait
  <2>5. ~OpSync(t)
    BY <2>1 DEF OpSync, Abort
  <2>6. ~Skip(t) \/ \A end, op : At(t, <<end, op>>) => op = "RECV"
    BY <2>1 DEF Skip
  <2>7. (\A c : ~Takes(t, c)) /\ (\A l : ~Awaits(t, l))
    BY <2>1 DEF Takes, Skip, Awaits, Wait
  <2>. QED  BY <1>8, <2>2, <2>3, <2>4, <2>5, <2>6, <2>7, OperationWell
<1>9. ASSUME ~Stands(t), stmtPos' = stmtPos PROVE FALSE
  BY <1>2, <1>5, <1>9
<1>. QED  BY <1>6, <1>7, <1>8, <1>9, Moves

LEMMA ClosedStep ==
  ASSUME IInv, TokenInv, ReadsInv, ClosedInv, [Next]_vars, incidents' = {}
  PROVE  ClosedInv'
<1>1. /\ ThreadTypes /\ ThreadTypes' /\ scenario' = scenario /\ scenario \in Scenarios
  BY ScenarioStays, Invariance DEF IInv, ThreadTypes
<1>2. SUFFICES ASSUME NEW t \in Threads, t \in closed'[Conn(t).client]
               PROVE  Past(t, 5)' /\ (Closes(t)' \/ HasClosed(t)')
  BY <1>1, SameConn, CloseAsked DEF ClosedInv
<1>3. PICK a \in Agents : a = Conn(t).client /\ a # Server
  <2>1. Conn(t).client \in Agents /\ Conn(t).client # Server
    BY <1>1, ScenarioFacts
  <2>. QED  BY <2>1
<1>4. Past(t, 5) => Past(t, 5)'
  BY <1>1, GoesOn, PastGrows
<1>5. CASE t \in closed[a]
  BY <1>3, <1>4, <1>5, ClosesStay, HasClosedStays DEF ClosedInv
<1>6. CASE Serve(a) /\ WaitsAt(t, a, "CLOSE")
  <2>1. Past(t, 5)
    BY <1>3, <1>6 DEF ClosedInv
  <2>2. Stands(t) /\ Current(t).kind = "close" /\ step[t] = 1 /\ ~InResume(t)
    BY <1>1, <1>3, <1>6, WaitsAtFacts
  <2>. QED  BY <1>4, <2>1, <2>2, ClosesStay DEF Closes
<1>. QED  BY <1>2, <1>3, <1>5, <1>6, ClosedFrom

LEMMA InitWake ==
  ASSUME Init
  PROVE  WakeInv
<1>1. Server \in Agents
  BY DEF Agents
<1>2. /\ requests = [a \in Agents |-> {}] /\ toManager = [a \in Agents |-> <<>>]
      /\ fds = [a \in Agents |-> [f \in Fds |-> FreeFd]] /\ closed = [a \in Agents |-> {}]
      /\ ThreadTypes
  BY InitTypes DEF Init
<1>3. \A t \in Threads : Conn(t).client \in Agents
  BY <1>2, ScenarioFacts DEF ThreadTypes
<1>4. \A t \in Threads : InResume(t) /\ step[t] = 1
  <2>1. /\ IsFiniteSet(Threads) /\ resume \in [1 .. Cardinality(Threads) -> Threads]
        /\ \A i, j \in 1 .. Cardinality(Threads) : resume[i] = resume[j] => i = j
    BY ManagerAssumption DEF Init
  <2>2. PICK n \in Nat : n = Cardinality(Threads)
    BY <2>1, FS_CardinalityType
  <2>3. \A t \in Threads : \E i \in 1 .. n : resume[i] = t
    BY <2>1, <2>2, AllIn
  <2>4. Len(resume) = n
    BY <2>1, <2>2
  <2>. QED  BY <2>3, <2>4 DEF Init, InResume
<1>5. WaitInv
  BY <1>4 DEF WaitInv, Rests
<1>6. DueInv
  BY <1>2 DEF DueInv
<1>7. AcceptInv
  BY <1>1, <1>2 DEF AcceptInv
<1>8. DialedInv
  BY <1>2, <1>3, <1>4 DEF DialedInv, Dialed
<1>9. ReadsInv
  BY <1>2 DEF ReadsInv
<1>10. ClosedInv
  BY <1>2, <1>3, <1>4 DEF ClosedInv, WaitsAt, Waits
<1>. QED  BY <1>5, <1>6, <1>7, <1>8, <1>9, <1>10 DEF WakeInv

LEMMA WakeStep ==
  ASSUME IInv, FindInv, WakeInv, [Next]_vars
  PROVE  WakeInv'
<1>1. SUFFICES ASSUME incidents' = {}, ~SharedUdp'
               PROVE  WaitInv' /\ DueInv' /\ AcceptInv' /\ DialedInv' /\ ReadsInv' /\ ClosedInv'
  BY DEF WakeInv, Smooth
<1>2. incidents = {} /\ ~SharedUdp
  BY <1>1, IncidentsGrow, ScenarioStays, SameConn DEF SharedUdp
<1>3. WaitInv /\ DueInv /\ AcceptInv /\ DialedInv /\ ReadsInv /\ ClosedInv
  BY <1>2 DEF WakeInv, Smooth
<1>4. Orderly /\ RequestInv /\ ListenInv
  BY <1>2 DEF FindInv, CleanInv, Clean, Loses
<1>5. TokenInv /\ KindInv
  BY <1>4 DEF Orderly
<1>. QED  BY <1>1, <1>2, <1>3, <1>4, <1>5, WaitStep, DueStep, AcceptStep, DialedStep, ReadsStep, ClosedStep

\* What a thread waits for is under way.
LEMMA WakeUnderWay ==
  ASSUME IInv, WakeInv
  PROVE  WakeupUnderWay
<1>1. ThreadTypes /\ TableTypes /\ PendingInv
  BY DEF IInv, DataTypes, StateInv, PlaceInv
<1>2. SUFFICES ASSUME Smooth, NEW t \in Threads, ~Ended(t), ~InResume(t)
               PROVE  \/ Program(t)[stmtPos[t]].kind = "delay"
                      \/ /\ Program(t)[stmtPos[t]].kind = "sync"
                         /\ t \notin waitfor[Program(t)[stmtPos[t]].event]
                         /\ Program(t)[stmtPos[t]].event \notin fired
                      \/ \E a \in Agents : \E r \in requests[a] : r.thread = t /\ UnderWay(a, r)
  BY DEF WakeupUnderWay, Smooth, InResume
<1>3. WaitInv /\ DueInv /\ AcceptInv
  BY <1>2 DEF WakeInv
<1>4. Rests(t)
  BY <1>1, <1>2 DEF Rests, Stands, Ended, ThreadTypes
<1>5. CASE Current(t).kind = "delay" \/ AtEvent(t)
  BY <1>5 DEF Current, AtEvent
<1>6. ASSUME NEW a \in Agents, NEW r \in requests[a], r.thread = t
      PROVE  UnderWay(a, r)
  <2>1. CASE r.stat # "ACCEPT"
    <3>1. CASE AsksFor(a, r)
      <4>1. PICK i \in 1 .. Len(toAgent[a]) : toAgent[a][i] = Ask(r.thread, r.stat, r.id)
        BY <3>1 DEF AsksFor
      <4>2. toAgent[a][i].op = r.stat /\ toAgent[a][i].id = r.id
        BY <4>1, AskFields
      <4>. QED  BY <4>2 DEF UnderWay
    <3>2. CASE Answered(a, r)
      BY <3>2 DEF Answered, Answers, UnderWay
    <3>3. CASE WorksOn(a, r)
      <4>1. fds[a][r.id] # FreeFd /\ fds[a][r.id].busy = r.stat /\ r.stat \in {"SEND", "RECVTERM"}
        BY <3>3, TokenThreads DEF WorksOn, Busy, IInv, DataTypes
      <4>. QED  BY <4>1 DEF UnderWay
    <3>. QED  BY <1>3, <2>1, <3>1, <3>2, <3>3 DEF DueInv
  <2>2. CASE r.stat = "ACCEPT"
    <3>1. WaitsAt(t, a, "ACCEPT")
      BY <1>6, <2>2 DEF IInv, StateInv, PlaceInv, PendingInv
    <3>2. a = Server
      BY <1>1, <3>1, WaitsAtFacts
    <3>3. InBacklog(t) \/ Reported(t)
      BY <1>3, <1>6, <2>2, <3>2 DEF AcceptInv, Called
    <3>. QED  BY <1>6, <2>2, <3>2, <3>3 DEF UnderWay, InBacklog, Reported
  <2>. QED  BY <2>1, <2>2
<1>. QED  BY <1>3, <1>4, <1>5, <1>6 DEF WaitInv, HasRequest

\* A thread that waits is woken: unless something has gone wrong before, or
\* servers share an address over UDP, what it waits for, its timer, the others
\* of its event, the answer to its request or the connection that it accepts,
\* is under way.
THEOREM WakeupCorrect == Spec => []WakeupUnderWay
<1>1. Init => FindInv /\ WakeInv
  BY InitFind, InitWake
<1>2. IInv /\ FindInv /\ WakeInv /\ [Next]_vars => FindInv' /\ WakeInv'
  BY FindStep, WakeStep
<1>3. IInv /\ WakeInv => WakeupUnderWay
  BY WakeUnderWay
<1>. QED  BY <1>1, <1>2, <1>3, InvIsInductive, PTL DEF Spec
=============================================================================
