------------------------- MODULE VelManager_proofs -------------------------
(***************************************************************************)
(* Proofs about velm and its agents, for any number of threads, agents,    *)
(* ports, events and descriptors, and for any scenarios.                   *)
(***************************************************************************)
EXTENDS VelManagerInv, FiniteSetTheorems, TLAPS

\* What the steps of a statement are.
LEMMA StepFacts ==
  ASSUME NEW k \in Kinds, NEW s \in Nat \ {0}, s <= Len(StepsOf(k)),
         NEW end, NEW op, StepsOf(k)[s] = <<end, op>>
  PROVE  /\ s \in 1 .. 4
         /\ \/ end \in {"client", "server"} /\ op \in Stats /\ k \in {"connect", "traffic", "close"}
            \/ end = "velm" /\ op = k /\ s = 1 /\ k \in {"delay", "sync"}
         /\ op = "OPEN" => k = "connect" /\ s = 1 /\ end = "client"
         /\ op = "LISTEN" => k = "connect" /\ s = 2 /\ end = "server"
         /\ op = "CONNECT" => k = "connect" /\ s = 3 /\ end = "client"
         /\ op = "ACCEPT" => k = "connect" /\ s = 4 /\ end = "server"
         /\ op = "RECV" => k = "traffic" /\ s = 1 /\ end = "server"
         /\ op = "SEND" => k = "traffic" /\ s = 2 /\ end = "client"
         /\ op = "RECVTERM" => k = "traffic" /\ s = 3 /\ end = "server"
         /\ op = "CLOSE" => k = "close" /\ s = IF end = "client" THEN 1 ELSE 2
<1>1. CASE k = "connect"
  <2>1. StepsOf(k) = <<<<"client", "OPEN">>, <<"server", "LISTEN">>,
                       <<"client", "CONNECT">>, <<"server", "ACCEPT">>>>
    BY <1>1 DEF StepsOf
  <2>2. s \in 1 .. 4
    BY <2>1
  <2>. QED  BY <1>1, <2>1, <2>2 DEF Stats, SocketOps
<1>2. CASE k = "traffic"
  <2>1. StepsOf(k) = <<<<"server", "RECV">>, <<"client", "SEND">>, <<"server", "RECVTERM">>>>
    BY <1>2 DEF StepsOf
  <2>2. s \in 1 .. 3
    BY <2>1
  <2>. QED  BY <1>2, <2>1, <2>2 DEF Stats, SocketOps
<1>3. CASE k = "close"
  <2>1. StepsOf(k) = <<<<"client", "CLOSE">>, <<"server", "CLOSE">>>>
    BY <1>3 DEF StepsOf
  <2>2. s \in 1 .. 2
    BY <2>1
  <2>. QED  BY <1>3, <2>1, <2>2 DEF Stats, SocketOps
<1>4. CASE k \in {"delay", "sync"}
  <2>1. StepsOf(k) = <<<<"velm", k>>>>
    BY <1>4 DEF StepsOf
  <2>2. s = 1
    BY <2>1
  <2>. QED  BY <1>4, <2>1, <2>2
<1>. QED  BY <1>1, <1>2, <1>3, <1>4 DEF Kinds

\* Every kind has at least one step and at most four.
LEMMA StepCount ==
  ASSUME NEW k \in Kinds
  PROVE  Len(StepsOf(k)) \in Nat \ {0} /\ Len(StepsOf(k)) <= 4
BY DEF StepsOf, Kinds

\* Appending to a queue, and taking from it.
LEMMA AppendFacts ==
  ASSUME NEW S, NEW s \in Seq(S), NEW e \in S
  PROVE  /\ Append(s, e) \in Seq(S)
         /\ Len(Append(s, e)) = Len(s) + 1 /\ Len(s) \in Nat
         /\ \A i \in 1 .. Len(s) : Append(s, e)[i] = s[i] /\ s[i] \in S
         /\ Append(s, e)[Len(s) + 1] = e
OBVIOUS

\* Likewise for the rest of a queue.
LEMMA TailFacts ==
  ASSUME NEW S, NEW s \in Seq(S), s # <<>>
  PROVE  /\ Tail(s) \in Seq(S) /\ Head(s) = s[1] /\ Head(s) \in S
         /\ Len(s) \in Nat \ {0} /\ Len(Tail(s)) = Len(s) - 1
         /\ \A i \in 1 .. Len(Tail(s)) : Tail(s)[i] = s[i + 1] /\ i + 1 \in 1 .. Len(s)
OBVIOUS

\* The rest of a queue whose entries all differ.
LEMMA TailDiffers ==
  ASSUME NEW S, NEW s \in Seq(S), s # <<>>,
         \A i, j \in 1 .. Len(s) : s[i] = s[j] => i = j
  PROVE  /\ \A i, j \in 1 .. Len(Tail(s)) : Tail(s)[i] = Tail(s)[j] => i = j
         /\ \A e : (\E i \in 1 .. Len(Tail(s)) : Tail(s)[i] = e)
                     <=> (\E i \in 1 .. Len(s) : s[i] = e) /\ e # Head(s)
<1>. USE TailFacts
<1>1. ASSUME NEW e, NEW i \in 1 .. Len(Tail(s)), Tail(s)[i] = e
      PROVE  (\E j \in 1 .. Len(s) : s[j] = e) /\ e # Head(s)
  <2>1. s[i + 1] = e /\ i + 1 \in 1 .. Len(s) /\ i + 1 # 1 /\ 1 \in 1 .. Len(s)
    BY <1>1
  <2>. QED  BY <2>1
<1>2. ASSUME NEW e, NEW i \in 1 .. Len(s), s[i] = e, e # Head(s)
      PROVE  \E j \in 1 .. Len(Tail(s)) : Tail(s)[j] = e
  <2>1. i # 1 /\ i - 1 \in 1 .. Len(Tail(s)) /\ Tail(s)[i - 1] = s[(i - 1) + 1] /\ (i - 1) + 1 = i
    BY <1>2
  <2>. QED  BY <2>1, <1>2
<1>3. ASSUME NEW i \in 1 .. Len(Tail(s)), NEW j \in 1 .. Len(Tail(s)), Tail(s)[i] = Tail(s)[j]
      PROVE  i = j
  <2>1. s[i + 1] = s[j + 1] /\ i + 1 \in 1 .. Len(s) /\ j + 1 \in 1 .. Len(s)
    BY <1>3
  <2>2. i + 1 = j + 1
    BY <2>1
  <2>. QED  BY <2>2
<1>. QED  BY <1>1, <1>2, <1>3

----------------------------------------
(* Types. *)

\* What a scenario consists of.
LEMMA ScenarioFacts ==
  ASSUME scenario \in Scenarios, NEW t \in Threads
  PROVE  /\ Program(t) \in Seq(Statements) /\ Len(Program(t)) \in Nat
         /\ \A i \in 1 .. Len(Program(t)) :
              /\ Program(t)[i].kind \in Kinds
              /\ Program(t)[i].kind = "sync" => Program(t)[i].event \in Events
         /\ \A i, j \in 1 .. Len(Program(t)) :
              Program(t)[i].kind = "connect" /\ Program(t)[j].kind = "connect" => i = j
         /\ Conn(t) \in Connections /\ Conn(t).port \in Ports
         /\ Conn(t).client \in Agents /\ Conn(t).client # Server /\ Server \in Agents
         /\ Conn(t).protocol \in {"tcp", "udp"}
<1>1. /\ Program(t) \in Seq(Statements) /\ Conn(t) \in Connections
      /\ \A i, j \in 1 .. Len(Program(t)) :
           Program(t)[i].kind = "connect" /\ Program(t)[j].kind = "connect" => i = j
  BY ManagerAssumption DEF Program, Conn
<1>2. \A i \in 1 .. Len(Program(t)) : Program(t)[i] \in Statements
  BY <1>1
<1>3. \A s \in Statements : s.kind \in Kinds /\ (s.kind = "sync" => s.event \in Events)
  BY DEF Statements, Kinds
<1>4. /\ Conn(t).port \in Ports /\ Conn(t).client \in Clients
      /\ Conn(t).protocol \in {"tcp", "udp"}
  BY <1>1 DEF Connections
<1>. QED  BY <1>1, <1>2, <1>3, <1>4, ManagerAssumption DEF Agents

LEMMA StandsFacts ==
  ASSUME ThreadTypes, NEW t \in Threads, Stands(t)
  PROVE  /\ stmtPos[t] \in 1 .. Len(Program(t)) /\ Current(t).kind \in Kinds
         /\ Len(Ops(t)) \in Nat \ {0} /\ Len(Ops(t)) <= 4
<1>1. stmtPos[t] \in 1 .. Len(Program(t))
  BY ScenarioFacts DEF ThreadTypes, Stands
<1>. QED  BY <1>1, ScenarioFacts, StepCount DEF ThreadTypes, Current, Ops

\* A thread that velm goes on with.
LEMMA GoingFacts ==
  ASSUME ThreadTypes, NEW t, Going(t)
  PROVE  /\ t \in Threads /\ t = Head(resume) /\ resume # <<>> /\ InResume(t)
         /\ t \notin aborted /\ Stands(t)
<1>1. Head(resume) = resume[1] /\ 1 \in 1 .. Len(resume) /\ Head(resume) \in Threads
  BY TailFacts DEF ThreadTypes, Going
<1>. QED  BY <1>1 DEF Going, InResume, Stands

LEMMA AtFacts ==
  ASSUME ThreadTypes, NEW t, NEW end, NEW op, At(t, <<end, op>>)
  PROVE  /\ t \in Threads /\ t = Head(resume) /\ resume # <<>> /\ InResume(t)
         /\ t \notin aborted /\ Stands(t)
         /\ stmtPos[t] \in 1 .. Len(Program(t)) /\ Current(t).kind \in Kinds
         /\ step[t] \in 1 .. Len(Ops(t)) /\ Len(Ops(t)) \in Nat \ {0} /\ Len(Ops(t)) <= 4
         /\ Ops(t)[step[t]] = <<end, op>>
         /\ AgentAt(end, t) \in Agents
<1>1. Going(t) /\ step[t] <= Len(Ops(t)) /\ Ops(t)[step[t]] = <<end, op>>
  BY DEF At, Ops, Current
<1>2. t \in Threads /\ Stands(t)
  BY <1>1, GoingFacts
<1>3. AgentAt(end, t) \in Agents
  BY <1>2, ScenarioFacts DEF AgentAt, ThreadTypes
<1>. QED  BY <1>1, <1>2, <1>3, GoingFacts, StandsFacts DEF ThreadTypes

\* There are at most four steps.
LEMMA AtStep ==
  ASSUME ThreadTypes, NEW t, NEW end, NEW op, At(t, <<end, op>>)
  PROVE  step[t] \in 1 .. 4
<1>1. step[t] \in 1 .. Len(Ops(t))
  BY AtFacts
<1>2. Len(Ops(t)) \in Nat /\ Len(Ops(t)) <= 4
  BY AtFacts
<1>. QED  BY <1>1, <1>2

----------------------------------------
(* What the steps do to the queues and to the set of requests. *)

\* Putting a request on its way.
LEMMA SendFacts ==
  ASSUME AgentTypes, NEW t \in Threads, NEW a \in Agents, NEW op \in AnswerOps, NEW id \in Nat,
         Send(t, a, op, id)
  PROVE  /\ toAgent' \in [Agents -> Seq(Requests)]
         /\ \A b \in Agents \ {a} : toAgent'[b] = toAgent[b]
         /\ Len(toAgent'[a]) = Len(toAgent[a]) + 1 /\ Len(toAgent[a]) \in Nat
         /\ \A i \in 1 .. Len(toAgent[a]) : toAgent'[a][i] = toAgent[a][i]
         /\ toAgent'[a][Len(toAgent[a]) + 1] = [op |-> op, id |-> id, thread |-> t]
         /\ \A i \in 1 .. Len(toAgent'[a]) :
              i \in 1 .. Len(toAgent[a]) \/ i = Len(toAgent[a]) + 1
<1>. DEFINE e == [op |-> op, id |-> id, thread |-> t]
<1>1. e \in Requests
  BY DEF Requests
<1>2. toAgent' = [toAgent EXCEPT ![a] = Append(toAgent[a], e)] /\ toAgent \in [Agents -> Seq(Requests)]
  BY DEF Send, AgentTypes
<1>3. toAgent'[a] = Append(toAgent[a], e) /\ toAgent[a] \in Seq(Requests)
  BY <1>2
<1>4. Append(toAgent[a], e) \in Seq(Requests)
  BY <1>1, <1>3, AppendFacts
<1>5. toAgent' \in [Agents -> Seq(Requests)]
  BY <1>2, <1>4
<1>6. /\ Len(toAgent'[a]) = Len(toAgent[a]) + 1 /\ Len(toAgent[a]) \in Nat
      /\ \A i \in 1 .. Len(toAgent[a]) : toAgent'[a][i] = toAgent[a][i]
      /\ toAgent'[a][Len(toAgent[a]) + 1] = e
  <2>. HIDE DEF e
  <2>. QED  BY <1>1, <1>3, AppendFacts
<1>7. \A i \in 1 .. Len(toAgent'[a]) : i \in 1 .. Len(toAgent[a]) \/ i = Len(toAgent[a]) + 1
  BY <1>6
<1>. QED  BY <1>2, <1>5, <1>6, <1>7

LEMMA ReqFacts ==
  ASSUME NEW t, NEW stat, NEW id
  PROVE  Req(t, stat, id).thread = t /\ Req(t, stat, id).stat = stat /\ Req(t, stat, id).id = id
BY DEF Req

LEMMA RequestFacts ==
  ASSUME TableTypes, NEW t \in Threads, NEW a \in Agents, NEW stat \in Stats, NEW id \in Nat,
         Request(t, a, stat, id)
  PROVE  /\ requests' \in [Agents -> SUBSET [id : Nat, stat : Stats, thread : Threads]]
         /\ \A b \in Agents \ {a} : requests'[b] = requests[b]
         /\ requests[a] \subseteq requests'[a]
         /\ requests'[a] \subseteq requests[a] \union {Req(t, stat, id)}
         /\ "request lost" \notin incidents' => Req(t, stat, id) \in requests'[a]
         /\ Fresh(a, stat, id) =>
              Req(t, stat, id) \in requests'[a] /\ incidents' = incidents
         /\ \A r \in requests'[a] : r \in requests[a]
              \/ (r = Req(t, stat, id) /\ Fresh(a, stat, id))
         /\ incidents \subseteq incidents' /\ incidents' \subseteq incidents \union {"request lost"}
<1>1. Req(t, stat, id) \in [id : Nat, stat : Stats, thread : Threads]
  BY DEF Req
<1>2. CASE ~Fresh(a, stat, id)
  BY <1>2 DEF Request, TableTypes, Fresh
<1>3. CASE Fresh(a, stat, id)
  <2>1. requests' = [requests EXCEPT ![a] = requests[a] \union {Req(t, stat, id)}] /\ incidents' = incidents
    BY <1>3 DEF Request, Req, Fresh
  <2>2. requests' \in [Agents -> SUBSET [id : Nat, stat : Stats, thread : Threads]]
    BY <1>1, <2>1 DEF TableTypes
  <2>3. requests'[a] = requests[a] \union {Req(t, stat, id)} /\ \A b \in Agents \ {a} : requests'[b] = requests[b]
    BY <2>1 DEF TableTypes
  <2>. QED  BY <1>3, <2>1, <2>2, <2>3
<1>. QED  BY <1>2, <1>3

\* An agent takes a request.
LEMMA ServeFacts ==
  ASSUME AgentTypes, NEW a \in Agents, Serve(a)
  PROVE  /\ toAgent[a] # <<>> /\ 1 \in 1 .. Len(toAgent[a]) /\ toAgent[a][1] \in Requests
         /\ ServeNew(a, toAgent[a][1]) \/ ServeSocket(a, toAgent[a][1])
         /\ toAgent' \in [Agents -> Seq(Requests)]
         /\ \A b \in Agents \ {a} : toAgent'[b] = toAgent[b]
         /\ \A i \in 1 .. Len(toAgent'[a]) :
              toAgent'[a][i] = toAgent[a][i + 1] /\ i + 1 \in 1 .. Len(toAgent[a])
<1>1. toAgent[a] # <<>> /\ toAgent' = [toAgent EXCEPT ![a] = Tail(toAgent[a])]
  BY DEF Serve
<1>2. toAgent[a] \in Seq(Requests) /\ toAgent'[a] = Tail(toAgent[a])
  BY <1>1 DEF AgentTypes
<1>3. /\ Tail(toAgent[a]) \in Seq(Requests) /\ Head(toAgent[a]) = toAgent[a][1]
      /\ toAgent[a][1] \in Requests /\ Len(toAgent[a]) \in Nat \ {0}
      /\ \A i \in 1 .. Len(Tail(toAgent[a])) :
           Tail(toAgent[a])[i] = toAgent[a][i + 1] /\ i + 1 \in 1 .. Len(toAgent[a])
  BY <1>1, <1>2, TailFacts
<1>4. ServeNew(a, toAgent[a][1]) \/ ServeSocket(a, toAgent[a][1])
  BY <1>3 DEF Serve
<1>5. toAgent' \in [Agents -> Seq(Requests)] /\ \A b \in Agents \ {a} : toAgent'[b] = toAgent[b]
  BY <1>1, <1>3 DEF AgentTypes
<1>. QED  BY <1>1, <1>2, <1>3, <1>4, <1>5

\* velm takes an answer or a report.
LEMMA HearFacts ==
  ASSUME AgentTypes, NEW a \in Agents, Hear(a)
  PROVE  /\ toManager[a] # <<>> /\ 1 \in 1 .. Len(toManager[a]) /\ toManager[a][1] \in Messages
         /\ \/ toManager[a][1].op = "CLOSED" /\ HearClosed(a, toManager[a][1])
            \/ toManager[a][1].op = "ACCEPTED" /\ HearAccepted(toManager[a][1])
            \/ toManager[a][1].op \in AnswerOps /\ HearAnswer(a, toManager[a][1])
         /\ toManager' \in [Agents -> Seq(Messages)]
         /\ \A b \in Agents \ {a} : toManager'[b] = toManager[b]
         /\ \A i \in 1 .. Len(toManager'[a]) :
              toManager'[a][i] = toManager[a][i + 1] /\ i + 1 \in 1 .. Len(toManager[a])
<1>1. toManager[a] # <<>> /\ toManager' = [toManager EXCEPT ![a] = Tail(toManager[a])]
  BY DEF Hear
<1>2. toManager[a] \in Seq(Messages) /\ toManager'[a] = Tail(toManager[a])
  BY <1>1 DEF AgentTypes
<1>3. /\ Tail(toManager[a]) \in Seq(Messages) /\ Head(toManager[a]) = toManager[a][1]
      /\ toManager[a][1] \in Messages /\ Len(toManager[a]) \in Nat \ {0}
      /\ \A i \in 1 .. Len(Tail(toManager[a])) :
           Tail(toManager[a])[i] = toManager[a][i + 1] /\ i + 1 \in 1 .. Len(toManager[a])
  BY <1>1, <1>2, TailFacts
<1>4. toManager[a][1].op \in AnswerOps \union {"ACCEPTED", "CLOSED"}
  BY <1>3 DEF Messages
<1>5. \/ toManager[a][1].op = "CLOSED" /\ HearClosed(a, toManager[a][1])
      \/ toManager[a][1].op = "ACCEPTED" /\ HearAccepted(toManager[a][1])
      \/ toManager[a][1].op \in AnswerOps /\ HearAnswer(a, toManager[a][1])
  BY <1>3, <1>4 DEF Hear, AnswerOps, Stats, SocketOps
<1>6. toManager' \in [Agents -> Seq(Messages)] /\ \A b \in Agents \ {a} : toManager'[b] = toManager[b]
  BY <1>1, <1>3 DEF AgentTypes
<1>. QED  BY <1>1, <1>2, <1>3, <1>5, <1>6

\* An agent answers or reports.
LEMMA TellFacts ==
  ASSUME AgentTypes, NEW a \in Agents, NEW m \in Messages, Tell(a, m)
  PROVE  /\ toManager' \in [Agents -> Seq(Messages)]
         /\ \A b \in Agents \ {a} : toManager'[b] = toManager[b]
         /\ Len(toManager'[a]) = Len(toManager[a]) + 1 /\ Len(toManager[a]) \in Nat
         /\ \A i \in 1 .. Len(toManager[a]) : toManager'[a][i] = toManager[a][i]
         /\ toManager'[a][Len(toManager[a]) + 1] = m
         /\ \A i \in 1 .. Len(toManager'[a]) :
              i \in 1 .. Len(toManager[a]) \/ i = Len(toManager[a]) + 1
<1>1. toManager' = [toManager EXCEPT ![a] = Append(toManager[a], m)] /\ toManager \in [Agents -> Seq(Messages)]
  BY DEF Tell, AgentTypes
<1>2. toManager'[a] = Append(toManager[a], m) /\ toManager[a] \in Seq(Messages)
  BY <1>1
<1>3. Append(toManager[a], m) \in Seq(Messages)
  BY <1>2, AppendFacts
<1>4. toManager' \in [Agents -> Seq(Messages)]
  BY <1>1, <1>3
<1>5. /\ Len(toManager'[a]) = Len(toManager[a]) + 1 /\ Len(toManager[a]) \in Nat
      /\ \A i \in 1 .. Len(toManager[a]) : toManager'[a][i] = toManager[a][i]
      /\ toManager'[a][Len(toManager[a]) + 1] = m
  BY <1>2, AppendFacts
<1>6. \A i \in 1 .. Len(toManager'[a]) : i \in 1 .. Len(toManager[a]) \/ i = Len(toManager[a]) + 1
  BY <1>5
<1>. QED  BY <1>1, <1>4, <1>5, <1>6

----------------------------------------
(* The places of the threads, and how the steps move them. *)

LEMMA StillFacts ==
  ASSUME scenario' = scenario, NEW u \in Threads, Still(u)
  PROVE  /\ Stands(u)' <=> Stands(u)
         /\ Current(u)' = Current(u) /\ Ops(u)' = Ops(u)
         /\ \A end, op : Waits(u, end, op)' <=> Waits(u, end, op)
         /\ \A a, op : WaitsAt(u, a, op)' <=> WaitsAt(u, a, op)
         /\ \A k : Past(u, k)' <=> Past(u, k)
<1>1. Program(u)' = Program(u) /\ Conn(u)' = Conn(u)
  BY DEF Program, Conn
<1>2. /\ Stands(u)' <=> Stands(u)
      /\ Current(u)' = Current(u) /\ Ops(u)' = Ops(u)
  BY <1>1 DEF Still, Stands, Current, Ops
<1>3. \A end, op : Waits(u, end, op)' <=> Waits(u, end, op)
  BY <1>2 DEF Still, Waits
<1>4. \A end : AgentAt(end, u)' = AgentAt(end, u)
  BY <1>1 DEF AgentAt
<1>5. \A a, op : WaitsAt(u, a, op)' <=> WaitsAt(u, a, op)
  BY <1>3, <1>4 DEF WaitsAt
<1>6. \A k : Past(u, k)' <=> Past(u, k)
  BY <1>1 DEF Still, Past
<1>. QED  BY <1>2, <1>3, <1>5, <1>6

\* A thread waits at one step only.
LEMMA WaitsFacts ==
  ASSUME ThreadTypes, NEW t \in Threads, NEW end, NEW op, Waits(t, end, op)
  PROVE  /\ step[t] \in 1 .. 4 /\ step[t] <= Len(Ops(t))
         /\ ~InResume(t) /\ Stands(t) /\ t \notin aborted
         /\ stmtPos[t] \in 1 .. Len(Program(t))
         /\ \A end2, op2 : Waits(t, end2, op2) => end2 = end /\ op2 = op
         /\ \/ end \in {"client", "server"} /\ op \in Stats
               /\ Current(t).kind \in {"connect", "traffic", "close"}
            \/ end = "velm" /\ op = Current(t).kind /\ op \in {"delay", "sync"} /\ step[t] = 1
         /\ op = "OPEN" => Current(t).kind = "connect" /\ step[t] = 1 /\ end = "client"
         /\ op = "LISTEN" => Current(t).kind = "connect" /\ step[t] = 2 /\ end = "server"
         /\ op = "CONNECT" => Current(t).kind = "connect" /\ step[t] = 3 /\ end = "client"
         /\ op = "ACCEPT" => Current(t).kind = "connect" /\ step[t] = 4 /\ end = "server"
         /\ op = "RECV" => Current(t).kind = "traffic" /\ step[t] = 1 /\ end = "server"
         /\ op = "SEND" => Current(t).kind = "traffic" /\ step[t] = 2 /\ end = "client"
         /\ op = "RECVTERM" => Current(t).kind = "traffic" /\ step[t] = 3 /\ end = "server"
         /\ op = "CLOSE" => Current(t).kind = "close" /\ step[t] = IF end = "client" THEN 1 ELSE 2
<1>1. /\ Stands(t) /\ step[t] <= Len(Ops(t)) /\ Ops(t)[step[t]] = <<end, op>>
      /\ ~InResume(t) /\ t \notin aborted
  BY DEF Waits
<1>2. /\ stmtPos[t] \in 1 .. Len(Program(t)) /\ Current(t).kind \in Kinds /\ step[t] \in Nat \ {0}
  BY <1>1, StandsFacts DEF ThreadTypes
<1>3. \A end2, op2 : Waits(t, end2, op2) => end2 = end /\ op2 = op
  BY <1>1 DEF Waits
<1>. HIDE DEF Waits, Ops
<1>4. Ops(t) = StepsOf(Current(t).kind)
  BY DEF Ops
<1>5. step[t] <= Len(StepsOf(Current(t).kind)) /\ StepsOf(Current(t).kind)[step[t]] = <<end, op>>
  BY <1>1, <1>4
<1>. QED  BY <1>1, <1>2, <1>3, <1>5, StepFacts

\* Where a request is waited for.
LEMMA WaitsAtFacts ==
  ASSUME ThreadTypes, NEW t \in Threads, NEW a \in Agents, NEW op, WaitsAt(t, a, op)
  PROVE  /\ step[t] \in 1 .. 4 /\ ~InResume(t) /\ Stands(t) /\ t \notin aborted /\ op \in Stats
         /\ \A b, op2 : WaitsAt(t, b, op2) => b = a /\ op2 = op
         /\ ~Waits(t, "velm", "sync") /\ ~Waits(t, "velm", "delay")
         /\ a = Conn(t).client \/ a = Server
         /\ op \in {"OPEN", "CONNECT", "SEND"} => a = Conn(t).client
         /\ op \in {"LISTEN", "ACCEPT", "RECV", "RECVTERM"} => a = Server
         /\ op \in {"OPEN", "LISTEN", "CONNECT", "ACCEPT"} => Current(t).kind = "connect"
         /\ op = "OPEN" => step[t] = 1
         /\ op = "LISTEN" => step[t] = 2
         /\ op = "CONNECT" => step[t] = 3
         /\ op = "ACCEPT" => step[t] = 4
         /\ op \in {"RECV", "SEND", "RECVTERM"} => Current(t).kind = "traffic"
         /\ op = "SEND" => step[t] = 2
         /\ op = "RECVTERM" => step[t] = 3
         /\ op = "CLOSE" => Current(t).kind = "close" /\ step[t] = IF a = Server THEN 2 ELSE 1
<1>1. PICK end \in {"client", "server"} : a = AgentAt(end, t) /\ Waits(t, end, op)
  BY DEF WaitsAt
<1>2. AgentAt("client", t) = Conn(t).client /\ AgentAt("server", t) = Server /\ Conn(t).client # Server
  BY ScenarioFacts DEF AgentAt, ThreadTypes
<1>3. \A end2, op2 : Waits(t, end2, op2) => end2 = end /\ op2 = op
  BY <1>1, WaitsFacts
<1>4. \A b, op2 : WaitsAt(t, b, op2) => b = a /\ op2 = op
  BY <1>1, <1>3 DEF WaitsAt
<1>5. ~Waits(t, "velm", "sync") /\ ~Waits(t, "velm", "delay")
  BY <1>1, <1>3
<1>. QED  BY <1>1, <1>2, <1>4, <1>5, WaitsFacts

\* The thread at the head of resume leaves it.
LEMMA LeaveFacts ==
  ASSUME ThreadTypes, ResumeInv, resume # <<>>, resume' = Tail(resume)
  PROVE  /\ resume' \in Seq(Threads) /\ Head(resume) \in Threads
         /\ \A i, j \in 1 .. Len(resume') : resume'[i] = resume'[j] => i = j
         /\ \A u : InResume(u)' <=> InResume(u) /\ u # Head(resume)
         /\ InResume(Head(resume)) /\ Head(resume) \notin aborted
<1>1. resume \in Seq(Threads)
  BY DEF ThreadTypes
<1>2. resume' \in Seq(Threads) /\ Head(resume) = resume[1] /\ Head(resume) \in Threads /\ 1 \in 1 .. Len(resume)
  BY <1>1, TailFacts
<1>3. /\ \A i, j \in 1 .. Len(Tail(resume)) : Tail(resume)[i] = Tail(resume)[j] => i = j
      /\ \A e : (\E i \in 1 .. Len(Tail(resume)) : Tail(resume)[i] = e)
                  <=> (\E i \in 1 .. Len(resume) : resume[i] = e) /\ e # Head(resume)
  BY <1>1, TailDiffers DEF ResumeInv
<1>4. InResume(Head(resume))
  BY <1>2 DEF InResume
<1>5. \A u : InResume(u)' <=> InResume(u) /\ u # Head(resume)
  BY <1>3 DEF InResume
<1>. QED  BY <1>2, <1>3, <1>4, <1>5 DEF ResumeInv

\* What an operation does to the threads.
LEMMA OperationThreads ==
  ASSUME NEW t, Operation(t)
  PROVE  /\ scenario' = scenario
         /\ \/ \E end, op : At(t, <<end, op>>) /\ (Wait \/ Skip(t) \/ Abort(t))
            \/ OpSync(t)
            \/ StatementEnds(t)
<1>1. CASE OpOpen(t)
  BY <1>1 DEF OpOpen
<1>2. CASE OpListen(t)
  BY <1>2 DEF OpListen
<1>3. CASE OpAccept(t)
  BY <1>3 DEF OpAccept
<1>4. CASE OpOnSocket(t)
  BY <1>4 DEF OpOnSocket
<1>5. CASE OpClose(t)
  BY <1>5 DEF OpClose
<1>6. CASE OpSync(t)
  BY <1>6 DEF OpSync
<1>7. CASE OpDelay(t)
  BY <1>7 DEF OpDelay
<1>8. CASE StatementEnds(t)
  BY <1>8 DEF StatementEnds
<1>. QED  BY <1>1, <1>2, <1>3, <1>4, <1>5, <1>6, <1>7, <1>8 DEF Operation

\* It disturbs no other thread, and none that waits.
LEMMA OperationMoves ==
  ASSUME ThreadTypes, ResumeInv, StepInv, NEW t, Operation(t)
  PROVE  /\ ThreadTypes' /\ ResumeInv' /\ StepInv'
         /\ t \in Threads /\ InResume(t) /\ t = Head(resume) /\ resume # <<>>
         /\ \A u \in Threads \ {t} : Still(u)
         /\ stmtPos'[t] >= stmtPos[t]
         /\ stmtPos'[t] = stmtPos[t] => step'[t] >= step[t]
         /\ aborted \subseteq aborted'
<1>1. scenario' = scenario
  BY OperationThreads
<1>. USE DEF ThreadTypes
<1>. DEFINE Duty == /\ ThreadTypes' /\ ResumeInv' /\ StepInv'
                    /\ t \in Threads /\ InResume(t) /\ t = Head(resume) /\ resume # <<>>
                    /\ \A u \in Threads \ {t} : Still(u)
<1>2. ASSUME NEW end, NEW op, At(t, <<end, op>>), Wait
      PROVE  Duty /\ stmtPos'[t] = stmtPos[t] /\ step'[t] = step[t] /\ aborted' = aborted
  <2>1. /\ t \in Threads /\ t = Head(resume) /\ resume # <<>> /\ InResume(t)
        /\ step[t] \in 1 .. Len(Ops(t)) /\ Len(Ops(t)) \in Nat \ {0} /\ Len(Ops(t)) <= 4
    BY <1>2, AtFacts
  <2>2. /\ resume' = Tail(resume) /\ stmtPos' = stmtPos /\ step' = step
        /\ aborted' = aborted /\ waitfor' = waitfor /\ fired' = fired
    BY <1>2 DEF Wait
  <2>3. /\ resume' \in Seq(Threads)
        /\ \A i, j \in 1 .. Len(resume') : resume'[i] = resume'[j] => i = j
        /\ \A u : InResume(u)' <=> InResume(u) /\ u # t
    BY <2>1, <2>2, LeaveFacts
  <2>4. ThreadTypes' /\ ResumeInv'
    BY <1>1, <2>2, <2>3 DEF ResumeInv
  <2>5. \A u \in Threads \ {t} : Still(u)
    BY <2>2, <2>3 DEF Still
  <2>6. \A u \in Threads : Ops(u)' = Ops(u) /\ (Stands(u)' <=> Stands(u))
    BY <1>1, <2>2 DEF Ops, Current, Stands, Program
  <2>7. StepInv'
    BY <2>1, <2>2, <2>3, <2>6 DEF StepInv
  <2>. QED  BY <2>1, <2>2, <2>4, <2>5, <2>7
<1>3. ASSUME NEW end, NEW op, At(t, <<end, op>>), Skip(t)
      PROVE  Duty /\ stmtPos'[t] = stmtPos[t] /\ step'[t] = step[t] + 1 /\ aborted' = aborted
  <2>1. /\ t \in Threads /\ t = Head(resume) /\ resume # <<>> /\ InResume(t)
        /\ step[t] \in 1 .. Len(Ops(t)) /\ Len(Ops(t)) \in Nat \ {0} /\ Len(Ops(t)) <= 4
    BY <1>3, AtFacts
  <2>2. /\ resume' = resume /\ stmtPos' = stmtPos /\ step' = [step EXCEPT ![t] = step[t] + 1]
        /\ aborted' = aborted /\ waitfor' = waitfor /\ fired' = fired
    BY <1>3 DEF Skip
  <2>3. \A u : InResume(u)' <=> InResume(u)
    BY <2>2 DEF InResume
  <2>4. ThreadTypes' /\ ResumeInv'
    BY <1>1, <2>1, <2>2, <2>3 DEF ResumeInv
  <2>5. \A u \in Threads \ {t} : Still(u)
    BY <2>2, <2>3 DEF Still
  <2>6. \A u \in Threads : Ops(u)' = Ops(u) /\ (Stands(u)' <=> Stands(u))
    BY <1>1, <2>2 DEF Ops, Current, Stands, Program
  <2>7. step'[t] \in 1 .. 5 /\ \A u \in Threads \ {t} : step'[u] = step[u]
    <3>1. step[t] \in 1 .. 4
      BY <1>3, AtStep
    <3>2. step'[t] = step[t] + 1
      BY <2>1, <2>2
    <3>. QED  BY <2>2, <3>1, <3>2
  <2>8. StepInv'
    BY <2>1, <2>2, <2>3, <2>6, <2>7 DEF StepInv
  <2>. QED  BY <2>1, <2>2, <2>4, <2>5, <2>8
<1>4. ASSUME Going(t), Abort(t)
      PROVE  Duty /\ stmtPos'[t] = stmtPos[t] /\ step'[t] = step[t] /\ aborted \subseteq aborted'
  <2>1. t \in Threads /\ t = Head(resume) /\ resume # <<>> /\ InResume(t)
    BY <1>4, GoingFacts
  <2>2. /\ resume' = Tail(resume) /\ stmtPos' = stmtPos /\ step' = step
        /\ aborted' = aborted \union {t} /\ waitfor' = waitfor /\ fired' = fired
    BY <1>4 DEF Abort
  <2>3. /\ resume' \in Seq(Threads)
        /\ \A i, j \in 1 .. Len(resume') : resume'[i] = resume'[j] => i = j
        /\ \A u : InResume(u)' <=> InResume(u) /\ u # t
    BY <2>1, <2>2, LeaveFacts
  <2>4. ThreadTypes' /\ ResumeInv'
    BY <1>1, <2>1, <2>2, <2>3 DEF ResumeInv
  <2>5. \A u \in Threads \ {t} : Still(u)
    BY <2>2, <2>3 DEF Still
  <2>6. \A u \in Threads : Ops(u)' = Ops(u) /\ (Stands(u)' <=> Stands(u))
    BY <1>1, <2>2 DEF Ops, Current, Stands, Program
  <2>7. StepInv'
    BY <2>1, <2>2, <2>3, <2>6 DEF StepInv
  <2>. QED  BY <2>1, <2>2, <2>4, <2>5, <2>7
<1>5. ASSUME NEW end, NEW op, At(t, <<end, op>>)
      PROVE  Going(t)
  BY <1>5 DEF At
<1>6. ASSUME OpSync(t)
      PROVE  Duty /\ stmtPos'[t] = stmtPos[t] /\ step'[t] = step[t] /\ aborted \subseteq aborted'
  <2>1. At(t, <<"velm", "sync">>)
    BY <1>6 DEF OpSync
  <2>2. CASE Abort(t)
    BY <1>4, <1>5, <2>1, <2>2
  <2>3. CASE ~Abort(t)
    <3>1. /\ t \in Threads /\ t = Head(resume) /\ resume # <<>> /\ InResume(t)
          /\ step[t] \in 1 .. Len(Ops(t)) /\ Len(Ops(t)) \in Nat \ {0} /\ Len(Ops(t)) <= 4
      BY <2>1, AtFacts
    <3>2. PICK e : /\ e = Program(t)[stmtPos[t]].event
                   /\ waitfor' = [waitfor EXCEPT ![e] = @ \ {t}]
                   /\ resume' = Tail(resume) /\ stmtPos' = stmtPos /\ step' = step
                   /\ aborted' = aborted /\ fired' = fired
      BY <1>6, <2>3 DEF OpSync
    <3>3. /\ resume' \in Seq(Threads)
          /\ \A i, j \in 1 .. Len(resume') : resume'[i] = resume'[j] => i = j
          /\ \A u : InResume(u)' <=> InResume(u) /\ u # t
      BY <3>1, <3>2, LeaveFacts
    <3>4. waitfor' \in [Events -> SUBSET Threads] /\ \A d \in Events : waitfor'[d] \subseteq Members[d]
      BY <3>2
    <3>5. ThreadTypes' /\ ResumeInv'
      BY <1>1, <3>2, <3>3, <3>4 DEF ResumeInv
    <3>6. \A u \in Threads \ {t} : Still(u)
      BY <3>2, <3>3 DEF Still
    <3>7. \A u \in Threads : Ops(u)' = Ops(u) /\ (Stands(u)' <=> Stands(u))
      BY <1>1, <3>2 DEF Ops, Current, Stands, Program
    <3>8. StepInv'
      BY <3>1, <3>2, <3>3, <3>7 DEF StepInv
    <3>. QED  BY <3>1, <3>2, <3>5, <3>6, <3>8
  <2>. QED  BY <2>2, <2>3
<1>7. ASSUME StatementEnds(t)
      PROVE  Duty /\ stmtPos'[t] = stmtPos[t] + 1 /\ aborted \subseteq aborted'
  <2>1. t \in Threads /\ t = Head(resume) /\ resume # <<>> /\ InResume(t)
    BY <1>7, GoingFacts DEF StatementEnds
  <2>2. /\ stmtPos' = [stmtPos EXCEPT ![t] = stmtPos[t] + 1] /\ step' = [step EXCEPT ![t] = 1]
        /\ aborted' = aborted /\ resume' = resume /\ waitfor' = waitfor /\ fired' = fired
    BY <1>7 DEF StatementEnds
  <2>3. \A u : InResume(u)' <=> InResume(u)
    BY <2>2 DEF InResume
  <2>4. ThreadTypes' /\ ResumeInv'
    BY <1>1, <2>1, <2>2, <2>3 DEF ResumeInv
  <2>5. \A u \in Threads \ {t} : Still(u)
    BY <2>2, <2>3 DEF Still
  <2>6. \A u \in Threads \ {t} : Ops(u)' = Ops(u) /\ (Stands(u)' <=> Stands(u))
    BY <1>1, <2>5, StillFacts
  <2>7. step'[t] = 1 /\ \A u \in Threads \ {t} : step'[u] = step[u]
    BY <2>1, <2>2
  <2>8. StepInv'
    BY <2>1, <2>2, <2>3, <2>6, <2>7 DEF StepInv
  <2>. QED  BY <2>1, <2>2, <2>4, <2>5, <2>8
<1>8. ASSUME NEW end, NEW op, At(t, <<end, op>>), Wait \/ Skip(t) \/ Abort(t)
      PROVE  Duty /\ stmtPos'[t] = stmtPos[t] /\ step'[t] >= step[t] /\ aborted \subseteq aborted'
  <2>1. step[t] \in Nat
    BY <1>8, AtFacts
  <2>. HIDE DEF ThreadTypes
  <2>2. CASE Wait
    BY <1>2, <1>8, <2>1, <2>2
  <2>3. CASE Skip(t)
    BY <1>3, <1>8, <2>1, <2>3
  <2>4. CASE Abort(t)
    BY <1>4, <1>5, <1>8, <2>1, <2>4
  <2>. QED  BY <1>8, <2>2, <2>3, <2>4
<1>9. \A u \in Threads : stmtPos[u] \in Nat /\ step[u] \in Nat
  OBVIOUS
<1>. HIDE DEF ThreadTypes
<1>10. CASE \E end, op : At(t, <<end, op>>) /\ (Wait \/ Skip(t) \/ Abort(t))
  <2>1. PICK end, op : At(t, <<end, op>>) /\ (Wait \/ Skip(t) \/ Abort(t))
    BY <1>10
  <2>. QED  BY <1>8, <1>9, <2>1
<1>11. CASE OpSync(t)
  BY <1>6, <1>9, <1>11
<1>12. CASE StatementEnds(t)
  BY <1>7, <1>9, <1>12
<1>. QED  BY <1>10, <1>11, <1>12, OperationThreads

\* A thread at its end leaves resume.
LEMMA RestMoves ==
  ASSUME ThreadTypes, ResumeInv, StepInv, ThreadRests
  PROVE  /\ ThreadTypes' /\ ResumeInv' /\ StepInv'
         /\ stmtPos' = stmtPos /\ step' = step /\ aborted' = aborted
         /\ waitfor' = waitfor /\ fired' = fired /\ scenario' = scenario
         /\ Head(resume) \in Threads /\ InResume(Head(resume)) /\ ~Stands(Head(resume))
         /\ \A u \in Threads : u # Head(resume) => Still(u)
<1>1. /\ resume # <<>> /\ ~Going(Head(resume)) /\ resume' = Tail(resume)
      /\ stmtPos' = stmtPos /\ step' = step /\ aborted' = aborted
      /\ waitfor' = waitfor /\ fired' = fired /\ scenario' = scenario
  BY DEF ThreadRests
<1>2. /\ resume' \in Seq(Threads) /\ Head(resume) \in Threads
      /\ \A i, j \in 1 .. Len(resume') : resume'[i] = resume'[j] => i = j
      /\ \A u : InResume(u)' <=> InResume(u) /\ u # Head(resume)
      /\ InResume(Head(resume)) /\ Head(resume) \notin aborted
  BY <1>1, LeaveFacts
<1>3. ~Stands(Head(resume))
  BY <1>1, <1>2 DEF Going, Stands
<1>4. ThreadTypes' /\ ResumeInv'
  BY <1>1, <1>2 DEF ThreadTypes, ResumeInv
<1>5. \A u \in Threads : u # Head(resume) => Still(u)
  BY <1>1, <1>2 DEF Still
<1>6. \A u \in Threads : Ops(u)' = Ops(u) /\ (Stands(u)' <=> Stands(u))
  BY <1>1 DEF Ops, Current, Stands, Program
<1>7. StepInv'
  BY <1>1, <1>2, <1>3, <1>6 DEF StepInv
<1>. QED  BY <1>1, <1>2, <1>3, <1>4, <1>5, <1>7

\* What waited is over for the threads of order, which go on in that order.
LEMMA CompleteFacts ==
  ASSUME ThreadTypes, ResumeInv, StepInv, scenario' = scenario, fired' \subseteq Events,
         waitfor' = waitfor, resume = <<>>,
         NEW S \in SUBSET Threads, NEW n \in Nat, NEW order \in [1 .. n -> S],
         \A i, j \in 1 .. n : order[i] = order[j] => i = j,
         \A u \in S : step[u] \in 1 .. 4 /\ u \notin aborted,
         Complete(order)
  PROVE  /\ ThreadTypes' /\ ResumeInv' /\ StepInv'
         /\ stmtPos' = stmtPos /\ aborted' = aborted
         /\ \A u \in Threads :
              \/ /\ \E i \in 1 .. n : order[i] = u
                 /\ step'[u] = step[u] + 1 /\ InResume(u)' /\ u \in S
              \/ (\A i \in 1 .. n : order[i] # u) /\ Still(u)
<1>1. order \in Seq(Threads) /\ Len(order) = n
  OBVIOUS
<1>2. /\ step' = [t \in Threads |-> IF \E i \in 1 .. n : order[i] = t
                                    THEN step[t] + 1 ELSE step[t]]
      /\ resume' = order /\ stmtPos' = stmtPos /\ aborted' = aborted
  BY <1>1 DEF Complete
<1>3. \A u : InResume(u)' <=> \E i \in 1 .. n : order[i] = u
  BY <1>1, <1>2 DEF InResume
<1>4. \A u : ~InResume(u)
  BY DEF InResume
<1>5. \A u \in Threads : step'[u] = IF \E i \in 1 .. n : order[i] = u
                                   THEN step[u] + 1 ELSE step[u]
  BY <1>2
<1>6. \A u \in Threads :
              \/ /\ \E i \in 1 .. n : order[i] = u
                 /\ step'[u] = step[u] + 1 /\ InResume(u)' /\ u \in S
              \/ (\A i \in 1 .. n : order[i] # u) /\ Still(u)
  <2>. SUFFICES ASSUME NEW u \in Threads
                PROVE  \/ /\ \E i \in 1 .. n : order[i] = u
                          /\ step'[u] = step[u] + 1 /\ InResume(u)' /\ u \in S
                       \/ (\A i \in 1 .. n : order[i] # u) /\ Still(u)
    OBVIOUS
  <2>1. CASE \E i \in 1 .. n : order[i] = u
    BY <1>3, <1>5, <2>1
  <2>2. CASE \A i \in 1 .. n : order[i] # u
    BY <1>2, <1>3, <1>4, <1>5, <2>2 DEF Still
  <2>. QED  BY <2>1, <2>2
<1>7. \A u \in Threads : Ops(u)' = Ops(u) /\ (Stands(u)' <=> Stands(u))
  BY <1>2 DEF Ops, Current, Stands, Program
<1>8. step' \in [Threads -> Nat \ {0}]
  <2>1. \A u \in Threads : step'[u] \in Nat \ {0}
    BY <1>5 DEF ThreadTypes
  <2>. QED  BY <1>2, <2>1
<1>9. ThreadTypes'
  BY <1>1, <1>2, <1>8 DEF ThreadTypes
<1>10. ResumeInv'
  BY <1>1, <1>2, <1>3 DEF ResumeInv
<1>11. StepInv'
  <2>. SUFFICES ASSUME NEW u \in Threads
                PROVE  /\ step'[u] \in 1 .. 5
                       /\ Stands(u)' /\ ~InResume(u)' /\ u \notin aborted' => step'[u] <= Len(Ops(u))'
    BY DEF StepInv
  <2>1. CASE \E i \in 1 .. n : order[i] = u
    <3>1. step[u] \in 1 .. 4 /\ step'[u] = step[u] + 1 /\ InResume(u)'
      BY <1>3, <1>5, <2>1
    <3>. QED  BY <3>1
  <2>2. CASE \A i \in 1 .. n : order[i] # u
    BY <1>2, <1>4, <1>5, <1>7, <2>2 DEF StepInv
  <2>. QED  BY <2>1, <2>2
<1>. QED  BY <1>2, <1>6, <1>9, <1>10, <1>11

\* The same for one thread.
LEMMA CompleteOne ==
  ASSUME ThreadTypes, ResumeInv, StepInv, scenario' = scenario, UNCHANGED <<waitfor, fired>>,
         resume = <<>>, NEW t \in Threads, step[t] \in 1 .. 4, t \notin aborted, Complete(<<t>>)
  PROVE  /\ ThreadTypes' /\ ResumeInv' /\ StepInv'
         /\ stmtPos' = stmtPos /\ aborted' = aborted
         /\ step'[t] = step[t] + 1 /\ InResume(t)'
         /\ \A u \in Threads \ {t} : Still(u)
<1>. DEFINE order == <<t>>
<1>1. order \in [1 .. 1 -> {t}] /\ {t} \in SUBSET Threads /\ 1 \in Nat /\ order[1] = t
  OBVIOUS
<1>2. \A i, j \in 1 .. 1 : order[i] = order[j] => i = j
  OBVIOUS
<1>3. fired' \subseteq Events
  BY DEF ThreadTypes
<1>4. Complete(order)
  OBVIOUS
<1>5. \A u \in {t} : step[u] \in 1 .. 4 /\ u \notin aborted
  OBVIOUS
<1>6. 1 \in 1 .. 1 /\ \A i \in 1 .. 1 : i = 1
  OBVIOUS
<1>. HIDE DEF order
<1>. QED  BY <1>1, <1>2, <1>3, <1>4, <1>5, <1>6, CompleteFacts

\* A thread whose request failed gives up.
LEMMA FailFacts ==
  ASSUME ThreadTypes, ResumeInv, StepInv, scenario' = scenario, UNCHANGED <<waitfor, fired>>,
         resume = <<>>, NEW t \in Threads, Fail(t)
  PROVE  /\ ThreadTypes' /\ ResumeInv' /\ StepInv'
         /\ stmtPos' = stmtPos /\ aborted' = aborted \union {t} /\ step' = step
         /\ resume' = <<>> /\ t \in aborted' /\ ~InResume(t)'
         /\ \A u \in Threads \ {t} : Still(u)
<1>1. /\ stmtPos' = stmtPos /\ step' = step /\ resume' = resume /\ aborted' = aborted \union {t}
  BY DEF Fail
<1>2. \A u : ~InResume(u) /\ ~InResume(u)'
  BY <1>1 DEF InResume
<1>3. \A u \in Threads : Ops(u)' = Ops(u) /\ (Stands(u)' <=> Stands(u))
  BY <1>1 DEF Ops, Current, Stands, Program
<1>4. \A u \in Threads \ {t} : Still(u)
  BY <1>1, <1>2 DEF Still
<1>5. ThreadTypes' /\ ResumeInv'
  BY <1>1, <1>2 DEF ThreadTypes, ResumeInv
<1>6. StepInv'
  BY <1>1, <1>2, <1>3 DEF StepInv
<1>. QED  BY <1>1, <1>2, <1>4, <1>5, <1>6

\* A step that moves no thread.
LEMMA UnmovedFacts ==
  ASSUME ThreadTypes, ResumeInv, StepInv, UNCHANGED <<scenario, threads>>
  PROVE  /\ ThreadTypes' /\ ResumeInv' /\ StepInv'
         /\ \A u : Still(u)
         /\ stmtPos' = stmtPos /\ step' = step /\ aborted' = aborted /\ resume' = resume
         /\ waitfor' = waitfor /\ fired' = fired
<1>1. /\ stmtPos' = stmtPos /\ step' = step /\ aborted' = aborted /\ resume' = resume
      /\ waitfor' = waitfor /\ fired' = fired
  BY DEF threads
<1>2. ThreadTypes'
  BY <1>1 DEF ThreadTypes
<1>3. \A u : InResume(u)' <=> InResume(u)
  BY <1>1 DEF InResume
<1>4. \A u : Ops(u)' = Ops(u) /\ (Stands(u)' <=> Stands(u))
  BY <1>1 DEF Ops, Current, Stands, Program
<1>5. ResumeInv' /\ StepInv'
  BY <1>1, <1>3, <1>4 DEF ResumeInv, StepInv
<1>6. \A u : Still(u)
  BY <1>1, <1>3 DEF Still
<1>. QED  BY <1>1, <1>2, <1>5, <1>6

----------------------------------------
(* What an operation is: a request, an accept that waits or finds its      *)
(* connection, or a matter of the thread alone.                            *)

LEMMA OperationCases ==
  ASSUME NEW t, Operation(t)
  PROVE  \/ \E a, id : \E end \in {"client", "server"}, op \in AnswerOps : Issues(t, a, end, op, id)
         \/ \E l \in listens : Awaits(t, l)
         \/ \E c \in accepts : Takes(t, c)
         \/ Alone(t)
<1>. USE DEF AnswerOps, Stats, SocketOps
<1>1. CASE OpOpen(t)
  <2>1. AgentAt("client", t) = Conn(t).client
    BY DEF AgentAt
  <2>2. Issues(t, Conn(t).client, "client", "OPEN", requestNo)
    BY <1>1, <2>1 DEF OpOpen, Issues, NewOps
  <2>. QED  BY <2>2
<1>2. CASE OpListen(t)
  <2>1. AgentAt("server", t) = Server
    BY DEF AgentAt
  <2>2. At(t, <<"server", "LISTEN">>) /\ UNCHANGED <<scenario, accepts, connects, toManager, agents>>
    BY <1>2 DEF OpListen
  <2>3. CASE Conn(t).protocol = "tcp" /\ Listening(Conn(t).port)
    BY <1>2, <2>2, <2>3 DEF OpListen, Alone, tables
  <2>4. CASE ~(Conn(t).protocol = "tcp" /\ Listening(Conn(t).port))
    <3>1. Issues(t, Server, "server", "LISTEN", requestNo)
      BY <1>2, <2>1, <2>2, <2>4 DEF OpListen, Issues, NewOps
    <3>. QED  BY <3>1
  <2>. QED  BY <2>3, <2>4
<1>3. CASE OpAccept(t)
  <2>1. /\ At(t, <<"server", "ACCEPT">>)
        /\ UNCHANGED <<scenario, requestNo, listens, toAgent, toManager, agents>>
    BY <1>3 DEF OpAccept
  <2>2. CASE Skip(t) /\ UNCHANGED <<requests, accepts, connects, incidents>> /\ Conn(t).protocol = "udp"
    BY <2>1, <2>2 DEF Alone, tables
  <2>3. CASE /\ Conn(t).protocol = "tcp"
             /\ \E c \in accepts :
                  /\ c.thread = t /\ c.port = Conn(t).port
                  /\ connects' = [connects EXCEPT ![Server] = @ \union
                       {[stat |-> "CONNECTED", thread |-> t, id_sock |-> c.id_sock]}]
                  /\ accepts' = accepts \ {c}
             /\ Skip(t)
             /\ UNCHANGED <<requests, incidents>>
    BY <2>1, <2>3 DEF Takes
  <2>4. CASE /\ Conn(t).protocol = "tcp"
             /\ ~\E c \in accepts : c.thread = t /\ c.port = Conn(t).port
             /\ \E l \in listens :
                  /\ l.port = Conn(t).port
                  /\ Request(t, Server, "ACCEPT", l.id_req)
             /\ Wait
             /\ UNCHANGED <<accepts, connects>>
    BY <2>1, <2>4 DEF Awaits
  <2>5. CASE Abort(t) /\ incidents' = incidents \union {"refused"}
             /\ UNCHANGED <<requests, accepts, connects>>
    BY <2>1, <2>5 DEF Alone, tables
  <2>. QED  BY <1>3, <2>2, <2>3, <2>4, <2>5 DEF OpAccept
<1>4. CASE OpOnSocket(t)
  <2>1. PICK end \in {"client", "server"}, op \in {"CONNECT", "RECV", "SEND", "RECVTERM"} :
          /\ At(t, <<end, op>>)
          /\ \/ /\ \E c \in Sockets(t, AgentAt(end, t), Known(op)) :
                     Send(t, AgentAt(end, t), op, c.id_sock) /\ Request(t, AgentAt(end, t), op, c.id_sock)
                /\ Wait
             \/ /\ Abort(t)
                /\ incidents' = incidents \union {"not connected"}
                /\ UNCHANGED <<toAgent, requests>>
          /\ UNCHANGED <<scenario, requestNo, listens, accepts, connects, toManager, agents>>
    BY <1>4 DEF OpOnSocket, Known
  <2>2. CASE Abort(t) /\ incidents' = incidents \union {"not connected"} /\ UNCHANGED <<toAgent, requests>>
    BY <2>1, <2>2 DEF Alone, tables
  <2>3. ASSUME NEW c \in Sockets(t, AgentAt(end, t), Known(op)),
               Send(t, AgentAt(end, t), op, c.id_sock), Request(t, AgentAt(end, t), op, c.id_sock), Wait
        PROVE  Issues(t, AgentAt(end, t), end, op, c.id_sock)
    BY <2>1, <2>3 DEF Issues
  <2>4. op \in AnswerOps
    OBVIOUS
  <2>. QED  BY <2>1, <2>2, <2>3, <2>4
<1>5. CASE OpClose(t)
  <2>1. PICK end \in {"client", "server"} :
          /\ At(t, <<end, "CLOSE">>)
          /\ \/ /\ Sockets(t, AgentAt(end, t), "CONNECTED") = {}
                /\ Skip(t)
                /\ UNCHANGED <<connects, toAgent, requests, incidents>>
             \/ /\ \E c \in Sockets(t, AgentAt(end, t), "CONNECTED") :
                     /\ connects' = [connects EXCEPT ![AgentAt(end, t)] =
                          (connects[AgentAt(end, t)] \ {c}) \union {[c EXCEPT !.stat = "CLOSING"]}]
                     /\ Send(t, AgentAt(end, t), "CLOSE", c.id_sock)
                     /\ Request(t, AgentAt(end, t), "CLOSE", c.id_sock)
                /\ Wait
          /\ UNCHANGED <<scenario, requestNo, listens, accepts, toManager, agents>>
    BY <1>5 DEF OpClose
  <2>2. CASE /\ Sockets(t, AgentAt(end, t), "CONNECTED") = {}
             /\ Skip(t)
             /\ UNCHANGED <<connects, toAgent, requests, incidents>>
    BY <2>1, <2>2 DEF Alone, tables
  <2>3. ASSUME NEW c \in Sockets(t, AgentAt(end, t), "CONNECTED"),
               connects' = [connects EXCEPT ![AgentAt(end, t)] =
                          (connects[AgentAt(end, t)] \ {c}) \union {[c EXCEPT !.stat = "CLOSING"]}],
               Send(t, AgentAt(end, t), "CLOSE", c.id_sock),
               Request(t, AgentAt(end, t), "CLOSE", c.id_sock), Wait
        PROVE  Issues(t, AgentAt(end, t), end, "CLOSE", c.id_sock)
    BY <2>1, <2>3 DEF Issues, Known
  <2>4. "CLOSE" \in AnswerOps
    OBVIOUS
  <2>. QED  BY <2>1, <2>2, <2>3, <2>4
<1>6. CASE OpSync(t)
  BY <1>6 DEF OpSync, Alone, tables
<1>7. CASE OpDelay(t)
  BY <1>7 DEF OpDelay, Alone, tables
<1>8. CASE StatementEnds(t)
  BY <1>8 DEF StatementEnds, Alone, tables
<1>. QED  BY <1>1, <1>2, <1>3, <1>4, <1>5, <1>6, <1>7, <1>8 DEF Operation

----------------------------------------
(* What an answer does: it settles the request that it answers.            *)

LEMMA AnswerCases ==
  ASSUME NEW a \in Agents, NEW m, HearAnswer(a, m)
  PROVE  \/ /\ Unexpected
            /\ \/ \A r \in requests[a] : r.id # m.id \/ r.stat # m.op
               \/ \E r \in requests[a] : /\ r.id = m.id /\ r.stat = m.op
                                         /\ m.op = "LISTEN" /\ Pending(r.thread) = {}
         \/ \E r \in requests[a] : Settles(a, m, r)
<1>. DEFINE found == {r \in requests[a] : r.id = m.id /\ r.stat = m.op}
<1>1. CASE found = {} /\ Unexpected
  BY <1>1
<1>2. CASE \E r \in found : m.op = "LISTEN" /\ Pending(r.thread) = {} /\ Unexpected
  BY <1>2
<1>3. ASSUME NEW r \in found,
             /\ requests' = [requests EXCEPT ![a] = @ \ {r}]
             /\ UNCHANGED accepts
             /\ \/ /\ m.ok
                   /\ CASE m.op \in {"OPEN", "CONNECT"} -> HearOpened(a, r, m)
                        [] m.op = "LISTEN" -> \E l \in Pending(r.thread) : HearListening(r, m, l)
                        [] m.op = "CLOSE" -> connects' = HearClosing(a, r) /\ UNCHANGED listens
                        [] OTHER -> UNCHANGED <<connects, listens>>
                   /\ Complete(<<r.thread>>)
                   /\ UNCHANGED <<waitfor, fired, incidents>>
                \/ /\ ~m.ok
                   /\ listens' = IF m.op = "LISTEN" THEN listens \ Pending(r.thread) ELSE listens
                   /\ connects' = IF m.op = "CLOSE" THEN HearClosing(a, r) ELSE connects
                   /\ IF m.op = "CLOSE" /\ Sockets(r.thread, a, "CLOSING") = {}
                      THEN Complete(<<r.thread>>) /\ UNCHANGED incidents
                      ELSE Fail(r.thread) /\ incidents' = incidents \union {"failed"}
                   /\ UNCHANGED <<waitfor, fired>>
      PROVE  Settles(a, m, r)
  <2>1. r \in requests[a] /\ r.id = m.id /\ r.stat = m.op
    OBVIOUS
  <2>2. CASE ~m.ok
    <3>1. SettlesConnects(a, m, r)
      BY <1>3, <2>2 DEF SettlesConnects
    <3>2. SettlesListens(m, r)
      BY <1>3, <2>2 DEF SettlesListens
    <3>. QED  BY <1>3, <2>1, <2>2, <3>1, <3>2 DEF Settles
  <2>3. CASE m.ok
    <3>1. Complete(<<r.thread>>) /\ UNCHANGED incidents /\ UNCHANGED <<waitfor, fired>>
      BY <1>3, <2>3
    <3>2. CASE m.op \in {"OPEN", "CONNECT"}
      <4>1. HearOpened(a, r, m)
        BY <1>3, <2>3, <3>2
      <4>2. SettlesConnects(a, m, r) /\ SettlesListens(m, r)
        BY <2>1, <2>3, <3>2, <4>1 DEF HearOpened, SettlesConnects, SettlesListens
      <4>. QED  BY <1>3, <2>1, <2>3, <3>1, <4>2 DEF Settles
    <3>3. CASE m.op = "LISTEN"
      <4>1. PICK l \in Pending(r.thread) : HearListening(r, m, l)
        BY <1>3, <2>3, <3>3
      <4>2. SettlesConnects(a, m, r)
        BY <2>3, <3>3, <4>1 DEF HearListening, SettlesConnects
      <4>3. SettlesListens(m, r)
        BY <2>3, <3>3, <4>1 DEF HearListening, SettlesListens
      <4>. QED  BY <1>3, <2>1, <2>3, <3>1, <4>2, <4>3 DEF Settles
    <3>4. CASE m.op = "CLOSE"
      <4>1. connects' = HearClosing(a, r) /\ UNCHANGED listens
        BY <1>3, <2>3, <3>4
      <4>. QED  BY <1>3, <2>1, <2>3, <3>1, <3>4, <4>1 DEF Settles, SettlesConnects, SettlesListens
    <3>5. CASE m.op \notin {"OPEN", "CONNECT", "LISTEN", "CLOSE"}
      <4>1. UNCHANGED <<connects, listens>>
        BY <1>3, <2>3, <3>5
      <4>. QED  BY <1>3, <2>1, <2>3, <3>1, <3>5, <4>1 DEF Settles, SettlesConnects, SettlesListens
    <3>. QED  BY <3>2, <3>3, <3>4, <3>5
  <2>. QED  BY <2>2, <2>3
<1>. QED  BY <1>1, <1>2, <1>3 DEF HearAnswer, Pending

----------------------------------------
(* What an agent does with a descriptor. *)

LEMMA PutFacts ==
  ASSUME AgentTypes, NEW a \in Agents, NEW f \in Fds, NEW new \in {FreeFd} \union SocketType,
         fds' = [fds EXCEPT ![a][f] = new]
  PROVE  /\ fds' \in [Agents -> [Fds -> {FreeFd} \union SocketType]]
         /\ fds'[a][f] = new
         /\ \A g \in Fds \ {f} : fds'[a][g] = fds[a][g]
         /\ \A b \in Agents \ {a} : fds'[b] = fds[b]
<1>1. fds \in [Agents -> [Fds -> {FreeFd} \union SocketType]]
  BY DEF AgentTypes
<1>. DEFINE S == {FreeFd} \union SocketType
<1>2. fds[a] \in [Fds -> S] /\ fds' = [fds EXCEPT ![a] = [fds[a] EXCEPT ![f] = new]]
  BY <1>1
<1>3. new \in S
  OBVIOUS
<1>. HIDE DEF S
<1>4. [fds[a] EXCEPT ![f] = new] \in [Fds -> S]
  BY <1>2, <1>3
<1>5. fds \in [Agents -> [Fds -> S]]
  BY <1>1 DEF S
<1>6. fds' \in [Agents -> [Fds -> S]]
  BY <1>2, <1>4, <1>5
<1>7. fds'[a] = [fds[a] EXCEPT ![f] = new] /\ \A b \in Agents \ {a} : fds'[b] = fds[b]
  BY <1>2, <1>5
<1>8. fds'[a][f] = new /\ \A g \in Fds \ {f} : fds'[a][g] = fds[a][g]
  BY <1>2, <1>7
<1>. QED  BY <1>6, <1>7, <1>8 DEF S

LEMMA SocketFacts ==
  ASSUME AgentTypes, NEW a \in Agents, NEW f \in Fds, fds[a][f] # FreeFd
  PROVE  /\ fds[a][f] \in SocketType /\ fds[a][f].thread \in Threads
         /\ fds[a][f].kind \in {"tcp", "udp", "listen"} /\ fds[a][f].id_req \in Nat
         /\ fds[a][f].busy \in {"no", "SEND", "RECVTERM"} /\ fds[a][f].reads \in BOOLEAN
<1>1. fds[a][f] \in SocketType
  BY DEF AgentTypes
<1>. QED  BY <1>1 DEF SocketType

LEMMA FreeIsNoSocket == FreeFd \notin SocketType
<1>. SUFFICES ASSUME FreeFd \in SocketType PROVE FALSE
  OBVIOUS
<1>1. FreeFd.kind \in {"tcp", "udp", "listen"}
  BY DEF SocketType
<1>. QED  BY <1>1 DEF FreeFd

LEMMA NewSocketFacts ==
  ASSUME NEW k \in {"tcp", "udp", "listen"}, NEW t \in Threads, NEW n \in Nat
  PROVE  /\ Socket(k, t, n) \in SocketType /\ Socket(k, t, n) # FreeFd
         /\ Socket(k, t, n).kind = k /\ Socket(k, t, n).thread = t
         /\ Socket(k, t, n).id_req = n /\ Socket(k, t, n).busy = "no"
         /\ Socket(k, t, n).reads = FALSE
<1>1. Socket(k, t, n) \in SocketType
  BY DEF Socket, SocketType
<1>. QED  BY <1>1, FreeIsNoSocket DEF Socket

LEMMA NewCases ==
  ASSUME AgentTypes, NEW a \in Agents, NEW r \in Requests, r.op \in NewOps, scenario \in Scenarios,
         ServeNew(a, r) \/ ServeSocket(a, r)
  PROVE  /\ UNCHANGED <<backlog, closed, incidents>>
         /\ \/ Declines(a, r)
            \/ \E f \in Fds, k \in {"tcp", "udp", "listen"} : Creates(a, r, f, k)
<1>1. ServeNew(a, r)
  BY DEF ServeSocket, NewOps
<1>2. r.thread \in Threads
  BY DEF Requests
<1>3. Conn(r.thread).protocol \in {"tcp", "udp"}
  BY <1>2, ScenarioFacts
<1>. DEFINE k == IF r.op = "LISTEN" /\ Conn(r.thread).protocol = "tcp"
                 THEN "listen" ELSE Conn(r.thread).protocol
<1>4. k \in {"tcp", "udp", "listen"}
  BY <1>3
<1>5. CASE /\ failures' = failures + 1
           /\ Tell(a, Answer(r.op, r.id, 0, r.thread, FALSE))
           /\ UNCHANGED <<fds, backlog, closed, incidents>>
  BY <1>5 DEF Declines
<1>6. ASSUME NEW f \in Fds, Lowest(a, f),
             fds' = [fds EXCEPT ![a][f] = Socket(k, r.thread, r.id)],
             Tell(a, Answer(r.op, r.id, f, r.thread, TRUE)),
             UNCHANGED <<backlog, closed, failures, incidents>>
      PROVE  \E g \in Fds, j \in {"tcp", "udp", "listen"} : Creates(a, r, g, j)
  <2>1. Creates(a, r, f, k)
    BY <1>6 DEF Lowest, Creates
  <2>. QED  BY <1>4, <2>1
<1>. QED  BY <1>1, <1>5, <1>6 DEF ServeNew

LEMMA SocketCases ==
  ASSUME AgentTypes, NEW a \in Agents, NEW r \in Requests, r.op \in SocketOps, r.id \in Fds,
         ServeNew(a, r) \/ ServeSocket(a, r)
  PROVE  /\ UNCHANGED failures
         /\ incidents \subseteq incidents' /\ incidents' \subseteq incidents \union {"stray", "refused"}
         /\ \/ Misses(a, r)
            \/ /\ fds[a][r.id] # FreeFd
               /\ "stray" \in incidents' => "stray" \in incidents \/ fds[a][r.id].thread # r.thread
               /\ "stray" \notin incidents' => fds[a][r.id].thread = r.thread
               /\ fds[a][r.id].kind = "tcp" /\ r.op = "CONNECT" /\ ~ListensAt(Conn(r.thread).port)
                    => "refused" \in incidents'
               /\ Dials(a, r) \/ Reads(a, r) \/ Begins(a, r) \/ Shuts(a, r)
<1>. DEFINE s == fds[a][r.id]
            port == Conn(r.thread).port
<1>1. ServeSocket(a, r)
  BY DEF ServeNew, SocketOps
<1>2. CASE /\ s = FreeFd
           /\ Tell(a, Answer(r.op, r.id, r.id, r.thread, FALSE))
           /\ UNCHANGED <<fds, backlog, closed, incidents>>
  <2>1. UNCHANGED failures
    BY <1>1 DEF ServeSocket
  <2>. QED  BY <1>2, <2>1 DEF Misses
<1>3. CASE s # FreeFd
  <2>. DEFINE stray == IF s.thread = r.thread THEN {} ELSE {"stray"}
              refused == IF r.op = "CONNECT" /\ s.kind = "tcp" /\ ~ListensAt(port) THEN {"refused"} ELSE {}
  <2>1. UNCHANGED failures
    BY <1>1 DEF ServeSocket
  <2>2. incidents' = incidents \union stray \union refused
    BY <1>1, <1>3 DEF ServeSocket
  <2>3. CASE r.op = "CONNECT"
    BY <1>1, <1>3, <2>1, <2>2, <2>3 DEF ServeSocket, Dials
  <2>4. CASE r.op = "RECV"
    BY <1>1, <1>3, <2>1, <2>2, <2>4 DEF ServeSocket, Reads
  <2>5. CASE r.op \in {"SEND", "RECVTERM"}
    BY <1>1, <1>3, <2>1, <2>2, <2>5 DEF ServeSocket, Begins
  <2>6. CASE r.op = "CLOSE"
    BY <1>1, <1>3, <2>1, <2>2, <2>6 DEF ServeSocket, Shuts
  <2>. QED  BY <2>3, <2>4, <2>5, <2>6 DEF SocketOps
<1>. QED  BY <1>1, <1>2, <1>3 DEF ServeSocket

----------------------------------------
(* Every step keeps the types. *)

LEMMA InitTypes ==
  ASSUME Init
  PROVE  ThreadTypes /\ DataTypes
<1>1. PICK r \in [1 .. Cardinality(Threads) -> Threads] :
        resume = r /\ \A i, j \in DOMAIN r : r[i] = r[j] => i = j
  BY DEF Init
<1>2. Cardinality(Threads) \in Nat
  BY ManagerAssumption, FS_CardinalityType
<1>3. resume \in Seq(Threads)
  BY <1>1, <1>2
<1>4. ThreadTypes
  BY <1>3, ManagerAssumption DEF Init, ThreadTypes
<1>5. TableTypes
  BY DEF Init, TableTypes
<1>6. AgentTypes
  BY DEF Init, AgentTypes
<1>7. FdTypes
  BY DEF Init, FdTypes
<1>. QED  BY <1>4, <1>5, <1>6, <1>7 DEF DataTypes

\* The elements of the tables.
LEMMA ElementFacts ==
  ASSUME TableTypes, NEW a \in Agents
  PROVE  /\ \A c \in connects[a] : c.thread \in Threads /\ c.id_sock \in Fds
              /\ c.stat \in {"OPENED", "CONNECTED", "CLOSING"}
              /\ c = [stat |-> c.stat, thread |-> c.thread, id_sock |-> c.id_sock]
         /\ \A r \in requests[a] : r.thread \in Threads /\ r.id \in Nat /\ r.stat \in Stats
              /\ r = [id |-> r.id, stat |-> r.stat, thread |-> r.thread]
<1>. DEFINE C == [stat : {"OPENED", "CONNECTED", "CLOSING"}, thread : Threads, id_sock : Fds]
            R == [id : Nat, stat : Stats, thread : Threads]
<1>1. connects[a] \in SUBSET C /\ requests[a] \in SUBSET R
  BY DEF TableTypes
<1>2. \A c \in C : c.thread \in Threads /\ c.id_sock \in Fds
              /\ c.stat \in {"OPENED", "CONNECTED", "CLOSING"}
              /\ c = [stat |-> c.stat, thread |-> c.thread, id_sock |-> c.id_sock]
  OBVIOUS
<1>3. \A r \in R : r.thread \in Threads /\ r.id \in Nat /\ r.stat \in Stats
              /\ r = [id |-> r.id, stat |-> r.stat, thread |-> r.thread]
  OBVIOUS
<1>. HIDE DEF C, R
<1>. QED  BY <1>1, <1>2, <1>3

LEMMA IssueTypes ==
  ASSUME ThreadTypes, DataTypes, NEW t, NEW a, NEW id, NEW end \in {"client", "server"},
         NEW op \in AnswerOps, Issues(t, a, end, op, id)
  PROVE  /\ DataTypes' /\ a \in Agents /\ t \in Threads /\ id \in Nat
         /\ op \in SocketOps => id \in Fds
<1>1. t \in Threads /\ a \in Agents /\ Conn(t).port \in Ports
  BY AtFacts, ScenarioFacts DEF Issues, ThreadTypes
<1>2. id \in Nat /\ (op \in SocketOps => id \in Fds)
  <2>1. CASE op \in NewOps /\ id = requestNo
    BY <2>1 DEF NewOps, SocketOps, DataTypes, TableTypes
  <2>2. CASE \E c \in Sockets(t, a, Known(op)) : id = c.id_sock
    <3>1. \A c \in connects[a] : c.id_sock \in Fds
      BY <1>1, ElementFacts DEF DataTypes
    <3>2. id \in Fds
      BY <2>2, <3>1 DEF Sockets
    <3>. QED  BY <3>2 DEF Fds
  <2>. QED  BY <2>1, <2>2 DEF Issues
<1>3. op \in Stats
  BY DEF AnswerOps
<1>. DEFINE e == [op |-> op, id |-> id, thread |-> t]
            new == Req(t, op, id)
<1>4. /\ toAgent' \in [Agents -> Seq(Requests)]
      /\ \A b \in Agents \ {a} : toAgent'[b] = toAgent[b]
      /\ \A i \in 1 .. Len(toAgent[a]) : toAgent'[a][i] = toAgent[a][i]
      /\ toAgent'[a][Len(toAgent[a]) + 1] = e
      /\ \A i \in 1 .. Len(toAgent'[a]) :
           i \in 1 .. Len(toAgent[a]) \/ i = Len(toAgent[a]) + 1
  BY <1>1, <1>2, SendFacts DEF Issues, DataTypes
<1>5. /\ requests' \in [Agents -> SUBSET [id : Nat, stat : Stats, thread : Threads]]
      /\ \A b \in Agents \ {a} : requests'[b] = requests[b]
      /\ requests'[a] \subseteq requests[a] \union {new}
      /\ incidents' \subseteq incidents \union {"request lost"}
  <2>1. Request(t, a, op, id) /\ TableTypes
    BY DEF Issues, DataTypes
  <2>. QED  BY <1>1, <1>2, <1>3, <2>1, RequestFacts
<1>6. AgentTypes'
  BY <1>4 DEF Issues, DataTypes, AgentTypes, agents
<1>7. TableTypes'
  <2>1. requestNo' \in Nat \ {0}
    <3>1. requestNo' = requestNo + 1 \/ requestNo' = requestNo
      BY DEF Issues
    <3>2. requestNo \in Nat \ {0}
      BY DEF DataTypes, TableTypes
    <3>. QED  BY <3>1, <3>2
  <2>2. listens' \subseteq [port : Ports, stat : {"REQ_LISTEN", "LISTEN"}, id_req : Nat]
    <3>1. [port |-> Conn(t).port, stat |-> "REQ_LISTEN", id_req |-> id]
            \in [port : Ports, stat : {"REQ_LISTEN", "LISTEN"}, id_req : Nat]
      BY <1>1, <1>2
    <3>. QED  BY <3>1 DEF Issues, DataTypes, TableTypes, NewOps
  <2>3. connects' \in [Agents -> SUBSET [stat : {"OPENED", "CONNECTED", "CLOSING"},
                                          thread : Threads, id_sock : Fds]]
    <3>. DEFINE C == [stat : {"OPENED", "CONNECTED", "CLOSING"}, thread : Threads, id_sock : Fds]
    <3>1. connects \in [Agents -> SUBSET C]
      BY DEF DataTypes, TableTypes
    <3>2. CASE UNCHANGED connects
      BY <3>1, <3>2
    <3>3. ASSUME NEW c \in Sockets(t, a, Known(op)),
                 connects' = [connects EXCEPT ![a] =
                                (connects[a] \ {c}) \union {[c EXCEPT !.stat = "CLOSING"]}]
          PROVE  connects' \in [Agents -> SUBSET C]
      <4>1. c \in C
        BY <1>1, <3>1 DEF Sockets
      <4>2. [c EXCEPT !.stat = "CLOSING"] \in C
        BY <4>1
      <4>3. (connects[a] \ {c}) \union {[c EXCEPT !.stat = "CLOSING"]} \in SUBSET C
        BY <1>1, <3>1, <4>2
      <4>. QED  BY <3>1, <3>3, <4>3
    <3>. QED  BY <3>2, <3>3 DEF Issues
  <2>. QED  BY <1>5, <2>1, <2>2, <2>3 DEF Issues, DataTypes, TableTypes
<1>8. FdTypes'
  <2>1. \A b \in Agents : \A i \in 1 .. Len(toAgent'[b]) :
          toAgent'[b][i].op \in SocketOps => toAgent'[b][i].id \in Fds
    <3>1. \A i \in 1 .. Len(toAgent[a]) : toAgent[a][i].op \in SocketOps => toAgent[a][i].id \in Fds
      BY <1>1 DEF DataTypes, FdTypes
    <3>2. e.op = op /\ e.id = id
      OBVIOUS
    <3>. HIDE DEF e
    <3>3. \A i \in 1 .. Len(toAgent'[a]) : toAgent'[a][i].op \in SocketOps => toAgent'[a][i].id \in Fds
      BY <1>2, <1>4, <3>1, <3>2
    <3>. QED  BY <1>4, <3>3 DEF DataTypes, FdTypes
  <2>2. \A b \in Agents : \A r \in requests'[b] : r.stat \in SocketOps => r.id \in Fds
    <3>1. \A b \in Agents : \A r \in requests[b] : r.stat \in SocketOps => r.id \in Fds
      BY DEF DataTypes, FdTypes
    <3>2. new.stat = op /\ new.id = id
      BY ReqFacts
    <3>. HIDE DEF new
    <3>. QED  BY <1>1, <1>2, <1>5, <3>1, <3>2
  <2>3. toManager' = toManager
    BY DEF Issues
  <2>. QED  BY <2>1, <2>2, <2>3 DEF DataTypes, FdTypes
<1>. QED  BY <1>1, <1>2, <1>6, <1>7, <1>8 DEF DataTypes

LEMMA AwaitTypes ==
  ASSUME ThreadTypes, DataTypes, NEW t, NEW l \in listens, Awaits(t, l)
  PROVE  DataTypes' /\ t \in Threads /\ l.id_req \in Nat
<1>1. t \in Threads /\ Server \in Agents
  BY AtFacts, ScenarioFacts DEF Awaits, ThreadTypes
<1>2. l.id_req \in Nat
  BY DEF DataTypes, TableTypes
<1>3. "ACCEPT" \in Stats /\ "ACCEPT" \notin SocketOps
  BY DEF Stats, SocketOps
<1>4. /\ requests' \in [Agents -> SUBSET [id : Nat, stat : Stats, thread : Threads]]
      /\ \A b \in Agents \ {Server} : requests'[b] = requests[b]
      /\ requests'[Server] \subseteq requests[Server]
           \union {Req(t, "ACCEPT", l.id_req)}
      /\ incidents' \subseteq incidents \union {"request lost"}
  BY <1>1, <1>2, <1>3, RequestFacts DEF Awaits, DataTypes
<1>5. TableTypes'
  BY <1>4 DEF Awaits, DataTypes, TableTypes
<1>6. AgentTypes'
  BY DEF Awaits, DataTypes, AgentTypes, agents
<1>7. \A b \in Agents : \A r \in requests'[b] : r.stat \in SocketOps => r.id \in Fds
  <2>. DEFINE new == Req(t, "ACCEPT", l.id_req)
  <2>1. \A b \in Agents : \A r \in requests[b] : r.stat \in SocketOps => r.id \in Fds
    BY DEF DataTypes, FdTypes
  <2>2. new.stat = "ACCEPT"
    BY ReqFacts
  <2>3. requests'[Server] \subseteq requests[Server] \union {new}
    BY <1>4
  <2>4. \A b \in Agents \ {Server} : requests'[b] = requests[b]
    BY <1>4
  <2>. HIDE DEF new
  <2>. QED  BY <1>1, <1>3, <2>1, <2>2, <2>3, <2>4
<1>8. FdTypes'
  <2>1. toAgent' = toAgent /\ toManager' = toManager
    BY DEF Awaits
  <2>. QED  BY <1>7, <2>1 DEF DataTypes, FdTypes
<1>. QED  BY <1>1, <1>2, <1>5, <1>6, <1>8 DEF DataTypes

\* velm adds to what it knows of the sockets.
LEMMA ConnectsGrow ==
  ASSUME TableTypes, NEW a \in Agents, NEW s \in {"OPENED", "CONNECTED", "CLOSING"},
         NEW t \in Threads, NEW f \in Fds,
         connects' = [connects EXCEPT ![a] = connects[a] \union
                        {[stat |-> s, thread |-> t, id_sock |-> f]}]
  PROVE  /\ connects' \in [Agents -> SUBSET [stat : {"OPENED", "CONNECTED", "CLOSING"},
                                             thread : Threads, id_sock : Fds]]
         /\ connects'[a] = connects[a] \union {[stat |-> s, thread |-> t, id_sock |-> f]}
         /\ \A b \in Agents \ {a} : connects'[b] = connects[b]
<1>. DEFINE C == [stat : {"OPENED", "CONNECTED", "CLOSING"}, thread : Threads, id_sock : Fds]
            c == [stat |-> s, thread |-> t, id_sock |-> f]
<1>1. connects \in [Agents -> SUBSET C] /\ c \in C
  BY DEF TableTypes
<1>. HIDE DEF C, c
<1>2. connects' = [connects EXCEPT ![a] = connects[a] \union {c}]
  BY DEF c
<1>. QED  BY <1>1, <1>2 DEF C, c

\* It takes from it.
LEMMA ConnectsShrink ==
  ASSUME TableTypes, NEW a \in Agents, NEW D,
         connects' = [connects EXCEPT ![a] = connects[a] \ D]
  PROVE  /\ connects' \in [Agents -> SUBSET [stat : {"OPENED", "CONNECTED", "CLOSING"},
                                             thread : Threads, id_sock : Fds]]
         /\ connects'[a] = connects[a] \ D
         /\ \A b \in Agents \ {a} : connects'[b] = connects[b]
BY DEF TableTypes

LEMMA TakeTypes ==
  ASSUME ThreadTypes, DataTypes, NEW t, NEW c \in accepts, Takes(t, c)
  PROVE  DataTypes' /\ t \in Threads
<1>1. t \in Threads /\ Server \in Agents
  BY AtFacts, ScenarioFacts DEF Takes, ThreadTypes
<1>2. c.id_sock \in Fds
  BY DEF DataTypes, TableTypes
<1>3. connects' \in [Agents -> SUBSET [stat : {"OPENED", "CONNECTED", "CLOSING"},
                                       thread : Threads, id_sock : Fds]]
  BY <1>1, <1>2, ConnectsGrow DEF Takes, DataTypes
<1>4. TableTypes'
  BY <1>3 DEF Takes, DataTypes, TableTypes
<1>5. AgentTypes' /\ FdTypes'
  BY DEF Takes, DataTypes, AgentTypes, FdTypes, agents
<1>. QED  BY <1>1, <1>4, <1>5 DEF DataTypes

LEMMA AloneTypes ==
  ASSUME DataTypes, NEW t, Alone(t)
  PROVE  DataTypes'
<1>1. incidents' \subseteq {"request lost", "refused", "not connected", "unexpected", "failed", "stray"}
  BY DEF Alone, DataTypes, TableTypes
<1>2. TableTypes'
  BY <1>1 DEF Alone, DataTypes, TableTypes, tables
<1>3. AgentTypes' /\ FdTypes'
  BY DEF Alone, DataTypes, AgentTypes, FdTypes, tables, agents
<1>. QED  BY <1>2, <1>3 DEF DataTypes

----------------------------------------
(* A report that a connection was accepted. *)

LEMMA AcceptedCases ==
  ASSUME NEW m, HearAccepted(m)
  PROVE  \/ Unexpected /\ \A l \in listens : l.id_req # m.id
         \/ /\ \E l \in listens : l.id_req = m.id
            /\ Keeps(m) \/ \E r \in requests[Server] : Admits(m, r)
<1>1. Accepting(m) \subseteq requests[Server]
  BY DEF Accepting
<1>. QED  BY <1>1 DEF HearAccepted, Keeps, Admits, threads

LEMMA HearCases ==
  ASSUME AgentTypes, NEW a \in Agents, Hear(a)
  PROVE  HearSteps(a, toManager[a][1]) /\ UNCHANGED <<scenario, requestNo, toAgent, agents>>
<1>. DEFINE m == toManager[a][1]
<1>1. \/ m.op = "CLOSED" /\ HearClosed(a, m)
      \/ m.op = "ACCEPTED" /\ HearAccepted(m)
      \/ m.op \in AnswerOps /\ HearAnswer(a, m)
  BY HearFacts
<1>2. UNCHANGED <<scenario, requestNo, toAgent, agents>>
  BY DEF Hear
<1>. HIDE DEF m
<1>3. HearSteps(a, m)
  <2>1. CASE m.op = "CLOSED" /\ HearClosed(a, m)
    BY <2>1 DEF HearClosed, HearSteps
  <2>2. CASE m.op = "ACCEPTED" /\ HearAccepted(m)
    BY <2>2, AcceptedCases DEF HearSteps
  <2>3. CASE m.op \in AnswerOps /\ HearAnswer(a, m)
    BY <2>3, AnswerCases DEF HearSteps
  <2>. QED  BY <1>1, <2>1, <2>2, <2>3
<1>. QED  BY <1>2, <1>3 DEF m

LEMMA HearTypes ==
  ASSUME ThreadTypes, DataTypes, NEW a \in Agents, Hear(a)
  PROVE  DataTypes'
<1>. DEFINE m == toManager[a][1]
<1>1. /\ 1 \in 1 .. Len(toManager[a]) /\ m \in Messages
      /\ toManager' \in [Agents -> Seq(Messages)]
      /\ \A b \in Agents \ {a} : toManager'[b] = toManager[b]
      /\ \A i \in 1 .. Len(toManager'[a]) :
           toManager'[a][i] = toManager[a][i + 1] /\ i + 1 \in 1 .. Len(toManager[a])
  BY HearFacts DEF DataTypes
<1>2. HearSteps(a, m) /\ UNCHANGED <<scenario, requestNo, toAgent, agents>>
  BY HearCases DEF DataTypes
<1>3. AgentTypes'
  BY <1>1, <1>2 DEF DataTypes, AgentTypes, agents
<1>4. /\ m.thread \in Threads /\ m.id \in Nat
      /\ m.ok => m.id_sock \in Fds
      /\ m.op = "ACCEPTED" => m.ok
  BY <1>1 DEF DataTypes, FdTypes, Proper, Messages
<1>5. Server \in Agents /\ Conn(m.thread).port \in Ports
  BY <1>4, ScenarioFacts DEF ThreadTypes
<1>. DEFINE R == [id : Nat, stat : Stats, thread : Threads]
            C == [stat : {"OPENED", "CONNECTED", "CLOSING"}, thread : Threads, id_sock : Fds]
            L == [port : Ports, stat : {"REQ_LISTEN", "LISTEN"}, id_req : Nat]
            A == [thread : Threads, port : Ports, id_sock : Fds]
            I == {"request lost", "refused", "not connected", "unexpected", "failed", "stray"}
<1>6. /\ requests \in [Agents -> SUBSET R] /\ connects \in [Agents -> SUBSET C]
      /\ listens \subseteq L /\ accepts \subseteq A /\ incidents \subseteq I
  BY DEF DataTypes, TableTypes
<1>7. /\ requests' \in [Agents -> SUBSET R] /\ connects' \in [Agents -> SUBSET C]
      /\ listens' \subseteq L /\ accepts' \subseteq A /\ incidents' \subseteq I
      /\ \A b \in Agents : requests'[b] \subseteq requests[b]
  <2>. HIDE DEF m
  <2>1. CASE Unexpected
    BY <1>6, <2>1 DEF Unexpected, tables
  <2>2. CASE /\ UNCHANGED <<threads, requests, listens, accepts, incidents>>
             /\ \/ UNCHANGED connects
                \/ \E c \in connects[a] : c.id_sock = m.id_sock
                     /\ connects' = [connects EXCEPT ![a] = connects[a] \ {c}]
    <3>1. connects' \in [Agents -> SUBSET C]
      BY <1>6, <2>2, ConnectsShrink DEF DataTypes
    <3>. QED  BY <1>6, <2>2, <3>1
  <2>3. CASE Keeps(m) /\ m.op = "ACCEPTED"
    <3>. DEFINE e == [thread |-> m.thread, port |-> Conn(m.thread).port, id_sock |-> m.id_sock]
    <3>1. e \in A
      BY <1>4, <1>5, <2>3
    <3>2. accepts' = accepts \union {e} /\ UNCHANGED <<requests, connects, listens, incidents>>
      BY <2>3 DEF Keeps
    <3>. HIDE DEF e, A
    <3>. QED  BY <1>6, <3>1, <3>2
  <2>4. ASSUME NEW r \in requests[Server], Admits(m, r), m.op = "ACCEPTED"
        PROVE  /\ requests' \in [Agents -> SUBSET R] /\ connects' \in [Agents -> SUBSET C]
               /\ listens' \subseteq L /\ accepts' \subseteq A /\ incidents' \subseteq I
               /\ \A b \in Agents : requests'[b] \subseteq requests[b]
    <3>1. r.thread \in Threads
      BY <1>5, <2>4, ElementFacts DEF DataTypes
    <3>2. connects' \in [Agents -> SUBSET C]
      BY <1>4, <1>5, <2>4, <3>1, ConnectsGrow DEF DataTypes, Admits
    <3>3. requests' = [requests EXCEPT ![Server] = requests[Server] \ {r}]
          /\ UNCHANGED <<listens, accepts, incidents>>
      BY <2>4 DEF Admits
    <3>. QED  BY <1>5, <1>6, <3>2, <3>3
  <2>5. ASSUME NEW r \in requests[a], Settles(a, m, r), m.op \in AnswerOps
        PROVE  /\ requests' \in [Agents -> SUBSET R] /\ connects' \in [Agents -> SUBSET C]
               /\ listens' \subseteq L /\ accepts' \subseteq A /\ incidents' \subseteq I
               /\ \A b \in Agents : requests'[b] \subseteq requests[b]
    <3>1. r.thread \in Threads
      BY <2>5, ElementFacts DEF DataTypes
    <3>2. connects' \in [Agents -> SUBSET C]
      <4>1. CASE UNCHANGED connects
        BY <1>6, <4>1
      <4>2. CASE connects' = HearClosing(a, r)
        BY <4>2, ConnectsShrink DEF DataTypes, HearClosing
      <4>3. CASE m.ok /\ \E s \in {"OPENED", "CONNECTED"} : connects' = [connects EXCEPT ![a] = connects[a] \union
                   {[stat |-> s, thread |-> r.thread, id_sock |-> m.id_sock]}]
        BY <1>4, <3>1, <4>3, ConnectsGrow DEF DataTypes
      <4>4. CASE m.ok /\ connects' = [connects EXCEPT ![Server] = connects[Server] \union
                   {[stat |-> "CONNECTED", thread |-> r.thread, id_sock |-> m.id_sock]}]
        BY <1>4, <1>5, <3>1, <4>4, ConnectsGrow DEF DataTypes
      <4>. QED  BY <2>5, <4>1, <4>2, <4>3, <4>4 DEF Settles, SettlesConnects
    <3>3. listens' \subseteq L
      <4>1. SettlesListens(m, r)
        BY <2>5 DEF Settles
      <4>2. ASSUME NEW l \in Pending(r.thread)
            PROVE  l \in L /\ [l EXCEPT !.stat = "LISTEN", !.id_req = m.id] \in L
        <5>1. l \in L
          BY <1>6, <4>2 DEF Pending
        <5>. QED  BY <1>4, <5>1
      <4>. HIDE DEF L
      <4>. QED  BY <1>6, <4>1, <4>2 DEF SettlesListens
    <3>4. /\ requests' = [requests EXCEPT ![a] = requests[a] \ {r}]
          /\ UNCHANGED accepts /\ incidents' \subseteq incidents \union {"failed"}
      BY <2>5 DEF Settles
    <3>. QED  BY <1>6, <3>2, <3>3, <3>4
  <2>. QED  BY <1>2, <2>1, <2>2, <2>3, <2>4, <2>5 DEF HearSteps
<1>8. TableTypes'
  BY <1>2, <1>7 DEF DataTypes, TableTypes
<1>9. FdTypes'
  <2>1. \A b \in Agents : \A r \in requests'[b] : r.stat \in SocketOps => r.id \in Fds
    BY <1>7 DEF DataTypes, FdTypes
  <2>2. toAgent' = toAgent
    BY <1>2
  <2>3. \A b \in Agents : \A i \in 1 .. Len(toManager'[b]) : \E j \in 1 .. Len(toManager[b]) :
          toManager'[b][i] = toManager[b][j]
    <3>1. \A i \in 1 .. Len(toManager'[a]) : \E j \in 1 .. Len(toManager[a]) :
            toManager'[a][i] = toManager[a][j]
      BY <1>1
    <3>2. \A b \in Agents \ {a} : toManager'[b] = toManager[b]
      BY <1>1
    <3>. QED  BY <3>1, <3>2
  <2>4. \A b \in Agents : \A i \in 1 .. Len(toManager'[b]) : Proper(b, toManager'[b][i])
    <3>1. \A b \in Agents : \A j \in 1 .. Len(toManager[b]) : Proper(b, toManager[b][j])
      BY DEF DataTypes, FdTypes
    <3>. QED  BY <2>3, <3>1
  <2>5. \A b \in Agents : \A i \in 1 .. Len(toManager'[b]) : Proper(b, toManager[b][i])'
    BY <2>4 DEF Proper, Fds
  <2>. QED  BY <2>1, <2>2, <2>5 DEF DataTypes, FdTypes, Fds
<1>. QED  BY <1>3, <1>8, <1>9 DEF DataTypes

----------------------------------------
(* What the agents do keeps the types. *)

LEMMA AnswerFacts ==
  ASSUME NEW op \in AnswerOps \union {"ACCEPTED", "CLOSED"}, NEW id \in Nat, NEW f \in Nat,
         NEW t \in Threads, NEW ok \in BOOLEAN
  PROVE  /\ Answer(op, id, f, t, ok) \in Messages
         /\ Answer(op, id, f, t, ok).op = op /\ Answer(op, id, f, t, ok).id = id
         /\ Answer(op, id, f, t, ok).id_sock = f /\ Answer(op, id, f, t, ok).thread = t
         /\ Answer(op, id, f, t, ok).ok = ok
BY DEF Answer, Messages

\* The queue to velm after an answer.
LEMMA TellTypes ==
  ASSUME DataTypes, NEW a \in Agents, NEW m \in Messages, Proper(a, m), Tell(a, m)
  PROVE  /\ toManager' \in [Agents -> Seq(Messages)]
         /\ \A b \in Agents : \A i \in 1 .. Len(toManager'[b]) : Proper(b, toManager'[b][i])
<1>1. AgentTypes /\ \A b \in Agents : \A i \in 1 .. Len(toManager[b]) : Proper(b, toManager[b][i])
  BY DEF DataTypes, FdTypes
<1>2. /\ toManager' \in [Agents -> Seq(Messages)]
      /\ \A b \in Agents \ {a} : toManager'[b] = toManager[b]
      /\ \A i \in 1 .. Len(toManager[a]) : toManager'[a][i] = toManager[a][i]
      /\ toManager'[a][Len(toManager[a]) + 1] = m
      /\ \A i \in 1 .. Len(toManager'[a]) :
           i \in 1 .. Len(toManager[a]) \/ i = Len(toManager[a]) + 1
  BY <1>1, TellFacts
<1>3. \A i \in 1 .. Len(toManager'[a]) : Proper(a, toManager'[a][i])
  BY <1>1, <1>2
<1>. QED  BY <1>1, <1>2, <1>3

LEMMA ServeTypes ==
  ASSUME scenario \in Scenarios, DataTypes, NEW a \in Agents, Serve(a)
  PROVE  DataTypes'
<1>. DEFINE r == toAgent[a][1]
<1>1. AgentTypes /\ TableTypes /\ FdTypes
  BY DEF DataTypes
<1>2. /\ 1 \in 1 .. Len(toAgent[a]) /\ r \in Requests
      /\ ServeNew(a, r) \/ ServeSocket(a, r)
      /\ toAgent' \in [Agents -> Seq(Requests)]
      /\ \A b \in Agents \ {a} : toAgent'[b] = toAgent[b]
      /\ \A i \in 1 .. Len(toAgent'[a]) :
           toAgent'[a][i] = toAgent[a][i + 1] /\ i + 1 \in 1 .. Len(toAgent[a])
  BY <1>1, ServeFacts
<1>3. UNCHANGED <<scenario, threads, requestNo, tables>>
  BY DEF Serve
<1>4. /\ r.op \in AnswerOps /\ r.id \in Nat /\ r.thread \in Threads
      /\ r.op \in SocketOps => r.id \in Fds
  BY <1>1, <1>2 DEF FdTypes, Requests
<1>5. \A b \in Agents : \A i \in 1 .. Len(toAgent'[b]) :
        toAgent'[b][i].op \in SocketOps => toAgent'[b][i].id \in Fds
  <2>1. \A i \in 1 .. Len(toAgent[a]) : toAgent[a][i].op \in SocketOps => toAgent[a][i].id \in Fds
    BY <1>1 DEF FdTypes
  <2>2. \A i \in 1 .. Len(toAgent'[a]) : toAgent'[a][i].op \in SocketOps => toAgent'[a][i].id \in Fds
    BY <1>2, <2>1
  <2>. QED  BY <1>1, <1>2, <2>2 DEF FdTypes
<1>. DEFINE M == /\ toManager' \in [Agents -> Seq(Messages)]
                 /\ \A b \in Agents : \A i \in 1 .. Len(toManager'[b]) : Proper(b, toManager'[b][i])
            D == /\ fds' \in [Agents -> [Fds -> {FreeFd} \union SocketType]]
                 /\ backlog' \in [Ports -> Seq(Threads)] /\ closed' \in [Agents -> SUBSET Threads]
                 /\ failures' \in Nat
                 /\ incidents' \subseteq incidents \union {"stray", "refused"}
<1>6. M /\ D
  <2>. HIDE DEF r
  <2>1. Fds \subseteq Nat /\ 0 \in Nat
    BY DEF Fds
  <2>2. /\ fds \in [Agents -> [Fds -> {FreeFd} \union SocketType]]
        /\ backlog \in [Ports -> Seq(Threads)] /\ closed \in [Agents -> SUBSET Threads]
        /\ failures \in Nat
    BY <1>1 DEF AgentTypes
  <2>3. Conn(r.thread).port \in Ports
    BY <1>4, ScenarioFacts
  <2>4. ASSUME NEW id \in Nat, NEW f \in Nat, NEW ok \in BOOLEAN,
               Tell(a, Answer(r.op, id, f, r.thread, ok)),
               r.op \in SocketOps => id \in Fds /\ f = id, ok => f \in Fds
        PROVE  M
    <3>. DEFINE m == Answer(r.op, id, f, r.thread, ok)
    <3>1. m \in Messages /\ m.op = r.op /\ m.id = id /\ m.id_sock = f /\ m.ok = ok
      BY <1>4, AnswerFacts
    <3>2. m.op \notin {"CLOSED", "ACCEPTED"}
      BY <1>4, <3>1 DEF AnswerOps, Stats, SocketOps
    <3>. HIDE DEF m
    <3>3. Proper(a, m)
      BY <2>4, <3>1, <3>2 DEF Proper
    <3>4. Tell(a, m)
      BY <2>4 DEF m
    <3>. QED  BY <3>1, <3>3, <3>4, TellTypes
  <2>5. CASE r.op \in NewOps
    <3>1. r.op \notin SocketOps
      BY <2>5 DEF NewOps, SocketOps
    <3>2. UNCHANGED <<backlog, closed, incidents>>
      BY <1>1, <1>2, <2>5, NewCases
    <3>3. CASE Declines(a, r)
      <4>1. M
        BY <1>4, <2>1, <2>4, <3>1, <3>3 DEF Declines
      <4>. QED  BY <2>2, <3>2, <3>3, <4>1 DEF Declines
    <3>4. ASSUME NEW f \in Fds, NEW k \in {"tcp", "udp", "listen"}, Creates(a, r, f, k)
          PROVE  M /\ D
      <4>1. M
        BY <1>4, <2>1, <2>4, <3>1, <3>4 DEF Creates
      <4>2. Socket(k, r.thread, r.id) \in SocketType
        BY <1>4, NewSocketFacts
      <4>3. fds' \in [Agents -> [Fds -> {FreeFd} \union SocketType]]
        BY <1>1, <3>4, <4>2, PutFacts DEF Creates
      <4>. QED  BY <2>2, <3>2, <3>4, <4>1, <4>3 DEF Creates
    <3>. HIDE DEF M, D
    <3>. QED  BY <1>1, <1>2, <2>5, <3>3, <3>4, NewCases
  <2>6. CASE r.op \in SocketOps
    <3>. DEFINE s == fds[a][r.id]
                port == Conn(r.thread).port
    <3>1. r.id \in Fds
      BY <1>4, <2>6
    <3>2. UNCHANGED failures /\ incidents' \subseteq incidents \union {"stray", "refused"}
      BY <1>1, <1>2, <2>6, <3>1, SocketCases
    <3>3. ASSUME NEW ok \in BOOLEAN, Tell(a, Answer(r.op, r.id, r.id, r.thread, ok)) PROVE M
      BY <1>4, <2>4, <3>1, <3>3
    <3>4. CASE Misses(a, r)
      BY <2>2, <3>2, <3>3, <3>4 DEF Misses
    <3>5. CASE Dials(a, r)
      <4>1. (s.kind = "udp" \/ ListensAt(port)) \in BOOLEAN
        OBVIOUS
      <4>2. M
        BY <3>3, <3>5, <4>1 DEF Dials
      <4>3. Append(backlog[port], r.thread) \in Seq(Threads)
        BY <1>4, <2>2, <2>3, AppendFacts
      <4>4. backlog' \in [Ports -> Seq(Threads)]
        BY <2>2, <2>3, <3>5, <4>3 DEF Dials
      <4>. QED  BY <2>2, <3>2, <3>5, <4>2, <4>4 DEF Dials
    <3>6. CASE s # FreeFd /\ Reads(a, r)
      <4>1. s \in SocketType
        BY <1>1, <3>1, <3>6, SocketFacts
      <4>2. [s EXCEPT !.reads = TRUE] \in SocketType
        BY <4>1 DEF SocketType
      <4>3. fds' \in [Agents -> [Fds -> {FreeFd} \union SocketType]]
        BY <1>1, <3>1, <3>6, <4>2, PutFacts DEF Reads
      <4>. QED  BY <2>2, <3>2, <3>3, <3>6, <4>3 DEF Reads
    <3>7. CASE s # FreeFd /\ Begins(a, r)
      <4>1. s \in SocketType
        BY <1>1, <3>1, <3>7, SocketFacts
      <4>2. [s EXCEPT !.busy = r.op] \in SocketType
        BY <3>7, <4>1 DEF SocketType, Begins
      <4>3. fds' \in [Agents -> [Fds -> {FreeFd} \union SocketType]]
        BY <1>1, <3>1, <3>7, <4>2, PutFacts DEF Begins
      <4>4. M
        BY <1>1, <3>7 DEF AgentTypes, FdTypes, Begins
      <4>. QED  BY <2>2, <3>2, <3>7, <4>3, <4>4 DEF Begins
    <3>8. CASE s # FreeFd /\ Shuts(a, r)
      <4>1. s.thread \in Threads
        BY <1>1, <3>1, <3>8, SocketFacts
      <4>2. closed' \in [Agents -> SUBSET Threads]
        BY <2>2, <3>8, <4>1 DEF Shuts
      <4>3. fds' \in [Agents -> [Fds -> {FreeFd} \union SocketType]]
        BY <1>1, <3>1, <3>8, PutFacts DEF Shuts
      <4>. QED  BY <2>2, <3>2, <3>3, <3>8, <4>2, <4>3 DEF Shuts
    <3>. HIDE DEF M, D
    <3>. QED  BY <1>1, <1>2, <2>6, <3>1, <3>4, <3>5, <3>6, <3>7, <3>8, SocketCases
  <2>. QED  BY <1>4, <2>5, <2>6 DEF AnswerOps, Stats, NewOps
<1>. HIDE DEF r
<1>7. TableTypes'
  BY <1>1, <1>3, <1>6 DEF TableTypes, tables
<1>8. AgentTypes'
  BY <1>2, <1>6 DEF AgentTypes
<1>9. FdTypes'
  <2>1. UNCHANGED requests
    BY <1>3 DEF tables
  <2>2. \A b \in Agents : \A i \in 1 .. Len(toManager'[b]) : Proper(b, toManager[b][i])'
    BY <1>6 DEF Proper, Fds
  <2>. QED  BY <1>1, <1>5, <2>1, <2>2 DEF FdTypes, Fds
<1>. QED  BY <1>7, <1>8, <1>9 DEF DataTypes

\* An agent tells velm something and leaves its requests and tables as they are.
LEMMA AgentTells ==
  ASSUME DataTypes, NEW a \in Agents, NEW m \in Messages, Proper(a, m), Tell(a, m),
         fds' \in [Agents -> [Fds -> {FreeFd} \union SocketType]],
         backlog' \in [Ports -> Seq(Threads)], closed' \in [Agents -> SUBSET Threads],
         UNCHANGED <<requestNo, tables, toAgent, failures, incidents>>
  PROVE  DataTypes'
<1>1. AgentTypes /\ TableTypes /\ FdTypes
  BY DEF DataTypes
<1>2. /\ toManager' \in [Agents -> Seq(Messages)]
      /\ \A b \in Agents : \A i \in 1 .. Len(toManager'[b]) : Proper(b, toManager'[b][i])
  BY TellTypes
<1>3. TableTypes'
  BY <1>1 DEF TableTypes, tables
<1>4. AgentTypes'
  BY <1>1, <1>2 DEF AgentTypes
<1>5. FdTypes'
  <2>1. UNCHANGED <<requests, toAgent>>
    BY DEF tables
  <2>2. \A b \in Agents : \A i \in 1 .. Len(toManager'[b]) : Proper(b, toManager[b][i])'
    BY <1>2 DEF Proper, Fds
  <2>. QED  BY <1>1, <2>1, <2>2 DEF FdTypes, Fds
<1>. QED  BY <1>3, <1>4, <1>5 DEF DataTypes

LEMMA ReportTypes ==
  ASSUME DataTypes, NEW a \in Agents, NEW f \in Fds, Report(a, f)
  PROVE  DataTypes'
<1>. DEFINE s == fds[a][f]
            m == Answer(s.busy, f, f, s.thread, TRUE)
<1>1. /\ AgentTypes /\ TableTypes /\ FdTypes /\ s # FreeFd /\ s.busy # "no"
      /\ Tell(a, m) /\ fds' = [fds EXCEPT ![a][f] = [s EXCEPT !.busy = "no"]]
      /\ UNCHANGED <<scenario, threads, requestNo, tables, toAgent, backlog, closed, failures, incidents>>
  BY DEF DataTypes, Report
<1>2. s \in SocketType /\ s.thread \in Threads /\ s.busy \in {"SEND", "RECVTERM"}
  BY <1>1, SocketFacts
<1>3. f \in Nat /\ s.busy \in AnswerOps
  BY <1>2 DEF Fds, AnswerOps, Stats, SocketOps
<1>4. m \in Messages /\ m.op = s.busy /\ m.id = f /\ m.id_sock = f
  <2>. HIDE DEF s
  <2>1. s.busy \in AnswerOps \union {"ACCEPTED", "CLOSED"} /\ TRUE \in BOOLEAN
    BY <1>3
  <2>. QED  BY <1>2, <1>3, <2>1 DEF Answer, Messages
<1>. HIDE DEF m
<1>5. Proper(a, m)
  BY <1>2, <1>4 DEF Proper
<1>6. [s EXCEPT !.busy = "no"] \in SocketType
  BY <1>2 DEF SocketType
<1>7. fds' \in [Agents -> [Fds -> {FreeFd} \union SocketType]]
  BY <1>1, <1>6, PutFacts
<1>8. backlog' \in [Ports -> Seq(Threads)] /\ closed' \in [Agents -> SUBSET Threads]
  BY <1>1 DEF AgentTypes
<1>. QED  BY <1>1, <1>4, <1>5, <1>7, <1>8, AgentTells

LEMMA AcceptFacts ==
  ASSUME scenario \in Scenarios, AgentTypes, NEW f \in Fds, Accept(f)
  PROVE  /\ fds[Server][f] # FreeFd /\ fds[Server][f].kind = "listen"
         /\ fds[Server][f].thread \in Threads /\ fds[Server][f].id_req \in Nat
         /\ PortOf(f) \in Ports
         /\ backlog[PortOf(f)] # <<>> /\ 1 \in 1 .. Len(backlog[PortOf(f)]) /\ FirstAt(PortOf(f)) \in Threads
         /\ backlog' \in [Ports -> Seq(Threads)]
         /\ \A p \in Ports \ {PortOf(f)} : backlog'[p] = backlog[p]
         /\ \A i \in 1 .. Len(backlog'[PortOf(f)]) :
              /\ backlog'[PortOf(f)][i] = backlog[PortOf(f)][i + 1]
              /\ i + 1 \in 1 .. Len(backlog[PortOf(f)])
         /\ \E g \in Fds : Accepts(f, g)
         /\ UNCHANGED <<scenario, threads, requestNo, tables, toAgent, closed, failures, incidents>>
<1>. DEFINE l == fds[Server][f]
            port == PortOf(f)
<1>1. Server \in Agents
  BY DEF Agents
<1>2. l.kind = "listen"
  BY DEF Accept
<1>3. l # FreeFd
  BY <1>2 DEF FreeFd
<1>4. l.thread \in Threads /\ l.id_req \in Nat
  BY <1>1, <1>3, SocketFacts
<1>5. port \in Ports
  BY <1>4, ScenarioFacts DEF PortOf
<1>6. /\ backlog[port] # <<>> /\ backlog' = [backlog EXCEPT ![port] = Tail(backlog[port])]
      /\ \E g \in Fds :
           /\ Lowest(Server, g)
           /\ fds' = [fds EXCEPT ![Server][g] = Socket("tcp", Head(backlog[port]), 0)]
           /\ Tell(Server, Answer("ACCEPTED", l.id_req, g, Head(backlog[port]), TRUE))
      /\ UNCHANGED <<scenario, threads, requestNo, tables, toAgent, closed, failures, incidents>>
  BY DEF Accept, PortOf
<1>7. backlog \in [Ports -> Seq(Threads)]
  BY DEF AgentTypes
<1>. HIDE DEF port
<1>8. backlog[port] \in Seq(Threads) /\ backlog'[port] = Tail(backlog[port])
  BY <1>5, <1>6, <1>7
<1>9. /\ Tail(backlog[port]) \in Seq(Threads) /\ Head(backlog[port]) = backlog[port][1]
      /\ backlog[port][1] \in Threads /\ Len(backlog[port]) \in Nat \ {0}
      /\ \A i \in 1 .. Len(Tail(backlog[port])) :
           Tail(backlog[port])[i] = backlog[port][i + 1] /\ i + 1 \in 1 .. Len(backlog[port])
  BY <1>6, <1>8, TailFacts
<1>10. backlog' \in [Ports -> Seq(Threads)] /\ \A p \in Ports \ {port} : backlog'[p] = backlog[p]
  BY <1>5, <1>6, <1>7, <1>9
<1>11. PICK g \in Fds :
           /\ Lowest(Server, g)
           /\ fds' = [fds EXCEPT ![Server][g] = Socket("tcp", Head(backlog[port]), 0)]
           /\ Tell(Server, Answer("ACCEPTED", l.id_req, g, Head(backlog[port]), TRUE))
  BY <1>6
<1>12. Head(backlog[port]) = FirstAt(port)
  BY <1>9 DEF FirstAt
<1>13. Accepts(f, g)
  BY <1>11, <1>12 DEF Lowest, Accepts, port
<1>14. FirstAt(port) \in Threads
  BY <1>9 DEF FirstAt
<1>. QED  BY <1>2, <1>3, <1>4, <1>5, <1>6, <1>8, <1>9, <1>10, <1>13, <1>14 DEF port

LEMMA AcceptTypes ==
  ASSUME scenario \in Scenarios, DataTypes, NEW f \in Fds, Accept(f)
  PROVE  DataTypes'
<1>. DEFINE l == fds[Server][f]
            t == FirstAt(PortOf(f))
<1>1. AgentTypes /\ TableTypes /\ FdTypes /\ Server \in Agents
  BY DEF DataTypes, Agents
<1>2. /\ t \in Threads /\ l.id_req \in Nat /\ backlog' \in [Ports -> Seq(Threads)]
      /\ \E g \in Fds : Accepts(f, g)
      /\ UNCHANGED <<scenario, threads, requestNo, tables, toAgent, closed, failures, incidents>>
  BY <1>1, AcceptFacts
<1>3. PICK g \in Fds :
           /\ fds' = [fds EXCEPT ![Server][g] = Socket("tcp", t, 0)]
           /\ Tell(Server, Answer("ACCEPTED", l.id_req, g, t, TRUE))
  BY <1>2 DEF Accepts
<1>. HIDE DEF t, l
<1>. DEFINE m == Answer("ACCEPTED", l.id_req, g, t, TRUE)
<1>4. m \in Messages /\ m.op = "ACCEPTED" /\ m.id_sock = g /\ m.ok = TRUE
  <2>1. "ACCEPTED" \in AnswerOps \union {"ACCEPTED", "CLOSED"} /\ g \in Nat /\ TRUE \in BOOLEAN
    BY DEF Fds
  <2>. QED  BY <1>2, <2>1 DEF Answer, Messages
<1>5. Tell(Server, m)
  BY <1>3
<1>. HIDE DEF m
<1>6. Proper(Server, m)
  BY <1>4 DEF Proper, SocketOps
<1>7. Socket("tcp", t, 0) \in SocketType
  BY <1>2, NewSocketFacts
<1>8. fds' \in [Agents -> [Fds -> {FreeFd} \union SocketType]]
  BY <1>1, <1>3, <1>7, PutFacts
<1>9. closed' \in [Agents -> SUBSET Threads]
  BY <1>1, <1>2 DEF AgentTypes
<1>. QED  BY <1>1, <1>2, <1>4, <1>5, <1>6, <1>8, <1>9, AgentTells

LEMMA EndTypes ==
  ASSUME DataTypes, NEW a \in Agents, NEW f \in Fds, EndOfStream(a, f)
  PROVE  DataTypes'
<1>. DEFINE s == fds[a][f]
            m == Answer("CLOSED", f, f, s.thread, TRUE)
<1>1. /\ AgentTypes /\ TableTypes /\ FdTypes /\ s # FreeFd
      /\ Tell(a, m) /\ fds' = [fds EXCEPT ![a][f] = FreeFd]
      /\ closed' = [closed EXCEPT ![a] = closed[a] \union {s.thread}]
      /\ UNCHANGED <<scenario, threads, requestNo, tables, toAgent, backlog, failures, incidents>>
  BY DEF DataTypes, EndOfStream
<1>2. s.thread \in Threads
  BY <1>1, SocketFacts
<1>3. m \in Messages /\ m.op = "CLOSED" /\ m.id = f /\ m.id_sock = f
  <2>1. "CLOSED" \in AnswerOps \union {"ACCEPTED", "CLOSED"} /\ f \in Nat /\ TRUE \in BOOLEAN
    BY DEF Fds
  <2>. HIDE DEF s
  <2>. QED  BY <1>2, <2>1 DEF Answer, Messages
<1>. HIDE DEF m
<1>4. Proper(a, m)
  BY <1>3 DEF Proper
<1>5. fds' \in [Agents -> [Fds -> {FreeFd} \union SocketType]]
  BY <1>1, PutFacts
<1>6. backlog' \in [Ports -> Seq(Threads)] /\ closed' \in [Agents -> SUBSET Threads]
  BY <1>1, <1>2 DEF AgentTypes
<1>. QED  BY <1>1, <1>3, <1>4, <1>5, <1>6, AgentTells

----------------------------------------
(* Every step leaves the threads that wait where they are, but for those   *)
(* that it wakes.                                                          *)

LEMMA PastGrows ==
  ASSUME ThreadTypes, scenario' = scenario, ThreadTypes', NEW u \in Threads, Monotone(u)
  PROVE  \A k \in Nat : Past(u, k) => Past(u, k)'
<1>1. Program(u)' = Program(u)
  BY DEF Program
<1>2. /\ stmtPos[u] \in Nat /\ step[u] \in Nat
      /\ stmtPos'[u] \in Nat /\ step'[u] \in Nat
  BY DEF ThreadTypes
<1>3. ASSUME NEW k \in Nat, NEW i \in 1 .. Len(Program(u)), Program(u)[i].kind = "connect",
             i < stmtPos[u] \/ (i = stmtPos[u] /\ step[u] > k)
      PROVE  i < stmtPos'[u] \/ (i = stmtPos'[u] /\ step'[u] > k)
  BY <1>2, <1>3, ScenarioFacts DEF Monotone, ThreadTypes
<1>. QED  BY <1>1, <1>3 DEF Past

\* Within a connect, its own step tells.
LEMMA PastAt ==
  ASSUME ThreadTypes, NEW u \in Threads, Stands(u), Current(u).kind = "connect", NEW k \in Nat
  PROVE  Past(u, k) <=> step[u] > k
<1>1. stmtPos[u] \in 1 .. Len(Program(u))
  BY StandsFacts
<1>2. Program(u)[stmtPos[u]].kind = "connect"
  BY DEF Current
<1>3. \A i \in 1 .. Len(Program(u)) : Program(u)[i].kind = "connect" => i = stmtPos[u]
  BY <1>1, <1>2, ScenarioFacts DEF ThreadTypes
<1>. QED  BY <1>1, <1>2, <1>3 DEF Past

\* The waits of threads that stay where they are.
LEMMA SyncStill ==
  ASSUME SyncInv, scenario' = scenario, fired \subseteq fired',
         NEW e \in Events, e \notin fired', NEW u \in Threads, u \in Members[e] \ waitfor[e], Still(u)
  PROVE  Waits(u, "velm", "sync")' /\ (Current(u).event)' = e
<1>1. Waits(u, "velm", "sync") /\ Current(u).event = e
  BY DEF SyncInv
<1>. QED  BY <1>1, StillFacts

LEMMA MemberFacts ==
  ASSUME NEW e \in Events
  PROVE  Members[e] \subseteq Threads
BY ManagerAssumption

LEMMA StillMonotone ==
  ASSUME ThreadTypes, NEW u \in Threads, Still(u)
  PROVE  Monotone(u)
BY DEF Still, Monotone, ThreadTypes

LEMMA OperationPlaces ==
  ASSUME ThreadTypes, PlaceInv, NEW t, Operation(t)
  PROVE  /\ scenario' = scenario /\ ThreadTypes' /\ ResumeInv' /\ StepInv' /\ SyncInv'
         /\ t \in Threads /\ InResume(t)
         /\ \A u \in Threads \ {t} : Still(u)
         /\ \A u \in Threads : Monotone(u)
<1>1. ResumeInv /\ StepInv /\ SyncInv
  BY DEF PlaceInv
<1>2. /\ ThreadTypes' /\ ResumeInv' /\ StepInv'
      /\ t \in Threads /\ InResume(t) /\ t = Head(resume) /\ resume # <<>>
      /\ \A u \in Threads \ {t} : Still(u)
      /\ stmtPos'[t] >= stmtPos[t]
      /\ stmtPos'[t] = stmtPos[t] => step'[t] >= step[t]
  BY <1>1, OperationMoves
<1>3. scenario' = scenario
  BY OperationThreads
<1>4. \A u \in Threads : Monotone(u)
  BY <1>2, StillMonotone DEF Monotone
<1>5. SyncInv'
  <2>. SUFFICES ASSUME NEW e \in Events, e \notin fired', NEW u \in Members[e] \ waitfor'[e]
                PROVE  Waits(u, "velm", "sync")' /\ (Current(u).event)' = e
    BY DEF SyncInv
  <2>1. u \in Threads
    BY MemberFacts
  <2>2. CASE UNCHANGED <<waitfor, fired>>
    <3>1. Waits(u, "velm", "sync")
      BY <1>1, <2>2 DEF SyncInv
    <3>2. u # t
      BY <1>2, <3>1 DEF Waits
    <3>. QED  BY <1>1, <1>2, <1>3, <2>1, <2>2, <3>2, SyncStill
  <2>3. CASE OpSync(t) /\ ~UNCHANGED <<waitfor, fired>>
    <3>. DEFINE d == Program(t)[stmtPos[t]].event
    <3>1. /\ At(t, <<"velm", "sync">>) /\ d \notin fired /\ t \in waitfor[d]
          /\ waitfor' = [waitfor EXCEPT ![d] = waitfor[d] \ {t}]
          /\ resume' = Tail(resume) /\ stmtPos' = stmtPos /\ step' = step
          /\ aborted' = aborted /\ fired' = fired
      BY <2>3 DEF OpSync, Abort
    <3>2. CASE u \in Members[e] \ waitfor[e]
      <4>1. Waits(u, "velm", "sync")
        BY <1>1, <3>1, <3>2 DEF SyncInv
      <4>2. u # t
        BY <1>2, <4>1 DEF Waits
      <4>. QED  BY <1>1, <1>2, <1>3, <2>1, <3>1, <3>2, <4>2, SyncStill
    <3>3. CASE u \notin Members[e] \ waitfor[e]
      <4>1. u = t /\ e = d
        BY <3>1, <3>3 DEF ThreadTypes
      <4>2. ~InResume(t)'
        BY <1>1, <1>2, <3>1, LeaveFacts
      <4>3. /\ Stands(t) /\ step[t] <= Len(Ops(t)) /\ Ops(t)[step[t]] = <<"velm", "sync">>
            /\ t \notin aborted /\ Len(Ops(t)) \in Nat
        BY <3>1, AtFacts DEF At, Ops, Current
      <4>4. Program(t)' = Program(t)
        BY <1>3 DEF Program
      <4>5. (Stands(t)' <=> Stands(t)) /\ Ops(t)' = Ops(t) /\ Current(t)' = Current(t)
        BY <3>1, <4>4 DEF Stands, Ops, Current
      <4>6. Current(t).event = d
        BY DEF Current
      <4>. HIDE DEF d, Ops
      <4>. QED  BY <3>1, <4>1, <4>2, <4>3, <4>5, <4>6 DEF Waits
    <3>. QED  BY <3>2, <3>3
  <2>4. UNCHANGED <<waitfor, fired>> \/ OpSync(t)
    BY OperationThreads DEF Wait, Skip, Abort, StatementEnds
  <2>. QED  BY <2>2, <2>3, <2>4
<1>. QED  BY <1>2, <1>3, <1>4, <1>5

LEMMA RestPlaces ==
  ASSUME ThreadTypes, PlaceInv, ThreadRests
  PROVE  /\ scenario' = scenario /\ ThreadTypes' /\ ResumeInv' /\ StepInv' /\ SyncInv'
         /\ \A u \in Threads : InResume(u) \/ Still(u)
         /\ \A u \in Threads : Monotone(u)
<1>1. ResumeInv /\ StepInv /\ SyncInv
  BY DEF PlaceInv
<1>2. /\ ThreadTypes' /\ ResumeInv' /\ StepInv'
      /\ stmtPos' = stmtPos /\ step' = step
      /\ waitfor' = waitfor /\ fired' = fired /\ scenario' = scenario
      /\ InResume(Head(resume))
      /\ \A u \in Threads : u # Head(resume) => Still(u)
  BY <1>1, RestMoves
<1>3. \A u \in Threads : Monotone(u)
  BY <1>2 DEF Monotone, ThreadTypes
<1>4. SyncInv'
  <2>. SUFFICES ASSUME NEW e \in Events, e \notin fired', NEW u \in Members[e] \ waitfor'[e]
                PROVE  Waits(u, "velm", "sync")' /\ (Current(u).event)' = e
    BY DEF SyncInv
  <2>1. u \in Threads
    BY MemberFacts
  <2>2. Waits(u, "velm", "sync")
    BY <1>1, <1>2 DEF SyncInv
  <2>3. u # Head(resume)
    BY <1>2, <2>2 DEF Waits
  <2>. QED  BY <1>1, <1>2, <2>1, <2>3, SyncStill
<1>. QED  BY <1>2, <1>3, <1>4

\* As many different threads as there are: all of them.
LEMMA AllIn ==
  ASSUME NEW S, IsFiniteSet(S), NEW f \in [1 .. Cardinality(S) -> S],
         \A i, j \in 1 .. Cardinality(S) : f[i] = f[j] => i = j
  PROVE  \A u \in S : \E i \in 1 .. Cardinality(S) : f[i] = u
<1>1. SUFFICES ASSUME NEW u \in S, ~\E i \in 1 .. Cardinality(S) : f[i] = u PROVE FALSE
  OBVIOUS
<1>2. PICK n \in Nat : n = Cardinality(S)
  BY FS_CardinalityType
<1>3. IsFiniteSet(1 .. n) /\ Cardinality(1 .. n) = n
  BY FS_Interval
<1>4. IsFiniteSet(S \ {u}) /\ Cardinality(S \ {u}) = n - 1
  BY <1>2, FS_RemoveElement
<1>5. f \in [1 .. n -> S \ {u}]
  BY <1>1, <1>2
<1>6. \E x, y \in 1 .. n : x # y /\ f[x] = f[y]
  <2>1. PICK A : A = 1 .. n
    OBVIOUS
  <2>2. PICK B : B = S \ {u}
    OBVIOUS
  <2>3. IsFiniteSet(A) /\ IsFiniteSet(B) /\ Cardinality(B) < Cardinality(A)
    BY <1>3, <1>4, <2>1, <2>2
  <2>4. f \in [A -> B]
    BY <1>5, <2>1, <2>2
  <2>5. \E x, y \in A : x # y /\ f[x] = f[y]
    BY <2>3, <2>4, FS_PigeonHole
  <2>. QED  BY <2>1, <2>5
<1>. QED  BY <1>2, <1>6

\* All that have reached the event go on.
LEMMA FirePlaces ==
  ASSUME ThreadTypes, PlaceInv, NEW e \in Events, SyncFires(e)
  PROVE  /\ scenario' = scenario /\ ThreadTypes' /\ ResumeInv' /\ StepInv' /\ SyncInv'
         /\ resume = <<>> /\ stmtPos' = stmtPos /\ aborted' = aborted /\ waitfor' = waitfor
         /\ e \notin fired /\ waitfor[e] = {} /\ fired' = fired \union {e}
         /\ \A u \in Threads : Still(u) \/
              (u \in Members[e] /\ Waits(u, "velm", "sync") /\ Current(u).event = e
                 /\ step'[u] = step[u] + 1 /\ InResume(u)')
         /\ \A u \in Members[e] : InResume(u)'
         /\ \A u \in Threads : Monotone(u)
<1>. DEFINE S == Members[e] \ waitfor[e]
            n == Cardinality(S)
<1>1. ResumeInv /\ StepInv /\ SyncInv
  BY DEF PlaceInv
<1>2. /\ Idle /\ e \notin fired /\ waitfor[e] = {} /\ fired' = fired \union {e}
      /\ waitfor' = waitfor /\ scenario' = scenario
      /\ \E order \in [1 .. n -> S] :
           (\A i, j \in DOMAIN order : order[i] = order[j] => i = j) /\ Complete(order)
  BY DEF SyncFires, AllHere
<1>3. S \in SUBSET Threads /\ n \in Nat /\ IsFiniteSet(S)
  <2>1. S \in SUBSET Threads
    BY MemberFacts
  <2>. QED  BY <2>1, ManagerAssumption, FS_Subset, FS_CardinalityType
<1>4. \A u \in S : /\ Waits(u, "velm", "sync") /\ Current(u).event = e
                   /\ step[u] \in 1 .. 4 /\ u \notin aborted
  BY <1>1, <1>2, <1>3, WaitsFacts DEF SyncInv
<1>5. resume = <<>>
  BY <1>2 DEF Idle
<1>6. fired' \subseteq Events
  BY <1>2 DEF ThreadTypes
<1>. HIDE DEF n, S
<1>7. PICK order \in [1 .. n -> S] :
        (\A i, j \in DOMAIN order : order[i] = order[j] => i = j) /\ Complete(order)
  BY <1>2
<1>8. \A i, j \in 1 .. n : order[i] = order[j] => i = j
  BY <1>7
<1>9. /\ ThreadTypes' /\ ResumeInv' /\ StepInv'
      /\ stmtPos' = stmtPos /\ aborted' = aborted
      /\ \A u \in Threads :
           \/ /\ \E i \in 1 .. n : order[i] = u
              /\ step'[u] = step[u] + 1 /\ InResume(u)' /\ u \in S
           \/ (\A i \in 1 .. n : order[i] # u) /\ Still(u)
  BY <1>1, <1>2, <1>3, <1>4, <1>5, <1>6, <1>7, <1>8, CompleteFacts
<1>10. \A u \in Threads : Still(u) \/
              (u \in Members[e] /\ Waits(u, "velm", "sync") /\ Current(u).event = e
                 /\ step'[u] = step[u] + 1 /\ InResume(u)')
  BY <1>4, <1>9 DEF S
<1>11. \A u \in Threads : Monotone(u)
  <2>. SUFFICES ASSUME NEW u \in Threads PROVE Monotone(u)
    OBVIOUS
  <2>1. step[u] \in Nat /\ stmtPos[u] \in Nat
    BY DEF ThreadTypes
  <2>2. CASE Still(u)
    BY <2>2, StillMonotone
  <2>3. CASE step'[u] = step[u] + 1
    BY <1>9, <2>1, <2>3 DEF Monotone
  <2>. QED  BY <1>10, <2>2, <2>3
<1>12. SyncInv'
  <2>. SUFFICES ASSUME NEW d \in Events, d \notin fired', NEW u \in Members[d] \ waitfor'[d]
                PROVE  Waits(u, "velm", "sync")' /\ (Current(u).event)' = d
    BY DEF SyncInv
  <2>1. u \in Threads
    BY MemberFacts
  <2>2. Current(u).event = d /\ d # e
    BY <1>1, <1>2 DEF SyncInv
  <2>3. Still(u)
    BY <1>10, <2>1, <2>2
  <2>. QED  BY <1>1, <1>2, <2>1, <2>3, SyncStill
<1>13. \A u \in Members[e] : InResume(u)'
  <2>1. \A u \in S : \E i \in 1 .. n : order[i] = u
    BY <1>3, <1>8, AllIn DEF n
  <2>2. \A u \in Members[e] : u \in S
    BY <1>2 DEF S
  <2>. QED  BY <1>3, <1>9, <2>1, <2>2
<1>. QED  BY <1>2, <1>5, <1>9, <1>10, <1>11, <1>12, <1>13

\* A thread that does not wait for an event goes on, or gives up.
LEMMA WakePlaces ==
  ASSUME ThreadTypes, PlaceInv, scenario' = scenario, UNCHANGED <<waitfor, fired>>, resume = <<>>,
         NEW t \in Threads, NEW end, NEW op, Waits(t, end, op), op # "sync",
         Complete(<<t>>) \/ Fail(t)
  PROVE  /\ ThreadTypes' /\ ResumeInv' /\ StepInv' /\ SyncInv'
         /\ stmtPos' = stmtPos
         /\ \A u \in Threads \ {t} : Still(u)
         /\ \A u \in Threads : Monotone(u)
         /\ Complete(<<t>>) => step'[t] = step[t] + 1 /\ InResume(t)' /\ aborted' = aborted
         /\ Fail(t) => step'[t] = step[t] /\ t \in aborted'
<1>1. ResumeInv /\ StepInv /\ SyncInv
  BY DEF PlaceInv
<1>2. step[t] \in 1 .. 4 /\ t \notin aborted
  BY WaitsFacts
<1>3. /\ ThreadTypes' /\ ResumeInv' /\ StepInv' /\ stmtPos' = stmtPos
      /\ \A u \in Threads \ {t} : Still(u)
      /\ step'[t] >= step[t]
      /\ Complete(<<t>>) => step'[t] = step[t] + 1 /\ InResume(t)' /\ aborted' = aborted
      /\ Fail(t) => step'[t] = step[t] /\ t \in aborted'
  <2>0. Complete(<<t>>) /\ Fail(t) => FALSE
    BY <1>2 DEF Complete, Fail
  <2>1. CASE Complete(<<t>>)
    BY <1>1, <1>2, <2>0, <2>1, CompleteOne
  <2>2. CASE Fail(t)
    BY <1>1, <1>2, <2>0, <2>2, FailFacts DEF Fail
  <2>. QED  BY <2>1, <2>2
<1>4. \A u \in Threads : Monotone(u)
  BY <1>2, <1>3, StillMonotone DEF Monotone, ThreadTypes
<1>5. SyncInv'
  <2>. SUFFICES ASSUME NEW d \in Events, d \notin fired', NEW u \in Members[d] \ waitfor'[d]
                PROVE  Waits(u, "velm", "sync")' /\ (Current(u).event)' = d
    BY DEF SyncInv
  <2>1. u \in Threads
    BY MemberFacts
  <2>2. Waits(u, "velm", "sync")
    BY <1>1 DEF SyncInv
  <2>3. u # t
    BY <2>2, WaitsFacts
  <2>. QED  BY <1>1, <1>3, <2>1, <2>3, SyncStill
<1>. QED  BY <1>3, <1>4, <1>5

\* The timer of a delay.
LEMMA DelayPlaces ==
  ASSUME ThreadTypes, PlaceInv, NEW t \in Threads, DelayEnds(t)
  PROVE  /\ scenario' = scenario /\ ThreadTypes' /\ ResumeInv' /\ StepInv' /\ SyncInv'
         /\ waitfor' = waitfor /\ fired' = fired /\ stmtPos' = stmtPos
         /\ Waits(t, "velm", "delay") /\ resume = <<>>
         /\ \A u \in Threads \ {t} : Still(u)
         /\ \A u \in Threads : Monotone(u)
         /\ step'[t] = step[t] + 1 /\ InResume(t)' /\ aborted' = aborted
<1>1. /\ resume = <<>> /\ t \notin aborted /\ ~(stmtPos[t] > Len(Program(t)))
      /\ Program(t)[stmtPos[t]].kind = "delay" /\ step[t] = 1
      /\ Complete(<<t>>) /\ UNCHANGED <<waitfor, fired>> /\ scenario' = scenario
  BY DEF DelayEnds, Idle, Ended
<1>2. Stands(t)
  BY <1>1, ScenarioFacts DEF Stands, ThreadTypes
<1>3. ~InResume(t)
  BY <1>1 DEF InResume
<1>4. Ops(t) = <<<<"velm", "delay">>>>
  BY <1>1 DEF Ops, Current, StepsOf
<1>5. Waits(t, "velm", "delay")
  BY <1>1, <1>2, <1>3, <1>4 DEF Waits
<1>6. /\ ThreadTypes' /\ ResumeInv' /\ StepInv' /\ SyncInv' /\ stmtPos' = stmtPos
      /\ \A u \in Threads \ {t} : Still(u)
      /\ \A u \in Threads : Monotone(u)
      /\ step'[t] = step[t] + 1 /\ InResume(t)' /\ aborted' = aborted
  BY <1>1, <1>5, WakePlaces
<1>. QED  BY <1>1, <1>5, <1>6

\* The thread of a request that velm gets the answer to.
LEMMA AnsweredPlaces ==
  ASSUME ThreadTypes, PlaceInv, scenario' = scenario, UNCHANGED <<waitfor, fired>>, resume = <<>>,
         NEW a \in Agents, NEW r \in requests[a], r.thread \in Threads,
         Complete(<<r.thread>>) \/ Fail(r.thread)
  PROVE  /\ ThreadTypes' /\ ResumeInv' /\ StepInv' /\ SyncInv'
         /\ stmtPos' = stmtPos
         /\ \A u \in Threads \ {r.thread} : Still(u)
         /\ \A u \in Threads : Monotone(u)
         /\ WaitsAt(r.thread, a, r.stat)
         /\ Complete(<<r.thread>>) => step'[r.thread] = step[r.thread] + 1 /\ InResume(r.thread)' /\ aborted' = aborted
         /\ Fail(r.thread) => step'[r.thread] = step[r.thread] /\ r.thread \in aborted'
<1>1. WaitsAt(r.thread, a, r.stat)
  BY DEF PlaceInv, PendingInv
<1>2. PICK end \in {"client", "server"} : Waits(r.thread, end, r.stat)
  BY <1>1 DEF WaitsAt
<1>3. r.stat # "sync"
  BY <1>2, WaitsFacts DEF Stats, SocketOps
<1>. QED  BY <1>1, <1>2, <1>3, WakePlaces

\* Whatever moves no thread.
LEMMA UnmovedPlaces ==
  ASSUME ThreadTypes, PlaceInv, UNCHANGED <<scenario, threads>>
  PROVE  /\ ThreadTypes' /\ ResumeInv' /\ StepInv' /\ SyncInv'
         /\ \A u : Still(u)
         /\ \A u \in Threads : Monotone(u)
<1>1. ResumeInv /\ StepInv /\ SyncInv
  BY DEF PlaceInv
<1>2. /\ ThreadTypes' /\ ResumeInv' /\ StepInv' /\ \A u : Still(u)
      /\ waitfor' = waitfor /\ fired' = fired
  BY <1>1, UnmovedFacts
<1>3. SyncInv'
  <2>. SUFFICES ASSUME NEW d \in Events, d \notin fired', NEW u \in Members[d] \ waitfor'[d]
                PROVE  Waits(u, "velm", "sync")' /\ (Current(u).event)' = d
    BY DEF SyncInv
  <2>1. u \in Threads
    BY MemberFacts
  <2>. QED  BY <1>1, <1>2, <2>1, SyncStill
<1>. QED  BY <1>2, <1>3, StillMonotone

----------------------------------------
(* The tables: keys, the threads of the requests, and what the entries of  *)
(* connects_ say of their threads.                                         *)

LEMMA InitPlaces ==
  ASSUME Init
  PROVE  StateInv
<1>1. ThreadTypes
  BY InitTypes
<1>2. ResumeInv
  <2>1. PICK r \in [1 .. Cardinality(Threads) -> Threads] :
          resume = r /\ \A i, j \in DOMAIN r : r[i] = r[j] => i = j
    BY DEF Init
  <2>2. Cardinality(Threads) \in Nat
    BY ManagerAssumption, FS_CardinalityType
  <2>3. Len(resume) = Cardinality(Threads)
    BY <2>1, <2>2
  <2>4. aborted = {}
    BY DEF Init
  <2>. QED  BY <2>1, <2>3, <2>4 DEF ResumeInv
<1>3. StepInv
  <2>1. \A t \in Threads : step[t] = 1
    BY DEF Init
  <2>2. \A t \in Threads : Stands(t) => Len(Ops(t)) \in Nat \ {0}
    BY <1>1, StandsFacts
  <2>. QED  BY <2>1, <2>2 DEF StepInv
<1>4. SyncInv /\ PendingInv /\ KeyInv /\ SocketInv
  BY DEF Init, SyncInv, PendingInv, KeyInv, SocketInv
<1>. QED  BY <1>2, <1>3, <1>4 DEF StateInv, PlaceInv

\* A thread that has made its request waits at that step.
LEMMA AtWaits ==
  ASSUME ThreadTypes, ResumeInv, scenario' = scenario, NEW t, NEW end, NEW op,
         At(t, <<end, op>>), Wait
  PROVE  /\ Waits(t, end, op)'
         /\ \A a : end \in {"client", "server"} /\ a = AgentAt(end, t) => WaitsAt(t, a, op)'
<1>1. /\ Stands(t) /\ step[t] <= Len(Ops(t)) /\ Ops(t)[step[t]] = <<end, op>>
      /\ t \notin aborted /\ t = Head(resume) /\ resume # <<>>
  BY AtFacts DEF At, Ops, Current
<1>2. /\ resume' = Tail(resume) /\ stmtPos' = stmtPos /\ step' = step /\ aborted' = aborted
  BY DEF Wait
<1>3. ~InResume(t)'
  BY <1>1, <1>2, LeaveFacts
<1>4. Program(t)' = Program(t) /\ Conn(t)' = Conn(t)
  BY DEF Program, Conn
<1>5. (Stands(t)' <=> Stands(t)) /\ Ops(t)' = Ops(t)
  BY <1>2, <1>4 DEF Stands, Ops, Current
<1>6. Waits(t, end, op)'
  BY <1>1, <1>2, <1>3, <1>5 DEF Waits
<1>7. AgentAt(end, t)' = AgentAt(end, t)
  BY <1>4 DEF AgentAt
<1>. QED  BY <1>6, <1>7 DEF WaitsAt

\* Within a connect, after its own step.
LEMMA PastAfter ==
  ASSUME ThreadTypes, scenario' = scenario, NEW u \in Threads, Stands(u), Current(u).kind = "connect",
         stmtPos'[u] = stmtPos[u], NEW k \in Nat, step'[u] > k
  PROVE  Past(u, k)'
<1>1. stmtPos[u] \in 1 .. Len(Program(u)) /\ Program(u)' = Program(u)
  BY StandsFacts DEF Program
<1>2. Program(u)[stmtPos[u]].kind = "connect"
  BY DEF Current
<1>. QED  BY <1>1, <1>2 DEF Past

\* Requests stay whose threads do.
LEMMA PendingStill ==
  ASSUME PendingInv, TableTypes, scenario' = scenario,
         \A b \in Agents : requests'[b] \subseteq requests[b],
         \A b \in Agents : \A r \in requests'[b] : Still(r.thread)
  PROVE  PendingInv'
<1>. SUFFICES ASSUME NEW b \in Agents, NEW r \in requests'[b]
              PROVE  /\ WaitsAt(r.thread, b, r.stat)'
                     /\ r.stat = "ACCEPT" => (Conn(r.thread).protocol)' = "tcp"
                     /\ \A q \in requests'[b] : q.thread = r.thread => q = r
  BY DEF PendingInv, Agents
<1>1. r \in requests[b] /\ Still(r.thread) /\ r.thread \in Threads
  BY ElementFacts
<1>2. WaitsAt(r.thread, b, r.stat)'
  BY <1>1, StillFacts DEF PendingInv
<1>3. Conn(r.thread)' = Conn(r.thread)
  BY DEF Conn
<1>. QED  BY <1>1, <1>2, <1>3 DEF PendingInv

\* The thread that velm runs makes one more.
LEMMA PendingMore ==
  ASSUME ThreadTypes, PendingInv, TableTypes, scenario' = scenario,
         NEW t \in Threads, InResume(t), NEW a \in Agents, NEW new,
         \A u \in Threads \ {t} : Still(u),
         new.thread = t, WaitsAt(t, a, new.stat)', new.stat = "ACCEPT" => Conn(t).protocol = "tcp",
         requests'[a] \subseteq requests[a] \union {new},
         \A b \in Agents \ {a} : requests'[b] = requests[b]
  PROVE  PendingInv'
<1>1. \A b \in Agents : \A r \in requests[b] : r.thread \in Threads \ {t}
  <2>. SUFFICES ASSUME NEW b \in Agents, NEW r \in requests[b]
                PROVE  r.thread \in Threads \ {t}
    OBVIOUS
  <2>1. r.thread \in Threads /\ WaitsAt(r.thread, b, r.stat)
    BY ElementFacts DEF PendingInv
  <2>. QED  BY <2>1 DEF WaitsAt, Waits
<1>2. \A u : Conn(u)' = Conn(u)
  BY DEF Conn
<1>3. ASSUME NEW b \in Agents, NEW r \in requests[b]
      PROVE  /\ WaitsAt(r.thread, b, r.stat)'
             /\ r.stat = "ACCEPT" => (Conn(r.thread).protocol)' = "tcp"
             /\ \A q \in requests[b] : q.thread = r.thread => q = r
             /\ r.thread # t
  BY <1>1, <1>2, StillFacts DEF PendingInv
<1>. SUFFICES ASSUME NEW b \in Agents, NEW r \in requests'[b]
              PROVE  /\ WaitsAt(r.thread, b, r.stat)'
                     /\ r.stat = "ACCEPT" => (Conn(r.thread).protocol)' = "tcp"
                     /\ \A q \in requests'[b] : q.thread = r.thread => q = r
  BY DEF PendingInv, Agents
<1>4. CASE b # a
  BY <1>3, <1>4
<1>5. CASE b = a /\ r \in requests[a]
  BY <1>3, <1>5
<1>6. CASE b = a /\ r = new
  BY <1>2, <1>3, <1>6
<1>. QED  BY <1>4, <1>5, <1>6

\* What velm has learned of a socket stays learned.
LEMMA LearnedStays ==
  ASSUME ThreadTypes, ThreadTypes', scenario' = scenario, \A u \in Threads : Monotone(u),
         NEW a, NEW c, c.thread \in Threads, Learned(a, c)
  PROVE  Learned(a, c)'
<1>1. Conn(c.thread)' = Conn(c.thread)
  BY DEF Conn
<1>2. \A k \in Nat : Past(c.thread, k) => Past(c.thread, k)'
  BY PastGrows
<1>. QED  BY <1>1, <1>2 DEF Learned

LEMMA SocketShrinks ==
  ASSUME ThreadTypes, ThreadTypes', TableTypes, scenario' = scenario, \A u \in Threads : Monotone(u),
         SocketInv, \A a \in Agents : connects'[a] \subseteq connects[a]
  PROVE  SocketInv'
<1>. SUFFICES ASSUME NEW a \in Agents, NEW c \in connects'[a]
              PROVE  /\ Learned(a, c)'
                     /\ \A d \in connects'[a] :
                          c.thread = d.thread /\ (c.stat = "OPENED" <=> d.stat = "OPENED") => c = d
  BY DEF SocketInv, Agents
<1>1. c \in connects[a] /\ c.thread \in Threads /\ Learned(a, c)
  BY ElementFacts DEF SocketInv
<1>2. Learned(a, c)'
  BY <1>1, LearnedStays
<1>. QED  BY <1>1, <1>2 DEF SocketInv

\* One more socket, of a thread that had none of this kind.
LEMMA SocketGrows ==
  ASSUME ThreadTypes, ThreadTypes', TableTypes, scenario' = scenario, \A u \in Threads : Monotone(u),
         SocketInv, NEW a \in Agents, NEW new, new.thread \in Threads,
         Learned(a, new)',
         \A d \in connects[a] : d.thread = new.thread => ~(d.stat = "OPENED" <=> new.stat = "OPENED"),
         connects'[a] = connects[a] \union {new},
         \A b \in Agents \ {a} : connects'[b] = connects[b]
  PROVE  SocketInv'
<1>. SUFFICES ASSUME NEW b \in Agents, NEW c \in connects'[b]
              PROVE  /\ Learned(b, c)'
                     /\ \A d \in connects'[b] :
                          c.thread = d.thread /\ (c.stat = "OPENED" <=> d.stat = "OPENED") => c = d
  BY DEF SocketInv, Agents
<1>1. CASE c \in connects[b]
  <2>1. c.thread \in Threads /\ Learned(b, c)
    BY <1>1, ElementFacts DEF SocketInv
  <2>2. Learned(b, c)'
    BY <2>1, LearnedStays
  <2>. QED  BY <1>1, <2>2 DEF SocketInv
<1>2. CASE c = new /\ b = a
  BY <1>2
<1>. QED  BY <1>1, <1>2

----------------------------------------
(* The steps keep the tables in order. *)

LEMMA IssueState ==
  ASSUME ThreadTypes, DataTypes, StateInv, NEW t, Operation(t), NEW a, NEW id,
         NEW end \in {"client", "server"}, NEW op \in AnswerOps, Issues(t, a, end, op, id)
  PROVE  StateInv'
<1>. DEFINE new == Req(t, op, id)
<1>1. /\ scenario' = scenario /\ ThreadTypes' /\ ResumeInv' /\ StepInv' /\ SyncInv'
      /\ t \in Threads /\ InResume(t)
      /\ \A u \in Threads \ {t} : Still(u)
      /\ \A u \in Threads : Monotone(u)
  BY OperationPlaces DEF StateInv
<1>2. a \in Agents /\ id \in Nat
  BY IssueTypes
<1>3. ResumeInv /\ PendingInv /\ KeyInv /\ SocketInv /\ TableTypes
  BY DEF StateInv, PlaceInv, DataTypes
<1>4. op \in Stats /\ op # "ACCEPT"
  BY DEF AnswerOps
<1>5. /\ requests'[a] \subseteq requests[a] \union {new}
      /\ \A b \in Agents \ {a} : requests'[b] = requests[b]
      /\ \A r \in requests'[a] : r \in requests[a]
           \/ (r = new /\ Fresh(a, op, id))
  <2>1. Request(t, a, op, id) /\ t \in Threads /\ a \in Agents /\ op \in Stats /\ id \in Nat /\ TableTypes
    BY <1>1, <1>2, <1>3, <1>4 DEF Issues
  <2>. QED  BY ONLY <2>1, RequestFacts
<1>6. new.thread = t /\ new.id = id /\ new.stat = op
  BY ReqFacts
<1>. HIDE DEF new
<1>7. WaitsAt(t, a, op)'
  <2>1. At(t, <<end, op>>) /\ a = AgentAt(end, t) /\ Wait
    BY DEF Issues
  <2>. QED  BY <1>1, <1>3, <2>1, AtWaits
<1>8. PendingInv'
  BY <1>1, <1>2, <1>3, <1>4, <1>5, <1>6, <1>7, PendingMore
<1>9. KeyInv'
  <2>1. \A b \in Agents : \A r, q \in requests'[b] : r.id = q.id /\ r.stat = q.stat => r = q
    BY <1>3, <1>5, <1>6 DEF KeyInv, Fresh
  <2>2. \A k, l \in listens' : k.port = l.port => k = l
    <3>1. CASE UNCHANGED listens
      BY <1>3, <3>1 DEF KeyInv
    <3>2. CASE /\ ~Listening(Conn(t).port)
               /\ listens' = listens \union {[port |-> Conn(t).port, stat |-> "REQ_LISTEN", id_req |-> id]}
      BY <1>3, <3>2 DEF KeyInv, Listening
    <3>. QED  BY <3>1, <3>2 DEF Issues, NewOps
  <2>. QED  BY <2>1, <2>2 DEF KeyInv, Agents
<1>10. SocketInv'
  <2>1. CASE UNCHANGED connects
    BY <1>1, <1>3, <2>1, SocketShrinks
  <2>2. ASSUME NEW c \in Sockets(t, a, "CONNECTED"),
               connects' = [connects EXCEPT ![a] =
                              (connects[a] \ {c}) \union {[c EXCEPT !.stat = "CLOSING"]}]
        PROVE  SocketInv'
    <3>. DEFINE d == [c EXCEPT !.stat = "CLOSING"]
    <3>1. c \in connects[a] /\ c.stat = "CONNECTED" /\ c.thread = t
      BY <2>2 DEF Sockets
    <3>2. d.stat = "CLOSING" /\ d.thread = c.thread
      <4>1. c = [stat |-> c.stat, thread |-> c.thread, id_sock |-> c.id_sock]
        BY <1>2, <1>3, <3>1, ElementFacts
      <4>. QED  BY <4>1
    <3>. HIDE DEF d
    <3>3. connects'[a] = (connects[a] \ {c}) \union {d} /\ \A b \in Agents \ {a} : connects'[b] = connects[b]
      BY <1>2, <1>3, <2>2 DEF TableTypes, d
    <3>4. Learned(a, d)'
      <4>1. Learned(a, c)
        BY <1>2, <1>3, <3>1 DEF SocketInv
      <4>2. Learned(a, d)
        BY <3>1, <3>2, <4>1 DEF Learned
      <4>. QED  BY <1>1, <3>1, <3>2, <4>2, LearnedStays
    <3>. SUFFICES ASSUME NEW b \in Agents, NEW x \in connects'[b]
                  PROVE  /\ Learned(b, x)'
                         /\ \A y \in connects'[b] :
                              x.thread = y.thread /\ (x.stat = "OPENED" <=> y.stat = "OPENED") => x = y
      BY DEF SocketInv, Agents
    <3>5. ASSUME x \in connects[b] PROVE Learned(b, x)'
      <4>1. x.thread \in Threads /\ Learned(b, x)
        BY <1>3, <3>5, ElementFacts DEF SocketInv
      <4>. QED  BY <1>1, <4>1, LearnedStays
    <3>6. CASE b # a
      BY <1>3, <3>3, <3>5, <3>6 DEF SocketInv
    <3>7. CASE b = a
      <4>1. \A y \in connects[a] : y # c => ~(y.thread = d.thread /\ (y.stat = "OPENED" <=> d.stat = "OPENED"))
        BY <1>2, <1>3, <3>1, <3>2 DEF SocketInv
      <4>2. \A y, z \in connects[a] : y.thread = z.thread /\ (y.stat = "OPENED" <=> z.stat = "OPENED") => y = z
        BY <1>2, <1>3 DEF SocketInv
      <4>. QED  BY <3>3, <3>4, <3>5, <3>7, <4>1, <4>2
    <3>. QED  BY <3>6, <3>7
  <2>3. op = "CLOSE" => Known(op) = "CONNECTED"
    BY DEF Known
  <2>. QED  BY <2>1, <2>2, <2>3 DEF Issues
<1>. QED  BY <1>1, <1>8, <1>9, <1>10 DEF StateInv, PlaceInv

LEMMA AwaitState ==
  ASSUME ThreadTypes, DataTypes, StateInv, NEW t, Operation(t), NEW l \in listens, Awaits(t, l)
  PROVE  StateInv'
<1>. DEFINE new == Req(t, "ACCEPT", l.id_req)
<1>1. /\ scenario' = scenario /\ ThreadTypes' /\ ResumeInv' /\ StepInv' /\ SyncInv'
      /\ t \in Threads /\ InResume(t)
      /\ \A u \in Threads \ {t} : Still(u)
      /\ \A u \in Threads : Monotone(u)
  BY OperationPlaces DEF StateInv
<1>2. Server \in Agents /\ l.id_req \in Nat
  BY AwaitTypes DEF Agents
<1>3. ResumeInv /\ PendingInv /\ KeyInv /\ SocketInv /\ TableTypes
  BY DEF StateInv, PlaceInv, DataTypes
<1>4. "ACCEPT" \in Stats
  BY DEF Stats
<1>5. /\ requests'[Server] \subseteq requests[Server] \union {new}
      /\ \A b \in Agents \ {Server} : requests'[b] = requests[b]
      /\ \A r \in requests'[Server] : r \in requests[Server]
           \/ (r = new /\ Fresh(Server, "ACCEPT", l.id_req))
  <2>1. Request(t, Server, "ACCEPT", l.id_req)
    BY DEF Awaits
  <2>. QED  BY <1>1, <1>2, <1>3, <1>4, <2>1, RequestFacts
<1>6. new.thread = t /\ new.id = l.id_req /\ new.stat = "ACCEPT"
  BY ReqFacts
<1>. HIDE DEF new
<1>7. WaitsAt(t, Server, "ACCEPT")'
  <2>1. AgentAt("server", t) = Server
    BY DEF AgentAt
  <2>2. At(t, <<"server", "ACCEPT">>) /\ Wait
    BY DEF Awaits
  <2>. QED  BY <1>1, <1>3, <2>1, <2>2, AtWaits
<1>8. PendingInv'
  BY <1>1, <1>2, <1>3, <1>5, <1>6, <1>7, PendingMore DEF Awaits
<1>9. KeyInv'
  <2>1. \A b \in Agents : \A r, q \in requests'[b] : r.id = q.id /\ r.stat = q.stat => r = q
    BY <1>3, <1>5, <1>6 DEF KeyInv, Fresh
  <2>2. UNCHANGED listens
    BY DEF Awaits
  <2>. QED  BY <1>3, <2>1, <2>2 DEF KeyInv, Agents
<1>10. SocketInv'
  BY <1>1, <1>3, SocketShrinks DEF Awaits
<1>. QED  BY <1>1, <1>8, <1>9, <1>10 DEF StateInv, PlaceInv

LEMMA TakeState ==
  ASSUME ThreadTypes, DataTypes, StateInv, NEW t, Operation(t), NEW c \in accepts, Takes(t, c)
  PROVE  StateInv'
<1>. DEFINE new == [stat |-> "CONNECTED", thread |-> t, id_sock |-> c.id_sock]
<1>1. /\ scenario' = scenario /\ ThreadTypes' /\ ResumeInv' /\ StepInv' /\ SyncInv'
      /\ t \in Threads /\ InResume(t)
      /\ \A u \in Threads \ {t} : Still(u)
      /\ \A u \in Threads : Monotone(u)
  BY OperationPlaces DEF StateInv
<1>2. PendingInv /\ KeyInv /\ SocketInv /\ TableTypes
  BY DEF StateInv, PlaceInv, DataTypes
<1>3. Server \in Agents /\ c.id_sock \in Fds
  BY <1>2 DEF Agents, TableTypes
<1>4. UNCHANGED <<requests, listens>>
  BY DEF Takes
<1>5. PendingInv'
  <2>1. \A b \in Agents : \A r \in requests[b] : r.thread \in Threads /\ WaitsAt(r.thread, b, r.stat)
    BY <1>2, ElementFacts DEF PendingInv
  <2>2. \A b \in Agents : \A r \in requests[b] : Still(r.thread)
    BY <1>1, <2>1 DEF WaitsAt, Waits
  <2>. QED  BY <1>1, <1>2, <1>4, <2>2, PendingStill
<1>6. KeyInv'
  BY <1>2, <1>4 DEF KeyInv, Agents
<1>7. Current(t).kind = "connect" /\ step[t] = 4 /\ Stands(t) /\ Conn(t).protocol = "tcp"
  <2>1. /\ At(t, <<"server", "ACCEPT">>) /\ Conn(t).protocol = "tcp"
    BY DEF Takes
  <2>2. /\ Current(t).kind \in Kinds /\ Stands(t) /\ Ops(t)[step[t]] = <<"server", "ACCEPT">>
        /\ step[t] \in 1 .. Len(Ops(t))
    BY <2>1, AtFacts
  <2>3. step[t] \in Nat \ {0} /\ step[t] <= Len(StepsOf(Current(t).kind))
        /\ StepsOf(Current(t).kind)[step[t]] = <<"server", "ACCEPT">>
    BY <2>2, StandsFacts, <1>1 DEF Ops
  <2>. QED  BY <2>1, <2>2, <2>3, StepFacts
<1>8. step'[t] = 5 /\ stmtPos' = stmtPos
  BY <1>1, <1>7 DEF Takes, Skip, ThreadTypes
<1>9. Past(t, 4)'
  BY <1>1, <1>7, <1>8, PastAfter
<1>10. ~Past(t, 4)
  BY <1>1, <1>7, PastAt
<1>11. new.stat = "CONNECTED" /\ new.thread = t
  OBVIOUS
<1>12. connects'[Server] = connects[Server] \union {new} /\ \A b \in Agents \ {Server} : connects'[b] = connects[b]
  BY <1>1, <1>2, <1>3, ConnectsGrow DEF Takes
<1>. HIDE DEF new
<1>13. SocketInv'
  <2>1. Learned(Server, new)'
    BY <1>1, <1>7, <1>9, <1>11 DEF Learned, Conn
  <2>2. \A d \in connects[Server] : d.thread = new.thread => ~(d.stat = "OPENED" <=> new.stat = "OPENED")
    <3>. SUFFICES ASSUME NEW d \in connects[Server], d.thread = t, d.stat # "OPENED" PROVE FALSE
      BY <1>11
    <3>1. Learned(Server, d)
      BY <1>2, <1>3 DEF SocketInv
    <3>. QED  BY <1>7, <1>10, <3>1 DEF Learned
  <2>. QED  BY <1>1, <1>2, <1>3, <1>11, <1>12, <2>1, <2>2, SocketGrows
<1>. QED  BY <1>1, <1>5, <1>6, <1>13 DEF StateInv, PlaceInv

\* A step that leaves the tables as they are.
LEMMA SameTables ==
  ASSUME ThreadTypes, ThreadTypes', TableTypes, StateInv, scenario' = scenario, UNCHANGED tables,
         ResumeInv', StepInv', SyncInv', \A u \in Threads : Monotone(u),
         \A u \in Threads : Still(u) \/ ~\E b, op : b \in Agents /\ WaitsAt(u, b, op)
  PROVE  StateInv'
<1>1. PendingInv /\ KeyInv /\ SocketInv /\ UNCHANGED <<requests, listens, connects>>
  BY DEF StateInv, PlaceInv, tables
<1>2. \A b \in Agents : \A r \in requests[b] : Still(r.thread)
  <2>. SUFFICES ASSUME NEW b \in Agents, NEW r \in requests[b] PROVE Still(r.thread)
    OBVIOUS
  <2>1. r.thread \in Threads /\ WaitsAt(r.thread, b, r.stat)
    BY <1>1, ElementFacts DEF PendingInv
  <2>. QED  BY <2>1
<1>3. PendingInv'
  BY <1>1, <1>2, PendingStill
<1>4. KeyInv'
  BY <1>1 DEF KeyInv, Agents
<1>5. SocketInv'
  BY <1>1, SocketShrinks
<1>. QED  BY <1>3, <1>4, <1>5 DEF StateInv, PlaceInv

LEMMA OperationState ==
  ASSUME ThreadTypes, DataTypes, StateInv, NEW t, Operation(t)
  PROVE  ThreadTypes' /\ DataTypes' /\ StateInv'
<1>1. /\ scenario' = scenario /\ ThreadTypes' /\ ResumeInv' /\ StepInv' /\ SyncInv'
      /\ t \in Threads /\ InResume(t)
      /\ \A u \in Threads \ {t} : Still(u)
      /\ \A u \in Threads : Monotone(u)
  BY OperationPlaces DEF StateInv
<1>2. CASE \E a, id : \E end \in {"client", "server"}, op \in AnswerOps : Issues(t, a, end, op, id)
  BY <1>1, <1>2, IssueTypes, IssueState
<1>3. CASE \E l \in listens : Awaits(t, l)
  BY <1>1, <1>3, AwaitTypes, AwaitState
<1>4. CASE \E c \in accepts : Takes(t, c)
  BY <1>1, <1>4, TakeTypes, TakeState
<1>5. CASE Alone(t)
  <2>1. DataTypes'
    BY <1>5, AloneTypes
  <2>2. UNCHANGED tables /\ TableTypes
    BY <1>5 DEF Alone, DataTypes
  <2>3. \A u \in Threads : Still(u) \/ ~\E b, op : b \in Agents /\ WaitsAt(u, b, op)
    BY <1>1 DEF WaitsAt, Waits
  <2>4. StateInv'
    BY <1>1, <2>2, <2>3, SameTables
  <2>. QED  BY <1>1, <2>1, <2>4
<1>. QED  BY <1>2, <1>3, <1>4, <1>5, OperationCases

\* The steps of velm without an agent.
LEMMA LocalState ==
  ASSUME ThreadTypes, DataTypes, StateInv,
         \/ ThreadRests
         \/ \E e \in Events : SyncFires(e)
         \/ \E t \in Threads : DelayEnds(t)
  PROVE  /\ ThreadTypes' /\ DataTypes' /\ StateInv'
         /\ \A u \in Threads : Still(u) \/ ~\E b, op : b \in Agents /\ WaitsAt(u, b, op)
         /\ UNCHANGED <<scenario, requestNo, tables, toAgent, toManager, agents, incidents>>
<1>1. PlaceInv /\ TableTypes
  BY DEF StateInv, DataTypes
<1>2. UNCHANGED <<scenario, requestNo, tables, toAgent, toManager, agents, incidents>>
  BY DEF ThreadRests, SyncFires, DelayEnds
<1>3. DataTypes'
  BY <1>2 DEF DataTypes, TableTypes, AgentTypes, FdTypes, Proper, tables, agents
<1>4. /\ ThreadTypes' /\ ResumeInv' /\ StepInv' /\ SyncInv'
      /\ \A u \in Threads : Monotone(u)
      /\ \A u \in Threads : Still(u) \/ ~\E b, op : b \in Agents /\ WaitsAt(u, b, op)
  <2>1. CASE ThreadRests
    <3>1. \A u \in Threads : InResume(u) \/ Still(u)
      BY <1>1, <2>1, RestPlaces
    <3>2. \A u \in Threads : Still(u) \/ ~\E b, op : b \in Agents /\ WaitsAt(u, b, op)
      BY <3>1 DEF WaitsAt, Waits
    <3>. QED  BY <1>1, <2>1, <3>2, RestPlaces
  <2>2. ASSUME NEW e \in Events, SyncFires(e)
        PROVE  /\ ThreadTypes' /\ ResumeInv' /\ StepInv' /\ SyncInv'
               /\ \A u \in Threads : Monotone(u)
               /\ \A u \in Threads : Still(u) \/ ~\E b, op : b \in Agents /\ WaitsAt(u, b, op)
    <3>1. \A u \in Threads : Still(u) \/ Waits(u, "velm", "sync")
      BY <1>1, <2>2, FirePlaces
    <3>2. \A u \in Threads : Still(u) \/ ~\E b, op : b \in Agents /\ WaitsAt(u, b, op)
      BY <3>1, WaitsAtFacts
    <3>. QED  BY <1>1, <2>2, <3>2, FirePlaces
  <2>3. ASSUME NEW t \in Threads, DelayEnds(t)
        PROVE  /\ ThreadTypes' /\ ResumeInv' /\ StepInv' /\ SyncInv'
               /\ \A u \in Threads : Monotone(u)
               /\ \A u \in Threads : Still(u) \/ ~\E b, op : b \in Agents /\ WaitsAt(u, b, op)
    <3>1. \A u \in Threads \ {t} : Still(u)
      BY <1>1, <2>3, DelayPlaces
    <3>2. Waits(t, "velm", "delay")
      BY <1>1, <2>3, DelayPlaces
    <3>3. \A u \in Threads : Still(u) \/ ~\E b, op : b \in Agents /\ WaitsAt(u, b, op)
      BY <3>1, <3>2, WaitsAtFacts
    <3>. QED  BY <1>1, <2>3, <3>3, DelayPlaces
  <2>. QED  BY <2>1, <2>2, <2>3
<1>5. StateInv'
  BY <1>1, <1>2, <1>4, SameTables
<1>. QED  BY <1>2, <1>3, <1>4, <1>5

\* The other requests keep their threads.
LEMMA OthersStill ==
  ASSUME ThreadTypes, TableTypes, PendingInv, NEW a \in Agents, NEW r \in requests[a],
         requests' = [requests EXCEPT ![a] = requests[a] \ {r}],
         \A u \in Threads \ {r.thread} : Still(u)
  PROVE  /\ \A b \in Agents : requests'[b] \subseteq requests[b]
         /\ \A b \in Agents : \A q \in requests'[b] : q.thread # r.thread /\ Still(q.thread)
<1>1. requests'[a] = requests[a] \ {r} /\ \A b \in Agents \ {a} : requests'[b] = requests[b]
  BY DEF TableTypes
<1>2. \A b \in Agents : requests'[b] \subseteq requests[b]
  BY <1>1
<1>3. ASSUME NEW b \in Agents, NEW q \in requests'[b]
      PROVE  q.thread # r.thread /\ Still(q.thread)
  <2>1. q \in requests[b] /\ q.thread \in Threads /\ r.thread \in Threads
    BY <1>2, ElementFacts
  <2>2. WaitsAt(q.thread, b, q.stat) /\ WaitsAt(r.thread, a, r.stat)
    BY <2>1 DEF PendingInv
  <2>3. q.thread # r.thread
    <3>. SUFFICES ASSUME q.thread = r.thread PROVE FALSE
      OBVIOUS
    <3>1. b = a
      BY <2>1, <2>2, WaitsAtFacts
    <3>2. q = r
      BY <2>1, <3>1 DEF PendingInv
    <3>. QED  BY <1>1, <3>1, <3>2
  <2>. QED  BY <2>1, <2>3
<1>. QED  BY <1>2, <1>3

LEMMA KeysShrink ==
  ASSUME KeyInv, \A b \in Agents : requests'[b] \subseteq requests[b],
         \A k, l \in listens' : k.port = l.port => k = l
  PROVE  KeyInv'
BY DEF KeyInv, Agents

LEMMA AdmitState ==
  ASSUME ThreadTypes, DataTypes, StateInv, scenario' = scenario, resume = <<>>,
         NEW m, m.id_sock \in Fds, NEW r \in requests[Server], Admits(m, r)
  PROVE  /\ ThreadTypes' /\ StateInv'
         /\ \A u \in Threads \ {r.thread} : Still(u)
         /\ r.thread = m.thread /\ r.thread \in Threads /\ WaitsAt(r.thread, Server, "ACCEPT")
         /\ step'[r.thread] = 5 /\ stmtPos' = stmtPos /\ aborted' = aborted /\ InResume(r.thread)'
<1>. DEFINE new == [stat |-> "CONNECTED", thread |-> r.thread, id_sock |-> m.id_sock]
            t == r.thread
<1>1. PlaceInv /\ PendingInv /\ KeyInv /\ SocketInv /\ TableTypes /\ Server \in Agents
  BY DEF StateInv, PlaceInv, DataTypes, Agents
<1>2. t \in Threads /\ t = m.thread /\ r.stat = "ACCEPT"
  BY <1>1, ElementFacts DEF Admits, Accepting
<1>3. /\ requests' = [requests EXCEPT ![Server] = requests[Server] \ {r}]
      /\ connects' = [connects EXCEPT ![Server] = connects[Server] \union {new}]
      /\ Complete(<<t>>) /\ UNCHANGED <<listens, accepts, waitfor, fired, incidents>>
  BY DEF Admits
<1>4. /\ ThreadTypes' /\ ResumeInv' /\ StepInv' /\ SyncInv' /\ stmtPos' = stmtPos
      /\ \A u \in Threads \ {t} : Still(u)
      /\ \A u \in Threads : Monotone(u)
      /\ WaitsAt(t, Server, r.stat)
      /\ step'[t] = step[t] + 1 /\ InResume(t)' /\ aborted' = aborted
  BY <1>1, <1>2, <1>3, AnsweredPlaces
<1>5. step[t] = 4 /\ Stands(t) /\ Current(t).kind = "connect" /\ Conn(t).protocol = "tcp"
  BY <1>1, <1>2, <1>4, WaitsAtFacts DEF PendingInv
<1>6. /\ \A b \in Agents : requests'[b] \subseteq requests[b]
      /\ \A b \in Agents : \A q \in requests'[b] : Still(q.thread)
  BY <1>1, <1>3, <1>4, OthersStill
<1>7. PendingInv'
  BY <1>1, <1>6, PendingStill
<1>8. KeyInv'
  <2>1. \A k, l \in listens' : k.port = l.port => k = l
    BY <1>1, <1>3 DEF KeyInv
  <2>. QED  BY <1>1, <1>6, <2>1, KeysShrink
<1>9. connects'[Server] = connects[Server] \union {new} /\ \A b \in Agents \ {Server} : connects'[b] = connects[b]
  BY <1>1, <1>2, <1>3, ConnectsGrow
<1>10. new.stat = "CONNECTED" /\ new.thread = t
  OBVIOUS
<1>. HIDE DEF new
<1>11. SocketInv'
  <2>1. Learned(Server, new)'
    <3>1. Past(t, 4)'
      BY <1>2, <1>4, <1>5, PastAfter
    <3>. QED  BY <1>5, <1>10, <3>1 DEF Learned, Conn
  <2>2. \A d \in connects[Server] : d.thread = new.thread => ~(d.stat = "OPENED" <=> new.stat = "OPENED")
    <3>. SUFFICES ASSUME NEW d \in connects[Server], d.thread = t, d.stat # "OPENED" PROVE FALSE
      BY <1>10
    <3>1. Learned(Server, d)
      BY <1>1 DEF SocketInv
    <3>2. ~Past(t, 4)
      BY <1>2, <1>5, PastAt
    <3>. QED  BY <1>5, <3>1, <3>2 DEF Learned
  <2>. QED  BY <1>1, <1>2, <1>4, <1>9, <1>10, <2>1, <2>2, SocketGrows
<1>. QED  BY <1>2, <1>4, <1>5, <1>7, <1>8, <1>11 DEF StateInv, PlaceInv

LEMMA SettleState ==
  ASSUME ThreadTypes, DataTypes, StateInv, scenario' = scenario, resume = <<>>,
         NEW a \in Agents, NEW m, m.op \in AnswerOps, m.ok => m.id_sock \in Fds,
         NEW r \in requests[a], Settles(a, m, r)
  PROVE  /\ ThreadTypes' /\ StateInv'
         /\ \A u \in Threads \ {r.thread} : Still(u)
         /\ r.thread \in Threads /\ WaitsAt(r.thread, a, m.op) /\ stmtPos' = stmtPos
         /\ \/ step'[r.thread] = step[r.thread] + 1 /\ aborted' = aborted /\ InResume(r.thread)'
            \/ Fail(r.thread) /\ ~m.ok /\ step'[r.thread] = step[r.thread] /\ r.thread \in aborted'
<1>. DEFINE t == r.thread
<1>1. PlaceInv /\ PendingInv /\ KeyInv /\ SocketInv /\ TableTypes /\ Server \in Agents
  BY DEF StateInv, PlaceInv, DataTypes, Agents
<1>2. t \in Threads
  BY <1>1, ElementFacts
<1>3. /\ r.id = m.id /\ r.stat = m.op
      /\ requests' = [requests EXCEPT ![a] = requests[a] \ {r}]
      /\ UNCHANGED <<accepts, waitfor, fired>>
      /\ \/ Complete(<<t>>) /\ UNCHANGED incidents /\ (m.ok \/ m.op = "CLOSE")
         \/ Fail(t) /\ incidents' = incidents \union {"failed"} /\ ~m.ok
      /\ SettlesConnects(a, m, r) /\ SettlesListens(m, r)
  BY DEF Settles
<1>4. /\ ThreadTypes' /\ ResumeInv' /\ StepInv' /\ SyncInv' /\ stmtPos' = stmtPos
      /\ \A u \in Threads \ {t} : Still(u)
      /\ \A u \in Threads : Monotone(u)
      /\ WaitsAt(t, a, m.op)
      /\ \/ step'[t] = step[t] + 1 /\ InResume(t)' /\ aborted' = aborted
         \/ Fail(t) /\ ~m.ok /\ step'[t] = step[t] /\ t \in aborted'
  <2>1. Complete(<<t>>) \/ Fail(t)
    BY <1>3
  <2>2. /\ ThreadTypes' /\ ResumeInv' /\ StepInv' /\ SyncInv' /\ stmtPos' = stmtPos
        /\ \A u \in Threads \ {t} : Still(u)
        /\ \A u \in Threads : Monotone(u)
        /\ WaitsAt(t, a, r.stat)
        /\ Complete(<<t>>) => step'[t] = step[t] + 1 /\ InResume(t)' /\ aborted' = aborted
        /\ Fail(t) => step'[t] = step[t] /\ t \in aborted'
    BY <1>1, <1>2, <1>3, <2>1, AnsweredPlaces
  <2>. QED  BY <1>3, <2>2
<1>5. /\ \A b \in Agents : requests'[b] \subseteq requests[b]
      /\ \A b \in Agents : \A q \in requests'[b] : Still(q.thread)
  BY <1>1, <1>3, <1>4, OthersStill
<1>6. PendingInv'
  BY <1>1, <1>5, PendingStill
<1>7. KeyInv'
  <2>1. \A k, l \in listens' : k.port = l.port => k = l
    <3>1. CASE UNCHANGED listens \/ \E L : listens' = listens \ L
      BY <1>1, <3>1 DEF KeyInv
    <3>2. ASSUME NEW l \in Pending(t),
                 listens' = (listens \ {l}) \union {[l EXCEPT !.stat = "LISTEN", !.id_req = m.id]}
          PROVE  \A k, j \in listens' : k.port = j.port => k = j
      <4>. DEFINE d == [l EXCEPT !.stat = "LISTEN", !.id_req = m.id]
      <4>1. l \in listens
        BY DEF Pending
      <4>2. d.port = l.port
        BY <1>1, <4>1 DEF TableTypes
      <4>. HIDE DEF d
      <4>3. listens' = (listens \ {l}) \union {d}
        BY <3>2 DEF d
      <4>. QED  BY <1>1, <4>1, <4>2, <4>3 DEF KeyInv
    <3>. QED  BY <1>3, <3>1, <3>2 DEF SettlesListens
  <2>. QED  BY <1>1, <1>5, <2>1, KeysShrink
<1>8. SocketInv'
  <2>1. CASE UNCHANGED connects
    BY <1>1, <1>4, <2>1, SocketShrinks
  <2>2. CASE connects' = HearClosing(a, r)
    <3>1. connects' = [connects EXCEPT ![a] = connects[a] \ Sockets(t, a, "CLOSING")]
      BY <2>2 DEF HearClosing
    <3>2. \A b \in Agents : connects'[b] \subseteq connects[b]
      BY <1>1, <3>1, ConnectsShrink
    <3>. QED  BY <1>1, <1>4, <3>2, SocketShrinks
  <2>3. ASSUME NEW b \in Agents, NEW s \in {"OPENED", "CONNECTED"},
               Learns(b, s, t, m.id_sock), m.ok, NEW k \in Nat, k \in 1 .. 3,
               step[t] = k /\ Current(t).kind = "connect" /\ Stands(t),
               IF s = "OPENED" THEN k = 1 /\ b # Server
               ELSE IF b # Server THEN k = 3
               ELSE k = 2 /\ Conn(t).protocol # "tcp"
        PROVE  SocketInv'
    <3>. DEFINE new == [stat |-> s, thread |-> t, id_sock |-> m.id_sock]
    <3>1. connects'[b] = connects[b] \union {new} /\ \A c \in Agents \ {b} : connects'[c] = connects[c]
      BY <1>1, <1>2, <2>3, ConnectsGrow DEF Learns
    <3>2. new.stat = s /\ new.thread = t
      OBVIOUS
    <3>. HIDE DEF new
    <3>3. step[t] = k /\ Current(t).kind = "connect" /\ Stands(t)
      BY <1>4, <2>3
    <3>4. step'[t] = k + 1
      BY <1>4, <2>3, <3>3
    <3>5. Past(t, k)'
      BY <1>2, <1>4, <3>3, <3>4, PastAfter
    <3>6. Learned(b, new)'
      BY <2>3, <3>2, <3>5 DEF Learned, Conn
    <3>7. \A d \in connects[b] : d.thread = new.thread => ~(d.stat = "OPENED" <=> new.stat = "OPENED")
      <4>. SUFFICES ASSUME NEW d \in connects[b], d.thread = t, d.stat = "OPENED" <=> s = "OPENED" PROVE FALSE
        BY <3>2
      <4>1. Learned(b, d)
        BY <1>1 DEF SocketInv
      <4>2. ~Past(t, k)
        BY <1>2, <3>3, PastAt
      <4>. QED  BY <2>3, <4>1, <4>2 DEF Learned
    <3>. QED  BY <1>1, <1>2, <1>4, <3>1, <3>2, <3>6, <3>7, SocketGrows
  <2>4. /\ m.op = "OPEN" => step[t] = 1 /\ Current(t).kind = "connect" /\ Stands(t) /\ a # Server
        /\ m.op = "LISTEN" => step[t] = 2 /\ Current(t).kind = "connect" /\ Stands(t) /\ a = Server
        /\ m.op = "CONNECT" => step[t] = 3 /\ Current(t).kind = "connect" /\ Stands(t) /\ a # Server
    <3>1. Conn(t).client # Server
      BY <1>2, ScenarioFacts DEF ThreadTypes
    <3>. QED  BY <1>2, <1>4, <3>1, WaitsAtFacts
  <2>5. CASE m.ok /\ m.op = "OPEN" /\ Learns(a, "OPENED", t, m.id_sock)
    <3>1. "OPENED" \in {"OPENED", "CONNECTED"} /\ 1 \in Nat /\ 1 \in 1 .. 3
      OBVIOUS
    <3>2. step[t] = 1 /\ Current(t).kind = "connect" /\ Stands(t) /\ a # Server
      BY <2>4, <2>5
    <3>. QED  BY <2>3, <2>5, <3>1, <3>2
  <2>6. CASE m.ok /\ m.op = "CONNECT" /\ Learns(a, "CONNECTED", t, m.id_sock)
    <3>1. "CONNECTED" \in {"OPENED", "CONNECTED"} /\ 3 \in Nat /\ 3 \in 1 .. 3
      OBVIOUS
    <3>2. step[t] = 3 /\ Current(t).kind = "connect" /\ Stands(t) /\ a # Server
      BY <2>4, <2>6
    <3>. QED  BY <2>3, <2>6, <3>1, <3>2
  <2>7. CASE m.ok /\ m.op = "LISTEN" /\ Conn(t).protocol # "tcp"
             /\ Learns(Server, "CONNECTED", t, m.id_sock)
    <3>1. "CONNECTED" \in {"OPENED", "CONNECTED"} /\ 2 \in Nat /\ 2 \in 1 .. 3 /\ Server \in Agents
      BY DEF Agents
    <3>2. step[t] = 2 /\ Current(t).kind = "connect" /\ Stands(t)
      BY <2>4, <2>7
    <3>. QED  BY <2>3, <2>7, <3>1, <3>2
  <2>. QED  BY <1>3, <2>1, <2>2, <2>5, <2>6, <2>7 DEF SettlesConnects, Learns
<1>. QED  BY <1>2, <1>4, <1>6, <1>7, <1>8 DEF StateInv, PlaceInv

\* Neither a socket that was closed, nor a connection that is kept, nor an
\* unexpected answer moves a thread.
LEMMA HearStill ==
  ASSUME ThreadTypes, DataTypes, StateInv, UNCHANGED <<scenario, threads>>,
         UNCHANGED <<requests, listens>>, \A a \in Agents : connects'[a] \subseteq connects[a]
  PROVE  ThreadTypes' /\ StateInv' /\ \A u \in Threads : Still(u)
<1>1. PlaceInv /\ PendingInv /\ KeyInv /\ SocketInv /\ TableTypes
  BY DEF StateInv, PlaceInv, DataTypes
<1>2. /\ ThreadTypes' /\ ResumeInv' /\ StepInv' /\ SyncInv'
      /\ \A u : Still(u)
      /\ \A u \in Threads : Monotone(u)
  BY <1>1, UnmovedPlaces
<1>3. PendingInv'
  BY <1>1, <1>2, PendingStill
<1>4. KeyInv'
  BY <1>1 DEF KeyInv, Agents
<1>5. SocketInv'
  BY <1>1, <1>2, SocketShrinks
<1>. QED  BY <1>2, <1>3, <1>4, <1>5 DEF StateInv, PlaceInv

LEMMA HearState ==
  ASSUME ThreadTypes, DataTypes, StateInv, NEW a \in Agents, Hear(a)
  PROVE  ThreadTypes' /\ StateInv'
<1>. DEFINE m == toManager[a][1]
<1>1. HearSteps(a, m) /\ scenario' = scenario /\ resume = <<>>
  BY HearCases DEF DataTypes, Hear, Idle
<1>2. /\ m.ok => m.id_sock \in Fds
      /\ m.op = "ACCEPTED" => a = Server /\ m.ok
  BY HearFacts DEF DataTypes, FdTypes, Proper
<1>3. TableTypes
  BY DEF DataTypes
<1>. HIDE DEF m
<1>4. CASE /\ UNCHANGED <<threads, requests, listens, accepts, incidents>>
           /\ \/ UNCHANGED connects
              \/ \E c \in connects[a] : c.id_sock = m.id_sock
                   /\ connects' = [connects EXCEPT ![a] = connects[a] \ {c}]
  <2>1. \A b \in Agents : connects'[b] \subseteq connects[b]
    BY <1>3, <1>4, ConnectsShrink
  <2>. QED  BY <1>1, <1>4, <2>1, HearStill
<1>5. CASE Keeps(m)
  BY <1>1, <1>5, HearStill DEF Keeps
<1>6. CASE m.op = "ACCEPTED" /\ \E r \in requests[Server] : Admits(m, r)
  BY <1>1, <1>2, <1>6, AdmitState
<1>7. CASE m.op \in AnswerOps /\ \E r \in requests[a] : Settles(a, m, r)
  BY <1>1, <1>2, <1>7, SettleState
<1>8. CASE Unexpected
  BY <1>1, <1>8, HearStill DEF Unexpected, tables
<1>. QED  BY <1>1, <1>4, <1>5, <1>6, <1>7, <1>8 DEF HearSteps

----------------------------------------
(* The types, and the keys of the tables. *)

LEMMA AgentState ==
  ASSUME IInv, DataTypes', UNCHANGED <<scenario, threads, requestNo, tables>>
  PROVE  IInv'
<1>1. UNCHANGED <<requests, listens, connects>>
  BY DEF tables
<1>. QED  BY <1>1, HearStill DEF IInv

LEMMA Invariance ==
  ASSUME IInv, [Next]_vars
  PROVE  IInv'
<1>1. CASE UNCHANGED vars
  <2>1. UNCHANGED <<scenario, threads, requestNo, tables>>
    BY <1>1 DEF vars
  <2>2. DataTypes'
    BY <1>1 DEF IInv, DataTypes, TableTypes, AgentTypes, FdTypes, Proper, vars, tables, agents
  <2>. QED  BY <2>1, <2>2, AgentState
<1>2. CASE Manager
  BY <1>2, OperationState, LocalState DEF IInv, Manager
<1>3. CASE \/ \E e \in Events : SyncFires(e)
           \/ \E t \in Threads : DelayEnds(t)
  BY <1>3, LocalState DEF IInv
<1>4. ASSUME NEW a \in Agents, Hear(a)
      PROVE  IInv'
  BY <1>4, HearTypes, HearState DEF IInv
<1>5. ASSUME NEW a \in Agents, Serve(a)
      PROVE  IInv'
  BY <1>5, ServeTypes, AgentState DEF IInv, ThreadTypes, Serve
<1>6. ASSUME NEW f \in Fds, Accept(f)
      PROVE  IInv'
  BY <1>6, AcceptTypes, AgentState DEF IInv, ThreadTypes, Accept
<1>7. ASSUME NEW f \in Fds, NEW a \in Agents, Report(a, f) \/ EndOfStream(a, f)
      PROVE  IInv'
  BY <1>7, ReportTypes, EndTypes, AgentState DEF IInv, Report, EndOfStream
<1>. QED  BY <1>1, <1>2, <1>3, <1>4, <1>5, <1>6, <1>7 DEF Next

LEMMA InvIsInductive == Spec => []IInv
<1>1. Init => IInv
  BY InitTypes, InitPlaces DEF IInv
<1>2. IInv /\ [Next]_vars => IInv'
  BY Invariance
<1>. QED  BY <1>1, <1>2, PTL DEF Spec

LEMMA InvTypeOK == IInv => TypeOK
<1>. SUFFICES ASSUME IInv PROVE TypeOK
  OBVIOUS
<1>1. ThreadTypes /\ TableTypes /\ AgentTypes /\ KeyInv /\ StepInv /\ SocketInv
  BY DEF IInv, DataTypes, StateInv, PlaceInv
<1>2. step \in [Threads -> 1 .. 5]
  BY <1>1 DEF ThreadTypes, StepInv
<1>3. ASSUME NEW a \in Agents
      PROVE  /\ requests[a] \subseteq [id : Nat, stat : Stats, thread : Threads]
             /\ \A r, q \in requests[a] : r.id = q.id /\ r.stat = q.stat => r = q
             /\ connects[a] \subseteq [stat : {"OPENED", "CONNECTED", "CLOSING"},
                                        thread : Threads, id_sock : Fds]
             /\ \A c, d \in connects[a] : c.thread = d.thread /\ c.stat = d.stat => c = d
             /\ \A i \in 1 .. Len(toAgent[a]) : toAgent[a][i] \in
                  [op : Stats \ {"ACCEPT"}, id : Nat, thread : Threads]
             /\ \A f \in Fds : fds[a][f] = FreeFd \/ fds[a][f] \in
                  [kind : {"tcp", "udp", "listen"}, thread : Threads, id_req : Nat,
                   reads : BOOLEAN, busy : {"no", "SEND", "RECVTERM"}]
  <2>1. requests[a] \subseteq [id : Nat, stat : Stats, thread : Threads]
        /\ connects[a] \subseteq [stat : {"OPENED", "CONNECTED", "CLOSING"},
                                        thread : Threads, id_sock : Fds]
    BY <1>1 DEF TableTypes
  <2>2. \A r, q \in requests[a] : r.id = q.id /\ r.stat = q.stat => r = q
    BY <1>1 DEF KeyInv
  <2>3. \A c, d \in connects[a] : c.thread = d.thread /\ c.stat = d.stat => c = d
    BY <1>1 DEF SocketInv
  <2>4. \A i \in 1 .. Len(toAgent[a]) : toAgent[a][i] \in [op : Stats \ {"ACCEPT"}, id : Nat, thread : Threads]
    <3>1. toAgent[a] \in Seq(Requests)
      BY <1>1 DEF AgentTypes
    <3>2. \A i \in 1 .. Len(toAgent[a]) : toAgent[a][i] \in Requests
      BY <3>1
    <3>. QED  BY <3>2 DEF Requests, AnswerOps
  <2>5. \A f \in Fds : fds[a][f] = FreeFd \/ fds[a][f] \in SocketType
    BY <1>1, SocketFacts
  <2>. QED  BY <2>1, <2>2, <2>3, <2>4, <2>5 DEF SocketType
<1>4. /\ listens \subseteq [port : Ports, stat : {"REQ_LISTEN", "LISTEN"}, id_req : Nat]
      /\ \A k, l \in listens : k.port = l.port => k = l
  BY <1>1 DEF TableTypes, KeyInv
<1>. QED  BY <1>1, <1>2, <1>3, <1>4 DEF TypeOK, ThreadTypes, TableTypes, AgentTypes

\* Every variable of velm and its agents keeps its type, and each of the sets
\* of velm has one element for a key: add() never drops a socket.
THEOREM TypeCorrect == Spec => []TypeOK
BY InvIsInductive, InvTypeOK, PTL

----------------------------------------
(* The barrier. *)

\* What does not concern an event.
LEMMA Elsewhere ==
  ASSUME IInv, \/ \E t \in Threads : DelayEnds(t)
               \/ \E a \in Agents : Hear(a) \/ Serve(a)
               \/ \E f \in Fds : Accept(f) \/ \E a \in Agents : Report(a, f) \/ EndOfStream(a, f)
  PROVE  UNCHANGED <<waitfor, fired>>
<1>1. ASSUME NEW a \in Agents, Hear(a)
      PROVE  UNCHANGED <<waitfor, fired>>
  <2>1. PICK m : HearClosed(a, m) \/ HearAccepted(m) \/ HearAnswer(a, m)
    BY <1>1, HearFacts DEF IInv, DataTypes
  <2>2. CASE HearClosed(a, m)
    BY <2>2 DEF HearClosed, threads
  <2>3. CASE HearAccepted(m)
    BY <2>3 DEF HearAccepted, Unexpected, threads
  <2>4. CASE HearAnswer(a, m)
    <3>1. CASE Unexpected
      BY <3>1 DEF Unexpected, threads
    <3>2. ASSUME NEW r \in requests[a], Settles(a, m, r)
          PROVE  UNCHANGED <<waitfor, fired>>
      BY <3>2 DEF Settles
    <3>. QED  BY <2>4, <3>1, <3>2, AnswerCases
  <2>. QED  BY <2>1, <2>2, <2>3, <2>4
<1>2. ASSUME NEW a \in Agents, Serve(a)
      PROVE  UNCHANGED <<waitfor, fired>>
  BY <1>2 DEF Serve, threads
<1>3. ASSUME NEW f \in Fds, Accept(f)
      PROVE  UNCHANGED <<waitfor, fired>>
  <2>1. UNCHANGED threads
    BY <1>3 DEF Accept
  <2>. QED  BY <2>1 DEF threads
<1>5. ASSUME NEW f \in Fds, NEW a \in Agents, Report(a, f) \/ EndOfStream(a, f)
      PROVE  UNCHANGED <<waitfor, fired>>
  BY <1>5 DEF Report, EndOfStream, threads
<1>4. CASE \E t \in Threads : DelayEnds(t)
  BY <1>4 DEF DelayEnds
<1>. QED  BY <1>1, <1>2, <1>3, <1>4, <1>5

\* A thread that stands at a sync statement arrives at the event.
LEMMA Arrives ==
  ASSUME IInv, NEW t, OpSync(t), ~UNCHANGED <<waitfor, fired>>
  PROVE  \E e \in Events : \E u \in Members[e] : Barrier!Arrive(e, u)
<1>. DEFINE e == Program(t)[stmtPos[t]].event
<1>1. ThreadTypes
  BY DEF IInv
<1>2. At(t, <<"velm", "sync">>)
  BY DEF OpSync
<1>3. /\ t \in Threads /\ stmtPos[t] \in 1 .. Len(Program(t)) /\ Current(t).kind \in Kinds
      /\ step[t] \in Nat \ {0} /\ step[t] <= Len(Ops(t)) /\ Ops(t)[step[t]] = <<"velm", "sync">>
  BY <1>1, <1>2, AtFacts DEF ThreadTypes
<1>4. Current(t).kind = "sync"
  BY <1>3, StepFacts DEF Ops
<1>5. e \in Events
  BY <1>1, <1>3, <1>4, ScenarioFacts DEF ThreadTypes, Current
<1>6. /\ t \in waitfor[e] /\ waitfor' = [waitfor EXCEPT ![e] = waitfor[e] \ {t}] /\ fired' = fired
  BY DEF OpSync, Abort
<1>7. t \in Members[e] /\ waitfor \in [Events -> SUBSET Threads]
  BY <1>1, <1>5, <1>6 DEF ThreadTypes
<1>. DEFINE arrived == [d \in Events |-> Members[d] \ waitfor[d]]
<1>8. t \in Members[e] \ arrived[e]
  BY <1>5, <1>6, <1>7
<1>9. arrived' = [arrived EXCEPT ![e] = @ \union {t}]
  BY <1>5, <1>6, <1>7
<1>10. Barrier!Arrive(e, t)
  BY <1>6, <1>8, <1>9 DEF Barrier!Arrive
<1>. QED  BY <1>5, <1>7, <1>10

\* An event fires when the last of its threads has arrived.
LEMMA Activates ==
  ASSUME IInv, NEW e \in Events, SyncFires(e)
  PROVE  Barrier!Activate(e)
<1>1. e \notin fired /\ waitfor[e] = {} /\ fired' = fired \union {e} /\ waitfor' = waitfor
  BY DEF SyncFires, AllHere
<1>. QED  BY <1>1 DEF Barrier!Activate

\* The sync events of velm are the barrier that they promise to be: an event
\* fires once, when every thread that it names has reached it.
THEOREM BarrierCorrect == Spec => ImplementsBarrier
<1>1. Init => Barrier!Init
  BY DEF Init, Barrier!Init
<1>2. IInv /\ [Next]_vars => [Barrier!Next]_Barrier!bvars
  <2>. SUFFICES ASSUME IInv, [Next]_vars, ~UNCHANGED <<waitfor, fired>>
                PROVE  Barrier!Next
    BY DEF Barrier!bvars
  <2>1. CASE UNCHANGED vars
    BY <2>1 DEF vars, threads
  <2>2. CASE Manager
    <3>1. CASE ThreadRests
      BY <3>1 DEF ThreadRests
    <3>2. ASSUME NEW t \in Threads, Operation(t)
          PROVE  OpSync(t)
      BY <3>2, OperationThreads DEF Wait, Skip, Abort, StatementEnds
    <3>. QED  BY <2>2, <3>1, <3>2, Arrives DEF Manager, Barrier!Next
  <2>3. CASE \E e \in Events : SyncFires(e)
    BY <2>3, Activates DEF Barrier!Next
  <2>. QED  BY <2>1, <2>2, <2>3, Elsewhere DEF Next
<1>. QED  BY <1>1, <1>2, InvIsInductive, PTL DEF Spec, ImplementsBarrier, Barrier!Spec

----------------------------------------
(* A thread waits for one thing: its request is on its way to the agent,   *)
(* or the agent works on it, or the answer is on its way back.             *)

\* The threads of what is on its way.
LEMMA TokenThreads ==
  ASSUME AgentTypes, NEW a \in Agents
  PROVE  /\ \A i \in 1 .. Len(toAgent[a]) : toAgent[a][i] \in Requests /\ toAgent[a][i].thread \in Threads
              /\ toAgent[a][i].op \in AnswerOps /\ toAgent[a][i].id \in Nat
         /\ \A i \in 1 .. Len(toManager[a]) : toManager[a][i] \in Messages /\ toManager[a][i].thread \in Threads
              /\ toManager[a][i].id \in Nat
         /\ \A f \in Fds : Busy(a, f) =>
              fds[a][f].thread \in Threads /\ fds[a][f].busy \in {"SEND", "RECVTERM"}
         /\ Len(toAgent[a]) \in Nat /\ Len(toManager[a]) \in Nat
<1>1. toAgent[a] \in Seq(Requests) /\ toManager[a] \in Seq(Messages)
  BY DEF AgentTypes
<1>2. \A i \in 1 .. Len(toAgent[a]) : toAgent[a][i] \in Requests
  BY <1>1
<1>3. \A i \in 1 .. Len(toManager[a]) : toManager[a][i] \in Messages
  BY <1>1
<1>4. \A f \in Fds : Busy(a, f) =>
        fds[a][f].thread \in Threads /\ fds[a][f].busy \in {"SEND", "RECVTERM"}
  BY SocketFacts DEF Busy
<1>5. \A r \in Requests : r.thread \in Threads /\ r.op \in AnswerOps /\ r.id \in Nat
  BY DEF Requests
<1>6. \A m \in Messages : m.thread \in Threads /\ m.id \in Nat
  BY DEF Messages
<1>. QED  BY <1>1, <1>2, <1>3, <1>4, <1>5, <1>6

LEMMA TokensMove ==
  ASSUME AgentTypes, scenario' = scenario, NEW a \in Agents, TokenAt(a),
         NEW t, NEW q, NEW d \in Nat, NEW e \in Nat, NEW g,
         \A i \in 1 .. Len(toAgent'[a]) : OldAsk(a, i, d, q, t) \/ NewAsk(a, i, q, t),
         \A i \in 1 .. Len(toManager'[a]) : IsAnswer(toManager'[a][i]) =>
           OldAnswer(a, i, e, q, t) \/ NewAnswer(a, i, q, t),
         \A f \in Fds : Busy(a, f)' => OldWork(a, f, q, t) \/ NewWork(a, f, g, q, t)
  PROVE  TokenAt(a)'
<1>1. AskInv(a) /\ AnswerInv(a) /\ WorkInv(a)
  BY DEF TokenAt
<1>2. ASSUME NEW u \in Threads, Still(u), NEW op, WaitsAt(u, a, op)
      PROVE  WaitsAt(u, a, op)'
  BY <1>2, StillFacts
<1>3. ASSUME NEW i \in 1 .. Len(toAgent'[a])
      PROVE  WaitsAt(toAgent[a][i].thread, a, toAgent[a][i].op)'
  <2>1. CASE NewAsk(a, i, q, t)
    <3>1. PICK m \in Requests : toAgent'[a][i] = m /\ m.thread = t /\ WaitsAt(t, a, m.op)'
      BY <2>1 DEF NewAsk
    <3>. QED  BY <3>1
  <2>2. CASE OldAsk(a, i, d, q, t)
    <3>1. PICK m \in Requests :
            /\ i + d \in 1 .. Len(toAgent[a]) /\ m = toAgent[a][i + d] /\ toAgent'[a][i] = m
            /\ Still(m.thread)
      BY <2>2 DEF OldAsk
    <3>2. WaitsAt(m.thread, a, m.op)
      BY <1>1, <3>1 DEF AskInv
    <3>3. m.thread \in Threads
      BY <3>1, TokenThreads
    <3>4. WaitsAt(m.thread, a, m.op)'
      BY <1>2, <3>1, <3>2, <3>3
    <3>. QED  BY <3>1, <3>4
  <2>. QED  BY <2>1, <2>2
<1>4. ASSUME NEW i \in 1 .. Len(toManager'[a]), IsAnswer(toManager'[a][i])
      PROVE  WaitsAt(toManager[a][i].thread, a, toManager[a][i].op)'
  <2>1. CASE NewAnswer(a, i, q, t)
    <3>1. PICK m \in Messages : toManager'[a][i] = m /\ m.thread = t /\ WaitsAt(t, a, m.op)'
      BY <2>1 DEF NewAnswer
    <3>. QED  BY <3>1
  <2>2. CASE OldAnswer(a, i, e, q, t)
    <3>1. PICK m \in Messages :
            /\ i + e \in 1 .. Len(toManager[a]) /\ m = toManager[a][i + e] /\ toManager'[a][i] = m
            /\ Still(m.thread)
      BY <2>2 DEF OldAnswer
    <3>2. WaitsAt(m.thread, a, m.op)
      BY <1>1, <1>4, <3>1 DEF AnswerInv, IsAnswer
    <3>3. m.thread \in Threads
      BY <3>1, TokenThreads
    <3>4. WaitsAt(m.thread, a, m.op)'
      BY <1>2, <3>1, <3>2, <3>3
    <3>. QED  BY <3>1, <3>4
  <2>. QED  BY <1>4, <2>1, <2>2
<1>5. ASSUME NEW f \in Fds, Busy(a, f)'
      PROVE  WaitsAt(fds[a][f].thread, a, fds[a][f].busy)'
  <2>1. CASE NewWork(a, f, g, q, t)
    <3>1. PICK s \in SocketType : fds'[a][f] = s /\ s.thread = t /\ WaitsAt(t, a, s.busy)'
      BY <2>1 DEF NewWork
    <3>. QED  BY <3>1
  <2>2. CASE OldWork(a, f, q, t)
    <3>1. PICK s \in SocketType :
            /\ Busy(a, f) /\ fds[a][f].thread = s.thread /\ fds[a][f].busy = s.busy
            /\ fds'[a][f].thread = s.thread /\ fds'[a][f].busy = s.busy
            /\ Still(s.thread)
      BY <2>2 DEF OldWork
    <3>2. WaitsAt(s.thread, a, s.busy)
      BY <1>1, <3>1 DEF WorkInv
    <3>3. s.thread \in Threads
      BY DEF SocketType
    <3>4. WaitsAt(s.thread, a, s.busy)'
      BY <1>2, <3>1, <3>2, <3>3
    <3>. QED  BY <3>1, <3>4
  <2>. QED  BY <1>5, <2>1, <2>2
\* What is left is that the threads differ.
<1>. DEFINE Got(i) == \/ /\ i + d \in 1 .. Len(toAgent[a]) /\ toAgent'[a][i].thread = toAgent[a][i + d].thread
                         /\ q = "none" \/ toAgent'[a][i].thread # t
                      \/ q = "ask" /\ i = Len(toAgent'[a]) /\ toAgent'[a][i].thread = t
            Ans(i) == \/ /\ i + e \in 1 .. Len(toManager[a]) /\ IsAnswer(toManager[a][i + e])
                         /\ toManager'[a][i].thread = toManager[a][i + e].thread
                         /\ q = "none" \/ toManager'[a][i].thread # t
                      \/ q = "answer" /\ i = Len(toManager'[a]) /\ toManager'[a][i].thread = t
            Work(f) == \/ Busy(a, f) /\ fds'[a][f].thread = fds[a][f].thread /\ (q = "none" \/ fds'[a][f].thread # t)
                       \/ q = "work" /\ f = g /\ fds'[a][f].thread = t
<1>6. ASSUME NEW i \in 1 .. Len(toAgent'[a])
      PROVE  Got(i)
  BY DEF OldAsk, NewAsk
<1>7. ASSUME NEW i \in 1 .. Len(toManager'[a]), IsAnswer(toManager'[a][i])
      PROVE  Ans(i)
  BY <1>7 DEF OldAnswer, NewAnswer
<1>8. ASSUME NEW f \in Fds, Busy(a, f)'
      PROVE  Work(f)
  BY <1>8 DEF OldWork, NewWork
<1>9. ASSUME NEW i \in 1 .. Len(toAgent'[a])
      PROVE  /\ \A j \in 1 .. Len(toAgent'[a]) : toAgent'[a][j].thread = toAgent'[a][i].thread => i = j
             /\ \A j \in 1 .. Len(toManager'[a]) :
                  IsAnswer(toManager'[a][j]) => toManager'[a][j].thread # toAgent'[a][i].thread
             /\ \A f \in Fds : Busy(a, f)' => fds'[a][f].thread # toAgent'[a][i].thread
  <2>1. ASSUME NEW j \in 1 .. Len(toAgent'[a]), toAgent'[a][j].thread = toAgent'[a][i].thread
        PROVE  i = j
    <3>1. Got(i) /\ Got(j)
      BY <1>6
    <3>. QED  BY <1>1, <2>1, <3>1 DEF AskInv
  <2>2. ASSUME NEW j \in 1 .. Len(toManager'[a]), IsAnswer(toManager'[a][j])
        PROVE  toManager'[a][j].thread # toAgent'[a][i].thread
    <3>1. Got(i) /\ Ans(j)
      BY <1>6, <1>7, <2>2
    <3>. QED  BY <1>1, <3>1 DEF AskInv
  <2>3. ASSUME NEW f \in Fds, Busy(a, f)'
        PROVE  fds'[a][f].thread # toAgent'[a][i].thread
    <3>1. Got(i) /\ Work(f)
      BY <1>6, <1>8, <2>3
    <3>. QED  BY <1>1, <3>1 DEF AskInv
  <2>. QED  BY <2>1, <2>2, <2>3
<1>10. ASSUME NEW i \in 1 .. Len(toManager'[a]), IsAnswer(toManager'[a][i])
       PROVE  /\ \A j \in 1 .. Len(toManager'[a]) : IsAnswer(toManager'[a][j])
                   /\ toManager'[a][j].thread = toManager'[a][i].thread => i = j
              /\ \A f \in Fds : Busy(a, f)' => fds'[a][f].thread # toManager'[a][i].thread
  <2>1. ASSUME NEW j \in 1 .. Len(toManager'[a]), IsAnswer(toManager'[a][j]),
               toManager'[a][j].thread = toManager'[a][i].thread
        PROVE  i = j
    <3>1. Ans(i) /\ Ans(j)
      BY <1>7, <1>10, <2>1
    <3>. QED  BY <1>1, <2>1, <3>1 DEF AnswerInv
  <2>2. ASSUME NEW f \in Fds, Busy(a, f)'
        PROVE  fds'[a][f].thread # toManager'[a][i].thread
    <3>1. Ans(i) /\ Work(f)
      BY <1>7, <1>8, <1>10, <2>2
    <3>. QED  BY <1>1, <3>1 DEF AnswerInv
  <2>. QED  BY <2>1, <2>2
<1>11. ASSUME NEW f \in Fds, Busy(a, f)'
       PROVE  \A h \in Fds : Busy(a, h)' /\ fds'[a][h].thread = fds'[a][f].thread => f = h
  <2>. SUFFICES ASSUME NEW h \in Fds, Busy(a, h)', fds'[a][h].thread = fds'[a][f].thread
                PROVE  f = h
    OBVIOUS
  <2>1. Work(f) /\ Work(h)
    BY <1>8, <1>11
  <2>. QED  BY <1>1, <2>1 DEF WorkInv
<1>12. AskInv(a)'
  BY <1>3, <1>9 DEF AskInv, IsAnswer
<1>13. AnswerInv(a)'
  BY <1>4, <1>10 DEF AnswerInv, IsAnswer
<1>14. WorkInv(a)'
  BY <1>5, <1>11 DEF WorkInv
<1>. QED  BY <1>12, <1>13, <1>14 DEF TokenAt

LEMMA AskKept ==
  ASSUME AgentTypes, NEW a \in Agents, TokenAt(a), NEW q, NEW t, Stays(a, q, t), NEW d \in Nat,
         \A i \in 1 .. Len(toAgent'[a]) : i + d \in 1 .. Len(toAgent[a]) /\ toAgent'[a][i] = toAgent[a][i + d],
         \A i \in 1 .. Len(toAgent'[a]) : q # "none" => toAgent[a][i + d].thread # t
  PROVE  \A i \in 1 .. Len(toAgent'[a]) : OldAsk(a, i, d, q, t)
<1>. SUFFICES ASSUME NEW i \in 1 .. Len(toAgent'[a]) PROVE OldAsk(a, i, d, q, t)
  OBVIOUS
<1>1. i + d \in 1 .. Len(toAgent[a]) /\ toAgent'[a][i] = toAgent[a][i + d]
  OBVIOUS
<1>2. PICK m \in Requests : m = toAgent[a][i + d]
  BY <1>1, TokenThreads
<1>3. m.thread \in Threads /\ m.op \in AnswerOps
  BY DEF Requests
<1>4. WaitsAt(m.thread, a, m.op)
  BY <1>1, <1>2 DEF TokenAt, AskInv
<1>5. Still(m.thread) \/ (m.thread = t /\ q # "none")
  BY <1>3, <1>4 DEF Stays
<1>6. q = "none" \/ m.thread # t
  BY <1>2
<1>. QED  BY <1>1, <1>2, <1>5, <1>6 DEF OldAsk

LEMMA AnswerKept ==
  ASSUME AgentTypes, NEW a \in Agents, TokenAt(a), NEW q, NEW t, Stays(a, q, t), NEW e \in Nat,
         NEW i \in Nat, i + e \in 1 .. Len(toManager[a]), toManager'[a][i] = toManager[a][i + e],
         IsAnswer(toManager[a][i + e]), q # "none" => toManager[a][i + e].thread # t
  PROVE  OldAnswer(a, i, e, q, t)
<1>2. PICK m \in Messages : m = toManager[a][i + e]
  BY TokenThreads
<1>3. m.thread \in Threads /\ m.op \in AnswerOps
  BY <1>2 DEF Messages, IsAnswer
<1>4. WaitsAt(m.thread, a, m.op)
  BY <1>2 DEF TokenAt, AnswerInv
<1>5. Still(m.thread) \/ (m.thread = t /\ q # "none")
  BY <1>3, <1>4 DEF Stays
<1>6. q = "none" \/ m.thread # t
  BY <1>2
<1>. QED  BY <1>2, <1>5, <1>6 DEF OldAnswer

LEMMA WorkKept ==
  ASSUME AgentTypes, NEW a \in Agents, TokenAt(a), NEW q, NEW t, Stays(a, q, t),
         NEW f \in Fds, Busy(a, f), fds'[a][f].thread = fds[a][f].thread, fds'[a][f].busy = fds[a][f].busy,
         q # "none" => fds[a][f].thread # t
  PROVE  OldWork(a, f, q, t)
<1>2. PICK s \in SocketType : s = fds[a][f]
  BY SocketFacts DEF Busy
<1>3. s.thread \in Threads /\ s.busy \in AnswerOps
  <2>1. s.thread \in Threads /\ s.busy \in {"SEND", "RECVTERM"}
    BY <1>2, TokenThreads
  <2>. QED  BY <2>1 DEF AnswerOps, Stats, SocketOps
<1>4. WaitsAt(s.thread, a, s.busy)
  BY <1>2 DEF TokenAt, WorkInv
<1>5. Still(s.thread) \/ (s.thread = t /\ q # "none")
  BY <1>3, <1>4 DEF Stays
<1>6. q = "none" \/ s.thread # t
  BY <1>2
<1>. QED  BY <1>2, <1>5, <1>6 DEF OldWork

LEMMA QuietFacts ==
  ASSUME AgentTypes, NEW a \in Agents, TokenAt(a), NEW t, ~\E op \in AnswerOps : WaitsAt(t, a, op)
  PROVE  Quiet(a, t)
<1>1. ASSUME NEW i \in 1 .. Len(toAgent[a]) PROVE toAgent[a][i].thread # t
  <2>1. WaitsAt(toAgent[a][i].thread, a, toAgent[a][i].op) /\ toAgent[a][i].op \in AnswerOps
    BY TokenThreads DEF TokenAt, AskInv
  <2>. QED  BY <2>1
<1>2. ASSUME NEW i \in 1 .. Len(toManager[a]), IsAnswer(toManager[a][i]) PROVE toManager[a][i].thread # t
  <2>1. WaitsAt(toManager[a][i].thread, a, toManager[a][i].op) /\ toManager[a][i].op \in AnswerOps
    BY <1>2 DEF TokenAt, AnswerInv, IsAnswer
  <2>. QED  BY <2>1
<1>3. ASSUME NEW f \in Fds, Busy(a, f) PROVE fds[a][f].thread # t
  <2>1. WaitsAt(fds[a][f].thread, a, fds[a][f].busy) /\ fds[a][f].busy \in {"SEND", "RECVTERM"}
    BY <1>3, TokenThreads DEF TokenAt, WorkInv
  <2>. QED  BY <2>1 DEF AnswerOps, Stats, SocketOps
<1>. QED  BY <1>1, <1>2, <1>3 DEF Quiet

\* A step that leaves all of this as it is.
LEMMA TokensKept ==
  ASSUME AgentTypes, scenario' = scenario, NEW a \in Agents, TokenAt(a), NEW q, NEW t, Stays(a, q, t),
         q # "none" => Quiet(a, t),
         toAgent'[a] = toAgent[a], toManager'[a] = toManager[a], fds'[a] = fds[a]
  PROVE  TokenAt(a)'
<1>1. \A i \in 1 .. Len(toAgent'[a]) : OldAsk(a, i, 0, q, t)
  <2>1. /\ \A i \in 1 .. Len(toAgent'[a]) : i + 0 \in 1 .. Len(toAgent[a]) /\ toAgent'[a][i] = toAgent[a][i + 0]
        /\ \A i \in 1 .. Len(toAgent'[a]) : q # "none" => toAgent[a][i + 0].thread # t
    BY TokenThreads DEF Quiet
  <2>. QED  BY <2>1, AskKept
<1>2. ASSUME NEW i \in 1 .. Len(toManager'[a]), IsAnswer(toManager'[a][i])
      PROVE  OldAnswer(a, i, 0, q, t)
  <2>1. /\ i \in Nat /\ i + 0 \in 1 .. Len(toManager[a]) /\ toManager'[a][i] = toManager[a][i + 0]
        /\ IsAnswer(toManager[a][i + 0]) /\ (q # "none" => toManager[a][i + 0].thread # t)
    BY <1>2, TokenThreads DEF Quiet
  <2>. QED  BY <2>1, AnswerKept
<1>3. ASSUME NEW f \in Fds, Busy(a, f)'
      PROVE  OldWork(a, f, q, t)
  <2>1. Busy(a, f) /\ fds'[a][f] = fds[a][f] /\ (q # "none" => fds[a][f].thread # t)
    BY <1>3 DEF Busy, Quiet
  <2>. QED  BY <2>1, WorkKept
<1>. QED  BY <1>1, <1>2, <1>3, TokensMove

\* An operation of a thread.
LEMMA TokenOperation ==
  ASSUME IInv, TokenInv, NEW t, Operation(t)
  PROVE  TokenInv'
<1>. SUFFICES ASSUME NEW b \in Agents PROVE TokenAt(b)'
  BY DEF TokenInv, Agents
<1>1. ThreadTypes /\ PlaceInv /\ ResumeInv /\ DataTypes /\ AgentTypes /\ TokenAt(b)
  BY DEF IInv, StateInv, PlaceInv, DataTypes, TokenInv
<1>2. scenario' = scenario /\ t \in Threads /\ InResume(t) /\ \A u \in Threads \ {t} : Still(u)
  BY <1>1, OperationPlaces
<1>3. \A a, op : ~WaitsAt(t, a, op)
  BY <1>2 DEF WaitsAt, Waits
<1>4. Quiet(b, t) /\ \A q : q # "none" => Stays(b, q, t)
  BY <1>1, <1>2, <1>3, QuietFacts DEF Stays
<1>5. CASE toAgent'[b] = toAgent[b] /\ toManager' = toManager /\ fds' = fds
  BY <1>1, <1>2, <1>4, <1>5, TokensKept
<1>6. ASSUME NEW a, NEW id, NEW end \in {"client", "server"}, NEW op \in AnswerOps,
             Issues(t, a, end, op, id)
      PROVE  TokenAt(b)'
  <2>1. /\ At(t, <<end, op>>) /\ a = AgentAt(end, t) /\ Send(t, a, op, id) /\ Wait
        /\ toManager' = toManager /\ fds' = fds
    BY <1>6 DEF Issues, agents
  <2>2. a \in Agents /\ id \in Nat
    BY <1>1, <1>6, IssueTypes
  <2>3. WaitsAt(t, a, op)'
    BY <1>1, <1>2, <2>1, AtWaits
  <2>4. /\ toAgent' \in [Agents -> Seq(Requests)]
        /\ \A c \in Agents \ {a} : toAgent'[c] = toAgent[c]
        /\ Len(toAgent'[a]) = Len(toAgent[a]) + 1 /\ Len(toAgent[a]) \in Nat
        /\ \A i \in 1 .. Len(toAgent[a]) : toAgent'[a][i] = toAgent[a][i]
        /\ toAgent'[a][Len(toAgent[a]) + 1] = [op |-> op, id |-> id, thread |-> t]
        /\ \A i \in 1 .. Len(toAgent'[a]) : i \in 1 .. Len(toAgent[a]) \/ i = Len(toAgent[a]) + 1
    BY <1>1, <1>2, <2>1, <2>2, SendFacts
  <2>5. CASE b # a
    BY <1>5, <2>1, <2>4, <2>5
  <2>6. CASE b = a
    <3>1. ASSUME NEW i \in 1 .. Len(toAgent'[a])
          PROVE  OldAsk(a, i, 0, "ask", t) \/ NewAsk(a, i, "ask", t)
      <4>1. CASE i \in 1 .. Len(toAgent[a])
        <5>1. PICK m \in Requests : m = toAgent[a][i]
          BY <4>1, <1>1, <2>2, TokenThreads
        <5>2. m.thread \in Threads \ {t}
          BY <1>4, <2>6, <4>1, <5>1 DEF Quiet, Requests
        <5>3. i + 0 = i /\ toAgent'[a][i] = m
          BY <2>4, <4>1, <5>1
        <5>4. Still(m.thread)
          BY <1>2, <5>2
        <5>. QED  BY <4>1, <5>1, <5>2, <5>3, <5>4 DEF OldAsk
      <4>2. CASE i = Len(toAgent[a]) + 1
        <5>. DEFINE m == [op |-> op, id |-> id, thread |-> t]
        <5>1. m \in Requests /\ m.thread = t /\ m.op = op
          BY <1>2, <2>2 DEF Requests
        <5>2. toAgent'[a][i] = m /\ i = Len(toAgent'[a])
          BY <2>4, <4>2
        <5>. HIDE DEF m
        <5>. QED  BY <2>3, <5>1, <5>2 DEF NewAsk
      <4>. QED  BY <2>4, <4>1, <4>2
    <3>2. ASSUME NEW i \in 1 .. Len(toManager'[a]), IsAnswer(toManager'[a][i])
          PROVE  OldAnswer(a, i, 0, "ask", t)
      <4>1. /\ i \in Nat /\ i + 0 \in 1 .. Len(toManager[a]) /\ toManager'[a][i] = toManager[a][i + 0]
            /\ IsAnswer(toManager[a][i + 0]) /\ toManager[a][i + 0].thread # t
        BY <1>1, <1>4, <2>1, <2>2, <2>6, <3>2, TokenThreads DEF Quiet
      <4>. QED  BY <1>1, <1>4, <2>2, <2>6, <4>1, AnswerKept
    <3>3. ASSUME NEW f \in Fds, Busy(a, f)'
          PROVE  OldWork(a, f, "ask", t)
      <4>1. Busy(a, f) /\ fds'[a][f] = fds[a][f] /\ fds[a][f].thread # t
        BY <1>4, <2>1, <2>6, <3>3 DEF Busy, Quiet
      <4>. QED  BY <1>1, <1>4, <2>2, <2>6, <4>1, WorkKept
    <3>. QED  BY <1>1, <1>2, <2>2, <2>6, <3>1, <3>2, <3>3, TokensMove
  <2>. QED  BY <2>5, <2>6
<1>7. ASSUME NEW l \in listens, Awaits(t, l)
      PROVE  TokenAt(b)'
  BY <1>5, <1>7 DEF Awaits, agents
<1>8. ASSUME NEW c \in accepts, Takes(t, c)
      PROVE  TokenAt(b)'
  BY <1>5, <1>8 DEF Takes, agents
<1>9. CASE Alone(t)
  BY <1>5, <1>9 DEF Alone, agents
<1>. QED  BY <1>6, <1>7, <1>8, <1>9, OperationCases

\* The steps of velm without an agent.
LEMMA TokenLocal ==
  ASSUME IInv, TokenInv,
         \/ ThreadRests
         \/ \E e \in Events : SyncFires(e)
         \/ \E t \in Threads : DelayEnds(t)
  PROVE  TokenInv'
<1>. SUFFICES ASSUME NEW b \in Agents PROVE TokenAt(b)'
  BY DEF TokenInv, Agents
<1>1. ThreadTypes /\ DataTypes /\ StateInv /\ AgentTypes /\ TokenAt(b)
  BY DEF IInv, DataTypes, TokenInv
<1>2. /\ \A u \in Threads : Still(u) \/ ~\E c, op : c \in Agents /\ WaitsAt(u, c, op)
      /\ UNCHANGED <<scenario, requestNo, tables, toAgent, toManager, agents, incidents>>
  BY <1>1, LocalState
<1>3. Stays(b, "none", 0)
  BY <1>2 DEF Stays
<1>4. toAgent' = toAgent /\ toManager' = toManager /\ fds' = fds /\ scenario' = scenario
  BY <1>2 DEF agents
<1>. QED  BY <1>1, <1>3, <1>4, TokensKept

\* velm takes a message off the queue.
LEMMA TokenHears ==
  ASSUME IInv, NEW a \in Agents, Hear(a), NEW b \in Agents, TokenAt(b),
         NEW q, NEW t, Stays(b, q, t), q # "none" =>
           (IF b = a THEN IsAnswer(toManager[a][1]) /\ toManager[a][1].thread = t ELSE Quiet(b, t))
           \/ Quiet(b, t)
  PROVE  TokenAt(b)'
<1>1. AgentTypes
  BY DEF IInv, DataTypes
<1>2. UNCHANGED <<scenario, requestNo, toAgent, agents>>
  BY <1>1, HearCases
<1>3. scenario' = scenario /\ toAgent' = toAgent /\ fds' = fds
  BY <1>2 DEF agents
<1>4. /\ 1 \in 1 .. Len(toManager[a])
      /\ \A c \in Agents \ {a} : toManager'[c] = toManager[c]
      /\ \A i \in 1 .. Len(toManager'[a]) :
           toManager'[a][i] = toManager[a][i + 1] /\ i + 1 \in 1 .. Len(toManager[a])
  BY <1>1, HearFacts
<1>5. CASE b # a
  <2>1. q # "none" => Quiet(b, t)
    BY <1>5
  <2>. QED  BY <1>1, <1>3, <1>4, <1>5, <2>1, TokensKept
<1>6. CASE b = a
  <2>1. q # "none" =>
          /\ \A i \in 1 .. Len(toAgent[a]) : toAgent[a][i].thread # t
          /\ \A i \in 2 .. Len(toManager[a]) : IsAnswer(toManager[a][i]) => toManager[a][i].thread # t
          /\ \A f \in Fds : Busy(a, f) => fds[a][f].thread # t
    <3>1. SUFFICES ASSUME q # "none", ~Quiet(a, t), IsAnswer(toManager[a][1]), toManager[a][1].thread = t
                   PROVE  Quiet(a, t) \/
                     (/\ \A i \in 1 .. Len(toAgent[a]) : toAgent[a][i].thread # t
                      /\ \A i \in 2 .. Len(toManager[a]) : IsAnswer(toManager[a][i]) => toManager[a][i].thread # t
                      /\ \A f \in Fds : Busy(a, f) => fds[a][f].thread # t)
      <4>1. Quiet(a, t) =>
              (/\ \A i \in 1 .. Len(toAgent[a]) : toAgent[a][i].thread # t
               /\ \A i \in 2 .. Len(toManager[a]) : IsAnswer(toManager[a][i]) => toManager[a][i].thread # t
               /\ \A f \in Fds : Busy(a, f) => fds[a][f].thread # t)
        BY TokenThreads, <1>1 DEF Quiet
      <4>. QED  BY <1>6, <4>1
    <3>2. \A i \in 1 .. Len(toAgent[a]) : toAgent[a][i].thread # t
      BY <1>4, <1>6, <3>1 DEF TokenAt, AskInv
    <3>3. ASSUME NEW i \in 2 .. Len(toManager[a]), IsAnswer(toManager[a][i])
          PROVE  toManager[a][i].thread # t
      <4>1. i \in 1 .. Len(toManager[a]) /\ i # 1
        OBVIOUS
      <4>. QED  BY <1>4, <1>6, <3>1, <3>3, <4>1 DEF TokenAt, AnswerInv
    <3>4. \A f \in Fds : Busy(a, f) => fds[a][f].thread # t
      BY <1>4, <1>6, <3>1 DEF TokenAt, AnswerInv
    <3>. QED  BY <3>2, <3>3, <3>4
  <2>2. \A i \in 1 .. Len(toAgent'[a]) : OldAsk(a, i, 0, q, t)
    <3>1. /\ \A i \in 1 .. Len(toAgent'[a]) : i + 0 \in 1 .. Len(toAgent[a]) /\ toAgent'[a][i] = toAgent[a][i + 0]
          /\ \A i \in 1 .. Len(toAgent'[a]) : q # "none" => toAgent[a][i + 0].thread # t
      BY <1>1, <1>3, <2>1, TokenThreads
    <3>. QED  BY <1>1, <1>6, <3>1, AskKept
  <2>3. ASSUME NEW i \in 1 .. Len(toManager'[a]), IsAnswer(toManager'[a][i])
        PROVE  OldAnswer(a, i, 1, q, t)
    <3>1. i + 1 \in 1 .. Len(toManager[a]) /\ toManager'[a][i] = toManager[a][i + 1] /\ i \in Nat /\ i + 1 \in 2 .. Len(toManager[a])
      BY <1>1, <1>4, TokenThreads
    <3>2. q # "none" => toManager[a][i + 1].thread # t
      BY <2>1, <2>3, <3>1
    <3>3. IsAnswer(toManager[a][i + 1])
      BY <2>3, <3>1
    <3>. QED  BY <1>1, <1>6, <3>1, <3>2, <3>3, AnswerKept
  <2>4. ASSUME NEW f \in Fds, Busy(a, f)'
        PROVE  OldWork(a, f, q, t)
    <3>1. Busy(a, f) /\ fds'[a][f] = fds[a][f] /\ (q # "none" => fds[a][f].thread # t)
      BY <1>3, <2>1, <2>4 DEF Busy
    <3>. QED  BY <1>1, <1>6, <3>1, WorkKept
  <2>. QED  BY <1>1, <1>3, <1>6, <2>2, <2>3, <2>4, TokensMove
<1>. QED  BY <1>5, <1>6

LEMMA TokenHear ==
  ASSUME IInv, TokenInv, OwnAnswers, NEW a \in Agents, Hear(a)
  PROVE  TokenInv'
<1>. DEFINE m == toManager[a][1]
<1>. SUFFICES ASSUME NEW b \in Agents PROVE TokenAt(b)'
  BY DEF TokenInv, Agents
<1>1. ThreadTypes /\ DataTypes /\ AgentTypes /\ StateInv /\ PlaceInv /\ TokenAt(b) /\ TokenAt(a)
  BY DEF IInv, DataTypes, StateInv, TokenInv
<1>3. resume = <<>>
  BY DEF Hear, Idle
<1>4. HearSteps(a, m) /\ scenario' = scenario
  BY <1>1, HearCases
<1>5. 1 \in 1 .. Len(toManager[a]) /\ m \in Messages /\ Proper(a, m)
  BY <1>1, HearFacts DEF DataTypes, FdTypes
<1>. HIDE DEF m
<1>6. CASE UNCHANGED threads
  <2>1. \A u : Still(u)
    BY <1>1, <1>4, <1>6, UnmovedPlaces
  <2>2. Stays(b, "none", 0)
    BY <2>1 DEF Stays
  <2>. QED  BY <1>1, <2>2, TokenHears
<1>7. ASSUME NEW r \in requests[a], m.op \in AnswerOps, Settles(a, m, r)
      PROVE  TokenAt(b)'
  <2>. DEFINE t == r.thread
  <2>1. t \in Threads /\ WaitsAt(t, a, m.op) /\ \A u \in Threads \ {t} : Still(u)
    BY <1>1, <1>3, <1>4, <1>5, <1>7, SettleState DEF Proper
  <2>2. m.thread = t
    BY <1>5, <1>7 DEF OwnAnswers, IsAnswer, Settles, m
  <2>3. Stays(b, "gone", t)
    BY <2>1 DEF Stays
  <2>4. CASE b = a
    BY <1>1, <1>7, <2>2, <2>3, <2>4, TokenHears DEF m, IsAnswer
  <2>5. CASE b # a
    <3>1. ~\E op \in AnswerOps : WaitsAt(t, b, op)
      BY <1>1, <2>1, <2>5, WaitsAtFacts
    <3>2. Quiet(b, t)
      BY <1>1, <3>1, QuietFacts
    <3>. QED  BY <1>1, <2>3, <2>5, <3>2, TokenHears
  <2>. QED  BY <2>4, <2>5
<1>8. ASSUME NEW r \in requests[Server], m.op = "ACCEPTED", Admits(m, r)
      PROVE  TokenAt(b)'
  <2>. DEFINE t == r.thread
  <2>1. m.id_sock \in Fds
    BY <1>5, <1>8 DEF Proper
  <2>2. t \in Threads /\ WaitsAt(t, Server, "ACCEPT") /\ \A u \in Threads \ {t} : Still(u)
    BY <1>1, <1>3, <1>4, <1>8, <2>1, AdmitState
  <2>3. ~\E op \in AnswerOps : WaitsAt(t, b, op)
    <3>1. \A c, op : WaitsAt(t, c, op) => op = "ACCEPT"
      BY <1>1, <2>2, WaitsAtFacts DEF Agents
    <3>. QED  BY <3>1 DEF AnswerOps
  <2>4. Quiet(b, t)
    BY <1>1, <2>3, QuietFacts
  <2>5. Stays(b, "gone", t)
    BY <2>2 DEF Stays
  <2>. QED  BY <1>1, <2>4, <2>5, TokenHears
<1>9. CASE m.op = "ACCEPTED" /\ Keeps(m)
  BY <1>6, <1>9 DEF Keeps
<1>. QED  BY <1>4, <1>6, <1>7, <1>8, <1>9 DEF HearSteps, Unexpected

\* An agent tells velm something; an answer takes the place of the request or
\* of the work that it ends.
LEMMA TokenTold ==
  ASSUME AgentTypes, scenario' = scenario, NEW a \in Agents, TokenAt(a), \A u \in Threads : Still(u),
         NEW m \in Messages, Tell(a, m), NEW d \in Nat,
         \A i \in 1 .. Len(toAgent'[a]) :
           /\ i + d \in 1 .. Len(toAgent[a]) /\ toAgent'[a][i] = toAgent[a][i + d]
           /\ IsAnswer(m) => toAgent[a][i + d].thread # m.thread,
         IsAnswer(m) => WaitsAt(m.thread, a, m.op),
         IsAnswer(m) => \A i \in 1 .. Len(toManager[a]) :
           IsAnswer(toManager[a][i]) => toManager[a][i].thread # m.thread,
         \A f \in Fds : Busy(a, f)' =>
           /\ Busy(a, f) /\ fds'[a][f].thread = fds[a][f].thread /\ fds'[a][f].busy = fds[a][f].busy
           /\ IsAnswer(m) => fds[a][f].thread # m.thread
  PROVE  TokenAt(a)'
<1>. DEFINE q == IF IsAnswer(m) THEN "answer" ELSE "none"
            t == m.thread
<1>0. /\ q # "none" => IsAnswer(m)
      /\ IsAnswer(m) => q = "answer"
  OBVIOUS
<1>1. Stays(a, q, t)
  BY DEF Stays
<1>2. /\ Len(toManager'[a]) = Len(toManager[a]) + 1 /\ Len(toManager[a]) \in Nat
      /\ \A i \in 1 .. Len(toManager[a]) : toManager'[a][i] = toManager[a][i]
      /\ toManager'[a][Len(toManager[a]) + 1] = m
      /\ \A i \in 1 .. Len(toManager'[a]) : i \in 1 .. Len(toManager[a]) \/ i = Len(toManager[a]) + 1
  BY TellFacts
<1>. HIDE DEF q
<1>3. \A i \in 1 .. Len(toAgent'[a]) : OldAsk(a, i, d, q, t)
  <2>1. /\ \A i \in 1 .. Len(toAgent'[a]) : i + d \in 1 .. Len(toAgent[a]) /\ toAgent'[a][i] = toAgent[a][i + d]
        /\ \A i \in 1 .. Len(toAgent'[a]) : q # "none" => toAgent[a][i + d].thread # t
    BY <1>0
  <2>. QED  BY <1>1, <2>1, AskKept
<1>4. ASSUME NEW i \in 1 .. Len(toManager'[a]), IsAnswer(toManager'[a][i])
      PROVE  OldAnswer(a, i, 0, q, t) \/ NewAnswer(a, i, q, t)
  <2>1. CASE i \in 1 .. Len(toManager[a])
    <3>1. /\ i \in Nat /\ i + 0 \in 1 .. Len(toManager[a]) /\ toManager'[a][i] = toManager[a][i + 0]
          /\ IsAnswer(toManager[a][i + 0]) /\ (q # "none" => toManager[a][i + 0].thread # t)
      BY <1>0, <1>2, <1>4, <2>1
    <3>. QED  BY <1>1, <3>1, AnswerKept
  <2>2. CASE i = Len(toManager[a]) + 1
    <3>1. toManager'[a][i] = m /\ i = Len(toManager'[a]) /\ q = "answer"
      BY <1>0, <1>2, <1>4, <2>2
    <3>2. WaitsAt(t, a, m.op)'
      <4>1. WaitsAt(t, a, m.op) /\ t \in Threads /\ Still(t)
        BY <1>2, <1>4, <2>2 DEF Messages
      <4>2. PICK u \in Threads, op \in AnswerOps : u = t /\ op = m.op
        BY <1>2, <1>4, <2>2, <4>1 DEF IsAnswer
      <4>3. WaitsAt(u, a, op)'
        BY <4>1, <4>2, StillFacts
      <4>. QED  BY <4>2, <4>3
    <3>. QED  BY <3>1, <3>2 DEF NewAnswer
  <2>. QED  BY <1>2, <2>1, <2>2
<1>5. ASSUME NEW f \in Fds, Busy(a, f)'
      PROVE  OldWork(a, f, q, t)
  <2>1. Busy(a, f) /\ fds'[a][f].thread = fds[a][f].thread /\ fds'[a][f].busy = fds[a][f].busy
    BY <1>5
  <2>2. q # "none" => fds[a][f].thread # t
    BY <1>0, <1>5
  <2>. QED  BY <1>1, <2>1, <2>2, WorkKept
<1>. QED  BY <1>3, <1>4, <1>5, TokensMove

\* An agent begins to send or to wait for what is sent.
LEMMA TokenBegins ==
  ASSUME AgentTypes, scenario' = scenario, NEW a \in Agents, TokenAt(a), \A u \in Threads : Still(u),
         NEW g \in Fds, NEW t \in Threads, toManager' = toManager,
         \A i \in 1 .. Len(toAgent'[a]) :
           /\ i + 1 \in 1 .. Len(toAgent[a]) /\ toAgent'[a][i] = toAgent[a][i + 1]
           /\ toAgent[a][i + 1].thread # t,
         fds'[a][g] \in SocketType, fds'[a][g].thread = t, WaitsAt(t, a, fds'[a][g].busy),
         fds'[a][g].busy \in {"SEND", "RECVTERM"},
         \A i \in 1 .. Len(toManager[a]) : IsAnswer(toManager[a][i]) => toManager[a][i].thread # t,
         \A f \in Fds \ {g} : fds'[a][f] = fds[a][f],
         \A f \in Fds : Busy(a, f) => fds[a][f].thread # t
  PROVE  TokenAt(a)'
<1>1. Stays(a, "work", t)
  BY DEF Stays
<1>2. \A i \in 1 .. Len(toAgent'[a]) : OldAsk(a, i, 1, "work", t)
  BY <1>1, AskKept
<1>3. ASSUME NEW i \in 1 .. Len(toManager'[a]), IsAnswer(toManager'[a][i])
      PROVE  OldAnswer(a, i, 0, "work", t)
  <2>1. /\ i \in Nat /\ i + 0 \in 1 .. Len(toManager[a]) /\ toManager'[a][i] = toManager[a][i + 0]
        /\ IsAnswer(toManager[a][i + 0]) /\ toManager[a][i + 0].thread # t
    BY <1>3, TokenThreads
  <2>. QED  BY <1>1, <2>1, AnswerKept
<1>4. ASSUME NEW f \in Fds, Busy(a, f)'
      PROVE  OldWork(a, f, "work", t) \/ NewWork(a, f, g, "work", t)
  <2>1. CASE f # g
    <3>1. fds'[a][f] = fds[a][f]
      BY <2>1
    <3>2. Busy(a, f) /\ fds'[a][f].thread = fds[a][f].thread /\ fds'[a][f].busy = fds[a][f].busy
      BY <1>4, <3>1 DEF Busy
    <3>. QED  BY <1>1, <3>2, WorkKept
  <2>2. CASE f = g
    <3>1. PICK s \in SocketType : s = fds'[a][g]
      OBVIOUS
    <3>2. PICK op \in {"SEND", "RECVTERM"} : op = s.busy
      BY <3>1
    <3>3. WaitsAt(t, a, op)'
      BY <3>1, <3>2, StillFacts
    <3>. QED  BY <2>2, <3>1, <3>2, <3>3 DEF NewWork
  <2>. QED  BY <2>1, <2>2
<1>. QED  BY <1>2, <1>3, <1>4, TokensMove

LEMMA SameBusy ==
  ASSUME NEW b, NEW f, Busy(b, f)', fds'[b][f] = fds[b][f]
  PROVE  Busy(b, f) /\ fds'[b][f].thread = fds[b][f].thread /\ fds'[b][f].busy = fds[b][f].busy
BY DEF Busy

LEMMA ServeOutcome ==
  ASSUME IInv, NEW a \in Agents, Serve(a), "stray" \notin incidents',
         NEW r, r = toAgent[a][1]
  PROVE  /\ r \in Requests /\ scenario' = scenario /\ UNCHANGED threads
         /\ \/ \E m \in Messages : Served(a, r, m)
            \/ /\ Begins(a, r) /\ r.id \in Fds /\ fds[a][r.id] # FreeFd
               /\ fds[a][r.id].thread = r.thread
<1>1. ThreadTypes /\ DataTypes /\ AgentTypes
  BY DEF IInv, DataTypes
<1>2. /\ 1 \in 1 .. Len(toAgent[a]) /\ r \in Requests
      /\ ServeNew(a, r) \/ ServeSocket(a, r)
  BY <1>1, ServeFacts
<1>3. /\ r.op \in AnswerOps /\ r.id \in Nat /\ r.thread \in Threads
      /\ r.op \in SocketOps => r.id \in Fds
  BY <1>1, <1>2 DEF DataTypes, FdTypes, Requests
<1>4. scenario' = scenario /\ UNCHANGED threads /\ scenario \in Scenarios
  BY <1>1 DEF Serve, ThreadTypes
<1>5. \A f \in Nat, ok \in BOOLEAN :
        /\ Answer(r.op, r.id, f, r.thread, ok) \in Messages
        /\ Answer(r.op, r.id, f, r.thread, ok).op = r.op
        /\ Answer(r.op, r.id, f, r.thread, ok).id = r.id
        /\ Answer(r.op, r.id, f, r.thread, ok).thread = r.thread
  BY <1>3, AnswerFacts
<1>6. ASSUME NEW f \in Nat, NEW ok \in BOOLEAN, Tell(a, Answer(r.op, r.id, f, r.thread, ok)),
             \A b \in Agents, g \in Fds : Busy(b, g)' =>
               Busy(b, g) /\ fds'[b][g].thread = fds[b][g].thread /\ fds'[b][g].busy = fds[b][g].busy
      PROVE  \E m \in Messages : Served(a, r, m)
  BY <1>5, <1>6 DEF Served
<1>7. CASE r.op \in NewOps
  <2>1. Declines(a, r) \/ \E f \in Fds, k \in {"tcp", "udp", "listen"} : Creates(a, r, f, k)
    BY <1>1, <1>2, <1>4, <1>7, NewCases
  <2>2. CASE Declines(a, r)
    BY <1>2, <1>4, <1>6, <2>2, SameBusy DEF Declines
  <2>3. ASSUME NEW f \in Fds, NEW k \in {"tcp", "udp", "listen"}, Creates(a, r, f, k)
        PROVE  \E m \in Messages : Served(a, r, m)
    <3>1. /\ fds[a][f] = FreeFd /\ fds' = [fds EXCEPT ![a][f] = Socket(k, r.thread, r.id)]
          /\ Tell(a, Answer(r.op, r.id, f, r.thread, TRUE))
      BY <2>3 DEF Creates
    <3>2. Socket(k, r.thread, r.id) \in SocketType /\ Socket(k, r.thread, r.id).busy = "no"
      <4>1. r.thread \in Threads /\ r.id \in Nat
        BY <1>3
      <4>2. PICK t \in Threads, n \in Nat : t = r.thread /\ n = r.id
        BY <4>1
      <4>3. Socket(k, t, n) \in SocketType /\ Socket(k, t, n).busy = "no"
        BY DEF Socket, SocketType
      <4>. QED  BY <4>2, <4>3
    <3>3. /\ fds'[a][f] = Socket(k, r.thread, r.id)
          /\ \A g \in Fds \ {f} : fds'[a][g] = fds[a][g]
          /\ \A b \in Agents \ {a} : fds'[b] = fds[b]
      BY <1>1, <3>1, <3>2, PutFacts
    <3>4. ASSUME NEW b \in Agents, NEW g \in Fds, Busy(b, g)'
          PROVE  fds'[b][g] = fds[b][g]
      <4>1. ~(b = a /\ g = f)
        BY <3>2, <3>3, <3>4 DEF Busy
      <4>. QED  BY <3>3, <4>1
    <3>5. f \in Nat /\ TRUE \in BOOLEAN
      BY DEF Fds
    <3>. QED  BY <1>6, <3>1, <3>4, <3>5, SameBusy
  <2>. QED  BY <1>2, <1>4, <2>1, <2>2, <2>3
<1>8. CASE r.op \in SocketOps
  <2>1. r.id \in Fds /\ r.id \in Nat
    BY <1>3, <1>8
  <2>2. \/ Misses(a, r)
        \/ /\ fds[a][r.id] # FreeFd /\ fds[a][r.id].thread = r.thread
           /\ Dials(a, r) \/ Reads(a, r) \/ Begins(a, r) \/ Shuts(a, r)
    BY <1>1, <1>2, <1>8, <2>1, SocketCases
  <2>3. CASE Misses(a, r) \/ Dials(a, r)
    <3>1. fds' = fds /\ \E ok \in BOOLEAN : Tell(a, Answer(r.op, r.id, r.id, r.thread, ok))
      <4>1. CASE Misses(a, r)
        BY <4>1 DEF Misses
      <4>2. CASE Dials(a, r)
        <5>1. fds' = fds /\ Tell(a, Answer(r.op, r.id, r.id, r.thread,
                                  fds[a][r.id].kind = "udp" \/ ListensAt(Conn(r.thread).port)))
          BY <4>2 DEF Dials
        <5>2. PICK ok \in BOOLEAN : ok = (fds[a][r.id].kind = "udp" \/ ListensAt(Conn(r.thread).port))
          OBVIOUS
        <5>. QED  BY <5>1, <5>2
      <4>. QED  BY <2>3, <4>1, <4>2
    <3>. QED  BY <1>2, <1>4, <1>6, <2>1, <3>1, SameBusy
  <2>4. CASE (Reads(a, r) \/ Shuts(a, r)) /\ fds[a][r.id] # FreeFd
    <3>1. PICK new \in {FreeFd} \union SocketType :
            /\ fds' = [fds EXCEPT ![a][r.id] = new]
            /\ \/ new = FreeFd
               \/ new # FreeFd /\ new.busy = fds[a][r.id].busy /\ new.thread = fds[a][r.id].thread
      <4>1. CASE Reads(a, r)
        <5>. DEFINE s == fds[a][r.id]
                    new == [s EXCEPT !.reads = TRUE]
        <5>1. s \in SocketType /\ s # FreeFd
          BY <1>1, <2>1, <2>4, SocketFacts
        <5>2. new \in SocketType /\ new.busy = s.busy /\ new.thread = s.thread
          BY <5>1 DEF SocketType
        <5>3. fds' = [fds EXCEPT ![a][r.id] = new]
          BY <4>1 DEF Reads
        <5>4. new # FreeFd
          BY <5>2, FreeIsNoSocket
        <5>. HIDE DEF s, new
        <5>5. new \in {FreeFd} \union SocketType
          BY <5>2
        <5>. QED  BY <5>2, <5>3, <5>4, <5>5 DEF s
      <4>2. CASE Shuts(a, r)
        BY <4>2 DEF Shuts
      <4>. QED  BY <2>4, <4>1, <4>2
    <3>2. Tell(a, Answer(r.op, r.id, r.id, r.thread, TRUE)) /\ TRUE \in BOOLEAN
      BY <2>4 DEF Reads, Shuts
    <3>3. /\ fds'[a][r.id] = new
          /\ \A g \in Fds \ {r.id} : fds'[a][g] = fds[a][g]
          /\ \A b \in Agents \ {a} : fds'[b] = fds[b]
      <4>1. fds' = [fds EXCEPT ![a][r.id] = new] /\ new \in {FreeFd} \union SocketType /\ r.id \in Fds
        BY <2>1, <3>1
      <4>2. PICK f \in Fds : f = r.id
        BY <4>1
      <4>3. fds' = [fds EXCEPT ![a][f] = new]
        BY <4>1, <4>2
      <4>4. PICK n \in {FreeFd} \union SocketType : n = new
        BY <4>1
      <4>5. fds' = [fds EXCEPT ![a][f] = n]
        BY <4>3, <4>4
      <4>6. /\ fds'[a][f] = n
            /\ \A g \in Fds \ {f} : fds'[a][g] = fds[a][g]
            /\ \A b \in Agents \ {a} : fds'[b] = fds[b]
        BY <1>1, <4>5, PutFacts
      <4>. QED  BY <4>2, <4>4, <4>6
    <3>4. ASSUME NEW b \in Agents, NEW g \in Fds, Busy(b, g)'
          PROVE  Busy(b, g) /\ fds'[b][g].thread = fds[b][g].thread /\ fds'[b][g].busy = fds[b][g].busy
      <4>1. CASE b = a /\ g = r.id
        BY <2>4, <3>1, <3>3, <3>4, <4>1 DEF Busy
      <4>2. CASE ~(b = a /\ g = r.id)
        <5>1. fds'[b][g] = fds[b][g]
          BY <3>3, <4>2
        <5>. QED  BY <3>4, <5>1, SameBusy
      <4>. QED  BY <4>1, <4>2
    <3>5. \E m \in Messages : Served(a, r, m)
      BY <1>6, <2>1, <3>2, <3>4
    <3>. QED  BY <1>2, <1>4, <3>5
  <2>. QED  BY <1>2, <1>4, <2>1, <2>2, <2>3, <2>4
<1>9. AnswerOps \subseteq NewOps \union SocketOps
  BY DEF AnswerOps, Stats, NewOps
<1>. QED  BY <1>3, <1>7, <1>8, <1>9

\* At another agent nothing changes.
LEMMA TokensAside ==
  ASSUME AgentTypes, scenario' = scenario, NEW b \in Agents, TokenAt(b), \A u \in Threads : Still(u),
         toAgent'[b] = toAgent[b], toManager'[b] = toManager[b],
         \A f \in Fds : Busy(b, f)' =>
           Busy(b, f) /\ fds'[b][f].thread = fds[b][f].thread /\ fds'[b][f].busy = fds[b][f].busy
  PROVE  TokenAt(b)'
<1>1. Stays(b, "none", 0)
  BY DEF Stays
<1>2. \A i \in 1 .. Len(toAgent'[b]) : OldAsk(b, i, 0, "none", 0)
  <2>1. \A i \in 1 .. Len(toAgent'[b]) : i + 0 \in 1 .. Len(toAgent[b]) /\ toAgent'[b][i] = toAgent[b][i + 0]
    BY TokenThreads
  <2>. QED  BY <1>1, <2>1, AskKept
<1>3. ASSUME NEW i \in 1 .. Len(toManager'[b]), IsAnswer(toManager'[b][i])
      PROVE  OldAnswer(b, i, 0, "none", 0)
  <2>1. /\ i \in Nat /\ i + 0 \in 1 .. Len(toManager[b]) /\ toManager'[b][i] = toManager[b][i + 0]
        /\ IsAnswer(toManager[b][i + 0])
    BY <1>3, TokenThreads
  <2>. QED  BY <1>1, <2>1, AnswerKept
<1>4. ASSUME NEW f \in Fds, Busy(b, f)'
      PROVE  OldWork(b, f, "none", 0)
  BY <1>1, <1>4, WorkKept
<1>. QED  BY <1>2, <1>3, <1>4, TokensMove

\* The request that an agent takes is the only thing under way for its thread.
LEMMA AskedAlone ==
  ASSUME AgentTypes, NEW a \in Agents, TokenAt(a), 1 \in 1 .. Len(toAgent[a]),
         NEW r, r = toAgent[a][1]
  PROVE  /\ WaitsAt(r.thread, a, r.op)
         /\ \A i \in 1 .. Len(toAgent[a]) : i # 1 => toAgent[a][i].thread # r.thread
         /\ \A i \in 1 .. Len(toManager[a]) : IsAnswer(toManager[a][i]) => toManager[a][i].thread # r.thread
         /\ \A f \in Fds : Busy(a, f) => fds[a][f].thread # r.thread
BY DEF TokenAt, AskInv

LEMMA TokenServe ==
  ASSUME IInv, TokenInv, NEW a \in Agents, Serve(a), "stray" \notin incidents'
  PROVE  TokenInv'
<1>. DEFINE r == toAgent[a][1]
<1>1. AgentTypes /\ TokenAt(a) /\ ThreadTypes /\ PlaceInv
  BY DEF IInv, DataTypes, TokenInv, StateInv
<1>2. /\ 1 \in 1 .. Len(toAgent[a])
      /\ \A b \in Agents \ {a} : toAgent'[b] = toAgent[b]
      /\ \A i \in 1 .. Len(toAgent'[a]) :
           toAgent'[a][i] = toAgent[a][i + 1] /\ i + 1 \in 1 .. Len(toAgent[a])
  BY <1>1, ServeFacts
<1>3. /\ r \in Requests /\ scenario' = scenario /\ UNCHANGED threads
      /\ \/ \E m \in Messages : Served(a, r, m)
         \/ /\ Begins(a, r) /\ r.id \in Fds /\ fds[a][r.id] # FreeFd
            /\ fds[a][r.id].thread = r.thread
  BY ServeOutcome
<1>4. \A u : Still(u)
  BY <1>1, <1>3, UnmovedPlaces
<1>5. /\ WaitsAt(r.thread, a, r.op)
      /\ \A i \in 1 .. Len(toAgent[a]) : i # 1 => toAgent[a][i].thread # r.thread
      /\ \A i \in 1 .. Len(toManager[a]) : IsAnswer(toManager[a][i]) => toManager[a][i].thread # r.thread
      /\ \A f \in Fds : Busy(a, f) => fds[a][f].thread # r.thread
  BY <1>1, <1>2, AskedAlone
<1>6. r.thread \in Threads /\ r.op \in AnswerOps
  BY <1>3 DEF Requests
<1>7. \A i \in 1 .. Len(toAgent'[a]) :
        i + 1 \in 1 .. Len(toAgent[a]) /\ toAgent'[a][i] = toAgent[a][i + 1] /\ toAgent[a][i + 1].thread # r.thread
  BY <1>2, <1>5
<1>. HIDE DEF r
<1>8. ASSUME NEW m \in Messages, Served(a, r, m)
      PROVE  TokenInv'
  <2>1. /\ Tell(a, m) /\ m.op = r.op /\ m.thread = r.thread
        /\ \A b \in Agents, f \in Fds : Busy(b, f)' =>
             Busy(b, f) /\ fds'[b][f].thread = fds[b][f].thread /\ fds'[b][f].busy = fds[b][f].busy
    BY <1>8 DEF Served
  <2>2. TokenAt(a)'
    <3>1. WaitsAt(m.thread, a, m.op)
      BY <1>5, <2>1
    <3>2. \A i \in 1 .. Len(toAgent'[a]) :
            /\ i + 1 \in 1 .. Len(toAgent[a]) /\ toAgent'[a][i] = toAgent[a][i + 1]
            /\ IsAnswer(m) => toAgent[a][i + 1].thread # m.thread
      BY <1>7, <2>1
    <3>3. IsAnswer(m) => \A i \in 1 .. Len(toManager[a]) :
            IsAnswer(toManager[a][i]) => toManager[a][i].thread # m.thread
      BY <1>5, <2>1
    <3>4. \A f \in Fds : Busy(a, f)' =>
            /\ Busy(a, f) /\ fds'[a][f].thread = fds[a][f].thread /\ fds'[a][f].busy = fds[a][f].busy
            /\ IsAnswer(m) => fds[a][f].thread # m.thread
      BY <1>5, <2>1
    <3>5. Tell(a, m) /\ \A u \in Threads : Still(u)
      BY <1>4, <2>1
    <3>. QED  BY <1>1, <1>3, <3>1, <3>2, <3>3, <3>4, <3>5, TokenTold
  <2>3. ASSUME NEW b \in Agents \ {a} PROVE TokenAt(b)'
    <3>1. toManager'[b] = toManager[b] /\ toAgent'[b] = toAgent[b] /\ TokenAt(b)
      BY <1>1, <1>2, <2>1, TellFacts DEF TokenInv
    <3>. QED  BY <1>1, <1>3, <1>4, <2>1, <3>1, TokensAside
  <2>. QED  BY <2>2, <2>3 DEF TokenInv, Agents
<1>9. CASE Begins(a, r) /\ r.id \in Fds /\ fds[a][r.id] # FreeFd /\ fds[a][r.id].thread = r.thread
  <2>1. PICK g \in Fds : g = r.id
    BY <1>9
  <2>2. PICK s \in SocketType : s = fds[a][g]
    BY <1>1, <1>9, <2>1, SocketFacts
  <2>. DEFINE new == [s EXCEPT !.busy = r.op]
  <2>3. r.op \in {"SEND", "RECVTERM"} /\ fds' = [fds EXCEPT ![a][g] = new] /\ toManager' = toManager
    BY <1>9, <2>1, <2>2 DEF Begins
  <2>4. new \in SocketType /\ new.busy = r.op /\ new.thread = r.thread
    BY <1>9, <2>1, <2>2, <2>3 DEF SocketType
  <2>. HIDE DEF new
  <2>5. /\ fds'[a][g] = new
        /\ \A f \in Fds \ {g} : fds'[a][f] = fds[a][f]
        /\ \A b \in Agents \ {a} : fds'[b] = fds[b]
    BY <1>1, <2>3, <2>4, PutFacts
  <2>6. TokenAt(a)'
    <3>1. /\ fds'[a][g] \in SocketType /\ fds'[a][g].thread = r.thread
          /\ WaitsAt(r.thread, a, fds'[a][g].busy) /\ fds'[a][g].busy \in {"SEND", "RECVTERM"}
      BY <1>5, <2>3, <2>4, <2>5
    <3>2. PICK t \in Threads : t = r.thread
      BY <1>6
    <3>. QED  BY <1>1, <1>3, <1>4, <1>5, <1>7, <2>3, <2>5, <3>1, <3>2, TokenBegins
  <2>7. ASSUME NEW b \in Agents \ {a} PROVE TokenAt(b)'
    <3>1. toManager'[b] = toManager[b] /\ toAgent'[b] = toAgent[b] /\ TokenAt(b) /\ fds'[b] = fds[b]
      BY <1>2, <2>3, <2>5 DEF TokenInv
    <3>2. Stays(b, "none", 0)
      BY <1>4 DEF Stays
    <3>. QED  BY <1>1, <1>3, <3>1, <3>2, TokensKept
  <2>. QED  BY <2>6, <2>7 DEF TokenInv, Agents
<1>. QED  BY <1>3, <1>8, <1>9

\* What an agent tells on its own.
LEMMA TokenTells ==
  ASSUME AgentTypes, scenario' = scenario, TokenInv, \A u \in Threads : Still(u), toAgent' = toAgent,
         NEW a \in Agents, NEW m \in Messages, Tell(a, m),
         IsAnswer(m) =>
           /\ WaitsAt(m.thread, a, m.op)
           /\ \A i \in 1 .. Len(toAgent[a]) : toAgent[a][i].thread # m.thread
           /\ \A i \in 1 .. Len(toManager[a]) : IsAnswer(toManager[a][i]) => toManager[a][i].thread # m.thread,
         \A b \in Agents, f \in Fds : Busy(b, f)' =>
           /\ Busy(b, f) /\ fds'[b][f].thread = fds[b][f].thread /\ fds'[b][f].busy = fds[b][f].busy
           /\ b = a /\ IsAnswer(m) => fds[b][f].thread # m.thread
  PROVE  TokenInv'
<1>1. TokenAt(a)'
  <2>1. TokenAt(a)
    BY DEF TokenInv
  <2>2. \A i \in 1 .. Len(toAgent'[a]) :
          /\ i + 0 \in 1 .. Len(toAgent[a]) /\ toAgent'[a][i] = toAgent[a][i + 0]
          /\ IsAnswer(m) => toAgent[a][i + 0].thread # m.thread
    BY TokenThreads
  <2>3. \A f \in Fds : Busy(a, f)' =>
          /\ Busy(a, f) /\ fds'[a][f].thread = fds[a][f].thread /\ fds'[a][f].busy = fds[a][f].busy
          /\ IsAnswer(m) => fds[a][f].thread # m.thread
    OBVIOUS
  <2>. QED  BY <2>1, <2>2, <2>3, TokenTold
<1>2. ASSUME NEW b \in Agents \ {a} PROVE TokenAt(b)'
  <2>1. toManager'[b] = toManager[b] /\ toAgent'[b] = toAgent[b] /\ TokenAt(b)
    BY TellFacts DEF TokenInv
  <2>. QED  BY <2>1, TokensAside
<1>. QED  BY <1>1, <1>2 DEF TokenInv, Agents

\* Nothing else is under way for a thread whose socket is busy.
LEMMA BusyAlone ==
  ASSUME AgentTypes, NEW a \in Agents, TokenAt(a), NEW f \in Fds, Busy(a, f),
         NEW t, t = fds[a][f].thread
  PROVE  /\ WaitsAt(t, a, fds[a][f].busy) /\ t \in Threads
         /\ \A i \in 1 .. Len(toAgent[a]) : toAgent[a][i].thread # t
         /\ \A i \in 1 .. Len(toManager[a]) : IsAnswer(toManager[a][i]) => toManager[a][i].thread # t
         /\ \A g \in Fds : Busy(a, g) /\ fds[a][g].thread = t => f = g
BY TokenThreads DEF TokenAt, AskInv, AnswerInv, WorkInv

LEMMA TokenReport ==
  ASSUME IInv, TokenInv, NEW a \in Agents, NEW f \in Fds, Report(a, f)
  PROVE  TokenInv'
<1>1. AgentTypes /\ TokenAt(a) /\ ThreadTypes /\ PlaceInv
  BY DEF IInv, DataTypes, TokenInv, StateInv
<1>2. /\ UNCHANGED <<scenario, threads>> /\ toAgent' = toAgent /\ scenario' = scenario
      /\ Busy(a, f) /\ fds' = [fds EXCEPT ![a][f].busy = "no"]
      /\ Tell(a, Answer(fds[a][f].busy, f, f, fds[a][f].thread, TRUE))
  BY DEF Report, Busy
<1>3. \A u : Still(u)
  BY <1>1, <1>2, UnmovedPlaces
<1>4. PICK s \in SocketType : s = fds[a][f]
  BY <1>1, <1>2, SocketFacts DEF Busy
<1>5. s.busy \in {"SEND", "RECVTERM"} /\ s.thread \in Threads
  BY <1>1, <1>2, <1>4, TokenThreads
<1>6. PICK op \in AnswerOps, t \in Threads : op = s.busy /\ t = s.thread
  BY <1>5 DEF AnswerOps, Stats, SocketOps
<1>. DEFINE m == Answer(op, f, f, t, TRUE)
<1>7. m \in Messages /\ m.op = op /\ m.thread = t
  <2>1. op \in AnswerOps \union {"ACCEPTED", "CLOSED"} /\ f \in Nat /\ TRUE \in BOOLEAN
    BY DEF Fds
  <2>. QED  BY <2>1 DEF Answer, Messages
<1>8. Tell(a, m)
  BY <1>2, <1>4, <1>6
<1>. HIDE DEF m
<1>9. /\ WaitsAt(t, a, op)
      /\ \A i \in 1 .. Len(toAgent[a]) : toAgent[a][i].thread # t
      /\ \A i \in 1 .. Len(toManager[a]) : IsAnswer(toManager[a][i]) => toManager[a][i].thread # t
      /\ \A g \in Fds : Busy(a, g) /\ fds[a][g].thread = t => f = g
  <2>1. t = fds[a][f].thread /\ op = fds[a][f].busy
    BY <1>4, <1>6
  <2>. QED  BY <1>1, <1>2, <2>1, BusyAlone
<1>10. ASSUME NEW b \in Agents, NEW g \in Fds, Busy(b, g)'
       PROVE  /\ Busy(b, g) /\ fds'[b][g].thread = fds[b][g].thread /\ fds'[b][g].busy = fds[b][g].busy
              /\ b = a => fds[b][g].thread # t
  <2>. DEFINE new == [s EXCEPT !.busy = "no"]
  <2>1. new \in SocketType /\ new.busy = "no"
    BY DEF SocketType
  <2>2. fds' = [fds EXCEPT ![a][f] = new]
    BY <1>2, <1>4
  <2>. HIDE DEF new
  <2>3. /\ fds'[a][f] = new
        /\ \A h \in Fds \ {f} : fds'[a][h] = fds[a][h]
        /\ \A c \in Agents \ {a} : fds'[c] = fds[c]
    BY <1>1, <2>1, <2>2, PutFacts
  <2>4. ~(b = a /\ g = f)
    BY <1>10, <2>1, <2>3 DEF Busy
  <2>5. fds'[b][g] = fds[b][g]
    BY <2>3, <2>4
  <2>6. Busy(b, g) /\ fds'[b][g].thread = fds[b][g].thread /\ fds'[b][g].busy = fds[b][g].busy
    BY <1>10, <2>5, SameBusy
  <2>. QED  BY <1>9, <2>4, <2>6
<1>. QED
  <2>1. IsAnswer(m) =>
          /\ WaitsAt(m.thread, a, m.op)
          /\ \A i \in 1 .. Len(toAgent[a]) : toAgent[a][i].thread # m.thread
          /\ \A i \in 1 .. Len(toManager[a]) : IsAnswer(toManager[a][i]) => toManager[a][i].thread # m.thread
    BY <1>7, <1>9
  <2>2. \A b \in Agents, g \in Fds : Busy(b, g)' =>
          /\ Busy(b, g) /\ fds'[b][g].thread = fds[b][g].thread /\ fds'[b][g].busy = fds[b][g].busy
          /\ b = a /\ IsAnswer(m) => fds[b][g].thread # m.thread
    BY <1>7, <1>10
  <2>3. \A u \in Threads : Still(u)
    BY <1>3
  <2>. QED  BY <1>1, <1>2, <1>7, <1>8, <2>1, <2>2, <2>3, TokenTells

LEMMA TokenAccept ==
  ASSUME IInv, TokenInv, NEW f \in Fds, Accept(f)
  PROVE  TokenInv'
<1>1. AgentTypes /\ ThreadTypes /\ PlaceInv /\ scenario \in Scenarios
  BY DEF IInv, DataTypes, TokenInv, StateInv, ThreadTypes
<1>2. /\ fds[Server][f].id_req \in Nat /\ FirstAt(PortOf(f)) \in Threads
      /\ \E g \in Fds : Accepts(f, g)
      /\ UNCHANGED <<scenario, threads, requestNo, tables, toAgent, closed, failures, incidents>>
  BY <1>1, AcceptFacts
<1>3. \A u : Still(u)
  BY <1>1, <1>2, UnmovedPlaces
<1>4. PICK t \in Threads, n \in Nat : t = FirstAt(PortOf(f)) /\ n = fds[Server][f].id_req
  BY <1>2
<1>5. PICK g \in Fds : Accepts(f, g)
  BY <1>2
<1>6. /\ fds' = [fds EXCEPT ![Server][g] = Socket("tcp", t, 0)]
      /\ Tell(Server, Answer("ACCEPTED", n, g, t, TRUE))
  BY <1>4, <1>5 DEF Accepts
<1>. DEFINE m == Answer("ACCEPTED", n, g, t, TRUE)
            new == Socket("tcp", t, 0)
<1>7. m \in Messages /\ ~IsAnswer(m)
  <2>1. g \in Nat /\ TRUE \in BOOLEAN
    BY DEF Fds
  <2>2. m \in Messages /\ m.op = "ACCEPTED"
    BY <2>1 DEF Answer, Messages
  <2>. QED  BY <2>2 DEF IsAnswer, AnswerOps, Stats, SocketOps
<1>8. new \in SocketType /\ new.busy = "no"
  BY DEF Socket, SocketType
<1>. HIDE DEF m, new
<1>9. Server \in Agents
  BY DEF Agents
<1>10. ASSUME NEW b \in Agents, NEW h \in Fds, Busy(b, h)'
       PROVE  Busy(b, h) /\ fds'[b][h].thread = fds[b][h].thread /\ fds'[b][h].busy = fds[b][h].busy
  <2>1. fds' = [fds EXCEPT ![Server][g] = new]
    BY <1>6 DEF new
  <2>2. /\ fds'[Server][g] = new
        /\ \A i \in Fds \ {g} : fds'[Server][i] = fds[Server][i]
        /\ \A c \in Agents \ {Server} : fds'[c] = fds[c]
    BY <1>1, <1>8, <1>9, <2>1, PutFacts
  <2>3. ~(b = Server /\ h = g)
    BY <1>8, <1>10, <2>2 DEF Busy
  <2>4. fds'[b][h] = fds[b][h]
    BY <2>2, <2>3
  <2>. QED  BY <1>10, <2>4, SameBusy
<1>. QED
  <2>1. Tell(Server, m) /\ toAgent' = toAgent /\ scenario' = scenario /\ \A u \in Threads : Still(u)
    BY <1>2, <1>3, <1>6 DEF m
  <2>. QED  BY <1>1, <1>7, <1>9, <1>10, <2>1, TokenTells

LEMMA TokenEnd ==
  ASSUME IInv, TokenInv, NEW a \in Agents, NEW f \in Fds, EndOfStream(a, f)
  PROVE  TokenInv'
<1>1. AgentTypes /\ ThreadTypes /\ PlaceInv
  BY DEF IInv, DataTypes, TokenInv, StateInv
<1>2. /\ UNCHANGED <<scenario, threads>> /\ toAgent' = toAgent /\ scenario' = scenario
      /\ fds[a][f] # FreeFd /\ fds' = [fds EXCEPT ![a][f] = FreeFd]
      /\ Tell(a, Answer("CLOSED", f, f, fds[a][f].thread, TRUE))
  BY DEF EndOfStream
<1>3. \A u : Still(u)
  BY <1>1, <1>2, UnmovedPlaces
<1>4. fds[a][f].thread \in Threads
  BY <1>1, <1>2, SocketFacts
<1>5. PICK t \in Threads : t = fds[a][f].thread
  BY <1>4
<1>. DEFINE m == Answer("CLOSED", f, f, t, TRUE)
<1>6. m \in Messages /\ ~IsAnswer(m)
  <2>1. f \in Nat /\ TRUE \in BOOLEAN
    BY DEF Fds
  <2>2. m \in Messages /\ m.op = "CLOSED"
    BY <2>1 DEF Answer, Messages
  <2>. QED  BY <2>2 DEF IsAnswer, AnswerOps, Stats, SocketOps
<1>7. Tell(a, m)
  BY <1>2, <1>5
<1>. HIDE DEF m
<1>8. ASSUME NEW b \in Agents, NEW h \in Fds, Busy(b, h)'
      PROVE  Busy(b, h) /\ fds'[b][h].thread = fds[b][h].thread /\ fds'[b][h].busy = fds[b][h].busy
  <2>1. /\ fds'[a][f] = FreeFd
        /\ \A g \in Fds \ {f} : fds'[a][g] = fds[a][g]
        /\ \A c \in Agents \ {a} : fds'[c] = fds[c]
    BY <1>1, <1>2, PutFacts
  <2>2. ~(b = a /\ h = f)
    BY <1>8, <2>1 DEF Busy
  <2>3. fds'[b][h] = fds[b][h]
    BY <2>1, <2>2
  <2>. QED  BY <1>8, <2>3, SameBusy
<1>. QED
  <2>1. \A u \in Threads : Still(u)
    BY <1>3
  <2>. QED  BY <1>1, <1>2, <1>6, <1>7, <1>8, <2>1, TokenTells

LEMMA TokenStep ==
  ASSUME IInv, TokenInv, OwnAnswers, [Next]_vars, "stray" \notin incidents'
  PROVE  TokenInv'
<1>1. CASE UNCHANGED vars
  <2>. SUFFICES ASSUME NEW b \in Agents PROVE TokenAt(b)'
    BY DEF TokenInv, Agents
  <2>1. /\ toAgent' = toAgent /\ toManager' = toManager /\ fds' = fds /\ scenario' = scenario
        /\ UNCHANGED <<scenario, threads>>
    BY <1>1 DEF vars, agents
  <2>2. AgentTypes /\ ThreadTypes /\ PlaceInv /\ TokenAt(b)
    BY DEF IInv, DataTypes, TokenInv, StateInv
  <2>3. Stays(b, "none", 0)
    BY <2>1, <2>2, UnmovedPlaces DEF Stays
  <2>. QED  BY <2>1, <2>2, <2>3, TokensKept
<1>2. CASE Next
  BY <1>2, TokenLocal, TokenOperation, TokenHear, TokenServe, TokenReport, TokenAccept, TokenEnd
     DEF Next, Manager
<1>. QED  BY <1>1, <1>2

----------------------------------------
(* A connection that waits to be accepted, was reported, or is kept for    *)
(* its thread, is in one of these places, and its thread is at the end of  *)
(* its connect.                                                            *)

LEMMA ConnectingStill ==
  ASSUME scenario' = scenario, NEW u \in Threads, Still(u), Connecting(u), Dialing(u)' => Dialing(u)
  PROVE  Connecting(u)'
<1>1. Stands(u)' /\ Current(u)' = Current(u) /\ Conn(u)' = Conn(u)
  BY StillFacts DEF Connecting, Conn
<1>2. step'[u] = step[u] /\ (InResume(u)' <=> InResume(u))
  BY DEF Still
<1>. QED  BY <1>1, <1>2 DEF Connecting

\* Where a thread is that connects.
LEMMA ConnectingFacts ==
  ASSUME ThreadTypes, NEW t \in Threads, Connecting(t)
  PROVE  /\ stmtPos[t] \in 1 .. Len(Program(t)) /\ Len(Ops(t)) = 4
         /\ Ops(t)[3] = <<"client", "CONNECT">> /\ Ops(t)[4] = <<"server", "ACCEPT">>
         /\ \A b, op : WaitsAt(t, b, op) =>
              (op = "CONNECT" /\ step[t] = 3) \/ (op = "ACCEPT" /\ step[t] = 4)
         /\ \A end, op : At(t, <<end, op>>) => step[t] = 4 /\ end = "server" /\ op = "ACCEPT"
         /\ ~Waits(t, "velm", "sync") /\ ~Waits(t, "velm", "delay")
<1>1. Stands(t) /\ Current(t).kind = "connect" /\ stmtPos[t] \in 1 .. Len(Program(t))
  BY StandsFacts DEF Connecting
<1>2. Ops(t) = <<<<"client", "OPEN">>, <<"server", "LISTEN">>,
                 <<"client", "CONNECT">>, <<"server", "ACCEPT">>>>
  BY <1>1 DEF Ops, StepsOf
<1>3. Len(Ops(t)) = 4 /\ Ops(t)[3] = <<"client", "CONNECT">> /\ Ops(t)[4] = <<"server", "ACCEPT">>
  BY <1>2
<1>4. ASSUME NEW end, NEW op, Waits(t, end, op)
      PROVE  /\ end # "velm"
             /\ (op = "CONNECT" /\ step[t] = 3) \/ (op = "ACCEPT" /\ step[t] = 4)
  BY <1>3, <1>4 DEF Waits, Connecting
<1>5. ASSUME NEW end, NEW op, At(t, <<end, op>>)
      PROVE  step[t] = 4 /\ end = "server" /\ op = "ACCEPT"
  <2>1. InResume(t) /\ Ops(t)[step[t]] = <<end, op>>
    BY <1>5, AtFacts
  <2>2. step[t] = 4
    BY <2>1 DEF Connecting
  <2>. QED  BY <1>3, <2>1, <2>2
<1>. QED  BY <1>1, <1>3, <1>4, <1>5 DEF WaitsAt

\* A step that puts no connection anywhere.
LEMMA ConnectionsKept ==
  ASSUME scenario' = scenario, ConnectionInv, AgentTypes, TableTypes, NEW e \in Nat,
         backlog' = backlog, accepts' \subseteq accepts,
         \A i \in 1 .. Len(toManager'[Server]) : toManager'[Server][i].op = "ACCEPTED" =>
           i + e \in 1 .. Len(toManager[Server]) /\ toManager'[Server][i] = toManager[Server][i + e],
         \A u \in Threads : Connecting(u) =>
           Connecting(u)' \/ ~(InBacklog(u) \/ Reported(u)' \/ Kept(u)')
  PROVE  ConnectionInv'
<1>1. \A u : Reported(u)' => Reported(u)
  BY DEF Reported
<1>2. \A u : (Kept(u)' => Kept(u)) /\ (InBacklog(u)' <=> InBacklog(u))
  BY DEF Kept, InBacklog
<1>3. CallInv'
  BY <1>1, <1>2 DEF CallInv, ConnectionInv
<1>4. BacklogInv'
  BY DEF BacklogInv, ConnectionInv, Conn
<1>5. ReportInv'
  <2>. SUFFICES ASSUME NEW i \in 1 .. Len(toManager'[Server]), NEW j \in 1 .. Len(toManager'[Server]),
                       toManager'[Server][i].op = "ACCEPTED", toManager'[Server][j].op = "ACCEPTED",
                       toManager'[Server][i].thread = toManager'[Server][j].thread
                PROVE  i = j
    BY DEF ReportInv
  <2>1. i + e = j + e
    BY DEF ReportInv, ConnectionInv
  <2>. QED  BY <2>1
<1>6. KeptInv'
  BY DEF KeptInv, ConnectionInv, Conn
<1>. QED  BY <1>3, <1>4, <1>5, <1>6 DEF ConnectionInv

\* Asking for something else, or nothing, is no dialing.
LEMMA DialingKept ==
  ASSUME scenario' = scenario, NEW u, toAgent' = toAgent
  PROVE  Dialing(u)' => Dialing(u)
BY DEF Dialing, Conn

LEMMA ConnectionOperation ==
  ASSUME IInv, ConnectionInv, NEW t, Operation(t)
  PROVE  ConnectionInv'
<1>1. ThreadTypes /\ PlaceInv /\ ResumeInv /\ DataTypes /\ AgentTypes /\ TableTypes
  BY DEF IInv, StateInv, PlaceInv, DataTypes
<1>2. scenario' = scenario /\ t \in Threads /\ InResume(t) /\ \A u \in Threads \ {t} : Still(u)
  BY <1>1, OperationPlaces
<1>3. ASSUME backlog' = backlog, toManager' = toManager, accepts' \subseteq accepts,
             \A u \in Threads \ {t} : Dialing(u)' => Dialing(u),
             Connecting(t) => Connecting(t)' \/ ~(InBacklog(t) \/ Reported(t)' \/ Kept(t)')
      PROVE  ConnectionInv'
  <2>1. \A u \in Threads \ {t} : Connecting(u) => Connecting(u)'
    BY <1>2, <1>3, ConnectingStill
  <2>2. \A i \in 1 .. Len(toManager'[Server]) : toManager'[Server][i].op = "ACCEPTED" =>
          i + 0 \in 1 .. Len(toManager[Server]) /\ toManager'[Server][i] = toManager[Server][i + 0]
    BY <1>1, <1>3, TokenThreads DEF Agents
  <2>. QED  BY <1>1, <1>2, <1>3, <2>1, <2>2, ConnectionsKept
<1>4. ASSUME stmtPos'[t] = stmtPos[t], step'[t] = step[t], Connecting(t), toAgent' = toAgent
      PROVE  Connecting(t)'
  <2>1. step[t] = 4
    BY <1>2, <1>4 DEF Connecting
  <2>2. Stands(t)' /\ Current(t)' = Current(t) /\ Conn(t)' = Conn(t) /\ ~Dialing(t)'
    BY <1>2, <1>4, DialingKept DEF Connecting, Stands, Current, Program, Conn
  <2>. QED  BY <1>4, <2>1, <2>2 DEF Connecting
<1>5. ASSUME NEW a, NEW id, NEW end \in {"client", "server"}, NEW op \in AnswerOps,
             Issues(t, a, end, op, id)
      PROVE  ConnectionInv'
  <2>1. /\ At(t, <<end, op>>) /\ Send(t, a, op, id)
        /\ toManager' = toManager /\ backlog' = backlog /\ accepts' = accepts
    BY <1>5 DEF Issues, agents
  <2>2. ~Connecting(t)
    BY <1>1, <1>2, <2>1, ConnectingFacts DEF AnswerOps
  <2>3. a \in Agents /\ id \in Nat
    BY <1>1, <1>5, IssueTypes
  <2>4. ASSUME NEW u \in Threads \ {t}, Dialing(u)' PROVE Dialing(u)
    <3>1. PICK b : b = Conn(u).client
      OBVIOUS
    <3>2. b \in Agents
      BY <1>1, <3>1, ScenarioFacts DEF ThreadTypes
    <3>3. PICK i \in 1 .. Len(toAgent'[b]) : toAgent'[b][i].thread = u /\ toAgent'[b][i].op = "CONNECT"
      BY <1>2, <2>4, <3>1 DEF Dialing, Conn
    <3>4. /\ \A c \in Agents \ {a} : toAgent'[c] = toAgent[c]
          /\ \A j \in 1 .. Len(toAgent[a]) : toAgent'[a][j] = toAgent[a][j]
          /\ toAgent'[a][Len(toAgent[a]) + 1] = [op |-> op, id |-> id, thread |-> t]
          /\ \A j \in 1 .. Len(toAgent'[a]) : j \in 1 .. Len(toAgent[a]) \/ j = Len(toAgent[a]) + 1
      BY <1>1, <1>2, <2>1, <2>3, SendFacts
    <3>5. i \in 1 .. Len(toAgent[b]) /\ toAgent[b][i] = toAgent'[b][i]
      BY <3>2, <3>3, <3>4
    <3>. QED  BY <3>1, <3>3, <3>5 DEF Dialing
  <2>. QED  BY <1>3, <2>1, <2>2, <2>4
<1>6. ASSUME NEW l \in listens, Awaits(t, l)
      PROVE  ConnectionInv'
  <2>1. toManager' = toManager /\ backlog' = backlog /\ accepts' = accepts /\ toAgent' = toAgent /\ Wait
    BY <1>6 DEF Awaits, agents
  <2>2. stmtPos' = stmtPos /\ step' = step
    BY <2>1 DEF Wait
  <2>. QED  BY <1>2, <1>3, <1>4, <2>1, <2>2, DialingKept
<1>7. ASSUME NEW c \in accepts, Takes(t, c)
      PROVE  ConnectionInv'
  <2>1. /\ toManager' = toManager /\ backlog' = backlog /\ accepts' = accepts \ {c} /\ toAgent' = toAgent
        /\ c.thread = t
    BY <1>7 DEF Takes, agents
  <2>2. Kept(t)
    BY <2>1 DEF Kept
  <2>3. ~InBacklog(t) /\ ~Reported(t) /\ ~Kept(t)'
    BY <1>2, <2>1, <2>2 DEF ConnectionInv, CallInv, KeptInv, Kept
  <2>4. ~Reported(t)'
    BY <2>1, <2>3 DEF Reported
  <2>. QED  BY <1>2, <1>3, <2>1, <2>3, <2>4, DialingKept
<1>8. CASE Alone(t)
  <2>1. toManager' = toManager /\ backlog' = backlog /\ accepts' = accepts /\ toAgent' = toAgent
    BY <1>8 DEF Alone, agents, tables
  <2>2. ASSUME Connecting(t) PROVE stmtPos'[t] = stmtPos[t] /\ step'[t] = step[t]
    <3>1. /\ \A end, op : At(t, <<end, op>>) => step[t] = 4 /\ end = "server" /\ op = "ACCEPT"
          /\ Len(Ops(t)) = 4 /\ step[t] \in {3, 4} /\ Conn(t).protocol = "tcp"
      BY <1>1, <1>2, <2>2, ConnectingFacts DEF Connecting
    <3>2. ~OpSync(t) /\ ~OpDelay(t) /\ ~StatementEnds(t)
      BY <3>1 DEF OpSync, OpDelay, StatementEnds, Ops, Current
    <3>3. Abort(t)
      <4>1. \/ OpSync(t) \/ OpDelay(t) \/ StatementEnds(t) \/ Abort(t)
            \/ At(t, <<"server", "LISTEN">>)
            \/ At(t, <<"server", "ACCEPT">>) /\ Conn(t).protocol = "udp"
            \/ \E end \in {"client", "server"} : At(t, <<end, "CLOSE">>)
        BY <1>8 DEF Alone
      <4>2. ~At(t, <<"server", "LISTEN">>) /\ \A end : ~At(t, <<end, "CLOSE">>)
        <5>1. "LISTEN" # "ACCEPT" /\ "CLOSE" # "ACCEPT"
          OBVIOUS
        <5>. QED  BY <3>1, <5>1
      <4>. QED  BY <3>1, <3>2, <4>1, <4>2
    <3>. QED  BY <3>3 DEF Abort
  <2>. QED  BY <1>2, <1>3, <1>4, <2>1, <2>2, DialingKept
<1>. QED  BY <1>5, <1>6, <1>7, <1>8, OperationCases

\* The steps of velm without an agent.
LEMMA ConnectionLocal ==
  ASSUME IInv, ConnectionInv,
         \/ ThreadRests
         \/ \E e \in Events : SyncFires(e)
         \/ \E t \in Threads : DelayEnds(t)
  PROVE  ConnectionInv'
<1>1. ThreadTypes /\ DataTypes /\ StateInv /\ PlaceInv /\ AgentTypes /\ TableTypes
  BY DEF IInv, DataTypes, StateInv
<1>2. UNCHANGED <<scenario, requestNo, tables, toAgent, toManager, agents, incidents>>
  BY <1>1, LocalState
<1>3. scenario' = scenario /\ toAgent' = toAgent /\ toManager' = toManager /\ backlog' = backlog /\ accepts' = accepts
  BY <1>2 DEF agents, tables
<1>4. ASSUME NEW u \in Threads, Connecting(u) PROVE Connecting(u)'
  <2>1. Still(u)
    <3>1. ~Waits(u, "velm", "sync") /\ ~Waits(u, "velm", "delay") /\ Stands(u)
      BY <1>1, <1>4, ConnectingFacts DEF Connecting
    <3>2. CASE ThreadRests
      BY <1>1, <3>1, <3>2, RestMoves DEF PlaceInv
    <3>3. CASE \E e \in Events : SyncFires(e)
      BY <1>1, <3>1, <3>3, FirePlaces
    <3>4. CASE \E t \in Threads : DelayEnds(t)
      BY <1>1, <3>1, <3>4, DelayPlaces
    <3>. QED  BY <3>2, <3>3, <3>4
  <2>. QED  BY <1>3, <1>4, <2>1, ConnectingStill, DialingKept
<1>5. \A i \in 1 .. Len(toManager'[Server]) : toManager'[Server][i].op = "ACCEPTED" =>
        i + 0 \in 1 .. Len(toManager[Server]) /\ toManager'[Server][i] = toManager[Server][i + 0]
  BY <1>1, <1>3, TokenThreads DEF Agents
<1>. QED  BY <1>1, <1>3, <1>4, <1>5, ConnectionsKept

\* velm takes a message off the queue.
LEMMA ConnectionHears ==
  ASSUME IInv, ConnectionInv, NEW a \in Agents, Hear(a), accepts' = accepts,
         \A u \in Threads : Connecting(u) =>
           Connecting(u)' \/ ~(InBacklog(u) \/ Reported(u)' \/ Kept(u)')
  PROVE  ConnectionInv'
<1>1. AgentTypes /\ TableTypes
  BY DEF IInv, DataTypes
<1>2. scenario' = scenario /\ backlog' = backlog
  BY <1>1, HearCases DEF agents
<1>3. /\ \A b \in Agents \ {a} : toManager'[b] = toManager[b]
      /\ \A i \in 1 .. Len(toManager'[a]) :
           toManager'[a][i] = toManager[a][i + 1] /\ i + 1 \in 1 .. Len(toManager[a])
  BY <1>1, HearFacts
<1>4. CASE a = Server
  <2>1. \A i \in 1 .. Len(toManager'[Server]) : toManager'[Server][i].op = "ACCEPTED" =>
          i + 1 \in 1 .. Len(toManager[Server]) /\ toManager'[Server][i] = toManager[Server][i + 1]
    BY <1>3, <1>4
  <2>. QED  BY <1>1, <1>2, <2>1, ConnectionsKept
<1>5. CASE a # Server
  <2>1. \A i \in 1 .. Len(toManager'[Server]) : toManager'[Server][i].op = "ACCEPTED" =>
          i + 0 \in 1 .. Len(toManager[Server]) /\ toManager'[Server][i] = toManager[Server][i + 0]
    BY <1>1, <1>3, <1>5, TokenThreads DEF Agents
  <2>. QED  BY <1>1, <1>2, <2>1, ConnectionsKept
<1>. QED  BY <1>4, <1>5

\* The connection that is told of first is told of once.
LEMMA ToldOnce ==
  ASSUME AgentTypes, ConnectionInv, Hear(Server), toManager[Server][1].op = "ACCEPTED",
         NEW t \in Threads, t = toManager[Server][1].thread
  PROVE  Connecting(t) /\ ~InBacklog(t) /\ ~Kept(t) /\ ~Reported(t)'
<1>1. Server \in Agents
  BY DEF Agents
<1>2. /\ 1 \in 1 .. Len(toManager[Server])
      /\ \A i \in 1 .. Len(toManager'[Server]) :
           toManager'[Server][i] = toManager[Server][i + 1] /\ i + 1 \in 1 .. Len(toManager[Server])
  BY <1>1, HearFacts
<1>3. Reported(t)
  BY <1>2 DEF Reported
<1>4. Connecting(t) /\ ~InBacklog(t) /\ ~Kept(t)
  BY <1>3 DEF ConnectionInv, CallInv
<1>5. ~Reported(t)'
  <2>. SUFFICES ASSUME Reported(t)' PROVE FALSE
    OBVIOUS
  <2>1. PICK i \in 1 .. Len(toManager'[Server]) :
          toManager'[Server][i].op = "ACCEPTED" /\ toManager'[Server][i].thread = t
    BY DEF Reported
  <2>2. i + 1 = 1
    BY <1>2, <2>1 DEF ConnectionInv, ReportInv
  <2>. QED  BY <2>2
<1>. QED  BY <1>4, <1>5

LEMMA ConnectionKeeps ==
  ASSUME IInv, ConnectionInv, Hear(Server), NEW m, m = toManager[Server][1],
         m.op = "ACCEPTED", Keeps(m)
  PROVE  ConnectionInv'
<1>1. AgentTypes /\ TableTypes /\ ThreadTypes /\ PlaceInv /\ Server \in Agents
  BY DEF IInv, DataTypes, StateInv, Agents
<1>2. scenario' = scenario /\ backlog' = backlog /\ toAgent' = toAgent /\ UNCHANGED <<scenario, threads>>
  BY <1>1, HearCases DEF agents, Keeps
<1>3. /\ 1 \in 1 .. Len(toManager[Server]) /\ m \in Messages
      /\ \A i \in 1 .. Len(toManager'[Server]) :
           toManager'[Server][i] = toManager[Server][i + 1] /\ i + 1 \in 1 .. Len(toManager[Server])
  BY <1>1, HearFacts
<1>4. PICK t \in Threads : t = m.thread
  BY <1>3 DEF Messages
<1>5. Connecting(t) /\ ~InBacklog(t) /\ ~Kept(t) /\ ~Reported(t)'
  BY <1>1, <1>4, ToldOnce
<1>6. accepts' = accepts \union {[thread |-> t, port |-> Conn(t).port, id_sock |-> m.id_sock]}
  BY <1>4 DEF Keeps
<1>7. ASSUME NEW u \in Threads, Connecting(u) PROVE Connecting(u)'
  BY <1>1, <1>2, <1>7, UnmovedPlaces, ConnectingStill, DialingKept
<1>8. \A u : (InBacklog(u)' <=> InBacklog(u)) /\ (Reported(u)' => Reported(u)) /\ (Kept(u)' => Kept(u) \/ u = t)
  BY <1>2, <1>3, <1>6 DEF InBacklog, Reported, Kept
<1>9. CallInv'
  BY <1>5, <1>7, <1>8 DEF CallInv, ConnectionInv
<1>10. BacklogInv'
  BY <1>2 DEF BacklogInv, ConnectionInv, Conn
<1>11. ReportInv'
  <2>. SUFFICES ASSUME NEW i \in 1 .. Len(toManager'[Server]), NEW j \in 1 .. Len(toManager'[Server]),
                       toManager'[Server][i].op = "ACCEPTED", toManager'[Server][j].op = "ACCEPTED",
                       toManager'[Server][i].thread = toManager'[Server][j].thread
                PROVE  i = j
    BY DEF ReportInv
  <2>1. i + 1 = j + 1
    <3>1. /\ toManager[Server][i + 1].op = "ACCEPTED" /\ toManager[Server][j + 1].op = "ACCEPTED"
          /\ toManager[Server][i + 1].thread = toManager[Server][j + 1].thread
          /\ i + 1 \in 1 .. Len(toManager[Server]) /\ j + 1 \in 1 .. Len(toManager[Server])
      BY <1>3
    <3>2. ReportInv
      BY DEF ConnectionInv
    <3>. QED  BY <3>1, <3>2 DEF ReportInv
  <2>. QED  BY <2>1
<1>12. KeptInv'
  <2>. SUFFICES ASSUME NEW c \in accepts'
                PROVE  c.port = Conn(c.thread)'.port /\ \A d \in accepts' : c.thread = d.thread => c = d
    BY DEF KeptInv
  <2>1. \A c2 \in accepts : c2.thread # t
    BY <1>5 DEF Kept
  <2>2. c.port = Conn(c.thread).port
    BY <1>6 DEF KeptInv, ConnectionInv
  <2>3. c.port = Conn(c.thread)'.port
    BY <1>2, <2>2 DEF Conn
  <2>. QED  BY <1>6, <2>1, <2>3 DEF KeptInv, ConnectionInv
<1>. QED  BY <1>9, <1>10, <1>11, <1>12 DEF ConnectionInv

LEMMA ConnectionHear ==
  ASSUME IInv, ConnectionInv, NEW a \in Agents, Hear(a)
  PROVE  ConnectionInv'
<1>. DEFINE m == toManager[a][1]
<1>1. ThreadTypes /\ DataTypes /\ AgentTypes /\ StateInv /\ PlaceInv
  BY DEF IInv, DataTypes, StateInv
<1>3. resume = <<>>
  BY DEF Hear, Idle
<1>4. HearSteps(a, m) /\ UNCHANGED <<scenario, requestNo, toAgent, agents>>
  BY <1>1, HearCases
<1>5. 1 \in 1 .. Len(toManager[a]) /\ m \in Messages /\ Proper(a, m)
  BY <1>1, HearFacts DEF DataTypes, FdTypes
<1>6. scenario' = scenario /\ toAgent' = toAgent
  BY <1>4
<1>. HIDE DEF m
<1>7. CASE UNCHANGED threads /\ accepts' = accepts
  <2>1. ASSUME NEW u \in Threads, Connecting(u) PROVE Connecting(u)'
    <3>1. Still(u)
      BY <1>1, <1>4, <1>7, UnmovedPlaces
    <3>. QED  BY <1>6, <2>1, <3>1, ConnectingStill, DialingKept
  <2>. QED  BY <1>7, <2>1, ConnectionHears
<1>8. ASSUME NEW r \in requests[a], m.op \in AnswerOps, Settles(a, m, r)
      PROVE  ConnectionInv'
  <2>1. /\ r.thread \in Threads /\ WaitsAt(r.thread, a, m.op) /\ stmtPos' = stmtPos
        /\ \A u \in Threads \ {r.thread} : Still(u)
        /\ \/ step'[r.thread] = step[r.thread] + 1
           \/ Fail(r.thread) /\ step'[r.thread] = step[r.thread]
    BY <1>1, <1>3, <1>5, <1>6, <1>8, SettleState DEF Proper
  <2>2. PICK t \in Threads : t = r.thread
    BY <2>1
  <2>3. ASSUME NEW u \in Threads, Connecting(u) PROVE Connecting(u)'
    <3>1. CASE u # t
      BY <1>6, <2>1, <2>2, <2>3, <3>1, ConnectingStill, DialingKept
    <3>2. CASE u = t
      <4>1. step[t] = 3
        BY <1>1, <1>8, <2>1, <2>2, <2>3, <3>2, ConnectingFacts DEF AnswerOps
      <4>2. step'[t] = 4 \/ (step'[t] = 3 /\ ~InResume(t)')
        <5>1. CASE step'[r.thread] = step[r.thread] + 1
          BY <2>2, <4>1, <5>1
        <5>2. CASE Fail(r.thread) /\ step'[r.thread] = step[r.thread]
          BY <1>3, <2>2, <4>1, <5>2 DEF Fail, InResume
        <5>. QED  BY <2>1, <5>1, <5>2
      <4>3. Stands(t)' /\ Current(t)' = Current(t) /\ Conn(t)' = Conn(t) /\ ~Dialing(t)'
        BY <1>6, <2>1, <2>3, <3>2, DialingKept DEF Connecting, Stands, Current, Program, Conn
      <4>. QED  BY <2>3, <3>2, <4>2, <4>3 DEF Connecting
    <3>. QED  BY <3>1, <3>2
  <2>4. accepts' = accepts
    BY <1>8 DEF Settles
  <2>. QED  BY <2>3, <2>4, ConnectionHears
<1>9. ASSUME NEW r \in requests[Server], m.op = "ACCEPTED", Admits(m, r)
      PROVE  ConnectionInv'
  <2>1. m.id_sock \in Fds /\ a = Server
    BY <1>5, <1>9 DEF Proper
  <2>2. r.thread \in Threads /\ r.thread = m.thread /\ \A u \in Threads \ {r.thread} : Still(u)
    BY <1>1, <1>3, <1>6, <1>9, <2>1, AdmitState
  <2>3. PICK t \in Threads : t = r.thread
    BY <2>2
  <2>4. ~InBacklog(t) /\ ~Kept(t) /\ ~Reported(t)'
    BY <1>1, <1>9, <2>1, <2>2, <2>3, ToldOnce DEF m
  <2>5. accepts' = accepts
    BY <1>9 DEF Admits
  <2>6. ~Kept(t)'
    BY <2>4, <2>5 DEF Kept
  <2>7. ASSUME NEW u \in Threads \ {t}, Connecting(u) PROVE Connecting(u)'
    BY <1>6, <2>2, <2>3, <2>7, ConnectingStill, DialingKept
  <2>. QED  BY <2>4, <2>5, <2>6, <2>7, ConnectionHears
<1>10. CASE m.op = "ACCEPTED" /\ Keeps(m)
  <2>1. a = Server
    BY <1>5, <1>10 DEF Proper
  <2>. QED  BY <1>10, <2>1, ConnectionKeeps DEF m
<1>. QED  BY <1>4, <1>7, <1>8, <1>9, <1>10 DEF HearSteps, Unexpected, tables

----------------------------------------
(* What becomes of the sockets. *)

\* Only the agents change them.
LEMMA ManagerAgents ==
  ASSUME IInv, \/ UNCHANGED vars \/ Manager
               \/ \E e \in Events : SyncFires(e)
               \/ \E t \in Threads : DelayEnds(t)
               \/ \E a \in Agents : Hear(a)
  PROVE  UNCHANGED agents /\ scenario' = scenario
<1>1. ThreadTypes /\ DataTypes /\ StateInv /\ AgentTypes
  BY DEF IInv, DataTypes
<1>2. CASE UNCHANGED vars
  BY <1>2 DEF vars
<1>3. CASE \E t \in Threads : Operation(t)
  <2>1. PICK t \in Threads : Operation(t)
    BY <1>3
  <2>2. /\ \A a, id : \A end \in {"client", "server"}, op \in AnswerOps :
             Issues(t, a, end, op, id) => UNCHANGED <<scenario, agents>>
        /\ \A l \in listens : Awaits(t, l) => UNCHANGED <<scenario, agents>>
        /\ \A c \in accepts : Takes(t, c) => UNCHANGED <<scenario, agents>>
        /\ Alone(t) => UNCHANGED <<scenario, agents>>
    BY DEF Issues, Awaits, Takes, Alone
  <2>. QED  BY <2>1, <2>2, OperationCases
<1>4. CASE \/ ThreadRests
           \/ \E e \in Events : SyncFires(e)
           \/ \E t \in Threads : DelayEnds(t)
  BY <1>1, <1>4, LocalState
<1>5. CASE \E a \in Agents : Hear(a)
  BY <1>1, <1>5, HearCases
<1>. QED  BY <1>2, <1>3, <1>4, <1>5 DEF Manager

LEMMA PutSocket ==
  ASSUME AgentTypes, NEW a \in Agents, NEW f \in Fds, NEW new \in {FreeFd} \union SocketType,
         fds' = [fds EXCEPT ![a][f] = new],
         \/ new = FreeFd
         \/ /\ fds[a][f] # FreeFd /\ new.kind = fds[a][f].kind
            /\ new.thread = fds[a][f].thread /\ new.id_req = fds[a][f].id_req,
         NEW b \in Agents, NEW g \in Fds, fds'[b][g] # FreeFd
  PROVE  SameSocket(b, g)
<1>1. /\ fds'[a][f] = new
      /\ \A h \in Fds \ {f} : fds'[a][h] = fds[a][h]
      /\ \A c \in Agents \ {a} : fds'[c] = fds[c]
  BY PutFacts
<1>2. CASE b = a /\ g = f
  BY <1>1, <1>2 DEF SameSocket
<1>3. CASE ~(b = a /\ g = f)
  <2>1. fds'[b][g] = fds[b][g]
    BY <1>1, <1>3
  <2>. QED  BY <2>1 DEF SameSocket
<1>. QED  BY <1>2, <1>3

LEMMA ServeSockets ==
  ASSUME AgentTypes, FdTypes, scenario \in Scenarios, NEW a \in Agents, Serve(a),
         NEW b \in Agents, NEW g \in Fds, fds'[b][g] # FreeFd
  PROVE  SameSocket(b, g) \/ Created(b, g)
<1>1. /\ toAgent[a] # <<>> /\ 1 \in 1 .. Len(toAgent[a]) /\ toAgent[a][1] \in Requests
      /\ ServeNew(a, toAgent[a][1]) \/ ServeSocket(a, toAgent[a][1])
  BY ServeFacts
<1>2. PICK r \in Requests : r = toAgent[a][1]
  BY <1>1
<1>3. r.op \in AnswerOps /\ r.thread \in Threads /\ r.id \in Nat /\ (r.op \in SocketOps => r.id \in Fds)
  BY <1>1, <1>2 DEF FdTypes, Requests
<1>4. CASE fds' = fds
  BY <1>4 DEF SameSocket
<1>5. CASE r.op \in NewOps
  <2>1. Declines(a, r) \/ \E f \in Fds, k \in {"tcp", "udp", "listen"} : Creates(a, r, f, k)
    BY <1>1, <1>2, <1>5, NewCases
  <2>2. CASE Declines(a, r)
    BY <1>4, <2>2 DEF Declines
  <2>3. ASSUME NEW f \in Fds, NEW k \in {"tcp", "udp", "listen"}, Creates(a, r, f, k)
        PROVE  SameSocket(b, g) \/ Created(b, g)
    <3>1. PICK t \in Threads, n \in Nat : t = r.thread /\ n = r.id
      BY <1>3
    <3>2. PICK new : new = Socket(k, t, n)
      OBVIOUS
    <3>3. new \in SocketType
      BY <3>2 DEF Socket, SocketType
    <3>4. fds' = [fds EXCEPT ![a][f] = new]
      BY <2>3, <3>1, <3>2 DEF Creates
    <3>5. CASE b = a /\ g = f
      BY <1>1, <1>2, <1>5, <2>3, <3>5 DEF Created
    <3>6. CASE ~(b = a /\ g = f)
      <4>1. fds'[b][g] = fds[b][g]
        BY <3>3, <3>4, <3>6, PutFacts
      <4>. QED  BY <4>1 DEF SameSocket
    <3>. QED  BY <3>5, <3>6
  <2>. QED  BY <2>1, <2>2, <2>3
<1>6. CASE r.op \in SocketOps
  <2>1. PICK f \in Fds : f = r.id
    BY <1>3, <1>6
  <2>2. \/ Misses(a, r)
        \/ fds[a][f] # FreeFd /\ (Dials(a, r) \/ Reads(a, r) \/ Begins(a, r) \/ Shuts(a, r))
    BY <1>1, <1>2, <1>6, <2>1, SocketCases
  <2>3. CASE Misses(a, r) \/ Dials(a, r)
    BY <1>4, <2>3 DEF Misses, Dials
  <2>4. CASE fds[a][f] # FreeFd /\ (Reads(a, r) \/ Begins(a, r) \/ Shuts(a, r))
    <3>1. PICK s \in SocketType : s = fds[a][f]
      BY <2>4, SocketFacts
    <3>2. CASE Reads(a, r)
      <4>1. PICK new : new = [s EXCEPT !.reads = TRUE]
        OBVIOUS
      <4>2. new \in SocketType /\ new.kind = s.kind /\ new.thread = s.thread /\ new.id_req = s.id_req
        BY <4>1 DEF SocketType
      <4>3. fds' = [fds EXCEPT ![a][f] = new]
        BY <2>1, <3>1, <3>2, <4>1 DEF Reads
      <4>. QED  BY <2>4, <3>1, <4>2, <4>3, PutSocket
    <3>3. CASE Begins(a, r)
      <4>1. PICK new : new = [s EXCEPT !.busy = r.op]
        OBVIOUS
      <4>2. new \in SocketType /\ new.kind = s.kind /\ new.thread = s.thread /\ new.id_req = s.id_req
        BY <3>3, <4>1 DEF SocketType, Begins
      <4>3. fds' = [fds EXCEPT ![a][f] = new]
        BY <2>1, <3>1, <3>3, <4>1 DEF Begins
      <4>. QED  BY <2>4, <3>1, <4>2, <4>3, PutSocket
    <3>4. CASE Shuts(a, r)
      <4>1. fds' = [fds EXCEPT ![a][f] = FreeFd]
        BY <2>1, <3>4 DEF Shuts
      <4>. QED  BY <4>1, PutSocket
    <3>. QED  BY <2>4, <3>2, <3>3, <3>4
  <2>. QED  BY <2>2, <2>3, <2>4
<1>. QED  BY <1>3, <1>5, <1>6 DEF AnswerOps, Stats, NewOps

LEMMA SocketSteps ==
  ASSUME IInv, [Next]_vars, NEW b \in Agents, NEW g \in Fds, fds'[b][g] # FreeFd
  PROVE  SameSocket(b, g) \/ (fds[b][g] = FreeFd /\ (Created(b, g) \/ Accepted(b, g)))
<1>1. AgentTypes /\ FdTypes /\ scenario \in Scenarios
  BY DEF IInv, DataTypes, ThreadTypes
<1>2. CASE \/ UNCHANGED vars \/ Manager
           \/ \E e \in Events : SyncFires(e)
           \/ \E t \in Threads : DelayEnds(t)
           \/ \E a \in Agents : Hear(a)
  <2>1. fds' = fds
    BY <1>2, ManagerAgents DEF agents
  <2>. QED  BY <2>1 DEF SameSocket
<1>3. CASE \E a \in Agents : Serve(a)
  BY <1>1, <1>3, ServeSockets DEF Created, Creates
<1>4. ASSUME NEW a \in Agents, NEW f \in Fds, Report(a, f)
      PROVE  SameSocket(b, g)
  <2>1. fds[a][f] # FreeFd /\ fds' = [fds EXCEPT ![a][f].busy = "no"]
    BY <1>4 DEF Report
  <2>2. PICK s \in SocketType : s = fds[a][f]
    BY <1>1, <2>1, SocketFacts
  <2>3. PICK new : new = [s EXCEPT !.busy = "no"]
    OBVIOUS
  <2>4. new \in SocketType /\ new.kind = s.kind /\ new.thread = s.thread /\ new.id_req = s.id_req
    BY <2>3 DEF SocketType
  <2>5. fds' = [fds EXCEPT ![a][f] = new]
    BY <2>1, <2>2, <2>3
  <2>. QED  BY <1>1, <2>1, <2>2, <2>4, <2>5, PutSocket
<1>5. ASSUME NEW f \in Fds, Accept(f)
      PROVE  SameSocket(b, g) \/ (fds[b][g] = FreeFd /\ Accepted(b, g))
  <2>1. FirstAt(PortOf(f)) \in Threads /\ \E h \in Fds : Accepts(f, h)
    BY <1>1, <1>5, AcceptFacts
  <2>2. PICK h \in Fds : Accepts(f, h)
    BY <2>1
  <2>3. PICK t \in Threads : t = FirstAt(PortOf(f))
    BY <2>1
  <2>4. PICK new : new = Socket("tcp", t, 0)
    OBVIOUS
  <2>5. new \in SocketType
    BY <2>4 DEF Socket, SocketType
  <2>6. fds' = [fds EXCEPT ![Server][h] = new] /\ fds[Server][h] = FreeFd
    BY <2>2, <2>3, <2>4 DEF Accepts
  <2>7. CASE b = Server /\ g = h
    BY <1>5, <2>2, <2>6, <2>7 DEF Accepted
  <2>8. CASE ~(b = Server /\ g = h)
    <3>1. Server \in Agents
      BY DEF Agents
    <3>2. fds'[b][g] = fds[b][g]
      BY <1>1, <2>5, <2>6, <2>8, <3>1, PutFacts
    <3>. QED  BY <3>2 DEF SameSocket
  <2>. QED  BY <2>7, <2>8
<1>6. ASSUME NEW a \in Agents, NEW f \in Fds, EndOfStream(a, f)
      PROVE  SameSocket(b, g)
  <2>1. fds' = [fds EXCEPT ![a][f] = FreeFd]
    BY <1>6 DEF EndOfStream
  <2>. QED  BY <1>1, <2>1, PutSocket
<1>7. Next \/ UNCHANGED vars
  OBVIOUS
<1>8. Next => \/ Manager
              \/ \E e \in Events : SyncFires(e)
              \/ \E t \in Threads : DelayEnds(t)
              \/ \E a \in Agents : Hear(a) \/ Serve(a)
              \/ \E f \in Fds : Accept(f) \/ \E a \in Agents : Report(a, f) \/ EndOfStream(a, f)
  BY DEF Next
<1>. QED  BY <1>2, <1>3, <1>4, <1>5, <1>6, <1>7, <1>8

LEMMA KindStep ==
  ASSUME IInv, TokenInv, ConnectionInv, KindInv, [Next]_vars
  PROVE  KindInv'
<1>1. AgentTypes /\ ThreadTypes /\ scenario \in Scenarios /\ Server \in Agents
  BY DEF IInv, DataTypes, ThreadTypes, Agents
<1>2. scenario' = scenario
  BY DEF Next, Manager, Operation, OpOpen, OpListen, OpAccept, OpOnSocket, OpClose, OpSync, OpDelay,
         StatementEnds, ThreadRests, SyncFires, DelayEnds, Hear, Serve, Accept, Report, EndOfStream, vars
<1>. SUFFICES ASSUME NEW b \in Agents, NEW g \in Fds, fds'[b][g] # FreeFd
              PROVE  KindOf(b, fds'[b][g].kind, fds'[b][g].thread)
  <2>1. \A a, k, t : KindOf(a, k, t)' <=> KindOf(a, k, t)
    BY <1>2 DEF KindOf, Conn
  <2>. QED  BY <2>1 DEF KindInv, Agents
<1>3. CASE SameSocket(b, g)
  BY <1>3 DEF SameSocket, KindInv
<1>4. CASE Created(b, g)
  <2>1. PICK r \in Requests, k \in {"tcp", "udp", "listen"} :
          /\ 1 \in 1 .. Len(toAgent[b]) /\ r = toAgent[b][1] /\ r.op \in NewOps /\ Creates(b, r, g, k)
    BY <1>4 DEF Created
  <2>2. PICK t \in Threads, n \in Nat, op \in NewOps : t = r.thread /\ n = r.id /\ op = r.op
    BY <2>1 DEF Requests
  <2>3. PICK new : new = Socket(k, t, n)
    OBVIOUS
  <2>4. new \in SocketType /\ new.kind = k /\ new.thread = t
    BY <2>3 DEF Socket, SocketType
  <2>5. /\ fds' = [fds EXCEPT ![b][g] = new]
        /\ k = (IF op = "LISTEN" /\ Conn(t).protocol = "tcp" THEN "listen" ELSE Conn(t).protocol)
    BY <2>1, <2>2, <2>3 DEF Creates
  <2>6. fds'[b][g] = new
    BY <1>1, <2>4, <2>5, PutFacts
  <2>7. Conn(t).protocol \in {"tcp", "udp"}
    BY <1>1, ScenarioFacts
  <2>8. op = "LISTEN" => b = Server
    <3>1. WaitsAt(t, b, op)
      BY <2>1, <2>2 DEF TokenInv, TokenAt, AskInv
    <3>. QED  BY <1>1, <3>1, WaitsAtFacts
  <2>9. KindOf(b, k, t)
    BY <2>5, <2>7, <2>8 DEF KindOf
  <2>. QED  BY <2>4, <2>6, <2>9
<1>5. CASE Accepted(b, g)
  <2>1. PICK f \in Fds : b = Server /\ Accept(f) /\ Accepts(f, g)
    BY <1>5 DEF Accepted
  <2>2. FirstAt(PortOf(f)) \in Threads /\ PortOf(f) \in Ports /\ 1 \in 1 .. Len(backlog[PortOf(f)])
    BY <1>1, <2>1, AcceptFacts
  <2>3. PICK t \in Threads, p \in Ports : p = PortOf(f) /\ t = FirstAt(PortOf(f))
    BY <2>2
  <2>4. PICK new : new = Socket("tcp", t, 0)
    OBVIOUS
  <2>5. new \in SocketType /\ new.kind = "tcp" /\ new.thread = t
    BY <2>4 DEF Socket, SocketType
  <2>6. fds' = [fds EXCEPT ![Server][g] = new]
    BY <2>1, <2>3, <2>4 DEF Accepts
  <2>7. fds'[b][g] = new
    BY <1>1, <2>1, <2>5, <2>6, PutFacts
  <2>8. InBacklog(t)
    BY <2>2, <2>3 DEF InBacklog, FirstAt
  <2>9. Conn(t).protocol = "tcp"
    BY <2>8 DEF ConnectionInv, CallInv, Connecting
  <2>. QED  BY <2>5, <2>7, <2>9 DEF KindOf
<1>. QED  BY <1>3, <1>4, <1>5, SocketSteps

\* An agent tells velm of something else than a connection.
LEMMA ConnectionTells ==
  ASSUME AgentTypes, TableTypes, ThreadTypes, PlaceInv, ConnectionInv, UNCHANGED <<scenario, threads>>,
         NEW a \in Agents, toManager' = toManager \/ (\E m \in Messages : Tell(a, m) /\ m.op # "ACCEPTED"),
         backlog' = backlog, accepts' = accepts, \A u \in Threads : Dialing(u)' => Dialing(u)
  PROVE  ConnectionInv'
<1>1. \A u \in Threads : Connecting(u) => Connecting(u)'
  BY UnmovedPlaces, ConnectingStill
<1>2. \A i \in 1 .. Len(toManager'[Server]) : toManager'[Server][i].op = "ACCEPTED" =>
        i + 0 \in 1 .. Len(toManager[Server]) /\ toManager'[Server][i] = toManager[Server][i + 0]
  <2>1. Len(toManager[Server]) \in Nat
    BY TokenThreads DEF Agents
  <2>2. CASE toManager' = toManager
    BY <2>1, <2>2
  <2>3. ASSUME NEW m \in Messages, Tell(a, m), m.op # "ACCEPTED"
        PROVE  \A i \in 1 .. Len(toManager'[Server]) : toManager'[Server][i].op = "ACCEPTED" =>
                 i + 0 \in 1 .. Len(toManager[Server]) /\ toManager'[Server][i] = toManager[Server][i + 0]
    <3>1. /\ \A b \in Agents \ {a} : toManager'[b] = toManager[b]
          /\ \A i \in 1 .. Len(toManager[a]) : toManager'[a][i] = toManager[a][i]
          /\ toManager'[a][Len(toManager[a]) + 1] = m
          /\ \A i \in 1 .. Len(toManager'[a]) :
               i \in 1 .. Len(toManager[a]) \/ i = Len(toManager[a]) + 1
      BY <2>3, TellFacts
    <3>2. CASE a = Server
      BY <2>1, <2>3, <3>1, <3>2
    <3>3. CASE a # Server
      BY <2>1, <3>1, <3>3 DEF Agents
    <3>. QED  BY <3>2, <3>3
  <2>. QED  BY <2>2, <2>3
<1>. QED  BY <1>1, <1>2, ConnectionsKept

\* A request that an agent has taken is not under way any more.
LEMMA DialingServed ==
  ASSUME AgentTypes, scenario \in Scenarios, scenario' = scenario, NEW a \in Agents, Serve(a),
         NEW u \in Threads
  PROVE  Dialing(u)' => Dialing(u)
<1>. SUFFICES ASSUME Dialing(u)' PROVE Dialing(u)
  OBVIOUS
<1>1. PICK b \in Agents : b = Conn(u).client
  BY ScenarioFacts
<1>2. PICK i \in 1 .. Len(toAgent'[b]) : toAgent'[b][i].thread = u /\ toAgent'[b][i].op = "CONNECT"
  BY <1>1 DEF Dialing, Conn
<1>3. CASE b = a
  <2>1. toAgent'[a][i] = toAgent[a][i + 1] /\ i + 1 \in 1 .. Len(toAgent[a])
    BY <1>2, <1>3, ServeFacts
  <2>. QED  BY <1>1, <1>2, <1>3, <2>1 DEF Dialing
<1>4. CASE b # a
  <2>1. toAgent'[b] = toAgent[b]
    BY <1>4, ServeFacts
  <2>. QED  BY <1>1, <1>2, <2>1 DEF Dialing
<1>. QED  BY <1>3, <1>4

LEMMA ServeRequest ==
  ASSUME IInv, NEW a \in Agents, Serve(a)
  PROVE  \E r \in Requests : Serving(a, r)
<1>1. AgentTypes /\ FdTypes
  BY DEF IInv, DataTypes
<1>2. /\ 1 \in 1 .. Len(toAgent[a]) /\ toAgent[a][1] \in Requests
      /\ ServeNew(a, toAgent[a][1]) \/ ServeSocket(a, toAgent[a][1])
  BY <1>1, ServeFacts
<1>3. PICK r \in Requests : r = toAgent[a][1]
  BY <1>2
<1>. QED  BY <1>1, <1>2, <1>3 DEF Serving, FdTypes, Requests, AnswerOps, Stats, NewOps

LEMMA ServeBacklog ==
  ASSUME IInv, NEW a \in Agents, Serve(a)
  PROVE  backlog' = backlog \/ \E r \in Requests : Calls(a, r)
<1>1. AgentTypes /\ FdTypes /\ scenario \in Scenarios
  BY DEF IInv, DataTypes, ThreadTypes
<1>2. PICK r \in Requests : Serving(a, r)
  BY ServeRequest
<1>. USE DEF Serving
<1>5. CASE r.op \in NewOps
  BY <1>1, <1>2, <1>5, NewCases
<1>6. CASE r.op \in SocketOps
  <2>1. \/ Misses(a, r)
        \/ /\ fds[a][r.id] # FreeFd /\ ("stray" \notin incidents' => fds[a][r.id].thread = r.thread)
           /\ Dials(a, r) \/ Reads(a, r) \/ Begins(a, r) \/ Shuts(a, r)
    BY <1>1, <1>2, <1>6, SocketCases
  <2>2. CASE Misses(a, r) \/ Reads(a, r) \/ Begins(a, r) \/ Shuts(a, r)
    BY <2>2 DEF Misses, Reads, Begins, Shuts
  <2>3. CASE Dials(a, r) /\ fds[a][r.id] # FreeFd /\ ("stray" \notin incidents' => fds[a][r.id].thread = r.thread)
    <3>1. /\ r.op = "CONNECT"
          /\ backlog' = IF fds[a][r.id].kind = "tcp" /\ ListensAt(Conn(r.thread).port)
                        THEN [backlog EXCEPT ![Conn(r.thread).port] = Append(@, r.thread)]
                        ELSE backlog
      BY <2>3 DEF Dials
    <3>2. r.id \in Fds
      BY <1>2, <1>6
    <3>3. CASE fds[a][r.id].kind = "tcp" /\ ListensAt(Conn(r.thread).port)
      BY <1>2, <1>6, <2>3, <3>1, <3>2, <3>3 DEF Calls
    <3>4. CASE ~(fds[a][r.id].kind = "tcp" /\ ListensAt(Conn(r.thread).port))
      BY <3>1, <3>4
    <3>. QED  BY <3>3, <3>4
  <2>. QED  BY <2>1, <2>2, <2>3
<1>. QED  BY <1>2, <1>5, <1>6

LEMMA ServeTells ==
  ASSUME IInv, NEW a \in Agents, Serve(a), "stray" \notin incidents'
  PROVE  toManager' = toManager \/ (\E m \in Messages : Tell(a, m) /\ m.op # "ACCEPTED")
<1>1. PICK r : r = toAgent[a][1]
  OBVIOUS
<1>2. r \in Requests /\ ((\E m \in Messages : Served(a, r, m)) \/ Begins(a, r))
  BY <1>1, ServeOutcome
<1>3. ASSUME NEW m \in Messages, Served(a, r, m)
      PROVE  Tell(a, m) /\ m.op # "ACCEPTED"
  <2>1. Tell(a, m) /\ m.op = r.op /\ r.op \in AnswerOps
    BY <1>2, <1>3 DEF Served, Requests
  <2>. QED  BY <2>1 DEF AnswerOps, Stats, SocketOps
<1>4. Begins(a, r) => toManager' = toManager
  BY DEF Begins
<1>. QED  BY <1>2, <1>3, <1>4

LEMMA ConnectionServe ==
  ASSUME IInv, TokenInv, ConnectionInv, KindInv, NEW a \in Agents, Serve(a), "stray" \notin incidents'
  PROVE  ConnectionInv'
<1>1. /\ AgentTypes /\ TableTypes /\ ThreadTypes /\ PlaceInv /\ scenario \in Scenarios
      /\ TokenAt(a) /\ Server \in Agents
  BY DEF IInv, DataTypes, StateInv, ThreadTypes, TokenInv, Agents
<1>2. scenario' = scenario /\ UNCHANGED <<scenario, threads>> /\ accepts' = accepts
  BY DEF Serve, tables
<1>3. \A u \in Threads : Dialing(u)' => Dialing(u)
  BY <1>1, <1>2, DialingServed
<1>4. toManager' = toManager \/ (\E m \in Messages : Tell(a, m) /\ m.op # "ACCEPTED")
  BY ServeTells
<1>5. CASE backlog' = backlog
  BY <1>1, <1>2, <1>3, <1>4, <1>5, ConnectionTells
<1>6. ASSUME NEW r \in Requests, Calls(a, r)
      PROVE  ConnectionInv'
  <2>0. PICK t \in Threads : t = r.thread
    BY DEF Requests
  <2>1. PICK p : t = r.thread /\ p = Conn(t).port
    BY <2>0
  <2>2. /\ r = toAgent[a][1] /\ r.op = "CONNECT" /\ r.id \in Fds
        /\ fds[a][r.id] # FreeFd /\ fds[a][r.id].kind = "tcp" /\ fds[a][r.id].thread = t
        /\ backlog' = [backlog EXCEPT ![p] = Append(@, t)]
    BY <1>6, <2>1 DEF Calls
  <2>3. 1 \in 1 .. Len(toAgent[a])
    BY <1>1, ServeFacts
  <2>4. /\ WaitsAt(t, a, "CONNECT")
        /\ \A i \in 1 .. Len(toAgent[a]) : i # 1 => toAgent[a][i].thread # t
    BY <1>1, <2>1, <2>2, <2>3, AskedAlone
  <2>5. a = Conn(t).client /\ step[t] = 3 /\ ~InResume(t) /\ Stands(t) /\ Current(t).kind = "connect"
    BY <1>1, <2>4, WaitsAtFacts
  <2>6. Dialing(t)
    BY <2>1, <2>2, <2>3, <2>5 DEF Dialing
  <2>7. ~InBacklog(t) /\ ~Reported(t) /\ ~Kept(t)
    BY <2>6 DEF ConnectionInv, CallInv, Connecting
  <2>8. ~Dialing(t)'
    <3>1. \A i \in 1 .. Len(toAgent'[a]) :
            toAgent'[a][i] = toAgent[a][i + 1] /\ i + 1 \in 1 .. Len(toAgent[a])
      BY <1>1, ServeFacts
    <3>2. \A i \in 1 .. Len(toAgent'[a]) : toAgent'[a][i].thread # t
      <4>. SUFFICES ASSUME NEW i \in 1 .. Len(toAgent'[a]) PROVE toAgent'[a][i].thread # t
        OBVIOUS
      <4>1. toAgent'[a][i] = toAgent[a][i + 1] /\ i + 1 \in 1 .. Len(toAgent[a]) /\ i + 1 # 1
        BY <3>1
      <4>. QED  BY <2>4, <4>1
    <3>3. Conn(t)'.client = a
      BY <1>2, <2>5 DEF Conn
    <3>. QED  BY <3>2, <3>3 DEF Dialing
  <2>9. Conn(t).protocol = "tcp"
    BY <2>2 DEF KindInv, KindOf
  <2>10. Connecting(t)'
    <3>1. Stands(t)' /\ Current(t)' = Current(t) /\ Conn(t)' = Conn(t) /\ step'[t] = 3 /\ ~InResume(t)'
      BY <1>2, <2>5 DEF Stands, Current, Program, Conn, InResume, threads
    <3>. QED  BY <2>5, <2>8, <2>9, <3>1 DEF Connecting
  <2>11. \A u \in Threads \ {t} : Connecting(u) => Connecting(u)'
    BY <1>1, <1>2, <1>3, UnmovedPlaces, ConnectingStill
  <2>12. p \in Ports /\ backlog[p] \in Seq(Threads)
    BY <1>1, <2>1, ScenarioFacts DEF AgentTypes
  <2>13. /\ backlog'[p] = Append(backlog[p], t)
         /\ \A p2 \in Ports \ {p} : backlog'[p2] = backlog[p2]
         /\ backlog[p] \in Seq(Threads)
    BY <1>1, <2>2, <2>12 DEF AgentTypes
  <2>14. /\ Len(backlog'[p]) = Len(backlog[p]) + 1 /\ Len(backlog[p]) \in Nat
         /\ \A i \in 1 .. Len(backlog[p]) : backlog'[p][i] = backlog[p][i]
         /\ backlog'[p][Len(backlog[p]) + 1] = t
    BY <2>13, AppendFacts
  <2>15. \A p2 \in Ports : \A i \in 1 .. Len(backlog'[p2]) :
           \/ i \in 1 .. Len(backlog[p2]) /\ backlog'[p2][i] = backlog[p2][i]
           \/ p2 = p /\ i = Len(backlog[p]) + 1
    BY <2>13, <2>14
  <2>16. \A u \in Threads \ {t} : InBacklog(u)' => InBacklog(u)
    <3>. SUFFICES ASSUME NEW u \in Threads \ {t}, InBacklog(u)' PROVE InBacklog(u)
      OBVIOUS
    <3>0. PICK p2 \in Ports : \E i \in 1 .. Len(backlog'[p2]) : backlog'[p2][i] = u
      BY DEF InBacklog
    <3>1. PICK i \in 1 .. Len(backlog'[p2]) : backlog'[p2][i] = u
      BY <3>0
    <3>2. i \in 1 .. Len(backlog[p2]) /\ backlog[p2][i] = u
      BY <2>14, <2>15, <3>1
    <3>. QED  BY <3>2 DEF InBacklog
  <2>17. \A u \in Threads : (Reported(u)' => Reported(u)) /\ (Kept(u)' <=> Kept(u))
    <3>1. ASSUME NEW u \in Threads, Reported(u)' PROVE Reported(u)
      <4>1. PICK i \in 1 .. Len(toManager'[Server]) :
              toManager'[Server][i].op = "ACCEPTED" /\ toManager'[Server][i].thread = u
        BY <3>1 DEF Reported
      <4>2. CASE toManager' = toManager
        BY <4>1, <4>2 DEF Reported
      <4>3. ASSUME NEW m \in Messages, Tell(a, m), m.op # "ACCEPTED" PROVE Reported(u)
        <5>1. /\ \A b \in Agents \ {a} : toManager'[b] = toManager[b]
              /\ \A j \in 1 .. Len(toManager[a]) : toManager'[a][j] = toManager[a][j]
              /\ toManager'[a][Len(toManager[a]) + 1] = m
              /\ \A j \in 1 .. Len(toManager'[a]) :
                   j \in 1 .. Len(toManager[a]) \/ j = Len(toManager[a]) + 1
          BY <1>1, <4>3, TellFacts
        <5>2. i \in 1 .. Len(toManager[Server]) /\ toManager[Server][i] = toManager'[Server][i]
          BY <1>1, <4>1, <4>3, <5>1
        <5>. QED  BY <4>1, <5>2 DEF Reported
      <4>. QED  BY <1>4, <4>2, <4>3
    <3>. QED  BY <1>2, <3>1 DEF Kept
  <2>18. CallInv'
    <3>. SUFFICES ASSUME NEW u \in Threads
                  PROVE  /\ InBacklog(u)' \/ Reported(u)' \/ Kept(u)' => Connecting(u)'
                         /\ ~(InBacklog(u)' /\ Reported(u)') /\ ~(InBacklog(u)' /\ Kept(u)')
                         /\ ~(Reported(u)' /\ Kept(u)')
      BY DEF CallInv
    <3>1. CASE u = t
      BY <2>7, <2>10, <2>17, <3>1
    <3>2. CASE u # t
      BY <2>11, <2>16, <2>17, <3>2 DEF ConnectionInv, CallInv
    <3>. QED  BY <3>1, <3>2
  <2>19. BacklogInv'
    <3>. SUFFICES ASSUME NEW p2 \in Ports, NEW i \in 1 .. Len(backlog'[p2])
                  PROVE  /\ Conn(backlog'[p2][i]).port = p2
                         /\ \A j \in 1 .. Len(backlog'[p2]) : backlog'[p2][j] = backlog'[p2][i] => i = j
      BY <1>2 DEF BacklogInv, Conn
    <3>1. \A j \in 1 .. Len(backlog[p2]) : backlog[p2][j] # t
      BY <2>7 DEF InBacklog
    <3>2. Conn(backlog'[p2][i]).port = p2
      BY <2>1, <2>14, <2>15 DEF ConnectionInv, BacklogInv
    <3>3. ASSUME NEW j \in 1 .. Len(backlog'[p2]), backlog'[p2][j] = backlog'[p2][i] PROVE i = j
      <4>1. CASE i \in 1 .. Len(backlog[p2]) /\ j \in 1 .. Len(backlog[p2])
        BY <2>14, <2>15, <3>3, <4>1 DEF ConnectionInv, BacklogInv
      <4>2. CASE i \notin 1 .. Len(backlog[p2]) \/ j \notin 1 .. Len(backlog[p2])
        BY <2>14, <2>15, <3>1, <3>3, <4>2
      <4>. QED  BY <4>1, <4>2
    <3>. QED  BY <3>2, <3>3
  <2>20. ReportInv'
    <3>1. \A i \in 1 .. Len(toManager'[Server]) : toManager'[Server][i].op = "ACCEPTED" =>
            i \in 1 .. Len(toManager[Server]) /\ toManager'[Server][i] = toManager[Server][i]
      <4>1. CASE toManager' = toManager
        BY <4>1
      <4>2. ASSUME NEW m \in Messages, Tell(a, m), m.op # "ACCEPTED"
            PROVE  \A i \in 1 .. Len(toManager'[Server]) : toManager'[Server][i].op = "ACCEPTED" =>
                     i \in 1 .. Len(toManager[Server]) /\ toManager'[Server][i] = toManager[Server][i]
        <5>1. /\ \A b \in Agents \ {a} : toManager'[b] = toManager[b]
              /\ \A j \in 1 .. Len(toManager[a]) : toManager'[a][j] = toManager[a][j]
              /\ toManager'[a][Len(toManager[a]) + 1] = m
              /\ \A j \in 1 .. Len(toManager'[a]) :
                   j \in 1 .. Len(toManager[a]) \/ j = Len(toManager[a]) + 1
          BY <1>1, <4>2, TellFacts
        <5>. QED  BY <1>1, <4>2, <5>1
      <4>. QED  BY <1>4, <4>1, <4>2
    <3>. QED  BY <3>1 DEF ConnectionInv, ReportInv
  <2>21. KeptInv'
    BY <1>2 DEF ConnectionInv, KeptInv, Conn
  <2>. QED  BY <2>18, <2>19, <2>20, <2>21 DEF ConnectionInv
<1>. QED  BY <1>5, <1>6, ServeBacklog

\* The server accepts the first connection of a port.
LEMMA ConnectionAccept ==
  ASSUME IInv, ConnectionInv, NEW f \in Fds, Accept(f)
  PROVE  ConnectionInv'
<1>1. /\ AgentTypes /\ TableTypes /\ ThreadTypes /\ PlaceInv /\ scenario \in Scenarios
      /\ Server \in Agents
  BY DEF IInv, DataTypes, StateInv, ThreadTypes, Agents
<1>2. /\ PortOf(f) \in Ports /\ FirstAt(PortOf(f)) \in Threads /\ fds[Server][f].id_req \in Nat
      /\ 1 \in 1 .. Len(backlog[PortOf(f)])
      /\ \A p \in Ports \ {PortOf(f)} : backlog'[p] = backlog[p]
      /\ \A i \in 1 .. Len(backlog'[PortOf(f)]) :
           /\ backlog'[PortOf(f)][i] = backlog[PortOf(f)][i + 1]
           /\ i + 1 \in 1 .. Len(backlog[PortOf(f)])
      /\ \E g \in Fds : Accepts(f, g)
      /\ UNCHANGED <<scenario, threads, requestNo, tables, toAgent, closed, failures, incidents>>
  BY <1>1, AcceptFacts
<1>3. PICK p \in Ports, t \in Threads, n \in Nat :
        p = PortOf(f) /\ t = FirstAt(p) /\ n = fds[Server][f].id_req
  BY <1>2
<1>4. /\ 1 \in 1 .. Len(backlog[p]) /\ backlog[p][1] = t
      /\ \A o \in Ports \ {p} : backlog'[o] = backlog[o]
      /\ \A i \in 1 .. Len(backlog'[p]) :
           backlog'[p][i] = backlog[p][i + 1] /\ i + 1 \in 1 .. Len(backlog[p])
  BY <1>2, <1>3 DEF FirstAt
<1>5. scenario' = scenario /\ toAgent' = toAgent /\ accepts' = accepts /\ UNCHANGED <<scenario, threads>>
  BY <1>2 DEF tables
<1>6. PICK g \in Fds : Accepts(f, g)
  BY <1>2
<1>7. PICK m \in Messages : m = Answer("ACCEPTED", n, g, t, TRUE)
  <2>1. Answer("ACCEPTED", n, g, t, TRUE) \in Messages
    BY DEF Answer, Messages, Fds
  <2>. QED  BY <2>1
<1>8. Tell(Server, m) /\ m.op = "ACCEPTED" /\ m.thread = t
  BY <1>3, <1>6, <1>7 DEF Accepts, Answer
<1>9. /\ Len(toManager'[Server]) = Len(toManager[Server]) + 1 /\ Len(toManager[Server]) \in Nat
      /\ \A i \in 1 .. Len(toManager[Server]) : toManager'[Server][i] = toManager[Server][i]
      /\ toManager'[Server][Len(toManager[Server]) + 1] = m
      /\ \A i \in 1 .. Len(toManager'[Server]) :
           i \in 1 .. Len(toManager[Server]) \/ i = Len(toManager[Server]) + 1
  BY <1>1, <1>8, TellFacts
<1>10. InBacklog(t)
  BY <1>4 DEF InBacklog
<1>11. Connecting(t) /\ ~Reported(t) /\ ~Kept(t)
  BY <1>10 DEF ConnectionInv, CallInv
<1>12. \A u \in Threads : Connecting(u) => Connecting(u)'
  BY <1>1, <1>5, UnmovedPlaces, ConnectingStill, DialingKept
<1>13. ASSUME NEW o \in Ports, NEW i \in 1 .. Len(backlog'[o])
       PROVE  \E j \in 1 .. Len(backlog[o]) :
                backlog'[o][i] = backlog[o][j] /\ j = (IF o = p THEN i + 1 ELSE i)
  BY <1>4
<1>14. ASSUME NEW u \in Threads, InBacklog(u)' PROVE InBacklog(u) /\ u # t
  <2>0. PICK o \in Ports : \E i \in 1 .. Len(backlog'[o]) : backlog'[o][i] = u
    BY <1>14 DEF InBacklog
  <2>1. PICK i \in 1 .. Len(backlog'[o]) : backlog'[o][i] = u
    BY <2>0
  <2>2. PICK j \in 1 .. Len(backlog[o]) : backlog[o][j] = u /\ j = (IF o = p THEN i + 1 ELSE i)
    BY <1>13, <2>1
  <2>3. InBacklog(u)
    BY <2>2 DEF InBacklog
  <2>4. u # t
    <3>. SUFFICES ASSUME u = t PROVE FALSE
      OBVIOUS
    <3>1. o = p
      BY <1>4, <2>2 DEF ConnectionInv, BacklogInv
    <3>2. j = 1
      BY <1>4, <2>2, <3>1 DEF ConnectionInv, BacklogInv
    <3>. QED  BY <2>2, <3>1, <3>2
  <2>. QED  BY <2>3, <2>4
<1>15. \A u \in Threads : (Reported(u)' => Reported(u) \/ u = t) /\ (Kept(u)' <=> Kept(u))
  BY <1>5, <1>8, <1>9 DEF Reported, Kept
<1>16. CallInv'
  BY <1>11, <1>12, <1>14, <1>15 DEF CallInv, ConnectionInv
<1>17. BacklogInv'
  <2>. SUFFICES ASSUME NEW o \in Ports, NEW i \in 1 .. Len(backlog'[o])
                PROVE  /\ Conn(backlog'[o][i]).port = o
                       /\ \A k \in 1 .. Len(backlog'[o]) : backlog'[o][k] = backlog'[o][i] => i = k
    BY <1>5 DEF BacklogInv, Conn
  <2>1. PICK j \in 1 .. Len(backlog[o]) :
          backlog'[o][i] = backlog[o][j] /\ j = (IF o = p THEN i + 1 ELSE i)
    BY <1>13
  <2>2. ASSUME NEW k \in 1 .. Len(backlog'[o]), backlog'[o][k] = backlog'[o][i] PROVE i = k
    <3>1. PICK l \in 1 .. Len(backlog[o]) :
            backlog'[o][k] = backlog[o][l] /\ l = (IF o = p THEN k + 1 ELSE k)
      BY <1>13
    <3>2. j = l
      BY <2>1, <2>2, <3>1 DEF ConnectionInv, BacklogInv
    <3>. QED  BY <2>1, <3>1, <3>2
  <2>. QED  BY <2>1, <2>2 DEF ConnectionInv, BacklogInv
<1>18. ReportInv'
  <2>. SUFFICES ASSUME NEW i \in 1 .. Len(toManager'[Server]), NEW j \in 1 .. Len(toManager'[Server]),
                       toManager'[Server][i].op = "ACCEPTED", toManager'[Server][j].op = "ACCEPTED",
                       toManager'[Server][i].thread = toManager'[Server][j].thread
                PROVE  i = j
    BY DEF ReportInv
  <2>1. \A k \in 1 .. Len(toManager[Server]) : toManager[Server][k].op = "ACCEPTED" =>
          toManager[Server][k].thread # t
    BY <1>11 DEF Reported
  <2>2. CASE i \in 1 .. Len(toManager[Server]) /\ j \in 1 .. Len(toManager[Server])
    BY <1>9, <2>2 DEF ConnectionInv, ReportInv
  <2>3. CASE i \notin 1 .. Len(toManager[Server]) \/ j \notin 1 .. Len(toManager[Server])
    BY <1>8, <1>9, <2>1, <2>3
  <2>. QED  BY <2>2, <2>3
<1>19. KeptInv'
  BY <1>5 DEF ConnectionInv, KeptInv, Conn
<1>. QED  BY <1>16, <1>17, <1>18, <1>19 DEF ConnectionInv

LEMMA ConnectionStep ==
  ASSUME IInv, TokenInv, ConnectionInv, KindInv, [Next]_vars, "stray" \notin incidents'
  PROVE  ConnectionInv'
<1>1. /\ AgentTypes /\ TableTypes /\ ThreadTypes /\ PlaceInv /\ Server \in Agents
  BY DEF IInv, DataTypes, StateInv, Agents
<1>2. CASE UNCHANGED vars
  <2>1. /\ toAgent' = toAgent /\ toManager' = toManager /\ backlog' = backlog /\ accepts' = accepts
        /\ UNCHANGED <<scenario, threads>> /\ scenario' = scenario
    BY <1>2 DEF vars, agents, tables
  <2>2. \A u \in Threads : Dialing(u)' => Dialing(u)
    BY <2>1, DialingKept
  <2>. QED  BY <1>1, <2>1, <2>2, ConnectionTells
<1>3. ASSUME NEW a \in Agents, NEW f \in Fds, Report(a, f)
      PROVE  ConnectionInv'
  <2>1. /\ UNCHANGED <<scenario, threads>> /\ toAgent' = toAgent /\ backlog' = backlog
        /\ accepts' = accepts /\ Busy(a, f) /\ scenario' = scenario
        /\ Tell(a, Answer(fds[a][f].busy, f, f, fds[a][f].thread, TRUE))
    BY <1>3 DEF Report, tables, Busy
  <2>2. fds[a][f].thread \in Threads /\ fds[a][f].busy \in {"SEND", "RECVTERM"}
    BY <1>1, <2>1, TokenThreads
  <2>3. PICK t \in Threads, op \in {"SEND", "RECVTERM"} : t = fds[a][f].thread /\ op = fds[a][f].busy
    BY <2>2
  <2>4. PICK m : m = Answer(op, f, f, t, TRUE)
    OBVIOUS
  <2>5. m \in Messages /\ m.op # "ACCEPTED"
    BY <2>4 DEF Answer, Messages, Fds, AnswerOps, Stats, SocketOps
  <2>6. Tell(a, m)
    BY <2>1, <2>3, <2>4
  <2>7. \A u \in Threads : Dialing(u)' => Dialing(u)
    BY <2>1, DialingKept
  <2>. QED  BY <1>1, <2>1, <2>5, <2>6, <2>7, ConnectionTells
<1>4. ASSUME NEW a \in Agents, NEW f \in Fds, EndOfStream(a, f)
      PROVE  ConnectionInv'
  <2>1. /\ UNCHANGED <<scenario, threads>> /\ toAgent' = toAgent /\ backlog' = backlog
        /\ accepts' = accepts /\ fds[a][f] # FreeFd /\ scenario' = scenario
        /\ Tell(a, Answer("CLOSED", f, f, fds[a][f].thread, TRUE))
    BY <1>4 DEF EndOfStream, tables
  <2>2. fds[a][f].thread \in Threads
    BY <1>1, <2>1, SocketFacts
  <2>3. PICK t \in Threads : t = fds[a][f].thread
    BY <2>2
  <2>4. PICK m : m = Answer("CLOSED", f, f, t, TRUE)
    OBVIOUS
  <2>5. m \in Messages /\ m.op # "ACCEPTED"
    BY <2>4 DEF Answer, Messages, Fds
  <2>6. Tell(a, m)
    BY <2>1, <2>3, <2>4
  <2>7. \A u \in Threads : Dialing(u)' => Dialing(u)
    BY <2>1, DialingKept
  <2>. QED  BY <1>1, <2>1, <2>5, <2>6, <2>7, ConnectionTells
<1>5. Next => \/ ThreadRests \/ (\E e \in Events : SyncFires(e)) \/ (\E t \in Threads : DelayEnds(t))
              \/ \E t \in Threads : Operation(t)
              \/ \E a \in Agents : Hear(a) \/ Serve(a)
              \/ \E f \in Fds : Accept(f) \/ \E a \in Agents : Report(a, f) \/ EndOfStream(a, f)
  BY DEF Next, Manager
<1>. QED  BY <1>2, <1>3, <1>4, <1>5, ConnectionLocal, ConnectionOperation, ConnectionHear,
             ConnectionServe, ConnectionAccept

LEMMA OrderlyStep ==
  ASSUME IInv, Orderly, OwnAnswers, [Next]_vars, "stray" \notin incidents'
  PROVE  Orderly'
BY TokenStep, ConnectionStep, KindStep DEF Orderly

LEMMA InitOrderly ==
  ASSUME Init
  PROVE  Orderly
<1>1. /\ toAgent = [a \in Agents |-> <<>>] /\ toManager = [a \in Agents |-> <<>>]
      /\ fds = [a \in Agents |-> [f \in Fds |-> FreeFd]] /\ accepts = {}
      /\ backlog = [p \in Ports |-> <<>>] /\ Server \in Agents
  BY DEF Init, Agents
<1>2. TokenInv
  BY <1>1 DEF TokenInv, TokenAt, AskInv, AnswerInv, WorkInv, Busy
<1>3. ConnectionInv
  BY <1>1 DEF ConnectionInv, CallInv, BacklogInv, ReportInv, KeptInv, InBacklog, Reported, Kept
<1>4. KindInv
  BY <1>1 DEF KindInv
<1>. QED  BY <1>2, <1>3, <1>4 DEF Orderly

----------------------------------------
(* Where what is on its way, or in a table, comes from. *)

LEMMA NextIs ==
  ASSUME [Next]_vars
  PROVE  NextCases
BY DEF Next, Manager, NextCases

LEMMA LocalKeeps ==
  ASSUME IInv, \/ UNCHANGED vars \/ ThreadRests \/ (\E e \in Events : SyncFires(e))
               \/ (\E t \in Threads : DelayEnds(t))
  PROVE  /\ requests' = requests /\ connects' = connects /\ listens' = listens /\ accepts' = accepts
         /\ toAgent' = toAgent /\ toManager' = toManager /\ requestNo' = requestNo
         /\ scenario' = scenario /\ UNCHANGED agents /\ incidents' = incidents
<1>1. ThreadTypes /\ DataTypes /\ StateInv
  BY DEF IInv
<1>2. UNCHANGED <<scenario, requestNo, tables, toAgent, toManager, agents, incidents>>
  BY <1>1, LocalState DEF vars
<1>. QED  BY <1>2 DEF tables

\* What an agent does on its own leaves the side of velm as it is.
LEMMA AgentKeeps ==
  ASSUME \/ \E a \in Agents : Serve(a)
         \/ \E f \in Fds : Accept(f) \/ \E a \in Agents : Report(a, f) \/ EndOfStream(a, f)
  PROVE  /\ requests' = requests /\ connects' = connects /\ listens' = listens /\ accepts' = accepts
         /\ requestNo' = requestNo /\ UNCHANGED <<scenario, threads>> /\ scenario' = scenario
BY DEF Serve, Accept, Report, EndOfStream, tables

LEMMA AskFrom ==
  ASSUME IInv, [Next]_vars, NEW a \in Agents, NEW i \in 1 .. Len(toAgent'[a])
  PROVE  \/ \E j \in 1 .. Len(toAgent[a]) : toAgent'[a][i] = toAgent[a][j]
         \/ \E t \in Threads, id \in Nat : \E end \in {"client", "server"}, op \in AnswerOps :
              Issues(t, a, end, op, id) /\ toAgent'[a][i] = Ask(t, op, id)
<1>. DEFINE Old == \E j \in 1 .. Len(toAgent[a]) : toAgent'[a][i] = toAgent[a][j]
<1>1. ThreadTypes /\ DataTypes /\ AgentTypes
  BY DEF IInv, DataTypes
<1>2. CASE toAgent' = toAgent
  BY <1>2
<1>3. CASE \/ UNCHANGED vars \/ ThreadRests \/ (\E e \in Events : SyncFires(e))
           \/ (\E t \in Threads : DelayEnds(t))
  BY <1>2, <1>3, LocalKeeps
<1>4. ASSUME NEW t \in Threads, Operation(t)
      PROVE  Old \/ \E u \in Threads, id \in Nat : \E end \in {"client", "server"}, op \in AnswerOps :
                      Issues(u, a, end, op, id) /\ toAgent'[a][i] = Ask(u, op, id)
  <2>1. ASSUME NEW b, NEW id, NEW end \in {"client", "server"}, NEW op \in AnswerOps, Issues(t, b, end, op, id)
        PROVE  Old \/ (Issues(t, a, end, op, id) /\ id \in Nat /\ toAgent'[a][i] = Ask(t, op, id))
    <3>1. b \in Agents /\ id \in Nat
      BY <1>1, <2>1, IssueTypes
    <3>2. Send(t, b, op, id)
      BY <2>1 DEF Issues
    <3>3. /\ \A c \in Agents \ {b} : toAgent'[c] = toAgent[c]
          /\ \A j \in 1 .. Len(toAgent[b]) : toAgent'[b][j] = toAgent[b][j]
          /\ toAgent'[b][Len(toAgent[b]) + 1] = Ask(t, op, id)
          /\ \A j \in 1 .. Len(toAgent'[b]) : j \in 1 .. Len(toAgent[b]) \/ j = Len(toAgent[b]) + 1
      BY <1>1, <3>1, <3>2, SendFacts DEF Ask
    <3>4. CASE b = a
      BY <2>1, <3>1, <3>3, <3>4
    <3>5. CASE b # a
      BY <3>3, <3>5
    <3>. QED  BY <3>4, <3>5
  <2>2. /\ \A l \in listens : Awaits(t, l) => toAgent' = toAgent
        /\ \A c \in accepts : Takes(t, c) => toAgent' = toAgent
        /\ Alone(t) => toAgent' = toAgent
    BY DEF Awaits, Takes, Alone
  <2>. QED  BY <1>2, <1>4, <2>1, <2>2, OperationCases
<1>5. ASSUME NEW b \in Agents, Hear(b) PROVE Old
  BY <1>1, <1>5, HearCases
<1>6. ASSUME NEW b \in Agents, Serve(b) PROVE Old
  <2>1. /\ \A c \in Agents \ {b} : toAgent'[c] = toAgent[c]
        /\ \A j \in 1 .. Len(toAgent'[b]) :
             toAgent'[b][j] = toAgent[b][j + 1] /\ j + 1 \in 1 .. Len(toAgent[b])
    BY <1>1, <1>6, ServeFacts
  <2>2. CASE b = a
    BY <2>1, <2>2
  <2>3. CASE b # a
    BY <2>1, <2>3
  <2>. QED  BY <2>2, <2>3
<1>7. CASE \E f \in Fds : Accept(f) \/ \E b \in Agents : Report(b, f) \/ EndOfStream(b, f)
  BY <1>2, <1>7 DEF Accept, Report, EndOfStream
<1>. QED  BY <1>3, <1>4, <1>5, <1>6, <1>7, NextIs DEF NextCases

LEMMA RequestFrom ==
  ASSUME IInv, [Next]_vars, NEW a \in Agents, NEW r \in requests'[a]
  PROVE  \/ r \in requests[a]
         \/ \E t \in Threads, id \in Nat : \E end \in {"client", "server"}, op \in AnswerOps :
              Issues(t, a, end, op, id) /\ r = Req(t, op, id)
         \/ \E t \in Threads : \E l \in listens :
              a = Server /\ Awaits(t, l) /\ r = Req(t, "ACCEPT", l.id_req)
<1>. DEFINE New == \/ \E t \in Threads, id \in Nat : \E end \in {"client", "server"}, op \in AnswerOps :
                        Issues(t, a, end, op, id) /\ r = Req(t, op, id)
                   \/ \E t \in Threads : \E l \in listens :
                        a = Server /\ Awaits(t, l) /\ r = Req(t, "ACCEPT", l.id_req)
<1>1. ThreadTypes /\ DataTypes /\ TableTypes /\ AgentTypes
  BY DEF IInv, DataTypes
<1>2. CASE requests' = requests
  BY <1>2
<1>3. CASE \/ UNCHANGED vars \/ ThreadRests \/ (\E e \in Events : SyncFires(e))
           \/ (\E t \in Threads : DelayEnds(t))
  BY <1>2, <1>3, LocalKeeps
<1>4. ASSUME NEW t \in Threads, Operation(t) PROVE r \in requests[a] \/ New
  <2>1. ASSUME NEW b, NEW id, NEW end \in {"client", "server"}, NEW op \in AnswerOps, Issues(t, b, end, op, id)
        PROVE  r \in requests[a] \/ New
    <3>1. b \in Agents /\ id \in Nat /\ op \in Stats /\ Request(t, b, op, id)
      BY <1>1, <2>1, IssueTypes DEF Issues, AnswerOps
    <3>2. /\ \A c \in Agents \ {b} : requests'[c] = requests[c]
          /\ requests'[b] \subseteq requests[b] \union {Req(t, op, id)}
      BY <1>1, <3>1, RequestFacts
    <3>3. r \in requests[a] \/ (b = a /\ r = Req(t, op, id))
      BY <3>1, <3>2
    <3>. QED  BY <2>1, <3>1, <3>3
  <2>2. ASSUME NEW l \in listens, Awaits(t, l)
        PROVE  r \in requests[a] \/ New
    <3>1. Server \in Agents /\ l.id_req \in Nat /\ "ACCEPT" \in Stats /\ Request(t, Server, "ACCEPT", l.id_req)
      BY <1>1, <2>2, AwaitTypes DEF Awaits, Stats, Agents
    <3>2. /\ \A c \in Agents \ {Server} : requests'[c] = requests[c]
          /\ requests'[Server] \subseteq requests[Server] \union {Req(t, "ACCEPT", l.id_req)}
      BY <1>1, <3>1, RequestFacts
    <3>3. r \in requests[a] \/ (a = Server /\ r = Req(t, "ACCEPT", l.id_req))
      BY <3>1, <3>2
    <3>. QED  BY <2>2, <3>3
  <2>3. /\ \A c \in accepts : Takes(t, c) => requests' = requests
        /\ Alone(t) => requests' = requests
    BY DEF Takes, Alone, tables
  <2>. HIDE DEF New
  <2>. QED  BY <1>2, <1>4, <2>1, <2>2, <2>3, OperationCases
<1>5. ASSUME NEW b \in Agents, Hear(b) PROVE r \in requests[a]
  <2>1. HearSteps(b, toManager[b][1])
    BY <1>1, <1>5, HearCases
  <2>2. ASSUME NEW m, NEW q \in requests[b], Settles(b, m, q) PROVE r \in requests[a]
    <3>1. requests' = [requests EXCEPT ![b] = requests[b] \ {q}]
      BY <2>2 DEF Settles
    <3>. QED  BY <1>1, <3>1 DEF TableTypes
  <2>3. ASSUME NEW m, NEW q \in requests[Server], Admits(m, q) PROVE r \in requests[a]
    <3>1. requests' = [requests EXCEPT ![Server] = requests[Server] \ {q}] /\ Server \in Agents
      BY <2>3 DEF Admits, Agents
    <3>. QED  BY <1>1, <3>1 DEF TableTypes
  <2>4. \A m : Keeps(m) => requests' = requests
    BY DEF Keeps
  <2>. QED  BY <2>1, <2>2, <2>3, <2>4 DEF HearSteps, Unexpected, tables
<1>6. CASE \/ \E b \in Agents : Serve(b)
           \/ \E f \in Fds : Accept(f) \/ \E b \in Agents : Report(b, f) \/ EndOfStream(b, f)
  BY <1>2, <1>6, AgentKeeps
<1>. QED  BY <1>3, <1>4, <1>5, <1>6, NextIs DEF NextCases

LEMMA ConnectFrom ==
  ASSUME IInv, OwnAnswers, [Next]_vars, NEW a \in Agents, NEW c \in connects'[a],
         NEW f, NEW t, Of(c, f, t)
  PROVE  \/ \E d \in connects[a] : Of(d, f, t)
         \/ a = Server /\ \E d \in accepts : Of(d, f, t)
         \/ /\ 1 \in 1 .. Len(toManager[a]) /\ First(a).ok /\ Of(First(a), f, t)
<1>. DEFINE Old == \E d \in connects[a] : Of(d, f, t)
            Told == 1 \in 1 .. Len(toManager[a]) /\ First(a).ok /\ Of(First(a), f, t)
            Taken == a = Server /\ \E d \in accepts : Of(d, f, t)
<1>1. ThreadTypes /\ DataTypes /\ TableTypes /\ AgentTypes /\ StateInv
  BY DEF IInv, DataTypes
<1>2. CASE connects' = connects
  BY <1>2
<1>3. CASE \/ UNCHANGED vars \/ ThreadRests \/ (\E e \in Events : SyncFires(e))
           \/ (\E u \in Threads : DelayEnds(u))
  BY <1>2, <1>3, LocalKeeps
<1>4. ASSUME NEW u \in Threads, Operation(u) PROVE Old \/ Taken
  <2>1. ASSUME NEW b, NEW id, NEW end \in {"client", "server"}, NEW op \in AnswerOps, Issues(u, b, end, op, id)
        PROVE  Old
    <3>1. b \in Agents
      BY <1>1, <2>1, IssueTypes
    <3>2. CASE connects' = connects
      BY <3>2
    <3>3. ASSUME NEW d \in Sockets(u, b, Known(op)),
                 connects' = [connects EXCEPT ![b] = (connects[b] \ {d}) \union {[d EXCEPT !.stat = "CLOSING"]}]
          PROVE  Old
      <4>1. d \in connects[b]
        BY DEF Sockets
      <4>2. PICK n : n = [d EXCEPT !.stat = "CLOSING"]
        OBVIOUS
      <4>3. n.id_sock = d.id_sock /\ n.thread = d.thread
        BY <1>1, <3>1, <4>1, <4>2, ElementFacts
      <4>4. c \in connects[a] \/ (b = a /\ c = n)
        BY <1>1, <3>1, <3>3, <4>2 DEF TableTypes
      <4>. QED  BY <4>1, <4>3, <4>4 DEF Of
    <3>. QED  BY <2>1, <3>2, <3>3 DEF Issues
  <2>2. ASSUME NEW d \in accepts, Takes(u, d) PROVE Old \/ Taken
    <3>1. PICK n : n = [stat |-> "CONNECTED", thread |-> u, id_sock |-> d.id_sock]
      OBVIOUS
    <3>2. c \in connects[a] \/ (a = Server /\ c = n)
      BY <1>1, <2>2, <3>1 DEF Takes, TableTypes, Agents
    <3>3. n.id_sock = d.id_sock /\ n.thread = d.thread
      BY <2>2, <3>1 DEF Takes
    <3>. QED  BY <3>2, <3>3 DEF Of
  <2>3. /\ \A l \in listens : Awaits(u, l) => connects' = connects
        /\ Alone(u) => connects' = connects
    BY DEF Awaits, Alone, tables
  <2>. QED  BY <1>2, <1>4, <2>1, <2>2, <2>3, OperationCases
<1>5. ASSUME NEW b \in Agents, Hear(b) PROVE Old \/ Told
  <2>1. HearSteps(b, First(b)) /\ 1 \in 1 .. Len(toManager[b]) /\ First(b) \in Messages /\ Proper(b, First(b))
    BY <1>1, <1>5, HearCases, HearFacts DEF First, DataTypes, FdTypes
  <2>2. PICK m \in Messages : m = First(b)
    BY <2>1
  <2>3. ASSUME NEW d \in connects[b], connects' = [connects EXCEPT ![b] = connects[b] \ {d}]
        PROVE  Old
    <3>1. connects'[a] \subseteq connects[a]
      BY <1>1, <2>3 DEF TableTypes
    <3>. QED  BY <3>1
  <2>4. ASSUME NEW s, NEW u, m.ok, m.thread = u,
               connects' = [connects EXCEPT ![b] = connects[b] \union
                              {[stat |-> s, thread |-> u, id_sock |-> m.id_sock]}]
        PROVE  Old \/ Told
    <3>1. PICK n : n = [stat |-> s, thread |-> u, id_sock |-> m.id_sock]
      OBVIOUS
    <3>2. n.id_sock = m.id_sock /\ n.thread = m.thread
      BY <2>4, <3>1
    <3>3. c \in connects[a] \/ (a = b /\ c = n)
      BY <1>1, <2>4, <3>1 DEF TableTypes
    <3>. QED  BY <2>1, <2>2, <2>4, <3>2, <3>3 DEF Of
  <2>5. ASSUME NEW r \in requests[b], m.op \in AnswerOps, Settles(b, m, r)
        PROVE  Old \/ Told
    <3>1. r.thread = m.thread
      BY <2>1, <2>2, <2>5 DEF OwnAnswers, IsAnswer, Settles, First
    <3>2. SettlesConnects(b, m, r)
      BY <2>5 DEF Settles
    <3>3. CASE connects' = HearClosing(b, r)
      <4>1. connects'[a] \subseteq connects[a]
        BY <1>1, <3>3 DEF TableTypes, HearClosing
      <4>. QED  BY <4>1
    <3>4. ASSUME NEW s \in {"OPENED", "CONNECTED"}, m.ok,
                 connects' = [connects EXCEPT ![b] = connects[b] \union
                   {[stat |-> s, thread |-> r.thread, id_sock |-> m.id_sock]}]
          PROVE  Old \/ Told
      BY <2>4, <3>1, <3>4
    <3>5. CASE /\ m.ok /\ m.op = "LISTEN"
               /\ connects' = [connects EXCEPT ![Server] = connects[Server] \union
                    {[stat |-> "CONNECTED", thread |-> r.thread, id_sock |-> m.id_sock]}]
      <4>1. WaitsAt(r.thread, b, "LISTEN") /\ r.thread \in Threads
        BY <1>1, <2>5, <3>5, ElementFacts DEF StateInv, PlaceInv, PendingInv, Settles
      <4>2. b = Server
        BY <1>1, <4>1, WaitsAtFacts
      <4>. QED  BY <2>4, <3>1, <3>5, <4>2
    <3>. QED  BY <1>2, <3>2, <3>3, <3>4, <3>5 DEF SettlesConnects
  <2>6. ASSUME NEW r \in requests[Server], m.op = "ACCEPTED", Admits(m, r)
        PROVE  Old \/ Told
    <3>1. b = Server /\ m.ok /\ r.thread = m.thread
      BY <2>1, <2>2, <2>6 DEF Proper, Admits, Accepting
    <3>. QED  BY <2>4, <2>6, <3>1 DEF Admits
  <2>7. Keeps(m) \/ Unexpected => connects' = connects
    BY DEF Keeps, Unexpected, tables
  <2>. QED  BY <1>2, <2>1, <2>2, <2>3, <2>5, <2>6, <2>7 DEF HearSteps
<1>6. CASE \/ \E b \in Agents : Serve(b)
           \/ \E g \in Fds : Accept(g) \/ \E b \in Agents : Report(b, g) \/ EndOfStream(b, g)
  BY <1>2, <1>6, AgentKeeps
<1>. QED  BY <1>3, <1>4, <1>5, <1>6, NextIs DEF NextCases

LEMMA AcceptFrom ==
  ASSUME IInv, [Next]_vars, NEW c \in accepts'
  PROVE  \/ c \in accepts
         \/ /\ 1 \in 1 .. Len(toManager[Server]) /\ First(Server).ok
            /\ Hear(Server) /\ First(Server).op = "ACCEPTED" /\ Keeps(First(Server))
            /\ Of(c, First(Server).id_sock, First(Server).thread)
<1>1. ThreadTypes /\ DataTypes /\ TableTypes /\ AgentTypes /\ StateInv
  BY DEF IInv, DataTypes
<1>2. CASE accepts' \subseteq accepts
  BY <1>2
<1>3. CASE \/ UNCHANGED vars \/ ThreadRests \/ (\E e \in Events : SyncFires(e))
           \/ (\E u \in Threads : DelayEnds(u))
  BY <1>2, <1>3, LocalKeeps
<1>4. ASSUME NEW u \in Threads, Operation(u) PROVE accepts' \subseteq accepts
  <2>1. /\ \A b, id : \A end \in {"client", "server"}, op \in AnswerOps :
             Issues(u, b, end, op, id) => accepts' \subseteq accepts
        /\ \A l \in listens : Awaits(u, l) => accepts' \subseteq accepts
        /\ \A d \in accepts : Takes(u, d) => accepts' \subseteq accepts
        /\ Alone(u) => accepts' \subseteq accepts
    BY DEF Issues, Awaits, Takes, Alone, tables
  <2>. QED  BY <1>4, <2>1, OperationCases
<1>5. ASSUME NEW b \in Agents, Hear(b)
      PROVE  \/ accepts' = accepts
             \/ /\ 1 \in 1 .. Len(toManager[Server]) /\ First(Server).ok
                /\ Hear(Server) /\ First(Server).op = "ACCEPTED" /\ Keeps(First(Server))
                /\ c \in accepts \/ Of(c, First(Server).id_sock, First(Server).thread)
  <2>1. HearSteps(b, First(b)) /\ 1 \in 1 .. Len(toManager[b]) /\ First(b) \in Messages /\ Proper(b, First(b))
    BY <1>1, <1>5, HearCases, HearFacts DEF First, DataTypes, FdTypes
  <2>2. PICK m : m = First(b)
    OBVIOUS
  <2>3. CASE m.op = "ACCEPTED" /\ Keeps(m)
    <3>1. b = Server /\ m.ok
      BY <2>1, <2>2, <2>3 DEF Proper
    <3>2. accepts' = accepts \union {[thread |-> m.thread, port |-> Conn(m.thread).port, id_sock |-> m.id_sock]}
      BY <2>3 DEF Keeps
    <3>3. PICK n : n = [thread |-> m.thread, port |-> Conn(m.thread).port, id_sock |-> m.id_sock]
      OBVIOUS
    <3>4. n.thread = m.thread /\ n.id_sock = m.id_sock /\ c \in accepts \union {n}
      BY <3>2, <3>3
    <3>. QED  BY <1>5, <2>1, <2>2, <2>3, <3>1, <3>4 DEF Of
  <2>4. /\ \A r \in requests[b] : Settles(b, m, r) => accepts' = accepts
        /\ \A r \in requests[Server] : Admits(m, r) => accepts' = accepts
        /\ Unexpected => accepts' = accepts
    BY DEF Settles, Admits, Unexpected, tables
  <2>. QED  BY <2>1, <2>2, <2>3, <2>4 DEF HearSteps
<1>6. CASE \/ \E b \in Agents : Serve(b)
           \/ \E g \in Fds : Accept(g) \/ \E b \in Agents : Report(b, g) \/ EndOfStream(b, g)
  BY <1>2, <1>6, AgentKeeps
<1>. QED  BY <1>2, <1>3, <1>4, <1>5, <1>6, NextIs DEF NextCases

LEMMA ServeReplies ==
  ASSUME IInv, NEW a \in Agents, Serve(a)
  PROVE  toManager' = toManager \/ \E m \in Messages : Tell(a, m) /\ Replies(a, m)
<1>1. AgentTypes /\ FdTypes /\ scenario \in Scenarios
  BY DEF IInv, DataTypes, ThreadTypes
<1>2. PICK r \in Requests : Serving(a, r)
  BY ServeRequest
<1>. USE DEF Serving
<1>5. PICK op \in AnswerOps, n \in Nat, t \in Threads : op = r.op /\ n = r.id /\ t = r.thread
  BY DEF Requests
<1>6. NewOps \intersect SocketOps = {}
  BY DEF NewOps, SocketOps
<1>7. CASE r.op \in NewOps
  <2>1. Declines(a, r) \/ \E f \in Fds, k \in {"tcp", "udp", "listen"} : Creates(a, r, f, k)
    BY <1>1, <1>2, <1>7, NewCases
  <2>2. CASE Declines(a, r)
    <3>1. PICK m : m = Answer(op, n, 0, t, FALSE)
      OBVIOUS
    <3>2. m \in Messages /\ m.op = op /\ m.id = n /\ m.thread = t /\ ~m.ok
      BY <3>1 DEF Answer, Messages
    <3>3. Tell(a, m)
      BY <1>5, <2>2, <3>1 DEF Declines
    <3>4. Replies(a, m)
      BY <1>2, <1>5, <1>6, <1>7, <2>2, <3>2 DEF Replies
    <3>. QED  BY <3>2, <3>3, <3>4
  <2>3. ASSUME NEW f \in Fds, NEW k \in {"tcp", "udp", "listen"}, Creates(a, r, f, k)
        PROVE  \E m \in Messages : Tell(a, m) /\ Replies(a, m)
    <3>1. PICK m : m = Answer(op, n, f, t, TRUE)
      OBVIOUS
    <3>2. m \in Messages /\ m.op = op /\ m.id = n /\ m.thread = t /\ m.ok /\ m.id_sock = f
      BY <3>1 DEF Answer, Messages, Fds
    <3>3. Tell(a, m)
      BY <1>5, <2>3, <3>1 DEF Creates
    <3>4. Replies(a, m)
      BY <1>2, <1>5, <1>6, <1>7, <2>3, <3>2 DEF Replies
    <3>. QED  BY <3>2, <3>3, <3>4
  <2>. QED  BY <2>1, <2>2, <2>3
<1>8. CASE r.op \in SocketOps
  <2>1. Misses(a, r) \/ Dials(a, r) \/ Reads(a, r) \/ Begins(a, r) \/ Shuts(a, r)
    BY <1>1, <1>2, <1>8, SocketCases
  <2>2. CASE Begins(a, r)
    BY <2>2 DEF Begins
  <2>3. ASSUME NEW ok \in BOOLEAN, Tell(a, Answer(r.op, r.id, r.id, r.thread, ok))
        PROVE  \E m \in Messages : Tell(a, m) /\ Replies(a, m)
    <3>1. PICK m : m = Answer(op, n, n, t, ok)
      OBVIOUS
    <3>2. m \in Messages /\ m.op = op /\ m.id = n /\ m.thread = t /\ m.id_sock = n
      BY <3>1 DEF Answer, Messages
    <3>3. Tell(a, m)
      BY <1>5, <2>3, <3>1
    <3>4. Replies(a, m)
      <4>1. Serve(a)
        OBVIOUS
      <4>. QED  BY <1>2, <1>5, <1>6, <1>8, <3>2, <4>1 DEF Replies
    <3>. QED  BY <3>2, <3>3, <3>4
  <2>4. CASE Dials(a, r)
    <3>1. Tell(a, Answer(r.op, r.id, r.id, r.thread,
                         fds[a][r.id].kind = "udp" \/ ListensAt(Conn(r.thread).port)))
      BY <2>4 DEF Dials
    <3>2. PICK ok \in BOOLEAN : ok = (fds[a][r.id].kind = "udp" \/ ListensAt(Conn(r.thread).port))
      OBVIOUS
    <3>. QED  BY <2>3, <3>1, <3>2
  <2>5. CASE Misses(a, r)
    BY <2>3, <2>5 DEF Misses
  <2>6. CASE Reads(a, r) \/ Shuts(a, r)
    <3>1. Tell(a, Answer(r.op, r.id, r.id, r.thread, TRUE)) /\ TRUE \in BOOLEAN
      BY <2>6 DEF Reads, Shuts
    <3>. QED  BY <2>3, <3>1
  <2>. QED  BY <2>1, <2>2, <2>4, <2>5, <2>6
<1>. QED  BY <1>2, <1>7, <1>8

\* One more message at the end of a queue.
LEMMA Told ==
  ASSUME AgentTypes, NEW b \in Agents, NEW m \in Messages, Tell(b, m),
         NEW a \in Agents, NEW i \in 1 .. Len(toManager'[a])
  PROVE  \/ i \in 1 .. Len(toManager[a]) /\ toManager'[a][i] = toManager[a][i]
         \/ a = b /\ toManager'[a][i] = m /\ i = Len(toManager[a]) + 1
<1>1. /\ \A c \in Agents \ {b} : toManager'[c] = toManager[c]
      /\ \A j \in 1 .. Len(toManager[b]) : toManager'[b][j] = toManager[b][j]
      /\ toManager'[b][Len(toManager[b]) + 1] = m
      /\ \A j \in 1 .. Len(toManager'[b]) :
           j \in 1 .. Len(toManager[b]) \/ j = Len(toManager[b]) + 1
  BY TellFacts
<1>2. CASE a = b
  BY <1>1, <1>2
<1>3. CASE a # b
  BY <1>1, <1>3
<1>. QED  BY <1>2, <1>3

\* Somebody tells velm something, or velm hears it.
LEMMA Tells ==
  ASSUME IInv, [Next]_vars
  PROVE  \/ toManager' = toManager \/ \E b \in Agents : Hear(b)
         \/ \E b \in Agents, m \in Messages : Tell(b, m) /\ Says(b, m)
<1>. DEFINE P == \/ toManager' = toManager \/ \E b \in Agents : Hear(b)
                 \/ \E b \in Agents, m \in Messages : Tell(b, m) /\ Says(b, m)
<1>1. ThreadTypes /\ DataTypes /\ TableTypes /\ AgentTypes /\ scenario \in Scenarios
  BY DEF IInv, DataTypes, ThreadTypes
<1>2. ASSUME toManager' = toManager \/ \E b \in Agents : Hear(b) PROVE P
  BY <1>2
<1>4. ASSUME NEW u \in Threads, Operation(u) PROVE toManager' = toManager
  <2>1. /\ \A b, id : \A end \in {"client", "server"}, op \in AnswerOps :
             Issues(u, b, end, op, id) => toManager' = toManager
        /\ \A l \in listens : Awaits(u, l) => toManager' = toManager
        /\ \A d \in accepts : Takes(u, d) => toManager' = toManager
        /\ Alone(u) => toManager' = toManager
    BY DEF Issues, Awaits, Takes, Alone
  <2>. QED  BY <1>4, <2>1, OperationCases
<1>6. ASSUME NEW b \in Agents, NEW m \in Messages, Tell(b, m), Says(b, m) PROVE P
  BY <1>6
<1>. HIDE DEF P
<1>3. ASSUME \/ UNCHANGED vars \/ ThreadRests \/ (\E e \in Events : SyncFires(e))
             \/ (\E u \in Threads : DelayEnds(u))
      PROVE  P
  BY <1>2, <1>3, LocalKeeps
<1>7. ASSUME NEW b \in Agents, Serve(b) PROVE P
  BY <1>2, <1>6, <1>7, ServeReplies DEF Says
<1>8. ASSUME NEW b \in Agents, NEW f \in Fds, Report(b, f) PROVE P
  <2>1. Busy(b, f) /\ Tell(b, Answer(fds[b][f].busy, f, f, fds[b][f].thread, TRUE))
    BY <1>8 DEF Report, Busy
  <2>2. fds[b][f].thread \in Threads /\ fds[b][f].busy \in {"SEND", "RECVTERM"}
    BY <1>1, <2>1, TokenThreads
  <2>3. PICK t \in Threads, op \in {"SEND", "RECVTERM"} : t = fds[b][f].thread /\ op = fds[b][f].busy
    BY <2>2
  <2>4. PICK m : m = Answer(op, f, f, t, TRUE)
    OBVIOUS
  <2>5. m \in Messages /\ m.op = op /\ m.id = f /\ m.id_sock = f /\ m.thread = t
    BY <2>4 DEF Answer, Messages, Fds, AnswerOps, Stats, SocketOps
  <2>6. Tell(b, m)
    BY <2>1, <2>3, <2>4
  <2>7. op # "CLOSED" /\ ~EndOfStream(b, f)
    <3>1. toManager' # toManager
      BY <1>1, <2>5, <2>6, TellFacts
    <3>2. ASSUME EndOfStream(b, f) PROVE FALSE
      <4>1. fds' = [fds EXCEPT ![b][f] = FreeFd] /\ fds' = [fds EXCEPT ![b][f].busy = "no"] /\ fds[b][f] # FreeFd
        BY <1>8, <3>2 DEF EndOfStream, Report
      <4>2. PICK s \in SocketType : s = fds[b][f]
        BY <1>1, <4>1, SocketFacts
      <4>3. PICK n : n = [s EXCEPT !.busy = "no"]
        OBVIOUS
      <4>4. n \in SocketType
        BY <4>3 DEF SocketType
      <4>5. fds' = [fds EXCEPT ![b][f] = n]
        BY <4>1, <4>2, <4>3
      <4>6. fds'[b][f] = n
        BY <1>1, <4>4, <4>5, PutFacts
      <4>7. fds'[b][f] = FreeFd
        <5>1. PICK free \in {FreeFd} \union SocketType : free = FreeFd
          OBVIOUS
        <5>2. fds' = [fds EXCEPT ![b][f] = free]
          BY <4>1, <5>1
        <5>. QED  BY <1>1, <5>1, <5>2, PutFacts
      <4>. QED  BY <4>4, <4>6, <4>7, FreeIsNoSocket
    <3>. QED  BY <3>2
  <2>8. Reports(b, m)
    BY <1>8, <2>1, <2>3, <2>5, <2>7 DEF Reports, Busy
  <2>. QED  BY <1>6, <2>5, <2>6, <2>8 DEF Says
<1>9. ASSUME NEW b \in Agents, NEW f \in Fds, EndOfStream(b, f), ~Report(b, f) PROVE P
  <2>1. fds[b][f] # FreeFd /\ Tell(b, Answer("CLOSED", f, f, fds[b][f].thread, TRUE))
    BY <1>9 DEF EndOfStream
  <2>2. fds[b][f].thread \in Threads
    BY <1>1, <2>1, SocketFacts
  <2>3. PICK t \in Threads : t = fds[b][f].thread
    BY <2>2
  <2>4. PICK m : m = Answer("CLOSED", f, f, t, TRUE)
    OBVIOUS
  <2>5. m \in Messages /\ m.op = "CLOSED" /\ m.id = f /\ m.id_sock = f /\ m.thread = t
    BY <2>4 DEF Answer, Messages, Fds
  <2>6. Tell(b, m)
    BY <2>1, <2>3, <2>4
  <2>7. Reports(b, m)
    BY <1>9, <2>1, <2>3, <2>5 DEF Reports
  <2>. QED  BY <1>6, <2>5, <2>6, <2>7 DEF Says
<1>10. ASSUME NEW f \in Fds, Accept(f) PROVE P
  <2>1. FirstAt(PortOf(f)) \in Threads /\ fds[Server][f].id_req \in Nat /\ \E g \in Fds : Accepts(f, g)
    BY <1>1, <1>10, AcceptFacts
  <2>2. PICK g \in Fds : Accepts(f, g)
    BY <2>1
  <2>3. PICK t \in Threads, n \in Nat : t = FirstAt(PortOf(f)) /\ n = fds[Server][f].id_req
    BY <2>1
  <2>4. PICK m : m = Answer("ACCEPTED", n, g, t, TRUE)
    OBVIOUS
  <2>5. m \in Messages /\ m.op = "ACCEPTED" /\ m.id = n /\ m.id_sock = g /\ m.thread = t /\ m.ok
    BY <2>4 DEF Answer, Messages, Fds
  <2>6. Tell(Server, m) /\ Server \in Agents
    BY <2>2, <2>3, <2>4 DEF Accepts, Agents
  <2>7. Announces(Server, m)
    BY <1>10, <2>2, <2>3, <2>5 DEF Announces
  <2>. QED  BY <1>6, <2>5, <2>6, <2>7 DEF Says
<1>11. P
  BY <1>2, <1>3, <1>4, <1>7, <1>8, <1>9, <1>10, NextIs DEF NextCases
<1>. QED  BY <1>11 DEF P

\* Where what velm is told comes from.
LEMMA TellFrom ==
  ASSUME IInv, [Next]_vars, NEW a \in Agents, NEW i \in 1 .. Len(toManager'[a])
  PROVE  \/ \E j \in 1 .. Len(toManager[a]) : toManager'[a][i] = toManager[a][j]
         \/ \E m \in Messages : toManager'[a][i] = m /\ Tell(a, m) /\ Says(a, m)
<1>1. AgentTypes
  BY DEF IInv, DataTypes
<1>2. ASSUME NEW b \in Agents, Hear(b)
      PROVE  \E j \in 1 .. Len(toManager[a]) : toManager'[a][i] = toManager[a][j]
  <2>1. /\ \A c \in Agents \ {b} : toManager'[c] = toManager[c]
        /\ \A j \in 1 .. Len(toManager'[b]) :
             toManager'[b][j] = toManager[b][j + 1] /\ j + 1 \in 1 .. Len(toManager[b])
    BY <1>1, <1>2, HearFacts
  <2>2. CASE a = b
    BY <2>1, <2>2
  <2>3. CASE a # b
    BY <2>1, <2>3
  <2>. QED  BY <2>2, <2>3
<1>3. ASSUME NEW b \in Agents, NEW m \in Messages, Tell(b, m), Says(b, m)
      PROVE  \/ \E j \in 1 .. Len(toManager[a]) : toManager'[a][i] = toManager[a][j]
             \/ toManager'[a][i] = m /\ Tell(a, m) /\ Says(a, m)
  BY <1>1, <1>3, Told
<1>4. ASSUME toManager' = toManager
      PROVE  \E j \in 1 .. Len(toManager[a]) : toManager'[a][i] = toManager[a][j]
  BY <1>4
<1>. QED  BY <1>2, <1>3, <1>4, Tells

----------------------------------------
(* The numbers of the requests for new sockets.                            *)

LEMMA NumberedFrom ==
  ASSUME IInv, [Next]_vars, NEW a \in Agents, NEW n \in Nat, NEW t, Numbered(a, n, t)'
  PROVE  \/ Numbered(a, n, t)
         \/ \E end \in {"client", "server"}, op \in NewOps : Issues(t, a, end, op, n)
<1>1. TableTypes /\ AgentTypes
  BY DEF IInv, DataTypes
<1>2. ASSUME NEW r \in requests'[a], r.stat \in NewOps, r.id = n, r.thread = t
      PROVE  \/ Numbered(a, n, t)
             \/ \E end \in {"client", "server"}, op \in NewOps : Issues(t, a, end, op, n)
  <2>1. CASE r \in requests[a]
    BY <1>2, <2>1 DEF Numbered
  <2>2. ASSUME NEW u \in Threads, NEW id \in Nat, NEW end \in {"client", "server"},
               NEW op \in AnswerOps, Issues(u, a, end, op, id), r = Req(u, op, id)
        PROVE  \E end2 \in {"client", "server"}, op2 \in NewOps : Issues(t, a, end2, op2, n)
    <3>1. u = t /\ id = n /\ op \in NewOps
      BY <1>2, <2>2, ReqFacts
    <3>. QED  BY <2>2, <3>1
  <2>3. ASSUME NEW u \in Threads, NEW l \in listens, r = Req(u, "ACCEPT", l.id_req) PROVE FALSE
    <3>1. r.stat = "ACCEPT"
      BY <2>3, ReqFacts
    <3>. QED  BY <1>2, <3>1 DEF NewOps
  <2>. QED  BY <2>1, <2>2, <2>3, RequestFrom
<1>3. ASSUME NEW i \in 1 .. Len(toAgent'[a]), toAgent'[a][i].op \in NewOps,
             toAgent'[a][i].id = n, toAgent'[a][i].thread = t
      PROVE  \/ Numbered(a, n, t)
             \/ \E end \in {"client", "server"}, op \in NewOps : Issues(t, a, end, op, n)
  <2>1. ASSUME NEW j \in 1 .. Len(toAgent[a]), toAgent'[a][i] = toAgent[a][j] PROVE Numbered(a, n, t)
    BY <1>3, <2>1 DEF Numbered
  <2>2. ASSUME NEW u \in Threads, NEW id \in Nat, NEW end \in {"client", "server"},
               NEW op \in AnswerOps, Issues(u, a, end, op, id), toAgent'[a][i] = Ask(u, op, id)
        PROVE  \E end2 \in {"client", "server"}, op2 \in NewOps : Issues(t, a, end2, op2, n)
    <3>1. u = t /\ id = n /\ op \in NewOps
      BY <1>3, <2>2 DEF Ask
    <3>. QED  BY <2>2, <3>1
  <2>. QED  BY <2>1, <2>2, AskFrom
<1>4. ASSUME NEW i \in 1 .. Len(toManager'[a]), toManager'[a][i].op \in NewOps,
             toManager'[a][i].id = n, toManager'[a][i].thread = t
      PROVE  Numbered(a, n, t)
  <2>1. ASSUME NEW j \in 1 .. Len(toManager[a]), toManager'[a][i] = toManager[a][j]
        PROVE  Numbered(a, n, t)
    BY <1>4, <2>1 DEF Numbered
  <2>2. ASSUME NEW m \in Messages, toManager'[a][i] = m, Says(a, m)
        PROVE  Numbered(a, n, t)
    <3>1. m.op \in NewOps /\ m.id = n /\ m.thread = t
      BY <1>4, <2>2
    <3>2. CASE Replies(a, m)
      <4>1. PICK r \in Requests : /\ 1 \in 1 .. Len(toAgent[a]) /\ r = toAgent[a][1]
                                  /\ m.op = r.op /\ m.id = r.id /\ m.thread = r.thread
        BY <3>2 DEF Replies
      <4>. QED  BY <3>1, <4>1 DEF Numbered
    <3>3. CASE Reports(a, m)
      <4>1. PICK f \in Fds : /\ Report(a, f) \/ EndOfStream(a, f)
                             /\ Report(a, f) => Busy(a, f) /\ m.op = fds[a][f].busy
                             /\ EndOfStream(a, f) => m.op = "CLOSED"
        BY <3>3 DEF Reports
      <4>2. m.op \in {"CLOSED", "SEND", "RECVTERM"}
        BY <1>1, <4>1, TokenThreads
      <4>. QED  BY <3>1, <4>2 DEF NewOps
    <3>4. CASE Announces(a, m)
      BY <3>1, <3>4 DEF Announces, NewOps
    <3>. QED  BY <2>2, <3>2, <3>3, <3>4 DEF Says
  <2>. QED  BY <2>1, <2>2, TellFrom
<1>5. \/ \E r \in requests'[a] : r.stat \in NewOps /\ r.id = n /\ r.thread = t
      \/ \E i \in 1 .. Len(toAgent'[a]) :
           toAgent'[a][i].op \in NewOps /\ toAgent'[a][i].id = n /\ toAgent'[a][i].thread = t
      \/ \E i \in 1 .. Len(toManager'[a]) :
           toManager'[a][i].op \in NewOps /\ toManager'[a][i].id = n /\ toManager'[a][i].thread = t
  BY DEF Numbered
<1>. QED  BY <1>2, <1>3, <1>4, <1>5

\* The thread that velm runs is the only one that asks.
LEMMA IssuesNew ==
  ASSUME NEW t, NEW a, NEW end, NEW op \in NewOps, NEW n, Issues(t, a, end, op, n)
  PROVE  n = requestNo /\ requestNo' = requestNo + 1 /\ t = Head(resume)
BY DEF Issues, NewOps, SocketOps, At, Going

LEMMA NumbersGrow ==
  ASSUME IInv, [Next]_vars
  PROVE  requestNo' \in Nat /\ requestNo \in Nat /\ requestNo' >= requestNo
<1>1. TableTypes /\ TableTypes'
  <2>1. IInv'
    BY Invariance
  <2>. QED  BY <2>1 DEF IInv, DataTypes
<1>2. requestNo \in Nat /\ requestNo' \in Nat
  BY <1>1 DEF TableTypes
<1>3. ASSUME requestNo' = requestNo PROVE requestNo' >= requestNo
  BY <1>2, <1>3
<1>4. ASSUME NEW t \in Threads, Operation(t) PROVE requestNo' >= requestNo
  <2>1. ASSUME NEW a, NEW id, NEW end \in {"client", "server"}, NEW op \in AnswerOps, Issues(t, a, end, op, id)
        PROVE  requestNo' = requestNo \/ requestNo' = requestNo + 1
    BY <2>1 DEF Issues
  <2>2. ASSUME \/ \E l \in listens : Awaits(t, l)
               \/ \E c \in accepts : Takes(t, c)
               \/ Alone(t)
        PROVE  requestNo' = requestNo
    BY <2>2 DEF Awaits, Takes, Alone
  <2>3. requestNo' = requestNo \/ requestNo' = requestNo + 1
    BY <1>4, <2>1, <2>2, OperationCases
  <2>. QED  BY <1>2, <2>3
<1>5. ASSUME NEW a \in Agents, Hear(a) PROVE requestNo' = requestNo
  BY <1>5 DEF Hear
<1>. QED
  <2>1. ASSUME \/ UNCHANGED vars \/ ThreadRests \/ (\E e \in Events : SyncFires(e))
               \/ (\E t \in Threads : DelayEnds(t))
        PROVE  requestNo' = requestNo
    BY <2>1, LocalKeeps
  <2>2. ASSUME \/ \E a \in Agents : Serve(a)
               \/ \E f \in Fds : Accept(f) \/ \E a \in Agents : Report(a, f) \/ EndOfStream(a, f)
        PROVE  requestNo' = requestNo
    BY <2>2, AgentKeeps
  <2>3. requestNo' = requestNo \/ (\E t \in Threads : Operation(t))
    BY <1>5, <2>1, <2>2, NextIs DEF NextCases
  <2>. QED  BY <1>2, <1>3, <1>4, <2>3

LEMMA NumberStep ==
  ASSUME IInv, NumberInv, [Next]_vars
  PROVE  NumberInv'
<1>1. requestNo' \in Nat /\ requestNo \in Nat /\ requestNo' >= requestNo
  BY NumbersGrow
<1>2. ASSUME NEW a \in Agents, NEW n \in Nat, NEW t, Numbered(a, n, t)'
      PROVE  \/ Numbered(a, n, t) /\ n < requestNo
             \/ n = requestNo /\ requestNo' = requestNo + 1 /\ t = Head(resume)
  BY <1>2, NumberedFrom, IssuesNew DEF NumberInv
<1>3. ASSUME NEW a \in Agents, NEW n \in Nat, NEW t, Numbered(a, n, t)'
      PROVE  n < requestNo' /\ \A u : Numbered(a, n, u)' => u = t
  <2>1. n < requestNo'
    BY <1>1, <1>2, <1>3
  <2>2. ASSUME NEW u, Numbered(a, n, u)' PROVE u = t
    <3>1. /\ \/ Numbered(a, n, t) /\ n < requestNo
             \/ n = requestNo /\ t = Head(resume)
          /\ \/ Numbered(a, n, u) /\ n < requestNo
             \/ n = requestNo /\ u = Head(resume)
      BY <1>2, <1>3, <2>2
    <3>2. Numbered(a, n, t) /\ Numbered(a, n, u) => u = t
      BY DEF NumberInv
    <3>. QED  BY <1>1, <3>1, <3>2
  <2>. QED  BY <2>1, <2>2
<1>. QED  BY <1>3 DEF NumberInv

LEMMA InitNumbers ==
  ASSUME Init
  PROVE  NumberInv
<1>1. ASSUME NEW a \in Agents
      PROVE  requests[a] = {} /\ toAgent[a] = <<>> /\ toManager[a] = <<>>
  BY DEF Init
<1>2. ASSUME NEW a \in Agents, NEW n, NEW t PROVE ~Numbered(a, n, t)
  BY <1>1 DEF Numbered
<1>. QED  BY <1>2 DEF NumberInv

----------------------------------------
(* Who names a descriptor of an agent, and for which thread.               *)

LEMMA CreatesThread ==
  ASSUME AgentTypes, NEW a \in Agents, NEW r \in Requests, NEW f \in Fds,
         NEW k \in {"tcp", "udp", "listen"}, Creates(a, r, f, k)
  PROVE  fds'[a][f].thread = r.thread /\ fds[a][f] = FreeFd
<1>1. PICK t \in Threads, n \in Nat : t = r.thread /\ n = r.id
  BY DEF Requests
<1>2. PICK s : s = Socket(k, t, n)
  OBVIOUS
<1>3. s \in SocketType /\ s.thread = t
  BY <1>2 DEF Socket, SocketType
<1>4. fds' = [fds EXCEPT ![a][f] = s] /\ fds[a][f] = FreeFd
  BY <1>1, <1>2 DEF Creates
<1>5. fds'[a][f] = s
  BY <1>3, <1>4, PutFacts
<1>. QED  BY <1>1, <1>3, <1>4, <1>5

LEMMA AcceptsThread ==
  ASSUME IInv, NEW g \in Fds, Accept(g), NEW f \in Fds, Accepts(g, f)
  PROVE  /\ fds'[Server][f].thread = FirstAt(PortOf(g)) /\ fds[Server][f] = FreeFd
         /\ FirstAt(PortOf(g)) \in Threads /\ InBacklog(FirstAt(PortOf(g)))
<1>1. AgentTypes /\ scenario \in Scenarios /\ Server \in Agents
  BY DEF IInv, DataTypes, ThreadTypes, Agents
<1>2. /\ PortOf(g) \in Ports /\ 1 \in 1 .. Len(backlog[PortOf(g)])
      /\ FirstAt(PortOf(g)) \in Threads
  BY <1>1, AcceptFacts
<1>3. PICK t \in Threads : t = FirstAt(PortOf(g))
  BY <1>2
<1>4. PICK s : s = Socket("tcp", t, 0)
  OBVIOUS
<1>5. s \in SocketType /\ s.thread = t
  BY <1>4 DEF Socket, SocketType
<1>6. fds' = [fds EXCEPT ![Server][f] = s] /\ fds[Server][f] = FreeFd
  BY <1>3, <1>4 DEF Accepts
<1>7. fds'[Server][f] = s
  BY <1>1, <1>5, <1>6, PutFacts
<1>8. InBacklog(t)
  BY <1>2, <1>3 DEF InBacklog, FirstAt
<1>. QED  BY <1>3, <1>5, <1>6, <1>7, <1>8

LEMMA IssuedRef ==
  ASSUME NEW t, NEW a, NEW end, NEW op \in SocketOps, NEW f, Issues(t, a, end, op, f)
  PROVE  \E c \in connects[a] : Of(c, f, t)
<1>1. PICK c \in Sockets(t, a, Known(op)) : f = c.id_sock
  BY DEF Issues, NewOps, SocketOps
<1>. QED  BY <1>1 DEF Sockets, Of

LEMMA AskRef ==
  ASSUME IInv, [Next]_vars, NEW a \in Agents, NEW f, NEW t, NEW i \in 1 .. Len(toAgent'[a]),
         Names(toAgent'[a][i], f, t)
  PROVE  Ref(a, f, t)
<1>1. ASSUME NEW j \in 1 .. Len(toAgent[a]), toAgent'[a][i] = toAgent[a][j] PROVE Ref(a, f, t)
  BY <1>1 DEF Ref, Names
<1>2. ASSUME NEW u \in Threads, NEW id \in Nat, NEW end \in {"client", "server"},
             NEW op \in AnswerOps, Issues(u, a, end, op, id), toAgent'[a][i] = Ask(u, op, id)
      PROVE  Ref(a, f, t)
  <2>1. op \in SocketOps /\ id = f /\ u = t
    BY <1>2 DEF Names, Ask
  <2>2. \E c \in connects[a] : Of(c, f, t)
    BY <1>2, <2>1, IssuedRef
  <2>. QED  BY <2>2 DEF Ref
<1>. QED  BY <1>1, <1>2, AskFrom

LEMMA RequestRef ==
  ASSUME IInv, [Next]_vars, NEW a \in Agents, NEW f, NEW t, NEW r \in requests'[a],
         r.stat \in SocketOps, r.id = f, r.thread = t
  PROVE  Ref(a, f, t)
<1>1. CASE r \in requests[a]
  BY <1>1 DEF Ref
<1>2. ASSUME NEW u \in Threads, NEW id \in Nat, NEW end \in {"client", "server"},
             NEW op \in AnswerOps, Issues(u, a, end, op, id), r = Req(u, op, id)
      PROVE  Ref(a, f, t)
  <2>1. op \in SocketOps /\ id = f /\ u = t
    BY <1>2, ReqFacts
  <2>2. \E c \in connects[a] : Of(c, f, t)
    BY <1>2, <2>1, IssuedRef
  <2>. QED  BY <2>2 DEF Ref
<1>3. ASSUME NEW u \in Threads, NEW l \in listens, r = Req(u, "ACCEPT", l.id_req) PROVE FALSE
  <2>1. r.stat = "ACCEPT"
    BY <1>3, ReqFacts
  <2>. QED  BY <2>1 DEF SocketOps
<1>. QED  BY <1>1, <1>2, <1>3, RequestFrom

LEMMA TellRef ==
  ASSUME IInv, [Next]_vars, NEW a \in Agents, NEW f, NEW t, NEW i \in 1 .. Len(toManager'[a]),
         \/ toManager'[a][i].ok /\ Of(toManager'[a][i], f, t)
         \/ Names(toManager'[a][i], f, t)
  PROVE  Ref(a, f, t) \/ (f \in Fds /\ Comes(a, f, t))
<1>1. ASSUME NEW j \in 1 .. Len(toManager[a]), toManager'[a][i] = toManager[a][j] PROVE Ref(a, f, t)
  BY <1>1 DEF Ref, Names, Of
<1>2. ASSUME NEW m \in Messages, toManager'[a][i] = m, Says(a, m)
      PROVE  Ref(a, f, t) \/ (f \in Fds /\ Comes(a, f, t))
  <2>1. (m.ok /\ Of(m, f, t)) \/ Names(m, f, t)
    BY <1>2
  <2>2. AgentTypes
    BY DEF IInv, DataTypes
  <2>3. CASE Replies(a, m)
    <3>1. PICK r \in Requests :
            /\ Serve(a) /\ 1 \in 1 .. Len(toAgent[a]) /\ r = toAgent[a][1]
            /\ m.op = r.op /\ m.id = r.id /\ m.thread = r.thread
            /\ r.op \in SocketOps => m.id_sock = m.id
            /\ r.op \in NewOps =>
                 IF m.ok THEN m.id_sock \in Fds /\ \E k \in {"tcp", "udp", "listen"} : Creates(a, r, m.id_sock, k)
                 ELSE Declines(a, r)
      BY <2>3 DEF Replies
    <3>2. r.op \in SocketOps \/ r.op \in NewOps
      BY DEF Requests, AnswerOps, Stats, NewOps
    <3>3. CASE r.op \in SocketOps
      <4>1. Names(toAgent[a][1], f, t)
        BY <2>1, <3>1, <3>3 DEF Names, Of
      <4>. QED  BY <3>1, <4>1 DEF Ref
    <3>4. CASE r.op \in NewOps
      <4>1. ~Names(m, f, t)
        BY <3>1, <3>4 DEF Names, NewOps, SocketOps
      <4>2. m.ok /\ m.id_sock = f /\ m.thread = t
        BY <2>1, <4>1 DEF Of
      <4>3. f \in Fds /\ \E k \in {"tcp", "udp", "listen"} : Creates(a, r, f, k)
        BY <3>1, <3>4, <4>2
      <4>4. fds'[a][f].thread = r.thread /\ fds[a][f] = FreeFd
        BY <2>2, <4>3, CreatesThread
      <4>5. Created(a, f)
        BY <3>1, <3>4, <4>3 DEF Created
      <4>. QED  BY <3>1, <4>2, <4>3, <4>4, <4>5 DEF Comes
    <3>. QED  BY <3>2, <3>3, <3>4
  <2>4. CASE Reports(a, m)
    <3>1. PICK g \in Fds : fds[a][g] # FreeFd /\ m.id = g /\ m.id_sock = g /\ m.thread = fds[a][g].thread
      BY <2>4 DEF Reports
    <3>. QED  BY <2>1, <3>1 DEF Ref, Of, Names
  <2>5. CASE Announces(a, m)
    <3>1. PICK h \in Fds, g \in Fds :
            /\ a = Server /\ Accept(h) /\ Accepts(h, g)
            /\ m.op = "ACCEPTED" /\ m.id_sock = g /\ m.thread = FirstAt(PortOf(h))
      BY <2>5 DEF Announces
    <3>2. f = g /\ t = FirstAt(PortOf(h))
      BY <2>1, <3>1 DEF Names, Of, SocketOps
    <3>3. fds[Server][g] = FreeFd /\ fds'[Server][g].thread = FirstAt(PortOf(h))
      BY <3>1, AcceptsThread
    <3>4. Accepted(a, f)
      BY <3>1, <3>2 DEF Accepted
    <3>. QED  BY <3>1, <3>2, <3>3, <3>4 DEF Comes
  <2>. QED  BY <1>2, <2>3, <2>4, <2>5 DEF Says
<1>. QED  BY <1>1, <1>2, TellFrom

LEMMA ConnectRef ==
  ASSUME IInv, OwnAnswers, [Next]_vars, NEW a \in Agents, NEW f, NEW t, NEW c \in connects'[a],
         Of(c, f, t)
  PROVE  Ref(a, f, t)
<1>1. \/ \E d \in connects[a] : Of(d, f, t)
      \/ a = Server /\ \E d \in accepts : Of(d, f, t)
      \/ 1 \in 1 .. Len(toManager[a]) /\ First(a).ok /\ Of(First(a), f, t)
  BY ConnectFrom
<1>. QED  BY <1>1 DEF Ref, First

LEMMA AcceptRef ==
  ASSUME IInv, [Next]_vars, NEW f, NEW t, NEW c \in accepts', Of(c, f, t)
  PROVE  Ref(Server, f, t)
<1>1. CASE c \in accepts
  BY <1>1 DEF Ref
<1>2. CASE /\ 1 \in 1 .. Len(toManager[Server]) /\ First(Server).ok
           /\ Of(c, First(Server).id_sock, First(Server).thread)
  BY <1>2 DEF Ref, First, Of
<1>. QED  BY <1>1, <1>2, AcceptFrom

LEMMA SocketRef ==
  ASSUME IInv, [Next]_vars, NEW a \in Agents, NEW f \in Fds, NEW t,
         fds'[a][f] # FreeFd, fds'[a][f].thread = t
  PROVE  Ref(a, f, t) \/ Comes(a, f, t)
<1>1. CASE SameSocket(a, f)
  BY <1>1 DEF SameSocket, Ref
<1>2. CASE fds[a][f] = FreeFd /\ (Created(a, f) \/ Accepted(a, f))
  BY <1>2 DEF Comes
<1>. QED  BY <1>1, <1>2, SocketSteps

\* A thread comes to a descriptor by a new socket only.
LEMMA RefStep ==
  ASSUME IInv, OwnAnswers, [Next]_vars, NEW a \in Agents, NEW f \in Fds, NEW t, Ref(a, f, t)'
  PROVE  Ref(a, f, t) \/ Comes(a, f, t)
<1>1. \/ fds'[a][f] # FreeFd /\ fds'[a][f].thread = t
      \/ \E c \in connects'[a] : Of(c, f, t)
      \/ a = Server /\ \E c \in accepts' : Of(c, f, t)
      \/ \E r \in requests'[a] : r.stat \in SocketOps /\ r.id = f /\ r.thread = t
      \/ \E i \in 1 .. Len(toAgent'[a]) : Names(toAgent'[a][i], f, t)
      \/ \E i \in 1 .. Len(toManager'[a]) : toManager'[a][i].ok /\ Of(toManager'[a][i], f, t)
      \/ \E i \in 1 .. Len(toManager'[a]) : Names(toManager'[a][i], f, t)
  BY DEF Ref, Of, Names
<1>. QED  BY <1>1, SocketRef, ConnectRef, AcceptRef, RequestRef, AskRef, TellRef

----------------------------------------
(* Where all threads wait for each other between their connects and their  *)
(* first closes: no thread is past the event before it is over, and none   *)
(* is before it any more after that.                                       *)

LEMMA SyncSteps == Len(StepsOf("sync")) = 1 /\ StepsOf("sync")[1] = <<"velm", "sync">>
BY DEF StepsOf

\* What velm hears moves only threads that wait for it.
LEMMA HearMoves ==
  ASSUME IInv, NEW a \in Agents, Hear(a)
  PROVE  /\ stmtPos' = stmtPos /\ fired' = fired /\ scenario' = scenario
         /\ \A u \in Threads : Still(u) \/ \E op : WaitsAt(u, a, op)
<1>. DEFINE m == toManager[a][1]
<1>1. ThreadTypes /\ DataTypes /\ StateInv /\ TableTypes
  BY DEF IInv, DataTypes
<1>2. HearSteps(a, m) /\ scenario' = scenario /\ resume = <<>> /\ Server \in Agents
  BY <1>1, HearCases DEF Hear, Idle, DataTypes, Agents
<1>3. /\ m.ok => m.id_sock \in Fds
      /\ m.op = "ACCEPTED" => a = Server /\ m.ok
  BY <1>1, HearFacts DEF DataTypes, FdTypes, Proper
<1>4. PlaceInv /\ ResumeInv /\ StepInv
  BY <1>1 DEF StateInv, PlaceInv
<1>. HIDE DEF m
<1>5. CASE UNCHANGED threads
  BY <1>1, <1>2, <1>4, <1>5, UnmovedFacts
<1>6. ASSUME m.op = "ACCEPTED", NEW r \in requests[Server], Admits(m, r)
      PROVE  /\ stmtPos' = stmtPos /\ fired' = fired
             /\ \A u \in Threads : Still(u) \/ \E op : WaitsAt(u, a, op)
  <2>1. /\ \A u \in Threads \ {r.thread} : Still(u)
        /\ WaitsAt(r.thread, Server, "ACCEPT") /\ stmtPos' = stmtPos
    BY <1>1, <1>2, <1>3, <1>6, AdmitState
  <2>. QED  BY <1>3, <1>6, <2>1 DEF Admits
<1>7. ASSUME m.op \in AnswerOps, NEW r \in requests[a], Settles(a, m, r)
      PROVE  /\ stmtPos' = stmtPos /\ fired' = fired
             /\ \A u \in Threads : Still(u) \/ \E op : WaitsAt(u, a, op)
  <2>1. /\ \A u \in Threads \ {r.thread} : Still(u)
        /\ WaitsAt(r.thread, a, m.op) /\ stmtPos' = stmtPos
    BY <1>1, <1>2, <1>3, <1>7, SettleState
  <2>. QED  BY <1>7, <2>1 DEF Settles
<1>8. Keeps(m) \/ Unexpected => UNCHANGED threads
  BY DEF Keeps, Unexpected
<1>. QED  BY <1>2, <1>5, <1>6, <1>7, <1>8 DEF HearSteps

\* A thread at the event leaves it only when that is over.
LEMMA GateOperation ==
  ASSUME IInv, NEW e \in Events, NEW t \in Threads, Operation(t), Before(t, e)
  PROVE  Before(t, e)'
<1>1. ThreadTypes /\ ThreadTypes' /\ scenario' = scenario /\ scenario \in Scenarios
  <2>1. IInv'
    BY Invariance, NextIs DEF Next, Manager, IInv
  <2>. QED  BY <2>1, OperationThreads DEF IInv, ThreadTypes
<1>2. SUFFICES ASSUME NEW k \in 1 .. Len(Program(t)), SyncsOnceAt(t, e, k)
               PROVE  stmtPos'[t] < k \/ (stmtPos'[t] = k /\ step'[t] = 1)
  BY <1>1 DEF Before, SyncsOnceAt, Program
<1>3. /\ stmtPos \in [Threads -> Nat \ {0}] /\ step \in [Threads -> Nat \ {0}]
      /\ Len(Program(t)) \in Nat
  BY <1>1, ScenarioFacts DEF ThreadTypes
<1>4. stmtPos[t] < k \/ (stmtPos[t] = k /\ step[t] = 1)
  BY <1>2 DEF Before
<1>5. stmtPos[t] = k => Current(t).kind = "sync"
  BY <1>2, <1>3 DEF SyncsOnceAt, Current
<1>6. ASSUME stmtPos' = stmtPos, step' = step
      PROVE  stmtPos'[t] < k \/ (stmtPos'[t] = k /\ step'[t] = 1)
  BY <1>4, <1>6
<1>7. CASE Wait \/ Abort(t) \/ OpSync(t)
  BY <1>6, <1>7 DEF Wait, Abort, OpSync
<1>8. ASSUME NEW end \in {"client", "server"}, NEW op, At(t, <<end, op>>), Skip(t)
      PROVE  stmtPos'[t] < k \/ (stmtPos'[t] = k /\ step'[t] = 1)
  <2>1. Ops(t)[step[t]] = <<end, op>>
    BY <1>1, <1>8, AtFacts
  <2>2. stmtPos[t] # k
    BY <1>4, <1>5, <2>1, SyncSteps DEF Ops
  <2>. QED  BY <1>3, <1>4, <1>8, <2>2 DEF Skip
<1>9. CASE StatementEnds(t)
  <2>1. /\ step[t] > Len(Ops(t)) /\ stmtPos' = [stmtPos EXCEPT ![t] = @ + 1]
        /\ step' = [step EXCEPT ![t] = 1]
    BY <1>9 DEF StatementEnds, Ops, Current
  <2>2. stmtPos[t] # k
    BY <1>4, <1>5, <2>1, SyncSteps DEF Ops
  <2>3. stmtPos'[t] = stmtPos[t] + 1 /\ step'[t] = 1
    BY <1>3, <2>1
  <2>. QED  BY <1>3, <1>4, <2>2, <2>3
<1>10. \/ Wait \/ Abort(t) \/ OpSync(t)
       \/ StatementEnds(t)
       \/ \E end \in {"client", "server"} : \E op : At(t, <<end, op>>) /\ Skip(t)
  <2>1. CASE \E a, id : \E end \in {"client", "server"}, op \in AnswerOps : Issues(t, a, end, op, id)
    BY <2>1 DEF Issues
  <2>2. CASE \/ \E l \in listens : Awaits(t, l)
             \/ \E c \in accepts : Takes(t, c)
    BY <2>2 DEF Awaits, Takes
  <2>3. CASE Alone(t)
    BY <2>3 DEF Alone, OpDelay
  <2>. QED  BY <2>1, <2>2, <2>3, OperationCases
<1>. QED  BY <1>7, <1>8, <1>9, <1>10

LEMMA GateStep ==
  ASSUME IInv, NEW e \in Events, SeparatedAt(e), GateInv(e), [Next]_vars
  PROVE  GateInv(e)'
<1>1. /\ ThreadTypes /\ ThreadTypes' /\ PlaceInv /\ ResumeInv /\ StepInv /\ scenario \in Scenarios
      /\ \A t \in Threads : stmtPos[t] \in Nat /\ stmtPos'[t] \in Nat
  <2>1. IInv'
    BY Invariance
  <2>2. ThreadTypes /\ ThreadTypes' /\ PlaceInv
    BY <2>1 DEF IInv, StateInv
  <2>. QED  BY <2>2 DEF PlaceInv, ThreadTypes
<1>2. ASSUME scenario' = scenario, NEW t \in Threads, stmtPos'[t] >= stmtPos[t], After(t, e)
      PROVE  After(t, e)'
  <2>1. Program(t)' = Program(t)
    BY <1>2 DEF Program
  <2>2. Len(Program(t)) \in Nat
    BY <1>1, ScenarioFacts
  <2>3. \A k : SyncsOnceAt(t, e, k)' <=> SyncsOnceAt(t, e, k)
    BY <2>1 DEF SyncsOnceAt
  <2>. QED  BY <1>1, <1>2, <2>1, <2>2, <2>3 DEF After
<1>3. ASSUME scenario' = scenario, NEW t \in Threads, stmtPos'[t] = stmtPos[t], Before(t, e),
             \/ step'[t] = step[t]
             \/ \A k \in 1 .. Len(Program(t)) : SyncsOnceAt(t, e, k) => stmtPos[t] # k
      PROVE  Before(t, e)'
  <2>1. Program(t)' = Program(t)
    BY <1>3 DEF Program
  <2>2. \A k : SyncsOnceAt(t, e, k)' <=> SyncsOnceAt(t, e, k)
    BY <2>1 DEF SyncsOnceAt
  <2>3. ASSUME NEW k \in 1 .. Len(Program(t)), SyncsOnceAt(t, e, k)
        PROVE  stmtPos'[t] < k \/ (stmtPos'[t] = k /\ step'[t] = 1)
    <3>1. stmtPos[t] < k \/ (stmtPos[t] = k /\ step[t] = 1)
      BY <1>3, <2>3 DEF Before
    <3>. QED  BY <1>3, <2>3, <3>1
  <2>4. ASSUME NEW k \in 1 .. Len(Program(t)'), SyncsOnceAt(t, e, k)'
        PROVE  stmtPos'[t] < k \/ (stmtPos'[t] = k /\ step'[t] = 1)
    BY <2>1, <2>2, <2>3, <2>4
  <2>. QED  BY <2>4 DEF Before
<1>4. ASSUME scenario' = scenario, fired' = fired,
             \A u \in Threads : Still(u) \/ \E a \in Agents : \E op : WaitsAt(u, a, op)
                                  /\ stmtPos'[u] = stmtPos[u]
      PROVE  GateInv(e)'
  <2>1. SUFFICES ASSUME NEW t \in Threads
                 PROVE  IF e \in fired THEN After(t, e)' ELSE Before(t, e)'
    BY <1>4 DEF GateInv
  <2>2. stmtPos'[t] = stmtPos[t]
    BY <1>4 DEF Still
  <2>3. IF e \in fired THEN After(t, e) ELSE Before(t, e)
    BY DEF GateInv
  <2>4. CASE e \in fired
    BY <1>1, <1>2, <1>4, <2>2, <2>3, <2>4
  <2>5. CASE e \notin fired /\ Still(t)
    BY <1>3, <1>4, <2>2, <2>3, <2>5 DEF Still
  <2>6. ASSUME e \notin fired, NEW a \in Agents, NEW op, WaitsAt(t, a, op) PROVE Before(t, e)'
    <3>1. Current(t).kind # "sync"
      BY <1>1, <2>6, WaitsAtFacts, WaitsFacts DEF WaitsAt
    <3>2. \A k \in 1 .. Len(Program(t)) : SyncsOnceAt(t, e, k) => stmtPos[t] # k
      BY <3>1 DEF SyncsOnceAt, Current
    <3>. QED  BY <1>3, <1>4, <2>2, <2>3, <2>6, <3>2
  <2>. QED  BY <1>4, <2>4, <2>5, <2>6
<1>5. CASE UNCHANGED vars
  <2>1. UNCHANGED <<scenario, threads>>
    BY <1>5 DEF vars
  <2>2. fired' = fired /\ \A u \in Threads : Still(u)
    BY <1>1, <2>1, UnmovedFacts
  <2>. QED  BY <1>4, <2>1, <2>2
<1>6. CASE ThreadRests
  <2>1. /\ stmtPos' = stmtPos /\ step' = step /\ fired' = fired /\ scenario' = scenario
    BY <1>1, <1>6, RestMoves
  <2>. QED  BY <1>1, <1>2, <1>3, <2>1 DEF GateInv
<1>7. ASSUME NEW d \in Events, SyncFires(d) PROVE GateInv(e)'
  <2>1. /\ scenario' = scenario /\ stmtPos' = stmtPos /\ waitfor[d] = {} /\ d \notin fired
        /\ fired' = fired \union {d}
        /\ \A u \in Threads : Still(u) \/
              (u \in Members[d] /\ Waits(u, "velm", "sync") /\ Current(u).event = d)
    BY <1>1, <1>7, FirePlaces
  <2>2. CASE d = e
    <3>1. ASSUME NEW t \in Threads PROVE After(t, e)'
      <4>1. Waits(t, "velm", "sync") /\ Current(t).event = e
        BY <1>1, <2>1, <2>2 DEF SeparatedAt, PlaceInv, SyncInv
      <4>2. stmtPos[t] \in 1 .. Len(Program(t)) /\ Current(t).kind = "sync"
        BY <1>1, <4>1, WaitsFacts
      <4>3. \A k \in 1 .. Len(Program(t)) : SyncsOnceAt(t, e, k) => stmtPos[t] = k
        BY <4>1, <4>2 DEF SyncsOnceAt, Current
      <4>4. After(t, e)
        BY <1>1, <4>3 DEF After
      <4>. QED  BY <1>1, <1>2, <2>1, <4>4
    <3>. QED  BY <2>1, <2>2, <3>1 DEF GateInv
  <2>3. CASE d # e
    <3>1. fired' = fired \union {d} /\ (e \in fired' <=> e \in fired)
      BY <2>1, <2>3
    <3>2. ASSUME NEW t \in Threads PROVE IF e \in fired THEN After(t, e)' ELSE Before(t, e)'
      <4>1. IF e \in fired THEN After(t, e) ELSE Before(t, e)
        BY DEF GateInv
      <4>2. CASE e \in fired
        BY <1>1, <1>2, <2>1, <4>1, <4>2
      <4>3. CASE e \notin fired /\ Still(t)
        BY <1>3, <2>1, <4>1, <4>3 DEF Still
      <4>4. CASE e \notin fired /\ Waits(t, "velm", "sync") /\ Current(t).event = d
        <5>1. \A k \in 1 .. Len(Program(t)) : SyncsOnceAt(t, e, k) => stmtPos[t] # k
          BY <2>3, <4>4 DEF SyncsOnceAt, Current
        <5>. QED  BY <1>3, <2>1, <4>1, <4>4, <5>1
      <4>. QED  BY <2>1, <4>2, <4>3, <4>4
    <3>. QED  BY <3>1, <3>2 DEF GateInv
  <2>. QED  BY <2>2, <2>3
<1>8. ASSUME NEW u \in Threads, DelayEnds(u) PROVE GateInv(e)'
  <2>1. /\ scenario' = scenario /\ fired' = fired /\ stmtPos' = stmtPos
        /\ Waits(u, "velm", "delay")
        /\ \A t \in Threads \ {u} : Still(t)
    BY <1>1, <1>8, DelayPlaces
  <2>2. Current(u).kind = "delay"
    BY <1>1, <2>1, WaitsFacts
  <2>3. \A k \in 1 .. Len(Program(u)) : SyncsOnceAt(u, e, k) => stmtPos[u] # k
    BY <2>2 DEF SyncsOnceAt, Current
  <2>4. ASSUME NEW t \in Threads PROVE IF e \in fired THEN After(t, e)' ELSE Before(t, e)'
    <3>1. IF e \in fired THEN After(t, e) ELSE Before(t, e)
      BY DEF GateInv
    <3>2. step'[t] = step[t] \/ t = u
      BY <2>1 DEF Still
    <3>. QED  BY <1>1, <1>2, <1>3, <2>1, <2>3, <3>1, <3>2
  <2>. QED  BY <2>1, <2>4 DEF GateInv
<1>9. ASSUME NEW u \in Threads, Operation(u) PROVE GateInv(e)'
  <2>1. /\ \A t \in Threads \ {u} : Still(t)
        /\ stmtPos'[u] >= stmtPos[u] /\ scenario' = scenario
    BY <1>1, <1>9, OperationMoves, OperationThreads
  <2>2. fired' = fired
    BY <1>9, OperationThreads DEF Wait, Skip, Abort, OpSync, StatementEnds
  <2>3. ASSUME NEW t \in Threads PROVE IF e \in fired THEN After(t, e)' ELSE Before(t, e)'
    <3>1. IF e \in fired THEN After(t, e) ELSE Before(t, e)
      BY DEF GateInv
    <3>2. CASE t = u
      BY <1>2, <1>9, <2>1, <3>1, <3>2, GateOperation
    <3>3. CASE t # u
      <4>1. stmtPos'[t] = stmtPos[t] /\ step'[t] = step[t]
        BY <2>1, <3>3 DEF Still
      <4>. QED  BY <1>1, <1>2, <1>3, <2>1, <3>1, <4>1
    <3>. QED  BY <3>2, <3>3
  <2>. QED  BY <2>2, <2>3 DEF GateInv
<1>10. ASSUME NEW a \in Agents, Hear(a) PROVE GateInv(e)'
  <2>1. /\ stmtPos' = stmtPos /\ fired' = fired /\ scenario' = scenario
        /\ \A u \in Threads : Still(u) \/ \E op : WaitsAt(u, a, op)
    BY <1>10, HearMoves
  <2>. QED  BY <1>4, <2>1
<1>11. CASE \/ \E a \in Agents : Serve(a)
            \/ \E f \in Fds : Accept(f) \/ \E a \in Agents : Report(a, f) \/ EndOfStream(a, f)
  <2>1. UNCHANGED <<scenario, threads>>
    BY <1>11, AgentKeeps
  <2>2. fired' = fired /\ \A u \in Threads : Still(u)
    BY <1>1, <2>1, UnmovedFacts
  <2>. QED  BY <1>4, <2>1, <2>2
<1>. QED  BY <1>5, <1>6, <1>7, <1>8, <1>9, <1>10, <1>11, NextIs DEF NextCases

----------------------------------------
(* While no thread closes, no socket goes.                                 *)

LEMMA PutStays ==
  ASSUME AgentTypes, NEW a \in Agents, NEW f \in Fds, NEW new \in SocketType,
         fds' = [fds EXCEPT ![a][f] = new]
  PROVE  fds'[a][f] # FreeFd /\ SocketsStay
<1>1. /\ fds'[a][f] = new /\ \A g \in Fds \ {f} : fds'[a][g] = fds[a][g]
      /\ \A b \in Agents \ {a} : fds'[b] = fds[b]
  BY PutFacts
<1>2. new # FreeFd
  BY FreeIsNoSocket
<1>3. ASSUME NEW b \in Agents, NEW g \in Fds, fds[b][g] # FreeFd PROVE fds'[b][g] # FreeFd
  <2>1. CASE b = a /\ g = f
    BY <1>1, <1>2, <2>1
  <2>2. CASE b = a /\ g # f
    BY <1>1, <1>3, <2>2
  <2>3. CASE b # a
    BY <1>1, <1>3, <2>3
  <2>. QED  BY <2>1, <2>2, <2>3
<1>. QED  BY <1>1, <1>2, <1>3 DEF SocketsStay

LEMMA CreatesStays ==
  ASSUME AgentTypes, NEW a \in Agents, NEW r \in Requests, NEW f \in Fds,
         NEW k \in {"tcp", "udp", "listen"}, Creates(a, r, f, k)
  PROVE  fds'[a][f] # FreeFd /\ SocketsStay
<1>1. PICK t \in Threads, n \in Nat : t = r.thread /\ n = r.id
  BY DEF Requests
<1>2. PICK s : s = Socket(k, t, n)
  OBVIOUS
<1>3. s \in SocketType
  BY <1>2 DEF Socket, SocketType
<1>4. fds' = [fds EXCEPT ![a][f] = s]
  BY <1>1, <1>2 DEF Creates
<1>. QED  BY <1>3, <1>4, PutStays

LEMMA AcceptsStays ==
  ASSUME IInv, NEW g \in Fds, Accept(g), NEW f \in Fds, Accepts(g, f)
  PROVE  fds'[Server][f] # FreeFd /\ closed' = closed /\ SocketsStay
<1>1. AgentTypes /\ scenario \in Scenarios /\ Server \in Agents
  BY DEF IInv, DataTypes, ThreadTypes, Agents
<1>2. PICK t \in Threads : t = FirstAt(PortOf(g))
  BY <1>1, AcceptFacts
<1>3. PICK s : s = Socket("tcp", t, 0)
  OBVIOUS
<1>4. s \in SocketType
  BY <1>3 DEF Socket, SocketType
<1>5. fds' = [fds EXCEPT ![Server][f] = s]
  BY <1>2, <1>3 DEF Accepts
<1>. QED  BY <1>1, <1>4, <1>5, PutStays DEF Accept

LEMMA ServeStays ==
  ASSUME IInv, NEW a \in Agents, Serve(a), toAgent[a][1].op # "CLOSE"
  PROVE  closed' = closed /\ SocketsStay
<1>1. AgentTypes /\ FdTypes /\ scenario \in Scenarios
  BY DEF IInv, DataTypes, ThreadTypes
<1>2. PICK r \in Requests : Serving(a, r)
  BY ServeRequest
<1>. USE DEF Serving
<1>4. r.op # "CLOSE"
  BY <1>2
<1>5. ASSUME fds' = fds, closed' = closed
      PROVE  closed' = closed /\ SocketsStay
  BY <1>5 DEF SocketsStay
<1>6. CASE r.op \in NewOps
  <2>1. /\ closed' = closed
        /\ Declines(a, r) \/ \E f \in Fds, k \in {"tcp", "udp", "listen"} : Creates(a, r, f, k)
    BY <1>1, <1>2, <1>6, NewCases
  <2>2. CASE Declines(a, r)
    BY <1>5, <2>1, <2>2 DEF Declines
  <2>3. CASE \E f \in Fds, k \in {"tcp", "udp", "listen"} : Creates(a, r, f, k)
    BY <1>1, <2>1, <2>3, CreatesStays
  <2>. QED  BY <2>1, <2>2, <2>3
<1>7. CASE r.op \in SocketOps
  <2>1. \/ Misses(a, r)
        \/ fds[a][r.id] # FreeFd /\ (Dials(a, r) \/ Reads(a, r) \/ Begins(a, r) \/ Shuts(a, r))
    BY <1>1, <1>2, <1>4, <1>7, SocketCases
  <2>2. CASE Misses(a, r) \/ Dials(a, r)
    BY <1>5, <2>2 DEF Misses, Dials
  <2>3. CASE Reads(a, r) /\ fds[a][r.id] # FreeFd
    <3>1. PICK f \in Fds, s \in SocketType : f = r.id /\ s = fds[a][f]
      BY <1>1, <1>2, <1>7, <2>3, SocketFacts
    <3>2. PICK n : n = [s EXCEPT !.reads = TRUE]
      OBVIOUS
    <3>3. n \in SocketType
      BY <3>2 DEF SocketType
    <3>4. fds' = [fds EXCEPT ![a][f] = n] /\ closed' = closed
      BY <2>3, <3>1, <3>2 DEF Reads
    <3>. QED  BY <1>1, <3>3, <3>4, PutStays
  <2>4. CASE Begins(a, r) /\ fds[a][r.id] # FreeFd
    <3>1. PICK f \in Fds, s \in SocketType : f = r.id /\ s = fds[a][f]
      BY <1>1, <1>2, <1>7, <2>4, SocketFacts
    <3>2. PICK op \in {"SEND", "RECVTERM"} : op = r.op
      BY <2>4 DEF Begins
    <3>3. PICK n : n = [s EXCEPT !.busy = op]
      OBVIOUS
    <3>4. n \in SocketType
      BY <3>3 DEF SocketType
    <3>5. fds' = [fds EXCEPT ![a][f] = n] /\ closed' = closed
      BY <2>4, <3>1, <3>2, <3>3 DEF Begins
    <3>. QED  BY <1>1, <3>4, <3>5, PutStays
  <2>5. ~Shuts(a, r)
    BY <1>4 DEF Shuts
  <2>. QED  BY <2>1, <2>2, <2>3, <2>4, <2>5
<1>. QED  BY <1>2, <1>6, <1>7

LEMMA NoneGoes ==
  ASSUME IInv, [Next]_vars, \A a \in Agents, f \in Fds : ~EndOfStream(a, f),
         \A a \in Agents : Serve(a) => toAgent[a][1].op # "CLOSE"
  PROVE  closed' = closed /\ SocketsStay
<1>1. AgentTypes /\ scenario \in Scenarios
  BY DEF IInv, DataTypes, ThreadTypes
<1>2. ASSUME UNCHANGED agents
      PROVE  closed' = closed /\ SocketsStay
  BY <1>2 DEF agents, SocketsStay
<1>3. CASE \/ UNCHANGED vars \/ Manager
           \/ \E e \in Events : SyncFires(e)
           \/ \E t \in Threads : DelayEnds(t)
           \/ \E a \in Agents : Hear(a)
  BY <1>2, <1>3, ManagerAgents
<1>4. ASSUME NEW f \in Fds, Accept(f)
      PROVE  closed' = closed /\ SocketsStay
  BY <1>1, <1>4, AcceptFacts, AcceptsStays
<1>5. ASSUME NEW a \in Agents, NEW f \in Fds, Report(a, f)
      PROVE  closed' = closed /\ SocketsStay
  <2>1. fds[a][f] # FreeFd /\ fds' = [fds EXCEPT ![a][f].busy = "no"] /\ closed' = closed
    BY <1>5 DEF Report
  <2>2. PICK s \in SocketType : s = fds[a][f]
    BY <1>1, <2>1, SocketFacts
  <2>3. PICK n : n = [s EXCEPT !.busy = "no"]
    OBVIOUS
  <2>4. n \in SocketType
    BY <2>3 DEF SocketType
  <2>5. fds' = [fds EXCEPT ![a][f] = n]
    BY <2>1, <2>2, <2>3
  <2>. QED  BY <1>1, <2>1, <2>4, <2>5, PutStays
<1>. QED  BY <1>3, <1>4, <1>5, ServeStays, NextIs DEF NextCases, Manager

----------------------------------------
(* Each descriptor is that of one thread, on both sides of the event.      *)

\* An answer is for the thread that asked.
LEMMA AnswersOwn ==
  ASSUME IInv, NumberInv, RefInv
  PROVE  OwnAnswers
<1>1. AgentTypes /\ FdTypes
  BY DEF IInv, DataTypes
<1>2. ASSUME NEW a \in Agents, NEW i \in 1 .. Len(toManager[a]), IsAnswer(toManager[a][i]),
             NEW r \in requests[a], r.id = toManager[a][i].id, r.stat = toManager[a][i].op
      PROVE  r.thread = toManager[a][i].thread
  <2>1. r.stat \in SocketOps \/ r.stat \in NewOps
    BY <1>2 DEF IsAnswer, AnswerOps, Stats, NewOps
  <2>2. CASE r.stat \in SocketOps
    <3>1. r.id \in Fds
      BY <1>1, <2>2 DEF FdTypes
    <3>2. Ref(a, r.id, r.thread)
      BY <2>2 DEF Ref
    <3>3. Names(toManager[a][i], r.id, toManager[a][i].thread)
      BY <1>2, <2>2 DEF Names
    <3>4. Ref(a, r.id, toManager[a][i].thread)
      BY <3>3 DEF Ref
    <3>. QED  BY <3>1, <3>2, <3>4 DEF RefInv
  <2>3. CASE r.stat \in NewOps
    <3>1. Numbered(a, r.id, r.thread)
      BY <2>3 DEF Numbered
    <3>2. Numbered(a, r.id, toManager[a][i].thread)
      BY <1>2, <2>3 DEF Numbered
    <3>3. r.id \in Nat
      BY <1>1, <1>2, TokenThreads
    <3>. QED  BY <3>1, <3>2, <3>3 DEF NumberInv
  <2>. QED  BY <2>1, <2>2, <2>3
<1>. QED  BY <1>2 DEF OwnAnswers

\* Only an agent that serves a request at the socket of another thread strays.
LEMMA StrayFrom ==
  ASSUME IInv, [Next]_vars, "stray" \in incidents'
  PROVE  \/ "stray" \in incidents
         \/ \E a \in Agents, r \in Requests :
              /\ 1 \in 1 .. Len(toAgent[a]) /\ r = toAgent[a][1] /\ r.op \in SocketOps
              /\ r.id \in Fds /\ fds[a][r.id] # FreeFd /\ fds[a][r.id].thread # r.thread
<1>1. TableTypes /\ AgentTypes /\ FdTypes /\ DataTypes /\ ThreadTypes /\ scenario \in Scenarios
  BY DEF IInv, DataTypes, ThreadTypes
<1>2. ASSUME NEW t \in Threads, Operation(t) PROVE "stray" \in incidents
  <2>1. ASSUME NEW a, NEW id, NEW end \in {"client", "server"}, NEW op \in AnswerOps, Issues(t, a, end, op, id)
        PROVE  "stray" \in incidents
    <3>1. a \in Agents /\ id \in Nat
      BY <1>1, <2>1, IssueTypes
    <3>2. Request(t, a, op, id)
      BY <2>1 DEF Issues
    <3>3. incidents' \subseteq incidents \union {"request lost"}
      BY <1>1, <3>1, <3>2, RequestFacts DEF AnswerOps
    <3>. QED  BY <3>3
  <2>2. ASSUME NEW l \in listens, Awaits(t, l) PROVE "stray" \in incidents
    <3>1. l.id_req \in Nat /\ Server \in Agents /\ "ACCEPT" \in Stats
      BY <1>1 DEF TableTypes, Agents, Stats
    <3>2. Request(t, Server, "ACCEPT", l.id_req)
      BY <2>2 DEF Awaits
    <3>3. PICK n \in Nat : n = l.id_req
      BY <3>1
    <3>4. incidents' \subseteq incidents \union {"request lost"}
      BY <1>1, <3>1, <3>2, <3>3, RequestFacts
    <3>. QED  BY <3>4
  <2>3. ASSUME NEW c \in accepts, Takes(t, c) PROVE "stray" \in incidents
    BY <2>3 DEF Takes
  <2>4. ASSUME Alone(t) PROVE "stray" \in incidents
    <3>1. UNCHANGED incidents \/ \E i \in {"refused", "not connected"} : incidents' = incidents \union {i}
      BY <2>4 DEF Alone
    <3>2. "stray" # "refused" /\ "stray" # "not connected"
      OBVIOUS
    <3>3. CASE UNCHANGED incidents
      BY <3>3
    <3>4. ASSUME NEW i \in {"refused", "not connected"}, incidents' = incidents \union {i}
          PROVE  "stray" \in incidents
      <4>1. i # "stray"
        BY <3>2
      <4>. QED  BY <3>4, <4>1
    <3>. QED  BY <3>1, <3>3, <3>4
  <2>. QED  BY <1>2, <2>1, <2>2, <2>3, <2>4, OperationCases
<1>3. ASSUME NEW a \in Agents, Hear(a) PROVE "stray" \in incidents
  <2>1. HearSteps(a, toManager[a][1])
    BY <1>1, <1>3, HearCases
  <2>2. PICK m : m = toManager[a][1]
    OBVIOUS
  <2>3. ASSUME Keeps(m) \/ \E r \in requests[Server] : Admits(m, r)
        PROVE  UNCHANGED incidents
    BY <2>3 DEF Keeps, Admits
  <2>4. ASSUME NEW r, Settles(a, m, r)
        PROVE  UNCHANGED incidents \/ incidents' = incidents \union {"failed"}
    BY <2>4 DEF Settles
  <2>5. UNCHANGED incidents \/ (\E i \in {"failed", "unexpected"} : incidents' = incidents \union {i})
    BY <2>1, <2>2, <2>3, <2>4 DEF HearSteps, Unexpected
  <2>. QED  BY <2>5
<1>4. ASSUME NEW a \in Agents, Serve(a)
      PROVE  \/ "stray" \in incidents
             \/ \E r \in Requests :
                  /\ 1 \in 1 .. Len(toAgent[a]) /\ r = toAgent[a][1] /\ r.op \in SocketOps
                  /\ r.id \in Fds /\ fds[a][r.id] # FreeFd /\ fds[a][r.id].thread # r.thread
  <2>1. PICK r \in Requests : Serving(a, r)
    BY <1>4, ServeRequest
  <2>. USE DEF Serving
  <2>4. CASE r.op \in NewOps
    BY <1>1, <2>1, <2>4, NewCases
  <2>5. CASE r.op \in SocketOps
    <3>1. \/ Misses(a, r)
          \/ /\ fds[a][r.id] # FreeFd
             /\ "stray" \in incidents' => "stray" \in incidents \/ fds[a][r.id].thread # r.thread
      BY <1>1, <2>1, <2>5, SocketCases
    <3>. QED  BY <2>1, <2>5, <3>1 DEF Misses
  <2>. QED  BY <2>1, <2>4, <2>5
<1>5. ASSUME \/ UNCHANGED vars \/ ThreadRests \/ (\E e \in Events : SyncFires(e))
             \/ (\E t \in Threads : DelayEnds(t))
      PROVE  "stray" \in incidents
  BY <1>5, LocalKeeps
<1>6. ASSUME \E f \in Fds : Accept(f) \/ \E a \in Agents : Report(a, f) \/ EndOfStream(a, f)
      PROVE  "stray" \in incidents
  BY <1>6 DEF Accept, Report, EndOfStream
<1>. QED  BY <1>2, <1>3, <1>4, <1>5, <1>6, NextIs DEF NextCases

LEMMA NeverStray ==
  ASSUME IInv, RefInv, "stray" \notin incidents, [Next]_vars
  PROVE  "stray" \notin incidents'
<1>1. SUFFICES ASSUME "stray" \in incidents' PROVE FALSE
  OBVIOUS
<1>2. PICK a \in Agents, r \in Requests :
        /\ 1 \in 1 .. Len(toAgent[a]) /\ r = toAgent[a][1] /\ r.op \in SocketOps
        /\ r.id \in Fds /\ fds[a][r.id] # FreeFd /\ fds[a][r.id].thread # r.thread
  BY <1>1, StrayFrom
<1>3. Names(toAgent[a][1], r.id, r.thread)
  BY <1>2 DEF Names
<1>4. Ref(a, r.id, r.thread) /\ Ref(a, r.id, fds[a][r.id].thread)
  BY <1>2, <1>3 DEF Ref
<1>. QED  BY <1>2, <1>4 DEF RefInv

\* After the event no thread connects.
LEMMA NoneComes ==
  ASSUME IInv, Orderly, NEW e \in Events, SeparatedAt(e), GateInv(e), e \in fired,
         NEW a \in Agents, NEW f \in Fds, NEW t, Comes(a, f, t)
  PROVE  FALSE
<1>1. ThreadTypes /\ AgentTypes /\ scenario \in Scenarios
  BY DEF IInv, DataTypes, ThreadTypes
<1>2. ASSUME NEW u \in Threads, stmtPos[u] \in 1 .. Len(Program(u)), Current(u).kind = "connect"
      PROVE  FALSE
  <2>1. PICK k \in 1 .. Len(Program(u)) : SyncsOnceAt(u, e, k)
    BY DEF SeparatedAt
  <2>2. stmtPos[u] < k
    BY <1>2, <2>1 DEF SyncsOnceAt, Current
  <2>3. stmtPos[u] >= k
    BY <2>1 DEF GateInv, After
  <2>. QED  BY <1>2, <2>2, <2>3
<1>3. CASE Created(a, f)
  <2>1. PICK r \in Requests : 1 \in 1 .. Len(toAgent[a]) /\ r = toAgent[a][1] /\ r.op \in NewOps
    BY <1>3 DEF Created
  <2>2. TokenAt(a) /\ r.thread \in Threads
    BY DEF Orderly, TokenInv, Requests
  <2>3. WaitsAt(r.thread, a, r.op)
    BY <1>1, <2>1, <2>2, AskedAlone
  <2>4. PICK u \in Threads : u = r.thread
    BY <2>2
  <2>5. Current(u).kind = "connect"
    BY <1>1, <2>1, <2>3, <2>4, WaitsAtFacts DEF NewOps
  <2>6. stmtPos[u] \in 1 .. Len(Program(u))
    BY <1>1, <2>3, <2>4, WaitsAtFacts, StandsFacts
  <2>. QED  BY <1>2, <2>5, <2>6
<1>4. CASE Accepted(a, f)
  <2>1. PICK g \in Fds : Accept(g) /\ Accepts(g, f)
    BY <1>4 DEF Accepted
  <2>2. PICK u \in Threads : u = FirstAt(PortOf(g)) /\ InBacklog(u)
    BY <2>1, AcceptsThread
  <2>3. Connecting(u)
    BY <2>2 DEF Orderly, ConnectionInv, CallInv
  <2>4. stmtPos[u] \in 1 .. Len(Program(u)) /\ Current(u).kind = "connect"
    BY <1>1, <2>3, ConnectingFacts DEF Connecting
  <2>. QED  BY <1>2, <2>4
<1>. QED  BY <1>3, <1>4 DEF Comes

\* Before the event no thread closes.
LEMMA NoneCloses ==
  ASSUME IInv, Orderly, NEW e \in Events, SeparatedAt(e), GateInv(e), e \notin fired, OpenInv
  PROVE  /\ \A a \in Agents, f \in Fds : ~EndOfStream(a, f)
         /\ \A a \in Agents : Serve(a) => toAgent[a][1].op # "CLOSE"
<1>1. ThreadTypes /\ AgentTypes /\ scenario \in Scenarios /\ Server \in Agents
  BY DEF IInv, DataTypes, ThreadTypes, Agents
<1>2. ASSUME NEW a \in Agents, NEW f \in Fds, EndOfStream(a, f) PROVE FALSE
  <2>1. fds[a][f] # FreeFd /\ fds[a][f].thread \in closed[Peer(a, fds[a][f].thread)]
    BY <1>2 DEF EndOfStream
  <2>2. PICK t \in Threads : t = fds[a][f].thread
    BY <1>1, <2>1, SocketFacts
  <2>3. Peer(a, t) \in Agents
    BY <1>1, ScenarioFacts DEF Peer
  <2>. QED  BY <2>1, <2>2, <2>3 DEF OpenInv
<1>3. ASSUME NEW a \in Agents, Serve(a), toAgent[a][1].op = "CLOSE" PROVE FALSE
  <2>1. 1 \in 1 .. Len(toAgent[a]) /\ toAgent[a][1] \in Requests
    BY <1>1, <1>3, ServeFacts
  <2>2. PICK r \in Requests : r = toAgent[a][1]
    BY <2>1
  <2>3. PICK u \in Threads : u = r.thread
    BY DEF Requests
  <2>4. WaitsAt(u, a, "CLOSE")
    BY <1>1, <1>3, <2>1, <2>2, <2>3, AskedAlone DEF Orderly, TokenInv
  <2>5. Current(u).kind = "close" /\ stmtPos[u] \in 1 .. Len(Program(u))
    BY <1>1, <2>4, WaitsAtFacts, StandsFacts
  <2>6. PICK k \in 1 .. Len(Program(u)) : SyncsOnceAt(u, e, k)
    BY DEF SeparatedAt
  <2>7. stmtPos[u] > k
    BY <2>5, <2>6 DEF SyncsOnceAt, Current
  <2>8. stmtPos[u] < k \/ stmtPos[u] = k
    BY <2>6 DEF GateInv, Before
  <2>. QED  BY <2>5, <2>7, <2>8
<1>. QED  BY <1>2, <1>3

LEMMA FiredGrows ==
  ASSUME IInv, [Next]_vars, NEW e, e \in fired
  PROVE  e \in fired'
<1>1. ThreadTypes /\ PlaceInv
  BY DEF IInv, StateInv
<1>2. ASSUME NEW t \in Threads, Operation(t) PROVE fired' = fired
  BY <1>2, OperationThreads DEF Wait, Skip, Abort, OpSync, StatementEnds
<1>3. ASSUME NEW d \in Events, SyncFires(d) PROVE fired' = fired \union {d}
  BY <1>3 DEF SyncFires
<1>4. CASE UNCHANGED vars \/ ThreadRests
  BY <1>4 DEF vars, threads, ThreadRests
<1>5. CASE \/ \E t \in Threads : DelayEnds(t)
           \/ \E a \in Agents : Hear(a) \/ Serve(a)
           \/ \E f \in Fds : Accept(f) \/ \E a \in Agents : Report(a, f) \/ EndOfStream(a, f)
  BY <1>5, Elsewhere
<1>. QED  BY <1>2, <1>3, <1>4, <1>5, NextIs DEF NextCases

LEMMA ScenarioStays ==
  ASSUME [Next]_vars
  PROVE  scenario' = scenario
<1>1. ASSUME NEW t \in Threads, Operation(t) PROVE scenario' = scenario
  BY <1>1, OperationThreads
<1>2. CASE \/ \E a \in Agents : Serve(a)
           \/ \E f \in Fds : Accept(f) \/ \E a \in Agents : Report(a, f) \/ EndOfStream(a, f)
  BY <1>2, AgentKeeps
<1>3. CASE UNCHANGED vars
  BY <1>3 DEF vars
<1>4. CASE \/ ThreadRests \/ (\E e \in Events : SyncFires(e)) \/ (\E t \in Threads : DelayEnds(t))
           \/ \E a \in Agents : Hear(a)
  BY <1>4 DEF ThreadRests, SyncFires, DelayEnds, Hear
<1>. QED  BY <1>1, <1>2, <1>3, <1>4, NextIs DEF NextCases

LEMMA ComesStays ==
  ASSUME IInv, NEW a \in Agents, NEW f \in Fds, NEW t, Comes(a, f, t)
  PROVE  fds'[a][f] # FreeFd
<1>1. AgentTypes
  BY DEF IInv, DataTypes
<1>2. CASE Created(a, f)
  BY <1>1, <1>2, CreatesStays DEF Created
<1>3. CASE Accepted(a, f)
  BY <1>3, AcceptsStays DEF Accepted
<1>. QED  BY <1>2, <1>3 DEF Comes

LEMMA ApartStep ==
  ASSUME IInv, NumberInv, NEW e \in Events, SeparatedAt(e), ApartInv(e), [Next]_vars
  PROVE  ApartInv(e)'
<1>1. GateInv(e) /\ RefInv /\ Orderly /\ (e \notin fired => OpenInv) /\ "stray" \notin incidents
  BY DEF ApartInv
<1>2. AgentTypes
  BY DEF IInv, DataTypes
<1>3. OwnAnswers
  BY <1>1, AnswersOwn
<1>4. "stray" \notin incidents'
  BY <1>1, NeverStray
<1>5. Orderly'
  BY <1>1, <1>3, <1>4, OrderlyStep
<1>6. GateInv(e)'
  BY <1>1, GateStep
<1>7. ASSUME NEW a \in Agents, NEW f \in Fds, NEW t, NEW u, Ref(a, f, t)', Ref(a, f, u)'
      PROVE  t = u
  <2>1. /\ Ref(a, f, t) \/ Comes(a, f, t)
        /\ Ref(a, f, u) \/ Comes(a, f, u)
    BY <1>3, <1>7, RefStep
  <2>2. CASE Ref(a, f, t) /\ Ref(a, f, u)
    BY <1>1, <2>2 DEF RefInv
  <2>3. CASE Comes(a, f, t) /\ Comes(a, f, u)
    BY <2>3 DEF Comes
  <2>4. ASSUME NEW x, NEW y, Ref(a, f, x), Comes(a, f, y) PROVE FALSE
    <3>1. CASE e \in fired
      BY <1>1, <2>4, <3>1, NoneComes
    <3>2. CASE e \notin fired
      BY <1>1, <2>4, <3>2 DEF OpenInv, Comes
    <3>. QED  BY <3>1, <3>2
  <2>. QED  BY <2>1, <2>2, <2>3, <2>4
<1>8. RefInv'
  BY <1>7 DEF RefInv
<1>9. ASSUME e \notin fired' PROVE OpenInv'
  <2>1. e \notin fired
    BY <1>9, FiredGrows
  <2>2. closed' = closed /\ SocketsStay
    BY <1>1, <2>1, NoneCloses, NoneGoes
  <2>3. ASSUME NEW a \in Agents, NEW f \in Fds, NEW t, Ref(a, f, t)' PROVE fds'[a][f] # FreeFd
    <3>1. CASE Ref(a, f, t)
      BY <1>1, <2>1, <2>2, <3>1 DEF OpenInv, SocketsStay
    <3>2. CASE Comes(a, f, t)
      BY <1>2, <3>2, ComesStays
    <3>. QED  BY <1>3, <2>3, <3>1, <3>2, RefStep
  <2>. QED  BY <1>1, <2>1, <2>2, <2>3 DEF OpenInv
<1>. QED  BY <1>4, <1>5, <1>6, <1>8, <1>9 DEF ApartInv

LEMMA InitOwn ==
  ASSUME Init
  PROVE  OwnInv
<1>1. ASSUME NEW a \in Agents
      PROVE  /\ requests[a] = {} /\ toAgent[a] = <<>> /\ toManager[a] = <<>> /\ connects[a] = {}
             /\ accepts = {} /\ closed[a] = {} /\ \A f \in Fds : fds[a][f] = FreeFd
  BY DEF Init
<1>2. ASSUME NEW a \in Agents, NEW f \in Fds, NEW t PROVE ~Ref(a, f, t)
  BY <1>1 DEF Ref
<1>3. RefInv /\ OpenInv
  BY <1>1, <1>2 DEF RefInv, OpenInv
<1>4. fired = {} /\ "stray" \notin incidents /\ \A t \in Threads : stmtPos[t] = 1 /\ step[t] = 1
  BY DEF Init
<1>5. ASSUME NEW e \in Events PROVE GateInv(e)
  <2>1. ASSUME NEW t \in Threads, NEW k \in 1 .. Len(Program(t))
        PROVE  stmtPos[t] < k \/ (stmtPos[t] = k /\ step[t] = 1)
    <3>1. Len(Program(t)) \in Nat
      BY ScenarioFacts DEF Init
    <3>. QED  BY <1>4, <3>1
  <2>. QED  BY <1>4, <2>1 DEF GateInv, Before
<1>. QED  BY <1>3, <1>4, <1>5, InitNumbers, InitOrderly DEF OwnInv, ApartInv

LEMMA OwnStep ==
  ASSUME IInv, OwnInv, [Next]_vars
  PROVE  OwnInv'
<1>1. scenario' = scenario
  BY ScenarioStays
<1>2. ASSUME NEW e \in Events, SeparatedAt(e)' PROVE SeparatedAt(e)
  <2>1. \A t : Program(t)' = Program(t)
    BY <1>1 DEF Program
  <2>. QED  BY <1>2, <2>1 DEF SeparatedAt, SyncsOnceAt
<1>3. ASSUME NEW e \in Events, SeparatedAt(e)' PROVE ApartInv(e)'
  BY <1>2, <1>3, ApartStep DEF OwnInv
<1>4. NumberInv'
  BY NumberStep DEF OwnInv
<1>. QED  BY <1>3, <1>4 DEF OwnInv

\* Where all threads wait for each other after their connects and before their
\* first closes, no agent serves a request at the socket of another thread,
\* although both sides name a socket by a descriptor that is used again.
THEOREM OwnSocketCorrect == Spec => []OwnSocket
<1>1. Init => OwnInv
  BY InitOwn
<1>2. IInv /\ OwnInv /\ [Next]_vars => OwnInv'
  BY OwnStep
<1>3. OwnInv => OwnSocket
  BY DEF OwnInv, OwnSocket, Separated, SeparatedAt, ApartInv
<1>. QED  BY <1>1, <1>2, <1>3, InvIsInductive, PTL DEF Spec

----------------------------------------
(* Everything under way has its request in the table of velm.              *)

LEMMA RequestsOwn ==
  ASSUME IInv, RequestInv
  PROVE  OwnAnswers
<1>1. ASSUME NEW a \in Agents, NEW i \in 1 .. Len(toManager[a]), IsAnswer(toManager[a][i]),
             NEW r \in requests[a], r.id = toManager[a][i].id, r.stat = toManager[a][i].op
      PROVE  r.thread = toManager[a][i].thread
  <2>1. PICK q : q = Req(toManager[a][i].thread, toManager[a][i].op, toManager[a][i].id)
    OBVIOUS
  <2>2. q \in requests[a]
    BY <1>1, <2>1 DEF RequestInv
  <2>3. q.id = r.id /\ q.stat = r.stat /\ q.thread = toManager[a][i].thread
    BY <1>1, <2>1, ReqFacts
  <2>4. KeyInv
    BY DEF IInv, StateInv
  <2>5. q = r
    BY <2>2, <2>3, <2>4 DEF KeyInv
  <2>. QED  BY <2>3, <2>5
<1>. QED  BY <1>1 DEF OwnAnswers

\* The answer that velm takes off the queue settles the request of its thread.
LEMMA HeardRequest ==
  ASSUME IInv, RequestInv, NEW a \in Agents, Hear(a), NEW r \in requests[a],
         NEW m, m = toManager[a][1], m.op \in AnswerOps, r.id = m.id, r.stat = m.op
  PROVE  /\ r.thread = m.thread /\ r = Req(m.thread, m.op, m.id)
         /\ 1 \in 1 .. Len(toManager[a]) /\ IsAnswer(toManager[a][1])
<1>1. AgentTypes /\ TableTypes
  BY DEF IInv, DataTypes
<1>2. 1 \in 1 .. Len(toManager[a]) /\ IsAnswer(toManager[a][1])
  BY <1>1, HearFacts DEF IsAnswer
<1>3. r.thread = m.thread
  BY <1>2, RequestsOwn DEF OwnAnswers
<1>4. r = [id |-> r.id, stat |-> r.stat, thread |-> r.thread]
  BY <1>1, ElementFacts
<1>. QED  BY <1>2, <1>3, <1>4 DEF Req

\* A socket is busy because of the request that its agent took.
LEMMA BusyServe ==
  ASSUME IInv, "stray" \notin incidents', NEW a \in Agents, Serve(a),
         NEW b \in Agents, NEW f \in Fds, Busy(b, f)'
  PROVE  \/ Busy(b, f) /\ fds'[b][f].thread = fds[b][f].thread /\ fds'[b][f].busy = fds[b][f].busy
         \/ \E r \in Requests :
              /\ a = b /\ 1 \in 1 .. Len(toAgent[b]) /\ r = toAgent[b][1] /\ r.id = f
              /\ fds'[b][f].thread = r.thread /\ fds'[b][f].busy = r.op
<1>1. AgentTypes
  BY DEF IInv, DataTypes
<1>2. 1 \in 1 .. Len(toAgent[a])
  BY <1>1, ServeFacts
<1>3. PICK r : r = toAgent[a][1]
  OBVIOUS
<1>4. /\ r \in Requests
      /\ \/ \E m \in Messages : Served(a, r, m)
         \/ /\ Begins(a, r) /\ r.id \in Fds /\ fds[a][r.id] # FreeFd
            /\ fds[a][r.id].thread = r.thread
  BY <1>3, ServeOutcome
<1>5. CASE \E m \in Messages : Served(a, r, m)
  BY <1>5 DEF Served
<1>6. CASE Begins(a, r) /\ r.id \in Fds /\ fds[a][r.id] # FreeFd /\ fds[a][r.id].thread = r.thread
  <2>1. PICK g \in Fds : g = r.id
    BY <1>6
  <2>2. PICK s \in SocketType : s = fds[a][g]
    BY <1>1, <1>6, <2>1, SocketFacts
  <2>3. PICK op \in {"SEND", "RECVTERM"} : op = r.op
    BY <1>6 DEF Begins
  <2>4. PICK new : new = [s EXCEPT !.busy = op]
    OBVIOUS
  <2>5. new \in SocketType /\ new.busy = op /\ new.thread = r.thread
    BY <1>6, <2>1, <2>2, <2>4 DEF SocketType
  <2>6. fds' = [fds EXCEPT ![a][g] = new]
    BY <1>6, <2>1, <2>2, <2>3, <2>4 DEF Begins
  <2>7. /\ fds'[a][g] = new
        /\ \A h \in Fds \ {g} : fds'[a][h] = fds[a][h]
        /\ \A c \in Agents \ {a} : fds'[c] = fds[c]
    BY <1>1, <2>5, <2>6, PutFacts
  <2>8. CASE b = a /\ f = g
    BY <1>2, <1>3, <1>4, <2>1, <2>3, <2>5, <2>7, <2>8
  <2>9. CASE ~(b = a /\ f = g)
    <3>1. fds'[b][f] = fds[b][f]
      BY <2>7, <2>9
    <3>. QED  BY <3>1, SameBusy
  <2>. QED  BY <2>8, <2>9
<1>. QED  BY <1>4, <1>5, <1>6

LEMMA BusyKept ==
  ASSUME AgentTypes, NEW a \in Agents, NEW g \in Fds, NEW new \in {FreeFd} \union SocketType,
         fds' = [fds EXCEPT ![a][g] = new], new = FreeFd \/ new.busy = "no",
         NEW b \in Agents, NEW f \in Fds, Busy(b, f)'
  PROVE  Busy(b, f) /\ fds'[b][f].thread = fds[b][f].thread /\ fds'[b][f].busy = fds[b][f].busy
<1>1. /\ fds'[a][g] = new
      /\ \A h \in Fds \ {g} : fds'[a][h] = fds[a][h]
      /\ \A c \in Agents \ {a} : fds'[c] = fds[c]
  BY PutFacts
<1>2. ~(b = a /\ f = g)
  BY <1>1 DEF Busy
<1>3. fds'[b][f] = fds[b][f]
  BY <1>1, <1>2
<1>. QED  BY <1>3, SameBusy

LEMMA BusyFrom ==
  ASSUME IInv, "stray" \notin incidents', [Next]_vars,
         NEW b \in Agents, NEW f \in Fds, Busy(b, f)'
  PROVE  \/ Busy(b, f) /\ fds'[b][f].thread = fds[b][f].thread /\ fds'[b][f].busy = fds[b][f].busy
         \/ \E r \in Requests :
              /\ Serve(b) /\ 1 \in 1 .. Len(toAgent[b]) /\ r = toAgent[b][1] /\ r.id = f
              /\ fds'[b][f].thread = r.thread /\ fds'[b][f].busy = r.op
<1>1. AgentTypes /\ scenario \in Scenarios /\ Server \in Agents
  BY DEF IInv, DataTypes, ThreadTypes, Agents
<1>2. CASE \/ UNCHANGED vars \/ Manager
           \/ \E e \in Events : SyncFires(e)
           \/ \E t \in Threads : DelayEnds(t)
           \/ \E a \in Agents : Hear(a)
  <2>1. fds' = fds
    BY <1>2, ManagerAgents DEF agents
  <2>2. fds'[b][f] = fds[b][f]
    BY <2>1
  <2>. QED  BY <2>2, SameBusy
<1>3. ASSUME NEW g \in Fds, Accept(g)
      PROVE  Busy(b, f) /\ fds'[b][f].thread = fds[b][f].thread /\ fds'[b][f].busy = fds[b][f].busy
  <2>1. PICK h \in Fds : Accepts(g, h)
    BY <1>1, <1>3, AcceptFacts
  <2>2. PICK t \in Threads : t = FirstAt(PortOf(g))
    BY <1>1, <1>3, AcceptFacts
  <2>3. PICK s : s = Socket("tcp", t, 0)
    OBVIOUS
  <2>4. s \in SocketType /\ s.busy = "no"
    BY <2>3 DEF Socket, SocketType
  <2>5. fds' = [fds EXCEPT ![Server][h] = s]
    BY <2>1, <2>2, <2>3 DEF Accepts
  <2>. QED  BY <1>1, <2>4, <2>5, BusyKept
<1>4. ASSUME NEW a \in Agents, NEW g \in Fds, Report(a, g)
      PROVE  Busy(b, f) /\ fds'[b][f].thread = fds[b][f].thread /\ fds'[b][f].busy = fds[b][f].busy
  <2>1. fds[a][g] # FreeFd /\ fds' = [fds EXCEPT ![a][g].busy = "no"]
    BY <1>4 DEF Report
  <2>2. PICK s \in SocketType : s = fds[a][g]
    BY <1>1, <2>1, SocketFacts
  <2>3. PICK n : n = [s EXCEPT !.busy = "no"]
    OBVIOUS
  <2>4. n \in SocketType /\ n.busy = "no"
    BY <2>3 DEF SocketType
  <2>5. fds' = [fds EXCEPT ![a][g] = n]
    BY <2>1, <2>2, <2>3
  <2>. QED  BY <1>1, <2>4, <2>5, BusyKept
<1>5. ASSUME NEW a \in Agents, NEW g \in Fds, EndOfStream(a, g)
      PROVE  Busy(b, f) /\ fds'[b][f].thread = fds[b][f].thread /\ fds'[b][f].busy = fds[b][f].busy
  <2>1. PICK n \in {FreeFd} \union SocketType : n = FreeFd
    OBVIOUS
  <2>2. fds' = [fds EXCEPT ![a][g] = n]
    BY <1>5, <2>1 DEF EndOfStream
  <2>. QED  BY <1>1, <2>1, <2>2, BusyKept
<1>. QED  BY <1>2, <1>3, <1>4, <1>5, BusyServe, NextIs DEF NextCases, Manager

\* Requests go only by their answers.
LEMMA RequestsGrow ==
  ASSUME IInv, [Next]_vars, \A a \in Agents : ~Hear(a), NEW b \in Agents
  PROVE  requests[b] \subseteq requests'[b]
<1>1. TableTypes /\ ThreadTypes /\ DataTypes /\ Server \in Agents
  BY DEF IInv, DataTypes, Agents
<1>2. ASSUME NEW t \in Threads, Operation(t) PROVE requests[b] \subseteq requests'[b]
  <2>1. ASSUME NEW a, NEW id, NEW end \in {"client", "server"}, NEW op \in AnswerOps, Issues(t, a, end, op, id)
        PROVE  requests[b] \subseteq requests'[b]
    <3>1. a \in Agents /\ id \in Nat
      BY <1>1, <2>1, IssueTypes
    <3>2. Request(t, a, op, id) /\ op \in Stats
      BY <2>1 DEF Issues, AnswerOps
    <3>3. /\ \A c \in Agents \ {a} : requests'[c] = requests[c]
          /\ requests[a] \subseteq requests'[a]
      BY <1>1, <3>1, <3>2, RequestFacts
    <3>. QED  BY <3>3
  <2>2. ASSUME NEW l \in listens, Awaits(t, l) PROVE requests[b] \subseteq requests'[b]
    <3>1. PICK n \in Nat, stat \in Stats : n = l.id_req /\ stat = "ACCEPT"
      BY <1>1 DEF TableTypes, Stats
    <3>2. Request(t, Server, stat, n)
      BY <2>2, <3>1 DEF Awaits
    <3>3. /\ \A c \in Agents \ {Server} : requests'[c] = requests[c]
          /\ requests[Server] \subseteq requests'[Server]
      BY <1>1, <3>2, RequestFacts
    <3>. QED  BY <3>3
  <2>3. ASSUME NEW c \in accepts, Takes(t, c) PROVE requests' = requests
    BY <2>3 DEF Takes
  <2>4. ASSUME Alone(t) PROVE requests' = requests
    BY <2>4 DEF Alone, tables
  <2>. QED  BY <1>2, <2>1, <2>2, <2>3, <2>4, OperationCases
<1>3. ASSUME \/ UNCHANGED vars \/ ThreadRests \/ (\E e \in Events : SyncFires(e))
             \/ (\E t \in Threads : DelayEnds(t))
      PROVE  requests' = requests
  BY <1>3, LocalKeeps
<1>4. ASSUME \/ \E a \in Agents : Serve(a)
             \/ \E f \in Fds : Accept(f) \/ \E a \in Agents : Report(a, f) \/ EndOfStream(a, f)
      PROVE  requests' = requests
  BY <1>4, AgentKeeps
<1>5. requests' = requests => requests[b] \subseteq requests'[b]
  OBVIOUS
<1>. QED  BY <1>2, <1>3, <1>4, <1>5, NextIs DEF NextCases

LEMMA SurvivesHear ==
  ASSUME IInv, RequestInv, NEW a \in Agents, Hear(a), NEW b \in Agents, NEW q \in requests[b],
         q.stat \in AnswerOps,
         b = a /\ IsAnswer(toManager[a][1]) => q.thread # toManager[a][1].thread
  PROVE  q \in requests'[b]
<1>1. AgentTypes /\ TableTypes
  BY DEF IInv, DataTypes
<1>2. PICK m : m = toManager[a][1]
  OBVIOUS
<1>0. HearSteps(a, toManager[a][1])
  BY <1>1, HearCases
<1>3. HearSteps(a, m)
  BY <1>0, <1>2
<1>4. CASE Keeps(m) \/ Unexpected \/ UNCHANGED <<threads, requests, listens, accepts, incidents>>
  BY <1>4 DEF Keeps, Unexpected, tables
<1>5. ASSUME NEW r \in requests[Server], Admits(m, r) PROVE q \in requests'[b]
  <2>1. requests' = [requests EXCEPT ![Server] = requests[Server] \ {r}] /\ r.stat = "ACCEPT"
    BY <1>5 DEF Admits, Accepting
  <2>2. q # r
    BY <2>1 DEF AnswerOps
  <2>. QED  BY <1>1, <2>1, <2>2 DEF TableTypes
<1>6. ASSUME m.op \in AnswerOps, NEW r \in requests[a], Settles(a, m, r) PROVE q \in requests'[b]
  <2>1. requests' = [requests EXCEPT ![a] = requests[a] \ {r}] /\ r.id = m.id /\ r.stat = m.op
    BY <1>6 DEF Settles
  <2>2. r.thread = m.thread
    BY <1>2, <1>6, <2>1, HeardRequest
  <2>3. b = a => q # r
    BY <1>2, <1>6, <2>2 DEF IsAnswer
  <2>. QED  BY <1>1, <2>1, <2>3 DEF TableTypes
<1>. QED  BY <1>3, <1>4, <1>5, <1>6 DEF HearSteps

LEMMA RequestHear ==
  ASSUME IInv, RequestInv, TokenInv, NEW a \in Agents, Hear(a)
  PROVE  RequestInv'
<1>1. AgentTypes
  BY DEF IInv, DataTypes
<1>2. /\ 1 \in 1 .. Len(toManager[a])
      /\ \A b \in Agents \ {a} : toManager'[b] = toManager[b]
      /\ \A i \in 1 .. Len(toManager'[a]) :
           toManager'[a][i] = toManager[a][i + 1] /\ i + 1 \in 1 .. Len(toManager[a])
  BY <1>1, HearFacts
<1>3. toAgent' = toAgent /\ fds' = fds
  BY DEF Hear, agents
<1>4. ASSUME NEW b \in Agents, NEW t, NEW op \in AnswerOps, NEW n, Req(t, op, n) \in requests[b],
             b = a /\ IsAnswer(toManager[a][1]) => t # toManager[a][1].thread
      PROVE  Req(t, op, n) \in requests'[b]
  <2>1. PICK q \in requests[b] : q = Req(t, op, n)
    BY <1>4
  <2>2. q.stat = op /\ q.thread = t
    BY <2>1, ReqFacts
  <2>. QED  BY <1>4, <2>1, <2>2, SurvivesHear
<1>5. ASSUME NEW b \in Agents, NEW i \in 1 .. Len(toAgent'[b])
      PROVE  Req(toAgent'[b][i].thread, toAgent'[b][i].op, toAgent'[b][i].id) \in requests'[b]
  <2>1. PICK q : q = toAgent[b][i]
    OBVIOUS
  <2>2. i \in 1 .. Len(toAgent[b]) /\ toAgent'[b][i] = q
    BY <1>3, <2>1
  <2>3. Req(q.thread, q.op, q.id) \in requests[b] /\ q.op \in AnswerOps
    BY <1>1, <2>1, <2>2, TokenThreads DEF RequestInv
  <2>4. b = a /\ IsAnswer(toManager[a][1]) => q.thread # toManager[a][1].thread
    BY <1>2, <2>1, <2>2 DEF TokenInv, TokenAt, AskInv
  <2>. QED  BY <1>4, <2>2, <2>3, <2>4
<1>6. ASSUME NEW b \in Agents, NEW i \in 1 .. Len(toManager'[b]), IsAnswer(toManager'[b][i])
      PROVE  Req(toManager'[b][i].thread, toManager'[b][i].op, toManager'[b][i].id) \in requests'[b]
  <2>1. \E j \in 1 .. Len(toManager[b]) : toManager'[b][i] = toManager[b][j] /\ (b = a => j # 1)
    <3>1. CASE b = a
      <4>1. i + 1 \in 1 .. Len(toManager[a]) /\ i + 1 # 1 /\ toManager'[a][i] = toManager[a][i + 1]
        BY <1>2, <3>1
      <4>. QED  BY <3>1, <4>1
    <3>2. CASE b # a
      BY <1>2, <3>2
    <3>. QED  BY <3>1, <3>2
  <2>2. PICK j \in 1 .. Len(toManager[b]) : toManager'[b][i] = toManager[b][j] /\ (b = a => j # 1)
    BY <2>1
  <2>3. PICK q : q = toManager[b][j]
    OBVIOUS
  <2>4. IsAnswer(q) /\ toManager'[b][i] = q
    BY <1>6, <2>2, <2>3
  <2>5. Req(q.thread, q.op, q.id) \in requests[b] /\ q.op \in AnswerOps
    BY <2>3, <2>4 DEF RequestInv, IsAnswer
  <2>6. b = a /\ IsAnswer(toManager[a][1]) => q.thread # toManager[a][1].thread
    BY <1>2, <2>2, <2>3, <2>4 DEF TokenInv, TokenAt, AnswerInv
  <2>. QED  BY <1>4, <2>4, <2>5, <2>6
<1>7. ASSUME NEW b \in Agents, NEW f \in Fds, Busy(b, f)'
      PROVE  Req(fds'[b][f].thread, fds'[b][f].busy, f) \in requests'[b]
  <2>1. fds'[b][f] = fds[b][f]
    BY <1>3
  <2>2. Busy(b, f)
    BY <1>7, <2>1 DEF Busy
  <2>3. PICK t, op : t = fds[b][f].thread /\ op = fds[b][f].busy
    OBVIOUS
  <2>4. Req(t, op, f) \in requests[b] /\ op \in AnswerOps
    BY <1>1, <2>2, <2>3, TokenThreads DEF RequestInv, AnswerOps, Stats, SocketOps
  <2>5. b = a /\ IsAnswer(toManager[a][1]) => t # toManager[a][1].thread
    BY <1>2, <2>2, <2>3 DEF TokenInv, TokenAt, AnswerInv
  <2>. QED  BY <1>4, <2>1, <2>3, <2>4, <2>5
<1>. QED  BY <1>5, <1>6, <1>7 DEF RequestInv

LEMMA RequestAdds ==
  ASSUME TableTypes, NEW t \in Threads, NEW a \in Agents, NEW stat \in Stats, NEW id \in Nat,
         Request(t, a, stat, id), ~Loses'
  PROVE  Req(t, stat, id) \in requests'[a]
BY RequestFacts DEF Loses

LEMMA AskFields ==
  ASSUME NEW t, NEW op, NEW id
  PROVE  Ask(t, op, id).thread = t /\ Ask(t, op, id).op = op /\ Ask(t, op, id).id = id
BY DEF Ask

LEMMA RequestAsk ==
  ASSUME IInv, RequestInv, [Next]_vars, \A a \in Agents : ~Hear(a), ~Loses',
         NEW b \in Agents, NEW i \in 1 .. Len(toAgent'[b]), NEW q, q = toAgent'[b][i]
  PROVE  Req(q.thread, q.op, q.id) \in requests'[b]
<1>1. requests[b] \subseteq requests'[b]
  BY RequestsGrow
<1>2. ASSUME NEW j \in 1 .. Len(toAgent[b]), toAgent'[b][i] = toAgent[b][j]
      PROVE  Req(q.thread, q.op, q.id) \in requests'[b]
  <2>1. q = toAgent[b][j]
    BY <1>2
  <2>2. Req(q.thread, q.op, q.id) \in requests[b]
    BY <2>1 DEF RequestInv
  <2>. QED  BY <1>1, <2>2
<1>3. ASSUME NEW t \in Threads, NEW id \in Nat, NEW end \in {"client", "server"}, NEW op \in AnswerOps,
             Issues(t, b, end, op, id), toAgent'[b][i] = Ask(t, op, id)
      PROVE  Req(q.thread, q.op, q.id) \in requests'[b]
  <2>0. q = Ask(t, op, id)
    BY <1>3
  <2>1. q.thread = t /\ q.op = op /\ q.id = id
    BY <2>0, AskFields
  <2>2. Request(t, b, op, id) /\ op \in Stats /\ TableTypes
    BY <1>3 DEF Issues, AnswerOps, IInv, DataTypes
  <2>3. Req(t, op, id) \in requests'[b]
    BY <2>2, RequestAdds
  <2>. QED  BY <2>1, <2>3
<1>4. \/ \E j \in 1 .. Len(toAgent[b]) : toAgent'[b][i] = toAgent[b][j]
      \/ \E t \in Threads, id \in Nat, end \in {"client", "server"}, op \in AnswerOps :
           Issues(t, b, end, op, id) /\ toAgent'[b][i] = Ask(t, op, id)
  BY AskFrom
<1>. QED  BY <1>2, <1>3, <1>4

LEMMA RequestTell ==
  ASSUME IInv, RequestInv, [Next]_vars, \A a \in Agents : ~Hear(a),
         NEW b \in Agents, NEW i \in 1 .. Len(toManager'[b]), NEW m, m = toManager'[b][i], IsAnswer(m)
  PROVE  Req(m.thread, m.op, m.id) \in requests'[b]
<1>1. requests[b] \subseteq requests'[b]
  BY RequestsGrow
<1>2. SUFFICES Req(m.thread, m.op, m.id) \in requests[b]
  BY <1>1
<1>3. ASSUME NEW j \in 1 .. Len(toManager[b]), toManager'[b][i] = toManager[b][j]
      PROVE  Req(m.thread, m.op, m.id) \in requests[b]
  <2>1. m = toManager[b][j]
    BY <1>3
  <2>. QED  BY <2>1 DEF RequestInv
<1>4. ASSUME Says(b, m) PROVE Req(m.thread, m.op, m.id) \in requests[b]
  <2>1. CASE Replies(b, m)
    <3>1. PICK r \in Requests : /\ 1 \in 1 .. Len(toAgent[b]) /\ r = toAgent[b][1]
                                /\ m.op = r.op /\ m.id = r.id /\ m.thread = r.thread
      BY <2>1 DEF Replies
    <3>2. Req(r.thread, r.op, r.id) \in requests[b]
      BY <3>1 DEF RequestInv
    <3>. QED  BY <3>1, <3>2
  <2>2. CASE Reports(b, m)
    <3>1. PICK f \in Fds : /\ Report(b, f) \/ EndOfStream(b, f)
                           /\ m.id = f /\ m.thread = fds[b][f].thread
                           /\ Report(b, f) => Busy(b, f) /\ m.op = fds[b][f].busy
                           /\ EndOfStream(b, f) => m.op = "CLOSED"
      BY <2>2 DEF Reports
    <3>2. m.op # "CLOSED"
      BY DEF IsAnswer, AnswerOps, Stats, SocketOps
    <3>3. Busy(b, f) /\ m.op = fds[b][f].busy
      BY <3>1, <3>2
    <3>4. Req(fds[b][f].thread, fds[b][f].busy, f) \in requests[b]
      BY <3>3 DEF RequestInv
    <3>. QED  BY <3>1, <3>3, <3>4
  <2>3. CASE Announces(b, m)
    BY <2>3 DEF Announces, IsAnswer, AnswerOps, Stats, SocketOps
  <2>. QED  BY <1>4, <2>1, <2>2, <2>3 DEF Says
<1>. QED  BY <1>3, <1>4, TellFrom

LEMMA RequestStep ==
  ASSUME IInv, RequestInv, TokenInv, [Next]_vars,
         "stray" \notin incidents', ~Loses'
  PROVE  RequestInv'
<1>1. CASE \E a \in Agents : Hear(a)
  BY <1>1, RequestHear
<1>2. CASE \A a \in Agents : ~Hear(a)
  <2>1. ASSUME NEW b \in Agents, NEW i \in 1 .. Len(toAgent'[b])
        PROVE  Req(toAgent'[b][i].thread, toAgent'[b][i].op, toAgent'[b][i].id) \in requests'[b]
    <3>1. PICK q : q = toAgent'[b][i]
      OBVIOUS
    <3>2. Req(q.thread, q.op, q.id) \in requests'[b]
      BY <1>2, <3>1, RequestAsk
    <3>. QED  BY <3>1, <3>2
  <2>2. ASSUME NEW b \in Agents, NEW i \in 1 .. Len(toManager'[b]), IsAnswer(toManager'[b][i])
        PROVE  Req(toManager'[b][i].thread, toManager'[b][i].op, toManager'[b][i].id) \in requests'[b]
    <3>1. PICK m : m = toManager'[b][i]
      OBVIOUS
    <3>2. IsAnswer(m)
      BY <2>2, <3>1
    <3>3. Req(m.thread, m.op, m.id) \in requests'[b]
      BY <1>2, <3>1, <3>2, RequestTell
    <3>. QED  BY <3>1, <3>3
  <2>3. ASSUME NEW b \in Agents, NEW f \in Fds, Busy(b, f)'
        PROVE  Req(fds'[b][f].thread, fds'[b][f].busy, f) \in requests'[b]
    <3>1. requests[b] \subseteq requests'[b]
      BY <1>2, RequestsGrow
    <3>2. CASE Busy(b, f) /\ fds'[b][f].thread = fds[b][f].thread /\ fds'[b][f].busy = fds[b][f].busy
      <4>1. Req(fds[b][f].thread, fds[b][f].busy, f) \in requests[b]
        BY <3>2 DEF RequestInv
      <4>. QED  BY <3>1, <3>2, <4>1
    <3>3. ASSUME NEW r \in Requests, 1 \in 1 .. Len(toAgent[b]), r = toAgent[b][1], r.id = f,
                 fds'[b][f].thread = r.thread, fds'[b][f].busy = r.op
          PROVE  Req(fds'[b][f].thread, fds'[b][f].busy, f) \in requests'[b]
      <4>1. Req(r.thread, r.op, r.id) \in requests[b]
        BY <3>3 DEF RequestInv
      <4>. QED  BY <3>1, <3>3, <4>1
    <3>. QED  BY <2>3, <3>2, <3>3, BusyFrom
  <2>. QED  BY <2>1, <2>2, <2>3 DEF RequestInv
<1>. QED  BY <1>1, <1>2

----------------------------------------
(* What has gone wrong is not forgotten.                                   *)
LEMMA RequestGrows ==
  ASSUME NEW t, NEW a, NEW stat, NEW id, Request(t, a, stat, id)
  PROVE  incidents \subseteq incidents'
BY Zenon DEF Request

LEMMA AloneGrows ==
  ASSUME NEW t, Alone(t)
  PROVE  incidents \subseteq incidents'
BY Zenon DEF Alone

LEMMA ServeIncidents ==
  ASSUME IInv, NEW a \in Agents, Serve(a)
  PROVE  incidents \subseteq incidents' /\ incidents' \subseteq incidents \union {"stray", "refused"}
<1>1. AgentTypes /\ FdTypes /\ scenario \in Scenarios
  BY DEF IInv, DataTypes, ThreadTypes
<1>2. PICK r \in Requests : Serving(a, r)
  BY ServeRequest
<1>. USE DEF Serving
<1>. QED  BY <1>1, <1>2, NewCases, SocketCases

LEMMA IncidentsGrow ==
  ASSUME IInv, [Next]_vars
  PROVE  incidents \subseteq incidents'
<1>1. AgentTypes /\ FdTypes /\ scenario \in Scenarios
  BY DEF IInv, DataTypes, ThreadTypes
<1>2. ASSUME NEW t \in Threads, Operation(t) PROVE incidents \subseteq incidents'
  <2>1. ASSUME NEW a, NEW id, NEW end \in {"client", "server"}, NEW op \in AnswerOps, Issues(t, a, end, op, id)
        PROVE  incidents \subseteq incidents'
    <3>1. Request(t, a, op, id)
      BY <2>1 DEF Issues
    <3>. QED  BY <3>1, RequestGrows
  <2>2. ASSUME NEW l \in listens, Awaits(t, l) PROVE incidents \subseteq incidents'
    <3>1. Request(t, Server, "ACCEPT", l.id_req)
      BY <2>2 DEF Awaits
    <3>. QED  BY <3>1, RequestGrows
  <2>3. ASSUME NEW c \in accepts, Takes(t, c) PROVE incidents \subseteq incidents'
    BY <2>3 DEF Takes
  <2>. QED  BY <1>2, <2>1, <2>2, <2>3, AloneGrows, OperationCases
<1>3. ASSUME NEW a \in Agents, Hear(a) PROVE incidents \subseteq incidents'
  <2>1. HearSteps(a, toManager[a][1])
    BY <1>1, <1>3, HearCases
  <2>2. PICK m : m = toManager[a][1]
    OBVIOUS
  <2>3. HearSteps(a, m)
    BY <2>1, <2>2
  <2>4. ASSUME NEW r \in requests[Server], Admits(m, r) PROVE incidents \subseteq incidents'
    BY <2>4 DEF Admits
  <2>5. ASSUME NEW r \in requests[a], Settles(a, m, r) PROVE incidents \subseteq incidents'
    BY <2>5 DEF Settles
  <2>6. Keeps(m) \/ Unexpected \/ UNCHANGED <<threads, requests, listens, accepts, incidents>>
          => incidents \subseteq incidents'
    BY DEF Keeps, Unexpected
  <2>. QED  BY <2>3, <2>4, <2>5, <2>6 DEF HearSteps
<1>4. ASSUME NEW f \in Fds, Accept(f) \/ \E a \in Agents : Report(a, f) \/ EndOfStream(a, f)
      PROVE  incidents' = incidents
  BY <1>4 DEF Accept, Report, EndOfStream
<1>. QED  BY <1>2, <1>3, <1>4, ServeIncidents, LocalKeeps, NextIs DEF NextCases

\* A thread goes on when what it waits for is over.
LEMMA GoesOn ==
  ASSUME IInv, [Next]_vars, NEW u \in Threads
  PROVE  /\ Monotone(u)
         /\ InResume(u)' => InResume(u) \/ (stmtPos'[u] = stmtPos[u] /\ step'[u] = step[u] + 1)
<1>. DEFINE Goes == /\ Monotone(u)
                    /\ InResume(u)' => InResume(u) \/ (stmtPos'[u] = stmtPos[u] /\ step'[u] = step[u] + 1)
<1>1. ThreadTypes /\ DataTypes /\ PlaceInv /\ ResumeInv /\ StepInv /\ SyncInv /\ AgentTypes /\ TableTypes
  BY DEF IInv, DataTypes, StateInv, PlaceInv
<1>2. ASSUME NEW t \in Threads, Operation(t)
      PROVE  Monotone(u) /\ (InResume(u)' => InResume(u))
  <2>1. /\ \A v \in Threads : Monotone(v)
        /\ InResume(t) /\ \A v \in Threads \ {t} : Still(v)
    BY <1>1, <1>2, OperationPlaces
  <2>2. CASE u = t
    BY <2>1, <2>2
  <2>3. CASE u # t
    BY <2>1, <2>3 DEF Still
  <2>. QED  BY <2>2, <2>3
<1>3. CASE ThreadRests
  BY <1>1, <1>3, RestPlaces DEF Still
<1>4. ASSUME NEW e \in Events, SyncFires(e)
      PROVE  Goes
  BY <1>1, <1>4, FirePlaces DEF Still
<1>5. ASSUME NEW t \in Threads, DelayEnds(t)
      PROVE  Goes
  BY <1>1, <1>5, DelayPlaces DEF Still
<1>6. ASSUME UNCHANGED threads
      PROVE  Monotone(u) /\ (InResume(u)' => InResume(u))
  <2>1. stmtPos' = stmtPos /\ step' = step /\ resume' = resume
    BY <1>6 DEF threads
  <2>2. stmtPos[u] \in Nat /\ step[u] \in Nat
    BY <1>1 DEF ThreadTypes
  <2>. QED  BY <2>1, <2>2 DEF Monotone, InResume
<1>7. ASSUME NEW a \in Agents, Hear(a)
      PROVE  Goes
  <2>1. HearSteps(a, toManager[a][1]) /\ scenario' = scenario /\ resume = <<>>
    BY <1>1, <1>7, HearCases DEF Hear, Idle
  <2>2. PICK m : m = toManager[a][1]
    OBVIOUS
  <2>3. HearSteps(a, m)
    BY <2>1, <2>2
  <2>4. ASSUME NEW b \in Agents, NEW r \in requests[b], UNCHANGED <<waitfor, fired>>,
               Complete(<<r.thread>>) \/ Fail(r.thread)
        PROVE  Goes
    <3>1. r.thread \in Threads
      BY <1>1, ElementFacts
    <3>2. /\ \A v \in Threads : Monotone(v)
          /\ \A v \in Threads \ {r.thread} : Still(v)
          /\ stmtPos' = stmtPos
          /\ Complete(<<r.thread>>) => step'[r.thread] = step[r.thread] + 1
      BY <1>1, <2>1, <2>4, <3>1, AnsweredPlaces
    <3>3. CASE u # r.thread
      BY <3>2, <3>3 DEF Still
    <3>4. CASE u = r.thread /\ Complete(<<r.thread>>)
      BY <3>2, <3>4
    <3>5. CASE u = r.thread /\ Fail(r.thread)
      <4>1. resume' = resume
        BY <3>5 DEF Fail
      <4>. QED  BY <3>2, <4>1 DEF InResume
    <3>. QED  BY <2>4, <3>3, <3>4, <3>5
  <2>5. ASSUME NEW r \in requests[Server], Admits(m, r)
        PROVE  Goes
    <3>1. UNCHANGED <<waitfor, fired>> /\ Complete(<<r.thread>>) /\ Server \in Agents
      BY <2>5 DEF Admits, Agents
    <3>. QED  BY <2>4, <3>1
  <2>6. ASSUME NEW r \in requests[a], Settles(a, m, r)
        PROVE  Goes
    <3>1. UNCHANGED <<waitfor, fired>> /\ (Complete(<<r.thread>>) \/ Fail(r.thread))
      BY <2>6 DEF Settles
    <3>. QED  BY <2>4, <3>1
  <2>7. CASE Keeps(m) \/ Unexpected \/ UNCHANGED <<threads, requests, listens, accepts, incidents>>
    <3>1. UNCHANGED threads
      BY <2>7 DEF Keeps, Unexpected
    <3>. QED  BY <1>6, <3>1
  <2>. QED  BY <2>3, <2>5, <2>6, <2>7 DEF HearSteps
<1>8. ASSUME \/ \E a \in Agents : Serve(a)
             \/ \E f \in Fds : Accept(f) \/ \E a \in Agents : Report(a, f) \/ EndOfStream(a, f)
      PROVE  Monotone(u) /\ (InResume(u)' => InResume(u))
  <2>1. UNCHANGED threads
    BY <1>8, AgentKeeps
  <2>. QED  BY <1>6, <2>1
<1>9. CASE UNCHANGED vars
  <2>1. UNCHANGED threads
    BY <1>9 DEF vars
  <2>. QED  BY <1>6, <2>1
<1>. QED  BY <1>2, <1>3, <1>4, <1>5, <1>7, <1>8, <1>9, NextIs DEF NextCases

----------------------------------------
(* The servers.  listens_ has an entry for each server that velm has asked *)
(* for and that has not failed; it carries the number of the request.      *)

\* The entry that waits for the answer is the one that was asked for.
LEMMA PendingIs ==
  ASSUME IInv, AskedInv, NEW r \in requests[Server], r.stat = "LISTEN",
         NEW l, l = Asked(r.id, Conn(r.thread).port)
  PROVE  Pending(r.thread) = {l} /\ l \in listens
<1>1. l \in listens
  BY DEF AskedInv
<1>2. l.port = Conn(r.thread).port /\ l.stat = "REQ_LISTEN"
  BY DEF Asked
<1>3. \A k \in listens : k.port = l.port => k = l
  BY <1>1 DEF IInv, StateInv, KeyInv
<1>. QED  BY <1>1, <1>2, <1>3 DEF Pending

LEMMA SettlesServer ==
  ASSUME IInv, AskedInv, NEW a \in Agents, Hear(a), NEW m, m = toManager[a][1], NEW r \in requests[a],
         Settles(a, m, r)
  PROVE  \/ listens' = listens
         \/ a = Server /\ \E l \in listens : HearsOf(r, m, l)
<1>1. CASE m.op # "LISTEN"
  BY <1>1 DEF Settles, SettlesListens, Pending
<1>2. CASE m.op = "LISTEN"
  <2>1. r.id = m.id /\ r.stat = "LISTEN" /\ SettlesListens(m, r)
    BY <1>2 DEF Settles
  <2>2. a = Server
    <3>1. WaitsAt(r.thread, a, "LISTEN") /\ r.thread \in Threads /\ ThreadTypes
      BY <2>1, ElementFacts DEF IInv, StateInv, PlaceInv, PendingInv, DataTypes
    <3>. QED  BY <3>1, WaitsAtFacts
  <2>3. PICK l : l = Asked(m.id, Conn(r.thread).port)
    OBVIOUS
  <2>4. Pending(r.thread) = {l} /\ l \in listens
    BY <2>1, <2>2, <2>3, PendingIs
  <2>5. r.thread \in Threads /\ Conn(r.thread).protocol \in {"tcp", "udp"}
    BY ElementFacts, ScenarioFacts DEF IInv, DataTypes, ThreadTypes
  <2>6. l.id_req = m.id /\ l = [port |-> l.port, stat |-> l.stat, id_req |-> l.id_req]
    BY <2>3 DEF Asked
  <2>7. CASE ~m.ok
    <3>1. listens' = listens \ {l}
      BY <1>2, <2>1, <2>4, <2>7 DEF SettlesListens
    <3>. QED  BY <1>2, <2>1, <2>2, <2>3, <2>4, <2>7, <3>1 DEF HearsOf
  <2>8. CASE m.ok
    <3>1. listens' = IF Conn(r.thread).protocol = "tcp"
                     THEN (listens \ {l}) \union {[l EXCEPT !.stat = "LISTEN", !.id_req = m.id]}
                     ELSE listens \ {l}
      BY <1>2, <2>1, <2>4, <2>8 DEF SettlesListens
    <3>2. [l EXCEPT !.stat = "LISTEN", !.id_req = m.id] = [l EXCEPT !.stat = "LISTEN"]
      BY <2>6
    <3>3. CASE Conn(r.thread).protocol = "tcp"
      <4>1. listens' = (listens \ {l}) \union {[l EXCEPT !.stat = "LISTEN"]}
        BY <3>1, <3>2, <3>3
      <4>. QED  BY <1>2, <2>1, <2>2, <2>3, <2>4, <4>1 DEF HearsOf
    <3>4. CASE Conn(r.thread).protocol # "tcp"
      <4>1. listens' = listens \ {l} /\ Conn(r.thread).protocol = "udp"
        BY <2>5, <3>1, <3>4
      <4>. QED  BY <1>2, <2>1, <2>2, <2>3, <2>4, <4>1 DEF HearsOf
    <3>. QED  BY <3>3, <3>4
  <2>. QED  BY <2>7, <2>8
<1>. QED  BY <1>1, <1>2

LEMMA ListensStep ==
  ASSUME IInv, AskedInv, [Next]_vars
  PROVE  \/ listens' = listens
         \/ \E t \in Threads, n \in Nat : AddsEntry(t, n)
         \/ \E r \in requests[Server], m \in Messages, l \in listens : HearsOf(r, m, l)
<1>1. ThreadTypes /\ DataTypes /\ AgentTypes
  BY DEF IInv, DataTypes
<1>2. ASSUME NEW t \in Threads, Operation(t)
      PROVE  listens' = listens \/ \E n \in Nat : AddsEntry(t, n)
  <2>1. ASSUME NEW a, NEW id, NEW end \in {"client", "server"}, NEW op \in AnswerOps, Issues(t, a, end, op, id)
        PROVE  listens' = listens \/ \E n \in Nat : AddsEntry(t, n)
    <3>1. id \in Nat
      BY <1>1, <2>1, IssueTypes
    <3>2. CASE op # "LISTEN"
      BY <2>1, <3>2 DEF Issues, NewOps
    <3>3. CASE op = "LISTEN"
      <4>1. a = Server
        <5>1. At(t, <<end, "LISTEN">>) /\ a = AgentAt(end, t)
          BY <2>1, <3>3 DEF Issues
        <5>2. Current(t).kind \in Kinds /\ step[t] \in Nat \ {0} /\ step[t] <= Len(Ops(t))
              /\ Ops(t)[step[t]] = <<end, "LISTEN">>
          BY <1>1, <5>1, AtFacts
        <5>3. end = "server"
          BY <5>2, StepFacts DEF Ops
        <5>. QED  BY <5>1, <5>3 DEF AgentAt
      <4>2. /\ ~(Conn(t).protocol = "tcp" /\ Listening(Conn(t).port))
            /\ listens' = IF Listening(Conn(t).port) THEN listens
                          ELSE listens \union {[port |-> Conn(t).port, stat |-> "REQ_LISTEN",
                                                id_req |-> id]}
        BY <2>1, <3>3 DEF Issues, SocketOps
      <4>. QED  BY <2>1, <3>1, <3>3, <4>1, <4>2 DEF AddsEntry, Asked
    <3>. QED  BY <3>2, <3>3
  <2>2. ASSUME NEW l \in listens, Awaits(t, l) PROVE listens' = listens
    BY <2>2 DEF Awaits
  <2>3. ASSUME NEW c \in accepts, Takes(t, c) PROVE listens' = listens
    BY <2>3 DEF Takes
  <2>4. ASSUME Alone(t) PROVE listens' = listens
    BY <2>4 DEF Alone, tables
  <2>. QED  BY <1>2, <2>1, <2>2, <2>3, <2>4, OperationCases
<1>3. ASSUME NEW a \in Agents, Hear(a)
      PROVE  \/ listens' = listens
             \/ \E r \in requests[Server], m \in Messages, l \in listens : HearsOf(r, m, l)
  <2>1. HearSteps(a, toManager[a][1]) /\ toManager[a][1] \in Messages
    BY <1>1, <1>3, HearCases, HearFacts
  <2>2. PICK m \in Messages : m = toManager[a][1]
    BY <2>1
  <2>3. HearSteps(a, m)
    BY <2>1, <2>2
  <2>4. ASSUME NEW r \in requests[a], Settles(a, m, r)
        PROVE  \/ listens' = listens
               \/ a = Server /\ \E l \in listens : HearsOf(r, m, l)
    BY <1>3, <2>2, <2>4, SettlesServer
  <2>5. ASSUME NEW r \in requests[Server], Admits(m, r) PROVE listens' = listens
    BY <2>5 DEF Admits
  <2>6. Keeps(m) \/ Unexpected \/ UNCHANGED <<threads, requests, listens, accepts, incidents>>
          => listens' = listens
    BY DEF Keeps, Unexpected, tables
  <2>. QED  BY <2>3, <2>4, <2>5, <2>6 DEF HearSteps
<1>. QED  BY <1>2, <1>3, LocalKeeps, AgentKeeps, NextIs DEF NextCases

LEMMA SameConn ==
  ASSUME scenario' = scenario
  PROVE  \A t : Conn(t)' = Conn(t)
BY DEF Conn

\* An entry goes when its server fails, or is one of UDP.
LEMMA EntryGoes ==
  ASSUME IInv, AskedInv, [Next]_vars, NEW n, NEW p, Entry(n, p), ~Entry(n, p)'
  PROVE  \E r \in requests[Server], m \in Messages :
           /\ 1 \in 1 .. Len(toManager[Server]) /\ m = toManager[Server][1] /\ m.op = "LISTEN"
           /\ n = m.id /\ p = Conn(r.thread).port /\ r.thread \in Threads
           /\ ~m.ok \/ Conn(r.thread).protocol = "udp"
           /\ ~m.ok => incidents' # {}
<1>1. AgentTypes /\ TableTypes /\ Server \in Agents
  BY DEF IInv, DataTypes, Agents
<1>2. PICK k \in listens : k.port = p /\ k.id_req = n
  BY DEF Entry
<1>3. k \notin listens'
  BY <1>2 DEF Entry
<1>4. PICK r \in requests[Server], m \in Messages, l \in listens : HearsOf(r, m, l)
  BY <1>3, ListensStep DEF AddsEntry
<1>5. l = k
  BY <1>3, <1>4 DEF HearsOf
<1>6. l.port = Conn(r.thread).port /\ l.id_req = m.id
  BY <1>4 DEF HearsOf, Asked
<1>7. listens' = listens \ {l} /\ (~m.ok \/ Conn(r.thread).protocol = "udp")
  <2>1. CASE listens' = (listens \ {l}) \union {[l EXCEPT !.stat = "LISTEN"]}
    <3>1. PICK e : e = [l EXCEPT !.stat = "LISTEN"]
      OBVIOUS
    <3>2. l \in [port : Ports, stat : {"REQ_LISTEN", "LISTEN"}, id_req : Nat]
      BY <1>1 DEF TableTypes
    <3>3. e.port = p /\ e.id_req = n /\ e \in listens'
      BY <1>2, <1>5, <2>1, <3>1, <3>2
    <3>. QED  BY <3>3 DEF Entry
  <2>. QED  BY <1>4, <2>1 DEF HearsOf
<1>8. Hear(Server) /\ m = toManager[Server][1] /\ m.op = "LISTEN"
  BY <1>4 DEF HearsOf
<1>9. 1 \in 1 .. Len(toManager[Server]) /\ r.thread \in Threads
  BY <1>1, <1>8, HearFacts, ElementFacts
<1>10. ~m.ok => incidents' # {}
  <2>1. incidents \union {"failed"} # {}
    OBVIOUS
  <2>. QED  BY <1>4, <1>8, <2>1 DEF HearsOf, Settles
<1>. QED  BY <1>2, <1>5, <1>6, <1>7, <1>8, <1>9, <1>10

\* What velm waits for goes with its request.
LEMMA AskedGoes ==
  ASSUME IInv, AskedInv, [Next]_vars, NEW n, NEW p, Asked(n, p) \in listens, Asked(n, p) \notin listens'
  PROVE  \E r \in requests[Server] : r.stat = "LISTEN" /\ r.id = n /\ r \notin requests'[Server]
<1>1. TableTypes /\ Server \in Agents
  BY DEF IInv, DataTypes, Agents
<1>2. PICK k \in listens : k = Asked(n, p) /\ k.id_req = n
  BY DEF Asked
<1>3. PICK r \in requests[Server], m \in Messages, l \in listens : HearsOf(r, m, l)
  BY <1>2, ListensStep DEF AddsEntry
<1>4. l = k
  BY <1>2, <1>3 DEF HearsOf
<1>5. l.id_req = m.id
  BY <1>3 DEF HearsOf, Asked
<1>6. r.stat = "LISTEN" /\ r.id = m.id /\ requests' = [requests EXCEPT ![Server] = requests[Server] \ {r}]
  BY <1>3 DEF HearsOf, Settles
<1>7. r \notin requests'[Server]
  BY <1>1, <1>6 DEF TableTypes
<1>. QED  BY <1>2, <1>4, <1>5, <1>6, <1>7

\* No two threads have the same server, if one of them uses UDP.
LEMMA OwnServer ==
  ASSUME ~SharedUdp, NEW t \in Threads, NEW u \in Threads, Conn(t).port = Conn(u).port,
         Conn(t).protocol = "udp"
  PROVE  t = u
BY DEF SharedUdp

LEMMA AskedStep ==
  ASSUME IInv, AskedInv, EntryInv, ~SharedUdp, [Next]_vars
  PROVE  AskedInv'
<1>1. ThreadTypes /\ TableTypes /\ KeyInv /\ Server \in Agents
  BY DEF IInv, DataTypes, StateInv, Agents
<1>2. scenario' = scenario
  BY ScenarioStays
<1>3. ASSUME NEW r \in requests'[Server], r.stat = "LISTEN", NEW p, p = Conn(r.thread).port
      PROVE  Asked(r.id, p) \in listens'
  <2>1. CASE r \in requests[Server]
    <3>1. Asked(r.id, p) \in listens
      BY <1>3, <2>1 DEF AskedInv
    <3>2. SUFFICES ASSUME Asked(r.id, p) \notin listens' PROVE FALSE
      OBVIOUS
    <3>3. PICK q \in requests[Server] : q.stat = "LISTEN" /\ q.id = r.id /\ q \notin requests'[Server]
      BY <3>1, <3>2, AskedGoes
    <3>4. q = r
      BY <1>1, <1>3, <2>1, <3>3 DEF KeyInv
    <3>. QED  BY <3>3, <3>4
  <2>2. ASSUME NEW t \in Threads, NEW id \in Nat, NEW end \in {"client", "server"}, NEW op \in AnswerOps,
               Issues(t, Server, end, op, id), r = Req(t, op, id)
        PROVE  Asked(r.id, p) \in listens'
    <3>1. r.thread = t /\ r.id = id /\ op = "LISTEN"
      BY <1>3, <2>2, ReqFacts
    <3>2. /\ ~(Conn(t).protocol = "tcp" /\ Listening(Conn(t).port))
          /\ listens' = IF Listening(Conn(t).port) THEN listens
                        ELSE listens \union {[port |-> Conn(t).port, stat |-> "REQ_LISTEN",
                                              id_req |-> id]}
      BY <2>2, <3>1 DEF Issues, SocketOps
    <3>3. ~Listening(Conn(t).port)
      <4>1. SUFFICES ASSUME NEW l \in listens, l.port = Conn(t).port PROVE FALSE
        BY DEF Listening
      <4>2. PICK u \in Threads : Conn(u).port = l.port /\ Come(u)
        BY DEF EntryInv
      <4>3. Conn(t).protocol = "udp"
        <5>1. Conn(t).protocol \in {"tcp", "udp"}
          BY <1>1, ScenarioFacts DEF ThreadTypes
        <5>. QED  BY <3>2, <4>1, <5>1 DEF Listening
      <4>4. t = u
        BY <4>1, <4>2, <4>3, OwnServer
      <4>5. At(t, <<end, "LISTEN">>)
        BY <2>2, <3>1 DEF Issues
      <4>6. /\ InResume(t) /\ Stands(t) /\ Current(t).kind \in Kinds /\ step[t] \in Nat \ {0}
            /\ step[t] <= Len(Ops(t)) /\ Ops(t)[step[t]] = <<end, "LISTEN">>
        BY <1>1, <4>5, AtFacts
      <4>7. Current(t).kind = "connect" /\ step[t] = 2
        BY <4>6, StepFacts DEF Ops
      <4>8. ~Past(t, 2)
        BY <1>1, <4>6, <4>7, PastAt
      <4>. QED  BY <4>2, <4>4, <4>6, <4>8 DEF Come
    <3>. QED  BY <1>3, <3>1, <3>2, <3>3 DEF Asked
  <2>3. ASSUME NEW t \in Threads, NEW l \in listens, r = Req(t, "ACCEPT", l.id_req) PROVE FALSE
    BY <1>3, <2>3, ReqFacts
  <2>. QED  BY <1>1, <2>1, <2>2, <2>3, RequestFrom
<1>4. ASSUME NEW r \in requests'[Server], r.stat = "LISTEN"
      PROVE  Asked(r.id, Conn(r.thread).port)' \in listens'
  <2>1. PICK p : p = Conn(r.thread).port
    OBVIOUS
  <2>2. Asked(r.id, p) \in listens'
    BY <1>3, <1>4, <2>1
  <2>3. Conn(r.thread)' = Conn(r.thread)
    BY <1>2, SameConn
  <2>. QED  BY <2>1, <2>2, <2>3 DEF Asked
<1>. QED  BY <1>4 DEF AskedInv

LEMMA EntryPort ==
  ASSUME scenario' = scenario, NEW n, NEW t, NEW p, p = Conn(t).port, Entry(n, p)'
  PROVE  Entry(n, Conn(t).port)'
<1>1. Conn(t)' = Conn(t)
  BY SameConn
<1>. QED  BY <1>1 DEF Entry

\* The entry of a server, or of a connection to it, that runs over TCP stays
\* unless the server has failed.
LEMMA EntryStays ==
  ASSUME IInv, AskedInv, FailedInv, ~SharedUdp, [Next]_vars, NEW n, NEW t \in Threads,
         Conn(t).protocol = "tcp", Entry(n, Conn(t).port), ~NoSuch(n)
  PROVE  Entry(n, Conn(t).port)'
<1>1. PICK p : p = Conn(t).port
  OBVIOUS
<1>2. Entry(n, p)
  BY <1>1
<1>3. Entry(n, p)'
  <2>1. SUFFICES ASSUME ~Entry(n, p)' PROVE FALSE
    OBVIOUS
  <2>2. PICK r \in requests[Server], m \in Messages :
           /\ 1 \in 1 .. Len(toManager[Server]) /\ m = toManager[Server][1] /\ m.op = "LISTEN"
           /\ n = m.id /\ p = Conn(r.thread).port /\ r.thread \in Threads
           /\ ~m.ok \/ Conn(r.thread).protocol = "udp"
    BY <1>2, <2>1, EntryGoes
  <2>3. m.ok
    BY <2>2 DEF FailedInv
  <2>4. r.thread = t
    BY <1>1, <2>2, <2>3, OwnServer
  <2>. QED  BY <2>2, <2>3, <2>4
<1>. QED  BY <1>1, <1>3, EntryPort, ScenarioStays

\* A server comes with its request.
LEMMA CreatesServer ==
  ASSUME IInv, RequestInv, AskedInv, NEW r \in Requests, Serve(Server), 1 \in 1 .. Len(toAgent[Server]),
         r = toAgent[Server][1], NEW f \in Fds, NEW k \in {"tcp", "udp", "listen"},
         Creates(Server, r, f, k), NEW n, Serves(f, n)'
  PROVE  r.op = "LISTEN" /\ n = r.id /\ fds'[Server][f].thread = r.thread /\ Entry(n, Conn(r.thread).port)'
<1>1. AgentTypes /\ Server \in Agents /\ scenario \in Scenarios
  BY DEF IInv, DataTypes, ThreadTypes, Agents
<1>2. r.thread \in Threads /\ r.id \in Nat
  BY DEF Requests
<1>3. PICK s : s = Socket(k, r.thread, r.id)
  OBVIOUS
<1>4. s \in SocketType /\ s.kind = k /\ s.thread = r.thread /\ s.id_req = r.id
  BY <1>2, <1>3 DEF Socket, SocketType
<1>5. fds' = [fds EXCEPT ![Server][f] = s]
  BY <1>3 DEF Creates
<1>6. fds'[Server][f] = s
  BY <1>1, <1>4, <1>5, PutFacts
<1>7. k = "listen" /\ n = r.id
  BY <1>4, <1>6 DEF Serves
<1>8. Conn(r.thread).protocol \in {"tcp", "udp"}
  BY <1>1, <1>2, ScenarioFacts
<1>9. r.op = "LISTEN"
  BY <1>7, <1>8 DEF Creates
<1>10. PICK q : q = Req(r.thread, "LISTEN", r.id)
  OBVIOUS
<1>11. q \in requests[Server] /\ q.stat = "LISTEN" /\ q.thread = r.thread /\ q.id = r.id
  BY <1>1, <1>9, <1>10, ReqFacts DEF RequestInv
<1>12. Asked(r.id, Conn(r.thread).port) \in listens
  BY <1>11 DEF AskedInv
<1>13. PICK p : p = Conn(r.thread).port
  OBVIOUS
<1>14. listens' = listens /\ scenario' = scenario
  BY <1>1, AgentKeeps
<1>15. Entry(n, p)'
  BY <1>7, <1>12, <1>13, <1>14 DEF Entry, Asked
<1>. QED  BY <1>4, <1>6, <1>7, <1>9, <1>13, <1>14, <1>15, EntryPort

LEMMA AcceptsTcp ==
  ASSUME IInv, NEW g \in Fds, Accept(g), NEW f \in Fds, Accepts(g, f)
  PROVE  fds'[Server][f].kind = "tcp"
<1>1. AgentTypes /\ Server \in Agents /\ scenario \in Scenarios
  BY DEF IInv, DataTypes, ThreadTypes, Agents
<1>2. PICK t \in Threads : t = FirstAt(PortOf(g))
  BY <1>1, AcceptFacts
<1>3. PICK s : s = Socket("tcp", t, 0)
  OBVIOUS
<1>4. s \in SocketType /\ s.kind = "tcp"
  BY <1>3 DEF Socket, SocketType
<1>5. fds' = [fds EXCEPT ![Server][f] = s]
  BY <1>2, <1>3 DEF Accepts
<1>6. fds'[Server][f] = s
  BY <1>1, <1>4, <1>5, PutFacts
<1>. QED  BY <1>4, <1>6

LEMMA ServerStep ==
  ASSUME IInv, RequestInv, AskedInv, ServerInv, FailedInv, KindInv, ~SharedUdp, [Next]_vars
  PROVE  ServerInv'
<1>1. AgentTypes /\ Server \in Agents /\ scenario \in Scenarios
  BY DEF IInv, DataTypes, ThreadTypes, Agents
<1>2. ASSUME NEW f \in Fds, NEW n, Serves(f, n)', NEW t, t = fds'[Server][f].thread
      PROVE  Entry(n, Conn(t).port)'
  <2>1. fds'[Server][f] # FreeFd /\ fds'[Server][f].kind = "listen" /\ fds'[Server][f].id_req = n
    BY <1>2 DEF Serves
  <2>2. CASE SameSocket(Server, f)
    <3>1. Serves(f, n) /\ t = fds[Server][f].thread
      BY <1>2, <2>1, <2>2 DEF SameSocket, Serves
    <3>2. Entry(n, Conn(t).port) /\ ~NoSuch(n)
      BY <3>1 DEF ServerInv, NoSuch
    <3>3. t \in Threads
      BY <1>1, <3>1, SocketFacts DEF Serves
    <3>4. Conn(t).protocol = "tcp"
      BY <1>1, <3>1 DEF KindInv, KindOf, Serves
    <3>. QED  BY <3>2, <3>3, <3>4, EntryStays
  <2>3. CASE Created(Server, f)
    <3>1. PICK r \in Requests : /\ Serve(Server) /\ 1 \in 1 .. Len(toAgent[Server]) /\ r = toAgent[Server][1]
                                /\ \E k \in {"tcp", "udp", "listen"} : Creates(Server, r, f, k)
      BY <2>3 DEF Created
    <3>2. t = r.thread /\ Entry(n, Conn(r.thread).port)'
      BY <1>2, <3>1, CreatesServer
    <3>. QED  BY <3>2
  <2>4. CASE Accepted(Server, f)
    <3>1. fds'[Server][f].kind = "tcp"
      BY <2>4, AcceptsTcp DEF Accepted
    <3>. QED  BY <2>1, <3>1
  <2>. QED  BY <1>1, <2>1, <2>2, <2>3, <2>4, SocketSteps
<1>3. ASSUME NEW f \in Fds, NEW n, Serves(f, n)'
      PROVE  Entry(n, Conn(fds[Server][f].thread).port)'
  <2>1. PICK t : t = fds'[Server][f].thread
    OBVIOUS
  <2>2. Entry(n, Conn(t).port)'
    BY <1>2, <1>3, <2>1
  <2>. QED  BY <2>1, <2>2
<1>. QED  BY <1>3 DEF ServerInv

LEMMA AnnouncedStep ==
  ASSUME IInv, AskedInv, ServerInv, AnnouncedInv, FailedInv, ConnectionInv, KindInv, ~SharedUdp, [Next]_vars
  PROVE  AnnouncedInv'
<1>1. AgentTypes /\ Server \in Agents /\ scenario \in Scenarios
  BY DEF IInv, DataTypes, ThreadTypes, Agents
<1>2. ASSUME NEW i \in 1 .. Len(toManager'[Server]), NEW n, Announced(i, n)',
             NEW t, t = toManager'[Server][i].thread
      PROVE  Entry(n, Conn(t).port)'
  <2>1. PICK q : q = toManager'[Server][i]
    OBVIOUS
  <2>2. q.op = "ACCEPTED" /\ q.id = n /\ q.thread = t
    BY <1>2, <2>1 DEF Announced
  <2>3. ASSUME NEW j \in 1 .. Len(toManager[Server]), toManager'[Server][i] = toManager[Server][j]
        PROVE  Entry(n, Conn(t).port)'
    <3>1. q = toManager[Server][j]
      BY <2>1, <2>3
    <3>2. Announced(j, n)
      BY <2>2, <3>1 DEF Announced
    <3>3. Entry(n, Conn(t).port) /\ ~NoSuch(n)
      BY <2>2, <3>1, <3>2 DEF AnnouncedInv, NoSuch
    <3>4. t \in Threads
      BY <1>1, <2>2, <3>1, TokenThreads
    <3>5. Reported(t)
      BY <2>2, <3>1 DEF Reported
    <3>6. Conn(t).protocol = "tcp"
      BY <3>4, <3>5 DEF ConnectionInv, CallInv, Connecting
    <3>. QED  BY <3>3, <3>4, <3>6, EntryStays
  <2>4. ASSUME NEW m \in Messages, toManager'[Server][i] = m, Says(Server, m)
        PROVE  Entry(n, Conn(t).port)'
    <3>1. m = q
      BY <2>1, <2>4
    <3>2. CASE Replies(Server, m)
      BY <2>2, <3>1, <3>2 DEF Replies, Requests, AnswerOps, Stats, SocketOps
    <3>3. CASE Reports(Server, m)
      <4>1. PICK f \in Fds : /\ Report(Server, f) => Busy(Server, f) /\ m.op = fds[Server][f].busy
                             /\ Report(Server, f) \/ m.op = "CLOSED"
        BY <3>3 DEF Reports
      <4>2. Report(Server, f)
        BY <2>2, <3>1, <4>1
      <4>. QED  BY <1>1, <2>2, <3>1, <4>1, <4>2, TokenThreads
    <3>4. CASE Announces(Server, m)
      <4>1. PICK f \in Fds : /\ Accept(f) /\ m.id = fds[Server][f].id_req
                             /\ m.thread = FirstAt(PortOf(f))
        BY <3>4 DEF Announces
      <4>2. /\ fds[Server][f] # FreeFd /\ fds[Server][f].kind = "listen"
            /\ PortOf(f) \in Ports /\ 1 \in 1 .. Len(backlog[PortOf(f)])
        BY <1>1, <4>1, AcceptFacts
      <4>3. Serves(f, n)
        BY <2>2, <3>1, <4>1, <4>2 DEF Serves
      <4>4. Entry(n, PortOf(f))
        BY <4>3 DEF ServerInv, PortOf
      <4>5. Conn(t).port = PortOf(f)
        BY <2>2, <3>1, <4>1, <4>2 DEF ConnectionInv, BacklogInv, FirstAt
      <4>6. PICK p : p = PortOf(f)
        OBVIOUS
      <4>7. listens' = listens /\ scenario' = scenario
        BY <4>1, AgentKeeps
      <4>8. Entry(n, p)'
        BY <4>4, <4>6, <4>7 DEF Entry
      <4>. QED  BY <4>5, <4>6, <4>7, <4>8, EntryPort
    <3>. QED  BY <2>4, <3>2, <3>3, <3>4 DEF Says
  <2>. QED  BY <1>1, <2>3, <2>4, TellFrom
<1>3. ASSUME NEW i \in 1 .. Len(toManager'[Server]), NEW n, Announced(i, n)'
      PROVE  Entry(n, Conn(toManager[Server][i].thread).port)'
  <2>1. PICK t : t = toManager'[Server][i].thread
    OBVIOUS
  <2>2. Entry(n, Conn(t).port)'
    BY <1>2, <1>3, <2>1
  <2>. QED  BY <2>1, <2>2
<1>. QED  BY <1>3 DEF AnnouncedInv

\* A number gets a server when its request is served.
LEMMA NoSuchGoes ==
  ASSUME IInv, [Next]_vars, NEW n, NoSuch(n), ~NoSuch(n)'
  PROVE  \E r \in Requests, f \in Fds, k \in {"tcp", "udp", "listen"} :
           /\ Serve(Server) /\ 1 \in 1 .. Len(toAgent[Server]) /\ r = toAgent[Server][1]
           /\ r.op = "LISTEN" /\ r.id = n /\ Creates(Server, r, f, k)
<1>1. AgentTypes /\ Server \in Agents /\ scenario \in Scenarios
  BY DEF IInv, DataTypes, ThreadTypes, Agents
<1>2. ASSUME NEW f \in Fds, Serves(f, n)'
      PROVE  \E r \in Requests, g \in Fds, k \in {"tcp", "udp", "listen"} :
               /\ Serve(Server) /\ 1 \in 1 .. Len(toAgent[Server]) /\ r = toAgent[Server][1]
               /\ r.op = "LISTEN" /\ r.id = n /\ Creates(Server, r, g, k)
  <2>1. fds'[Server][f] # FreeFd /\ fds'[Server][f].kind = "listen" /\ fds'[Server][f].id_req = n
    BY <1>2 DEF Serves
  <2>2. ~SameSocket(Server, f)
    BY <2>1 DEF SameSocket, Serves, NoSuch
  <2>3. ~Accepted(Server, f)
    BY <2>1, AcceptsTcp DEF Accepted
  <2>4. PICK r \in Requests, k \in {"tcp", "udp", "listen"} :
          /\ Serve(Server) /\ 1 \in 1 .. Len(toAgent[Server]) /\ r = toAgent[Server][1]
          /\ Creates(Server, r, f, k)
    BY <1>1, <2>1, <2>2, <2>3, SocketSteps DEF Created
  <2>5. PICK s : s = Socket(k, r.thread, r.id)
    OBVIOUS
  <2>6. s \in SocketType /\ s.kind = k /\ s.id_req = r.id
    BY <2>5 DEF Socket, SocketType, Requests
  <2>7. fds' = [fds EXCEPT ![Server][f] = s]
    BY <2>4, <2>5 DEF Creates
  <2>8. fds'[Server][f] = s
    BY <1>1, <2>6, <2>7, PutFacts
  <2>9. k = "listen" /\ r.id = n
    BY <2>1, <2>6, <2>8
  <2>10. Conn(r.thread).protocol \in {"tcp", "udp"}
    BY <1>1, ScenarioFacts DEF Requests
  <2>11. r.op = "LISTEN"
    BY <2>4, <2>9, <2>10 DEF Creates
  <2>. QED  BY <2>4, <2>9, <2>11
<1>3. ASSUME NEW i \in 1 .. Len(toManager'[Server]), Announced(i, n)'
      PROVE  FALSE
  <2>1. PICK q : q = toManager'[Server][i]
    OBVIOUS
  <2>2. q.op = "ACCEPTED" /\ q.id = n
    BY <1>3, <2>1 DEF Announced
  <2>3. ASSUME NEW j \in 1 .. Len(toManager[Server]), toManager'[Server][i] = toManager[Server][j]
        PROVE  FALSE
    <3>1. Announced(j, n)
      BY <2>1, <2>2, <2>3 DEF Announced
    <3>. QED  BY <3>1 DEF NoSuch
  <2>4. ASSUME NEW m \in Messages, toManager'[Server][i] = m, Says(Server, m)
        PROVE  FALSE
    <3>1. m = q
      BY <2>1, <2>4
    <3>2. CASE Replies(Server, m)
      BY <2>2, <3>1, <3>2 DEF Replies, Requests, AnswerOps, Stats, SocketOps
    <3>3. CASE Reports(Server, m)
      <4>1. PICK f \in Fds : /\ Report(Server, f) => Busy(Server, f) /\ m.op = fds[Server][f].busy
                             /\ Report(Server, f) \/ m.op = "CLOSED"
        BY <3>3 DEF Reports
      <4>2. Report(Server, f)
        BY <2>2, <3>1, <4>1
      <4>. QED  BY <1>1, <2>2, <3>1, <4>1, <4>2, TokenThreads
    <3>4. CASE Announces(Server, m)
      <4>1. PICK f \in Fds : Accept(f) /\ m.id = fds[Server][f].id_req
        BY <3>4 DEF Announces
      <4>2. fds[Server][f] # FreeFd /\ fds[Server][f].kind = "listen"
        BY <1>1, <4>1, AcceptFacts
      <4>3. Serves(f, n)
        BY <2>2, <3>1, <4>1, <4>2 DEF Serves
      <4>. QED  BY <4>3 DEF NoSuch
    <3>. QED  BY <2>4, <3>2, <3>3, <3>4 DEF Says
  <2>. QED  BY <1>1, <2>3, <2>4, TellFrom
<1>4. (\E f \in Fds : Serves(f, n)') \/ (\E i \in 1 .. Len(toManager'[Server]) : Announced(i, n)')
  BY DEF NoSuch
<1>. QED  BY <1>2, <1>3, <1>4

\* The next number is new to the servers.
LEMMA NewNumber ==
  ASSUME IInv, ServerInv, AnnouncedInv, EntryInv
  PROVE  NoSuch(requestNo)
<1>1. ASSUME NEW p, Entry(requestNo, p) PROVE FALSE
  <2>1. PICK l \in listens : l.id_req = requestNo
    BY <1>1 DEF Entry
  <2>2. requestNo < requestNo /\ requestNo \in Nat
    BY <2>1 DEF EntryInv, IInv, DataTypes, TableTypes
  <2>. QED  BY <2>2
<1>2. ASSUME NEW f \in Fds, Serves(f, requestNo) PROVE FALSE
  BY <1>1, <1>2 DEF ServerInv
<1>3. ASSUME NEW i \in 1 .. Len(toManager[Server]), Announced(i, requestNo) PROVE FALSE
  BY <1>1, <1>3 DEF AnnouncedInv
<1>. QED  BY <1>2, <1>3 DEF NoSuch

LEMMA FailedAsk ==
  ASSUME IInv, NumberInv, TokenInv, ServerInv, AnnouncedInv, EntryInv, FailedInv, [Next]_vars,
         NEW i \in 1 .. Len(toAgent'[Server]), NEW q, q = toAgent'[Server][i], q.op = "LISTEN",
         NEW n, n = q.id
  PROVE  NoSuch(n)'
<1>1. AgentTypes /\ Server \in Agents
  BY DEF IInv, DataTypes, Agents
<1>2. NoSuch(n)
  <2>1. ASSUME NEW j \in 1 .. Len(toAgent[Server]), toAgent'[Server][i] = toAgent[Server][j]
        PROVE  NoSuch(n)
    BY <2>1 DEF FailedInv
  <2>2. ASSUME NEW t \in Threads, NEW id \in Nat, NEW end \in {"client", "server"}, NEW op \in AnswerOps,
               Issues(t, Server, end, op, id), toAgent'[Server][i] = Ask(t, op, id)
        PROVE  NoSuch(n)
    <3>1. q = Ask(t, op, id)
      BY <2>2
    <3>2. op = "LISTEN" /\ n = id
      BY <3>1, AskFields
    <3>3. n = requestNo
      BY <2>2, <3>2 DEF Issues, SocketOps
    <3>. QED  BY <3>3, NewNumber
  <2>3. \/ \E j \in 1 .. Len(toAgent[Server]) : toAgent'[Server][i] = toAgent[Server][j]
        \/ \E t \in Threads, id \in Nat, end \in {"client", "server"}, op \in AnswerOps :
             Issues(t, Server, end, op, id) /\ toAgent'[Server][i] = Ask(t, op, id)
    BY <1>1, AskFrom
  <2>. QED  BY <2>1, <2>2, <2>3
<1>3. SUFFICES ASSUME ~NoSuch(n)' PROVE FALSE
  OBVIOUS
<1>4. PICK r \in Requests : /\ Serve(Server) /\ 1 \in 1 .. Len(toAgent[Server]) /\ r = toAgent[Server][1]
                            /\ r.op = "LISTEN" /\ r.id = n
  BY <1>2, <1>3, NoSuchGoes
<1>5. q = toAgent[Server][i + 1] /\ i + 1 \in 1 .. Len(toAgent[Server])
  BY <1>1, <1>4, ServeFacts
<1>6. n \in Nat
  BY <1>4 DEF Requests
<1>7. Numbered(Server, n, r.thread) /\ Numbered(Server, n, q.thread)
  BY <1>4, <1>5 DEF Numbered, NewOps
<1>8. q.thread = r.thread
  BY <1>1, <1>6, <1>7 DEF NumberInv
<1>9. i + 1 = 1
  BY <1>1, <1>4, <1>5, <1>8 DEF TokenInv, TokenAt, AskInv
<1>. QED  BY <1>9

LEMMA FailedTell ==
  ASSUME IInv, NumberInv, TokenInv, FailedInv, [Next]_vars,
         NEW i \in 1 .. Len(toManager'[Server]), NEW q, q = toManager'[Server][i],
         q.op = "LISTEN", ~q.ok, NEW n, n = q.id
  PROVE  NoSuch(n)'
<1>1. AgentTypes /\ Server \in Agents
  BY DEF IInv, DataTypes, Agents
<1>2. SUFFICES ASSUME ~NoSuch(n)' PROVE FALSE
  OBVIOUS
<1>3. NoSuch(n) =>
        \E r \in Requests, f \in Fds, k \in {"tcp", "udp", "listen"} :
           /\ Serve(Server) /\ 1 \in 1 .. Len(toAgent[Server]) /\ r = toAgent[Server][1]
           /\ r.op = "LISTEN" /\ r.id = n /\ Creates(Server, r, f, k)
  BY <1>2, NoSuchGoes
<1>4. ASSUME NEW j \in 1 .. Len(toManager[Server]), toManager'[Server][i] = toManager[Server][j]
      PROVE  FALSE
  <2>1. q = toManager[Server][j]
    BY <1>4
  <2>2. NoSuch(n)
    BY <2>1 DEF FailedInv
  <2>3. PICK r \in Requests : /\ 1 \in 1 .. Len(toAgent[Server]) /\ r = toAgent[Server][1]
                              /\ r.op = "LISTEN" /\ r.id = n
    BY <1>3, <2>2
  <2>4. n \in Nat
    BY <2>3 DEF Requests
  <2>5. Numbered(Server, n, r.thread) /\ Numbered(Server, n, q.thread)
    BY <2>1, <2>3 DEF Numbered, NewOps
  <2>6. q.thread = r.thread
    BY <1>1, <2>4, <2>5 DEF NumberInv
  <2>7. IsAnswer(toManager[Server][j])
    BY <2>1 DEF IsAnswer, AnswerOps, Stats
  <2>. QED  BY <1>1, <2>1, <2>3, <2>6, <2>7 DEF TokenInv, TokenAt, AskInv
<1>5. ASSUME NEW m \in Messages, toManager'[Server][i] = m, Says(Server, m)
      PROVE  FALSE
  <2>1. m = q
    BY <1>5
  <2>2. CASE Replies(Server, m)
    <3>1. PICK r \in Requests :
            /\ 1 \in 1 .. Len(toAgent[Server]) /\ r = toAgent[Server][1]
            /\ m.op = r.op /\ m.id = r.id
            /\ r.op \in NewOps /\ ~m.ok => Declines(Server, r)
      BY <2>2 DEF Replies
    <3>2. fds' = fds
      BY <2>1, <3>1 DEF Declines, NewOps
    <3>3. NoSuch(n)
      BY <2>1, <3>1 DEF FailedInv
    <3>4. PICK z \in Requests, f \in Fds, k \in {"tcp", "udp", "listen"} : Creates(Server, z, f, k)
      BY <1>3, <3>3
    <3>5. fds'[Server][f] # FreeFd
      BY <1>1, <3>4, CreatesStays
    <3>. QED  BY <3>2, <3>4, <3>5 DEF Creates
  <2>3. CASE Reports(Server, m)
    <3>1. PICK f \in Fds : /\ Report(Server, f) => Busy(Server, f) /\ m.op = fds[Server][f].busy
                           /\ Report(Server, f) \/ m.op = "CLOSED"
      BY <2>3 DEF Reports
    <3>2. Report(Server, f)
      BY <2>1, <3>1
    <3>. QED  BY <1>1, <2>1, <3>1, <3>2, TokenThreads
  <2>4. CASE Announces(Server, m)
    BY <2>1, <2>4 DEF Announces
  <2>. QED  BY <1>5, <2>2, <2>3, <2>4 DEF Says
<1>. QED  BY <1>1, <1>4, <1>5, TellFrom

LEMMA FailedStep ==
  ASSUME IInv, NumberInv, TokenInv, ServerInv, AnnouncedInv, EntryInv, FailedInv, [Next]_vars
  PROVE  FailedInv'
<1>1. ASSUME NEW i \in 1 .. Len(toAgent'[Server]), toAgent'[Server][i].op = "LISTEN"
      PROVE  NoSuch(toAgent[Server][i].id)'
  <2>1. PICK q, n : q = toAgent'[Server][i] /\ n = q.id
    OBVIOUS
  <2>2. NoSuch(n)'
    BY <1>1, <2>1, FailedAsk
  <2>. QED  BY <2>1, <2>2
<1>2. ASSUME NEW i \in 1 .. Len(toManager'[Server]),
             toManager'[Server][i].op = "LISTEN", ~toManager'[Server][i].ok
      PROVE  NoSuch(toManager[Server][i].id)'
  <2>1. PICK q, n : q = toManager'[Server][i] /\ n = q.id
    OBVIOUS
  <2>2. NoSuch(n)'
    BY <1>2, <2>1, FailedTell
  <2>. QED  BY <2>1, <2>2
<1>. QED  BY <1>1, <1>2 DEF FailedInv

\* A thread that has come to its server has come there for good.
LEMMA ComeStays ==
  ASSUME IInv, [Next]_vars, NEW t \in Threads, Come(t)
  PROVE  Come(t)'
<1>1. ThreadTypes /\ ThreadTypes' /\ scenario' = scenario
  BY ScenarioStays, Invariance DEF IInv
<1>2. Monotone(t) /\ (InResume(t)' => InResume(t) \/ (stmtPos'[t] = stmtPos[t] /\ step'[t] = step[t] + 1))
  BY GoesOn
<1>3. \A k \in Nat : Past(t, k) => Past(t, k)'
  BY <1>1, <1>2, PastGrows
<1>4. CASE Past(t, 2)
  BY <1>3, <1>4 DEF Come
<1>5. CASE Past(t, 1) /\ ~InResume(t)
  <2>1. CASE ~InResume(t)'
    BY <1>3, <1>5, <2>1 DEF Come
  <2>2. CASE InResume(t)'
    <3>1. stmtPos'[t] = stmtPos[t] /\ step'[t] = step[t] + 1 /\ Program(t)' = Program(t) /\ step[t] \in Nat
      BY <1>1, <1>2, <1>5, <2>2 DEF Program, ThreadTypes
    <3>2. PICK i \in 1 .. Len(Program(t)) :
            Program(t)[i].kind = "connect" /\ (i < stmtPos[t] \/ (i = stmtPos[t] /\ step[t] > 1))
      BY <1>5 DEF Past
    <3>3. i < stmtPos'[t] \/ (i = stmtPos'[t] /\ step'[t] > 2)
      BY <3>1, <3>2
    <3>4. Past(t, 2)'
      BY <3>1, <3>2, <3>3 DEF Past
    <3>. QED  BY <3>4 DEF Come
  <2>. QED  BY <2>1, <2>2
<1>. QED  BY <1>4, <1>5 DEF Come

LEMMA EntryStep ==
  ASSUME IInv, AskedInv, EntryInv, [Next]_vars
  PROVE  EntryInv'
<1>1. ThreadTypes /\ TableTypes /\ ResumeInv /\ scenario' = scenario
  BY ScenarioStays DEF IInv, DataTypes, StateInv, PlaceInv
<1>2. requestNo' \in Nat /\ requestNo \in Nat /\ requestNo' >= requestNo
  BY NumbersGrow
<1>3. \A t : Conn(t)' = Conn(t)
  BY <1>1, SameConn
<1>4. ASSUME NEW l, NEW k \in listens, l.port = k.port, l.id_req = k.id_req
      PROVE  l.id_req < requestNo' /\ \E t \in Threads : Conn(t)'.port = l.port /\ Come(t)'
  <2>1. k.id_req \in Nat /\ k.id_req < requestNo
    BY <1>1 DEF EntryInv, TableTypes
  <2>2. PICK t \in Threads : Conn(t).port = k.port /\ Come(t)
    BY DEF EntryInv
  <2>3. Come(t)'
    BY <2>2, ComeStays
  <2>. QED  BY <1>2, <1>3, <1>4, <2>1, <2>2, <2>3
<1>5. ASSUME NEW t \in Threads, NEW n \in Nat, AddsEntry(t, n), NEW l, l = Asked(n, Conn(t).port)
      PROVE  l.id_req < requestNo' /\ \E u \in Threads : Conn(u)'.port = l.port /\ Come(u)'
  <2>1. l.id_req = n /\ l.port = Conn(t).port
    BY <1>5 DEF Asked
  <2>2. PICK end \in {"client", "server"} : Issues(t, Server, end, "LISTEN", n)
    BY <1>5 DEF AddsEntry
  <2>3. n = requestNo /\ requestNo' = requestNo + 1 /\ At(t, <<end, "LISTEN">>) /\ Wait
    BY <2>2 DEF Issues, SocketOps
  <2>4. /\ InResume(t) /\ Stands(t) /\ Current(t).kind \in Kinds /\ step[t] \in Nat \ {0}
        /\ t = Head(resume) /\ resume # <<>>
        /\ step[t] <= Len(Ops(t)) /\ Ops(t)[step[t]] = <<end, "LISTEN">>
    BY <1>1, <2>3, AtFacts
  <2>5. Current(t).kind = "connect" /\ step[t] = 2
    BY <2>4, StepFacts DEF Ops
  <2>6. Past(t, 1)
    BY <1>1, <2>4, <2>5, PastAt
  <2>7. ThreadTypes' /\ Monotone(t)
    BY Invariance, GoesOn DEF IInv
  <2>8. Past(t, 1)'
    BY <1>1, <2>6, <2>7, PastGrows
  <2>9. resume' = Tail(resume)
    BY <2>3 DEF Wait
  <2>10. ~InResume(t)'
    BY <1>1, <2>4, <2>9, LeaveFacts
  <2>11. Come(t)'
    BY <2>8, <2>10 DEF Come
  <2>. QED  BY <1>2, <1>3, <2>1, <2>3, <2>11
<1>6. ASSUME NEW l \in listens'
      PROVE  l.id_req < requestNo' /\ \E t \in Threads : Conn(t)'.port = l.port /\ Come(t)'
  <2>1. CASE l \in listens
    BY <1>4, <2>1
  <2>2. CASE l \notin listens
    <3>1. ASSUME NEW t \in Threads, NEW n \in Nat, AddsEntry(t, n)
          PROVE  l.id_req < requestNo' /\ \E u \in Threads : Conn(u)'.port = l.port /\ Come(u)'
      <4>1. l = Asked(n, Conn(t).port)
        BY <2>2, <3>1 DEF AddsEntry
      <4>. QED  BY <1>5, <3>1, <4>1
    <3>2. ASSUME NEW r \in requests[Server], NEW m \in Messages, NEW k \in listens, HearsOf(r, m, k)
          PROVE  l.id_req < requestNo' /\ \E t \in Threads : Conn(t)'.port = l.port /\ Come(t)'
      <4>1. l = [k EXCEPT !.stat = "LISTEN"]
        BY <2>2, <3>2 DEF HearsOf
      <4>2. k \in [port : Ports, stat : {"REQ_LISTEN", "LISTEN"}, id_req : Nat]
        BY <1>1 DEF TableTypes
      <4>3. l.port = k.port /\ l.id_req = k.id_req
        BY <4>1, <4>2
      <4>. QED  BY <1>4, <4>3
    <3>. QED  BY <2>2, <3>1, <3>2, ListensStep
  <2>. QED  BY <2>1, <2>2
<1>. QED  BY <1>6 DEF EntryInv

----------------------------------------
(* While no socket is taken for another and no request is lost, and unless *)
(* a server of UDP shares its address, velm finds what it hears of.        *)

LEMMA CleanBefore ==
  ASSUME IInv, [Next]_vars, Clean'
  PROVE  Clean
<1>1. incidents \subseteq incidents' /\ scenario' = scenario
  BY IncidentsGrow, ScenarioStays
<1>2. SharedUdp' <=> SharedUdp
  BY <1>1 DEF SharedUdp, Conn
<1>3. "stray" \notin incidents
  BY <1>1 DEF Clean
<1>4. ~Loses
  BY <1>1, Zenon DEF Clean, Loses
<1>. QED  BY <1>2, <1>3, <1>4 DEF Clean

LEMMA ListenStep ==
  ASSUME IInv, NumberInv, Orderly, RequestInv, ListenInv, ~SharedUdp, [Next]_vars
  PROVE  ListenInv'
BY AskedStep, ServerStep, AnnouncedStep, FailedStep, EntryStep DEF ListenInv, Orderly

\* velm is surprised by what it has no request for, or no server.
LEMMA AloneSurprise ==
  ASSUME NEW t, Alone(t), Surprised'
  PROVE  Surprised
<1>1. UNCHANGED incidents \/ \E i \in {"refused", "not connected"} : incidents' = incidents \union {i}
  BY DEF Alone
<1>2. "unexpected" # "refused" /\ "unexpected" # "not connected"
  OBVIOUS
<1>3. CASE UNCHANGED incidents
  BY <1>3 DEF Surprised
<1>4. ASSUME NEW i \in {"refused", "not connected"}, incidents' = incidents \union {i}
      PROVE  Surprised
  <2>1. i # "unexpected"
    BY <1>2
  <2>. QED  BY <1>4, <2>1 DEF Surprised
<1>. QED  BY <1>1, <1>3, <1>4

LEMMA RequestSurprise ==
  ASSUME NEW t, NEW a, NEW stat, NEW id, Request(t, a, stat, id), Surprised'
  PROVE  Surprised
<1>1. "unexpected" # "request lost"
  OBVIOUS
<1>2. incidents' = incidents \/ incidents' = incidents \union {"request lost"}
  BY Zenon DEF Request
<1>. QED  BY <1>1, <1>2, Zenon DEF Surprised

LEMMA SurpriseFrom ==
  ASSUME IInv, [Next]_vars, Surprised', ~Surprised
  PROVE  \E a \in Agents, m \in Messages :
           1 \in 1 .. Len(toManager[a]) /\ m = toManager[a][1] /\ NotFound(a, m)
<1>1. AgentTypes /\ FdTypes /\ scenario \in Scenarios
  BY DEF IInv, DataTypes, ThreadTypes
<1>2. ASSUME NEW t \in Threads, Operation(t) PROVE FALSE
  <2>1. ASSUME NEW a, NEW id, NEW end \in {"client", "server"}, NEW op \in AnswerOps, Issues(t, a, end, op, id)
        PROVE  FALSE
    <3>1. Request(t, a, op, id)
      BY <2>1 DEF Issues
    <3>. QED  BY <3>1, RequestSurprise
  <2>2. ASSUME NEW l \in listens, Awaits(t, l) PROVE FALSE
    <3>1. Request(t, Server, "ACCEPT", l.id_req)
      BY <2>2 DEF Awaits
    <3>. QED  BY <3>1, RequestSurprise
  <2>3. ASSUME NEW c \in accepts, Takes(t, c) PROVE FALSE
    BY <2>3 DEF Takes, Surprised
  <2>. QED  BY <1>2, <2>1, <2>2, <2>3, AloneSurprise, OperationCases
<1>3. ASSUME NEW a \in Agents, Serve(a) PROVE FALSE
  BY <1>3, ServeIncidents DEF Surprised
<1>4. incidents' # incidents
  BY DEF Surprised
<1>5. ASSUME NEW f \in Fds, Accept(f) \/ \E a \in Agents : Report(a, f) \/ EndOfStream(a, f)
      PROVE  FALSE
  <2>1. incidents' = incidents
    BY <1>5 DEF Accept, Report, EndOfStream
  <2>. QED  BY <1>4, <2>1
<1>6. PICK a \in Agents : Hear(a)
  BY <1>2, <1>3, <1>4, <1>5, LocalKeeps, NextIs DEF NextCases
<1>7. HearSteps(a, toManager[a][1]) /\ toManager[a][1] \in Messages /\ 1 \in 1 .. Len(toManager[a])
  BY <1>1, <1>6, HearCases, HearFacts
<1>8. PICK m \in Messages : m = toManager[a][1]
  BY <1>7
<1>9. HearSteps(a, m)
  BY <1>7, <1>8
<1>10. ASSUME NEW r \in requests[a], Settles(a, m, r) PROVE FALSE
  BY <1>10 DEF Settles, Surprised
<1>11. ASSUME NEW r \in requests[Server], Admits(m, r) PROVE FALSE
  BY <1>11 DEF Admits, Surprised
<1>12. ~Keeps(m) /\ ~UNCHANGED <<threads, requests, listens, accepts, incidents>>
  BY <1>4 DEF Keeps
<1>13. NotFound(a, m)
  BY <1>9, <1>10, <1>11, <1>12 DEF HearSteps, NotFound
<1>. QED  BY <1>7, <1>8, <1>13

LEMMA NeverSurprised ==
  ASSUME IInv, RequestInv, ListenInv, ~Surprised, [Next]_vars
  PROVE  ~Surprised'
<1>1. SUFFICES ASSUME Surprised' PROVE FALSE
  OBVIOUS
<1>2. PICK a \in Agents, m \in Messages :
        1 \in 1 .. Len(toManager[a]) /\ m = toManager[a][1] /\ NotFound(a, m)
  BY <1>1, SurpriseFrom
<1>3. CASE m.op = "ACCEPTED" /\ \A l \in listens : l.id_req # m.id
  <2>1. a = Server
    BY <1>2, <1>3 DEF IInv, DataTypes, FdTypes, Proper
  <2>2. Announced(1, m.id)
    BY <1>2, <1>3, <2>1 DEF Announced
  <2>. QED  BY <1>2, <1>3, <2>1, <2>2 DEF ListenInv, AnnouncedInv, Entry
<1>4. CASE m.op \in AnswerOps /\ \A r \in requests[a] : r.id # m.id \/ r.stat # m.op
  <2>1. PICK q : q = Req(m.thread, m.op, m.id)
    OBVIOUS
  <2>2. q \in requests[a]
    BY <1>2, <1>4, <2>1 DEF RequestInv, IsAnswer
  <2>. QED  BY <1>4, <2>1, <2>2, ReqFacts
<1>5. ASSUME m.op = "LISTEN", NEW r \in requests[a], r.id = m.id, r.stat = m.op, Pending(r.thread) = {}
      PROVE  FALSE
  <2>1. a = Server
    <3>1. WaitsAt(r.thread, a, "LISTEN") /\ r.thread \in Threads /\ ThreadTypes
      BY <1>5, ElementFacts DEF IInv, StateInv, PlaceInv, PendingInv, DataTypes
    <3>. QED  BY <3>1, WaitsAtFacts
  <2>2. PICK l : l = Asked(r.id, Conn(r.thread).port)
    OBVIOUS
  <2>3. Pending(r.thread) = {l}
    BY <1>5, <2>1, <2>2, PendingIs DEF ListenInv
  <2>. QED  BY <1>5, <2>3
<1>. QED  BY <1>2, <1>3, <1>4, <1>5 DEF NotFound

LEMMA FindStep ==
  ASSUME IInv, FindInv, [Next]_vars
  PROVE  FindInv'
<1>1. NumberInv'
  BY NumberStep DEF FindInv
<1>2. ASSUME Clean' PROVE (Orderly /\ RequestInv /\ ListenInv /\ ~Surprised)'
  <2>1. Clean
    BY <1>2, CleanBefore
  <2>2. Orderly /\ RequestInv /\ ListenInv /\ ~Surprised /\ NumberInv
    BY <2>1 DEF FindInv, CleanInv
  <2>3. "stray" \notin incidents' /\ ~Loses' /\ ~SharedUdp
    BY <1>2, <2>1 DEF Clean
  <2>4. Orderly'
    BY <2>2, <2>3, RequestsOwn, OrderlyStep
  <2>5. RequestInv'
    BY <2>2, <2>3, RequestStep DEF Orderly
  <2>6. ListenInv'
    BY <2>2, <2>3, ListenStep
  <2>. QED  BY <2>2, <2>4, <2>5, <2>6, NeverSurprised
<1>. QED  BY <1>1, <1>2 DEF FindInv, CleanInv

LEMMA InitFind ==
  ASSUME Init
  PROVE  FindInv
<1>1. NumberInv /\ Orderly
  BY InitNumbers, InitOrderly
<1>2. Server \in Agents
  BY DEF Agents
<1>3. RequestInv
  <2>1. \A a \in Agents : toAgent[a] = <<>> /\ toManager[a] = <<>> /\ \A f \in Fds : fds[a][f] = FreeFd
    BY DEF Init
  <2>. QED  BY <2>1 DEF RequestInv, Busy
<1>4. ListenInv
  <2>1. /\ requests[Server] = {} /\ listens = {} /\ toAgent[Server] = <<>> /\ toManager[Server] = <<>>
        /\ \A f \in Fds : fds[Server][f] = FreeFd
    BY <1>2 DEF Init
  <2>. QED  BY <2>1 DEF ListenInv, AskedInv, ServerInv, AnnouncedInv, FailedInv, EntryInv, Serves
<1>5. ~Surprised
  BY DEF Init, Surprised
<1>. QED  BY <1>1, <1>3, <1>4, <1>5 DEF FindInv, CleanInv

LEMMA FindNoError ==
  ASSUME CleanInv
  PROVE  NoInternalError
<1>1. SUFFICES ASSUME Surprised, ~SharedUdp, incidents \intersect {"stray", "request lost"} = {}
               PROVE  FALSE
  BY Zenon DEF NoInternalError, Surprised
<1>2. ~Loses
  BY <1>1, Zenon DEF Loses
<1>3. "stray" \notin incidents
  BY <1>1, Zenon
<1>. QED  BY <1>1, <1>2, <1>3, Zenon DEF CleanInv, Clean

\* velm never hears what its code calls an internal error, an answer that no
\* request is found for, or a connection at a server that it does not know,
\* unless a socket was taken for another, a request was lost, or a server of
\* UDP shares its address.
THEOREM NoInternalErrorCorrect == Spec => []NoInternalError
<1>1. Init => FindInv
  BY InitFind
<1>2. IInv /\ FindInv /\ [Next]_vars => FindInv'
  BY FindStep
<1>3. FindInv => NoInternalError
  BY FindNoError DEF FindInv
<1>. QED  BY <1>1, <1>2, <1>3, InvIsInductive, PTL DEF Spec
=============================================================================
