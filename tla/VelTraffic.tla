----------------------------- MODULE VelTraffic -----------------------------
(***************************************************************************)
(* The traffic on one connection of vel: a thread of velm drives the two   *)
(* sockets at its ends, each in a vela, through oneway, turnaround and     *)
(* close statements, one request at a time.                                *)
(*                                                                         *)
(* A socket is driven by requests of velm, by packets that arrive and, at  *)
(* the sending end, by a timer.  All three end in the same code, which     *)
(* decides from the counters and the last request what to send and what to *)
(* report: SendPacket, PostSend, PostReceive.  TCP loses nothing; UDP      *)
(* loses, repeats and delays packets, also into the next statement, and a  *)
(* send may fail for lack of buffers.                                      *)
(***************************************************************************)
EXTENDS Naturals, Sequences

CONSTANTS
  Protocols,   \* kinds of connection, of "tcp" and "udp"
  Programs,    \* sequences of statements of the thread
  MaxCount,    \* bounds of the model: packets in a statement,
  MaxRepeats,  \*   packets the network repeats,
  MaxUnsent    \*   and sends that fail with an error to be retried

Statements == [kind : {"oneway", "turnaround", "close"}, count : 1 .. MaxCount]

ASSUME TrafficAssumption ==
  /\ Protocols \subseteq {"tcp", "udp"}
  /\ Programs \subseteq Seq(Statements)
  /\ MaxCount \in Nat \ {0} /\ MaxRepeats \in Nat /\ MaxUnsent \in Nat

VARIABLES
  protocol,   \* of the connection
  program,    \* TgExecThread::cStatements_
  stmtPos,    \*   and stmtPos_, from 1
  step,       \* TgStatement::step_ of the statement, from 1
  wait,       \* TgAgntCtrl::requests_: the request that velm waits for
  connects,   \* TgAgntCtrl::connects_: the state of each end for velm
  aborted,    \* a request failed: the thread has aborted
  toAgent,    \* requests on their way to each vela
  toManager,  \* answers and reports on their way back
  sock,       \* TcSocket: the socket at each end
  net,        \* packets on their way to each end
  eof,        \* the other end is closed (TCP)
  repeats,    \* packets repeated so far
  unsent      \* sends failed so far

thread == <<program, stmtPos, step, wait, connects, aborted>>
network == <<net, eof, repeats>>
vars == <<protocol, thread, toAgent, toManager, sock, network, unsent>>

Ends == {"client", "server"}
Other(e) == IF e = "client" THEN "server" ELSE "client"
Ops == {"Recv", "Snd", "RecvSnd", "SndRecv", "RecvEffect", "Close"}
None == [end |-> "client", op |-> "none"]
Waits == [end : Ends, op : Ops] \union {None}

----------------------------------------------------------------------------
(* TcSocket: an operator on a socket gives what becomes of it, whether a   *)
(* packet goes out, and what is reported to velm.                          *)

Outcome(s, sent, reports) == [sock |-> s, sent |-> sent, reports |-> reports]

\* The counters of a request are full.
AllReceived(s) ==
  IF protocol = "tcp" THEN s.recvcnt = s.recvdcnt
                      ELSE s.recvcnt = s.recvdcnt + s.regard

SndOver(s) == s.sentcnt >= s.sendcnt

\* Mutant: a turnaround is not timed.
Timed_Not(s) == FALSE

\* A packet of a turnaround over UDP may never be answered.
Timed(s) == s.request = "SndRecv" /\ protocol = "udp"

\* postSend, after a packet went out or could not: the next one, or giving up
\* its answer, is left to the timer.
PostSend(s, sent) ==
  IF s.request = "Snd" /\ SndOver(s) THEN Outcome(s, sent, <<"Snd">>)
  ELSE IF s.request = "Snd" \/ Timed(s)
       THEN Outcome([s EXCEPT !.timer = TRUE], sent, <<>>)
       ELSE Outcome(s, sent, <<>>)

\* sendPacket; fails: the kernel had no buffer for it.
SendPacket(s, fails) ==
  LET stopped == [s EXCEPT !.timer = FALSE]
  IN  IF s.sendcnt <= s.sentcnt THEN Outcome(stopped, FALSE, <<>>)
      ELSE IF fails THEN PostSend(stopped, FALSE)
      ELSE PostSend([stopped EXCEPT !.sentcnt = @ + 1], TRUE)

\* postReceive, the second half: is it this end's turn to send?
SendsOn(s) ==
  /\ s.sendcnt > s.sentcnt
  /\ s.request = "SndRecv" =>
       s.sentcnt <= IF protocol = "tcp" THEN s.recvdcnt ELSE s.recvdcnt + s.regard

\* Mutant: the first answer ends a turnaround.
Answered_First(s) == s.request = "SndRecv"

\* The answer to a SndRecv is due.
Answered(s) == s.request = "SndRecv" /\ AllReceived(s)

\* The answer to a RecvEffect that found packets missing is due (TCP).
EffectDue(s) ==
  protocol = "tcp" /\ s.request = "Recv" /\ s.effectreq /\ AllReceived(s)

\* postReceive, after a packet or the timer.
PostReceive(s, fails) ==
  LET told == IF EffectDue(s) THEN [s EXCEPT !.effectreq = FALSE] ELSE s
      said == IF Answered(s) THEN <<"SndRecv">>
              ELSE IF EffectDue(s) THEN <<"RecvEffect">> ELSE <<>>
      next == IF SendsOn(told) /\ s.request \in {"SndRecv", "Snd", "RecvSnd"}
              THEN SendPacket(told, fails) ELSE Outcome(told, FALSE, <<>>)
  IN  Outcome(next.sock, next.sent, said \o next.reports)

\* Mutant: the packets of the statement before count on.
Restarted_KeepsSent(s) == [s EXCEPT !.recvdcnt = 0, !.regard = 0]

\* The counters that sndIndication resets.
Restarted(s) == [s EXCEPT !.sentcnt = 0, !.recvdcnt = 0, !.regard = 0]

\* sndIndication
Snd(s, count, fails) ==
  SendPacket([Restarted(s) EXCEPT !.sendcnt = count], fails)

\* recvIndication
Recv(s, count) ==
  [s EXCEPT !.effectreq = FALSE, !.sentcnt = 0, !.recvdcnt = 0,
            !.recvcnt = count]

\* recvsndIndication
RecvSnd(s, count) == Recv([s EXCEPT !.sendcnt = count], count)

\* Mutant: TCP answers at once like UDP.
EffectNow_AtOnce(s) == TRUE

\* effectAction: UDP answers at once, TCP when nothing is missing.
EffectNow(s) == protocol = "udp" \/ s.recvcnt = s.recvdcnt

\* recvEffectIndication
RecvEffect(s) ==
  IF EffectNow(s) THEN Outcome([s EXCEPT !.effectreq = FALSE], FALSE, <<"RecvEffect">>)
                  ELSE Outcome([s EXCEPT !.effectreq = TRUE], FALSE, <<>>)

\* A connection as a connect statement leaves it.
NewSocket(request) ==
  [open |-> TRUE, request |-> request, sendcnt |-> 0, sentcnt |-> 0,
   recvcnt |-> 0, recvdcnt |-> 0, effectreq |-> FALSE, regard |-> 0,
   timer |-> FALSE]

Init ==
  /\ protocol \in Protocols
  /\ program \in Programs /\ stmtPos = 1 /\ step = 1
  /\ wait = None
  /\ connects = [e \in Ends |-> "connected"] /\ aborted = FALSE
  /\ toAgent = [e \in Ends |-> <<>>] /\ toManager = [e \in Ends |-> <<>>]
  /\ sock = [e \in Ends |->
               NewSocket(IF e = "client" THEN "Connect" ELSE "Listen")]
  /\ net = [e \in Ends |-> 0] /\ eof = [e \in Ends |-> FALSE]
  /\ repeats = 0 /\ unsent = 0

----------------------------------------------------------------------------
(* velm *)

\* The requests of each statement, in the order of its doStep.
StepsOf(kind) ==
  CASE kind = "oneway" ->
         <<[end |-> "server", op |-> "Recv"], [end |-> "client", op |-> "Snd"],
           [end |-> "server", op |-> "RecvEffect"]>>
    [] kind = "turnaround" ->
         <<[end |-> "server", op |-> "RecvSnd"],
           [end |-> "client", op |-> "SndRecv"],
           [end |-> "server", op |-> "RecvEffect"]>>
    [] kind = "close" ->
         <<[end |-> "client", op |-> "Close"], [end |-> "server", op |-> "Close"]>>

Running == ~aborted /\ stmtPos <= Len(program)
Statement == program[stmtPos]
StatementOver == step > Len(StepsOf(Statement.kind))

\* TgExecThread::next: the statement is over.
NextStatement ==
  /\ Running /\ wait = None /\ StatementOver
  /\ stmtPos' = stmtPos + 1 /\ step' = 1
  /\ UNCHANGED <<protocol, program, wait, connects, aborted, toAgent,
                 toManager, sock, network, unsent>>

\* One turn of doStep: opReceive, opSend, opClose and the others.  opClose
\* has nothing to do at an end that was reported closed.
DoStep ==
  /\ Running /\ wait = None /\ ~StatementOver
  /\ LET r == StepsOf(Statement.kind)[step]
     IN  \/ /\ connects[r.end] = "connected"
            /\ wait' = r
            /\ toAgent' = [toAgent EXCEPT ![r.end] =
                             Append(@, [op |-> r.op, count |-> Statement.count])]
            /\ connects' = IF r.op = "Close"
                           THEN [connects EXCEPT ![r.end] = "closing"] ELSE connects
            /\ UNCHANGED <<step, aborted>>
         \/ /\ connects[r.end] # "connected" /\ r.op = "Close"
            /\ step' = step + 1
            /\ UNCHANGED <<wait, toAgent, connects, aborted>>
         \/ /\ connects[r.end] # "connected" /\ r.op # "Close"
            /\ aborted' = TRUE
            /\ UNCHANGED <<step, wait, toAgent, connects>>
  /\ UNCHANGED <<protocol, program, stmtPos, toManager, sock, network, unsent>>

\* Mutant: the report of a closed socket leaves velm's entry.
AfterClosed_Kept(c) == c

\* recvClosedReport
AfterClosed(c) == "none"

\* The dispatch loop of velm, which runs when the thread waits or has ended:
\* the recv...Confirm of the request, or recvClosedReport.  An answer that
\* nothing waits for is only complained about.
Hear(e) ==
  /\ toManager[e] # <<>>
  /\ wait # None \/ ~Running
  /\ LET a == Head(toManager[e])
         awaited == wait.end = e /\ wait.op = a.op
     IN  \/ /\ a.op = "Closed"
            /\ connects' = [connects EXCEPT ![e] = AfterClosed(@)]
            /\ UNCHANGED <<wait, step, aborted>>
         \/ /\ a.op # "Closed" /\ ~awaited
            /\ UNCHANGED <<wait, step, aborted, connects>>
         \/ /\ a.op # "Closed" /\ awaited
            /\ wait' = None
            /\ IF a.ok \/ (a.op = "Close" /\ connects[e] = "none")
               THEN step' = step + 1 /\ UNCHANGED aborted
               ELSE aborted' = TRUE /\ UNCHANGED step
            /\ connects' = IF a.op = "Close"
                           THEN [connects EXCEPT ![e] = "none"] ELSE connects
  /\ toManager' = [toManager EXCEPT ![e] = Tail(@)]
  /\ UNCHANGED <<protocol, program, stmtPos, toAgent, sock, network, unsent>>

----------------------------------------------------------------------------
(* vela *)

\* What an outcome does to the socket, the network and the reports.
Apply(e, o) ==
  /\ sock' = [sock EXCEPT ![e] = o.sock]
  /\ toManager' = [toManager EXCEPT ![e] =
       @ \o [i \in 1 .. Len(o.reports) |-> [op |-> o.reports[i], ok |-> TRUE]]]

\* A packet that goes out is on its way unless the other end is closed.
Sent(n, e, o) ==
  IF o.sent /\ sock[Other(e)].open THEN [n EXCEPT ![Other(e)] = @ + 1] ELSE n

\* A send may fail while the model allows one more; TCP blocks instead.
Fails == {FALSE} \union {f \in {TRUE} : protocol = "udp" /\ unsent < MaxUnsent}

\* The failures that count: those of an operator that would have sent.
CountUnsent(fails, o, sent) == unsent' = IF fails /\ sent.sent THEN unsent + 1 ELSE unsent

\* recvRequest and recvsndRequest answer at once.
Listening(e, op, count) ==
  LET s == [sock[e] EXCEPT !.request = op]
  IN  Apply(e, Outcome(IF op = "Recv" THEN Recv(s, count) ELSE RecvSnd(s, count),
                       FALSE, <<op>>))

\* sndRequest, sndrecvRequest
Sending(op, count, e, fails) ==
  LET s == [sock[e] EXCEPT !.request = op]
  IN  Snd(IF op = "Snd" THEN s ELSE Recv(s, count), count, fails)

\* A request of velm; one for a socket that is gone is refused.
Serve(e) ==
  /\ toAgent[e] # <<>>
  /\ toAgent' = [toAgent EXCEPT ![e] = Tail(@)]
  /\ LET r == Head(toAgent[e])
     IN  \/ /\ ~sock[e].open
            /\ toManager' = [toManager EXCEPT ![e] =
                               Append(@, [op |-> r.op, ok |-> FALSE])]
            /\ UNCHANGED <<sock, network, unsent>>
         \/ /\ sock[e].open /\ r.op \in {"Recv", "RecvSnd"}
            /\ Listening(e, r.op, r.count)
            /\ UNCHANGED <<network, unsent>>
         \/ /\ sock[e].open /\ r.op \in {"Snd", "SndRecv"}
            /\ \E fails \in Fails :
                 LET o == Sending(r.op, r.count, e, fails)
                 IN  /\ Apply(e, o)
                     /\ net' = Sent(net, e, o)
                     /\ CountUnsent(fails, o, Sending(r.op, r.count, e, FALSE))
            /\ UNCHANGED <<eof, repeats>>
         \/ /\ sock[e].open /\ r.op = "RecvEffect"
            /\ Apply(e, RecvEffect(sock[e]))
            /\ UNCHANGED <<network, unsent>>
         \/ /\ sock[e].open /\ r.op = "Close"
            /\ Apply(e, Outcome([sock[e] EXCEPT !.open = FALSE], FALSE, <<"Close">>))
            /\ net' = [net EXCEPT ![e] = 0]
            /\ eof' = [eof EXCEPT ![Other(e)] = protocol = "tcp"]
            /\ UNCHANGED <<repeats, unsent>>
  /\ UNCHANGED <<protocol, thread>>

\* Mutant: the timer runs on.
Stopped_Not(s) == s

\* stopTimer, with which receivePacket begins.
Stopped(s) == [s EXCEPT !.timer = FALSE]

\* receivePacket with a packet to read; without a count to receive it does
\* not read and goes on to postReceive.
Arrives(e) ==
  /\ sock[e].open /\ net[e] > 0
  /\ LET stopped == Stopped(sock[e])
         s == IF stopped.recvcnt = 0 THEN stopped
              ELSE [stopped EXCEPT !.recvdcnt = @ + 1]
         rest == IF stopped.recvcnt = 0 THEN net ELSE [net EXCEPT ![e] = @ - 1]
     IN  \E fails \in Fails :
           LET o == PostReceive(s, fails)
           IN  /\ Apply(e, o)
               /\ net' = Sent(rest, e, o)
               /\ CountUnsent(fails, o, PostReceive(s, FALSE))
  /\ UNCHANGED <<protocol, thread, toAgent, eof, repeats>>

\* receivePacket at the end of the stream: reported, and the socket deleted.
EndOfStream(e) ==
  /\ sock[e].open /\ eof[e] /\ net[e] = 0 /\ sock[e].recvcnt # 0
  /\ sock' = [sock EXCEPT ![e].open = FALSE, ![e].timer = FALSE]
  /\ toManager' = [toManager EXCEPT ![e] = Append(@, [op |-> "Closed", ok |-> TRUE])]
  /\ UNCHANGED <<protocol, thread, toAgent, network, unsent>>

\* timeup: in a turnaround a missing answer is given up.
Timeup(e) ==
  /\ sock[e].timer
  /\ \E fails \in Fails :
       LET s == [sock[e] EXCEPT !.timer = FALSE, !.regard = @ + 1]
           o == PostReceive(s, fails)
       IN  /\ Apply(e, o)
           /\ net' = Sent(net, e, o)
           /\ CountUnsent(fails, o, PostReceive(s, FALSE))
  /\ UNCHANGED <<protocol, thread, toAgent, eof, repeats>>

\* UDP loses a packet, or delivers one twice.
Lose(e) ==
  /\ protocol = "udp" /\ net[e] > 0
  /\ net' = [net EXCEPT ![e] = @ - 1]
  /\ UNCHANGED <<protocol, thread, toAgent, toManager, sock, eof, repeats, unsent>>

Repeat(e) ==
  /\ protocol = "udp" /\ net[e] > 0 /\ repeats < MaxRepeats
  /\ net' = [net EXCEPT ![e] = @ + 1]
  /\ repeats' = repeats + 1
  /\ UNCHANGED <<protocol, thread, toAgent, toManager, sock, eof, unsent>>

Manager == NextStatement \/ DoStep
Agent(e) == Serve(e) \/ EndOfStream(e) \/ Timeup(e)

Next ==
  \/ Manager
  \/ \E e \in Ends : Hear(e) \/ Agent(e) \/ Arrives(e) \/ Lose(e) \/ Repeat(e)

\* The dispatch loops serve what is ready; timers run out; what TCP carries
\* arrives, what UDP carries need not.
Fairness ==
  /\ WF_vars(Manager)
  /\ \A e \in Ends : WF_vars(Hear(e)) /\ WF_vars(Serve(e)) /\ WF_vars(EndOfStream(e))
                     /\ WF_vars(Timeup(e)) /\ WF_vars(Arrives(e) /\ protocol = "tcp")

Spec == Init /\ [][Next]_vars
FairSpec == Spec /\ Fairness

----------------------------------------------------------------------------
\* Every variable keeps its type, and a socket never sends more packets
\* than the request it has says.
TypeOK ==
  /\ protocol \in Protocols /\ program \in Programs
  /\ stmtPos \in Nat \ {0} /\ step \in 1 .. 4
  /\ wait \in Waits /\ aborted \in BOOLEAN
  /\ connects \in [Ends -> {"connected", "closing", "none"}]
  /\ toAgent \in [Ends -> Seq([op : Ops, count : 1 .. MaxCount])]
  /\ toManager \in [Ends -> Seq([op : Ops \union {"Closed"}, ok : BOOLEAN])]
  /\ sock \in [Ends -> [open : BOOLEAN, request : Ops \union {"Connect", "Listen"},
                        sendcnt : 0 .. MaxCount, sentcnt : 0 .. MaxCount,
                        recvcnt : 0 .. MaxCount, recvdcnt : Nat,
                        effectreq : BOOLEAN, regard : Nat, timer : BOOLEAN]]
  /\ \A e \in Ends : sock[e].sentcnt <= sock[e].sendcnt
  /\ net \in [Ends -> Nat] /\ eof \in [Ends -> BOOLEAN]
  /\ repeats \in Nat /\ unsent \in Nat

\* Packets, the timer and requests end in the same code, and yet a request
\* gets one answer: what is on its way to velm is the answer it waits for.
AnsweredOnce ==
  \A e \in Ends : \A i, j \in 1 .. Len(toManager[e]) :
    /\ toManager[e][i].op # "Closed" =>
         wait.end = e /\ wait.op = toManager[e][i].op
    /\ toManager[e][i].op # "Closed" /\ toManager[e][j].op # "Closed" => i = j

\* A timer runs only while velm still waits for the transfer that set it:
\* none is left for a socket that velm may close, which would be deleted with
\* its timer in the queue.  Unless a send failed; then one is left.
NoTimerLeft ==
  unsent = 0 =>
    \A e \in Ends : sock[e].timer =>
      /\ sock[e].open
      /\ wait.end = e /\ wait.op \in {"Snd", "SndRecv"}
      /\ toManager[e] = <<>>

\* The client has sent every packet of a statement when velm turns to the
\* third step, whatever was lost, repeated or late.
AllSent ==
  unsent = 0 /\ Running /\ Statement.kind # "close" /\ step = 3 =>
    sock["client"].sentcnt = Statement.count

\* Over TCP a statement is over only when every packet has been received,
\* at both ends in a turnaround.
AllReceivedAtEnd ==
  protocol = "tcp" /\ Running /\ Statement.kind # "close" /\ step = 4 =>
    /\ sock["server"].recvdcnt = Statement.count
    /\ Statement.kind = "turnaround" => sock["client"].recvdcnt = Statement.count

\* A statement is over when its packets are, and not before.
TransferComplete == AllSent /\ AllReceivedAtEnd

\* No request fails, although the socket that velm closes may just have
\* been closed and reported by its vela.
NeverAborts == ~aborted

\* Every thread gets to its end, also when UDP loses everything.
ThreadEnds == <>(stmtPos > Len(program))
=============================================================================
