------------------------------ MODULE VelExec ------------------------------
(***************************************************************************)
(* How vel runs a command: velm asks (an Execute statement), vela hands    *)
(* the request on, velo starts the command and answers when it has ended.  *)
(*                                                                         *)
(* velo has one thread and a handler for SIGCHLD that interrupts it        *)
(* anywhere.  The main program forks, then enters the child into cmdSet_;  *)
(* the handler takes one child with wait(), looks it up there and sends    *)
(* the answer.  When it finds nothing it leaves a flag, which the main     *)
(* program looks at before it enters the child.  Each of these steps is an *)
(* action here, so that children end, signals merge and the handler runs   *)
(* between any two of them.                                                *)
(*                                                                         *)
(* velo outlives the sessions of velm: a new session numbers its requests  *)
(* from 1 again and finds velo as the last one left it.                    *)
(***************************************************************************)
EXTENDS Naturals, Sequences, FiniteSets

CONSTANTS
  Pids,          \* process ids, free to be used again once a child was reaped
  MaxSessions,   \* bounds of the model: runs of velm one after the other,
  Load,          \*   the number of commands in each,
  MaxCommands,   \*   the largest of these,
  MaxForkErrors, \*   and failures of vfork()
  eCmdExec_      \* the code of a request to run a command, 0x13 in TgTypes.h

ASSUME ExecAssumption ==
  /\ IsFiniteSet(Pids) /\ 0 \notin Pids
  /\ MaxSessions \in Nat \ {0} /\ MaxCommands \in Nat \ {0}
  /\ Load \in [1 .. MaxSessions -> 0 .. MaxCommands]
  /\ MaxForkErrors \in Nat /\ eCmdExec_ \in Nat \ {0}

VARIABLES
  session,      \* the run of velm that is on
  asked,        \* TgReqElm::newRequestNo, per run
  outstanding,  \* TgAgntCtrl::requests_ of kind REQ_EXECCMD
  toAgent,      \* requests on their way to vela
  toVelo,       \*   and from there to velo
  fromVelo,     \* the halves of the answers of velo, in the order written
  toManager,    \* answers on their way to velm
  proxy,        \* vela: TeClient, connected to velo, still trying, or connected
                \*   and astray in the bytes it reads
  server,       \* velo: is there a TeServer
  pc,           \* velo: where TeServer::expandRun stands
  v,            \*   its command v: the child and the request it is for
  num,          \*   its num, the elements of cmdSet_ it has counted
  cmdSet,       \* velo: cmdSet_
  failure,      \* velo: is_find_reqno_failure
  handler,      \* velo: is childEnd running
  sigPending,   \* a SIGCHLD is pending; a second one merges with it
  process,      \* the children, in the order of their pids
  confirms,     \* history: answers velm got for each request
  reaped,       \*   requests whose child velo has waited for,
  reported,     \*   requests that velo has answered,
  failed,       \*   requests for which vfork() failed, and
  incidents     \*   what has happened that costs an answer

manager == <<session, asked, outstanding, confirms>>
links == <<toAgent, toVelo, toManager, proxy>>
main == <<pc, v, num>>
vars == <<manager, links, fromVelo, server, main, cmdSet, failure, handler,
          sigPending, process, reaped, reported, failed, incidents>>

\* A request is named by its session and its number there.  The code of the
\* request is a number too: vfork() failing is reported under it.
Requests == (1 .. MaxSessions) \X (1 .. MaxCommands)
Numbers == (1 .. MaxCommands) \union {eCmdExec_}
Named == (1 .. MaxSessions) \X Numbers
NoProcess == [state |-> "free", req |-> <<1, 1>>]
Commands == [pid : Pids, req : Named]
Parts == [part : {"header", "body"}, reqno : Numbers]
Free == {p \in Pids : process[p].state = "free"}
Zombies == {p \in Pids : process[p].state = "zombie"}

\* TeServer::report: the header and the body go out in two sends.
Frame(n) == <<[part |-> "header", reqno |-> n], [part |-> "body", reqno |-> n]>>

Init ==
  /\ session = 1 /\ asked = 0 /\ outstanding = {}
  /\ toAgent = <<>> /\ toVelo = <<>> /\ fromVelo = <<>> /\ toManager = <<>>
  /\ proxy = "connecting" /\ server = "gone"
  /\ pc = "idle" /\ v = [pid |-> 0, req |-> <<1, 1>>] /\ num = 0
  /\ cmdSet = {} /\ failure = FALSE
  /\ handler = "off" /\ sigPending = FALSE
  /\ process = [p \in Pids |-> NoProcess]
  /\ confirms = [r \in Requests |-> 0]
  /\ reaped = {} /\ reported = {} /\ failed = {} /\ incidents = {}

----------------------------------------------------------------------------
(* velm and vela *)

\* opCommand: a thread reached an Execute statement.
Ask ==
  /\ asked < Load[session]
  /\ asked' = asked + 1
  /\ toAgent' = Append(toAgent, asked')
  /\ outstanding' = outstanding \union {asked'}
  /\ UNCHANGED <<session, confirms, toVelo, toManager, proxy, fromVelo,
                 server, main, cmdSet, failure, handler, sigPending, process,
                 reaped, reported, failed, incidents>>

\* cmdexecRequest: what the proxy sends before it is connected is lost.
Forward ==
  /\ toAgent # <<>>
  /\ toAgent' = Tail(toAgent)
  /\ \/ /\ proxy # "connecting"
        /\ toVelo' = Append(toVelo, Head(toAgent))
        /\ UNCHANGED incidents
     \/ /\ proxy = "connecting"
        /\ incidents' = incidents \union {"dropped"}
        /\ UNCHANGED toVelo
  /\ UNCHANGED <<manager, toManager, proxy, fromVelo, server, main, cmdSet,
                 failure, handler, sigPending, process, reaped, reported,
                 failed>>

\* TeClient::start, on the timer: a refused connect() is tried again later.
ProxyStart ==
  /\ proxy = "connecting"
  /\ proxy' = "connected"
  /\ UNCHANGED <<manager, toAgent, toVelo, toManager, fromVelo, server, main,
                 cmdSet, failure, handler, sigPending, process, reaped,
                 reported, failed, incidents>>

\* TeInterface::receivePacket of the proxy, and cmdExecConfirm or
\* cmdCancelConfirm: a header, and the body of the length it names.
Confirm ==
  /\ proxy = "connected" /\ Len(fromVelo) >= 2
  /\ fromVelo[1].part = "header" /\ fromVelo[2].part = "body"
  /\ fromVelo' = SubSeq(fromVelo, 3, Len(fromVelo))
  /\ toManager' = Append(toManager, fromVelo[1].reqno)
  /\ UNCHANGED <<manager, toAgent, toVelo, proxy, server, main, cmdSet,
                 failure, handler, sigPending, process, reaped, reported,
                 failed, incidents>>

\* Another header is read as the body, which is longer: from here on vela
\* takes the answers of velo from the wrong byte.
Torn ==
  /\ proxy = "connected" /\ Len(fromVelo) >= 2
  /\ fromVelo[1].part = "header" /\ fromVelo[2].part = "header"
  /\ proxy' = "astray"
  /\ fromVelo' = SubSeq(fromVelo, 3, Len(fromVelo))
  /\ toManager' = Append(toManager, fromVelo[1].reqno)
  /\ incidents' = incidents \union {"torn"}
  /\ UNCHANGED <<manager, toAgent, toVelo, server, main, cmdSet, failure,
                 handler, sigPending, process, reaped, reported, failed>>

\* What it reads there is ignored, or happens to be an answer to any request
\* (the model's bound: only while no other answer is under way to velm).
Astray ==
  /\ proxy = "astray" /\ fromVelo # <<>>
  /\ fromVelo' = Tail(fromVelo)
  /\ \/ UNCHANGED toManager
     \/ toManager = <<>> /\ \E n \in Numbers : toManager' = <<n>>
  /\ incidents' = incidents \union {"torn"}
  /\ UNCHANGED <<manager, toAgent, toVelo, proxy, server, main, cmdSet,
                 failure, handler, sigPending, process, reaped, reported,
                 failed>>

\* recvCmdExecConfirm, recvCmdCancelConfirm: an Execute statement is complete
\* whatever the result; an answer to no request is only complained about.
Complete ==
  /\ toManager # <<>>
  /\ toManager' = Tail(toManager)
  /\ outstanding' = outstanding \ {Head(toManager)}
  /\ confirms' = [r \in Requests |->
                    IF r = <<session, Head(toManager)>>
                    THEN confirms[r] + 1 ELSE confirms[r]]
  /\ UNCHANGED <<session, asked, toAgent, toVelo, proxy, fromVelo, server,
                 main, cmdSet, failure, handler, sigPending, process, reaped,
                 reported, failed, incidents>>

\* velm exits, vela deletes its TgServer and the proxy with it, velo its
\* TeServer.  Only sessions whose requests have reached velo end here.
SessionEnds ==
  /\ session < MaxSessions
  /\ toAgent = <<>> /\ toVelo = <<>> /\ proxy # "connecting" /\ server = "up"
  /\ pc = "idle" /\ handler = "off"
  /\ session' = session + 1 /\ asked' = 0 /\ outstanding' = {}
  /\ toManager' = <<>> /\ fromVelo' = <<>>
  /\ proxy' = "connecting" /\ server' = "gone"
  /\ incidents' = IF outstanding = {} THEN incidents
                  ELSE incidents \union {"abandoned"}
  /\ UNCHANGED <<confirms, toAgent, toVelo, main, cmdSet, failure, handler,
                 sigPending, process, reaped, reported, failed>>

----------------------------------------------------------------------------
(* velo, its main program; it stands still while the handler runs *)

\* TeAccept::accept.  The constructor does not set cmdSet_: the pointer is
\* null, or still that of the TeServer whose memory this one got.
Accept ==
  /\ handler = "off"
  /\ server = "gone" /\ proxy = "connected"
  /\ server' = "up"
  /\ failure' = FALSE
  /\ cmdSet' \in {{}, cmdSet}
  /\ UNCHANGED <<manager, links, fromVelo, main, handler, sigPending, process,
                 reaped, reported, failed, incidents>>

\* cmdExecRequest up to the return of vfork().  The kernel does not know that
\* cmdSet_ may still hold a command under the pid.
Fork ==
  /\ handler = "off" /\ pc = "idle" /\ server = "up" /\ toVelo # <<>>
  /\ toVelo' = Tail(toVelo)
  /\ \E p \in Free :
       /\ v' = [pid |-> p, req |-> <<session, Head(toVelo)>>]
       /\ process' = [process EXCEPT ![p] =
                        [state |-> "running", req |-> v'.req]]
       /\ incidents' = IF \E e \in cmdSet : e.pid = p
                       THEN incidents \union {"pid reused"} ELSE incidents
  /\ pc' = "forked"
  /\ UNCHANGED <<manager, toAgent, toManager, proxy, fromVelo, server, num,
                 cmdSet, failure, handler, sigPending, reaped, reported,
                 failed>>

\* vfork() fails: reported, but under header().request(), so that the answer
\* is one to request eCmdExec_ of the session.
ForkFails ==
  /\ handler = "off" /\ pc = "idle" /\ server = "up" /\ toVelo # <<>>
  /\ Cardinality(failed) < MaxForkErrors
  /\ failed' = failed \union {<<session, Head(toVelo)>>}
  /\ toVelo' = Tail(toVelo)
  /\ v' = [pid |-> 0, req |-> <<session, eCmdExec_>>]
  /\ pc' = "answer"
  /\ incidents' = incidents \union {"fork failed"}
  /\ UNCHANGED <<manager, toAgent, toManager, proxy, fromVelo, server, num,
                 cmdSet, failure, handler, sigPending, process, reaped,
                 reported>>

\* num=noOfElements()
Count ==
  /\ handler = "off" /\ pc = "forked"
  /\ num' = Cardinality(cmdSet)
  /\ pc' = "counted"
  /\ UNCHANGED <<manager, links, fromVelo, server, v, cmdSet, failure, handler,
                 sigPending, process, reaped, reported, failed, incidents>>

\* Mutant: the other commands are not looked at.
EndedEarly_Alone(n, f) == f

\* Mutant: the flag is not looked at.
EndedEarly_Never(n, f) == FALSE

\* num == 0 && get_find_reqno_failure(): the child is taken to have ended.
EndedEarly(n, f) == n = 0 /\ f

Test ==
  /\ handler = "off" /\ pc = "counted"
  /\ pc' = IF EndedEarly(num, failure) THEN "answer" ELSE "add"
  /\ UNCHANGED <<manager, links, fromVelo, server, v, num, cmdSet, failure,
                 handler, sigPending, process, reaped, reported, failed,
                 incidents>>

\* report() of the main program, which the handler may interrupt half way.
AnswerHeader ==
  /\ handler = "off" /\ pc = "answer"
  /\ fromVelo' = Append(fromVelo, Frame(v.req[2])[1])
  /\ pc' = "body"
  /\ UNCHANGED <<manager, links, server, v, num, cmdSet, failure, handler,
                 sigPending, process, reaped, reported, failed, incidents>>

AnswerBody ==
  /\ handler = "off" /\ pc = "body"
  /\ fromVelo' = Append(fromVelo, Frame(v.req[2])[2])
  /\ reported' = reported \union {v.req}
  /\ pc' = IF v.pid = 0 THEN "idle" ELSE "reset"
  /\ UNCHANGED <<manager, links, server, v, num, cmdSet, failure, handler,
                 sigPending, process, reaped, failed, incidents>>

\* Mutant: the flag stays set.
Flag_Stays(f) == f

\* set_find_reqno_failure(0)
FlagReset(f) == FALSE

Reset ==
  /\ handler = "off" /\ pc = "reset"
  /\ failure' = FlagReset(failure)
  /\ pc' = "idle"
  /\ UNCHANGED <<manager, links, fromVelo, server, v, num, cmdSet, handler,
                 sigPending, process, reaped, reported, failed, incidents>>

\* addCmd: a set, keyed by the pid, keeps the element it has.
Added(set, c) ==
  IF \E e \in set : e.pid = c.pid THEN set ELSE set \union {c}

Add ==
  /\ handler = "off" /\ pc = "add"
  /\ cmdSet' = Added(cmdSet, v)
  /\ pc' = "idle"
  /\ UNCHANGED <<manager, links, fromVelo, server, v, num, failure, handler,
                 sigPending, process, reaped, reported, failed, incidents>>

----------------------------------------------------------------------------
(* velo, its children and the handler *)

\* A child ends, or never got as far as exec().
ChildExits(p) ==
  /\ process[p].state = "running"
  /\ process' = [process EXCEPT ![p].state = "zombie"]
  /\ sigPending' = TRUE
  /\ incidents' = IF sigPending THEN incidents \union {"merged"} ELSE incidents
  /\ UNCHANGED <<manager, links, fromVelo, server, main, cmdSet, failure,
                 handler, reaped, reported, failed>>

\* SIGCHLD is delivered; until childEnd returns it is blocked.
ChildSignal ==
  /\ sigPending /\ handler = "off"
  /\ sigPending' = FALSE /\ handler' = "on"
  /\ UNCHANGED <<manager, links, fromVelo, server, main, cmdSet, failure,
                 process, reaped, reported, failed, incidents>>

\* The command would still be answered, by the main program.
InTime == (pc = "forked" /\ cmdSet = {}) \/ (pc = "counted" /\ num = 0)

\* Mutant: the element stays.
removeCmd_Not(set, e) == set

removeCmd(set, e) == set \ {e}

\* Mutant: wait() in a loop until no child is left to wait for.
Waited_All(zombies) == {zombies}

\* wait() takes one child that has ended.
Waited(zombies) == {{p} : p \in zombies}

\* childEnd: a report on the closed connection of a server gone is lost.
childEnd ==
  /\ handler = "on"
  /\ handler' = "off"
  /\ \E ended \in Waited(Zombies) :
       /\ process' = [p \in Pids |-> IF p \in ended THEN NoProcess ELSE process[p]]
       /\ reaped' = reaped \union {process[p].req : p \in ended}
       /\ \/ /\ \E e \in cmdSet :
                  /\ e.pid \in ended
                  /\ cmdSet' = removeCmd(cmdSet, e)
                  /\ IF server = "up"
                     THEN /\ fromVelo' = fromVelo \o Frame(e.req[2])
                          /\ reported' = reported \union {e.req}
                     ELSE UNCHANGED <<fromVelo, reported>>
             /\ UNCHANGED <<failure, incidents>>
          \/ /\ \A e \in cmdSet : e.pid \notin ended
             /\ failure' = TRUE
             /\ incidents' = IF InTime THEN incidents
                             ELSE incidents \union {"late"}
             /\ UNCHANGED <<cmdSet, fromVelo, reported>>
  /\ UNCHANGED <<manager, links, server, main, sigPending, failed>>

----------------------------------------------------------------------------
Main == Accept \/ Fork \/ Count \/ Test \/ AnswerHeader \/ AnswerBody
          \/ Reset \/ Add

Next ==
  \/ Ask \/ Forward \/ ProxyStart \/ Confirm \/ Torn \/ Astray \/ Complete
  \/ SessionEnds
  \/ Main \/ ForkFails
  \/ ChildSignal \/ childEnd
  \/ \E p \in Pids : ChildExits(p)

\* The dispatch loops of the three programs serve what is ready, a pending
\* signal is delivered, and a command that was started ends.
Fairness ==
  /\ WF_vars(Forward) /\ WF_vars(ProxyStart)
  /\ WF_vars(Confirm) /\ WF_vars(Complete)
  /\ WF_vars(Main) /\ WF_vars(ChildSignal) /\ WF_vars(childEnd)
  /\ \A p \in Pids : WF_vars(ChildExits(p))

Spec == Init /\ [][Next]_vars
FairSpec == Spec /\ Fairness

----------------------------------------------------------------------------
\* Every variable keeps its type, and cmdSet has one element for a pid.
TypeOK ==
  /\ session \in 1 .. MaxSessions /\ asked \in 0 .. MaxCommands
  /\ outstanding \subseteq 1 .. MaxCommands
  /\ toAgent \in Seq(1 .. MaxCommands) /\ toVelo \in Seq(1 .. MaxCommands)
  /\ fromVelo \in Seq(Parts) /\ toManager \in Seq(Numbers)
  /\ proxy \in {"connecting", "connected", "astray"} /\ server \in {"gone", "up"}
  /\ pc \in {"idle", "forked", "counted", "answer", "body", "reset", "add"}
  /\ v \in [pid : Pids \union {0}, req : Named] /\ num \in Nat
  /\ cmdSet \subseteq Commands
  /\ \A d, e \in cmdSet : d.pid = e.pid => d = e
  /\ failure \in BOOLEAN /\ sigPending \in BOOLEAN
  /\ handler \in {"off", "on"}
  /\ process \in [Pids -> [state : {"free", "running", "zombie"}, req : Named]]
  /\ confirms \in [Requests -> Nat]
  /\ reaped \subseteq Named /\ reported \subseteq Named /\ failed \subseteq Requests
  /\ incidents \subseteq {"dropped", "abandoned", "fork failed", "merged", "late",
                           "pid reused", "torn"}

\* The wait() of childEnd always finds a child that has ended, although
\* signals merge: it neither blocks velo nor makes it exit.
WaitFindsChild == handler = "on" => Zombies # {}

\* vfork() failed for another request of the session, and its answer went, or
\* will go, to request r.
Mistaken(r) ==
  r[2] = eCmdExec_ /\ \E f \in failed : f[1] = r[1] /\ f[2] # eCmdExec_

\* As long as no session was left with commands open and no answer is torn,
\* velm gets at most one answer to a request, unless it is mistaken for one
\* whose vfork() failed: handler and main program never both send it.
AnsweredOnce ==
  incidents \intersect {"abandoned", "torn"} = {} =>
    \A r \in Requests : confirms[r] <= 1 \/ Mistaken(r)

\* Under the same conditions, and as long as no pid is used again that cmdSet_
\* still holds, no command is answered before it has ended: the flag that
\* childEnd leaves is not taken for that of another command, although it may
\* stay set for long.
AnsweredAfterEnd ==
  incidents \intersect {"abandoned", "pid reused", "torn"} = {} =>
    \A r \in reported : r \in reaped \union failed \/ Mistaken(r)

\* The two halves of an answer stay together although the handler sends
\* answers in the middle of those of the main program.
FramesWhole ==
  "fork failed" \notin incidents =>
    \A i \in 1 .. Len(fromVelo) :
      IF i % 2 = 1 THEN fromVelo[i].part = "header"
      ELSE fromVelo[i] = [part |-> "body", reqno |-> fromVelo[i - 1].reqno]

\* When nothing that costs an answer happens, every command is answered: each
\* of the incidents is a way to lose an answer, and there is no other.
AnsweredUnlessLost ==
  [](incidents = {}) =>
    \A r \in Requests : (session = r[1] /\ asked >= r[2])
                          ~> (confirms[r] > 0 \/ session > r[1])

\* The comment in expandRun: a command whose childEnd found no request is
\* answered by expandRun instead.  It is not, when cmdSet_ holds others or
\* when the child ended between the test of the flag and addCmd().
EarlyEndAnswered ==
  pc = "idle" /\ handler = "off" /\ server = "up" => reaped \subseteq reported
=============================================================================
