-------------------------- MODULE VelExec_proofs --------------------------
(***************************************************************************)
(* Proofs about VelExec: its types, that wait() always finds a child that  *)
(* has ended, that the halves of answers stay together, that no command is *)
(* answered before it has ended, and that none is answered twice, for any  *)
(* number of pids, sessions and commands.                                  *)
(***************************************************************************)
EXTENDS VelExec, FiniteSetTheorems, SequenceTheorems, TLAPS

\* The type invariant in parts, and what it rests on: cmdSet is finite, and
\* the child that expandRun has in hand is a process.
TManager ==
  /\ session \in 1 .. MaxSessions /\ asked \in 0 .. MaxCommands
  /\ outstanding \subseteq 1 .. MaxCommands
  /\ confirms \in [Requests -> Nat]
TLinks ==
  /\ toAgent \in Seq(1 .. MaxCommands) /\ toVelo \in Seq(1 .. MaxCommands)
  /\ toManager \in Seq(Numbers)
  /\ proxy \in {"connecting", "connected", "astray"} /\ server \in {"gone", "up"}
TAnswers == fromVelo \in Seq(Parts)
TMain ==
  /\ pc \in {"idle", "forked", "counted", "answer", "body", "reset", "add"}
  /\ v \in [pid : Pids \union {0}, req : Named] /\ num \in Nat
  /\ pc \in {"forked", "counted", "add"} => v.pid \in Pids
TSet ==
  /\ cmdSet \subseteq Commands /\ IsFiniteSet(cmdSet)
  /\ \A d, e \in cmdSet : d.pid = e.pid => d = e
TSignals ==
  /\ failure \in BOOLEAN /\ sigPending \in BOOLEAN
  /\ handler \in {"off", "on"}
TProcess == process \in [Pids -> [state : {"free", "running", "zombie"}, req : Named]]
THistory ==
  /\ reaped \subseteq Named /\ reported \subseteq Named /\ failed \subseteq Requests
  /\ incidents \subseteq {"dropped", "abandoned", "fork failed", "merged", "late",
                           "pid reused", "torn"}

TInv ==
  TManager /\ TLinks /\ TAnswers /\ TMain /\ TSet /\ TSignals /\ TProcess /\ THistory

LEMMA TInvTypeOK == TInv => TypeOK
BY
  DEF TInv, TypeOK, TManager, TLinks, TAnswers, TMain, TSet, TSignals, TProcess,
      THistory

LEMMA FrameType ==
  ASSUME NEW n \in Numbers
  PROVE  /\ Frame(n) \in Seq(Parts) /\ Len(Frame(n)) = 2
         /\ Frame(n)[1] = [part |-> "header", reqno |-> n]
         /\ Frame(n)[2] = [part |-> "body", reqno |-> n]
         /\ Frame(n)[1] \in Parts /\ Frame(n)[2] \in Parts
<1> DEFINE h == [part |-> "header", reqno |-> n]
           b == [part |-> "body", reqno |-> n]
<1>1. h \in Parts /\ b \in Parts
  BY DEF Parts
<1>2. Frame(n) = <<h, b>>
  BY DEF Frame
<1> HIDE DEF h, b
<1>3. <<h, b>> \in Seq(Parts) /\ Len(<<h, b>>) = 2 /\ <<h, b>>[1] = h /\ <<h, b>>[2] = b
  BY <1>1
<1>4. Frame(n) \in Seq(Parts) /\ Len(Frame(n)) = 2 /\ Frame(n)[1] = h /\ Frame(n)[2] = b
  BY <1>2, <1>3
<1> QED BY <1>1, <1>4 DEF h, b

LEMMA FrameNumber ==
  ASSUME NEW n \in Numbers
  PROVE  Frame(n)[1].reqno = n /\ Frame(n)[2].reqno = n
<1>1. Frame(n)[1] = [part |-> "header", reqno |-> n]
  BY FrameType
<1>2. Frame(n)[2] = [part |-> "body", reqno |-> n]
  BY FrameType
<1> QED BY <1>1, <1>2

LEMMA ReqNumber ==
  ASSUME NEW r \in Named
  PROVE  r[1] \in 1 .. MaxSessions /\ r[2] \in Numbers /\ r = <<r[1], r[2]>>
BY DEF Named, Numbers

LEMMA ReqName ==
  ASSUME NEW s \in 1 .. MaxSessions, NEW n \in Numbers
  PROVE  <<s, n>> \in Named
BY DEF Named, Numbers

\* The first pair of halves goes.
LEMMA ConfirmType ==
  ASSUME TAnswers, Len(fromVelo) >= 2
  PROVE  /\ fromVelo[1] \in Parts /\ fromVelo[2] \in Parts
         /\ SubSeq(fromVelo, 3, Len(fromVelo)) \in Seq(Parts)
         /\ Len(SubSeq(fromVelo, 3, Len(fromVelo))) = Len(fromVelo) - 2
         /\ \A i \in 1 .. Len(fromVelo) - 2 :
              SubSeq(fromVelo, 3, Len(fromVelo))[i] = fromVelo[i + 2]
<1> USE DEF TAnswers
<1>1. Len(fromVelo) \in Nat
  BY LenProperties
<1>2. /\ fromVelo[1] \in Parts /\ fromVelo[2] \in Parts
  BY <1>1, ElementOfSeq
<1>3. /\ SubSeq(fromVelo, 3, Len(fromVelo)) \in Seq(Parts)
      /\ Len(SubSeq(fromVelo, 3, Len(fromVelo)))
           = IF 3 <= Len(fromVelo) THEN Len(fromVelo) - 3 + 1 ELSE 0
      /\ \A i \in 1 .. Len(fromVelo) - 3 + 1 :
           SubSeq(fromVelo, 3, Len(fromVelo))[i] = fromVelo[3 + i - 1]
  <2>1. \A i \in 3 .. Len(fromVelo) : fromVelo[i] \in Parts
    BY <1>1, ElementOfSeq
  <2> QED BY <1>1, <2>1, SubSeqProperties
<1>4. Len(SubSeq(fromVelo, 3, Len(fromVelo))) = Len(fromVelo) - 2
  <2>1. \A n \in Nat : n >= 2 => (IF 3 <= n THEN n - 3 + 1 ELSE 0) = n - 2
    OBVIOUS
  <2> QED BY <1>1, <1>3, <2>1, Zenon
<1>5. ASSUME NEW i \in 1 .. Len(fromVelo) - 2
      PROVE  SubSeq(fromVelo, 3, Len(fromVelo))[i] = fromVelo[i + 2]
  <2>1. i \in 1 .. Len(fromVelo) - 3 + 1 /\ 3 + i - 1 = i + 2
    BY <1>1
  <2>2. SubSeq(fromVelo, 3, Len(fromVelo))[i] = fromVelo[3 + i - 1]
    BY <1>3, <2>1
  <2> QED BY <2>1, <2>2
<1> QED BY <1>2, <1>3, <1>4, <1>5

LEMMA TInit == Init => TInv
<1> SUFFICES ASSUME Init PROVE TInv  OBVIOUS
<1> USE ExecAssumption DEF Init
<1>1. TManager
  BY DEF TManager, Requests
<1>2. TLinks /\ TAnswers
  BY EmptySeq DEF TLinks, TAnswers
<1>3. <<1, 1>> \in Named
  BY DEF Named, Numbers
<1>4. TMain /\ TSignals /\ THistory
  BY <1>3 DEF TMain, TSignals, THistory
<1>5. TSet
  BY FS_EmptySet DEF TSet
<1>6. TProcess
  BY <1>3 DEF TProcess, NoProcess
<1> QED BY <1>1, <1>2, <1>4, <1>5, <1>6 DEF TInv

LEMMA Typed == TInv /\ [Next]_vars => TInv'
<1> SUFFICES ASSUME TInv, [Next]_vars PROVE TInv'  OBVIOUS
<1>0. TManager /\ TLinks /\ TAnswers /\ TMain /\ TSet /\ TSignals /\ TProcess /\ THistory
  BY DEF TInv
<1> SUFFICES TManager' /\ TLinks' /\ TAnswers' /\ TMain' /\ TSet' /\ TSignals'
               /\ TProcess' /\ THistory'
  BY DEF TInv
<1>1. CASE UNCHANGED vars
  BY <1>0, <1>1 DEF vars, manager, links, main, TManager, TLinks, TAnswers, TMain, TSet,
                    TSignals, TProcess, THistory
<1>2. CASE Ask
  <2>1. TManager'
    BY <1>2, <1>0, ExecAssumption DEF Ask, TManager
  <2>2. TLinks'
    <3>1. asked' \in 1 .. MaxCommands
      BY <1>2, <1>0, ExecAssumption DEF Ask, TManager
    <3>2. toAgent' \in Seq(1 .. MaxCommands)
      BY <1>2, <1>0, <3>1, AppendProperties DEF Ask, TLinks
    <3> QED BY <1>2, <1>0, <3>2 DEF Ask, TLinks
  <2>3. TAnswers' /\ TMain' /\ TSet' /\ TSignals' /\ TProcess' /\ THistory'
    BY <1>2, <1>0 DEF Ask, main, TAnswers, TMain, TSet, TSignals, TProcess, THistory
  <2> QED BY <2>1, <2>2, <2>3
<1>3. CASE Forward
  <2>1. TLinks'
    <3>1. Head(toAgent) \in 1 .. MaxCommands /\ Tail(toAgent) \in Seq(1 .. MaxCommands)
      BY <1>3, <1>0, HeadTailProperties DEF Forward, TLinks
    <3>2. Append(toVelo, Head(toAgent)) \in Seq(1 .. MaxCommands)
      BY <1>0, <3>1, AppendProperties DEF TLinks
    <3> QED BY <1>3, <1>0, <3>1, <3>2 DEF Forward, TLinks
  <2>2. THistory'
    BY <1>3, <1>0 DEF Forward, THistory
  <2>3. TManager' /\ TAnswers' /\ TMain' /\ TSet' /\ TSignals' /\ TProcess'
    BY <1>3, <1>0
      DEF Forward, manager, main, TManager, TAnswers, TMain, TSet, TSignals, TProcess
  <2> QED BY <2>1, <2>2, <2>3
<1>4. CASE ProxyStart
  <2>1. TLinks'
    BY <1>4, <1>0 DEF ProxyStart, TLinks
  <2>2. TManager' /\ TAnswers' /\ TMain' /\ TSet' /\ TSignals' /\ TProcess' /\ THistory'
    BY <1>4, <1>0
      DEF ProxyStart, manager, main, TManager, TAnswers, TMain, TSet, TSignals,
          TProcess, THistory
  <2> QED BY <2>1, <2>2
<1>5. CASE Confirm
  <2>1. TLinks'
    <3>1. fromVelo[1].reqno \in Numbers
      BY <1>5, <1>0, ConfirmType DEF Confirm, Parts
    <3>2. Append(toManager, fromVelo[1].reqno) \in Seq(Numbers)
      BY <1>0, <3>1, AppendProperties DEF TLinks
    <3> QED BY <1>5, <1>0, <3>2 DEF Confirm, TLinks
  <2>2. TAnswers'
    BY <1>5, <1>0, ConfirmType DEF Confirm, TAnswers
  <2>3. TManager' /\ TMain' /\ TSet' /\ TSignals' /\ TProcess' /\ THistory'
    BY <1>5, <1>0
      DEF Confirm, manager, main, TManager, TMain, TSet, TSignals, TProcess, THistory
  <2> QED BY <2>1, <2>2, <2>3
<1>6. CASE Complete
  <2>1. TManager'
    <3>1. \A r \in Requests : confirms[r] \in Nat /\ confirms[r] + 1 \in Nat
      BY <1>0 DEF TManager
    <3>2. confirms' \in [Requests -> Nat]
      BY <1>6, <3>1 DEF Complete
    <3>3. outstanding' \subseteq 1 .. MaxCommands /\ session' = session /\ asked' = asked
      BY <1>6, <1>0 DEF Complete, TManager
    <3> QED BY <1>0, <3>2, <3>3 DEF TManager
  <2>2. TLinks'
    <3>1. Tail(toManager) \in Seq(Numbers)
      BY <1>6, <1>0, HeadTailProperties DEF Complete, TLinks
    <3> QED BY <1>6, <1>0, <3>1 DEF Complete, TLinks
  <2>3. TAnswers' /\ TMain' /\ TSet' /\ TSignals' /\ TProcess' /\ THistory'
    BY <1>6, <1>0
      DEF Complete, main, TAnswers, TMain, TSet, TSignals, TProcess, THistory
  <2> QED BY <2>1, <2>2, <2>3
<1>7. CASE SessionEnds
  <2>1. TManager'
    BY <1>7, <1>0, ExecAssumption DEF SessionEnds, TManager
  <2>2. TLinks'
    BY <1>7, <1>0, EmptySeq DEF SessionEnds, TLinks
  <2>3. TAnswers'
    BY <1>7, EmptySeq DEF SessionEnds, TAnswers
  <2>4. THistory'
    BY <1>7, <1>0 DEF SessionEnds, THistory
  <2>5. TMain' /\ TSet' /\ TSignals' /\ TProcess'
    BY <1>7, <1>0 DEF SessionEnds, main, TMain, TSet, TSignals, TProcess
  <2> QED BY <2>1, <2>2, <2>3, <2>4, <2>5
<1>8. CASE Accept
  <2>1. TLinks'
    BY <1>8, <1>0 DEF Accept, TLinks, links
  <2>2. TSet'
    <3>1. cmdSet' \subseteq cmdSet
      BY <1>8 DEF Accept
    <3>2. IsFiniteSet(cmdSet')
      BY <1>0, <3>1, FS_Subset DEF TSet
    <3> QED BY <1>0, <3>1, <3>2 DEF TSet
  <2>3. TSignals'
    BY <1>8, <1>0 DEF Accept, TSignals
  <2>4. TManager' /\ TAnswers' /\ TMain' /\ TProcess' /\ THistory'
    BY <1>8, <1>0
      DEF Accept, manager, links, main, TManager, TAnswers, TMain, TProcess, THistory
  <2> QED BY <2>1, <2>2, <2>3, <2>4
<1>9. CASE Fork
  <2>1. TLinks'
    <3>1. Tail(toVelo) \in Seq(1 .. MaxCommands)
      BY <1>9, <1>0, HeadTailProperties DEF Fork, TLinks
    <3> QED BY <1>9, <1>0, <3>1 DEF Fork, TLinks
  <2>2. TMain' /\ TProcess'
    <3>1. Head(toVelo) \in 1 .. MaxCommands
      BY <1>9, <1>0, HeadTailProperties DEF Fork, TLinks
    <3>2. Head(toVelo) \in Numbers
      BY <3>1 DEF Numbers
    <3>3. <<session, Head(toVelo)>> \in Named
      BY <1>0, <3>2, ReqName DEF TManager
    <3>4. PICK p \in Free :
            /\ v' = [pid |-> p, req |-> <<session, Head(toVelo)>>]
            /\ process' = [process EXCEPT ![p] = [state |-> "running", req |-> v'.req]]
      BY <1>9 DEF Fork
    <3>5. v'.req \in Named /\ v'.pid = p /\ p \in Pids
      BY <3>3, <3>4 DEF Free
    <3>6. TMain'
      BY <1>9, <1>0, <3>3, <3>4, <3>5 DEF Fork, TMain
    <3>7. TProcess'
      BY <1>0, <3>4, <3>5 DEF TProcess
    <3> QED BY <3>6, <3>7
  <2>4. THistory'
    BY <1>9, <1>0 DEF Fork, THistory
  <2>5. TManager' /\ TAnswers' /\ TSet' /\ TSignals'
    BY <1>9, <1>0 DEF Fork, manager, TManager, TAnswers, TSet, TSignals
  <2> QED BY <2>1, <2>2, <2>4, <2>5
<1>10. CASE ForkFails
  <2>1. TLinks'
    <3>1. Tail(toVelo) \in Seq(1 .. MaxCommands)
      BY <1>10, <1>0, HeadTailProperties DEF ForkFails, TLinks
    <3> QED BY <1>10, <1>0, <3>1 DEF ForkFails, TLinks
  <2>2. TMain'
    <3>1. <<session, eCmdExec_>> \in Named
      BY <1>0, ReqName DEF TManager, Numbers
    <3> QED BY <1>10, <1>0, <3>1 DEF ForkFails, TMain
  <2>3. THistory'
    <3>1. failed' \subseteq Requests
      <4>1. Head(toVelo) \in 1 .. MaxCommands
        BY <1>10, <1>0, HeadTailProperties DEF ForkFails, TLinks
      <4>2. <<session, Head(toVelo)>> \in Requests
        BY <1>0, <4>1 DEF TManager, Requests
      <4> QED BY <1>10, <1>0, <4>2 DEF ForkFails, THistory
    <3>2. incidents' = incidents \union {"fork failed"} /\ reaped' = reaped /\ reported' = reported
      BY <1>10 DEF ForkFails
    <3>3. incidents' \subseteq {"dropped", "abandoned", "fork failed", "merged", "late",
                                 "pid reused", "torn"}
      BY <1>0, <3>2 DEF THistory
    <3>4. reaped' \subseteq Named /\ reported' \subseteq Named
      BY <1>0, <3>2 DEF THistory
    <3> QED BY <3>1, <3>3, <3>4 DEF THistory
  <2>4. TManager' /\ TAnswers' /\ TSet' /\ TSignals' /\ TProcess'
    BY <1>10, <1>0 DEF ForkFails, manager, TManager, TAnswers, TSet, TSignals, TProcess
  <2> QED BY <2>1, <2>2, <2>3, <2>4
<1>11. CASE Count
  <2>1. TMain'
    BY <1>11, <1>0, FS_CardinalityType DEF Count, TMain, TSet
  <2>2. TManager' /\ TLinks' /\ TAnswers' /\ TSet' /\ TSignals' /\ TProcess' /\ THistory'
    BY <1>11, <1>0
      DEF Count, manager, links, TManager, TLinks, TAnswers, TSet, TSignals,
          TProcess, THistory
  <2> QED BY <2>1, <2>2
<1>12. CASE Test
  <2>1. TMain'
    BY <1>12, <1>0 DEF Test, TMain
  <2>2. TManager' /\ TLinks' /\ TAnswers' /\ TSet' /\ TSignals' /\ TProcess' /\ THistory'
    BY <1>12, <1>0
      DEF Test, manager, links, TManager, TLinks, TAnswers, TSet, TSignals, TProcess,
          THistory
  <2> QED BY <2>1, <2>2
<1>13. CASE AnswerHeader
  <2>1. TAnswers'
    <3>1. v.req[2] \in Numbers
      BY <1>0, ReqNumber DEF TMain
    <3> QED BY <1>13, <1>0, <3>1, FrameType, AppendProperties DEF AnswerHeader, TAnswers
  <2>2. TMain'
    BY <1>13, <1>0 DEF AnswerHeader, TMain
  <2>3. TManager' /\ TLinks' /\ TSet' /\ TSignals' /\ TProcess' /\ THistory'
    BY <1>13, <1>0
      DEF AnswerHeader, manager, links, TManager, TLinks, TSet, TSignals, TProcess,
          THistory
  <2> QED BY <2>1, <2>2, <2>3
<1>14. CASE AnswerBody
  <2>1. TAnswers'
    <3>1. v.req[2] \in Numbers
      BY <1>0, ReqNumber DEF TMain
    <3> QED BY <1>14, <1>0, <3>1, FrameType, AppendProperties DEF AnswerBody, TAnswers
  <2>2. TMain'
    BY <1>14, <1>0 DEF AnswerBody, TMain
  <2>3. THistory'
    BY <1>14, <1>0 DEF AnswerBody, THistory, TMain
  <2>4. TManager' /\ TLinks' /\ TSet' /\ TSignals' /\ TProcess'
    BY <1>14, <1>0
      DEF AnswerBody, manager, links, TManager, TLinks, TSet, TSignals, TProcess
  <2> QED BY <2>1, <2>2, <2>3, <2>4
<1>15. CASE Reset
  <2>1. TMain'
    BY <1>15, <1>0 DEF Reset, TMain
  <2>2. TSignals'
    BY <1>15, <1>0 DEF Reset, FlagReset, TSignals
  <2>3. TManager' /\ TLinks' /\ TAnswers' /\ TSet' /\ TProcess' /\ THistory'
    BY <1>15, <1>0
      DEF Reset, manager, links, TManager, TLinks, TAnswers, TSet, TProcess, THistory
  <2> QED BY <2>1, <2>2, <2>3
<1>16. CASE Add
  <2>1. TMain'
    BY <1>16, <1>0 DEF Add, TMain
  <2>2. TSet'
    <3>1. v \in Commands
      BY <1>16, <1>0 DEF Add, TMain, Commands
    <3>2. IsFiniteSet(cmdSet')
      BY <1>16, <1>0, FS_AddElement DEF Add, Added, TSet
    <3> QED BY <1>16, <1>0, <3>1, <3>2 DEF Add, Added, TSet
  <2>3. TManager' /\ TLinks' /\ TAnswers' /\ TSignals' /\ TProcess' /\ THistory'
    BY <1>16, <1>0
      DEF Add, manager, links, TManager, TLinks, TAnswers, TSignals, TProcess, THistory
  <2> QED BY <2>1, <2>2, <2>3
<1>17. CASE ChildSignal
  <2>1. TSignals'
    BY <1>17, <1>0 DEF ChildSignal, TSignals
  <2>2. TManager' /\ TLinks' /\ TAnswers' /\ TMain' /\ TSet' /\ TProcess' /\ THistory'
    BY <1>17, <1>0
      DEF ChildSignal, manager, links, main, TManager, TLinks, TAnswers, TMain, TSet,
          TProcess, THistory
  <2> QED BY <2>1, <2>2
<1>18. CASE childEnd
  <2>1. TAnswers'
    <3>1. ASSUME NEW e \in cmdSet PROVE fromVelo \o Frame(e.req[2]) \in Seq(Parts)
      <4>1. e.req[2] \in Numbers
        BY <1>0, ReqNumber DEF TSet, Commands
      <4> QED BY <1>0, <4>1, FrameType, ConcatProperties DEF TAnswers
    <3> QED BY <1>18, <1>0, <3>1 DEF childEnd, TAnswers
  <2>2. TSet'
    <3>1. cmdSet' \subseteq cmdSet
      BY <1>18 DEF childEnd, removeCmd
    <3>2. IsFiniteSet(cmdSet')
      BY <1>0, <3>1, FS_Subset DEF TSet
    <3> QED BY <1>0, <3>1, <3>2 DEF TSet
  <2>3. TSignals'
    BY <1>18, <1>0 DEF childEnd, TSignals
  <2>4. TProcess'
    <3>1. NoProcess \in [state : {"free", "running", "zombie"}, req : Named]
      BY ExecAssumption DEF NoProcess, Named, Numbers
    <3> QED BY <1>18, <1>0, <3>1 DEF childEnd, TProcess
  <2>5. THistory'
    <3>1. \A e \in cmdSet : e.req \in Named
      BY <1>0 DEF TSet, Commands
    <3>2. \A ended \in Waited(Zombies) : {process[p].req : p \in ended} \subseteq Named
      BY <1>0 DEF TProcess, Waited, Zombies
    <3>3. reaped' \subseteq Named
      BY <1>18, <1>0, <3>2 DEF childEnd, THistory
    <3>4. reported' \subseteq Named
      <4>1. \/ reported' = reported
            \/ \E e \in cmdSet : reported' = reported \union {e.req}
        BY <1>18 DEF childEnd
      <4> QED BY <1>0, <3>1, <4>1 DEF THistory
    <3>5. incidents' \in {incidents, incidents \union {"late"}} /\ failed' = failed
      BY <1>18 DEF childEnd
    <3> QED BY <1>0, <3>3, <3>4, <3>5 DEF THistory
  <2>6. TManager' /\ TLinks' /\ TMain'
    BY <1>18, <1>0 DEF childEnd, manager, links, main, TManager, TLinks, TMain
  <2> QED BY <2>1, <2>2, <2>3, <2>4, <2>5, <2>6
<1>19. ASSUME NEW p \in Pids, ChildExits(p)
       PROVE  TManager' /\ TLinks' /\ TAnswers' /\ TMain' /\ TSet' /\ TSignals'
                /\ TProcess' /\ THistory'
  <2>1. TSignals'
    BY <1>19, <1>0 DEF ChildExits, TSignals
  <2>2. TProcess'
    BY <1>19, <1>0 DEF ChildExits, TProcess
  <2>3. THistory'
    BY <1>19, <1>0 DEF ChildExits, THistory
  <2>4. TManager' /\ TLinks' /\ TAnswers' /\ TMain' /\ TSet'
    BY <1>19, <1>0
      DEF ChildExits, manager, links, main, TManager, TLinks, TAnswers, TMain, TSet
  <2> QED BY <2>1, <2>2, <2>3, <2>4
<1>20. CASE Torn
  <2>1. TLinks'
    <3>1. fromVelo[1].reqno \in Numbers
      BY <1>20, <1>0, ConfirmType DEF Torn, Parts
    <3>2. Append(toManager, fromVelo[1].reqno) \in Seq(Numbers)
      BY <1>0, <3>1, AppendProperties DEF TLinks
    <3> QED BY <1>20, <1>0, <3>2 DEF Torn, TLinks
  <2>2. TAnswers'
    BY <1>20, <1>0, ConfirmType DEF Torn, TAnswers
  <2>3. THistory'
    BY <1>20, <1>0 DEF Torn, THistory
  <2>4. TManager' /\ TMain' /\ TSet' /\ TSignals' /\ TProcess'
    BY <1>20, <1>0 DEF Torn, manager, main, TManager, TMain, TSet, TSignals, TProcess
  <2> QED BY <2>1, <2>2, <2>3, <2>4
<1>21. CASE Astray
  <2>1. TLinks'
    <3>1. \A n \in Numbers : <<n>> \in Seq(Numbers)
      OBVIOUS
    <3> QED BY <1>21, <1>0, <3>1 DEF Astray, TLinks
  <2>2. TAnswers'
    BY <1>21, <1>0, HeadTailProperties DEF Astray, TAnswers
  <2>3. THistory'
    BY <1>21, <1>0 DEF Astray, THistory
  <2>4. TManager' /\ TMain' /\ TSet' /\ TSignals' /\ TProcess'
    BY <1>21, <1>0 DEF Astray, manager, main, TManager, TMain, TSet, TSignals, TProcess
  <2> QED BY <2>1, <2>2, <2>3, <2>4
<1> QED
  BY <1>1, <1>2, <1>3, <1>4, <1>5, <1>6, <1>7, <1>8, <1>9, <1>10, <1>11,
     <1>12, <1>13, <1>14, <1>15, <1>16, <1>17, <1>18, <1>19, <1>20, <1>21
    DEF Next, Main

LEMMA TypeAlways == Spec => []TInv
BY TInit, Typed, PTL DEF Spec

\* The types of the programs velm, vela and velo and of what is between them.
THEOREM TypeCorrect == Spec => []TypeOK
BY TypeAlways, TInvTypeOK, PTL

----------------------------------------------------------------------------
\* A signal stands for at least one child to wait for: while one is pending or
\* its handler runs there is a child that has ended, and two when both.
WaitInv ==
  /\ sigPending => Zombies # {}
  /\ handler = "on" => Zombies # {}
  /\ sigPending /\ handler = "on" => \E a, b \in Zombies : a # b

\* What the steps other than those of children and their handler leave alone.
LEMMA SameSignals ==
  ASSUME WaitInv, UNCHANGED <<handler, sigPending>>, Zombies \subseteq Zombies'
  PROVE  WaitInv'
BY DEF WaitInv

LEMMA SameZombies == UNCHANGED process => Zombies' = Zombies
BY DEF Zombies

LEMMA WaitStep == TInv /\ WaitInv /\ [Next]_vars => WaitInv'
<1> SUFFICES ASSUME TInv, WaitInv, [Next]_vars PROVE WaitInv'  OBVIOUS
<1>0. process \in [Pids -> [state : {"free", "running", "zombie"}, req : Named]]
  BY DEF TInv, TProcess
<1>1. CASE UNCHANGED vars
  <2>1. UNCHANGED <<process, handler, sigPending>>
    BY <1>1 DEF vars
  <2> QED BY <2>1, SameSignals, SameZombies
<1>2. CASE Ask
  <2>1. UNCHANGED <<process, handler, sigPending>>
    BY <1>2 DEF Ask
  <2> QED BY <2>1, SameSignals, SameZombies
<1>3. CASE Forward
  <2>1. UNCHANGED <<process, handler, sigPending>>
    BY <1>3 DEF Forward
  <2> QED BY <2>1, SameSignals, SameZombies
<1>4. CASE ProxyStart
  <2>1. UNCHANGED <<process, handler, sigPending>>
    BY <1>4 DEF ProxyStart
  <2> QED BY <2>1, SameSignals, SameZombies
<1>5. CASE Confirm
  <2>1. UNCHANGED <<process, handler, sigPending>>
    BY <1>5 DEF Confirm
  <2> QED BY <2>1, SameSignals, SameZombies
<1>6. CASE Complete
  <2>1. UNCHANGED <<process, handler, sigPending>>
    BY <1>6 DEF Complete
  <2> QED BY <2>1, SameSignals, SameZombies
<1>7. CASE SessionEnds
  <2>1. UNCHANGED <<process, handler, sigPending>>
    BY <1>7 DEF SessionEnds
  <2> QED BY <2>1, SameSignals, SameZombies
<1>8. CASE Accept
  <2>1. UNCHANGED <<process, handler, sigPending>>
    BY <1>8 DEF Accept
  <2> QED BY <2>1, SameSignals, SameZombies
<1>9. CASE Fork
  <2>1. UNCHANGED <<handler, sigPending>>
    BY <1>9 DEF Fork
  <2>2. PICK p \in Free : \E r : process' = [process EXCEPT ![p] = [state |-> "running", req |-> r]]
    BY <1>9 DEF Fork
  <2>3. ASSUME NEW z \in Zombies PROVE z \in Zombies'
    BY <1>0, <2>2 DEF Zombies, Free
  <2> QED BY <2>1, <2>3, SameSignals
<1>10. CASE ForkFails
  <2>1. UNCHANGED <<process, handler, sigPending>>
    BY <1>10 DEF ForkFails
  <2> QED BY <2>1, SameSignals, SameZombies
<1>11. CASE Count
  <2>1. UNCHANGED <<process, handler, sigPending>>
    BY <1>11 DEF Count
  <2> QED BY <2>1, SameSignals, SameZombies
<1>12. CASE Test
  <2>1. UNCHANGED <<process, handler, sigPending>>
    BY <1>12 DEF Test
  <2> QED BY <2>1, SameSignals, SameZombies
<1>13. CASE AnswerHeader
  <2>1. UNCHANGED <<process, handler, sigPending>>
    BY <1>13 DEF AnswerHeader
  <2> QED BY <2>1, SameSignals, SameZombies
<1>14. CASE AnswerBody
  <2>1. UNCHANGED <<process, handler, sigPending>>
    BY <1>14 DEF AnswerBody
  <2> QED BY <2>1, SameSignals, SameZombies
<1>15. CASE Reset
  <2>1. UNCHANGED <<process, handler, sigPending>>
    BY <1>15 DEF Reset
  <2> QED BY <2>1, SameSignals, SameZombies
<1>16. CASE Add
  <2>1. UNCHANGED <<process, handler, sigPending>>
    BY <1>16 DEF Add
  <2> QED BY <2>1, SameSignals, SameZombies
<1>17. CASE ChildSignal
  <2>1. UNCHANGED process /\ sigPending /\ sigPending' = FALSE
    BY <1>17 DEF ChildSignal
  <2> QED BY <2>1, SameZombies DEF WaitInv
<1>18. CASE childEnd
  <2>1. PICK p \in Zombies :
          process' = [q \in Pids |-> IF q \in {p} THEN NoProcess ELSE process[q]]
    BY <1>18 DEF childEnd, Waited
  <2>2. handler = "on" /\ handler' = "off" /\ sigPending' = sigPending
    BY <1>18 DEF childEnd
  <2>3. \A z \in Zombies : z # p => z \in Zombies'
    BY <1>0, <2>1 DEF Zombies
  <2> QED BY <2>2, <2>3 DEF WaitInv
<1>19. ASSUME NEW p \in Pids, ChildExits(p) PROVE WaitInv'
  <2>1. /\ process[p].state = "running" /\ handler' = handler
        /\ process' = [process EXCEPT ![p].state = "zombie"]
    BY <1>19 DEF ChildExits
  <2>2. p \notin Zombies /\ p \in Zombies' /\ \A z \in Zombies : z \in Zombies'
    BY <1>0, <2>1 DEF Zombies
  <2> QED BY <2>1, <2>2 DEF WaitInv
<1>20. CASE Torn \/ Astray
  <2>1. UNCHANGED <<process, handler, sigPending>>
    BY <1>20 DEF Torn, Astray
  <2> QED BY <2>1, SameSignals, SameZombies
<1> QED
  BY <1>1, <1>2, <1>3, <1>4, <1>5, <1>6, <1>7, <1>8, <1>9, <1>10, <1>11,
     <1>12, <1>13, <1>14, <1>15, <1>16, <1>17, <1>18, <1>19, <1>20 DEF Next, Main

\* wait() in childEnd finds a child that has ended, however signals merge, so
\* it neither blocks velo nor makes it exit (TeServer.cc, childEnd).
THEOREM WaitCorrect == Spec => []WaitFindsChild
<1>1. Init => WaitInv
  BY DEF Init, WaitInv
<1>2. WaitInv => WaitFindsChild
  BY DEF WaitInv, WaitFindsChild
<1> QED BY <1>1, <1>2, WaitStep, TypeAlways, PTL DEF Spec

----------------------------------------------------------------------------
\* When expandRun answers for a child that ended early, cmdSet is empty, so
\* the handler sends nothing in the middle of that answer.
Alone ==
  /\ server = "gone" => pc = "idle"
  /\ pc = "counted" /\ num = 0 => cmdSet = {}
  /\ pc \in {"answer", "body", "reset"} => cmdSet = {}

Whole(s) ==
  \A i \in 1 .. Len(s) :
    IF i % 2 = 1 THEN s[i].part = "header"
    ELSE s[i] = [part |-> "body", reqno |-> s[i - 1].reqno]

\* What of an answer is out: its header alone between the two sends.
Halves ==
  /\ Whole(fromVelo)
  /\ pc = "body" => /\ Len(fromVelo) % 2 = 1
                    /\ fromVelo[Len(fromVelo)] = [part |-> "header", reqno |-> v.req[2]]
  /\ pc # "body" => Len(fromVelo) % 2 = 0
  /\ proxy # "astray"

FrameInv == "fork failed" \notin incidents => Alone /\ Halves

LEMMA AloneStep ==
  ASSUME TInv, [Next]_vars, Alone, "fork failed" \notin incidents'
  PROVE  Alone'
<1> USE DEF Alone
<1>0. /\ IsFiniteSet(cmdSet) /\ cmdSet' \in SUBSET cmdSet => cmdSet' = {} \/ cmdSet # {}
      /\ Cardinality(cmdSet) = 0 => cmdSet = {}
  BY FS_EmptySet DEF TInv, TSet
<1>1. CASE UNCHANGED vars
  BY <1>1 DEF vars, main
<1>2. CASE Ask
  BY <1>2 DEF Ask, main
<1>3. CASE Forward
  BY <1>3 DEF Forward, main
<1>4. CASE ProxyStart
  BY <1>4 DEF ProxyStart, main
<1>5. CASE Confirm
  BY <1>5 DEF Confirm, main
<1>6. CASE Complete
  BY <1>6 DEF Complete, main
<1>7. CASE SessionEnds
  BY <1>7 DEF SessionEnds, main
<1>8. CASE Accept
  BY <1>8 DEF Accept, main
<1>9. CASE Fork
  BY <1>9 DEF Fork
<1>10. CASE ForkFails
  BY <1>10 DEF ForkFails
<1>11. CASE Count
  BY <1>11, <1>0 DEF Count
<1>12. CASE Test
  BY <1>12 DEF Test, EndedEarly
<1>13. CASE AnswerHeader
  BY <1>13 DEF AnswerHeader
<1>14. CASE AnswerBody
  BY <1>14 DEF AnswerBody
<1>15. CASE Reset
  BY <1>15 DEF Reset
<1>16. CASE Add
  BY <1>16 DEF Add
<1>17. CASE ChildSignal
  BY <1>17 DEF ChildSignal, main
<1>18. CASE childEnd
  <2>1. cmdSet' \subseteq cmdSet /\ UNCHANGED <<server, pc, num>>
    BY <1>18 DEF childEnd, removeCmd, main
  <2> QED BY <2>1
<1>19. ASSUME NEW p \in Pids, ChildExits(p) PROVE Alone'
  BY <1>19 DEF ChildExits, main
<1>20. CASE Torn \/ Astray
  BY <1>20 DEF Torn, Astray, main
<1> QED
  BY <1>1, <1>2, <1>3, <1>4, <1>5, <1>6, <1>7, <1>8, <1>9, <1>10, <1>11,
     <1>12, <1>13, <1>14, <1>15, <1>16, <1>17, <1>18, <1>19, <1>20 DEF Next, Main

\* What is written in pairs is read in pairs.
LEMMA WholeConfirm ==
  ASSUME TAnswers, Whole(fromVelo), Len(fromVelo) >= 2
  PROVE  Whole(SubSeq(fromVelo, 3, Len(fromVelo)))
<1> DEFINE rest == SubSeq(fromVelo, 3, Len(fromVelo))
<1>1. /\ Len(fromVelo) \in Nat /\ Len(rest) = Len(fromVelo) - 2
      /\ \A i \in 1 .. Len(fromVelo) - 2 : rest[i] = fromVelo[i + 2]
  BY ConfirmType, LenProperties DEF TAnswers
<1> HIDE DEF rest
<1> SUFFICES ASSUME NEW i \in 1 .. Len(rest)
             PROVE  IF i % 2 = 1 THEN rest[i].part = "header"
                    ELSE rest[i] = [part |-> "body", reqno |-> rest[i - 1].reqno]
  BY DEF Whole, rest
<1>2. i + 2 \in 1 .. Len(fromVelo) /\ (i + 2) % 2 = i % 2 /\ rest[i] = fromVelo[i + 2]
  <2>1. i \in Nat /\ i \in 1 .. Len(fromVelo) - 2
    BY <1>1
  <2>2. (i + 2) % 2 = i % 2
    BY <2>1
  <2> QED BY <1>1, <2>1, <2>2
<1>3. IF (i + 2) % 2 = 1 THEN fromVelo[i + 2].part = "header"
      ELSE fromVelo[i + 2] = [part |-> "body", reqno |-> fromVelo[i + 2 - 1].reqno]
  BY <1>2 DEF Whole
<1>4. CASE i % 2 = 1
  BY <1>2, <1>4, <1>3
<1>5. CASE i % 2 # 1
  <2>1. i - 1 \in 1 .. Len(fromVelo) - 2 /\ i - 1 + 2 = i + 2 - 1
    BY <1>1, <1>5
  <2>2. rest[i - 1] = fromVelo[i + 2 - 1]
    BY <1>1, <2>1
  <2> QED BY <1>2, <1>5, <1>3, <2>2
<1> QED BY <1>4, <1>5

LEMMA WholeHeader ==
  ASSUME NEW s \in Seq(Parts), Whole(s), Len(s) % 2 = 0,
         NEW h \in Parts, h.part = "header"
  PROVE  Whole(Append(s, h))
<1> DEFINE t == Append(s, h)
<1>1. /\ Len(s) \in Nat /\ Len(t) = Len(s) + 1 /\ t[Len(s) + 1] = h
      /\ \A i \in 1 .. Len(s) : t[i] = s[i]
  BY LenProperties, AppendProperties
<1> HIDE DEF t
<1> SUFFICES ASSUME NEW i \in 1 .. Len(t)
             PROVE  IF i % 2 = 1 THEN t[i].part = "header"
                    ELSE t[i] = [part |-> "body", reqno |-> t[i - 1].reqno]
  BY DEF Whole, t
<1>2. CASE i = Len(s) + 1
  BY <1>1, <1>2
<1>3. CASE i # Len(s) + 1
  <2>1. i \in 1 .. Len(s) /\ t[i] = s[i] /\ (i % 2 # 1 => i - 1 \in 1 .. Len(s))
    BY <1>1, <1>3
  <2>2. i % 2 # 1 => t[i - 1] = s[i - 1]
    BY <1>1, <2>1
  <2>3. IF i % 2 = 1 THEN s[i].part = "header"
        ELSE s[i] = [part |-> "body", reqno |-> s[i - 1].reqno]
    BY <2>1 DEF Whole
  <2> QED BY <2>1, <2>2, <2>3
<1> QED BY <1>2, <1>3

LEMMA WholeBody ==
  ASSUME NEW s \in Seq(Parts), Whole(s), Len(s) % 2 = 1,
         NEW b \in Parts, b = [part |-> "body", reqno |-> s[Len(s)].reqno]
  PROVE  Whole(Append(s, b))
<1> DEFINE t == Append(s, b)
<1>1. /\ Len(s) \in Nat /\ Len(t) = Len(s) + 1 /\ t[Len(s) + 1] = b
      /\ \A i \in 1 .. Len(s) : t[i] = s[i]
  BY LenProperties, AppendProperties
<1> HIDE DEF t
<1> SUFFICES ASSUME NEW i \in 1 .. Len(t)
             PROVE  IF i % 2 = 1 THEN t[i].part = "header"
                    ELSE t[i] = [part |-> "body", reqno |-> t[i - 1].reqno]
  BY DEF Whole, t
<1>2. CASE i = Len(s) + 1
  <2>1. i % 2 # 1 /\ i - 1 = Len(s) /\ Len(s) \in 1 .. Len(s)
    BY <1>1, <1>2
  <2> QED BY <1>1, <1>2, <2>1
<1>3. CASE i # Len(s) + 1
  <2>1. i \in 1 .. Len(s) /\ t[i] = s[i] /\ (i % 2 # 1 => i - 1 \in 1 .. Len(s))
    BY <1>1, <1>3
  <2>2. i % 2 # 1 => t[i - 1] = s[i - 1]
    BY <1>1, <2>1
  <2>3. IF i % 2 = 1 THEN s[i].part = "header"
        ELSE s[i] = [part |-> "body", reqno |-> s[i - 1].reqno]
    BY <2>1 DEF Whole
  <2> QED BY <2>1, <2>2, <2>3
<1> QED BY <1>2, <1>3

\* What is whole is not read torn.
LEMMA NotAstray ==
  ASSUME TInv, Halves, [Next]_vars
  PROVE  ~ Torn /\ ~ Astray /\ proxy' # "astray"
<1>0. fromVelo \in Seq(Parts) /\ Len(fromVelo) \in Nat
  BY LenProperties DEF TInv, TAnswers
<1>1. ~ Torn
  <2>1. SUFFICES ASSUME Torn PROVE FALSE
    OBVIOUS
  <2>2. 2 \in 1 .. Len(fromVelo) /\ 2 % 2 # 1 /\ fromVelo[2].part = "header"
    BY <1>0, <2>1 DEF Torn
  <2>3. fromVelo[2] = [part |-> "body", reqno |-> fromVelo[2 - 1].reqno]
    BY <2>2 DEF Halves, Whole
  <2> QED BY <2>2, <2>3
<1>2. ~ Astray
  BY DEF Astray, Halves
<1>3. CASE UNCHANGED vars \/ Ask \/ Forward \/ ProxyStart \/ Confirm \/ Complete \/ SessionEnds
  BY <1>1, <1>2, <1>3 DEF vars, Ask, Forward, ProxyStart, Confirm, Complete, SessionEnds,
                          links, Halves
<1>4. CASE Main \/ ForkFails
  BY <1>1, <1>2, <1>4 DEF Main, Accept, Fork, Count, Test, AnswerHeader, AnswerBody, Reset,
                          Add, ForkFails, links, Halves
<1>5. CASE ChildSignal \/ childEnd \/ \E p \in Pids : ChildExits(p)
  BY <1>1, <1>2, <1>5 DEF ChildSignal, childEnd, ChildExits, links, Halves
<1> QED BY <1>1, <1>2, <1>3, <1>4, <1>5 DEF Next

LEMMA SameHalves ==
  ASSUME Halves, UNCHANGED fromVelo, proxy' # "astray",
         pc = "body" => UNCHANGED v, pc = "body" <=> pc' = "body"
  PROVE  Halves'
BY DEF Halves, Whole

LEMMA HalvesStep ==
  ASSUME TInv, Alone, Halves, [Next]_vars
  PROVE  Halves'
<1>0. fromVelo \in Seq(Parts) /\ Len(fromVelo) \in Nat
  BY LenProperties DEF TInv, TAnswers
<1> ~ Torn /\ ~ Astray /\ proxy' # "astray"
  BY NotAstray
<1>1. CASE UNCHANGED vars
  BY <1>1, SameHalves DEF vars, main
<1>2. CASE Ask
  BY <1>2, SameHalves DEF Ask, main
<1>3. CASE Forward
  BY <1>3, SameHalves DEF Forward, main
<1>4. CASE ProxyStart
  BY <1>4, SameHalves DEF ProxyStart, main
<1>5. CASE Confirm
  <2>1. /\ fromVelo' = SubSeq(fromVelo, 3, Len(fromVelo)) /\ Len(fromVelo) >= 2
        /\ UNCHANGED <<pc, v>>
    BY <1>5 DEF Confirm, main
  <2>2. Whole(fromVelo')
    BY <2>1, WholeConfirm DEF Halves, TInv
  <2>3. /\ Len(fromVelo') = Len(fromVelo) - 2
        /\ \A i \in 1 .. Len(fromVelo) - 2 : fromVelo'[i] = fromVelo[i + 2]
    BY <2>1, ConfirmType DEF TInv
  <2>4. Len(fromVelo') % 2 = Len(fromVelo) % 2
    <3>1. \A n \in Nat : n >= 2 => (n - 2) % 2 = n % 2
      OBVIOUS
    <3> QED BY <1>0, <2>1, <2>3, <3>1
  <2>5. ASSUME pc' = "body"
        PROVE  fromVelo'[Len(fromVelo')] = [part |-> "header", reqno |-> v'.req[2]]
    <3>1. Len(fromVelo) % 2 = 1 /\ fromVelo[Len(fromVelo)] = [part |-> "header", reqno |-> v.req[2]]
      BY <2>1, <2>5 DEF Halves
    <3>2. Len(fromVelo) # 2
      BY <3>1
    <3>3. Len(fromVelo) - 2 \in 1 .. Len(fromVelo) - 2 /\ Len(fromVelo) - 2 + 2 = Len(fromVelo)
      <4>1. \A n \in Nat : n >= 2 /\ n # 2 => n - 2 \in 1 .. n - 2 /\ n - 2 + 2 = n
        OBVIOUS
      <4> QED BY <1>0, <2>1, <3>2, <4>1, Zenon
    <3>4. fromVelo'[Len(fromVelo) - 2] = fromVelo[Len(fromVelo) - 2 + 2]
      BY <2>3, <3>3
    <3>5. fromVelo'[Len(fromVelo')] = fromVelo[Len(fromVelo)] /\ v' = v
      <4>1. v' = v /\ Len(fromVelo') = Len(fromVelo) - 2
        BY <2>1, <2>3
      <4>2. Len(fromVelo) - 2 + 2 = Len(fromVelo)
        BY <1>0
      <4> QED BY <3>4, <4>1, <4>2
    <3> QED BY <3>1, <3>5
  <2> QED BY <2>1, <2>2, <2>4, <2>5 DEF Halves, Whole
<1>6. CASE Complete
  BY <1>6, SameHalves DEF Complete, main
<1>7. CASE SessionEnds
  <2>1. fromVelo' = <<>> /\ pc' # "body"
    BY <1>7 DEF SessionEnds, main
  <2> QED BY <2>1 DEF Halves, Whole
<1>8. CASE Accept
  BY <1>8, SameHalves DEF Accept, main
<1>9. CASE Fork
  BY <1>9, SameHalves DEF Fork, main
<1>10. CASE ForkFails
  BY <1>10, SameHalves DEF ForkFails, main
<1>11. CASE Count
  BY <1>11, SameHalves DEF Count, main
<1>12. CASE Test
  BY <1>12, SameHalves DEF Test, main
<1>13. CASE AnswerHeader
  <2> DEFINE h == [part |-> "header", reqno |-> v.req[2]]
  <2>1. h = Frame(v.req[2])[1] /\ h \in Parts /\ h.part = "header"
    BY FrameType, ReqNumber DEF TInv, TMain
  <2>2. pc = "answer" /\ pc' = "body" /\ v' = v /\ fromVelo' = Append(fromVelo, h)
    BY <1>13, <2>1 DEF AnswerHeader
  <2>3. Whole(fromVelo') /\ Len(fromVelo) % 2 = 0
    <3>1. Whole(fromVelo) /\ Len(fromVelo) % 2 = 0
      BY <2>2 DEF Halves
    <3> HIDE DEF h
    <3>2. Whole(Append(fromVelo, h))
      BY <1>0, <2>1, <3>1, WholeHeader
    <3> QED BY <2>2, <3>1, <3>2
  <2>4. Len(fromVelo') = Len(fromVelo) + 1 /\ fromVelo'[Len(fromVelo) + 1] = h
    BY <1>0, <2>1, <2>2, AppendProperties
  <2>5. Len(fromVelo') % 2 = 1
    BY <1>0, <2>3, <2>4
  <2> QED BY <2>2, <2>3, <2>4, <2>5 DEF Halves, Whole
<1>14. CASE AnswerBody
  <2> DEFINE b == [part |-> "body", reqno |-> v.req[2]]
  <2>1. b = Frame(v.req[2])[2] /\ b \in Parts
    BY FrameType, ReqNumber DEF TInv, TMain
  <2>2. pc = "body" /\ pc' # "body" /\ fromVelo' = Append(fromVelo, b)
    BY <1>14, <2>1 DEF AnswerBody
  <2>3. Len(fromVelo) % 2 = 1 /\ fromVelo[Len(fromVelo)].reqno = v.req[2]
    BY <2>2 DEF Halves
  <2>4. Whole(fromVelo')
    BY <1>0, <2>1, <2>2, <2>3, WholeBody DEF Halves
  <2>5. Len(fromVelo') = Len(fromVelo) + 1
    BY <1>0, <2>1, <2>2, AppendProperties
  <2>6. Len(fromVelo') % 2 = 0
    BY <1>0, <2>3, <2>5
  <2> QED BY <2>2, <2>4, <2>6 DEF Halves, Whole
<1>15. CASE Reset
  BY <1>15, SameHalves DEF Reset, main
<1>16. CASE Add
  BY <1>16, SameHalves DEF Add, main
<1>17. CASE ChildSignal
  BY <1>17, SameHalves DEF ChildSignal, main
<1>18. CASE childEnd
  <2>1. /\ UNCHANGED <<server, pc, v>>
        /\ \/ UNCHANGED fromVelo
           \/ \E e \in cmdSet : server = "up" /\ fromVelo' = fromVelo \o Frame(e.req[2])
    BY <1>18 DEF childEnd, main
  <2>2. CASE UNCHANGED fromVelo
    BY <2>1, <2>2, SameHalves
  <2>3. CASE \E e \in cmdSet : server = "up" /\ fromVelo' = fromVelo \o Frame(e.req[2])
    <3>1. PICK e \in cmdSet : fromVelo' = fromVelo \o Frame(e.req[2])
      BY <2>3
    <3>2. pc \notin {"body"} /\ Whole(fromVelo) /\ Len(fromVelo) % 2 = 0
      BY <3>1 DEF Alone, Halves
    <3>3. e.req[2] \in Numbers
      BY <3>1, ReqNumber DEF TInv, TSet, Commands
    <3> DEFINE h == [part |-> "header", reqno |-> e.req[2]]
               b == [part |-> "body", reqno |-> e.req[2]]
               s == Append(fromVelo, h)
    <3>4. h \in Parts /\ b \in Parts /\ Frame(e.req[2]) = <<h, b>>
      BY <3>3 DEF Parts, Frame
    <3>5. fromVelo' = Append(s, b)
      BY <1>0, <3>1, <3>4
    <3>6. /\ s \in Seq(Parts) /\ Len(s) = Len(fromVelo) + 1 /\ s[Len(s)] = h
      BY <1>0, <3>4, AppendProperties
    <3>7. Whole(s) /\ Len(s) % 2 = 1
      <4>1. Whole(s)
        BY <1>0, <3>2, <3>4, WholeHeader
      <4> QED BY <1>0, <3>2, <3>6, <4>1
    <3>8. s[Len(s)].reqno = e.req[2]
      BY <3>6
    <3> HIDE DEF s
    <3>9. Whole(Append(s, b))
      BY <3>4, <3>6, <3>7, <3>8, WholeBody
    <3>10. Len(Append(s, b)) % 2 = 0
      <4>1. Len(Append(s, b)) = Len(fromVelo) + 1 + 1
        BY <3>4, <3>6, AppendProperties
      <4> QED BY <1>0, <3>2, <4>1
    <3> QED BY <2>1, <3>2, <3>5, <3>9, <3>10 DEF Halves, Whole
  <2> QED BY <2>1, <2>2, <2>3
<1>19. ASSUME NEW p \in Pids, ChildExits(p) PROVE Halves'
  BY <1>19, SameHalves DEF ChildExits, main
<1> QED
  BY <1>1, <1>2, <1>3, <1>4, <1>5, <1>6, <1>7, <1>8, <1>9, <1>10, <1>11,
     <1>12, <1>13, <1>14, <1>15, <1>16, <1>17, <1>18, <1>19 DEF Next, Main

\* An incident is never forgotten.
LEMMA IncidentsGrow == [Next]_vars => incidents \subseteq incidents'
<1> SUFFICES ASSUME [Next]_vars PROVE incidents \subseteq incidents'  OBVIOUS
<1>1. CASE UNCHANGED vars \/ Ask \/ ProxyStart \/ Confirm \/ Complete \/ Accept
  BY <1>1 DEF vars, Ask, ProxyStart, Confirm, Complete, Accept
<1>2. CASE Forward \/ SessionEnds \/ ForkFails \/ Torn \/ Astray \/ \E p \in Pids : ChildExits(p)
  BY <1>2 DEF Forward, SessionEnds, ForkFails, Torn, Astray, ChildExits
<1>3. CASE Fork \/ childEnd
  BY <1>3 DEF Fork, childEnd
<1>4. CASE Count \/ Test \/ AnswerHeader \/ AnswerBody \/ Reset \/ Add \/ ChildSignal
  BY <1>4 DEF Count, Test, AnswerHeader, AnswerBody, Reset, Add, ChildSignal
<1> QED BY <1>1, <1>2, <1>3, <1>4 DEF Next, Main

\* The header and the body of an answer stay together on the connection to
\* vela, although the handler sends answers whenever a child ends
\* (TeServer.cc, report; TeIF.cc, receivePacket): as long as vfork() works.
THEOREM FramesCorrect == Spec => []FramesWhole
<1>1. Init => FrameInv
  <2>1. Init => Alone
    BY DEF Init, Alone
  <2>2. Init => Halves
    BY DEF Init, Halves, Whole
  <2> QED BY <2>1, <2>2 DEF FrameInv
<1>2. TInv /\ FrameInv /\ [Next]_vars => FrameInv'
  BY AloneStep, HalvesStep, IncidentsGrow DEF FrameInv
<1>3. FrameInv => FramesWhole
  BY DEF FrameInv, FramesWhole, Halves, Whole
<1> QED BY <1>1, <1>2, <1>3, TypeAlways, PTL DEF Spec

----------------------------------------------------------------------------
\* Why no command is answered before it has ended, as long as no session is
\* left with commands open, no pid is used again that cmdSet still holds, and
\* no answer is torn.
Kept == incidents \intersect {"abandoned", "pid reused", "torn"} = {}

Live == {p \in Pids : process[p].state # "free"}

\* expandRun has the child p in hand, not yet in cmdSet.
InHand(p) == pc \in {"forked", "counted", "add"} /\ v.pid = p

\* A request of this session that velo has already started.
Passed(n) ==
  /\ n <= asked
  /\ \A i \in 1 .. Len(toAgent) : n < toAgent[i]
  /\ \A i \in 1 .. Len(toVelo) : n < toVelo[i]

\* An answer under the number n may be that of a failed vfork(), and that of
\* another request: then n may be complete although its command is under way.
\* Such a session does not end with nothing open: the other request stays.
Wrong(n) == n = eCmdExec_ /\ \E f \in failed : f[1] = session
Shared(n) == n = eCmdExec_ /\ \E f \in failed : f[1] = session /\ f[2] # eCmdExec_
Due == outstanding \union {n \in {eCmdExec_} : Shared(n)}

\* Requests go to velo in the order of their numbers, each once.
Pipes ==
  /\ \A i \in 1 .. Len(toAgent) : toAgent[i] \in Due /\ toAgent[i] <= asked
  /\ \A i \in 1 .. Len(toVelo) : toVelo[i] \in Due /\ toVelo[i] <= asked
  /\ \A i, j \in 1 .. Len(toAgent) : i < j => toAgent[i] < toAgent[j]
  /\ \A i, j \in 1 .. Len(toVelo) : i < j => toVelo[i] < toVelo[j]
  /\ \A i \in 1 .. Len(toVelo), j \in 1 .. Len(toAgent) : toVelo[i] < toAgent[j]

\* A child is one of an open request of this session, which has no other.
Children ==
  /\ \A p \in Live : /\ process[p].req[1] = session
                     /\ process[p].req[2] \in Due
                     /\ Passed(process[p].req[2])
                     /\ process[p].req \notin reaped \union failed
  /\ \A p, q \in Live : process[p].req = process[q].req => p = q

Past ==
  \A r \in reaped \union failed : r[1] <= session /\ (r[1] = session => Passed(r[2]))

\* What is on its way to velm answers a command that has ended.
Answers ==
  /\ \A i \in 1 .. Len(fromVelo) :
       Wrong(fromVelo[i].reqno) \/ <<session, fromVelo[i].reqno>> \in reaped
  /\ \A i \in 1 .. Len(toManager) :
       Wrong(toManager[i]) \/ <<session, toManager[i]>> \in reaped

\* A request whose vfork() failed gets no answer of its own, but for one.
Lost ==
  \A f \in failed :
    f \notin reaped /\ (f[1] = session /\ f[2] # eCmdExec_ => f[2] \in outstanding)

\* velo knows every child, by its right request.
Known ==
  /\ \A p \in Live : (\E e \in cmdSet : e.pid = p) \/ InHand(p)
  /\ \A e \in cmdSet : e.pid \in Live => process[e.pid].req = e.req
  /\ \A p \in Live : InHand(p) => process[p].req = v.req

Own ==
  /\ server = "gone" => pc = "idle" /\ Live = {}
  /\ pc # "idle" => v.req[1] = session
  /\ pc = "counted" /\ num = 0 => cmdSet = {}
  /\ pc \in {"answer", "body"} => Wrong(v.req[2]) \/ v.req \in reaped

\* The flag stands for the child in hand, which has ended, or cmdSet keeps an
\* element whose child is gone: then it is never empty again.
Flag ==
  failure => \/ \E e \in cmdSet : e.pid \notin Live
             \/ InHand(v.pid) /\ v.pid \notin Live /\ v.req \in reaped
             \/ pc \in {"answer", "body", "reset"} /\ v.pid # 0

Ended == \A r \in reported : r \in reaped \union failed \/ Mistaken(r)

EndInv ==
  Kept => /\ Pipes /\ Children /\ Past /\ Answers /\ Lost
          /\ Known /\ Own /\ Flag /\ Ended

LEMMA TailIndex ==
  ASSUME NEW S, NEW s \in Seq(S), s # <<>>
  PROVE  /\ Tail(s) \in Seq(S) /\ Head(s) = s[1] /\ 1 \in 1 .. Len(s)
         /\ Len(s) \in Nat /\ Len(Tail(s)) = Len(s) - 1
         /\ \A i \in 1 .. Len(Tail(s)) : i + 1 \in 1 .. Len(s) /\ Tail(s)[i] = s[i + 1]
BY HeadTailProperties, LenProperties

LEMMA AppendIndex ==
  ASSUME NEW S, NEW s \in Seq(S), NEW e \in S
  PROVE  /\ Append(s, e) \in Seq(S) /\ Len(Append(s, e)) = Len(s) + 1 /\ Len(s) \in Nat
         /\ \A i \in 1 .. Len(s) + 1 :
              \/ i \in 1 .. Len(s) /\ Append(s, e)[i] = s[i]
              \/ i = Len(s) + 1 /\ Append(s, e)[i] = e
BY AppendProperties, LenProperties

LEMMA PipeNumbers ==
  TInv => /\ MaxCommands \in Nat /\ asked \in Nat
          /\ Len(toAgent) \in Nat /\ \A i \in 1 .. Len(toAgent) : toAgent[i] \in 1 .. MaxCommands
          /\ Len(toVelo) \in Nat /\ \A i \in 1 .. Len(toVelo) : toVelo[i] \in 1 .. MaxCommands
BY ExecAssumption, ElementOfSeq, LenProperties DEF TInv, TLinks, TManager

LEMMA AgentType == TInv => toAgent \in Seq(1 .. MaxCommands)
BY DEF TInv, TLinks

LEMMA VeloType == TInv => toVelo \in Seq(1 .. MaxCommands)
BY DEF TInv, TLinks

\* What is due stays so, as failures are not forgotten.
LEMMA DueStays ==
  ASSUME UNCHANGED session, failed \subseteq failed'
  PROVE  /\ \A n : Wrong(n) => Wrong(n)'
         /\ \A n : Shared(n) => Shared(n)'
         /\ outstanding \subseteq outstanding' => Due \subseteq Due'
BY DEF Wrong, Shared, Due

LEMMA FailedTypes ==
  TInv => /\ failed \subseteq Requests
          /\ \A f \in failed : /\ f[1] \in 1 .. MaxSessions /\ f[2] \in 1 .. MaxCommands
                              /\ f = <<f[1], f[2]>>
<1>1. \A r \in Requests : /\ r[1] \in 1 .. MaxSessions /\ r[2] \in 1 .. MaxCommands
                          /\ r = <<r[1], r[2]>>
  BY DEF Requests
<1> QED BY <1>1 DEF TInv, THistory

\* The steps that move requests: a new one is behind all others, one goes from
\* the first pipe to the second or is lost, one leaves the second.
LEMMA AskStep ==
  ASSUME TInv, Ask
  PROVE  /\ Pipes => Pipes'
         /\ \A n \in Nat : Passed(n) => Passed(n)'
<1>1. /\ asked' = asked + 1 /\ toAgent' = Append(toAgent, asked') /\ toVelo' = toVelo
      /\ Due' = Due \union {asked'}
  BY DEF Ask, Due, Shared
<1>2. asked' \in 1 .. MaxCommands
  BY Typed, <1>1, ExecAssumption DEF Ask, TInv, TManager
<1>3. /\ Len(toAgent') = Len(toAgent) + 1 /\ Len(toAgent) \in Nat
      /\ \A i \in 1 .. Len(toAgent) + 1 :
           \/ i \in 1 .. Len(toAgent) /\ toAgent'[i] = toAgent[i]
           \/ i = Len(toAgent) + 1 /\ toAgent'[i] = asked'
  <2>1. toAgent \in Seq(1 .. MaxCommands)
    BY AgentType
  <2> QED BY <1>1, <1>2, <2>1, AppendIndex
<1>4. ASSUME Pipes PROVE Pipes'
  <2>1. \A i \in 1 .. Len(toAgent') : toAgent'[i] \in Due' /\ toAgent'[i] <= asked'
    BY <1>1, <1>3, <1>4, PipeNumbers DEF Pipes
  <2>2. \A i \in 1 .. Len(toVelo') : toVelo'[i] \in Due' /\ toVelo'[i] <= asked'
    BY <1>1, <1>4, PipeNumbers DEF Pipes
  <2>3. \A i, j \in 1 .. Len(toAgent') : i < j => toAgent'[i] < toAgent'[j]
    BY <1>1, <1>3, <1>4, PipeNumbers DEF Pipes
  <2>4. \A i \in 1 .. Len(toVelo'), j \in 1 .. Len(toAgent') : toVelo'[i] < toAgent'[j]
    BY <1>1, <1>3, <1>4, PipeNumbers DEF Pipes
  <2>5. \A i, j \in 1 .. Len(toVelo') : i < j => toVelo'[i] < toVelo'[j]
    BY <1>1, <1>4 DEF Pipes
  <2> QED BY <2>1, <2>2, <2>3, <2>4, <2>5 DEF Pipes
<1>5. ASSUME NEW n \in Nat, Passed(n) PROVE Passed(n)'
  BY <1>1, <1>3, <1>5, PipeNumbers DEF Passed
<1> QED BY <1>4, <1>5

LEMMA ForwardStep ==
  ASSUME TInv, Forward
  PROVE  /\ Pipes => Pipes'
         /\ Pipes => \A n \in Nat : Passed(n) => Passed(n)'
<1>1. /\ toAgent # <<>> /\ toAgent' = Tail(toAgent) /\ UNCHANGED <<asked, Due>>
      /\ toVelo' = toVelo \/ toVelo' = Append(toVelo, Head(toAgent))
  BY DEF Forward, manager, Due, Shared
<1>2. /\ Len(toAgent) \in Nat /\ Len(toAgent') = Len(toAgent) - 1 /\ Head(toAgent) = toAgent[1]
      /\ 1 \in 1 .. Len(toAgent)
      /\ \A i \in 1 .. Len(toAgent') : i + 1 \in 1 .. Len(toAgent) /\ toAgent'[i] = toAgent[i + 1]
  BY <1>1, TailIndex, AgentType
<1>3. toVelo' # toVelo =>
        /\ Len(toVelo') = Len(toVelo) + 1
        /\ \A i \in 1 .. Len(toVelo) + 1 :
             \/ i \in 1 .. Len(toVelo) /\ toVelo'[i] = toVelo[i]
             \/ i = Len(toVelo) + 1 /\ toVelo'[i] = toAgent[1]
  <2>1. toAgent[1] \in 1 .. MaxCommands
    BY <1>2, PipeNumbers
  <2>2. toVelo \in Seq(1 .. MaxCommands)
    BY VeloType
  <2>3. /\ Len(Append(toVelo, toAgent[1])) = Len(toVelo) + 1
        /\ \A i \in 1 .. Len(toVelo) + 1 :
             \/ i \in 1 .. Len(toVelo) /\ Append(toVelo, toAgent[1])[i] = toVelo[i]
             \/ i = Len(toVelo) + 1 /\ Append(toVelo, toAgent[1])[i] = toAgent[1]
    BY <2>1, <2>2, AppendIndex
  <2> QED BY <1>1, <1>2, <2>3
<1>4. \A i \in 1 .. Len(toVelo') :
        \/ i \in 1 .. Len(toVelo) /\ toVelo'[i] = toVelo[i]
        \/ i = Len(toVelo) + 1 /\ toVelo'[i] = toAgent[1]
  BY <1>3, PipeNumbers
<1>5. ASSUME Pipes PROVE Pipes'
  <2>1. \A i \in 1 .. Len(toAgent') : toAgent'[i] \in Due' /\ toAgent'[i] <= asked'
    BY <1>1, <1>2, <1>5 DEF Pipes
  <2>2. \A i \in 1 .. Len(toVelo') : toVelo'[i] \in Due' /\ toVelo'[i] <= asked'
    BY <1>1, <1>2, <1>4, <1>5 DEF Pipes
  <2>3. \A i, j \in 1 .. Len(toAgent') : i < j => toAgent'[i] < toAgent'[j]
    BY <1>2, <1>5 DEF Pipes
  <2>4. \A i \in 1 .. Len(toVelo'), j \in 1 .. Len(toAgent') : toVelo'[i] < toAgent'[j]
    <3>1. \A j \in 1 .. Len(toAgent') : toAgent[1] < toAgent'[j]
      BY <1>2, <1>5 DEF Pipes
    <3>2. \A i \in 1 .. Len(toVelo), j \in 1 .. Len(toAgent') : toVelo[i] < toAgent'[j]
      BY <1>2, <1>5 DEF Pipes
    <3> QED BY <1>4, <3>1, <3>2
  <2>5. \A i, j \in 1 .. Len(toVelo') : i < j => toVelo'[i] < toVelo'[j]
    <3> SUFFICES ASSUME NEW i \in 1 .. Len(toVelo'), NEW j \in 1 .. Len(toVelo'), i < j
                 PROVE  toVelo'[i] < toVelo'[j]
      OBVIOUS
    <3>1. i \in 1 .. Len(toVelo) /\ toVelo'[i] = toVelo[i]
      BY <1>4, PipeNumbers
    <3>2. CASE j \in 1 .. Len(toVelo) /\ toVelo'[j] = toVelo[j]
      BY <3>1, <3>2, <1>5 DEF Pipes
    <3>3. CASE toVelo'[j] = toAgent[1]
      BY <3>1, <3>3, <1>2, <1>5 DEF Pipes
    <3> QED BY <1>4, <3>2, <3>3
  <2> QED BY <2>1, <2>2, <2>3, <2>4, <2>5 DEF Pipes
<1>6. ASSUME NEW n \in Nat, Passed(n) PROVE Passed(n)'
  BY <1>1, <1>2, <1>4, <1>6 DEF Passed
<1> QED BY <1>5, <1>6

LEMMA TakenStep ==
  ASSUME TInv, toVelo # <<>>, toVelo' = Tail(toVelo),
         UNCHANGED <<toAgent, asked>>, Due \subseteq Due'
  PROVE  /\ Pipes => Pipes'
         /\ Pipes => \A n : n = Head(toVelo) => Passed(n)'
         /\ \A n \in Nat : Passed(n) => Passed(n)'
<1>1. /\ Len(toVelo) \in Nat /\ Len(toVelo') = Len(toVelo) - 1 /\ Head(toVelo) = toVelo[1]
      /\ 1 \in 1 .. Len(toVelo)
      /\ \A i \in 1 .. Len(toVelo') : i + 1 \in 1 .. Len(toVelo) /\ toVelo'[i] = toVelo[i + 1]
  BY TailIndex, VeloType
<1>2. ASSUME Pipes PROVE Pipes'
  BY <1>1, <1>2 DEF Pipes
<1>3. ASSUME NEW n \in Nat, Passed(n) PROVE Passed(n)'
  BY <1>1, <1>3 DEF Passed
<1>4. ASSUME Pipes PROVE \A n : n = Head(toVelo) => Passed(n)'
  <2>1. /\ Head(toVelo) <= asked /\ \A i \in 1 .. Len(toAgent) : Head(toVelo) < toAgent[i]
        /\ \A i \in 1 .. Len(toVelo') : Head(toVelo) < toVelo'[i]
    BY <1>1, <1>4 DEF Pipes
  <2> QED BY <2>1 DEF Passed
<1> QED BY <1>2, <1>3, <1>4

\* Which steps change what.
LEMMA Changes ==
  ASSUME [Next]_vars
  PROVE  /\ Ask \/ Forward \/ Fork \/ ForkFails \/ SessionEnds
              \/ UNCHANGED <<toAgent, toVelo, asked>>
         /\ Ask \/ Complete \/ SessionEnds \/ UNCHANGED outstanding
         /\ SessionEnds \/ UNCHANGED session
         /\ childEnd \/ UNCHANGED reaped
         /\ ForkFails \/ UNCHANGED failed
         /\ failed \subseteq failed'
         /\ Fork \/ childEnd \/ (\E p \in Pids : ChildExits(p)) \/ UNCHANGED process
         /\ Confirm \/ SessionEnds \/ AnswerHeader \/ AnswerBody \/ childEnd
              \/ Torn \/ Astray \/ UNCHANGED fromVelo
         /\ Confirm \/ Complete \/ SessionEnds \/ Torn \/ Astray \/ UNCHANGED toManager
         /\ Accept \/ Add \/ childEnd \/ UNCHANGED cmdSet
         /\ Fork \/ ForkFails \/ Count \/ Test \/ AnswerHeader \/ AnswerBody \/ Reset \/ Add
              \/ UNCHANGED <<pc, v, num>>
         /\ Accept \/ Reset \/ childEnd \/ UNCHANGED failure
         /\ Accept \/ SessionEnds \/ UNCHANGED server
         /\ AnswerBody \/ childEnd \/ UNCHANGED reported
<1>1. CASE UNCHANGED vars
  BY <1>1 DEF vars, manager, links, main
<1>2. CASE Ask
  BY <1>2 DEF Ask, manager, links, main
<1>3. CASE Forward
  BY <1>3 DEF Forward, manager, links, main
<1>4. CASE ProxyStart
  BY <1>4 DEF ProxyStart, manager, links, main
<1>5. CASE Confirm
  BY <1>5 DEF Confirm, manager, links, main
<1>6. CASE Complete
  BY <1>6 DEF Complete, manager, links, main
<1>7. CASE SessionEnds
  BY <1>7 DEF SessionEnds, manager, links, main
<1>8. CASE Accept
  BY <1>8 DEF Accept, manager, links, main
<1>9. CASE Fork
  BY <1>9 DEF Fork, manager, links, main
<1>10. CASE ForkFails
  BY <1>10 DEF ForkFails, manager, links, main
<1>11. CASE Count
  BY <1>11 DEF Count, manager, links, main
<1>12. CASE Test
  BY <1>12 DEF Test, manager, links, main
<1>13. CASE AnswerHeader
  BY <1>13 DEF AnswerHeader, manager, links, main
<1>14. CASE AnswerBody
  BY <1>14 DEF AnswerBody, manager, links, main
<1>15. CASE Reset
  BY <1>15 DEF Reset, manager, links, main
<1>16. CASE Add
  BY <1>16 DEF Add, manager, links, main
<1>17. CASE ChildSignal
  BY <1>17 DEF ChildSignal, manager, links, main
<1>18. CASE childEnd
  BY <1>18 DEF childEnd, manager, links, main
<1>19. CASE \E p \in Pids : ChildExits(p)
  BY <1>19 DEF ChildExits, manager, links, main
<1>20. CASE Torn
  BY <1>20 DEF Torn, Astray, manager, links, main
<1>21. CASE Astray
  BY <1>21 DEF Astray, Torn, manager, links, main
<1> QED
  BY <1>1, <1>2, <1>3, <1>4, <1>5, <1>6, <1>7, <1>8, <1>9, <1>10, <1>11,
     <1>12, <1>13, <1>14, <1>15, <1>16, <1>17, <1>18, <1>19, <1>20, <1>21
    DEF Next, Main

\* The child that childEnd waits for.
LEMMA Reaping ==
  ASSUME TInv, childEnd
  PROVE  \E p \in Live :
           /\ reaped' = reaped \union {process[p].req}
           /\ process' = [process EXCEPT ![p] = NoProcess]
           /\ Live' = Live \ {p}
           /\ \/ \E e \in cmdSet :
                   /\ e.pid = p /\ cmdSet' = cmdSet \ {e} /\ failure' = failure
                   /\ \/ /\ fromVelo' = fromVelo \o Frame(e.req[2])
                         /\ reported' = reported \union {e.req}
                      \/ UNCHANGED <<fromVelo, reported>>
              \/ /\ \A e \in cmdSet : e.pid # p
                 /\ failure' = TRUE
                 /\ UNCHANGED <<cmdSet, fromVelo, reported>>
<1>0. process \in [Pids -> [state : {"free", "running", "zombie"}, req : Named]]
  BY DEF TInv, TProcess
<1>1. PICK p \in Zombies :
        /\ process' = [q \in Pids |-> IF q \in {p} THEN NoProcess ELSE process[q]]
        /\ reaped' = reaped \union {process[q].req : q \in {p}}
        /\ \/ /\ \E e \in cmdSet :
                   /\ e.pid \in {p}
                   /\ cmdSet' = removeCmd(cmdSet, e)
                   /\ IF server = "up"
                      THEN /\ fromVelo' = fromVelo \o Frame(e.req[2])
                           /\ reported' = reported \union {e.req}
                      ELSE UNCHANGED <<fromVelo, reported>>
              /\ UNCHANGED <<failure, incidents>>
           \/ /\ \A e \in cmdSet : e.pid \notin {p}
              /\ failure' = TRUE
              /\ UNCHANGED <<cmdSet, fromVelo, reported>>
  BY DEF childEnd, Waited
<1>2. p \in Live
  BY <1>1 DEF Zombies, Live
<1>3. reaped' = reaped \union {process[p].req}
  BY <1>1
<1>4. process' = [process EXCEPT ![p] = NoProcess]
  BY <1>0, <1>1
<1>5. Live' = Live \ {p}
  BY <1>0, <1>2, <1>4 DEF Live, NoProcess
<1>6. \/ \E e \in cmdSet :
           /\ e.pid = p /\ cmdSet' = cmdSet \ {e} /\ failure' = failure
           /\ \/ /\ fromVelo' = fromVelo \o Frame(e.req[2])
                 /\ reported' = reported \union {e.req}
              \/ UNCHANGED <<fromVelo, reported>>
      \/ /\ \A e \in cmdSet : e.pid # p
         /\ failure' = TRUE
         /\ UNCHANGED <<cmdSet, fromVelo, reported>>
  BY <1>1 DEF removeCmd
<1> QED BY <1>2, <1>3, <1>4, <1>5, <1>6

\* The child that Fork starts.
LEMMA Starting ==
  ASSUME TInv, Fork
  PROVE  \E p \in Free :
           /\ v' = [pid |-> p, req |-> <<session, Head(toVelo)>>]
           /\ process' = [process EXCEPT ![p] = [state |-> "running", req |-> v'.req]]
           /\ Live' = Live \union {p} /\ p \notin Live
           /\ Kept' => \A e \in cmdSet : e.pid # p
<1>0. process \in [Pids -> [state : {"free", "running", "zombie"}, req : Named]]
  BY DEF TInv, TProcess
<1>1. PICK p \in Free :
        /\ v' = [pid |-> p, req |-> <<session, Head(toVelo)>>]
        /\ process' = [process EXCEPT ![p] = [state |-> "running", req |-> v'.req]]
        /\ incidents' = IF \E e \in cmdSet : e.pid = p
                        THEN incidents \union {"pid reused"} ELSE incidents
  BY DEF Fork
<1>2. Live' = Live \union {p} /\ p \notin Live
  BY <1>0, <1>1 DEF Live, Free
<1>3. Kept' => \A e \in cmdSet : e.pid # p
  BY <1>1 DEF Kept
<1> QED BY <1>1, <1>2, <1>3

LEMMA Exiting ==
  ASSUME TInv, NEW p \in Pids, ChildExits(p)
  PROVE  Live' = Live /\ \A q \in Pids : process'[q].req = process[q].req
<1>0. process \in [Pids -> [state : {"free", "running", "zombie"}, req : Named]]
  BY DEF TInv, TProcess
<1>1. process[p].state = "running" /\ process' = [process EXCEPT ![p].state = "zombie"]
  BY DEF ChildExits
<1> QED BY <1>0, <1>1 DEF Live

LEMMA NotTorn == "torn" \notin incidents' => ~ Torn /\ ~ Astray
BY DEF Torn, Astray

LEMMA SameLive == UNCHANGED process => Live' = Live
BY DEF Live

LEMMA KeptBefore == Kept' /\ [Next]_vars => Kept
BY IncidentsGrow DEF Kept

\* A session that ends as Kept wants leaves nothing open.
LEMMA CleanEnd ==
  ASSUME SessionEnds, Kept', Lost
  PROVE  /\ Due = {} /\ session' = session + 1
         /\ toAgent' = <<>> /\ toVelo' = <<>> /\ toManager' = <<>> /\ fromVelo' = <<>>
         /\ UNCHANGED <<process, reaped, pc, cmdSet, v, failure>> /\ pc = "idle"
<1>1. outstanding = {}
  BY DEF SessionEnds, Kept
<1>2. \A n : ~ Shared(n)
  BY <1>1 DEF Lost, Shared
<1> QED BY <1>1, <1>2 DEF SessionEnds, Due, main

LEMMA ForkTakes ==
  ASSUME Fork \/ ForkFails, [Next]_vars
  PROVE  /\ toVelo # <<>> /\ toVelo' = Tail(toVelo)
         /\ UNCHANGED <<toAgent, asked, outstanding, session, reaped, fromVelo, toManager, cmdSet>>
         /\ Due \subseteq Due'
<1>1. /\ toVelo # <<>> /\ toVelo' = Tail(toVelo)
      /\ UNCHANGED <<toAgent, asked, outstanding, session, reaped, fromVelo, toManager, cmdSet>>
  BY DEF Fork, ForkFails, manager
<1> QED BY <1>1, DueStays, Changes

LEMMA PassedStep ==
  ASSUME TInv, Pipes, [Next]_vars, UNCHANGED session, NEW n \in Nat, Passed(n)
  PROVE  Passed(n)'
<1>1. ~ SessionEnds
  BY DEF SessionEnds, TInv, TManager
<1>2. CASE Ask
  BY <1>2, AskStep
<1>3. CASE Forward
  BY <1>3, ForwardStep
<1>4. CASE Fork \/ ForkFails
  <2> QED BY <1>4, ForkTakes, TakenStep
<1>5. CASE UNCHANGED <<toAgent, toVelo, asked>>
  BY <1>5 DEF Passed
<1> QED BY <1>1, <1>2, <1>3, <1>4, <1>5, Changes

\* What is in the pipes is not what an answer on its way is for.
LEMMA NotAnswered ==
  ASSUME TInv, Past, Answers, Complete
  PROVE  /\ \A n \in Due : n # Head(toManager) \/ Shared(n) => n \in Due'
         /\ Shared(Head(toManager)) \/ <<session, Head(toManager)>> \in reaped \union failed
         /\ \A i \in 1 .. Len(toAgent) : toAgent[i] # Head(toManager) \/ Shared(toAgent[i])
         /\ \A i \in 1 .. Len(toVelo) : toVelo[i] # Head(toManager) \/ Shared(toVelo[i])
<1>1. /\ toManager # <<>> /\ outstanding' = outstanding \ {Head(toManager)}
      /\ UNCHANGED <<session, failed>>
  BY DEF Complete
<1>0. \A n \in Due : n # Head(toManager) \/ Shared(n) => n \in Due'
  BY <1>1 DEF Due, Shared
<1>2. toManager \in Seq(Numbers)
  BY DEF TInv, TLinks
<1>3. Head(toManager) = toManager[1] /\ 1 \in 1 .. Len(toManager)
  BY <1>1, <1>2, TailIndex
<1>4. Wrong(Head(toManager)) \/ <<session, Head(toManager)>> \in reaped
  BY <1>3 DEF Answers
<1>5. Shared(Head(toManager)) \/ <<session, Head(toManager)>> \in reaped \union failed
  <2>1. SUFFICES ASSUME Wrong(Head(toManager)), ~ Shared(Head(toManager))
                 PROVE  <<session, Head(toManager)>> \in failed
    BY <1>4
  <2>2. PICK f \in failed : f[1] = session /\ f[2] = Head(toManager)
    BY <2>1 DEF Wrong, Shared
  <2> QED BY <2>2, FailedTypes
<1>6. CASE Shared(Head(toManager))
  BY <1>0, <1>5, <1>6
<1>7. CASE <<session, Head(toManager)>> \in reaped \union failed
  <2>1. Passed(Head(toManager))
    BY <1>7 DEF Past
  <2>2. Head(toManager) \in Nat
    BY <1>2, <1>3, ElementOfSeq, ExecAssumption DEF Numbers
  <2> QED BY <1>0, <1>5, <2>1, <2>2, PipeNumbers DEF Passed
<1> QED BY <1>5, <1>6, <1>7

LEMMA PipesStep ==
  ASSUME TInv, Pipes, Past, Answers, [Next]_vars
  PROVE  Pipes'
<1>1. CASE Ask
  BY <1>1, AskStep
<1>2. CASE Forward
  BY <1>2, ForwardStep
<1>3. CASE Fork \/ ForkFails
  BY <1>3, ForkTakes, TakenStep
<1>4. CASE Complete
  <2>1. UNCHANGED <<toAgent, toVelo, asked>>
    BY <1>4 DEF Complete
  <2> QED BY <1>4, <2>1, NotAnswered DEF Pipes
<1>5. CASE SessionEnds
  <2>1. toAgent' = <<>> /\ toVelo' = <<>>
    BY <1>5 DEF SessionEnds
  <2> QED BY <2>1 DEF Pipes
<1>6. CASE UNCHANGED <<toAgent, toVelo, asked, outstanding, session>>
  <2>1. Due \subseteq Due'
    BY <1>6, DueStays, Changes
  <2> QED BY <1>6, <2>1 DEF Pipes
<1> QED BY <1>1, <1>2, <1>3, <1>4, <1>5, <1>6, Changes

LEMMA PastStep ==
  ASSUME TInv, Pipes, Children, Past, [Next]_vars
  PROVE  Past'
<1>0. session \in Nat /\ \A r \in Named : r[1] \in Nat /\ r[2] \in Nat
  BY ExecAssumption DEF TInv, TManager, Named, Numbers
<1>1. /\ reaped \union failed \subseteq Named /\ (reaped \union failed)' \subseteq Named
      /\ \A p \in Live : process[p].req \in Named
  <2>1. Requests \subseteq Named
    BY DEF Requests, Named, Numbers
  <2>2. TInv'
    BY Typed
  <2> QED BY <2>1, <2>2 DEF TInv, THistory, TProcess, Live
<1>2. CASE SessionEnds
  <2>1. session' = session + 1 /\ reaped' = reaped /\ failed' = failed
    BY <1>2 DEF SessionEnds
  <2> QED BY <1>0, <1>1, <2>1 DEF Past
<1>3. CASE UNCHANGED session
  <2>1. ASSUME NEW r \in reaped \union failed PROVE r[1] <= session' /\ (r[1] = session' => Passed(r[2])')
    <3>1. r[1] <= session /\ (r[1] = session => Passed(r[2])) /\ r[2] \in Nat
      BY <1>0, <1>1 DEF Past
    <3> QED BY <1>3, <3>1, PassedStep
  <2>2. ASSUME NEW r \in reaped', r \notin reaped PROVE r[1] <= session' /\ (r[1] = session' => Passed(r[2])')
    <3>1. childEnd
      BY <2>2, Changes
    <3>2. PICK p \in Live : r = process[p].req
      BY <2>2, <3>1, Reaping
    <3>3. r[1] = session /\ Passed(r[2]) /\ r[2] \in Nat
      BY <1>0, <1>1, <3>2 DEF Children
    <3> QED BY <1>0, <1>3, <3>3, PassedStep
  <2>3. ASSUME NEW r \in failed', r \notin failed PROVE r[1] <= session' /\ (r[1] = session' => Passed(r[2])')
    <3>1. ForkFails
      BY <2>3, Changes
    <3>2. r = <<session, Head(toVelo)>>
      BY <2>3, <3>1 DEF ForkFails
    <3>3. r[1] = session /\ r[2] = Head(toVelo)
      BY <3>2
    <3> QED BY <1>0, <1>3, <3>1, <3>3, ForkTakes, TakenStep
  <2> QED BY <2>1, <2>2, <2>3 DEF Past
<1> QED BY <1>2, <1>3, Changes

\* The request that velo takes next is nowhere else.
LEMMA NextTaken ==
  ASSUME TInv, Pipes, Fork \/ ForkFails, [Next]_vars
  PROVE  /\ Head(toVelo) \in Due /\ Head(toVelo) \in 1 .. MaxCommands
         /\ ~ Passed(Head(toVelo)) /\ \A n : n = Head(toVelo) => Passed(n)'
<1>1. Head(toVelo) = toVelo[1] /\ 1 \in 1 .. Len(toVelo)
  BY ForkTakes, TailIndex, VeloType
<1>2. Head(toVelo) \in Due /\ Head(toVelo) \in 1 .. MaxCommands /\ ~ Passed(Head(toVelo))
  BY <1>1, PipeNumbers DEF Pipes, Passed
<1> QED BY <1>2, ForkTakes, TakenStep

LEMMA LostStep ==
  ASSUME TInv, Pipes, Children, Past, Answers, Lost, "torn" \notin incidents', [Next]_vars
  PROVE  Lost'
<1>0. /\ session \in Nat /\ outstanding \subseteq Nat
      /\ \A f \in failed : f[1] \in Nat /\ f = <<f[1], f[2]>>
  BY FailedTypes, ExecAssumption DEF TInv, TManager
<1>1. CASE SessionEnds
  <2>1. session' = session + 1 /\ UNCHANGED <<reaped, failed>>
    BY <1>1 DEF SessionEnds
  <2>2. \A f \in failed : f[1] # session'
    BY <1>0, <2>1 DEF Past
  <2> QED BY <2>1, <2>2 DEF Lost
<1>2. CASE ForkFails
  <2>1. /\ UNCHANGED <<session, outstanding, reaped>>
        /\ failed' = failed \union {<<session, Head(toVelo)>>}
    BY <1>2 DEF ForkFails, manager
  <2>2. /\ Head(toVelo) \in Due /\ ~ Passed(Head(toVelo))
    BY <1>2, NextTaken
  <2>3. <<session, Head(toVelo)>> \notin reaped
    BY <2>2 DEF Past
  <2>4. Head(toVelo) # eCmdExec_ => Head(toVelo) \in outstanding
    BY <2>2 DEF Due
  <2> QED BY <2>1, <2>3, <2>4 DEF Lost
<1>3. CASE childEnd
  <2>1. UNCHANGED <<session, outstanding, failed>>
    BY <1>3 DEF childEnd, manager
  <2>2. PICK p \in Live : reaped' = reaped \union {process[p].req}
    BY <1>3, Reaping
  <2> QED BY <2>1, <2>2 DEF Lost, Children
<1>4. CASE Complete
  <2>1. /\ UNCHANGED <<session, reaped, failed>> /\ toManager # <<>>
        /\ outstanding' = outstanding \ {Head(toManager)}
    BY <1>4 DEF Complete
  <2>2. toManager \in Seq(Numbers)
    BY DEF TInv, TLinks
  <2>3. Wrong(Head(toManager)) \/ <<session, Head(toManager)>> \in reaped
    BY <2>1, <2>2, TailIndex DEF Answers
  <2>4. ASSUME NEW f \in failed, f[1] = session, f[2] # eCmdExec_ PROVE f[2] # Head(toManager)
    <3>1. f = <<session, f[2]>> /\ f \notin reaped
      BY <1>0, <2>4 DEF Lost
    <3> QED BY <2>3, <2>4, <3>1 DEF Wrong
  <2> QED BY <2>1, <2>4 DEF Lost
<1>5. CASE Ask
  <2>1. UNCHANGED <<session, reaped, failed>> /\ outstanding \subseteq outstanding'
    BY <1>5 DEF Ask
  <2> QED BY <2>1 DEF Lost
<1>6. CASE UNCHANGED <<session, outstanding, reaped, failed>>
  BY <1>6 DEF Lost
<1> QED BY <1>1, <1>2, <1>3, <1>4, <1>5, <1>6, Changes

LEMMA ChildrenStep ==
  ASSUME TInv, Pipes, Children, Past, Answers, Lost, Kept', [Next]_vars
  PROVE  Children'
<1>0. /\ process \in [Pids -> [state : {"free", "running", "zombie"}, req : Named]]
      /\ session \in Nat
  BY ExecAssumption DEF TInv, TProcess, TManager
<1>1. \A p \in Live : /\ p \in Pids /\ process[p].req \in Named
                      /\ process[p].req = <<session, process[p].req[2]>>
                      /\ process[p].req[2] \in Nat
  BY <1>0, ReqNumber, ExecAssumption DEF Live, Children, Numbers
\* A child that goes on running keeps what it had, while the session is on.
<1>2. ASSUME UNCHANGED session, NEW q \in Live, process'[q].req = process[q].req
      PROVE  /\ process'[q].req[1] = session'
             /\ \A n : n = process'[q].req[2] => Passed(n)'
  BY <1>1, <1>2, PassedStep DEF Children
<1>3. CASE SessionEnds
  <2>1. Due = {} /\ process' = process
    BY <1>3, CleanEnd
  <2>2. Live' = {}
    BY <2>1, SameLive DEF Children
  <2> QED BY <2>2 DEF Children
<1>4. CASE Fork
  <2>1. UNCHANGED <<session, reaped, failed>> /\ Due \subseteq Due'
    BY <1>4, ForkTakes DEF Fork
  <2>2. PICK p \in Free :
          /\ v' = [pid |-> p, req |-> <<session, Head(toVelo)>>]
          /\ process' = [process EXCEPT ![p] = [state |-> "running", req |-> v'.req]]
          /\ Live' = Live \union {p} /\ p \notin Live
    BY <1>4, Starting
  <2>3. /\ process'[p].req = <<session, Head(toVelo)>>
        /\ \A q \in Live : q # p /\ process'[q].req = process[q].req
    BY <1>0, <2>2 DEF Free, Live
  <2>5. Head(toVelo) \in Due /\ Head(toVelo) \in Nat /\ ~ Passed(Head(toVelo))
    BY <1>4, NextTaken
  <2>6. \A n : n = Head(toVelo) => Passed(n)'
    BY <1>4, NextTaken
  <2>7. <<session, Head(toVelo)>> \notin reaped \union failed
    BY <2>5 DEF Past
  <2>8. \A q \in Live : process[q].req # <<session, Head(toVelo)>>
    BY <2>5 DEF Children
  <2>9. ASSUME NEW q \in Live'
        PROVE  /\ process'[q].req[1] = session'
               /\ process'[q].req[2] \in Due'
               /\ \A n : n = process'[q].req[2] => Passed(n)'
               /\ process'[q].req \notin (reaped \union failed)'
    <3>1. CASE q = p
      BY <3>1, <2>1, <2>3, <2>5, <2>6, <2>7
    <3>2. CASE q \in Live
      BY <3>2, <1>2, <2>1, <2>3 DEF Children
    <3> QED BY <2>2, <3>1, <3>2
  <2>10. \A q, r \in Live' : process'[q].req = process'[r].req => q = r
    BY <2>2, <2>3, <2>8 DEF Children
  <2> QED BY <2>9, <2>10 DEF Children
<1>5. CASE childEnd
  <2>1. UNCHANGED <<session, failed>> /\ Due \subseteq Due'
    BY <1>5, DueStays DEF childEnd, manager
  <2>2. PICK p \in Live :
          /\ reaped' = reaped \union {process[p].req}
          /\ process' = [process EXCEPT ![p] = NoProcess]
          /\ Live' = Live \ {p}
    BY <1>5, Reaping
  <2>3. \A q \in Live' : q \in Live /\ q # p /\ process'[q].req = process[q].req
    BY <1>0, <2>2 DEF Live
  <2>4. ASSUME NEW q \in Live'
        PROVE  /\ process'[q].req[1] = session'
               /\ process'[q].req[2] \in Due'
               /\ \A n : n = process'[q].req[2] => Passed(n)'
               /\ process'[q].req \notin (reaped \union failed)'
    BY <1>2, <2>1, <2>2, <2>3 DEF Children
  <2>5. \A q, r \in Live' : process'[q].req = process'[r].req => q = r
    BY <2>3 DEF Children
  <2> QED BY <2>4, <2>5 DEF Children
<1>6. CASE Complete
  <2>1. UNCHANGED <<session, process, reaped, failed>>
    BY <1>6 DEF Complete
  <2>2. Live' = Live
    BY <2>1, SameLive
  <2>3. ASSUME NEW q \in Live PROVE process[q].req[2] \in Due'
    <3>1. process[q].req[2] \in Due /\ process[q].req \notin reaped \union failed
      BY DEF Children
    <3>2. process[q].req[2] # Head(toManager) \/ Shared(process[q].req[2])
      BY <1>1, <1>6, <3>1, NotAnswered
    <3> QED BY <1>6, <3>1, <3>2, NotAnswered
  <2>4. ASSUME NEW q \in Live
        PROVE  /\ process'[q].req[1] = session'
               /\ process'[q].req[2] \in Due'
               /\ \A n : n = process'[q].req[2] => Passed(n)'
               /\ process'[q].req \notin (reaped \union failed)'
    BY <1>2, <2>1, <2>3 DEF Children
  <2> QED BY <2>1, <2>2, <2>4 DEF Children
<1>7. ASSUME UNCHANGED <<session, reaped, failed>>, Due \subseteq Due', Live' = Live,
             \A q \in Pids : process'[q].req = process[q].req
      PROVE  Children'
  <2>1. ASSUME NEW q \in Live
        PROVE  /\ process'[q].req[1] = session'
               /\ process'[q].req[2] \in Due'
               /\ \A n : n = process'[q].req[2] => Passed(n)'
               /\ process'[q].req \notin (reaped \union failed)'
    BY <1>1, <1>2, <1>7 DEF Children
  <2>2. \A q, r \in Live : process'[q].req = process'[r].req => q = r
    BY <1>1, <1>7 DEF Children
  <2> QED BY <1>7, <2>1, <2>2 DEF Children
<1>8. CASE \E p \in Pids : ChildExits(p)
  <2>1. UNCHANGED <<session, reaped, failed>> /\ Due \subseteq Due'
    BY <1>8, DueStays DEF ChildExits, manager
  <2> QED BY <1>7, <1>8, <2>1, Exiting
<1>9. CASE Ask
  <2>1. UNCHANGED <<session, reaped, process, failed>> /\ Due \subseteq Due'
    BY <1>9, DueStays DEF Ask
  <2> QED BY <1>7, <2>1, SameLive
<1>10. CASE UNCHANGED <<session, reaped, process, outstanding, failed>>
  <2>1. Due \subseteq Due'
    BY <1>10, DueStays
  <2> QED BY <1>7, <1>10, <2>1, SameLive
\* The child has got further than the request whose vfork() fails.
<1>11. CASE ForkFails
  <2>1. /\ UNCHANGED <<session, reaped, process>> /\ Due \subseteq Due'
        /\ failed' = failed \union {<<session, Head(toVelo)>>}
    BY <1>11, ForkTakes DEF ForkFails
  <2>2. Live' = Live
    BY <2>1, SameLive
  <2>3. \A q \in Live : process[q].req # <<session, Head(toVelo)>>
    BY <1>11, NextTaken DEF Children
  <2>4. ASSUME NEW q \in Live
        PROVE  /\ process'[q].req[1] = session'
               /\ process'[q].req[2] \in Due'
               /\ \A n : n = process'[q].req[2] => Passed(n)'
               /\ process'[q].req \notin (reaped \union failed)'
    BY <1>2, <2>1, <2>3 DEF Children
  <2> QED BY <2>1, <2>2, <2>4 DEF Children
<1> QED BY <1>3, <1>4, <1>5, <1>6, <1>8, <1>9, <1>10, <1>11, Changes

\* Answers that are for a command that has ended stay so.
LEMMA SameAnswers ==
  ASSUME Answers, session' = session, reaped \subseteq reaped', failed \subseteq failed',
         \A i \in 1 .. Len(fromVelo') :
           \/ \E j \in 1 .. Len(fromVelo) : fromVelo'[i] = fromVelo[j]
           \/ Wrong(fromVelo'[i].reqno)
           \/ <<session, fromVelo'[i].reqno>> \in reaped',
         \A i \in 1 .. Len(toManager') :
           \/ \E j \in 1 .. Len(toManager) : toManager'[i] = toManager[j]
           \/ Wrong(toManager'[i]) \/ <<session, toManager'[i]>> \in reaped'
  PROVE  Answers'
BY DueStays DEF Answers, Wrong

LEMMA AnswersStep ==
  ASSUME TInv, Answers, Children, Known, Own, Kept', [Next]_vars
  PROVE  Answers'
<1>0. /\ fromVelo \in Seq(Parts) /\ Len(fromVelo) \in Nat
      /\ toManager \in Seq(Numbers) /\ Len(toManager) \in Nat
  BY LenProperties DEF TInv, TLinks, TAnswers
<1> failed \subseteq failed' /\ ~ Torn /\ ~ Astray
  BY Changes, NotTorn DEF Kept
<1>1. CASE SessionEnds
  <2>1. toManager' = <<>> /\ fromVelo' = <<>>
    BY <1>1 DEF SessionEnds
  <2> QED BY <2>1 DEF Answers
<1>2. CASE Confirm
  <2>1. /\ UNCHANGED <<session, reaped>> /\ Len(fromVelo) >= 2
        /\ fromVelo' = SubSeq(fromVelo, 3, Len(fromVelo))
        /\ \/ toManager' = Append(toManager, fromVelo[1].reqno)
           \/ toManager' = toManager
    BY <1>2 DEF Confirm, manager
  <2>2. \A i \in 1 .. Len(fromVelo') :
          i + 2 \in 1 .. Len(fromVelo) /\ fromVelo'[i] = fromVelo[i + 2]
    BY <1>0, <2>1, ConfirmType DEF TAnswers
  <2>3. fromVelo[1].reqno \in Numbers
    BY <1>0, <2>1, ConfirmType DEF TAnswers, Parts
  <2>4. Wrong(fromVelo[1].reqno) \/ <<session, fromVelo[1].reqno>> \in reaped
    BY <1>0, <2>1 DEF Answers
  <2>5. \A i \in 1 .. Len(toManager') :
          \/ i \in 1 .. Len(toManager) /\ toManager'[i] = toManager[i]
          \/ toManager'[i] = fromVelo[1].reqno
    BY <1>0, <2>1, <2>3, AppendIndex
  <2> QED BY <2>1, <2>2, <2>4, <2>5, DueStays, SameAnswers
<1>3. CASE Complete
  <2>1. /\ UNCHANGED <<session, reaped, fromVelo>>
        /\ toManager # <<>> /\ toManager' = Tail(toManager)
    BY <1>3 DEF Complete
  <2>2. \A i \in 1 .. Len(toManager') :
          i + 1 \in 1 .. Len(toManager) /\ toManager'[i] = toManager[i + 1]
    BY <1>0, <2>1, TailIndex
  <2> QED BY <2>1, <2>2, SameAnswers
<1>4. CASE AnswerHeader \/ AnswerBody
  <2>1. /\ UNCHANGED <<session, reaped, toManager>> /\ pc \in {"answer", "body"}
        /\ \E k \in {1, 2} : fromVelo' = Append(fromVelo, Frame(v.req[2])[k])
    BY <1>4 DEF AnswerHeader, AnswerBody, manager, links
  <2>2. v.req \in Named /\ v.req[2] \in Numbers /\ v.req = <<session, v.req[2]>>
    BY <2>1, ReqNumber DEF TInv, TMain, Own
  <2>3. PICK h \in Parts : fromVelo' = Append(fromVelo, h) /\ h.reqno = v.req[2]
    <3>1. PICK k \in {1, 2} : fromVelo' = Append(fromVelo, Frame(v.req[2])[k])
      BY <2>1
    <3>2. Frame(v.req[2])[k] \in Parts /\ Frame(v.req[2])[k].reqno = v.req[2]
      BY <2>2, FrameType, FrameNumber
    <3> QED BY <3>1, <3>2
  <2>4. Wrong(h.reqno) \/ <<session, h.reqno>> \in reaped
    BY <2>1, <2>2, <2>3 DEF Own
  <2>5. \A i \in 1 .. Len(fromVelo') :
          (i \in 1 .. Len(fromVelo) /\ fromVelo'[i] = fromVelo[i]) \/ fromVelo'[i] = h
    BY <1>0, <2>3, AppendIndex
  <2> QED BY <2>1, <2>4, <2>5, DueStays, SameAnswers
<1>5. CASE childEnd
  <2>1. UNCHANGED <<session, toManager>>
    BY <1>5 DEF childEnd, manager, links
  <2>2. PICK p \in Live :
          /\ reaped' = reaped \union {process[p].req}
          /\ \/ UNCHANGED fromVelo
             \/ \E e \in cmdSet : e.pid = p /\ fromVelo' = fromVelo \o Frame(e.req[2])
    BY <1>5, Reaping
  <2>3. CASE UNCHANGED fromVelo
    BY <2>1, <2>2, <2>3, SameAnswers
  <2>4. ASSUME NEW e \in cmdSet, e.pid = p, fromVelo' = fromVelo \o Frame(e.req[2])
        PROVE  Answers'
    <3>1. e.req = process[p].req /\ e.req \in Named
      BY <2>4 DEF Known, TInv, TSet, Commands
    <3>2. e.req = <<session, e.req[2]>> /\ e.req[2] \in Numbers
      BY <2>2, <3>1, ReqNumber DEF Children
    <3>3. \A i \in 1 .. Len(fromVelo') :
            \/ i \in 1 .. Len(fromVelo) /\ fromVelo'[i] = fromVelo[i]
            \/ fromVelo'[i] = Frame(e.req[2])[1] \/ fromVelo'[i] = Frame(e.req[2])[2]
      <4>1. Frame(e.req[2]) \in Seq(Parts) /\ Len(Frame(e.req[2])) = 2
        BY <3>2, FrameType
      <4> DEFINE f == Frame(e.req[2])
                 t == fromVelo \o f
      <4> HIDE DEF f
      <4>2. /\ Len(t) = Len(fromVelo) + 2
            /\ \A i \in 1 .. Len(t) :
                 t[i] = IF i <= Len(fromVelo) THEN fromVelo[i]
                        ELSE f[i - Len(fromVelo)]
        <5>1. f \in Seq(Parts) /\ Len(f) = 2
          BY <4>1 DEF f
        <5>2. /\ Len(t) = Len(fromVelo) + Len(f)
              /\ \A i \in 1 .. Len(fromVelo) + Len(f) :
                   t[i] = IF i <= Len(fromVelo) THEN fromVelo[i] ELSE f[i - Len(fromVelo)]
          BY <1>0, <5>1, ConcatProperties, Zenon
        <5> HIDE DEF t
        <5> QED BY <5>1, <5>2
      <4>3. fromVelo' = t
        BY <2>4 DEF f
      <4> HIDE DEF t
      <4>4. ASSUME NEW i \in 1 .. Len(t), i > Len(fromVelo)
            PROVE  i - Len(fromVelo) = 1 \/ i - Len(fromVelo) = 2
        BY <1>0, <4>2, <4>4
      <4> QED BY <1>0, <4>2, <4>3, <4>4 DEF f
    <3>4. Frame(e.req[2])[1].reqno = e.req[2] /\ Frame(e.req[2])[2].reqno = e.req[2]
      BY <3>2, FrameNumber
    <3>5. <<session, e.req[2]>> \in reaped'
      BY <2>2, <3>1, <3>2
    <3> QED BY <2>1, <2>2, <3>3, <3>4, <3>5, SameAnswers
  <2> QED BY <2>2, <2>3, <2>4
<1>6. CASE UNCHANGED <<session, reaped, fromVelo, toManager>>
  BY <1>6, SameAnswers
<1> QED BY <1>1, <1>2, <1>3, <1>4, <1>5, <1>6, Changes

\* The child that expandRun has given up on is not running any more.
LEMMA GivenUp ==
  ASSUME TInv, Own, Flag, Test, pc' # "add"
  PROVE  /\ pc = "counted" /\ pc' = "answer" /\ cmdSet = {}
         /\ v.pid \notin Live /\ v.req \in reaped /\ v.pid # 0
<1>1. pc = "counted" /\ pc' = "answer" /\ num = 0 /\ failure
  BY DEF Test, EndedEarly
<1> QED BY <1>1, ExecAssumption DEF Own, Flag, InHand, TInv, TMain

LEMMA KnownStep ==
  ASSUME TInv, Known, Own, Flag, Kept', [Next]_vars
  PROVE  Known'
<1>0. process \in [Pids -> [state : {"free", "running", "zombie"}, req : Named]]
  BY DEF TInv, TProcess
<1>1. CASE Accept
  <2>1. UNCHANGED process /\ Live = {}
    BY <1>1 DEF Accept, Own
  <2> QED BY <2>1, SameLive DEF Known
<1>2. CASE Fork
  <2>1. UNCHANGED cmdSet /\ pc = "idle" /\ pc' = "forked"
    BY <1>2 DEF Fork
  <2>2. PICK p \in Free :
          /\ v' = [pid |-> p, req |-> <<session, Head(toVelo)>>]
          /\ process' = [process EXCEPT ![p] = [state |-> "running", req |-> v'.req]]
          /\ Live' = Live \union {p} /\ p \notin Live
          /\ \A e \in cmdSet : e.pid # p
    BY <1>2, Starting
  <2>3. v'.pid = p /\ process'[p].req = v'.req
    BY <1>0, <2>2 DEF Free
  <2>4. \A q \in Live : q # p /\ process'[q].req = process[q].req /\ ~ InHand(q)
    BY <1>0, <2>1, <2>2 DEF Live, InHand
  <2>5. \A q \in Live' : (\E e \in cmdSet' : e.pid = q) \/ (pc' \in {"forked", "counted", "add"} /\ v'.pid = q)
    BY <2>1, <2>2, <2>3, <2>4 DEF Known
  <2>6. \A e \in cmdSet' : e.pid \in Live' => process'[e.pid].req = e.req
    BY <2>1, <2>2, <2>4 DEF Known
  <2>7. \A q \in Live' : v'.pid = q => process'[q].req = v'.req
    BY <2>3
  <2> QED BY <2>5, <2>6, <2>7 DEF Known, InHand
<1>3. ASSUME UNCHANGED <<process, cmdSet>>, \A p \in Live : InHand(p) => InHand(p)',
             pc \notin {"forked", "counted", "add"} => pc' \notin {"forked", "counted", "add"},
             UNCHANGED v \/ pc' \notin {"forked", "counted", "add"}
      PROVE  Known'
  <2>1. Live' = Live
    BY <1>3, SameLive
  <2> QED BY <1>3, <2>1 DEF Known, InHand
<1>4. CASE ForkFails
  <2>1. /\ UNCHANGED <<process, cmdSet>> /\ pc = "idle" /\ pc' = "answer"
    BY <1>4 DEF ForkFails
  <2> QED BY <1>3, <2>1 DEF InHand
<1>5. CASE Count \/ AnswerHeader \/ AnswerBody \/ Reset
  <2>1. /\ UNCHANGED <<process, cmdSet, v>>
        /\ \/ pc = "forked" /\ pc' = "counted"
           \/ /\ pc \in {"answer", "body", "reset"}
              /\ pc' \notin {"forked", "counted", "add"}
    BY <1>5 DEF Count, AnswerHeader, AnswerBody, Reset
  <2> QED BY <1>3, <2>1 DEF InHand
<1>6. CASE Test
  <2>1. UNCHANGED <<process, cmdSet, v>> /\ pc = "counted"
    BY <1>6 DEF Test
  <2>2. CASE pc' = "add"
    BY <1>3, <2>1, <2>2 DEF InHand
  <2>3. CASE pc' # "add"
    BY <1>3, <1>6, <2>1, <2>3, GivenUp DEF InHand
  <2> QED BY <2>2, <2>3
<1>7. CASE Add
  <2>1. /\ UNCHANGED <<process, v>> /\ pc = "add" /\ pc' = "idle"
        /\ \/ cmdSet' = cmdSet /\ \E e \in cmdSet : e.pid = v.pid
           \/ cmdSet' = cmdSet \union {v}
    BY <1>7 DEF Add, Added
  <2>2. Live' = Live
    BY <2>1, SameLive
  <2>3. ASSUME NEW p \in Live PROVE \E e \in cmdSet' : e.pid = p
    BY <2>1 DEF Known, InHand
  <2>4. \A e \in cmdSet' : e.pid \in Live => process[e.pid].req = e.req
    BY <2>1 DEF Known, InHand
  <2> QED BY <2>1, <2>2, <2>3, <2>4 DEF Known, InHand
<1>8. CASE childEnd
  <2>1. UNCHANGED <<pc, v>>
    BY <1>8 DEF childEnd, main
  <2>2. PICK p \in Live :
          /\ process' = [process EXCEPT ![p] = NoProcess]
          /\ Live' = Live \ {p}
          /\ \/ \E e \in cmdSet : e.pid = p /\ cmdSet' = cmdSet \ {e}
             \/ cmdSet' = cmdSet
    BY <1>8, Reaping
  <2>3. \A q \in Live' : q \in Live /\ q # p /\ process'[q].req = process[q].req
    BY <1>0, <2>2 DEF Live
  <2>4. ASSUME NEW q \in Live'
        PROVE  (\E e \in cmdSet' : e.pid = q) \/ (pc' \in {"forked", "counted", "add"} /\ v'.pid = q)
    BY <2>1, <2>2, <2>3 DEF Known, InHand
  <2>5. \A e \in cmdSet' : e.pid \in Live' => process'[e.pid].req = e.req
    BY <2>2, <2>3 DEF Known
  <2>6. \A q \in Live' : (pc' \in {"forked", "counted", "add"} /\ v'.pid = q) => process'[q].req = v'.req
    BY <2>1, <2>3 DEF Known, InHand
  <2> QED BY <2>4, <2>5, <2>6 DEF Known, InHand
<1>9. CASE \E p \in Pids : ChildExits(p)
  <2>1. UNCHANGED <<pc, v, cmdSet>>
    BY <1>9 DEF ChildExits, main
  <2>2. Live' = Live /\ \A q \in Pids : process'[q].req = process[q].req
    BY <1>9, Exiting
  <2>3. \A q \in Live : q \in Pids
    BY DEF Live
  <2> QED BY <2>1, <2>2, <2>3 DEF Known, InHand
<1>10. CASE UNCHANGED <<process, cmdSet, pc, v, num>>
  BY <1>3, <1>10 DEF InHand
<1> QED BY <1>1, <1>2, <1>4, <1>5, <1>6, <1>7, <1>8, <1>9, <1>10, Changes

LEMMA OwnStep ==
  ASSUME TInv, Children, Lost, Own, Flag, Kept', [Next]_vars
  PROVE  Own'
<1>0. reaped \subseteq reaped' /\ (cmdSet = {} => cmdSet' = {} \/ Add)
  <2>1. reaped \subseteq reaped'
    BY Changes, Reaping
  <2>2. CASE Accept
    BY <2>2 DEF Accept
  <2>3. CASE childEnd
    BY <2>3, Reaping
  <2> QED BY <2>1, <2>2, <2>3, Changes
<1> UNCHANGED session => \A n : Wrong(n) => Wrong(n)'
  BY Changes, DueStays
<1>1. ASSUME UNCHANGED <<pc, v, num, session, server, process>>, ~ Add PROVE Own'
  <2>1. Live' = Live
    BY <1>1, SameLive
  <2> QED BY <1>0, <1>1, <2>1 DEF Own
<1>2. CASE SessionEnds
  <2>1. Due = {} /\ UNCHANGED process /\ pc' = "idle"
    BY <1>2, CleanEnd
  <2>2. Live' = {}
    BY <2>1, SameLive DEF Children
  <2> QED BY <2>1, <2>2 DEF Own
<1>3. CASE Accept
  <2>1. server' = "up" /\ pc = "idle" /\ pc' = pc
    BY <1>3 DEF Accept, main, Own
  <2> QED BY <2>1 DEF Own
<1>4. CASE Fork
  <2>1. server' = "up" /\ UNCHANGED session /\ pc' = "forked" /\ toVelo # <<>>
    BY <1>4 DEF Fork, manager
  <2>2. v'.req = <<session, Head(toVelo)>>
    BY <1>4, Starting
  <2> QED BY <2>1, <2>2 DEF Own
<1>5. CASE ForkFails
  <2>1. server' = "up" /\ UNCHANGED session /\ pc' = "answer" 
        /\ v'.req = <<session, eCmdExec_>> /\ <<session, Head(toVelo)>> \in failed'
    BY <1>5 DEF ForkFails, manager
  <2>2. Wrong(eCmdExec_)'
    BY <2>1 DEF Wrong
  <2> QED BY <2>1, <2>2 DEF Own
<1>6. CASE Count
  <2>1. /\ UNCHANGED <<server, session, v, cmdSet, reaped>> /\ pc = "forked" /\ pc' = "counted"
        /\ num' = Cardinality(cmdSet)
    BY <1>6 DEF Count, manager
  <2>2. num' = 0 => cmdSet = {}
    BY <2>1, FS_EmptySet DEF TInv, TSet
  <2> QED BY <2>1, <2>2 DEF Own
<1>7. CASE Test
  <2>1. /\ UNCHANGED <<server, session, v, reaped>> /\ pc = "counted" /\ pc' \in {"answer", "add"}
    BY <1>7 DEF Test, manager
  <2>2. pc' = "answer" => v.req \in reaped
    BY <1>7, GivenUp
  <2> QED BY <2>1, <2>2 DEF Own
<1>8. CASE AnswerHeader \/ AnswerBody \/ Reset \/ Add
  <2>1. /\ UNCHANGED <<server, session, v, reaped>>
        /\ \/ pc = "answer" /\ pc' = "body"
           \/ pc = "body" /\ pc' \in {"reset", "idle"}
           \/ pc \in {"reset", "add"} /\ pc' = "idle"
    BY <1>8 DEF AnswerHeader, AnswerBody, Reset, Add, manager
  <2> QED BY <2>1 DEF Own
<1>9. CASE childEnd
  <2>1. UNCHANGED <<pc, v, num, session, server>>
    BY <1>9 DEF childEnd, main, manager
  <2>2. Live' \subseteq Live
    BY <1>9, Reaping
  <2> QED BY <1>0, <2>1, <2>2, <1>9, Reaping DEF Own
<1>10. CASE \E p \in Pids : ChildExits(p)
  <2>1. UNCHANGED <<pc, v, num, session, server, cmdSet, reaped>>
    BY <1>10 DEF ChildExits, main, manager
  <2>2. Live' = Live
    BY <1>10, Exiting
  <2> QED BY <2>1, <2>2 DEF Own
<1> QED
  BY <1>1, <1>2, <1>3, <1>4, <1>5, <1>6, <1>7, <1>8, <1>9, <1>10, Changes

LEMMA FlagStep ==
  ASSUME TInv, Known, Own, Flag, Kept', [Next]_vars
  PROVE  Flag'
<1>0. process \in [Pids -> [state : {"free", "running", "zombie"}, req : Named]]
  BY DEF TInv, TProcess
<1>1. ASSUME UNCHANGED <<failure, pc, v, cmdSet>>, Live' \subseteq Live, reaped \subseteq reaped'
      PROVE  Flag'
  BY <1>1 DEF Flag, InHand
<1>2. CASE Accept
  <2>1. failure' = FALSE
    BY <1>2 DEF Accept
  <2> QED BY <2>1 DEF Flag
<1>3. CASE Fork
  <2>1. UNCHANGED <<cmdSet, failure>> /\ pc = "idle"
    BY <1>3 DEF Fork
  <2>2. PICK p \in Free : Live' = Live \union {p} /\ \A e \in cmdSet : e.pid # p
    BY <1>3, Starting
  <2> QED BY <2>1, <2>2 DEF Flag, InHand
<1>4. ASSUME UNCHANGED <<process, cmdSet, failure, reaped>>,
             InHand(v.pid) /\ v.req \in reaped /\ v.pid \notin Live =>
               \/ pc' \in {"forked", "counted", "add"} /\ UNCHANGED v
               \/ pc' \in {"answer", "body", "reset"} /\ v'.pid # 0,
             pc \in {"answer", "body", "reset"} /\ v.pid # 0 =>
               pc' \in {"answer", "body", "reset"} /\ UNCHANGED v
      PROVE  Flag'
  <2>1. Live' = Live
    BY <1>4, SameLive
  <2> QED BY <1>4, <2>1 DEF Flag, InHand
<1>5. CASE ForkFails
  <2>1. UNCHANGED <<process, cmdSet, failure, reaped>> /\ pc = "idle"
    BY <1>5 DEF ForkFails
  <2> QED BY <1>4, <2>1 DEF InHand
<1>6. CASE Count
  <2>1. /\ UNCHANGED <<process, cmdSet, failure, reaped, v>>
        /\ pc = "forked" /\ pc' = "counted"
    BY <1>6 DEF Count
  <2> QED BY <1>4, <2>1 DEF InHand
<1>7. CASE Test
  <2>1. /\ UNCHANGED <<process, cmdSet, failure, reaped, v>>
        /\ pc = "counted" /\ pc' \in {"answer", "add"}
    BY <1>7 DEF Test
  <2>2. pc' # "add" => v.pid # 0
    BY <1>7, GivenUp
  <2> QED BY <1>4, <2>1, <2>2 DEF InHand
<1>8. CASE AnswerHeader \/ AnswerBody
  <2>1. /\ UNCHANGED <<process, cmdSet, failure, reaped, v>>
        /\ \/ pc = "answer" /\ pc' = "body"
           \/ pc = "body" /\ pc' = IF v.pid = 0 THEN "idle" ELSE "reset"
    BY <1>8 DEF AnswerHeader, AnswerBody
  <2> QED BY <1>4, <2>1 DEF InHand
<1>9. CASE Reset
  <2>1. failure' = FALSE
    BY <1>9 DEF Reset, FlagReset
  <2> QED BY <2>1 DEF Flag
<1>10. CASE Add
  <2>1. /\ UNCHANGED <<process, failure>> /\ pc = "add"
        /\ \/ cmdSet' = cmdSet /\ \E e \in cmdSet : e.pid = v.pid
           \/ cmdSet' = cmdSet \union {v}
    BY <1>10 DEF Add, Added
  <2>2. Live' = Live
    BY <2>1, SameLive
  <2> QED BY <2>1, <2>2 DEF Flag, InHand
<1>11. CASE childEnd
  <2>1. UNCHANGED <<pc, v>>
    BY <1>11 DEF childEnd, main
  <2>2. PICK p \in Live :
          /\ reaped' = reaped \union {process[p].req}
          /\ Live' = Live \ {p}
          /\ \/ \E e \in cmdSet : e.pid = p /\ cmdSet' = cmdSet \ {e} /\ failure' = failure
             \/ (\A e \in cmdSet : e.pid # p) /\ cmdSet' = cmdSet
    BY <1>11, Reaping
  <2>3. CASE \E e \in cmdSet : e.pid = p /\ cmdSet' = cmdSet \ {e} /\ failure' = failure
    BY <2>1, <2>2, <2>3 DEF Flag, InHand
  <2>4. CASE \A e \in cmdSet : e.pid # p
    <3>1. InHand(p) /\ process[p].req = v.req
      BY <2>2, <2>4 DEF Known
    <3> QED BY <2>1, <2>2, <3>1 DEF Flag, InHand
  <2> QED BY <2>2, <2>3, <2>4
<1>12. CASE \E p \in Pids : ChildExits(p)
  <2>1. UNCHANGED <<failure, pc, v, cmdSet, reaped>>
    BY <1>12 DEF ChildExits, main
  <2> QED BY <1>1, <1>12, <2>1, Exiting
<1>13. CASE UNCHANGED <<failure, pc, v, num, cmdSet, process, reaped>>
  BY <1>1, <1>13, SameLive
<1> QED
  BY <1>2, <1>3, <1>5, <1>6, <1>7, <1>8, <1>9, <1>10, <1>11, <1>12, <1>13, Changes

LEMMA EndedStep ==
  ASSUME TInv, Known, Own, Ended, [Next]_vars
  PROVE  Ended'
<1>0. failed \subseteq failed' /\ \A r : Mistaken(r) => Mistaken(r)'
  BY Changes DEF Mistaken
<1>1. CASE AnswerBody
  <2>1. reported' = reported \union {v.req} /\ pc = "body" /\ reaped' = reaped
    BY <1>1 DEF AnswerBody
  <2>2. v.req = <<session, v.req[2]>> /\ session \in 1 .. MaxSessions
    BY <2>1, ReqNumber DEF Own, TInv, TMain, TManager
  <2>3. v.req \in reaped \union failed \/ Mistaken(v.req)
    <3>1. CASE Wrong(v.req[2])
      <4>1. PICK f \in failed : f[1] = session /\ v.req[2] = eCmdExec_
        BY <3>1 DEF Wrong
      <4> QED BY <2>1, <2>2, <4>1, FailedTypes DEF Mistaken, Own
    <3> QED BY <2>1, <3>1 DEF Own
  <2> QED BY <1>0, <2>1, <2>3 DEF Ended
<1>2. CASE childEnd
  <2>1. PICK p \in Live :
          /\ reaped' = reaped \union {process[p].req}
          /\ \/ \E e \in cmdSet : e.pid = p /\ reported' = reported \union {e.req}
             \/ reported' = reported
    BY <1>2, Reaping
  <2>2. \A e \in cmdSet : e.pid = p => e.req = process[p].req
    BY DEF Known
  <2> QED BY <1>0, <2>1, <2>2 DEF Ended
<1>3. CASE UNCHANGED <<reported, reaped>>
  BY <1>0, <1>3 DEF Ended
<1> QED BY <1>1, <1>2, <1>3, Changes

LEMMA EndInit == Init => EndInv
<1> SUFFICES ASSUME Init PROVE EndInv  OBVIOUS
<1>1. /\ toAgent = <<>> /\ toVelo = <<>> /\ fromVelo = <<>> /\ toManager = <<>>
      /\ reaped = {} /\ reported = {} /\ failed = {} /\ failure = FALSE /\ pc = "idle" /\ cmdSet = {}
      /\ process = [p \in Pids |-> NoProcess]
  BY DEF Init
<1>2. Live = {}
  BY <1>1 DEF Live, NoProcess
<1> QED
  BY <1>1, <1>2
    DEF EndInv, Pipes, Children, Past, Answers, Lost, Known, Own, Flag, Ended

LEMMA EndStep == TInv /\ EndInv /\ [Next]_vars => EndInv'
<1> SUFFICES ASSUME TInv, EndInv, [Next]_vars, Kept'
             PROVE  /\ Pipes' /\ Children' /\ Past' /\ Answers' /\ Lost'
                    /\ Known' /\ Own' /\ Flag' /\ Ended'
  BY DEF EndInv
<1>1. Pipes /\ Children /\ Past /\ Answers /\ Lost /\ Known /\ Own /\ Flag /\ Ended
  BY KeptBefore DEF EndInv
<1>2. "torn" \notin incidents'
  BY DEF Kept
<1> QED
  BY <1>1, <1>2, PipesStep, ChildrenStep, PastStep, AnswersStep, LostStep, KnownStep,
     OwnStep, FlagStep, EndedStep

\* As long as no session is left with commands open, no pid is used again that
\* cmdSet still holds and no answer is torn, no command is answered before it
\* has ended: the flag of childEnd, which may stay set for the rest of a
\* session, is never taken for that of another command (TeServer.cc, expandRun
\* and childEnd).  The exception is request eCmdExec_ of a session in which
\* vfork() failed for another: the answer to that one bears its number.
THEOREM EndCorrect == Spec => []AnsweredAfterEnd
<1>1. EndInv => AnsweredAfterEnd
  BY DEF EndInv, Kept, Ended, AnsweredAfterEnd
<1> QED BY <1>1, EndInit, EndStep, TypeAlways, PTL DEF Spec

----------------------------------------------------------------------------
\* Why velm gets at most one answer to a request, as long as no session is
\* left with commands open and no answer is torn, although a pid may be used
\* again that cmdSet still holds.  A command is in one place: in the pipes to
\* velo, in hand, in cmdSet, or its number in one header, in one answer of
\* vela, or among the confirmed.  Nothing of this holds for a number that also
\* stands for the failed vfork() of another request.
Headers(n) == {i \in 1 .. Len(fromVelo) :
                 fromVelo[i].part = "header" /\ fromVelo[i].reqno = n}
Told(n) == {i \in 1 .. Len(toManager) : toManager[i] = n}

Open(n) == n \in outstanding /\ Passed(n)
Unanswered(n) == Open(n) /\ Headers(n) = {} /\ Told(n) = {}

\* expandRun will enter the command it has in hand, or answer it.
OwesHand == pc \in {"forked", "counted", "add", "answer"} /\ ~ Shared(v.req[2])

Hand ==
  /\ pc # "idle" => v.req[1] = session
  /\ OwesHand => /\ \A n : n = v.req[2] => Unanswered(n)
                 /\ \A e \in cmdSet : e.req # v.req

Entered ==
  /\ \A e \in cmdSet : e.req[1] = session /\ (Shared(e.req[2]) \/ Unanswered(e.req[2]))
  /\ \A d, e \in cmdSet : d.req = e.req => d = e \/ Shared(d.req[2])

\* A request whose vfork() failed is nowhere and stays open.
Forgotten ==
  \A f \in failed :
    /\ f[1] <= session
    /\ f[1] = session /\ f[2] # eCmdExec_ =>
         /\ Unanswered(f[2]) /\ (OwesHand => v.req # f)
         /\ \A e \in cmdSet : e.req # f

Underway(n) ==
  /\ Headers(n) # {} => Open(n) /\ Told(n) = {}
  /\ \A i, j \in Headers(n) : i = j
  /\ Told(n) # {} => Open(n)
  /\ \A i, j \in Told(n) : i = j

Confirmed ==
  /\ \A n \in outstanding : Shared(n) \/ confirms[<<session, n>>] = 0
  /\ \A r \in Requests : confirms[r] > 0 =>
       r[1] <= session /\ (r[1] = session => Shared(r[2]) \/ Passed(r[2]))
  /\ \A r \in Requests : confirms[r] <= 1 \/ Mistaken(r)

Ways == \A n \in Numbers : Underway(n) \/ Shared(n)

NoneLeft == incidents \intersect {"abandoned", "torn"} = {}

OnceInv ==
  NoneLeft => Pipes /\ Hand /\ Entered /\ Forgotten /\ Ways /\ Confirmed

LEMMA OnceTypes ==
  TInv => /\ MaxCommands \in Nat /\ outstanding \subseteq 1 .. MaxCommands
          /\ Numbers \subseteq Nat /\ 1 .. MaxCommands \subseteq Numbers
          /\ v.req \in Named /\ v.req[2] \in Numbers /\ v.req = <<v.req[1], v.req[2]>>
          /\ \A e \in cmdSet : /\ e.req \in Named /\ e.req[2] \in Numbers
                               /\ e.req = <<e.req[1], e.req[2]>>
          /\ fromVelo \in Seq(Parts) /\ Len(fromVelo) \in Nat
          /\ toManager \in Seq(Numbers) /\ Len(toManager) \in Nat
          /\ \A i \in 1 .. Len(fromVelo) : fromVelo[i].reqno \in Numbers
          /\ \A i \in 1 .. Len(toManager) : toManager[i] \in Numbers
<1> SUFFICES ASSUME TInv PROVE
          /\ MaxCommands \in Nat /\ outstanding \subseteq 1 .. MaxCommands
          /\ Numbers \subseteq Nat /\ 1 .. MaxCommands \subseteq Numbers
          /\ v.req \in Named /\ v.req[2] \in Numbers /\ v.req = <<v.req[1], v.req[2]>>
          /\ \A e \in cmdSet : /\ e.req \in Named /\ e.req[2] \in Numbers
                               /\ e.req = <<e.req[1], e.req[2]>>
          /\ fromVelo \in Seq(Parts) /\ Len(fromVelo) \in Nat
          /\ toManager \in Seq(Numbers) /\ Len(toManager) \in Nat
          /\ \A i \in 1 .. Len(fromVelo) : fromVelo[i].reqno \in Numbers
          /\ \A i \in 1 .. Len(toManager) : toManager[i] \in Numbers
  OBVIOUS
<1>1. /\ MaxCommands \in Nat /\ outstanding \subseteq 1 .. MaxCommands
      /\ Numbers \subseteq Nat /\ 1 .. MaxCommands \subseteq Numbers
  BY ExecAssumption DEF TInv, TManager, Numbers
<1>2. v.req \in Named /\ \A e \in cmdSet : e.req \in Named
  BY DEF TInv, TMain, TSet, Commands
<1>3. fromVelo \in Seq(Parts) /\ toManager \in Seq(Numbers)
  BY DEF TInv, TLinks, TAnswers
<1>4. /\ Len(fromVelo) \in Nat /\ \A i \in 1 .. Len(fromVelo) : fromVelo[i] \in Parts
      /\ Len(toManager) \in Nat /\ \A i \in 1 .. Len(toManager) : toManager[i] \in Numbers
  BY <1>3, ElementOfSeq, LenProperties
<1> QED BY <1>1, <1>2, <1>3, <1>4, ReqNumber DEF Parts

\* What is open stays so until velm is told.
LEMMA OpenStays ==
  ASSUME TInv, Pipes, [Next]_vars, UNCHANGED session,
         NEW n \in Nat, Open(n), n \in outstanding'
  PROVE  Open(n)'
BY PassedStep DEF Open

LEMMA OutstandingKept ==
  ASSUME [Next]_vars, TInv, UNCHANGED session
  PROVE  Complete \/ outstanding \subseteq outstanding'
<1>1. ~ SessionEnds
  BY DEF SessionEnds, TInv, TManager
<1>2. Ask => outstanding \subseteq outstanding'
  BY DEF Ask
<1> QED BY <1>1, <1>2, Changes

\* What the steps that write and read answers do to the headers and to what
\* velm is told.
LEMMA HeadersKept == UNCHANGED fromVelo => \A n : Headers(n)' = Headers(n)
BY DEF Headers

LEMMA ToldKept == UNCHANGED toManager => \A n : Told(n)' = Told(n)
BY DEF Told

LEMMA HeaderWritten ==
  ASSUME TInv, NEW m \in Numbers, NEW n \in Numbers,
         NEW h \in Parts, h.reqno = m, fromVelo' = Append(fromVelo, h)
  PROVE  Headers(n)' \subseteq
           Headers(n) \union (IF n = m /\ h.part = "header" THEN {Len(fromVelo) + 1} ELSE {})
<1>1. /\ Len(fromVelo') = Len(fromVelo) + 1 /\ Len(fromVelo) \in Nat
      /\ \A i \in 1 .. Len(fromVelo) + 1 :
           \/ i \in 1 .. Len(fromVelo) /\ fromVelo'[i] = fromVelo[i]
           \/ i = Len(fromVelo) + 1 /\ fromVelo'[i] = h
  <2>1. fromVelo \in Seq(Parts)
    BY OnceTypes
  <2> QED BY <2>1, AppendIndex
<1>2. ASSUME NEW i \in Headers(n)'
      PROVE  i \in Headers(n) \/ (i = Len(fromVelo) + 1 /\ n = m /\ h.part = "header")
  BY <1>1 DEF Headers
<1> QED BY <1>2

LEMMA FrameWritten ==
  ASSUME TInv, NEW m \in Numbers, NEW n \in Numbers,
         fromVelo' = fromVelo \o Frame(m)
  PROVE  Headers(n)' \subseteq
           Headers(n) \union (IF n = m THEN {Len(fromVelo) + 1} ELSE {})
<1> DEFINE f == Frame(m)
<1>2. /\ f \in Seq(Parts) /\ Len(f) = 2
      /\ f[1] = [part |-> "header", reqno |-> m]
      /\ f[2] = [part |-> "body", reqno |-> m]
  BY FrameType
<1>3. fromVelo \in Seq(Parts) /\ Len(fromVelo) \in Nat
  BY OnceTypes
<1>4. fromVelo' = fromVelo \o f
  OBVIOUS
<1> HIDE DEF f
<1>5. /\ Len(fromVelo \o f) = Len(fromVelo) + Len(f)
      /\ \A i \in 1 .. Len(fromVelo) + Len(f) :
           (fromVelo \o f)[i] = IF i <= Len(fromVelo) THEN fromVelo[i] ELSE f[i - Len(fromVelo)]
  BY <1>2, <1>3, ConcatProperties, Zenon
<1>6. /\ Len(fromVelo') = Len(fromVelo) + 2
      /\ \A i \in 1 .. Len(fromVelo) + 2 :
           fromVelo'[i] = IF i <= Len(fromVelo) THEN fromVelo[i] ELSE f[i - Len(fromVelo)]
  <2> DEFINE t == fromVelo \o f
  <2>1. /\ Len(t) = Len(fromVelo) + Len(f)
        /\ \A i \in 1 .. Len(fromVelo) + Len(f) :
             t[i] = IF i <= Len(fromVelo) THEN fromVelo[i] ELSE f[i - Len(fromVelo)]
    BY <1>5
  <2>2. fromVelo' = t
    BY <1>4
  <2> HIDE DEF t
  <2> QED BY <1>2, <2>1, <2>2
<1>7. ASSUME NEW i \in Headers(n)'
      PROVE  i \in Headers(n) \/ (i = Len(fromVelo) + 1 /\ n = m)
  <2>1. /\ i \in 1 .. Len(fromVelo) + 2
        /\ fromVelo'[i].part = "header" /\ fromVelo'[i].reqno = n
    BY <1>6 DEF Headers
  <2>2. CASE i <= Len(fromVelo)
    BY <1>3, <1>6, <2>1, <2>2 DEF Headers
  <2>3. CASE i = Len(fromVelo) + 1
    <3>1. fromVelo'[i] = f[1]
      BY <1>3, <1>6, <2>1, <2>3
    <3> QED BY <1>2, <2>1, <2>3, <3>1
  <2>4. CASE i = Len(fromVelo) + 2
    <3>1. fromVelo'[i] = f[2]
      BY <1>3, <1>6, <2>1, <2>4
    <3>2. fromVelo'[i].part = "body"
      BY <1>2, <3>1
    <3> QED BY <2>1, <3>2
  <2> QED BY <1>3, <2>1, <2>2, <2>3, <2>4
<1> QED BY <1>7

LEMMA PairTaken ==
  ASSUME TInv, Confirm, NEW n \in Numbers
  PROVE  /\ \A i \in Headers(n)' : i + 2 \in Headers(n)
         /\ \/ Told(n)' \subseteq Told(n)
            \/ /\ 1 \in Headers(n)
               /\ \A i \in Told(n)' : i \in Told(n) \/ i = Len(toManager) + 1
<1>1. /\ Len(fromVelo) >= 2
      /\ fromVelo' = SubSeq(fromVelo, 3, Len(fromVelo))
      /\ \/ toManager' = Append(toManager, fromVelo[1].reqno) /\ fromVelo[1].part = "header"
         \/ toManager' = toManager
  BY DEF Confirm
<1>2. fromVelo \in Seq(Parts) /\ Len(fromVelo) \in Nat
  BY OnceTypes
<1>3. /\ Len(fromVelo') = Len(fromVelo) - 2
      /\ \A i \in 1 .. Len(fromVelo) - 2 : fromVelo'[i] = fromVelo[i + 2]
  BY <1>1, <1>2, ConfirmType DEF TAnswers
<1>4. \A i \in Headers(n)' : i + 2 \in Headers(n)
  BY <1>1, <1>2, <1>3 DEF Headers
<1>5. CASE toManager' = toManager
  BY <1>4, <1>5, ToldKept
<1>6. CASE toManager' = Append(toManager, fromVelo[1].reqno) /\ fromVelo[1].part = "header"
  <2>1. fromVelo[1].reqno \in Numbers
    BY <1>1, <1>2, ConfirmType DEF TAnswers, Parts
  <2>2. toManager \in Seq(Numbers)
    BY OnceTypes
  <2>3. /\ Len(toManager') = Len(toManager) + 1 /\ Len(toManager) \in Nat
        /\ \A i \in 1 .. Len(toManager) + 1 :
             \/ i \in 1 .. Len(toManager) /\ toManager'[i] = toManager[i]
             \/ i = Len(toManager) + 1 /\ toManager'[i] = fromVelo[1].reqno
    BY <1>6, <2>1, <2>2, AppendIndex
  <2>4. CASE fromVelo[1].reqno = n
    <3>1. 1 \in Headers(n)
      BY <1>1, <1>2, <1>6, <2>4 DEF Headers
    <3>2. \A i \in Told(n)' : i \in Told(n) \/ i = Len(toManager) + 1
      BY <2>3 DEF Told
    <3> QED BY <1>4, <3>1, <3>2
  <2>5. CASE fromVelo[1].reqno # n
    <3>1. Told(n)' \subseteq Told(n)
      BY <2>3, <2>5 DEF Told
    <3> QED BY <1>4, <3>1
  <2> QED BY <2>4, <2>5
<1> QED BY <1>1, <1>5, <1>6

LEMMA AnswerTaken ==
  ASSUME TInv, Complete
  PROVE  /\ Head(toManager) \in Numbers
         /\ 1 \in Told(Head(toManager))
         /\ \A n \in Numbers : \A i \in Told(n)' : i + 1 \in Told(n) /\ i \in Nat \ {0}
<1>1. toManager # <<>> /\ toManager' = Tail(toManager) /\ toManager \in Seq(Numbers)
  BY OnceTypes DEF Complete
<1>2. /\ Head(toManager) = toManager[1] /\ 1 \in 1 .. Len(toManager)
      /\ Len(toManager) \in Nat /\ Len(toManager') = Len(toManager) - 1
      /\ \A i \in 1 .. Len(toManager') :
           i + 1 \in 1 .. Len(toManager) /\ toManager'[i] = toManager[i + 1]
  BY <1>1, TailIndex
<1>3. Head(toManager) \in Numbers
  BY <1>2, OnceTypes
<1>4. 1 \in Told(Head(toManager))
  BY <1>2 DEF Told
<1>5. \A n \in Numbers : \A i \in Told(n)' : i + 1 \in Told(n) /\ i \in Nat \ {0}
  BY <1>2 DEF Told
<1> QED BY <1>3, <1>4, <1>5

\* The part of velo that writes the number of n into a header.
ByHand(n) == AnswerHeader /\ v.req[2] = n
ByHandler(n) == childEnd /\ \E e \in cmdSet : e.req[2] = n /\ cmdSet' = cmdSet \ {e}

LEMMA HeadersGrow ==
  ASSUME TInv, [Next]_vars, UNCHANGED session, "torn" \notin incidents', NEW n \in Numbers
  PROVE  \/ \A i \in Headers(n)' : i \in Headers(n)
         \/ Confirm /\ \A i \in Headers(n)' : i + 2 \in Headers(n)
         \/ /\ ByHand(n) \/ ByHandler(n)
            /\ \A i \in Headers(n)' : i \in Headers(n) \/ i = Len(fromVelo) + 1
<1>1. ~ SessionEnds
  BY DEF SessionEnds, TInv, TManager
<1>2. CASE UNCHANGED fromVelo
  BY <1>2, HeadersKept
<1>3. CASE Confirm
  BY <1>3, PairTaken
<1>4. CASE AnswerHeader \/ AnswerBody
  <2>1. PICK k \in {1, 2} : /\ fromVelo' = Append(fromVelo, Frame(v.req[2])[k])
                            /\ k = 1 => AnswerHeader
    BY <1>4 DEF AnswerHeader, AnswerBody
  <2>2. PICK m \in Numbers : m = v.req[2]
    BY OnceTypes
  <2> DEFINE h == Frame(m)[k]
  <2>4. h \in Parts /\ h.reqno = m /\ (k = 2 => h.part = "body")
    <3>1. CASE k = 1
      <4>1. Frame(m)[1] \in Parts /\ Frame(m)[1].reqno = m
        BY FrameType, FrameNumber
      <4> QED BY <3>1, <4>1
    <3>2. CASE k = 2
      <4>2. Frame(m)[2] = [part |-> "body", reqno |-> m] /\ Frame(m)[2] \in Parts
        BY FrameType
      <4> QED BY <3>2, <4>2
    <3> QED BY <3>1, <3>2
  <2>5. fromVelo' = Append(fromVelo, h)
    BY <2>1, <2>2
  <2> HIDE DEF h
  <2>6. Headers(n)' \subseteq
          Headers(n) \union (IF n = m /\ h.part = "header" THEN {Len(fromVelo) + 1} ELSE {})
    BY <2>4, <2>5, HeaderWritten
  <2>7. n = m /\ h.part = "header" => ByHand(n)
    <3>1. h.part = "header" => k = 1
      BY <2>4
    <3> QED BY <2>1, <2>2, <3>1 DEF ByHand
  <2> QED BY <2>6, <2>7
<1>5. CASE childEnd
  <2>1. \/ \E e \in cmdSet : cmdSet' = cmdSet \ {e} /\ fromVelo' = fromVelo \o Frame(e.req[2])
        \/ fromVelo' = fromVelo
    BY <1>5, Reaping
  <2>2. ASSUME NEW e \in cmdSet, cmdSet' = cmdSet \ {e}, fromVelo' = fromVelo \o Frame(e.req[2])
        PROVE  \/ \A i \in Headers(n)' : i \in Headers(n)
               \/ /\ ByHandler(n)
                  /\ \A i \in Headers(n)' : i \in Headers(n) \/ i = Len(fromVelo) + 1
    <3>1. PICK m \in Numbers : m = e.req[2]
      BY OnceTypes
    <3>2. Headers(n)' \subseteq
            Headers(n) \union (IF n = m THEN {Len(fromVelo) + 1} ELSE {})
      BY <2>2, <3>1, FrameWritten
    <3>3. n = m => ByHandler(n)
      BY <1>5, <2>2, <3>1 DEF ByHandler
    <3> QED BY <3>2, <3>3
  <2> QED BY <1>2, <2>1, <2>2
<1> QED BY <1>1, <1>2, <1>3, <1>4, <1>5, Changes, NotTorn

LEMMA ToldGrow ==
  ASSUME TInv, [Next]_vars, UNCHANGED session, "torn" \notin incidents', NEW n \in Numbers
  PROVE  \/ \A i \in Told(n)' : i \in Told(n)
         \/ Complete /\ \A i \in Told(n)' : i + 1 \in Told(n) /\ i \in Nat \ {0}
         \/ /\ Confirm /\ 1 \in Headers(n)
            /\ \A i \in Told(n)' : i \in Told(n) \/ i = Len(toManager) + 1
<1>1. ~ SessionEnds
  BY DEF SessionEnds, TInv, TManager
<1>2. CASE UNCHANGED toManager
  BY <1>2, ToldKept
<1>3. CASE Confirm
  BY <1>3, PairTaken
<1>4. CASE Complete
  BY <1>4, AnswerTaken
<1> QED BY <1>1, <1>2, <1>3, <1>4, Changes, NotTorn

LEMMA PipesOnce ==
  ASSUME TInv, Pipes, Ways, [Next]_vars, UNCHANGED session
  PROVE  Pipes'
<1>1. CASE Ask
  BY <1>1, AskStep
<1>2. CASE Forward
  BY <1>2, ForwardStep
<1>3. CASE Fork \/ ForkFails
  BY <1>3, ForkTakes, TakenStep
<1>4. CASE Complete
  <2>1. /\ UNCHANGED <<toAgent, toVelo, asked, failed>>
        /\ outstanding' = outstanding \ {Head(toManager)}
    BY <1>4 DEF Complete
  <2>2. PICK m \in Numbers : m = Head(toManager) /\ Told(m) # {}
    BY <1>4, AnswerTaken
  <2>3. Shared(m) \/ Passed(m)
    BY <2>2 DEF Ways, Underway, Open
  <2>4. /\ \A i \in 1 .. Len(toAgent) : toAgent[i] # m \/ Shared(toAgent[i])
        /\ \A i \in 1 .. Len(toVelo) : toVelo[i] # m \/ Shared(toVelo[i])
    BY <2>3, OnceTypes, PipeNumbers DEF Passed
  <2>5. \A n \in Due : n # m \/ Shared(n) => n \in Due'
    BY <2>1, <2>2 DEF Due, Shared
  <2> QED BY <2>1, <2>4, <2>5 DEF Pipes
<1>5. CASE UNCHANGED <<toAgent, toVelo, asked, outstanding>>
  <2>1. Due \subseteq Due'
    BY <1>5, DueStays, Changes
  <2> QED BY <1>5, <2>1 DEF Pipes
<1>6. ~ SessionEnds
  BY DEF SessionEnds, TInv, TManager
<1> QED BY <1>1, <1>2, <1>3, <1>4, <1>5, <1>6, Changes

\* A number nobody is told of stays open and unanswered, unless velo writes it.
LEMMA UnansweredStays ==
  ASSUME TInv, Pipes, [Next]_vars, UNCHANGED session, "torn" \notin incidents',
         NEW n \in Numbers, Unanswered(n), ~ ByHand(n), ~ ByHandler(n)
  PROVE  Unanswered(n)'
<1>1. Headers(n)' = {}
  BY HeadersGrow DEF Unanswered
<1>2. Told(n)' = {}
  BY ToldGrow DEF Unanswered
<1>3. n \in outstanding'
  <2>1. CASE Complete
    <3>1. outstanding' = outstanding \ {Head(toManager)} /\ Told(Head(toManager)) # {}
      BY <2>1, AnswerTaken DEF Complete
    <3> QED BY <3>1 DEF Unanswered, Open
  <2> QED BY <2>1, OutstandingKept DEF Unanswered, Open
<1>4. Open(n)'
  BY <1>3, OpenStays, OnceTypes DEF Unanswered
<1> QED BY <1>1, <1>2, <1>4 DEF Unanswered

LEMMA WaysStep ==
  ASSUME TInv, Pipes, Hand, Entered, Ways, [Next]_vars, UNCHANGED session,
         "torn" \notin incidents'
  PROVE  Ways'
<1> SUFFICES ASSUME NEW n \in Numbers, ~ Shared(n)' PROVE Underway(n)'
  BY DEF Ways
<1>0. Underway(n) /\ n \in Nat /\ ~ Shared(n)
  BY OnceTypes, DueStays, Changes DEF Ways
<1>0a. \A i \in Headers(n) : i \in 1 .. Len(fromVelo)
  BY DEF Headers
<1>0b. \A i \in Headers(n)' : i \in Nat /\ i > 0
  BY DEF Headers
<1>0c. Len(fromVelo) \in Nat /\ Len(toManager) \in Nat
  BY OnceTypes
\* Who writes n has it, and nobody else.
<1>1. ByHand(n) \/ ByHandler(n) => Unanswered(n)
  BY <1>0, OnceTypes DEF ByHand, ByHandler, AnswerHeader, Hand, OwesHand, Entered
<1>2. ByHand(n) \/ ByHandler(n) => ~ Complete /\ ~ Confirm
  BY DEF ByHand, ByHandler, AnswerHeader, childEnd, Complete, Confirm, links, manager
\* n stays open: velm is told of it no second time.
<1>3. Open(n) /\ (Complete => Told(n) = {}) => Open(n)'
  <2>1. CASE Complete
    <3>1. outstanding' = outstanding \ {Head(toManager)} /\ Told(Head(toManager)) # {}
      BY <2>1, AnswerTaken DEF Complete
    <3>2. Open(n) /\ Told(n) = {} => n \in outstanding'
      <4>1. Told(n) = {} => n # Head(toManager)
        BY <3>1
      <4> QED BY <3>1, <4>1 DEF Open
    <3> QED BY <3>2, <2>1, <1>0, OpenStays
  <2> QED BY <2>1, <1>0, OutstandingKept, OpenStays DEF Open
<1>4. \A i, j \in Headers(n)' : i = j
  <2>1. CASE \A i \in Headers(n)' : i \in Headers(n)
    BY <2>1, <1>0 DEF Underway
  <2>2. CASE \A i \in Headers(n)' : i + 2 \in Headers(n)
    <3>1. \A i, j \in Headers(n)' : i + 2 = j + 2
      BY <2>2, <1>0 DEF Underway
    <3> QED BY <3>1, <1>0b
  <2>3. CASE /\ ByHand(n) \/ ByHandler(n)
             /\ \A i \in Headers(n)' : i \in Headers(n) \/ i = Len(fromVelo) + 1
    BY <2>3, <1>1 DEF Unanswered
  <2> QED BY <2>1, <2>2, <2>3, HeadersGrow
<1>5. \A i, j \in Told(n)' : i = j
  <2>1. CASE \A i \in Told(n)' : i \in Told(n)
    BY <2>1, <1>0 DEF Underway
  <2>2. CASE \A i \in Told(n)' : i + 1 \in Told(n) /\ i \in Nat \ {0}
    <3>1. \A i, j \in Told(n)' : i + 1 = j + 1
      BY <2>2, <1>0 DEF Underway
    <3> QED BY <3>1, <2>2
  <2>3. CASE /\ 1 \in Headers(n)
             /\ \A i \in Told(n)' : i \in Told(n) \/ i = Len(toManager) + 1
    BY <2>3, <1>0 DEF Underway
  <2> QED BY <2>1, <2>2, <2>3, ToldGrow
<1>6. ASSUME Headers(n)' # {} PROVE Open(n)' /\ Told(n)' = {}
  <2>1. Open(n) /\ Told(n) = {}
    BY <1>6, <1>0, <1>1, HeadersGrow DEF Underway, Unanswered
  <2>2. ~ (Confirm /\ 1 \in Headers(n))
    <3>1. SUFFICES ASSUME Confirm, 1 \in Headers(n) PROVE FALSE
      OBVIOUS
    <3>2. PICK i \in Headers(n)' : i + 2 \in Headers(n)
      BY <1>6, <3>1, PairTaken
    <3>3. i + 2 = 1
      BY <1>0, <3>1, <3>2 DEF Underway
    <3> QED BY <3>2, <3>3, <1>0b
  <2>3. Told(n)' = {}
    BY <2>1, <2>2, ToldGrow
  <2> QED BY <1>3, <2>1, <2>3
<1>7. ASSUME Told(n)' # {} PROVE Open(n)'
  <2>1. CASE \A i \in Told(n)' : i \in Told(n)
    <3>1. Open(n)
      BY <1>0, <1>7, <2>1 DEF Underway
    <3>2. ~ Complete
      <4>1. SUFFICES ASSUME Complete PROVE FALSE
        OBVIOUS
      <4>2. PICK i \in Told(n)' : i + 1 \in Told(n) /\ i \in Nat \ {0}
        BY <1>7, <4>1, AnswerTaken
      <4>3. i \in Told(n)
        BY <2>1, <4>2
      <4>4. i = i + 1
        BY <1>0, <4>2, <4>3 DEF Underway
      <4> QED BY <4>2, <4>4
    <3> QED BY <1>3, <3>1, <3>2
  <2>2. CASE Complete /\ \A i \in Told(n)' : i + 1 \in Told(n) /\ i \in Nat \ {0}
    <3>1. PICK i \in Told(n)' : i + 1 \in Told(n) /\ i \in Nat \ {0}
      BY <1>7, <2>2
    <3>2. Told(n) # {} /\ 1 \notin Told(n)
      BY <1>0, <3>1 DEF Underway
    <3>3. Open(n) /\ Head(toManager) # n
      BY <1>0, <2>2, <3>2, AnswerTaken DEF Underway
    <3>4. outstanding' = outstanding \ {Head(toManager)}
      BY <2>2 DEF Complete
    <3> QED BY <1>0, <3>3, <3>4, OpenStays DEF Open
  <2>3. CASE Confirm /\ 1 \in Headers(n)
    <3>1. Open(n) /\ ~ Complete
      BY <1>0, <2>3 DEF Underway, Confirm, Complete, manager
    <3> QED BY <1>3, <3>1
  <2> QED BY <2>1, <2>2, <2>3, ToldGrow
<1> QED BY <1>4, <1>5, <1>6, <1>7 DEF Underway

\* What velo takes from its pipe is nowhere else.
LEMMA TakenAlone ==
  ASSUME TInv, Pipes, Entered, Ways, [Next]_vars, Fork \/ ForkFails,
         NEW n, n = Head(toVelo), ~ Shared(n)'
  PROVE  Unanswered(n)' /\ \A e \in cmdSet : e.req # <<session, n>>
<1>1. /\ UNCHANGED <<session, outstanding, toManager, fromVelo, cmdSet>>
      /\ failed \subseteq failed'
  BY ForkTakes, Changes
<1>2. n \in Due /\ n \in Numbers /\ ~ Passed(n) /\ Passed(n)' /\ ~ Shared(n)
  BY <1>1, NextTaken, OnceTypes, DueStays
<1>3. n \in outstanding
  BY <1>2 DEF Due
<1>4. Headers(n)' = {} /\ Told(n)' = {}
  BY <1>1, <1>2, HeadersKept, ToldKept DEF Ways, Underway, Open
<1>5. Unanswered(n)'
  BY <1>1, <1>2, <1>3, <1>4 DEF Unanswered, Open
<1>6. ASSUME NEW e \in cmdSet, e.req = <<session, n>> PROVE FALSE
  <2>1. e.req[2] = n
    BY <1>6
  <2> QED BY <1>2, <2>1 DEF Entered, Unanswered, Open
<1> QED BY <1>5, <1>6

LEMMA HandStep ==
  ASSUME TInv, Pipes, Hand, Entered, Ways, [Next]_vars, UNCHANGED session,
         "torn" \notin incidents'
  PROVE  Hand'
<1>0. ~ SessionEnds
  BY DEF SessionEnds, TInv, TManager
\* A failed vfork() of request eCmdExec_ itself is answered like any other.
<1>1. CASE Fork \/ ForkFails
  <2>1. PICK k : v'.req = <<session, k>> /\ (k = Head(toVelo) \/ Shared(k)')
    <3>1. CASE Fork
      BY <1>1, <3>1, Starting
    <3>2. CASE ForkFails
      <4>1. /\ v'.req = <<session, eCmdExec_>> /\ <<session, Head(toVelo)>> \in failed'
        BY <3>2 DEF ForkFails
      <4>2. Head(toVelo) # eCmdExec_ => Shared(eCmdExec_)'
        BY <4>1 DEF Shared
      <4> QED BY <4>1, <4>2
    <3> QED BY <1>1, <3>1, <3>2
  <2>2. v'.req[1] = session /\ v'.req[2] = k /\ UNCHANGED cmdSet
    BY <1>1, <2>1, ForkTakes
  <2>3. ~ Shared(k)' => Unanswered(k)' /\ \A e \in cmdSet : e.req # <<session, k>>
    BY <1>1, <2>1, TakenAlone
  <2> QED BY <2>1, <2>2, <2>3 DEF Hand, OwesHand
<1>3. CASE AnswerHeader \/ AnswerBody \/ Reset \/ Add
  <2>1. /\ UNCHANGED <<session, v>> /\ pc' \in {"idle", "body", "reset"}
        /\ pc' # "idle" => pc # "idle"
    BY <1>3 DEF AnswerHeader, AnswerBody, Reset, Add, manager
  <2> QED BY <2>1 DEF Hand, OwesHand
<1>4. ASSUME UNCHANGED <<session, v>>, ~ AnswerHeader,
             \/ UNCHANGED pc
             \/ pc \in {"forked", "counted"} /\ pc' \in {"counted", "add", "answer"},
             \A e \in cmdSet' : e \in cmdSet
      PROVE  Hand'
  <2>1. pc' # "idle" => v'.req[1] = session'
    BY <1>4 DEF Hand
  <2>3. ASSUME OwesHand' PROVE (\A n : n = v.req[2] => Unanswered(n)') /\ \A e \in cmdSet' : e.req # v.req
    <3>0. ~ Shared(v.req[2])
      BY <1>4, <2>3, DueStays, Changes DEF OwesHand, Shared
    <3>1. OwesHand
      BY <1>4, <2>3, <3>0 DEF OwesHand
    <3>2. PICK n \in Numbers : n = v.req[2]
      BY OnceTypes
    <3>3. Unanswered(n) /\ \A e \in cmdSet : e.req # v.req
      BY <3>1, <3>2 DEF Hand
    <3>4. ~ ByHandler(n)
      <4>1. SUFFICES ASSUME NEW e \in cmdSet, e.req[2] = n PROVE FALSE
        BY DEF ByHandler
      <4>2. e.req = <<session, n>>
        BY <4>1, OnceTypes DEF Entered
      <4>3. v.req = <<session, n>>
        <5>1. pc # "idle"
          BY <3>1 DEF OwesHand
        <5> QED BY <3>2, <5>1, OnceTypes DEF Hand
      <4> QED BY <3>3, <4>2, <4>3
    <3>5. Unanswered(n)'
      BY <1>4, <3>3, <3>4, UnansweredStays DEF ByHand
    <3> QED BY <1>4, <3>2, <3>3, <3>5
  <2> QED BY <1>4, <2>1, <2>3 DEF Hand
<1>5. CASE Count \/ Test
  <2>1. /\ UNCHANGED <<session, v, cmdSet>> /\ pc \in {"forked", "counted"}
        /\ pc' \in {"counted", "add", "answer"} /\ ~ AnswerHeader
    BY <1>5 DEF Count, Test, AnswerHeader, manager
  <2> QED BY <1>4, <2>1
<1>6. CASE Accept \/ childEnd
  <2>1. UNCHANGED <<session, v, pc>> /\ cmdSet' \subseteq cmdSet
    <3>1. CASE Accept
      BY <3>1 DEF Accept, main, manager
    <3>2. CASE childEnd
      BY <3>2, Reaping DEF childEnd, main, manager
    <3> QED BY <1>6, <3>1, <3>2
  <2>2. ~ AnswerHeader
    BY <1>6 DEF Accept, childEnd, AnswerHeader
  <2> QED BY <1>4, <2>1, <2>2
<1>7. CASE UNCHANGED <<pc, v, cmdSet>>
  <2>1. ~ AnswerHeader
    BY <1>7 DEF AnswerHeader
  <2> QED BY <1>4, <1>7, <2>1
<1> QED BY <1>0, <1>1, <1>3, <1>5, <1>6, <1>7, Changes

LEMMA EnteredStep ==
  ASSUME TInv, Pipes, Hand, Entered, Ways, [Next]_vars, UNCHANGED session,
         "torn" \notin incidents'
  PROVE  Entered'
<1>0. \A n : Shared(n) => Shared(n)'
  BY DueStays, Changes
<1>1. ASSUME NEW e \in cmdSet, ~ Shared(e.req[2])', ~ ByHandler(e.req[2])
      PROVE  Unanswered(e.req[2])'
  <2>1. PICK n \in Numbers : n = e.req[2]
    BY OnceTypes
  <2>2. Unanswered(n) /\ ~ Shared(n)
    BY <1>0, <1>1, <2>1 DEF Entered
  <2>3. ~ ByHand(n)
    <3>1. SUFFICES ASSUME AnswerHeader, v.req[2] = n PROVE FALSE
      BY DEF ByHand
    <3>2. OwesHand /\ pc # "idle"
      BY <2>2, <3>1 DEF AnswerHeader, OwesHand
    <3>3. v.req = e.req
      BY <2>1, <3>1, <3>2, OnceTypes DEF Hand, Entered
    <3> QED BY <3>2, <3>3 DEF Hand
  <2>4. Unanswered(n)'
    BY <1>1, <2>1, <2>2, <2>3, UnansweredStays
  <2> QED BY <2>1, <2>4
<1>2. ASSUME \A e \in cmdSet' :
               e \in cmdSet /\ (Shared(e.req[2])' \/ ~ ByHandler(e.req[2]))
      PROVE  Entered'
  <2>1. ASSUME NEW e \in cmdSet'
        PROVE  e.req[1] = session /\ (Shared(e.req[2])' \/ Unanswered(e.req[2])')
    BY <1>1, <1>2, <2>1 DEF Entered
  <2>2. \A d, e \in cmdSet' : d.req = e.req => d = e \/ Shared(d.req[2])'
    BY <1>0, <1>2 DEF Entered
  <2> QED BY <2>1, <2>2 DEF Entered
<1>3. CASE Add
  <2>1. UNCHANGED <<session, v>> /\ pc = "add" /\ cmdSet' \in {cmdSet, cmdSet \union {v}}
    BY <1>3 DEF Add, Added, manager
  <2>2. ~ childEnd /\ ~ AnswerHeader
    BY <1>3 DEF Add, childEnd, AnswerHeader
  <2>3. PICK n \in Numbers : n = v.req[2]
    BY OnceTypes
  <2>4. v.req[1] = session
    BY <2>1 DEF Hand
  <2>5. ASSUME ~ Shared(n)' PROVE Unanswered(n)' /\ \A e \in cmdSet : e.req # v.req
    <3>1. Unanswered(n) /\ \A e \in cmdSet : e.req # v.req
      BY <1>0, <2>1, <2>3, <2>5 DEF Hand, OwesHand
    <3> QED BY <2>2, <3>1, UnansweredStays DEF ByHand, ByHandler
  <2>6. \A e \in cmdSet : e.req[1] = session /\ (Shared(e.req[2])' \/ Unanswered(e.req[2])')
    BY <1>1, <2>2 DEF ByHandler, Entered
  <2>7. \A e \in cmdSet \union {v} :
          e.req[1] = session /\ (Shared(e.req[2])' \/ Unanswered(e.req[2])')
    BY <2>3, <2>4, <2>5, <2>6
  <2>8. \A d, e \in cmdSet \union {v} : d.req = e.req => d = e \/ Shared(d.req[2])'
    BY <1>0, <2>3, <2>5 DEF Entered
  <2> QED BY <2>1, <2>7, <2>8 DEF Entered
<1>4. CASE childEnd
  <2>1. cmdSet' = cmdSet \/ \E e \in cmdSet : cmdSet' = cmdSet \ {e}
    BY <1>4, Reaping
  <2>2. CASE cmdSet' = cmdSet
    BY <1>2, <2>2 DEF ByHandler
  <2>3. ASSUME NEW e \in cmdSet, cmdSet' = cmdSet \ {e} PROVE Entered'
    <3>1. ASSUME NEW d \in cmdSet' PROVE Shared(d.req[2])' \/ ~ ByHandler(d.req[2])
      <4>1. SUFFICES ASSUME NEW c \in cmdSet, c.req[2] = d.req[2], cmdSet' = cmdSet \ {c}
                     PROVE  Shared(d.req[2])
        BY <1>0 DEF ByHandler
      <4>2. d \in cmdSet /\ c # d
        BY <2>3, <3>1, <4>1
      <4>3. c.req = d.req
        BY <4>1, <4>2, OnceTypes DEF Entered
      <4> QED BY <4>2, <4>3 DEF Entered
    <3> QED BY <1>2, <2>3, <3>1
  <2> QED BY <2>1, <2>2, <2>3
<1>5. CASE Accept
  <2>1. cmdSet' \subseteq cmdSet /\ ~ childEnd
    BY <1>5 DEF Accept, childEnd
  <2> QED BY <1>2, <2>1 DEF ByHandler
<1>6. CASE UNCHANGED cmdSet
  BY <1>2, <1>6 DEF ByHandler
<1> QED BY <1>3, <1>4, <1>5, <1>6, Changes

LEMMA ForgottenStep ==
  ASSUME TInv, Pipes, Hand, Entered, Forgotten, Ways, [Next]_vars, UNCHANGED session,
         "torn" \notin incidents'
  PROVE  Forgotten'
<1>0. session \in Nat /\ ~ SessionEnds
  BY ExecAssumption DEF TInv, TManager, SessionEnds
\* One that failed before: nobody writes its number.
<1>1. ASSUME NEW f \in failed, f[1] = session, f[2] # eCmdExec_
      PROVE  /\ Unanswered(f[2])' /\ (OwesHand' => v'.req # f)
             /\ \A e \in cmdSet' : e.req # f
  <2>1. PICK n \in Numbers : n = f[2] /\ f = <<session, n>>
    BY <1>1, FailedTypes, OnceTypes
  <2>2. /\ Unanswered(n) /\ (OwesHand => v.req # f) /\ ~ Shared(n)
        /\ \A e \in cmdSet : e.req # f
    BY <1>1, <2>1 DEF Forgotten, Shared
  <2>3. ~ ByHand(n)
    <3>1. SUFFICES ASSUME AnswerHeader, v.req[2] = n PROVE FALSE
      BY DEF ByHand
    <3>2. OwesHand /\ pc # "idle"
      BY <2>2, <3>1 DEF AnswerHeader, OwesHand
    <3> QED BY <2>1, <2>2, <3>1, <3>2, OnceTypes DEF Hand
  <2>4. ~ ByHandler(n)
    BY <2>1, <2>2, OnceTypes DEF ByHandler, Entered
  <2>5. Unanswered(n)'
    BY <2>2, <2>3, <2>4, UnansweredStays
  <2>6. OwesHand' => v'.req # f
    <3>1. CASE Fork
      <4>1. v'.req = <<session, Head(toVelo)>>
        BY <3>1, Starting
      <4>2. Head(toVelo) # n
        BY <2>2, <3>1, NextTaken DEF Unanswered, Open
      <4> QED BY <2>1, <4>1, <4>2
    <3>2. CASE ForkFails
      <4>1. v'.req = <<session, eCmdExec_>>
        BY <3>2 DEF ForkFails
      <4> QED BY <1>1, <2>1, <4>1
    <3>3. CASE UNCHANGED <<pc, v>>
      BY <2>2, <3>3, DueStays, Changes DEF OwesHand, Shared
    <3>4. CASE Count \/ Test
      <4>1. UNCHANGED v /\ pc \in {"forked", "counted"}
        BY <3>4 DEF Count, Test
      <4>2. v.req = f => ~ Shared(v.req[2])
        BY <2>1, <2>2
      <4> QED BY <2>2, <4>1, <4>2 DEF OwesHand
    <3>5. CASE AnswerHeader \/ AnswerBody \/ Reset \/ Add
      <4>1. pc' \in {"idle", "body", "reset"}
        BY <3>5 DEF AnswerHeader, AnswerBody, Reset, Add
      <4> QED BY <4>1 DEF OwesHand
    <3> QED BY <3>1, <3>2, <3>3, <3>4, <3>5, Changes
  <2>7. \A e \in cmdSet' : e.req # f
    <3>1. CASE Add
      <4>1. pc = "add" /\ cmdSet' \subseteq cmdSet \union {v}
        BY <3>1 DEF Add, Added
      <4>2. v.req # f
        BY <2>1, <2>2, <4>1 DEF OwesHand
      <4> QED BY <2>2, <4>1, <4>2
    <3>2. CASE Accept
      BY <2>2, <3>2 DEF Accept
    <3>3. CASE childEnd
      BY <2>2, <3>3, Reaping
    <3>4. CASE UNCHANGED cmdSet
      BY <2>2, <3>4
    <3> QED BY <3>1, <3>2, <3>3, <3>4, Changes
  <2> QED BY <2>1, <2>5, <2>6, <2>7
<1>2. ASSUME NEW f \in failed', f \notin failed
      PROVE  /\ f[1] = session
             /\ f[2] # eCmdExec_ =>
                  /\ Unanswered(f[2])' /\ (OwesHand' => v'.req # f)
                  /\ \A e \in cmdSet' : e.req # f
  <2>1. ForkFails
    BY <1>2, Changes
  <2>2. f = <<session, Head(toVelo)>> /\ v'.req = <<session, eCmdExec_>> /\ UNCHANGED cmdSet
    BY <1>2, <2>1 DEF ForkFails
  <2>3. f[1] = session /\ f[2] = Head(toVelo)
    BY <2>2
  <2>4. ASSUME f[2] # eCmdExec_
        PROVE  Unanswered(f[2])' /\ \A e \in cmdSet : e.req # f
    <3>1. PICK n : n = Head(toVelo)
      OBVIOUS
    <3>2. ~ Shared(n)'
      BY <2>3, <2>4, <3>1 DEF Shared
    <3>3. Unanswered(n)' /\ \A e \in cmdSet : e.req # <<session, n>>
      BY <2>1, <3>1, <3>2, TakenAlone
    <3>4. n = f[2]
      BY <2>3, <3>1
    <3> QED BY <2>2, <3>1, <3>3, <3>4
  <2> QED BY <2>2, <2>3, <2>4
<1>3. \A f \in failed' : f[1] <= session
  BY <1>0, <1>2 DEF Forgotten
<1> QED BY <1>1, <1>2, <1>3 DEF Forgotten

LEMMA ConfirmedStep ==
  ASSUME TInv, Pipes, Ways, Confirmed, [Next]_vars, UNCHANGED session
  PROVE  Confirmed'
<1>0. /\ confirms \in [Requests -> Nat] /\ session \in 1 .. MaxSessions
      /\ \A n \in 1 .. MaxCommands : <<session, n>> \in Requests
      /\ \A r \in Requests : r[2] \in 1 .. MaxCommands /\ r = <<r[1], r[2]>>
  BY DEF TInv, TManager, Requests
<1> \A n : Shared(n) => Shared(n)'
  BY DueStays, Changes
<1> \A r : Mistaken(r) => Mistaken(r)'
  BY Changes DEF Mistaken
<1>1. ~ SessionEnds
  BY DEF SessionEnds, TInv, TManager
<1>2. ASSUME NEW r \in Requests, r[1] = session => Shared(r[2]) \/ Passed(r[2])
      PROVE  r[1] = session' => Shared(r[2])' \/ Passed(r[2])'
  <2>1. PICK n \in 1 .. MaxCommands : n = r[2]
    BY <1>0
  <2>2. Passed(n) => Passed(n)'
    BY PassedStep
  <2> QED BY <1>2, <2>1, <2>2
<1>3. CASE Ask
  <2>1. asked' = asked + 1 /\ outstanding' = outstanding \union {asked'} /\ UNCHANGED confirms
    BY <1>3 DEF Ask
  <2>2. asked' \in 1 .. MaxCommands
    BY Typed, <2>1, ExecAssumption, PipeNumbers DEF TInv, TManager
  <2>3. ~ Passed(asked')
    <3>1. PICK n \in 1 .. MaxCommands : n = asked + 1
      BY <2>1, <2>2
    <3>2. ~ Passed(n)
      BY <3>1, PipeNumbers DEF Passed
    <3> QED BY <2>1, <3>1, <3>2
  <2>4. PICK n \in 1 .. MaxCommands : n = asked'
    BY <2>2
  <2>5. Shared(n) \/ confirms[<<session, n>>] = 0
    <3>1. <<session, n>> \in Requests /\ <<session, n>>[1] = session /\ <<session, n>>[2] = n
      BY <1>0
    <3>2. Shared(n) \/ ~ (confirms[<<session, n>>] > 0)
      BY <2>3, <2>4, <3>1 DEF Confirmed
    <3>3. confirms[<<session, n>>] \in Nat
      BY <1>0, <3>1
    <3> QED BY <3>2, <3>3
  <2>6. \A m \in outstanding' : Shared(m) \/ confirms[<<session, m>>] = 0
    BY <2>1, <2>4, <2>5 DEF Confirmed
  <2> QED BY <1>2, <2>1, <2>6 DEF Confirmed
<1>4. CASE Complete
  <2> DEFINE h == Head(toManager)
  <2>1. /\ outstanding' = outstanding \ {h}
        /\ confirms' = [r \in Requests |-> IF r = <<session, h>> THEN confirms[r] + 1 ELSE confirms[r]]
    BY <1>4 DEF Complete
  <2>2. h \in Numbers /\ (Shared(h) \/ Open(h))
    BY <1>4, AnswerTaken DEF Ways, Underway
  <2> HIDE DEF h
  <2>3. Shared(h) \/ (Passed(h) /\ confirms[<<session, h>>] = 0)
    BY <2>2 DEF Open, Confirmed
  <2>5. ASSUME NEW r \in Requests, r = <<session, h>>
        PROVE  /\ r[1] = session /\ (Shared(r[2]) \/ Passed(r[2]))
               /\ confirms'[r] <= 1 \/ Mistaken(r)
    <3>1. r[1] = session /\ r[2] = h
      BY <2>5
    <3>2. CASE Shared(h)
      <4>1. Mistaken(r)
        BY <3>1, <3>2 DEF Shared, Mistaken
      <4> QED BY <3>1, <3>2, <4>1
    <3>3. CASE Passed(h) /\ confirms[<<session, h>>] = 0
      <4>1. confirms'[r] = 0 + 1
        BY <2>1, <2>5, <3>3
      <4> QED BY <3>1, <3>3, <4>1
    <3> QED BY <2>3, <3>2, <3>3
  <2>6. \A r \in Requests : r # <<session, h>> => confirms'[r] = confirms[r]
    BY <2>1
  <2>7. ASSUME NEW m \in outstanding' PROVE Shared(m) \/ confirms'[<<session, m>>] = 0
    <3>1. m \in outstanding /\ m # h /\ m \in 1 .. MaxCommands
      BY <2>1, <2>7, OnceTypes
    <3>2. <<session, m>> # <<session, h>>
      BY <3>1
    <3> QED BY <1>0, <2>6, <3>1, <3>2 DEF Confirmed
  <2>8. ASSUME NEW r \in Requests, confirms'[r] > 0
        PROVE  r[1] <= session /\ (r[1] = session => Shared(r[2]) \/ Passed(r[2]))
    <3>1. CASE r = <<session, h>>
      BY <1>0, <2>5, <3>1, ExecAssumption
    <3>2. CASE r # <<session, h>>
      BY <2>6, <2>8, <3>2 DEF Confirmed
    <3> QED BY <3>1, <3>2
  <2>9. \A r \in Requests : confirms'[r] <= 1 \/ Mistaken(r)
    BY <2>5, <2>6 DEF Confirmed
  <2> QED BY <1>2, <2>7, <2>8, <2>9 DEF Confirmed
<1>5. CASE UNCHANGED <<outstanding, confirms>>
  BY <1>2, <1>5 DEF Confirmed
<1>6. Ask \/ Complete \/ UNCHANGED <<outstanding, confirms>>
  <2>1. Ask \/ Complete \/ SessionEnds \/ UNCHANGED confirms
    <3>1. Next \/ UNCHANGED vars
      OBVIOUS
    <3>2. Forward \/ ProxyStart \/ Confirm \/ Torn \/ Astray => UNCHANGED confirms
      BY DEF Forward, ProxyStart, Confirm, Torn, Astray, manager
    <3>3. Main \/ ForkFails => UNCHANGED confirms
      BY DEF Main, Accept, Fork, Count, Test, AnswerHeader, AnswerBody, Reset, Add, ForkFails, manager
    <3>4. ChildSignal \/ childEnd \/ (\E p \in Pids : ChildExits(p)) => UNCHANGED confirms
      BY DEF ChildSignal, childEnd, ChildExits, manager
    <3> QED BY <3>1, <3>2, <3>3, <3>4 DEF Next, vars, manager
  <2> QED BY <1>1, <2>1, Changes
<1> QED BY <1>3, <1>4, <1>5, <1>6

\* A session that ends with nothing open leaves no command in cmdSet either.
LEMMA SessionOnce ==
  ASSUME TInv, Entered, Forgotten, Confirmed, SessionEnds, NoneLeft'
  PROVE  Pipes' /\ Hand' /\ Entered' /\ Forgotten' /\ Ways' /\ Confirmed'
<1>1. /\ outstanding = {} /\ outstanding' = {} /\ session' = session + 1
      /\ toAgent' = <<>> /\ toVelo' = <<>> /\ toManager' = <<>> /\ fromVelo' = <<>>
      /\ UNCHANGED <<cmdSet, pc, v, confirms, failed>> /\ pc = "idle"
  BY DEF SessionEnds, NoneLeft, main
<1>2. cmdSet = {}
  BY <1>1 DEF Entered, Forgotten, Shared, Unanswered, Open
<1>3. \A n : Headers(n)' = {} /\ Told(n)' = {}
  BY <1>1 DEF Headers, Told
<1>4. Pipes'
  BY <1>1 DEF Pipes
<1>5. Hand' /\ Entered' /\ Ways'
  BY <1>1, <1>2, <1>3 DEF Hand, OwesHand, Entered, Ways, Underway
<1>8. Forgotten'
  BY <1>1, FailedTypes, ExecAssumption DEF Forgotten, TInv, TManager
<1>6. \A r \in Requests : r[1] <= session => r[1] < session' /\ r[1] <= session' /\ r[1] # session'
  BY <1>1, ExecAssumption DEF Requests, TInv, TManager
<1>7. \A r : Mistaken(r) => Mistaken(r)'
  BY <1>1 DEF Mistaken
<1>9. Confirmed'
  BY <1>1, <1>6, <1>7 DEF Confirmed
<1> QED BY <1>4, <1>5, <1>8, <1>9

LEMMA OnceInit == Init => OnceInv
<1> SUFFICES ASSUME Init PROVE OnceInv  OBVIOUS
<1>1. /\ toAgent = <<>> /\ toVelo = <<>> /\ fromVelo = <<>> /\ toManager = <<>>
      /\ outstanding = {} /\ failed = {} /\ pc = "idle" /\ cmdSet = {}
      /\ confirms = [r \in Requests |-> 0]
  BY DEF Init
<1>2. \A n : Headers(n) = {} /\ Told(n) = {}
  BY <1>1 DEF Headers, Told
<1>3. Confirmed
  BY <1>1 DEF Confirmed
<1> QED
  BY <1>1, <1>2, <1>3 DEF OnceInv, Pipes, Hand, OwesHand, Entered, Forgotten, Ways, Underway

LEMMA OnceStep == TInv /\ OnceInv /\ [Next]_vars => OnceInv'
<1> SUFFICES ASSUME TInv, OnceInv, [Next]_vars, NoneLeft'
             PROVE  Pipes' /\ Hand' /\ Entered' /\ Forgotten' /\ Ways' /\ Confirmed'
  BY DEF OnceInv
<1>1. Pipes /\ Hand /\ Entered /\ Forgotten /\ Ways /\ Confirmed
  BY IncidentsGrow DEF OnceInv, NoneLeft
<1>2. CASE SessionEnds
  BY <1>1, <1>2, SessionOnce
<1>3. CASE UNCHANGED session
  <2>1. "torn" \notin incidents'
    BY DEF NoneLeft
  <2> QED
    BY <1>1, <1>3, <2>1, PipesOnce, HandStep, EnteredStep, ForgottenStep, WaysStep,
       ConfirmedStep
<1> QED BY <1>2, <1>3, Changes

\* velm gets at most one answer to a request as long as no session was left
\* with commands open and no answer was torn: expandRun and childEnd never both
\* answer a command, although a pid may be used again that cmdSet_ still holds
\* and each may interrupt the other (TeServer.cc).  The exception is request
\* eCmdExec_ of a session in which vfork() failed for another request: it also
\* gets the answer to that one (TeServer.cc, cmdExecRequest).
THEOREM OnceCorrect == Spec => []AnsweredOnce
<1>1. OnceInv => AnsweredOnce
  BY DEF OnceInv, NoneLeft, Confirmed, AnsweredOnce
<1> QED BY <1>1, OnceInit, OnceStep, TypeAlways, PTL DEF Spec
=============================================================================
