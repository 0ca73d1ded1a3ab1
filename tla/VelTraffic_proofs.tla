-------------------------- MODULE VelTraffic_proofs --------------------------
(***************************************************************************)
(* That a transfer of vel is answered once, is over when its packets are,  *)
(* and leaves no timer, for any program and any number of packets.         *)
(***************************************************************************)
EXTENDS VelTraffic, SequenceTheorems, TLAPS

(* The operators on a socket *)

\* A socket that has sent no more than its request says.
Socks ==
  [open : BOOLEAN, request : Ops \union {"Connect", "Listen"},
   sendcnt : 0 .. MaxCount, sentcnt : 0 .. MaxCount,
   recvcnt : 0 .. MaxCount, recvdcnt : Nat,
   effectreq : BOOLEAN, regard : Nat, timer : BOOLEAN]

Good == {s \in Socks : s.sentcnt <= s.sendcnt}

\* What counts as an answer to the packets of a turnaround.
Got(s) == IF protocol = "tcp" THEN s.recvdcnt ELSE s.recvdcnt + s.regard

\* Nothing but the counters of sending and the timer differs.
SendOnly(s, r) ==
  /\ r.open = s.open /\ r.request = s.request /\ r.sendcnt = s.sendcnt
  /\ r.recvcnt = s.recvcnt /\ r.recvdcnt = s.recvdcnt /\ r.regard = s.regard

SendResult(s, f, o) ==
  /\ o.sock \in Good /\ SendOnly(s, o.sock) /\ o.sock.effectreq = s.effectreq
  /\ o.sent \in BOOLEAN /\ (o.sent <=> s.sentcnt < s.sendcnt /\ ~f)
  /\ o.sock.sentcnt = IF o.sent THEN s.sentcnt + 1 ELSE s.sentcnt
  /\ o.reports = IF s.request = "Snd" /\ o.sent /\ o.sock.sentcnt = s.sendcnt
                 THEN <<"Snd">> ELSE <<>>
  /\ o.sock.timer => /\ s.sentcnt < s.sendcnt
                     /\ \/ s.request = "Snd" /\ o.sock.sentcnt < s.sendcnt
                        \/ Timed(s)

LEMMA SendPacketResult ==
  ASSUME NEW s \in Good, NEW f \in BOOLEAN
  PROVE  SendResult(s, f, SendPacket(s, f))
<1> DEFINE stopped == [s EXCEPT !.timer = FALSE]
           more == [stopped EXCEPT !.sentcnt = @ + 1]
<1>1. MaxCount \in Nat BY TrafficAssumption
<1>2. stopped \in Good /\ SendOnly(s, stopped) /\ stopped.timer = FALSE
      /\ stopped.sentcnt = s.sentcnt /\ stopped.effectreq = s.effectreq
  BY DEF Good, Socks, SendOnly
<1>3. CASE s.sendcnt <= s.sentcnt
  <2>1. SendPacket(s, f) = Outcome(stopped, FALSE, <<>>)
    BY <1>3 DEF SendPacket
  <2>2. ~(s.sentcnt < s.sendcnt)
    BY <1>1, <1>3 DEF Good, Socks
  <2> HIDE DEF stopped
  <2> QED BY <1>2, <2>1, <2>2 DEF SendResult, Outcome
<1>4. CASE ~(s.sendcnt <= s.sentcnt) /\ f
  <2>1. SendPacket(s, f) = PostSend(stopped, FALSE)
    BY <1>4 DEF SendPacket
  <2>2. s.sentcnt < s.sendcnt
    BY <1>1, <1>4 DEF Good, Socks
  <2>3. ~SndOver(stopped)
    BY <1>1, <1>2, <2>2 DEF SndOver, Good, Socks, SendOnly
  <2>4. [stopped EXCEPT !.timer = TRUE] \in Good
        /\ SendOnly(s, [stopped EXCEPT !.timer = TRUE])
        /\ [stopped EXCEPT !.timer = TRUE].sentcnt = s.sentcnt
        /\ [stopped EXCEPT !.timer = TRUE].effectreq = s.effectreq
    BY <1>2 DEF Good, Socks, SendOnly
  <2>5. stopped.request = s.request /\ (Timed(stopped) <=> Timed(s))
    BY <1>2 DEF SendOnly, Timed
  <2> HIDE DEF stopped
  <2>6. CASE s.request = "Snd" \/ Timed(s)
    <3>1. SendPacket(s, f) = Outcome([stopped EXCEPT !.timer = TRUE], FALSE, <<>>)
      BY <2>1, <2>3, <2>5, <2>6 DEF PostSend
    <3> DEFINE o == SendPacket(s, f)
    <3>2. o.sock = [stopped EXCEPT !.timer = TRUE] /\ o.sent = FALSE /\ o.reports = <<>>
      BY <3>1 DEF Outcome
    <3>3. o.sent \in BOOLEAN /\ (o.sent <=> s.sentcnt < s.sendcnt /\ ~f)
      BY <1>4, <3>2
    <3>4. /\ o.sock.sentcnt = IF o.sent THEN s.sentcnt + 1 ELSE s.sentcnt
          /\ o.reports = IF s.request = "Snd" /\ o.sent /\ o.sock.sentcnt = s.sendcnt
                         THEN <<"Snd">> ELSE <<>>
      BY <2>4, <3>2
    <3>5. o.sock \in Good /\ SendOnly(s, o.sock) /\ o.sock.effectreq = s.effectreq
      BY <2>4, <3>2
    <3>6. o.sock.timer => /\ s.sentcnt < s.sendcnt
                          /\ \/ s.request = "Snd" /\ o.sock.sentcnt < s.sendcnt
                             \/ Timed(s)
      BY <2>2, <2>4, <3>2, <2>6
    <3> HIDE DEF o
    <3> QED BY <3>3, <3>4, <3>5, <3>6 DEF SendResult, o
  <2>7. CASE ~(s.request = "Snd" \/ Timed(s))
    <3>1. SendPacket(s, f) = Outcome(stopped, FALSE, <<>>)
      BY <2>1, <2>3, <2>5, <2>7 DEF PostSend
    <3> DEFINE o == SendPacket(s, f)
    <3>2. o.sock = stopped /\ o.sent = FALSE /\ o.reports = <<>>
      BY <3>1 DEF Outcome
    <3>3. o.sent \in BOOLEAN /\ (o.sent <=> s.sentcnt < s.sendcnt /\ ~f)
      BY <1>4, <3>2
    <3>4. /\ o.sock.sentcnt = IF o.sent THEN s.sentcnt + 1 ELSE s.sentcnt
          /\ o.reports = IF s.request = "Snd" /\ o.sent /\ o.sock.sentcnt = s.sendcnt
                         THEN <<"Snd">> ELSE <<>>
      BY <1>2, <3>2
    <3>5. o.sock \in Good /\ SendOnly(s, o.sock) /\ o.sock.effectreq = s.effectreq
      BY <1>2, <3>2
    <3>6. o.sock.timer => /\ s.sentcnt < s.sendcnt
                          /\ \/ s.request = "Snd" /\ o.sock.sentcnt < s.sendcnt
                             \/ Timed(s)
      BY <2>2, <1>2, <3>2
    <3> HIDE DEF o
    <3> QED BY <3>3, <3>4, <3>5, <3>6 DEF SendResult, o
  <2> QED BY <2>6, <2>7
<1>5. CASE ~(s.sendcnt <= s.sentcnt) /\ ~f
  <2>1. SendPacket(s, f) = PostSend(more, TRUE)
    BY <1>5 DEF SendPacket
  <2>2. s.sentcnt < s.sendcnt
    BY <1>1, <1>5 DEF Good, Socks
  <2>3. more \in Good /\ SendOnly(s, more) /\ more.timer = FALSE
        /\ more.sentcnt = s.sentcnt + 1 /\ more.effectreq = s.effectreq
    <3>1. s.sentcnt + 1 \in 0 .. MaxCount /\ s.sentcnt + 1 <= s.sendcnt
      BY <1>1, <2>2 DEF Good, Socks
    <3>2. more = [stopped EXCEPT !.sentcnt = s.sentcnt + 1]
      BY <1>2
    <3>3. [stopped EXCEPT !.sentcnt = s.sentcnt + 1] \in Socks
      BY <1>2, <3>1 DEF Good, Socks
    <3> HIDE DEF stopped
    <3>4. /\ more.timer = FALSE /\ more.sentcnt = s.sentcnt + 1
          /\ more.effectreq = s.effectreq /\ SendOnly(s, more)
      BY <1>2, <3>2 DEF Good, Socks, SendOnly
    <3> HIDE DEF more
    <3> QED BY <3>1, <3>2, <3>3, <3>4 DEF Good, SendOnly
  <2>4. [more EXCEPT !.timer = TRUE] \in Good
        /\ SendOnly(s, [more EXCEPT !.timer = TRUE])
        /\ [more EXCEPT !.timer = TRUE].sentcnt = s.sentcnt + 1
        /\ [more EXCEPT !.timer = TRUE].effectreq = s.effectreq
    BY <2>3 DEF Good, Socks, SendOnly
  <2>5. more.request = s.request /\ (Timed(more) <=> Timed(s))
    BY <2>3 DEF SendOnly, Timed
  <2>6. /\ SndOver(more) <=> more.sentcnt = s.sendcnt
        /\ ~SndOver(more) <=> more.sentcnt < s.sendcnt
    BY <1>1, <2>2, <2>3 DEF SndOver, Good, Socks, SendOnly
  <2> HIDE DEF more
  <2> QED BY <1>5, <2>1, <2>2, <2>3, <2>4, <2>5, <2>6 DEF SendResult, PostSend, Outcome
<1> QED BY <1>3, <1>4, <1>5

Said == {"Snd", "SndRecv", "RecvEffect"}

LEMMA SaidSeq ==
  /\ <<>> \in Seq(Said) /\ <<"Snd">> \in Seq(Said)
  /\ <<"SndRecv">> \in Seq(Said) /\ <<"RecvEffect">> \in Seq(Said)
BY DEF Said

ReceiveResult(t, f, o) ==
  /\ o.sock \in Good /\ SendOnly(t, o.sock)
  /\ o.sock.effectreq => t.effectreq /\ ~EffectDue(t)
  /\ o.sent \in BOOLEAN
  /\ o.sent => SendsOn(t) /\ ~f /\ t.request \in {"SndRecv", "Snd", "RecvSnd"}
  /\ SendsOn(t) /\ t.request \in {"SndRecv", "Snd", "RecvSnd"} /\ ~f => o.sent
  /\ o.sock.sentcnt = IF o.sent THEN t.sentcnt + 1 ELSE t.sentcnt
  /\ o.reports = IF Answered(t) THEN <<"SndRecv">>
                 ELSE IF EffectDue(t) THEN <<"RecvEffect">>
                 ELSE IF t.request = "Snd" /\ o.sent /\ o.sock.sentcnt = t.sendcnt
                 THEN <<"Snd">> ELSE <<>>
  /\ o.sock.timer => /\ SendsOn(t)
                     /\ \/ t.request = "Snd" /\ o.sock.sentcnt < t.sendcnt
                        \/ Timed(t)

LEMMA PostReceiveResult ==
  ASSUME NEW t \in Good, t.timer = FALSE, NEW f \in BOOLEAN
  PROVE  ReceiveResult(t, f, PostReceive(t, f))
<1> DEFINE told == IF EffectDue(t) THEN [t EXCEPT !.effectreq = FALSE] ELSE t
           said == IF Answered(t) THEN <<"SndRecv">>
                   ELSE IF EffectDue(t) THEN <<"RecvEffect">> ELSE <<>>
           next == IF SendsOn(told) /\ t.request \in {"SndRecv", "Snd", "RecvSnd"}
                   THEN SendPacket(told, f) ELSE Outcome(told, FALSE, <<>>)
           o == PostReceive(t, f)
<1>1. o = Outcome(next.sock, next.sent, said \o next.reports)
  BY DEF PostReceive
<1>said. /\ said = IF Answered(t) THEN <<"SndRecv">>
                   ELSE IF EffectDue(t) THEN <<"RecvEffect">> ELSE <<>>
         /\ said \in Seq(Said)
  BY SaidSeq
<1> HIDE DEF o, said
<1>2. /\ told \in Good /\ SendOnly(t, told) /\ told.sentcnt = t.sentcnt /\ told.timer = FALSE
      /\ told.effectreq => t.effectreq /\ ~EffectDue(t)
  <2>1. CASE EffectDue(t)
    <3>1. told = [t EXCEPT !.effectreq = FALSE] BY <2>1
    <3> HIDE DEF told
    <3> QED BY <3>1 DEF Good, Socks, SendOnly
  <2>2. CASE ~EffectDue(t)
    <3>1. told = t BY <2>2
    <3> HIDE DEF told
    <3> QED BY <2>2, <3>1 DEF SendOnly
  <2> QED BY <2>1, <2>2
<1> HIDE DEF told
<1>3. (SendsOn(told) <=> SendsOn(t)) /\ (Timed(told) <=> Timed(t))
  BY <1>2 DEF SendsOn, Timed, SendOnly
<1>4. CASE SendsOn(t) /\ t.request \in {"SndRecv", "Snd", "RecvSnd"}
  <2>1. next = SendPacket(told, f) BY <1>3, <1>4
  <2>2. SendResult(told, f, next) BY <1>2, <2>1, SendPacketResult
  <2> HIDE DEF next
  <2>3. o.sock = next.sock /\ o.sent = next.sent /\ o.reports = said \o next.reports
    BY <1>1 DEF Outcome
  <2>4. told.sentcnt < told.sendcnt
    BY <1>2, <1>3, <1>4 DEF SendsOn, Good, Socks
  <2>5. /\ next.sock \in Good /\ SendOnly(t, next.sock)
        /\ next.sock.effectreq => t.effectreq /\ ~EffectDue(t)
        /\ next.sock.sentcnt = IF next.sent THEN t.sentcnt + 1 ELSE t.sentcnt
    BY <1>2, <2>2 DEF SendResult, SendOnly
  <2>6. next.sent \in BOOLEAN /\ (next.sent <=> ~f)
    BY <2>2, <2>4 DEF SendResult
  <2>7. next.sock.timer => \/ t.request = "Snd" /\ next.sock.sentcnt < t.sendcnt
                           \/ Timed(t)
    BY <1>2, <1>3, <2>2 DEF SendResult, SendOnly
  <2>8. next.reports = IF t.request = "Snd" /\ next.sent /\ next.sock.sentcnt = t.sendcnt
                       THEN <<"Snd">> ELSE <<>>
    BY <1>2, <2>2 DEF SendResult, SendOnly
  <2>9. said \o next.reports =
          IF Answered(t) THEN <<"SndRecv">>
          ELSE IF EffectDue(t) THEN <<"RecvEffect">>
          ELSE next.reports
    <3>1. Answered(t) \/ EffectDue(t) => next.reports = <<>>
      BY <2>8 DEF Answered, EffectDue
    <3>2. next.reports \in Seq(Said) BY <2>8, SaidSeq
    <3>3. said \o <<>> = said /\ <<>> \o next.reports = next.reports
      BY <1>said, <3>2, ConcatEmptySeq
    <3> QED BY <1>said, <3>1, <3>3
  <2>10. o.sock.timer => /\ SendsOn(t)
                         /\ \/ t.request = "Snd" /\ o.sock.sentcnt < t.sendcnt
                            \/ Timed(t)
    BY <1>4, <2>3, <2>7
  <2>11. o.sent \in BOOLEAN
        /\ (o.sent => SendsOn(t) /\ ~f /\ t.request \in {"SndRecv", "Snd", "RecvSnd"})
         /\ (SendsOn(t) /\ t.request \in {"SndRecv", "Snd", "RecvSnd"} /\ ~f => o.sent)
    BY <1>4, <2>3, <2>6
  <2>12. o.reports = IF Answered(t) THEN <<"SndRecv">>
                 ELSE IF EffectDue(t) THEN <<"RecvEffect">>
                 ELSE IF t.request = "Snd" /\ o.sent /\ o.sock.sentcnt = t.sendcnt
                 THEN <<"Snd">> ELSE <<>>
    BY <2>3, <2>8, <2>9
  <2>13. /\ o.sock \in Good /\ SendOnly(t, o.sock)
         /\ o.sock.effectreq => t.effectreq /\ ~EffectDue(t)
         /\ o.sock.sentcnt = IF o.sent THEN t.sentcnt + 1 ELSE t.sentcnt
    BY <2>3, <2>5
  <2>14. ReceiveResult(t, f, o)
    BY <2>10, <2>11, <2>12, <2>13 DEF ReceiveResult
  <2> QED BY <2>14 DEF o
<1>5. CASE ~(SendsOn(t) /\ t.request \in {"SndRecv", "Snd", "RecvSnd"})
  <2>1. next = Outcome(told, FALSE, <<>>) BY <1>3, <1>5
  <2> HIDE DEF next
  <2>2. o.sock = told /\ o.sent = FALSE /\ o.reports = said
    <3>1. said \o <<>> = said BY <1>said, ConcatEmptySeq
    <3> QED BY <1>1, <2>1, <3>1 DEF Outcome
  <2>3. /\ o.sock \in Good /\ SendOnly(t, o.sock)
        /\ o.sock.effectreq => t.effectreq /\ ~EffectDue(t)
        /\ o.sock.sentcnt = IF o.sent THEN t.sentcnt + 1 ELSE t.sentcnt
        /\ ~o.sock.timer
    BY <1>2, <2>2
  <2>4. o.reports = IF Answered(t) THEN <<"SndRecv">>
                 ELSE IF EffectDue(t) THEN <<"RecvEffect">>
                 ELSE IF t.request = "Snd" /\ o.sent /\ o.sock.sentcnt = t.sendcnt
                 THEN <<"Snd">> ELSE <<>>
    BY <1>said, <2>2
  <2>5. o.sent \in BOOLEAN
        /\ (o.sent => SendsOn(t) /\ ~f /\ t.request \in {"SndRecv", "Snd", "RecvSnd"})
        /\ (SendsOn(t) /\ t.request \in {"SndRecv", "Snd", "RecvSnd"} /\ ~f => o.sent)
    BY <1>5, <2>2
  <2>6. ReceiveResult(t, f, o)
    BY <2>3, <2>4, <2>5 DEF ReceiveResult
  <2> QED BY <2>6 DEF o
<1> QED BY <1>4, <1>5

----------------------------------------------------------------------------
(* Steps of an agent *)

Answer == [op : Ops \union {"Closed"}, ok : BOOLEAN]
Request == [op : Ops, count : 1 .. MaxCount]

\* What a step of agent e that comes out as o reports.
Reports(e, o) ==
  /\ o.reports = <<>> => toManager' = toManager
  /\ \A op \in Ops : o.reports = <<op>> =>
       toManager' = [toManager EXCEPT ![e] = Append(@, [op |-> op, ok |-> TRUE])]

LEMMA OneElement ==
  ASSUME NEW S, NEW x \in S
  PROVE  <<x>> \in Seq(S) /\ Len(<<x>>) = 1 /\ <<x>>[1] = x
OBVIOUS

LEMMA OneMapped ==
  ASSUME NEW S, NEW x \in S, NEW q, q = [i \in 1 .. 1 |-> x]
  PROVE  q = <<x>>
<1>1. q \in [1 .. 1 -> S] /\ q[1] = x OBVIOUS
<1>2. q \in Seq(S) /\ Len(q) = 1 BY <1>1
<1>3. <<x>> \in Seq(S) /\ Len(<<x>>) = 1 /\ <<x>>[1] = x BY OneElement
<1>4. \A i \in 1 .. Len(q) : q[i] = <<x>>[i] BY <1>1, <1>2, <1>3
<1> QED BY <1>2, <1>3, <1>4, SeqEqual

LEMMA ApplyReports ==
  ASSUME toManager \in [Ends -> Seq(Answer)], NEW e \in Ends, NEW o, Apply(e, o)
  PROVE  sock' = [sock EXCEPT ![e] = o.sock] /\ Reports(e, o)
<1> DEFINE said == [i \in 1 .. Len(o.reports) |-> [op |-> o.reports[i], ok |-> TRUE]]
<1>1. sock' = [sock EXCEPT ![e] = o.sock] /\ toManager' = [toManager EXCEPT ![e] = @ \o said]
  BY DEF Apply
<1>2. CASE o.reports = <<>>
  <2>1. said = <<>> BY <1>2
  <2>2. toManager[e] \o said = toManager[e]
    BY <2>1, ConcatEmptySeq
  <2>3. toManager' = toManager BY <1>1, <2>2
  <2> QED BY <1>1, <1>2, <2>3 DEF Reports
<1>3. ASSUME NEW op \in Ops, o.reports = <<op>>
      PROVE  toManager' = [toManager EXCEPT ![e] = Append(@, [op |-> op, ok |-> TRUE])]
  <2>1. Len(o.reports) = 1 /\ o.reports[1] = op BY <1>3
  <2>2. [op |-> op, ok |-> TRUE] \in Answer BY DEF Answer
  <2>3. said = <<[op |-> op, ok |-> TRUE]>>
    <3>1. \A i \in 1 .. 1 : o.reports[i] = op BY <2>1
    <3>2. said = [i \in 1 .. 1 |-> [op |-> o.reports[i], ok |-> TRUE]] BY <2>1
    <3>3. said = [i \in 1 .. 1 |-> [op |-> op, ok |-> TRUE]] BY <3>1, <3>2
    <3> HIDE DEF said
    <3> QED BY <2>2, <3>3, OneMapped
  <2> HIDE DEF said
  <2>4. toManager[e] \o said = Append(toManager[e], [op |-> op, ok |-> TRUE])
    BY <2>2, <2>3, AppendIsConcat
  <2> QED BY <1>1, <2>4
<1>4. o.reports = <<>> => toManager' = toManager BY <1>2, <1>1
  DEF Reports
<1> QED BY <1>1, <1>3, <1>4 DEF Reports

LEMMA Packeted ==
  ASSUME NEW s \in Good
  PROVE  /\ Stopped(s) \in Good /\ Stopped(s).timer = FALSE /\ Stopped(s).open = s.open
         /\ Stopped(s).request = s.request /\ Stopped(s).sendcnt = s.sendcnt
         /\ Stopped(s).sentcnt = s.sentcnt /\ Stopped(s).recvcnt = s.recvcnt
         /\ Stopped(s).effectreq = s.effectreq /\ Stopped(s).recvdcnt = s.recvdcnt
         /\ Stopped(s).regard = s.regard
BY DEF Good, Socks, Stopped

LEMMA Ticked ==
  ASSUME NEW s \in Good
  PROVE  LET t == [s EXCEPT !.timer = FALSE, !.regard = @ + 1]
         IN  /\ t \in Good /\ t.timer = FALSE /\ t.open = s.open /\ t.request = s.request
             /\ t.sendcnt = s.sendcnt /\ t.sentcnt = s.sentcnt /\ t.recvcnt = s.recvcnt
             /\ t.effectreq = s.effectreq
             /\ t.recvdcnt = s.recvdcnt /\ t.regard = s.regard + 1
<1> DEFINE p == Stopped(s)
           t == [s EXCEPT !.timer = FALSE, !.regard = @ + 1]
<1>1. /\ p \in Good /\ p.timer = FALSE /\ p.open = s.open /\ p.request = s.request
      /\ p.sendcnt = s.sendcnt /\ p.sentcnt = s.sentcnt /\ p.recvcnt = s.recvcnt
      /\ p.effectreq = s.effectreq /\ p.recvdcnt = s.recvdcnt /\ p.regard = s.regard
  BY Packeted
<1>2. t = [p EXCEPT !.regard = s.regard + 1]
  BY DEF Good, Socks, Stopped
<1> HIDE DEF p, t
<1>3. s.regard + 1 \in Nat BY DEF Good, Socks
<1>4. /\ t \in Good /\ t.timer = FALSE /\ t.open = s.open /\ t.request = s.request
      /\ t.sendcnt = s.sendcnt /\ t.sentcnt = s.sentcnt /\ t.recvcnt = s.recvcnt
      /\ t.effectreq = s.effectreq
      /\ t.recvdcnt = s.recvdcnt /\ t.regard = s.regard + 1
  BY <1>1, <1>2, <1>3 DEF Good, Socks
<1> QED BY <1>4 DEF t

LEMMA Counting ==
  ASSUME NEW s \in Good
  PROVE  LET t == [s EXCEPT !.recvdcnt = @ + 1]
         IN  /\ t \in Good /\ t.timer = s.timer /\ t.open = s.open /\ t.request = s.request
             /\ t.sendcnt = s.sendcnt /\ t.sentcnt = s.sentcnt /\ t.recvcnt = s.recvcnt
             /\ t.effectreq = s.effectreq
             /\ t.recvdcnt = s.recvdcnt + 1 /\ t.regard = s.regard
BY DEF Good, Socks

\* What the timer or a packet does to the counters before postReceive.
Counted(e, t) ==
  /\ t \in Good /\ t.timer = FALSE
  /\ t.open = sock[e].open /\ t.request = sock[e].request
  /\ t.sendcnt = sock[e].sendcnt /\ t.sentcnt = sock[e].sentcnt
  /\ t.recvcnt = sock[e].recvcnt /\ t.effectreq = sock[e].effectreq

\* A timer that has run out,
TimerCounted(e, t, rest) ==
  /\ sock[e].timer /\ rest = net
  /\ t.recvdcnt = sock[e].recvdcnt /\ t.regard = sock[e].regard + 1

\* and a packet: rest is what remains on the way.
PacketCounted(e, t, rest) ==
  /\ sock[e].open /\ net[e] > 0 /\ t.regard = sock[e].regard
  /\ \/ t.recvcnt = 0 /\ rest = net /\ t.recvdcnt = sock[e].recvdcnt
     \/ /\ t.recvcnt # 0 /\ rest = [net EXCEPT ![e] = @ - 1]
        /\ t.recvdcnt = sock[e].recvdcnt + 1

Progress(e, t, rest, f, o) ==
  /\ Counted(e, t) /\ (TimerCounted(e, t, rest) \/ PacketCounted(e, t, rest))
  /\ ReceiveResult(t, f, o)
  /\ sock' = [sock EXCEPT ![e] = o.sock] /\ Reports(e, o)
  /\ net' = Sent(rest, e, o)
  /\ unsent' \in Nat /\ (protocol = "tcp" => unsent' = unsent)
  /\ unsent' = 0 => /\ unsent = 0
                    /\ SendsOn(t) /\ t.request \in {"SndRecv", "Snd", "RecvSnd"} => o.sent
  /\ UNCHANGED <<protocol, thread, toAgent, eof, repeats>>

LEMMA ProgressOf ==
  ASSUME TypeOK, NEW e \in Ends, Arrives(e) \/ Timeup(e)
  PROVE  \E t, rest, o : \E f \in BOOLEAN : Progress(e, t, rest, f, o)
<1>1. sock[e] \in Good /\ toManager \in [Ends -> Seq(Answer)] /\ unsent \in Nat
  BY DEF TypeOK, Good, Socks, Answer
<1>2. ASSUME NEW t \in Good, t.timer = FALSE, NEW rest, NEW f \in Fails,
             Counted(e, t), TimerCounted(e, t, rest) \/ PacketCounted(e, t, rest),
             Apply(e, PostReceive(t, f)), net' = Sent(rest, e, PostReceive(t, f)),
             CountUnsent(f, PostReceive(t, f), PostReceive(t, FALSE)),
             UNCHANGED <<protocol, thread, toAgent, eof, repeats>>
      PROVE  \E g \in BOOLEAN : Progress(e, t, rest, g, PostReceive(t, f))
  <2> DEFINE o == PostReceive(t, f)
             p == PostReceive(t, FALSE)
  <2>1. f \in BOOLEAN /\ (protocol = "tcp" => f = FALSE) BY DEF Fails
  <2>2. ReceiveResult(t, f, o) BY <1>2, <2>1, PostReceiveResult
  <2>3. ReceiveResult(t, FALSE, p) BY <1>2, PostReceiveResult
  <2>4. unsent' = IF f /\ p.sent THEN unsent + 1 ELSE unsent
    BY <1>2 DEF CountUnsent
  <2>5. f = FALSE => o = p OBVIOUS
  <2>6. sock' = [sock EXCEPT ![e] = o.sock] /\ Reports(e, o)
    BY <1>1, <1>2, ApplyReports
  <2> HIDE DEF o, p
  <2>7. unsent' \in Nat /\ (protocol = "tcp" => unsent' = unsent) /\ (unsent' = 0 => unsent = 0)
    BY <1>1, <2>1, <2>4
  <2>8. unsent' = 0 /\ SendsOn(t) /\ t.request \in {"SndRecv", "Snd", "RecvSnd"} => o.sent
    <3>1. SendsOn(t) /\ t.request \in {"SndRecv", "Snd", "RecvSnd"} => p.sent
      BY <2>3 DEF ReceiveResult
    <3>2. f /\ p.sent => unsent' # 0
      BY <1>1, <2>4
    <3> QED BY <2>1, <2>5, <3>1, <3>2
  <2>9. net' = Sent(rest, e, o) BY <1>2 DEF o
  <2>10. Progress(e, t, rest, f, o)
    BY <1>2, <2>2, <2>6, <2>7, <2>8, <2>9 DEF Progress
  <2> QED BY <2>1, <2>10 DEF o
<1>3. CASE Timeup(e)
  <2> DEFINE t == [sock[e] EXCEPT !.timer = FALSE, !.regard = @ + 1]
  <2>1. t \in Good /\ t.timer = FALSE /\ Counted(e, t) /\ TimerCounted(e, t, net)
    BY <1>1, <1>3, Ticked DEF Counted, TimerCounted, Timeup
  <2>2. PICK f \in Fails : /\ Apply(e, PostReceive(t, f)) /\ net' = Sent(net, e, PostReceive(t, f))
                           /\ CountUnsent(f, PostReceive(t, f), PostReceive(t, FALSE))
    BY <1>3 DEF Timeup
  <2>3. UNCHANGED <<protocol, thread, toAgent, eof, repeats>> BY <1>3 DEF Timeup
  <2> HIDE DEF t
  <2> QED BY <1>2, <2>1, <2>2, <2>3
<1>4. CASE Arrives(e)
  <2> DEFINE stopped == Stopped(sock[e])
             t == IF stopped.recvcnt = 0 THEN stopped ELSE [stopped EXCEPT !.recvdcnt = @ + 1]
             rest == IF stopped.recvcnt = 0 THEN net ELSE [net EXCEPT ![e] = @ - 1]
  <2>1. PICK f \in Fails : /\ Apply(e, PostReceive(t, f)) /\ net' = Sent(rest, e, PostReceive(t, f))
                           /\ CountUnsent(f, PostReceive(t, f), PostReceive(t, FALSE))
    BY <1>4 DEF Arrives
  <2>2. UNCHANGED <<protocol, thread, toAgent, eof, repeats>> BY <1>4 DEF Arrives
  <2>3. sock[e].open /\ net[e] > 0 BY <1>1, <1>4 DEF Arrives, Good, Socks
  <2>4. t \in Good /\ t.timer = FALSE /\ Counted(e, t) /\ PacketCounted(e, t, rest)
    <3> HIDE DEF stopped
    <3>0. /\ stopped \in Good /\ stopped.timer = FALSE /\ stopped.open = sock[e].open
          /\ stopped.request = sock[e].request /\ stopped.sendcnt = sock[e].sendcnt
          /\ stopped.sentcnt = sock[e].sentcnt /\ stopped.recvcnt = sock[e].recvcnt
          /\ stopped.effectreq = sock[e].effectreq /\ stopped.recvdcnt = sock[e].recvdcnt
          /\ stopped.regard = sock[e].regard
      BY <1>1, Packeted DEF stopped
    <3>1. CASE stopped.recvcnt = 0
      <4>1. t = stopped /\ rest = net BY <3>1
      <4> HIDE DEF t, rest
      <4> QED BY <2>3, <3>0, <3>1, <4>1 DEF Counted, PacketCounted
    <3>2. CASE stopped.recvcnt # 0
      <4>1. t = [stopped EXCEPT !.recvdcnt = @ + 1] /\ rest = [net EXCEPT ![e] = @ - 1]
        BY <3>2
      <4> HIDE DEF t, rest
      <4>2. /\ t \in Good /\ t.timer = stopped.timer /\ t.open = stopped.open
            /\ t.request = stopped.request
            /\ t.sendcnt = stopped.sendcnt /\ t.sentcnt = stopped.sentcnt
            /\ t.recvcnt = stopped.recvcnt /\ t.effectreq = stopped.effectreq
            /\ t.recvdcnt = stopped.recvdcnt + 1 /\ t.regard = stopped.regard
        BY <3>0, <4>1, Counting
      <4> QED BY <2>3, <3>0, <3>2, <4>1, <4>2 DEF Counted, PacketCounted
    <3> QED BY <3>1, <3>2
  <2> HIDE DEF t, rest
  <2> QED BY <1>2, <2>1, <2>2, <2>4
<1> QED BY <1>3, <1>4

\* What recvIndication and recvsndIndication leave of a socket.
LEMMA RecvResult ==
  ASSUME NEW s \in Socks, NEW n \in 0 .. MaxCount, NEW op \in Ops
  PROVE  LET r == Recv([s EXCEPT !.request = op], n)
         IN  /\ r \in Good /\ r.request = op /\ ~r.effectreq /\ r.sentcnt = 0
             /\ r.recvdcnt = 0 /\ r.recvcnt = n /\ r.sendcnt = s.sendcnt
             /\ r.open = s.open /\ r.timer = s.timer /\ r.regard = s.regard
<1> DEFINE p == [s EXCEPT !.request = op]
           r == Recv(p, n)
<1>1. /\ p \in Socks /\ p.request = op /\ p.sendcnt = s.sendcnt /\ p.open = s.open
      /\ p.timer = s.timer /\ p.regard = s.regard
  BY DEF Socks
<1> HIDE DEF p
<1>2. r = [p EXCEPT !.effectreq = FALSE, !.sentcnt = 0, !.recvdcnt = 0, !.recvcnt = n]
  BY DEF Recv
<1> HIDE DEF r
<1>3. /\ r.request = op /\ ~r.effectreq /\ r.sentcnt = 0
      /\ r.recvdcnt = 0 /\ r.recvcnt = n /\ r.sendcnt = s.sendcnt
      /\ r.open = s.open /\ r.timer = s.timer /\ r.regard = s.regard
  BY <1>1, <1>2 DEF Socks
<1>4. 0 \in 0 .. MaxCount /\ MaxCount \in Nat BY TrafficAssumption
<1>5. r \in Socks BY <1>1, <1>2, <1>4 DEF Socks
<1>6. r.sentcnt <= r.sendcnt BY <1>3, <1>4, <1>5 DEF Socks
<1> QED BY <1>3, <1>5, <1>6 DEF r, p, Good

\* The socket from which sndIndication sends.
Renewed(s, op, n) ==
  [Restarted(IF op = "Snd" THEN [s EXCEPT !.request = op] ELSE Recv([s EXCEPT !.request = op], n))
     EXCEPT !.sendcnt = n]

LEMMA RenewedResult ==
  ASSUME NEW s \in Good, NEW n \in 0 .. MaxCount, NEW op \in Ops
  PROVE  LET r == Renewed(s, op, n)
         IN  /\ r \in Good /\ r.request = op /\ r.sentcnt = 0 /\ r.sendcnt = n
             /\ r.recvdcnt = 0 /\ r.regard = 0 /\ r.open = s.open
             /\ op = "SndRecv" => r.recvcnt = n
<1> DEFINE p == IF op = "Snd" THEN [s EXCEPT !.request = op] ELSE Recv([s EXCEPT !.request = op], n)
           q == Restarted(p)
           r == Renewed(s, op, n)
<1>1. p \in Good /\ p.request = op /\ p.open = s.open /\ (op = "SndRecv" => p.recvcnt = n)
  <2>1. CASE op = "Snd" BY <2>1 DEF Good, Socks
  <2>2. CASE op # "Snd"
    <3>1. p = Recv([s EXCEPT !.request = op], n) BY <2>2
    <3>2. s \in Socks BY DEF Good
    <3> HIDE DEF p
    <3> QED BY <3>1, <3>2, RecvResult
  <2> QED BY <2>1, <2>2
<1>2. r = [q EXCEPT !.sendcnt = n] BY DEF Renewed
<1> HIDE DEF p
<1>3. 0 \in 0 .. MaxCount /\ MaxCount \in Nat BY TrafficAssumption
<1>4. /\ q \in Good /\ q.request = op /\ q.open = s.open /\ (op = "SndRecv" => q.recvcnt = n)
      /\ q.sentcnt = 0 /\ q.recvdcnt = 0 /\ q.regard = 0
  <2>1. q = [p EXCEPT !.sentcnt = 0, !.recvdcnt = 0, !.regard = 0] BY DEF Restarted
  <2> HIDE DEF q
  <2>2. q.request = op /\ q.open = s.open /\ (op = "SndRecv" => q.recvcnt = n)
        /\ q.sentcnt = 0 /\ q.recvdcnt = 0 /\ q.regard = 0
    BY <1>1, <2>1 DEF Good, Socks
  <2>3. q \in Socks BY <1>1, <1>3, <2>1 DEF Good, Socks
  <2>4. q.sentcnt <= q.sendcnt BY <1>3, <2>2, <2>3 DEF Socks
  <2> QED BY <2>2, <2>3, <2>4 DEF Good
<1> HIDE DEF q
<1>5. /\ r.request = op /\ r.open = s.open /\ (op = "SndRecv" => r.recvcnt = n)
      /\ r.sentcnt = 0 /\ r.recvdcnt = 0 /\ r.regard = 0 /\ r.sendcnt = n
  BY <1>2, <1>4 DEF Good, Socks
<1>6. r \in Socks BY <1>2, <1>4 DEF Good, Socks
<1>7. r.sentcnt <= r.sendcnt BY <1>3, <1>5
<1> QED BY <1>5, <1>6, <1>7 DEF Good, r

\* A request for a socket that is gone,
Refused(e, r) ==
  /\ ~sock[e].open
  /\ toManager' = [toManager EXCEPT ![e] = Append(@, [op |-> r.op, ok |-> FALSE])]
  /\ UNCHANGED <<sock, network, unsent>>

\* and one that comes out as o.
Accepted(e, r, o) ==
  /\ sock[e].open /\ o.sock \in Good
  /\ sock' = [sock EXCEPT ![e] = o.sock] /\ Reports(e, o)
  /\ o.reports = <<>> \/ o.reports = <<r.op>>

ServedRecv(e, r, o) ==
  /\ r.op \in {"Recv", "RecvSnd"} /\ o.reports = <<r.op>>
  /\ o.sock.open = sock[e].open /\ o.sock.request = r.op /\ ~o.sock.effectreq
  /\ o.sock.sentcnt = 0 /\ o.sock.recvdcnt = 0 /\ o.sock.recvcnt = r.count
  /\ o.sock.sendcnt = IF r.op = "Recv" THEN sock[e].sendcnt ELSE r.count
  /\ o.sock.timer = sock[e].timer
  /\ UNCHANGED <<network, unsent>>

ServedSend(e, r, f, o) ==
  /\ r.op \in {"Snd", "SndRecv"} /\ SendResult(Renewed(sock[e], r.op, r.count), f, o)
  /\ net' = Sent(net, e, o) /\ UNCHANGED <<eof, repeats>>
  /\ unsent' \in Nat /\ (protocol = "tcp" => unsent' = unsent)
  /\ unsent' = 0 => unsent = 0 /\ o.sent

ServedEffect(e, r, o) ==
  /\ r.op = "RecvEffect" /\ SendOnly(sock[e], o.sock)
  /\ o.sock.sentcnt = sock[e].sentcnt /\ o.sock.timer = sock[e].timer
  /\ o.sock.effectreq => ~EffectNow(sock[e])
  /\ o.reports = IF EffectNow(sock[e]) THEN <<"RecvEffect">> ELSE <<>>
  /\ UNCHANGED <<network, unsent>>

ServedClose(e, r, o) ==
  /\ r.op = "Close" /\ o.reports = <<"Close">>
  /\ o.sock = [sock[e] EXCEPT !.open = FALSE]
  /\ net' = [net EXCEPT ![e] = 0]
  /\ eof' = [eof EXCEPT ![Other(e)] = protocol = "tcp"]
  /\ UNCHANGED <<repeats, unsent>>

Serves(e, r) ==
  /\ toAgent[e] # <<>> /\ r = Head(toAgent[e]) /\ r \in Request
  /\ toAgent' = [toAgent EXCEPT ![e] = Tail(@)]
  /\ UNCHANGED <<protocol, thread>>
  /\ \/ Refused(e, r)
     \/ \E o : /\ Accepted(e, r, o)
               /\ \/ ServedRecv(e, r, o) \/ ServedEffect(e, r, o) \/ ServedClose(e, r, o)
                  \/ \E f \in BOOLEAN : ServedSend(e, r, f, o)

LEMMA ServeOf ==
  ASSUME TypeOK, NEW e \in Ends, Serve(e)
  PROVE  \E r : Serves(e, r)
<1> DEFINE r == Head(toAgent[e])
           s == sock[e]
<1>1. /\ s \in Good /\ s \in Socks /\ toManager \in [Ends -> Seq(Answer)] /\ unsent \in Nat
      /\ toAgent[e] \in Seq(Request)
  BY DEF TypeOK, Good, Socks, Answer, Request
<1>2. toAgent[e] # <<>> /\ r \in Request
  BY <1>1, HeadTailProperties DEF Serve
<1>3. toAgent' = [toAgent EXCEPT ![e] = Tail(@)] /\ UNCHANGED <<protocol, thread>>
  BY DEF Serve
<1>4. r.op \in Ops /\ r.count \in 0 .. MaxCount /\ r.count # 0 /\ r.count \in Nat
  BY <1>2, TrafficAssumption DEF Request
<1>5. ASSUME NEW o, Apply(e, o), o.sock \in Good, s.open,
             o.reports = <<>> \/ o.reports = <<r.op>>,
             ServedRecv(e, r, o) \/ ServedEffect(e, r, o) \/ ServedClose(e, r, o)
               \/ \E f \in BOOLEAN : ServedSend(e, r, f, o)
      PROVE  Serves(e, r)
  <2>1. sock' = [sock EXCEPT ![e] = o.sock] /\ Reports(e, o)
    BY <1>1, <1>5, ApplyReports
  <2>2. Accepted(e, r, o) BY <1>5, <2>1 DEF Accepted
  <2> HIDE DEF r
  <2> QED BY <1>2, <1>3, <1>5, <2>2 DEF Serves, r
<1>6. CASE ~s.open
  <2>1. Refused(e, r) BY <1>6 DEF Serve, Refused
  <2> HIDE DEF r
  <2> QED BY <1>2, <1>3, <2>1 DEF Serves, r
<1>7. CASE s.open /\ r.op \in {"Recv", "RecvSnd"}
  <2> DEFINE s1 == [s EXCEPT !.request = r.op]
             o == Outcome(IF r.op = "Recv" THEN Recv(s1, r.count) ELSE RecvSnd(s1, r.count),
                          FALSE, <<r.op>>)
  <2>1. Apply(e, o) /\ UNCHANGED <<network, unsent>>
    BY <1>7 DEF Serve, Listening
  <2>2. o.reports = <<r.op>>
        /\ o.sock = IF r.op = "Recv" THEN Recv(s1, r.count) ELSE RecvSnd(s1, r.count)
    BY DEF Outcome
  <2> HIDE DEF o
  <2>3. o.sock \in Good /\ ServedRecv(e, r, o)
    <3>1. CASE r.op = "Recv"
      BY <1>1, <1>4, <2>1, <2>2, <3>1, RecvResult DEF ServedRecv
    <3>2. CASE r.op = "RecvSnd"
      <4> DEFINE s2 == [s EXCEPT !.sendcnt = r.count]
      <4>1. s2 \in Socks /\ s2.open = s.open /\ s2.timer = s.timer /\ s2.sendcnt = r.count
        BY <1>1, <1>4 DEF Socks
      <4>2. [s1 EXCEPT !.sendcnt = r.count] = [s2 EXCEPT !.request = r.op]
        BY <1>1 DEF Socks
      <4>3. o.sock = Recv([s2 EXCEPT !.request = r.op], r.count)
        BY <2>2, <3>2, <4>2 DEF RecvSnd
      <4> HIDE DEF s2
      <4> QED BY <1>4, <2>1, <2>2, <3>2, <4>1, <4>3, RecvResult DEF ServedRecv
    <3> QED BY <1>7, <3>1, <3>2
  <2> QED BY <1>5, <1>7, <2>1, <2>2, <2>3
<1>8. CASE s.open /\ r.op \in {"Snd", "SndRecv"}
  <2> DEFINE q == Renewed(s, r.op, r.count)
             op == SendPacket(q, FALSE)
  <2>1. PICK f \in Fails :
          /\ Apply(e, Sending(r.op, r.count, e, f)) /\ net' = Sent(net, e, Sending(r.op, r.count, e, f))
          /\ CountUnsent(f, Sending(r.op, r.count, e, f), Sending(r.op, r.count, e, FALSE))
    BY <1>8 DEF Serve
  <2>2. UNCHANGED <<eof, repeats>> BY <1>8 DEF Serve
  <2>3. \A g : Sending(r.op, r.count, e, g) = SendPacket(q, g)
    BY DEF Sending, Snd, Renewed
  <2> DEFINE o == SendPacket(q, f)
             p == SendPacket(q, FALSE)
  <2>4. q \in Good /\ q.request = r.op /\ q.sentcnt = 0 /\ q.sendcnt = r.count
    BY <1>1, <1>4, RenewedResult
  <2>5. f \in BOOLEAN /\ (protocol = "tcp" => f = FALSE) BY DEF Fails
  <2> HIDE DEF q
  <2>6. SendResult(q, f, o) /\ SendResult(q, FALSE, p) BY <2>4, <2>5, SendPacketResult
  <2>s. Sending(r.op, r.count, e, f) = o /\ Sending(r.op, r.count, e, FALSE) = p
    BY <2>3
  <2>7. unsent' = IF f /\ p.sent THEN unsent + 1 ELSE unsent
    <3> HIDE DEF o, p
    <3> QED BY <2>1, <2>s DEF CountUnsent
  <2>8. f = FALSE => o = p OBVIOUS
  <2>9. Apply(e, o) /\ net' = Sent(net, e, o) BY <2>1, <2>3
  <2> HIDE DEF o, p
  <2>10. p.sent BY <1>4, <2>4, <2>6 DEF SendResult
  <2>11. unsent' \in Nat /\ (protocol = "tcp" => unsent' = unsent)
         /\ (unsent' = 0 => unsent = 0 /\ o.sent)
    BY <1>1, <2>5, <2>7, <2>8, <2>10
  <2>12. o.sock \in Good /\ (o.reports = <<>> \/ o.reports = <<r.op>>)
    BY <2>4, <2>6 DEF SendResult
  <2>13. ServedSend(e, r, f, o)
    BY <1>8, <2>2, <2>6, <2>9, <2>11 DEF ServedSend, q
  <2> QED BY <1>5, <1>8, <2>5, <2>9, <2>12, <2>13
<1>9. CASE s.open /\ r.op = "RecvEffect"
  <2> DEFINE o == RecvEffect(s)
  <2>1. Apply(e, o) /\ UNCHANGED <<network, unsent>> BY <1>9 DEF Serve
  <2>2. o.sock \in Good /\ ServedEffect(e, r, o)
    <3>1. CASE EffectNow(s)
      <4>1. o.sock = [s EXCEPT !.effectreq = FALSE] /\ o.reports = <<"RecvEffect">>
        BY <3>1 DEF RecvEffect, Outcome
      <4> HIDE DEF o
      <4> QED BY <1>1, <1>9, <2>1, <3>1, <4>1 DEF ServedEffect, SendOnly, Good, Socks
    <3>2. CASE ~EffectNow(s)
      <4>1. o.sock = [s EXCEPT !.effectreq = TRUE] /\ o.reports = <<>>
        BY <3>2 DEF RecvEffect, Outcome
      <4> HIDE DEF o
      <4> QED BY <1>1, <1>9, <2>1, <3>2, <4>1 DEF ServedEffect, SendOnly, Good, Socks
    <3> QED BY <3>1, <3>2
  <2> HIDE DEF o
  <2>3. o.reports = <<>> \/ o.reports = <<r.op>>
    BY <1>9, <2>2 DEF ServedEffect
  <2> QED BY <1>5, <1>9, <2>1, <2>2, <2>3
<1>10. CASE s.open /\ r.op = "Close"
  <2> DEFINE o == Outcome([s EXCEPT !.open = FALSE], FALSE, <<"Close">>)
  <2>1. /\ Apply(e, o) /\ net' = [net EXCEPT ![e] = 0]
        /\ eof' = [eof EXCEPT ![Other(e)] = protocol = "tcp"]
        /\ UNCHANGED <<repeats, unsent>>
    BY <1>10 DEF Serve
  <2>2. o.sock = [s EXCEPT !.open = FALSE] /\ o.reports = <<"Close">>
    BY DEF Outcome
  <2>3. o.sock \in Good BY <1>1, <2>2 DEF Good, Socks
  <2> HIDE DEF o
  <2> QED BY <1>5, <1>10, <2>1, <2>2, <2>3 DEF ServedClose
<1> HIDE DEF r, s
<1>11. \/ r.op \in {"Recv", "RecvSnd"} \/ r.op \in {"Snd", "SndRecv"}
       \/ r.op = "RecvEffect" \/ r.op = "Close"
  BY <1>4 DEF Ops
<1> QED BY <1>6, <1>7, <1>8, <1>9, <1>10, <1>11

----------------------------------------------------------------------------
(* Types, and where the thread is *)

TThread ==
  /\ protocol \in Protocols /\ program \in Programs
  /\ stmtPos \in Nat \ {0} /\ step \in 1 .. 4
  /\ wait \in Waits /\ aborted \in BOOLEAN
  /\ connects \in [Ends -> {"connected", "closing", "none"}]
TChannels == toAgent \in [Ends -> Seq(Request)] /\ toManager \in [Ends -> Seq(Answer)]
TSockets == sock \in [Ends -> Good]
TNetwork == net \in [Ends -> Nat] /\ eof \in [Ends -> BOOLEAN] /\ repeats \in Nat /\ unsent \in Nat

LEMMA TypesAre == TypeOK <=> TThread /\ TChannels /\ TSockets /\ TNetwork
BY DEF TypeOK, TThread, TChannels, TSockets, TNetwork, Request, Answer, Good, Socks

\* velm waits for the request of the step its thread is at.
AtStep ==
  wait # None => Running /\ ~StatementOver /\ wait = StepsOf(Statement.kind)[step]

Actions == [end : Ends, op : Ops]

LEMMA StepsType ==
  ASSUME NEW k \in {"oneway", "turnaround", "close"}
  PROVE  /\ Len(StepsOf(k)) = (IF k = "close" THEN 2 ELSE 3)
         /\ \A i \in 1 .. Len(StepsOf(k)) : StepsOf(k)[i] \in Actions
         /\ StepsOf(k)[1].end = (IF k = "close" THEN "client" ELSE "server")
         /\ StepsOf(k)[2].end = (IF k = "close" THEN "server" ELSE "client")
         /\ k = "close" => StepsOf(k)[1].op = "Close" /\ StepsOf(k)[2].op = "Close"
         /\ k = "oneway" => StepsOf(k)[1].op = "Recv" /\ StepsOf(k)[2].op = "Snd"
         /\ k = "turnaround" => StepsOf(k)[1].op = "RecvSnd" /\ StepsOf(k)[2].op = "SndRecv"
         /\ k # "close" => StepsOf(k)[3] = [end |-> "server", op |-> "RecvEffect"]
<1>1. CASE k = "oneway" BY <1>1 DEF StepsOf, Actions, Ends, Ops
<1>2. CASE k = "turnaround" BY <1>2 DEF StepsOf, Actions, Ends, Ops
<1>3. CASE k = "close" BY <1>3 DEF StepsOf, Actions, Ends, Ops
<1> QED BY <1>1, <1>2, <1>3

LEMMA NoneIsNoAction == None \in Waits /\ Actions = Waits \ {None} /\ None.op \notin Ops
<1>1. None.op = "none" /\ "none" \notin Ops BY DEF None, Ops
<1>2. \A a \in Actions : a.op \in Ops BY DEF Actions
<1>3. Waits = Actions \union {None} BY DEF Waits, Actions
<1> QED BY <1>1, <1>2, <1>3

LEMMA StatementType ==
  ASSUME TThread, Running
  PROVE  Statement \in Statements /\ Statement.kind \in {"oneway", "turnaround", "close"}
         /\ Statement.count \in 1 .. MaxCount
<1>1. program \in Seq(Statements) BY TrafficAssumption DEF TThread
<1>2. stmtPos \in 1 .. Len(program) BY <1>1 DEF TThread, Running
<1>3. Statement \in Statements BY <1>1, <1>2 DEF Statement
<1> QED BY <1>3 DEF Statements

LEMMA NextStatementTypes ==
  ASSUME TypeOK, AtStep, NextStatement PROVE TypeOK' /\ AtStep'
<1> USE DEF NextStatement, network
<1>1. TThread' BY TypesAre DEF TThread
<1>2. TChannels' /\ TSockets' /\ TNetwork'
  BY TypesAre DEF TChannels, TSockets, TNetwork
<1>3. AtStep' BY DEF AtStep
<1>4. TypeOK' BY <1>1, <1>2, TypesAre, PTL
<1> QED BY <1>3, <1>4

\* The three outcomes of a step of doStep.
Requested(r) ==
  /\ connects[r.end] = "connected" /\ wait' = r
  /\ toAgent' = [toAgent EXCEPT ![r.end] = Append(@, [op |-> r.op, count |-> Statement.count])]
  /\ connects' = IF r.op = "Close"
                 THEN [connects EXCEPT ![r.end] = "closing"] ELSE connects
  /\ UNCHANGED <<step, aborted>>
Skipped(r) ==
  /\ connects[r.end] # "connected" /\ r.op = "Close" /\ step' = step + 1
  /\ UNCHANGED <<wait, toAgent, connects, aborted>>
Aborts(r) ==
  /\ connects[r.end] # "connected" /\ r.op # "Close" /\ aborted' = TRUE
  /\ UNCHANGED <<step, wait, toAgent, connects>>

Does(r) ==
  /\ Running /\ wait = None /\ ~StatementOver
  /\ r = StepsOf(Statement.kind)[step] /\ r \in Actions
  /\ Requested(r) \/ Skipped(r) \/ Aborts(r)
  /\ UNCHANGED <<protocol, program, stmtPos, toManager, sock, network, unsent>>

LEMMA DoStepIs ==
  ASSUME TThread, DoStep
  PROVE  /\ Does(StepsOf(Statement.kind)[step])
         /\ step \in 1 .. Len(StepsOf(Statement.kind)) /\ step + 1 \in 1 .. 4
<1> DEFINE r == StepsOf(Statement.kind)[step]
<1>1. Running /\ wait = None /\ ~StatementOver BY DEF DoStep
<1>2. step \in 1 .. Len(StepsOf(Statement.kind)) /\ step + 1 \in 1 .. 4
  <2>1. Len(StepsOf(Statement.kind)) \in {2, 3} BY <1>1, StatementType, StepsType
  <2>2. step \in 1 .. 4 /\ ~(step > Len(StepsOf(Statement.kind)))
    BY <1>1 DEF TThread, StatementOver
  <2>3. \A n \in {2, 3} : \A i \in 1 .. 4 : ~(i > n) => i \in 1 .. n /\ i + 1 \in 1 .. 4
    OBVIOUS
  <2> QED BY <2>1, <2>2, <2>3
<1>3. r \in Actions BY <1>1, <1>2, StatementType, StepsType
<1>4. Requested(r) \/ Skipped(r) \/ Aborts(r)
  BY DEF DoStep, Requested, Skipped, Aborts
<1>5. UNCHANGED <<protocol, program, stmtPos, toManager, sock, network, unsent>>
  BY DEF DoStep
<1> QED BY <1>1, <1>2, <1>3, <1>4, <1>5 DEF Does

LEMMA DoStepTypes ==
  ASSUME TypeOK, AtStep, DoStep PROVE TypeOK' /\ AtStep'
<1> DEFINE r == StepsOf(Statement.kind)[step]
<1>1. TThread /\ TChannels /\ TSockets /\ TNetwork BY TypesAre
<1>2. Does(r) /\ step + 1 \in 1 .. 4 BY <1>1, DoStepIs
<1>3. [op |-> r.op, count |-> Statement.count] \in Request
  BY <1>1, <1>2, StatementType DEF Request, Does, Actions
<1>4. r \in Waits /\ r.end \in Ends /\ r # None BY <1>2, NoneIsNoAction DEF Does, Actions
<1>5. r = StepsOf(Statement.kind)[step] OBVIOUS
<1> HIDE DEF r
<1>6. TThread'
  BY <1>1, <1>2, <1>4 DEF TThread, Does, Requested, Skipped, Aborts
<1>7. TChannels'
  <2>1. CASE Requested(r)
    <3>1. toAgent[r.end] \in Seq(Request) BY <1>1, <1>4 DEF TChannels
    <3>2. Append(toAgent[r.end], [op |-> r.op, count |-> Statement.count]) \in Seq(Request)
      BY <1>3, <3>1, AppendProperties
    <3> QED BY <1>1, <1>2, <2>1, <3>2 DEF TChannels, Does, Requested
  <2>2. CASE Skipped(r) \/ Aborts(r)
    BY <1>1, <1>2, <2>2 DEF TChannels, Does, Skipped, Aborts
  <2> QED BY <1>2, <2>1, <2>2 DEF Does
<1>8. TSockets' /\ TNetwork'
  BY <1>1, <1>2 DEF TSockets, TNetwork, Does, network
<1>9. TypeOK' BY <1>6, <1>7, <1>8, TypesAre, PTL
<1>10. AtStep'
  BY <1>2, <1>4, <1>5 DEF AtStep, Does, Requested, Skipped, Aborts, Running, StatementOver, Statement
<1> QED BY <1>9, <1>10

\* What velm makes of an answer or a report of agent e.
HeardClosed(e, a) ==
  /\ a.op = "Closed" /\ connects' = [connects EXCEPT ![e] = "none"]
  /\ UNCHANGED <<wait, step, aborted>>
HeardStray(e, a) ==
  /\ a.op # "Closed" /\ ~(wait.end = e /\ wait.op = a.op)
  /\ UNCHANGED <<wait, step, aborted, connects>>
HeardAnswer(e, a) ==
  /\ a.op # "Closed" /\ wait.end = e /\ wait.op = a.op /\ wait # None /\ wait' = None
  /\ \/ step' = step + 1 /\ (a.op # "Close" => a.ok) /\ UNCHANGED aborted
     \/ /\ aborted' = TRUE /\ UNCHANGED step
        /\ ~a.ok /\ ~(a.op = "Close" /\ connects[e] = "none")
  /\ connects' = IF a.op = "Close" THEN [connects EXCEPT ![e] = "none"] ELSE connects

Hears(e, a) ==
  /\ toManager[e] # <<>> /\ a = Head(toManager[e]) /\ a \in Answer
  /\ wait # None \/ ~Running
  /\ toManager' = [toManager EXCEPT ![e] = Tail(@)]
  /\ HeardClosed(e, a) \/ HeardStray(e, a) \/ HeardAnswer(e, a)
  /\ UNCHANGED <<protocol, program, stmtPos, toAgent, sock, network, unsent>>

LEMMA HearIs ==
  ASSUME TChannels, NEW e \in Ends, Hear(e)
  PROVE  \E a : Hears(e, a)
<1> DEFINE a == Head(toManager[e])
<1>1. toManager[e] # <<>> /\ (wait # None \/ ~Running) /\ a \in Answer
      /\ toManager' = [toManager EXCEPT ![e] = Tail(@)]
  BY HeadTailProperties DEF TChannels, Hear
<1>2. UNCHANGED <<protocol, program, stmtPos, toAgent, sock, network, unsent>>
  BY DEF Hear
<1>3. a.op \in Ops \union {"Closed"} BY <1>1 DEF Answer
<1>4. a.op # "Closed" /\ wait.op = a.op => wait # None
  BY <1>3, NoneIsNoAction
<1>5. HeardClosed(e, a) \/ HeardStray(e, a) \/ HeardAnswer(e, a)
  <2>1. CASE a.op = "Closed"
    BY <2>1 DEF Hear, AfterClosed, HeardClosed
  <2>2. CASE a.op # "Closed" /\ ~(wait.end = e /\ wait.op = a.op)
    BY <2>2 DEF Hear, HeardStray
  <2>3. CASE a.op # "Closed" /\ wait.end = e /\ wait.op = a.op
    BY <1>4, <2>3 DEF Hear, HeardAnswer
  <2> QED BY <2>1, <2>2, <2>3
<1> QED BY <1>1, <1>2, <1>5 DEF Hears

LEMMA HearTypes ==
  ASSUME TypeOK, AtStep, NEW e \in Ends, NEW a, Hears(e, a)
  PROVE  TypeOK' /\ AtStep'
<1>1. TThread /\ TChannels /\ TSockets /\ TNetwork BY TypesAre
<1>2. wait # None => step + 1 \in 1 .. 4
  <2>1. wait # None => Len(StepsOf(Statement.kind)) \in {2, 3} /\ ~(step > Len(StepsOf(Statement.kind)))
    BY <1>1, StatementType, StepsType DEF AtStep, StatementOver
  <2>2. \A n \in {2, 3} : \A i \in 1 .. 4 : ~(i > n) => i + 1 \in 1 .. 4
    OBVIOUS
  <2> QED BY <1>1, <2>1, <2>2 DEF TThread
<1>3. TThread'
  BY <1>1, <1>2, NoneIsNoAction DEF TThread, Hears, HeardClosed, HeardStray, HeardAnswer
<1>4. Tail(toManager[e]) \in Seq(Answer)
  BY <1>1, HeadTailProperties DEF TChannels, Hears
<1>5. TChannels' BY <1>1, <1>4 DEF TChannels, Hears
<1>6. TSockets' /\ TNetwork' BY <1>1 DEF TSockets, TNetwork, Hears, network
<1>7. TypeOK' BY <1>3, <1>5, <1>6, TypesAre, PTL
<1>8. AtStep'
  BY DEF AtStep, Hears, HeardClosed, HeardStray, HeardAnswer, Running, StatementOver, Statement
<1> QED BY <1>7, <1>8

LEMMA SentType ==
  ASSUME NEW n \in [Ends -> Nat], NEW e \in Ends, NEW o
  PROVE  Sent(n, e, o) \in [Ends -> Nat]
BY DEF Sent, Ends, Other

LEMMA ReportsType ==
  ASSUME TChannels, NEW e \in Ends, NEW o, Reports(e, o),
         o.reports = <<>> \/ \E op \in Ops : o.reports = <<op>>
  PROVE  toManager' \in [Ends -> Seq(Answer)]
<1>1. CASE o.reports = <<>> BY <1>1 DEF Reports, TChannels
<1>2. ASSUME NEW op \in Ops, o.reports = <<op>>
      PROVE  toManager' \in [Ends -> Seq(Answer)]
  <2>1. [op |-> op, ok |-> TRUE] \in Answer BY DEF Answer
  <2>2. Append(toManager[e], [op |-> op, ok |-> TRUE]) \in Seq(Answer)
    BY <2>1, AppendProperties DEF TChannels
  <2> QED BY <1>2, <2>2 DEF Reports, TChannels
<1> QED BY <1>1, <1>2

\* A step of an agent leaves the thread where it is.
LEMMA SameThread ==
  ASSUME UNCHANGED <<protocol, thread>>
  PROVE  /\ TThread => TThread'
         /\ AtStep => AtStep'
         /\ Running' = Running /\ Statement' = Statement /\ StatementOver' = StatementOver
BY DEF thread, TThread, AtStep, Running, Statement, StatementOver

LEMMA ProgressTypes ==
  ASSUME TypeOK, AtStep, NEW e \in Ends, NEW t, NEW rest, NEW f, NEW o, Progress(e, t, rest, f, o)
  PROVE  TypeOK' /\ AtStep'
<1>1. TThread /\ TChannels /\ TSockets /\ TNetwork BY TypesAre
<1>2. TThread' /\ AtStep' BY <1>1, SameThread DEF Progress
<1>3. o.reports = <<>> \/ \E op \in Ops : o.reports = <<op>>
  BY DEF Progress, ReceiveResult, Ops
<1>4. TChannels' BY <1>1, <1>3, ReportsType DEF Progress, TChannels
<1>5. TSockets' BY <1>1 DEF Progress, ReceiveResult, TSockets
<1>6. rest \in [Ends -> Nat]
  BY <1>1 DEF Progress, TimerCounted, PacketCounted, TNetwork
<1>7. TNetwork' BY <1>1, <1>6, SentType DEF Progress, TNetwork
<1> QED BY <1>2, <1>4, <1>5, <1>7, TypesAre, PTL

LEMMA ServeTypes ==
  ASSUME TypeOK, AtStep, NEW e \in Ends, NEW r, Serves(e, r)
  PROVE  TypeOK' /\ AtStep'
<1>1. TThread /\ TChannels /\ TSockets /\ TNetwork BY TypesAre
<1>2. TThread' /\ AtStep' BY <1>1, SameThread DEF Serves
<1>3. Tail(toAgent[e]) \in Seq(Request) /\ r.op \in Ops
  BY <1>1, HeadTailProperties DEF Serves, TChannels, Request
<1>4. toManager' \in [Ends -> Seq(Answer)] /\ TSockets'
  <2>1. CASE Refused(e, r)
    <3>1. [op |-> r.op, ok |-> FALSE] \in Answer BY <1>3 DEF Answer
    <3>2. Append(toManager[e], [op |-> r.op, ok |-> FALSE]) \in Seq(Answer)
      BY <1>1, <3>1, AppendProperties DEF TChannels
    <3> QED BY <1>1, <2>1, <3>2 DEF Refused, TChannels, TSockets
  <2>2. ASSUME NEW o, Accepted(e, r, o)
        PROVE  toManager' \in [Ends -> Seq(Answer)] /\ TSockets'
    <3>1. o.reports = <<>> \/ \E op \in Ops : o.reports = <<op>>
      BY <1>3, <2>2 DEF Accepted
    <3>2. toManager' \in [Ends -> Seq(Answer)] BY <1>1, <2>2, <3>1, ReportsType DEF Accepted
    <3> QED BY <1>1, <2>2, <3>2 DEF Accepted, TSockets
  <2> QED BY <2>1, <2>2 DEF Serves
<1>5. TChannels' BY <1>1, <1>3, <1>4 DEF Serves, TChannels
<1>6. TNetwork'
  <2>1. CASE UNCHANGED <<network, unsent>>
    BY <1>1, <2>1 DEF network, TNetwork
  <2>2. ASSUME NEW o, NEW f, ServedSend(e, r, f, o) PROVE TNetwork'
    BY <1>1, <2>2, SentType DEF ServedSend, TNetwork
  <2>3. ASSUME NEW o, ServedClose(e, r, o) PROVE TNetwork'
    <3>1. Other(e) \in Ends BY DEF Other, Ends
    <3> QED BY <1>1, <2>3, <3>1 DEF ServedClose, TNetwork
  <2> QED BY <2>1, <2>2, <2>3 DEF Serves, Refused, ServedRecv, ServedEffect
<1> QED BY <1>2, <1>4, <1>5, <1>6, TypesAre, PTL

\* The other steps of the agents and of the network.
Ended(e) ==
  /\ sock[e].open /\ eof[e]
  /\ sock' = [sock EXCEPT ![e].open = FALSE, ![e].timer = FALSE]
  /\ toManager' = [toManager EXCEPT ![e] = Append(@, [op |-> "Closed", ok |-> TRUE])]
  /\ UNCHANGED <<protocol, thread, toAgent, network, unsent>>

LEMMA EndedTypes ==
  ASSUME TypeOK, AtStep, NEW e \in Ends, Ended(e)
  PROVE  TypeOK' /\ AtStep'
<1>1. TThread /\ TChannels /\ TSockets /\ TNetwork BY TypesAre
<1>2. TThread' /\ AtStep' BY <1>1, SameThread DEF Ended
<1>3. [op |-> "Closed", ok |-> TRUE] \in Answer BY DEF Answer
<1>4. Append(toManager[e], [op |-> "Closed", ok |-> TRUE]) \in Seq(Answer)
  BY <1>1, <1>3, AppendProperties DEF TChannels
<1>5. TChannels' BY <1>1, <1>4 DEF Ended, TChannels
<1>6. [sock[e] EXCEPT !.open = FALSE, !.timer = FALSE] \in Good
  <2>1. sock[e] \in Good BY <1>1 DEF TSockets
  <2> QED BY <2>1 DEF Good, Socks
<1>7. sock' = [sock EXCEPT ![e] = [sock[e] EXCEPT !.open = FALSE, !.timer = FALSE]]
  BY <1>1 DEF Ended, TSockets
<1>8. TSockets' BY <1>1, <1>6, <1>7 DEF TSockets
<1>9. TNetwork' BY <1>1 DEF Ended, TNetwork, network
<1> QED BY <1>2, <1>5, <1>8, <1>9, TypesAre, PTL

LEMMA LossTypes ==
  ASSUME TypeOK, AtStep, NEW e \in Ends, Lose(e) \/ Repeat(e)
  PROVE  TypeOK' /\ AtStep'
<1>1. TThread /\ TChannels /\ TSockets /\ TNetwork BY TypesAre
<1>2. TThread' /\ AtStep' BY <1>1, SameThread DEF Lose, Repeat
<1>3. TChannels' /\ TSockets' BY <1>1 DEF Lose, Repeat, TChannels, TSockets
<1>4. TNetwork' BY <1>1 DEF Lose, Repeat, TNetwork
<1> QED BY <1>2, <1>3, <1>4, TypesAre, PTL

----------------------------------------------------------------------------
(* A request is in one place *)

\* What a socket will still answer.
Owes(s, op) ==
  \/ op = "Snd" /\ s.request = "Snd" /\ s.sentcnt < s.sendcnt
  \/ op = "SndRecv" /\ s.request = "SndRecv" /\ Got(s) < s.recvcnt
  \/ op = "RecvEffect" /\ s.request = "Recv" /\ s.effectreq /\ protocol = "tcp"

\* No answer of agent e is on its way.
Silent(e) == \A i \in 1 .. Len(toManager[e]) : toManager[e][i].op = "Closed"

\* What is on its way to an agent, and what a socket owes, is what velm waits
\* for, and it is in one of these places only.
Asked ==
  \A e \in Ends : toAgent[e] # <<>> =>
    /\ Len(toAgent[e]) = 1 /\ wait.end = e /\ wait.op = toAgent[e][1].op
    /\ toAgent[e][1].count = Statement.count /\ Silent(e)
Owing ==
  \A e \in Ends : \A op \in Said : Owes(sock[e], op) =>
    wait.end = e /\ wait.op = op /\ toAgent[e] = <<>> /\ Silent(e)

\* A socket that was reported closed is.
Shut ==
  \A e \in Ends : \A i \in 1 .. Len(toManager[e]) :
    toManager[e][i].op = "Closed" => ~sock[e].open

\* A turnaround has as many answers as packets, and a packet goes out for
\* each answer, counted or given up, and one ahead.
Turning ==
  \A e \in Ends : sock[e].request = "SndRecv" =>
    /\ sock[e].sendcnt = sock[e].recvcnt /\ sock[e].recvcnt > 0
    /\ unsent = 0 => sock[e].sentcnt = sock[e].sendcnt \/ sock[e].sentcnt = Got(sock[e]) + 1

\* A timer runs for a socket that owes an answer.
Timers ==
  unsent = 0 => \A e \in Ends : sock[e].timer =>
    /\ sock[e].open
    /\ Owes(sock[e], "Snd") \/ (protocol = "udp" /\ Owes(sock[e], "SndRecv"))

TcpSends == protocol = "tcp" => unsent = 0

Place == Asked /\ Owing /\ AnsweredOnce /\ Shut
Pace == Turning /\ Timers /\ TcpSends

LEMMA SaidAreOps == Said \subseteq Ops /\ "Closed" \notin Ops
BY DEF Said, Ops

LEMMA ProtocolIs == TThread => (protocol # "tcp" <=> protocol = "udp")
BY TrafficAssumption DEF TThread

\* A packet or the timer: an answer was owed, and nothing new is.
LEMMA ProgressOwes ==
  ASSUME TypeOK, Pace, NEW e \in Ends, NEW t, NEW rest, NEW f \in BOOLEAN, NEW o,
         Progress(e, t, rest, f, o)
  PROVE  /\ o.reports = <<>> \/ \E op \in Said : o.reports = <<op>> /\ Owes(sock[e], op)
         /\ \A op \in Said : Owes(o.sock, op) => Owes(sock[e], op) /\ o.reports = <<>>
         /\ sock[e].request = "SndRecv" => Got(t) = Got(sock[e]) + 1
<1> DEFINE s == sock[e]
<1>1. TThread /\ TSockets BY TypesAre
<1>2. s \in Good /\ t \in Good BY <1>1 DEF TSockets, Progress, Counted
<1>3. /\ t.request = s.request /\ t.sendcnt = s.sendcnt /\ t.sentcnt = s.sentcnt
      /\ t.recvcnt = s.recvcnt /\ t.effectreq = s.effectreq
  BY DEF Progress, Counted
<1>4. s.request = "SndRecv" => s.recvcnt > 0 BY DEF Pace, Turning
<1>5. protocol = "tcp" /\ s.request = "SndRecv" => ~s.timer
  BY <1>1, ProtocolIs DEF Pace, TcpSends, Timers, Owes
<1>6. /\ s.recvdcnt \in Nat /\ s.regard \in Nat /\ t.recvdcnt \in Nat /\ t.regard \in Nat
      /\ s.recvcnt \in 0 .. MaxCount /\ s.sentcnt \in 0 .. MaxCount /\ s.sendcnt \in 0 .. MaxCount
      /\ o.sock.sentcnt \in 0 .. MaxCount /\ MaxCount \in Nat
  BY <1>2, TrafficAssumption DEF Good, Socks, Progress, ReceiveResult
<1>7. s.request = "SndRecv" => Got(t) = Got(s) + 1
  BY <1>3, <1>4, <1>5, <1>6 DEF Progress, TimerCounted, PacketCounted, Got
<1>8. Got(s) \in Nat /\ Got(t) \in Nat BY <1>6 DEF Got
<1>9. ReceiveResult(t, f, o) BY DEF Progress
<1> HIDE DEF s
<1>10. AllReceived(t) <=> t.recvcnt = Got(t) BY <1>6 DEF AllReceived, Got
<1>11. /\ o.sock.request = s.request /\ o.sock.sendcnt = s.sendcnt /\ o.sock.recvcnt = s.recvcnt
       /\ Got(o.sock) = Got(t) /\ s.sentcnt <= o.sock.sentcnt
  BY <1>3, <1>6, <1>9 DEF ReceiveResult, SendOnly, Got
<1>12. Answered(t) => o.reports = <<"SndRecv">> /\ Owes(s, "SndRecv")
  BY <1>3, <1>4, <1>6, <1>7, <1>8, <1>9, <1>10 DEF Answered, ReceiveResult, Owes
<1>13. EffectDue(t) /\ ~Answered(t) => o.reports = <<"RecvEffect">> /\ Owes(s, "RecvEffect")
  BY <1>3, <1>9 DEF EffectDue, ReceiveResult, Owes
<1>14. ~Answered(t) /\ ~EffectDue(t) =>
         o.reports = <<>> \/ (o.reports = <<"Snd">> /\ Owes(s, "Snd"))
  BY <1>3, <1>6, <1>9 DEF ReceiveResult, SendsOn, Owes
<1>15. o.reports = <<>> \/ \E op \in Said : o.reports = <<op>> /\ Owes(s, op)
  BY <1>12, <1>13, <1>14 DEF Said
<1>16. Owes(o.sock, "Snd") => Owes(s, "Snd") /\ o.reports = <<>>
  BY <1>3, <1>6, <1>9, <1>11 DEF Owes, ReceiveResult, Answered, EffectDue
<1>17. Owes(o.sock, "SndRecv") => Owes(s, "SndRecv") /\ o.reports = <<>>
  <2> HAVE Owes(o.sock, "SndRecv")
  <2>1. s.request = "SndRecv" /\ Got(t) < s.recvcnt BY <1>11 DEF Owes
  <2>2. ~Answered(t) /\ ~EffectDue(t)
    BY <1>3, <1>6, <1>8, <1>10, <2>1 DEF Answered, EffectDue
  <2>3. Got(s) < s.recvcnt BY <1>6, <1>7, <1>8, <2>1
  <2> QED BY <1>3, <1>9, <2>1, <2>2, <2>3 DEF Owes, ReceiveResult
<1>18. Owes(o.sock, "RecvEffect") => Owes(s, "RecvEffect") /\ o.reports = <<>>
  BY <1>3, <1>9, <1>11 DEF Owes, ReceiveResult, Answered, EffectDue
<1> QED BY <1>7, <1>15, <1>16, <1>17, <1>18 DEF Said, s

SilentSeq(q) == \A i \in 1 .. Len(q) : q[i].op = "Closed"
AnsweredSeq(q, e, w) ==
  \A i, j \in 1 .. Len(q) :
    /\ q[i].op # "Closed" => w.end = e /\ w.op = q[i].op
    /\ q[i].op # "Closed" /\ q[j].op # "Closed" => i = j
ShutSeq(q, open) == \A i \in 1 .. Len(q) : q[i].op = "Closed" => ~open

LEMMA SilentAnswers ==
  ASSUME NEW q, SilentSeq(q), NEW e, NEW w PROVE AnsweredSeq(q, e, w)
BY DEF SilentSeq, AnsweredSeq

LEMMA AppendAnswer ==
  ASSUME NEW q \in Seq(Answer), NEW a \in Answer, a.op # "Closed",
         NEW e, NEW w, w.end = e, w.op = a.op, SilentSeq(q), NEW open, ShutSeq(q, open)
  PROVE  AnsweredSeq(Append(q, a), e, w) /\ ShutSeq(Append(q, a), open)
<1> DEFINE p == Append(q, a)
<1>1. /\ Len(p) = Len(q) + 1 /\ Len(q) \in Nat
      /\ \A i \in 1 .. Len(q) : p[i] = q[i]
      /\ p[Len(q) + 1] = a
  BY AppendProperties, LenProperties
<1> HIDE DEF p
<1>2. \A i \in 1 .. Len(p) : i \in 1 .. Len(q) \/ i = Len(q) + 1 BY <1>1
<1>3. \A i \in 1 .. Len(q) : p[i].op = "Closed" /\ ~open BY <1>1 DEF SilentSeq, ShutSeq
<1>4. AnsweredSeq(p, e, w) BY <1>1, <1>2, <1>3 DEF AnsweredSeq
<1>5. ShutSeq(p, open) BY <1>1, <1>2, <1>3 DEF ShutSeq
<1> QED BY <1>4, <1>5 DEF p

LEMMA AppendClosed ==
  ASSUME NEW q \in Seq(Answer), NEW a \in Answer, a.op = "Closed",
         NEW e, NEW w, AnsweredSeq(q, e, w)
  PROVE  /\ AnsweredSeq(Append(q, a), e, w) /\ ShutSeq(Append(q, a), FALSE)
         /\ SilentSeq(q) => SilentSeq(Append(q, a))
<1> DEFINE p == Append(q, a)
<1>1. /\ Len(p) = Len(q) + 1 /\ Len(q) \in Nat
      /\ \A i \in 1 .. Len(q) : p[i] = q[i]
      /\ p[Len(q) + 1] = a
  BY AppendProperties, LenProperties
<1> HIDE DEF p
<1>2. \A i \in 1 .. Len(p) : i \in 1 .. Len(q) \/ i = Len(q) + 1 BY <1>1
<1>4. AnsweredSeq(p, e, w) BY <1>1, <1>2 DEF AnsweredSeq
<1>5. ShutSeq(p, FALSE) BY DEF ShutSeq
<1>6. SilentSeq(q) => SilentSeq(p) BY <1>1, <1>2 DEF SilentSeq
<1> QED BY <1>4, <1>5, <1>6 DEF p

LEMMA TailAnswers ==
  ASSUME NEW q \in Seq(Answer), q # <<>>, NEW e, NEW w, AnsweredSeq(q, e, w),
         NEW open, ShutSeq(q, open)
  PROVE  /\ AnsweredSeq(Tail(q), e, w) /\ ShutSeq(Tail(q), open)
         /\ SilentSeq(q) => SilentSeq(Tail(q))
         /\ Head(q).op # "Closed" => SilentSeq(Tail(q)) /\ w.end = e /\ w.op = Head(q).op
         /\ Head(q).op = "Closed" => ~open
<1> DEFINE p == Tail(q)
<1>1. /\ Len(p) = Len(q) - 1 /\ Len(q) \in Nat /\ Len(q) # 0
      /\ \A i \in 1 .. Len(p) : p[i] = q[i + 1]
      /\ Head(q) = q[1]
  BY HeadTailProperties, LenProperties, EmptySeq
<1> HIDE DEF p
<1>2. 1 \in 1 .. Len(q) BY <1>1
<1>3. \A i \in 1 .. Len(p) : i + 1 \in 1 .. Len(q) /\ i + 1 # 1 /\ i \in Nat BY <1>1
<1>4. AnsweredSeq(p, e, w) BY <1>1, <1>3 DEF AnsweredSeq
<1>5. ShutSeq(p, open) BY <1>1, <1>3 DEF ShutSeq
<1>6. SilentSeq(q) => SilentSeq(p) BY <1>1, <1>3 DEF SilentSeq
<1>7. Head(q).op # "Closed" => SilentSeq(p) /\ w.end = e /\ w.op = Head(q).op
  BY <1>1, <1>2, <1>3 DEF SilentSeq, AnsweredSeq
<1>8. Head(q).op = "Closed" => ~open BY <1>1, <1>2 DEF ShutSeq
<1> QED BY <1>4, <1>5, <1>6, <1>7, <1>8 DEF p

\* A request is in one place, at one end: q is on its way to the agent, p on
\* its way back, and s is the socket.
PlaceOf(e, q, s, p, w) ==
  /\ q # <<>> => /\ Len(q) = 1 /\ w.end = e /\ w.op = q[1].op
                 /\ q[1].count = Statement.count /\ SilentSeq(p)
  /\ \A op \in Said : Owes(s, op) => w.end = e /\ w.op = op /\ q = <<>> /\ SilentSeq(p)
  /\ AnsweredSeq(p, e, w) /\ ShutSeq(p, s.open)

Placed == \A e \in Ends : PlaceOf(e, toAgent[e], sock[e], toManager[e], wait)

LEMMA PlaceIs == Place <=> Placed
BY DEF Placed, Place, Asked, Owing, AnsweredOnce, Shut, Silent, PlaceOf, SilentSeq, AnsweredSeq, ShutSeq

\* A step that leaves the statement where it is.
LEMMA PlaceNext ==
  ASSUME protocol' = protocol, Statement' = Statement
  PROVE  Place' <=> \A e \in Ends : PlaceOf(e, toAgent'[e], sock'[e], toManager'[e], wait')
<1>1. Place' <=> Placed' BY PlaceIs, PTL
<1>2. \A e \in Ends : PlaceOf(e, toAgent[e], sock[e], toManager[e], wait)'
                      <=> PlaceOf(e, toAgent'[e], sock'[e], toManager'[e], wait')
  <2> TAKE e \in Ends
  <2>1. \A op \in Said : Owes(sock[e], op)' <=> Owes(sock'[e], op) BY DEF Owes, Got
  <2>2. SilentSeq(toManager[e])' <=> SilentSeq(toManager'[e]) BY DEF SilentSeq
  <2>3. AnsweredSeq(toManager[e], e, wait)' <=> AnsweredSeq(toManager'[e], e, wait')
    BY DEF AnsweredSeq
  <2>4. ShutSeq(toManager[e], sock[e].open)' <=> ShutSeq(toManager'[e], sock'[e].open)
    BY DEF ShutSeq
  <2> QED BY <2>1, <2>2, <2>3, <2>4 DEF PlaceOf
<1> QED BY <1>1, <1>2 DEF Placed

\* A step of agent e.
LEMMA PlaceAgent ==
  ASSUME Place, UNCHANGED <<protocol, thread>>, NEW e \in Ends, NEW q, NEW s, NEW p,
         toAgent' = [toAgent EXCEPT ![e] = q], sock' = [sock EXCEPT ![e] = s],
         toManager' = [toManager EXCEPT ![e] = p], TChannels, TSockets,
         PlaceOf(e, q, s, p, wait)
  PROVE  Place'
<1>1. protocol' = protocol /\ Statement' = Statement /\ wait' = wait
  BY SameThread DEF thread
<1>2. \A d \in Ends : PlaceOf(d, toAgent'[d], sock'[d], toManager'[d], wait')
  BY PlaceIs, <1>1 DEF Placed, TChannels, TSockets
<1> QED BY <1>1, <1>2, PlaceNext

LEMMA SameEntry ==
  ASSUME NEW S, NEW g \in [Ends -> S], NEW e \in Ends
  PROVE  g = [g EXCEPT ![e] = g[e]]
OBVIOUS

\* What a step reports for which an answer was owed and no longer is.
LEMMA ReportPlace ==
  ASSUME TypeOK, Place, UNCHANGED <<protocol, thread>>, NEW e \in Ends, NEW o, NEW q,
         toAgent' = [toAgent EXCEPT ![e] = q], sock' = [sock EXCEPT ![e] = o.sock],
         Reports(e, o), o.sock.open => sock[e].open,
         o.reports = <<>> =>
           /\ q # <<>> => q = toAgent[e]
           /\ \A op \in Said : Owes(o.sock, op) =>
                wait.end = e /\ wait.op = op /\ q = <<>> /\ Silent(e),
         o.reports # <<>> =>
           /\ q = <<>> /\ Silent(e) /\ wait.end = e /\ wait.op \in Ops
           /\ o.reports = <<wait.op>>
           /\ \A op \in Said : ~Owes(o.sock, op)
  PROVE  Place'
<1>1. TChannels /\ TSockets /\ PlaceOf(e, toAgent[e], sock[e], toManager[e], wait)
  BY TypesAre, PlaceIs DEF Placed
<1>2. toManager \in [Ends -> Seq(Answer)] BY <1>1 DEF TChannels
<1>3. Silent(e) <=> SilentSeq(toManager[e]) BY DEF Silent, SilentSeq
<1>4. CASE o.reports = <<>>
  <2>1. toManager' = [toManager EXCEPT ![e] = toManager[e]]
    BY <1>2, <1>4, SameEntry DEF Reports
  <2>2. PlaceOf(e, q, o.sock, toManager[e], wait)
    BY <1>1, <1>3, <1>4 DEF PlaceOf, ShutSeq
  <2> QED BY <1>1, <2>1, <2>2, PlaceAgent
<1>5. CASE o.reports # <<>>
  <2> DEFINE a == [op |-> wait.op, ok |-> TRUE]
  <2>1. wait.op \in Ops BY <1>5
  <2>2. a \in Answer /\ a.op = wait.op /\ a.op # "Closed"
    BY <2>1, SaidAreOps DEF Answer
  <2>3. toManager' = [toManager EXCEPT ![e] = Append(toManager[e], a)]
    BY <1>2, <1>5, <2>1 DEF Reports
  <2> HIDE DEF a
  <2>4. SilentSeq(toManager[e]) /\ ShutSeq(toManager[e], o.sock.open)
    BY <1>1, <1>3, <1>5 DEF PlaceOf, ShutSeq
  <2>5. AnsweredSeq(Append(toManager[e], a), e, wait)
        /\ ShutSeq(Append(toManager[e], a), o.sock.open)
    BY <1>2, <1>5, <2>2, <2>4, AppendAnswer
  <2>6. PlaceOf(e, q, o.sock, Append(toManager[e], a), wait)
    BY <1>5, <2>5 DEF PlaceOf
  <2> QED BY <1>1, <2>3, <2>6, PlaceAgent
<1> QED BY <1>4, <1>5

LEMMA ProgressPlace ==
  ASSUME TypeOK, Place, Pace, NEW e \in Ends, NEW t, NEW rest, NEW f \in BOOLEAN, NEW o,
         Progress(e, t, rest, f, o)
  PROVE  Place'
<1>1. TChannels BY TypesAre
<1>2. toAgent' = [toAgent EXCEPT ![e] = toAgent[e]]
  BY <1>1, SameEntry DEF Progress, TChannels
<1>3. UNCHANGED <<protocol, thread>> /\ sock' = [sock EXCEPT ![e] = o.sock] /\ Reports(e, o)
      /\ o.sock.open = sock[e].open
  BY DEF Progress, ReceiveResult, SendOnly, Counted
<1>4. /\ o.reports = <<>> \/ \E op \in Said : o.reports = <<op>> /\ Owes(sock[e], op)
      /\ \A op \in Said : Owes(o.sock, op) => Owes(sock[e], op) /\ o.reports = <<>>
  BY ProgressOwes
<1>5. \A op \in Said : Owes(sock[e], op) =>
        wait.end = e /\ wait.op = op /\ toAgent[e] = <<>> /\ Silent(e)
  BY DEF Place, Owing
<1> QED BY <1>2, <1>3, <1>4, <1>5, SaidAreOps, ReportPlace

LEMMA EndedPlace ==
  ASSUME TypeOK, Place, NEW e \in Ends, Ended(e) PROVE Place'
<1>1. TChannels /\ TSockets /\ PlaceOf(e, toAgent[e], sock[e], toManager[e], wait)
  BY TypesAre, PlaceIs DEF Placed
<1> DEFINE s == [sock[e] EXCEPT !.open = FALSE, !.timer = FALSE]
           a == [op |-> "Closed", ok |-> TRUE]
<1>2. UNCHANGED <<protocol, thread>> BY DEF Ended
<1>3. toAgent' = [toAgent EXCEPT ![e] = toAgent[e]]
  BY <1>1, SameEntry DEF Ended, TChannels
<1>4. sock' = [sock EXCEPT ![e] = s] BY <1>1 DEF Ended, TSockets
<1>5. a \in Answer /\ a.op = "Closed" BY DEF Answer
<1>6. toManager' = [toManager EXCEPT ![e] = Append(toManager[e], a)]
  BY <1>1 DEF Ended, TChannels
<1>7. sock[e] \in Good BY <1>1 DEF TSockets
<1>8. s.open = FALSE /\ \A op \in Said : Owes(s, op) <=> Owes(sock[e], op)
  BY <1>7 DEF Owes, Got, Good, Socks
<1> HIDE DEF s, a
<1>9. toManager[e] \in Seq(Answer) BY <1>1 DEF TChannels
<1>10. /\ AnsweredSeq(Append(toManager[e], a), e, wait) /\ ShutSeq(Append(toManager[e], a), s.open)
       /\ SilentSeq(toManager[e]) => SilentSeq(Append(toManager[e], a))
  BY <1>1, <1>5, <1>8, <1>9, AppendClosed DEF PlaceOf
<1>11. PlaceOf(e, toAgent[e], s, Append(toManager[e], a), wait)
  BY <1>1, <1>8, <1>10 DEF PlaceOf
<1> QED BY <1>1, <1>2, <1>3, <1>4, <1>6, <1>11, PlaceAgent

LEMMA LossPlace ==
  ASSUME Place, NEW e \in Ends, Lose(e) \/ Repeat(e) PROVE Place'
<1>1. UNCHANGED <<protocol, thread, toAgent, toManager, sock>> BY DEF Lose, Repeat
<1>2. protocol' = protocol /\ Statement' = Statement /\ wait' = wait
  BY <1>1, SameThread DEF thread
<1> QED BY <1>1, <1>2, PlaceIs, PlaceNext DEF Placed

\* The request that an agent takes is all there is.
LEMMA TakenIs ==
  ASSUME TypeOK, Place, NEW e \in Ends, NEW r, Serves(e, r)
  PROVE  /\ Tail(toAgent[e]) = <<>> /\ wait.end = e /\ wait.op = r.op /\ r.op \in Ops
         /\ r.count = Statement.count /\ Silent(e)
         /\ \A op \in Said : ~Owes(sock[e], op)
<1>1. toAgent[e] \in Seq(Request) BY TypesAre DEF TChannels
<1>2. toAgent[e] # <<>> /\ r = Head(toAgent[e]) /\ r.op \in Ops BY DEF Serves, Request
<1>3. /\ Len(toAgent[e]) = 1 /\ wait.end = e /\ wait.op = toAgent[e][1].op
      /\ toAgent[e][1].count = Statement.count /\ Silent(e)
  BY <1>2 DEF Place, Asked
<1>4. Tail(toAgent[e]) \in Seq(Request) /\ Len(Tail(toAgent[e])) = 0
  BY <1>1, <1>2, <1>3, HeadTailProperties
<1>5. Tail(toAgent[e]) = <<>> BY <1>4, EmptySeq
<1>6. Head(toAgent[e]) = toAgent[e][1] BY <1>1, <1>2
<1>7. \A op \in Said : ~Owes(sock[e], op) BY <1>2 DEF Place, Owing
<1> QED BY <1>2, <1>3, <1>5, <1>6, <1>7

\* What a request leaves owed is its own answer.
LEMMA ServedOwes ==
  ASSUME NEW e \in Ends, NEW r \in Request, NEW o, Accepted(e, r, o), sock[e] \in Good,
         \A op \in Said : ~Owes(sock[e], op),
         ServedRecv(e, r, o) \/ ServedEffect(e, r, o) \/ ServedClose(e, r, o)
           \/ \E f \in BOOLEAN : ServedSend(e, r, f, o)
  PROVE  \A op \in Said : Owes(o.sock, op) => op = r.op /\ o.reports = <<>>
<1> TAKE op \in Said
<1> DEFINE s == sock[e]
           k == o.sock
<1>1. s \in Good /\ k \in Good BY DEF Accepted
<1> HIDE DEF s, k
<1>2. op \in {"Snd", "SndRecv", "RecvEffect"} BY DEF Said
<1>3. ~Owes(s, op) BY DEF s
<1>4. CASE ServedRecv(e, r, o)
  <2>1. k.request \in {"Recv", "RecvSnd"} /\ ~k.effectreq BY <1>4 DEF ServedRecv, k
  <2> QED BY <2>1 DEF Owes, k
<1>5. CASE ServedEffect(e, r, o)
  <2>1. /\ r.op = "RecvEffect" /\ SendOnly(s, k) /\ k.sentcnt = s.sentcnt
        /\ k.effectreq => o.reports = <<>>
    BY <1>5 DEF ServedEffect, s, k
  <2> QED BY <1>2, <1>3, <2>1 DEF Owes, SendOnly, Got, k
<1>6. CASE ServedClose(e, r, o)
  <2>1. k = [s EXCEPT !.open = FALSE] BY <1>6 DEF ServedClose, s, k
  <2>2. Owes(k, op) <=> Owes(s, op) BY <1>1, <2>1 DEF Owes, Got, Good, Socks
  <2> QED BY <1>3, <2>2 DEF k
<1>7. ASSUME NEW f \in BOOLEAN, ServedSend(e, r, f, o)
      PROVE  Owes(o.sock, op) => op = r.op /\ o.reports = <<>>
  <2> DEFINE q == Renewed(s, r.op, r.count)
  <2>1. r.op \in {"Snd", "SndRecv"} /\ SendResult(q, f, o)
    BY <1>7 DEF ServedSend, s
  <2>2. r.op \in Ops /\ r.count \in 0 .. MaxCount BY TrafficAssumption DEF Request
  <2>3. q \in Good /\ q.request = r.op /\ q.sendcnt = r.count
    BY <1>1, <2>2, RenewedResult
  <2> HIDE DEF q
  <2>4. k.request = r.op /\ k.sendcnt = q.sendcnt
        /\ (o.reports # <<>> => r.op = "Snd" /\ k.sentcnt = k.sendcnt)
    BY <2>1, <2>3 DEF SendResult, SendOnly, k
  <2>5. Owes(k, op) => op = r.op BY <1>2, <2>1, <2>4 DEF Owes
  <2>6. k.sentcnt = k.sendcnt => ~(k.sentcnt < k.sendcnt)
    BY <1>1, TrafficAssumption DEF Good, Socks
  <2>7. Owes(k, op) /\ o.reports # <<>> => FALSE
    BY <1>2, <2>1, <2>4, <2>5, <2>6 DEF Owes
  <2> QED BY <2>5, <2>7 DEF k
<1> QED BY <1>4, <1>5, <1>6, <1>7

LEMMA ServePlace ==
  ASSUME TypeOK, Place, NEW e \in Ends, NEW r, Serves(e, r) PROVE Place'
<1>1. TChannels /\ TSockets /\ PlaceOf(e, toAgent[e], sock[e], toManager[e], wait)
  BY TypesAre, PlaceIs DEF Placed
<1>2. /\ Tail(toAgent[e]) = <<>> /\ wait.end = e /\ wait.op = r.op /\ r.op \in Ops
      /\ Silent(e)
      /\ \A op \in Said : ~Owes(sock[e], op)
  BY TakenIs
<1>3. toAgent' = [toAgent EXCEPT ![e] = <<>>] /\ UNCHANGED <<protocol, thread>>
      /\ r \in Request
  BY <1>2 DEF Serves
<1>4. CASE Refused(e, r)
  <2> DEFINE a == [op |-> r.op, ok |-> FALSE]
  <2>1. a \in Answer /\ a.op = r.op /\ a.op # "Closed" BY <1>2, SaidAreOps DEF Answer
  <2>2. toManager' = [toManager EXCEPT ![e] = Append(toManager[e], a)]
    BY <1>1, <1>4 DEF Refused, TChannels
  <2>3. sock' = [sock EXCEPT ![e] = sock[e]]
    BY <1>1, <1>4, SameEntry DEF Refused, TSockets
  <2> HIDE DEF a
  <2>4. toManager[e] \in Seq(Answer) /\ SilentSeq(toManager[e])
    BY <1>1, <1>2 DEF TChannels, Silent, SilentSeq
  <2>5. AnsweredSeq(Append(toManager[e], a), e, wait)
        /\ ShutSeq(Append(toManager[e], a), sock[e].open)
    BY <1>1, <1>2, <2>1, <2>4, AppendAnswer DEF PlaceOf
  <2>6. PlaceOf(e, <<>>, sock[e], Append(toManager[e], a), wait)
    BY <1>2, <2>5 DEF PlaceOf
  <2> QED BY <1>1, <1>3, <2>2, <2>3, <2>6, PlaceAgent
<1>5. ASSUME NEW o, Accepted(e, r, o),
             ServedRecv(e, r, o) \/ ServedEffect(e, r, o) \/ ServedClose(e, r, o)
               \/ \E f \in BOOLEAN : ServedSend(e, r, f, o)
      PROVE  Place'
  <2>1. \A op \in Said : Owes(o.sock, op) => op = r.op /\ o.reports = <<>>
    <3>1. sock[e] \in Good BY <1>1 DEF TSockets
    <3> QED BY <1>2, <1>3, <1>5, <3>1, ServedOwes
  <2>2. sock[e].open /\ sock' = [sock EXCEPT ![e] = o.sock] /\ Reports(e, o)
        /\ (o.reports # <<>> => o.reports = <<wait.op>>)
    BY <1>2, <1>5 DEF Accepted
  <2> QED BY <1>2, <1>3, <2>1, <2>2, ReportPlace
<1> QED BY <1>4, <1>5 DEF Serves

\* While velm waits for nothing, nothing is asked, owed or answered.
LEMMA NothingWaits ==
  ASSUME TypeOK, Place, wait = None, NEW e \in Ends
  PROVE  toAgent[e] = <<>> /\ Silent(e) /\ \A op \in Said : ~Owes(sock[e], op)
<1>1. toAgent[e] \in Seq(Request) /\ toManager[e] \in Seq(Answer) BY TypesAre DEF TChannels
<1>2. wait.op \notin Ops BY NoneIsNoAction
<1>3. toAgent[e] = <<>>
  <2>1. SUFFICES ASSUME toAgent[e] # <<>> PROVE FALSE OBVIOUS
  <2>2. Len(toAgent[e]) = 1 /\ wait.op = toAgent[e][1].op BY <2>1 DEF Place, Asked
  <2>3. toAgent[e][1] \in Request BY <1>1, <2>2, LenProperties
  <2> QED BY <1>2, <2>2, <2>3 DEF Request
<1>4. Silent(e)
  <2>1. \A i \in 1 .. Len(toManager[e]) :
          toManager[e][i].op # "Closed" => wait.op = toManager[e][i].op
    BY DEF Place, AnsweredOnce
  <2>2. \A i \in 1 .. Len(toManager[e]) : toManager[e][i].op \in Ops \union {"Closed"}
    <3>1. \A i \in 1 .. Len(toManager[e]) : toManager[e][i] \in Answer
      BY <1>1, LenProperties
    <3> QED BY <3>1 DEF Answer
  <2> QED BY <1>2, <2>1, <2>2 DEF Silent
<1>5. \A op \in Said : ~Owes(sock[e], op)
  BY <1>2, SaidAreOps DEF Place, Owing
<1> QED BY <1>3, <1>4, <1>5

LEMMA NextStatementPlace ==
  ASSUME TypeOK, Place, NextStatement PROVE Place'
<1>1. UNCHANGED <<protocol, wait, toAgent, toManager, sock>> /\ wait = None
  BY DEF NextStatement
<1>2. \A e \in Ends : toAgent[e] = <<>> BY <1>1, NothingWaits
<1>3. Asked' BY <1>1, <1>2 DEF Asked
<1>4. Owing'
  <2>1. \A e \in Ends, op \in Said : Owes(sock[e], op)' <=> Owes(sock[e], op)
    BY <1>1 DEF Owes, Got
  <2>2. \A e \in Ends : Silent(e)' <=> Silent(e) BY <1>1 DEF Silent
  <2> QED BY <1>1, <2>1, <2>2 DEF Place, Owing
<1>5. AnsweredOnce' /\ Shut' BY <1>1 DEF Place, AnsweredOnce, Shut
<1> QED BY <1>3, <1>4, <1>5 DEF Place

LEMMA DoStepPlace ==
  ASSUME TypeOK, Place, NEW r, Does(r) PROVE Place'
<1>1. TThread /\ TChannels /\ \A e \in Ends : PlaceOf(e, toAgent[e], sock[e], toManager[e], wait)
  BY TypesAre, PlaceIs DEF Placed
<1>2. UNCHANGED <<protocol, toManager, sock>> /\ Statement' = Statement /\ wait = None
      /\ r.end \in Ends /\ r.op \in Ops
  BY DEF Does, Statement, Actions
<1>3. CASE Skipped(r) \/ Aborts(r)
  BY <1>1, <1>2, <1>3, PlaceNext DEF Skipped, Aborts
<1>4. CASE Requested(r)
  <2> DEFINE a == [op |-> r.op, count |-> Statement.count]
  <2>1. a \in Request /\ a.op = r.op /\ a.count = Statement.count
    BY <1>1, <1>2, StatementType DEF Request, Does
  <2>2. toAgent[r.end] = <<>> BY <1>2, NothingWaits
  <2>3. wait' = r /\ toAgent' = [toAgent EXCEPT ![r.end] = Append(<<>>, a)]
    BY <1>4, <2>2 DEF Requested
  <2> HIDE DEF a
  <2>4. Append(<<>>, a) # <<>> /\ Len(Append(<<>>, a)) = 1 /\ Append(<<>>, a)[1] = a
    <3>1. <<>> \in Seq(Request) /\ Len(<<>>) = 0 BY EmptySeq
    <3> QED BY <2>1, <3>1, AppendProperties
  <2>5. \A d \in Ends : PlaceOf(d, toAgent'[d], sock[d], toManager[d], r)
    <3> TAKE d \in Ends
    <3>1. toAgent[d] = <<>> /\ SilentSeq(toManager[d]) /\ \A op \in Said : ~Owes(sock[d], op)
      BY <1>2, NothingWaits DEF Silent, SilentSeq
    <3>2. AnsweredSeq(toManager[d], d, r) /\ ShutSeq(toManager[d], sock[d].open)
      BY <1>1, <3>1, SilentAnswers DEF PlaceOf
    <3>3. CASE d = r.end
      <4>1. toAgent'[d] = Append(<<>>, a) BY <1>1, <2>3, <3>3 DEF TChannels
      <4> QED BY <2>1, <2>4, <3>1, <3>2, <3>3, <4>1 DEF PlaceOf
    <3>4. CASE d # r.end
      <4>1. toAgent'[d] = <<>> BY <1>1, <2>3, <3>1, <3>4 DEF TChannels
      <4> QED BY <3>1, <3>2, <4>1 DEF PlaceOf
    <3> QED BY <3>3, <3>4
  <2> QED BY <1>2, <2>3, <2>5, PlaceNext
<1> QED BY <1>3, <1>4 DEF Does

LEMMA HearPlace ==
  ASSUME TypeOK, Place, NEW e \in Ends, NEW a, Hears(e, a) PROVE Place'
<1>1. TChannels /\ \A d \in Ends : PlaceOf(d, toAgent[d], sock[d], toManager[d], wait)
  BY TypesAre, PlaceIs DEF Placed
<1>2. UNCHANGED <<protocol, toAgent, sock>> /\ Statement' = Statement
      /\ toManager' = [toManager EXCEPT ![e] = Tail(toManager[e])]
      /\ toManager[e] # <<>> /\ a = Head(toManager[e])
  BY DEF Hears, Statement
<1>3. toManager[e] \in Seq(Answer) BY <1>1 DEF TChannels
<1>4. AnsweredSeq(toManager[e], e, wait) /\ ShutSeq(toManager[e], sock[e].open)
  BY <1>1 DEF PlaceOf
<1>5. /\ AnsweredSeq(Tail(toManager[e]), e, wait) /\ ShutSeq(Tail(toManager[e]), sock[e].open)
      /\ SilentSeq(toManager[e]) => SilentSeq(Tail(toManager[e]))
      /\ a.op # "Closed" => SilentSeq(Tail(toManager[e]))
  BY <1>2, <1>3, <1>4, TailAnswers
<1>6. \A d \in Ends : toManager'[d] = IF d = e THEN Tail(toManager[e]) ELSE toManager[d]
  BY <1>1, <1>2 DEF TChannels
<1>7. CASE HeardClosed(e, a) \/ HeardStray(e, a)
  <2>1. wait' = wait BY <1>7 DEF HeardClosed, HeardStray
  <2>2. \A d \in Ends : PlaceOf(d, toAgent[d], sock[d], toManager'[d], wait)
    BY <1>1, <1>5, <1>6 DEF PlaceOf
  <2> QED BY <1>2, <2>1, <2>2, PlaceNext
<1>8. CASE HeardAnswer(e, a)
  <2>1. a.op # "Closed" /\ wait.end = e /\ wait.op = a.op /\ wait' = None
    BY <1>8 DEF HeardAnswer
  <2>2. ~SilentSeq(toManager[e])
    <3>1. a = toManager[e][1] /\ 1 \in 1 .. Len(toManager[e])
      BY <1>2, <1>3, LenProperties, EmptySeq
    <3> QED BY <2>1, <3>1 DEF SilentSeq
  <2>3. \A d \in Ends : /\ toAgent[d] = <<>> /\ SilentSeq(toManager'[d])
                        /\ \A op \in Said : ~Owes(sock[d], op)
                        /\ ShutSeq(toManager'[d], sock[d].open)
    <3> TAKE d \in Ends
    <3>1. CASE d = e BY <1>1, <1>5, <1>6, <2>1, <2>2, <3>1 DEF PlaceOf
    <3>2. CASE d # e
      <4>1. SilentSeq(toManager[d]) BY <1>1, <2>1, <3>2 DEF PlaceOf, AnsweredSeq, SilentSeq
      <4> QED BY <1>1, <1>6, <2>1, <3>2, <4>1 DEF PlaceOf
    <3> QED BY <3>1, <3>2
  <2>4. \A d \in Ends : PlaceOf(d, toAgent[d], sock[d], toManager'[d], None)
    BY <2>3, SilentAnswers DEF PlaceOf
  <2> QED BY <1>2, <2>1, <2>4, PlaceNext
<1> QED BY <1>7, <1>8 DEF Hears

----------------------------------------------------------------------------
(* The pace of a transfer *)

PaceOf(s, u) ==
  /\ s.request = "SndRecv" =>
       /\ s.sendcnt = s.recvcnt /\ s.recvcnt > 0
       /\ u = 0 => s.sentcnt = s.sendcnt \/ s.sentcnt = Got(s) + 1
  /\ u = 0 /\ s.timer => /\ s.open
                         /\ Owes(s, "Snd") \/ (protocol = "udp" /\ Owes(s, "SndRecv"))

Paced == \A e \in Ends : PaceOf(sock[e], unsent)

LEMMA PaceIs == Pace <=> Paced /\ TcpSends
BY DEF Pace, Paced, PaceOf, Turning, Timers

LEMMA PaceNext ==
  ASSUME protocol' = protocol
  PROVE  Pace' <=> (\A e \in Ends : PaceOf(sock'[e], unsent')) /\ TcpSends'
<1>1. Pace' <=> Paced' /\ TcpSends' BY PaceIs, PTL
<1>2. \A e \in Ends : PaceOf(sock[e], unsent)' <=> PaceOf(sock'[e], unsent')
  BY DEF PaceOf, Owes, Got
<1> QED BY <1>1, <1>2 DEF Paced

LEMMA PaceAgent ==
  ASSUME Pace, TSockets, protocol' = protocol, NEW e \in Ends, NEW s,
         sock' = [sock EXCEPT ![e] = s], unsent' = 0 => unsent = 0,
         protocol = "tcp" => unsent' = unsent, PaceOf(s, unsent')
  PROVE  Pace'
<1>1. \A d \in Ends : PaceOf(sock[d], unsent) BY PaceIs DEF Paced
<1>2. \A d \in Ends : PaceOf(sock'[d], unsent')
  <2> TAKE d \in Ends
  <2>1. CASE d = e BY <2>1 DEF TSockets
  <2>2. CASE d # e
    <3>1. sock'[d] = sock[d] BY <2>2 DEF TSockets
    <3> QED BY <1>1, <3>1 DEF PaceOf
  <2> QED BY <2>1, <2>2
<1>3. TcpSends' BY PaceIs DEF TcpSends
<1> QED BY <1>2, <1>3, PaceNext

LEMMA PaceSame ==
  ASSUME Pace, UNCHANGED <<protocol, sock, unsent>> PROVE Pace'
<1>1. TcpSends' BY PaceIs DEF TcpSends
<1> QED BY <1>1, PaceIs, PaceNext DEF Paced

LEMMA Counters ==
  ASSUME NEW s \in Good
  PROVE  /\ Got(s) \in Nat /\ s.sentcnt \in Nat /\ s.sendcnt \in Nat
         /\ s.recvcnt \in Nat /\ s.sentcnt <= s.sendcnt
<1>1. MaxCount \in Nat BY TrafficAssumption
<1>2. s.recvdcnt \in Nat /\ s.regard \in Nat BY DEF Good, Socks
<1>3. Got(s) \in Nat BY <1>2 DEF Got
<1> QED BY <1>1, <1>3 DEF Good, Socks

LEMMA ProgressPace ==
  ASSUME TypeOK, Pace, NEW e \in Ends, NEW t, NEW rest, NEW f \in BOOLEAN, NEW o,
         Progress(e, t, rest, f, o)
  PROVE  Pace'
<1> DEFINE s == sock[e]
           k == o.sock
<1>1. TThread /\ TSockets BY TypesAre
<1>2. s \in Good /\ t \in Good /\ k \in Good
  BY <1>1 DEF TSockets, Progress, Counted, ReceiveResult
<1>3. /\ t.request = s.request /\ t.sendcnt = s.sendcnt /\ t.sentcnt = s.sentcnt
      /\ t.recvcnt = s.recvcnt /\ t.open = s.open
  BY DEF Progress, Counted
<1>4. PaceOf(s, unsent) BY PaceIs DEF Paced
<1>5. s.request = "SndRecv" => Got(t) = Got(s) + 1 BY ProgressOwes
<1>6. s.timer \/ s.open BY DEF Progress, TimerCounted, PacketCounted
<1>7. /\ protocol' = protocol /\ sock' = [sock EXCEPT ![e] = k]
      /\ protocol = "tcp" => unsent' = unsent
      /\ unsent' = 0 => /\ unsent = 0
                        /\ SendsOn(t) /\ t.request \in {"SndRecv", "Snd", "RecvSnd"} => o.sent
  BY DEF Progress
<1>8. /\ SendOnly(t, k) /\ o.sent \in BOOLEAN
      /\ k.sentcnt = IF o.sent THEN t.sentcnt + 1 ELSE t.sentcnt
      /\ o.sent => SendsOn(t)
      /\ k.timer => /\ SendsOn(t)
                    /\ \/ t.request = "Snd" /\ k.sentcnt < t.sendcnt
                       \/ Timed(t)
  BY DEF Progress, ReceiveResult
<1> HIDE DEF s, k
<1>9. /\ k.request = s.request /\ k.sendcnt = s.sendcnt /\ k.recvcnt = s.recvcnt
      /\ k.open = s.open /\ Got(k) = Got(t)
  BY <1>3, <1>8 DEF SendOnly, Got
<1>10. /\ Got(s) \in Nat /\ Got(t) \in Nat /\ s.sentcnt \in Nat /\ s.sendcnt \in Nat
       /\ s.recvcnt \in Nat /\ s.sentcnt <= s.sendcnt
  BY <1>2, Counters
<1>11. s.request = "SndRecv" => (SendsOn(t) <=> s.sentcnt < s.sendcnt /\ s.sentcnt <= Got(t))
  BY <1>3, <1>10 DEF SendsOn, Got
<1>12. s.request = "SndRecv" =>
         /\ k.sendcnt = k.recvcnt /\ k.recvcnt > 0
         /\ unsent' = 0 => k.sentcnt = k.sendcnt \/ k.sentcnt = Got(k) + 1
  <2>1. SUFFICES ASSUME s.request = "SndRecv", unsent' = 0
                 PROVE  k.sentcnt = k.sendcnt \/ k.sentcnt = Got(k) + 1
    BY <1>4, <1>9 DEF PaceOf
  <2>2. s.sentcnt = s.sendcnt \/ s.sentcnt = Got(t)
    BY <1>4, <1>5, <1>7, <2>1 DEF PaceOf
  <2>3. s.sentcnt < s.sendcnt /\ s.sentcnt = Got(t) => o.sent
    BY <1>3, <1>7, <1>10, <1>11, <2>1
  <2>4. s.sentcnt = s.sendcnt => ~o.sent BY <1>8, <1>10, <1>11, <2>1
  <2> QED BY <1>3, <1>8, <1>9, <1>10, <2>2, <2>3, <2>4
<1>13. unsent' = 0 /\ k.timer =>
         /\ k.open
         /\ Owes(k, "Snd") \/ (protocol = "udp" /\ Owes(k, "SndRecv"))
  <2>1. SUFFICES ASSUME unsent' = 0, k.timer
                 PROVE  k.open /\ (Owes(k, "Snd") \/ (protocol = "udp" /\ Owes(k, "SndRecv")))
    OBVIOUS
  <2>2. k.open BY <1>4, <1>6, <1>7, <1>9, <2>1 DEF PaceOf
  <2>3. CASE t.request = "Snd" /\ k.sentcnt < t.sendcnt
    BY <1>3, <1>9, <2>2, <2>3 DEF Owes
  <2>4. CASE Timed(t)
    <3>1. s.request = "SndRecv" /\ protocol = "udp" BY <1>3, <2>4 DEF Timed
    <3>2. s.sentcnt < s.sendcnt BY <1>8, <1>11, <2>1, <3>1
    <3>3. s.sentcnt = Got(t) /\ s.sendcnt = s.recvcnt
      BY <1>4, <1>5, <1>7, <1>10, <2>1, <3>1, <3>2 DEF PaceOf
    <3> QED BY <1>9, <2>2, <3>1, <3>2, <3>3 DEF Owes
  <2> QED BY <1>8, <2>1, <2>3, <2>4
<1>14. PaceOf(k, unsent') BY <1>9, <1>12, <1>13 DEF PaceOf
<1> QED BY <1>1, <1>7, <1>14, PaceAgent

LEMMA EndedPace ==
  ASSUME TypeOK, Pace, NEW e \in Ends, Ended(e) PROVE Pace'
<1> DEFINE s == [sock[e] EXCEPT !.open = FALSE, !.timer = FALSE]
<1>1. TSockets /\ sock[e] \in Good BY TypesAre DEF TSockets
<1>2. sock' = [sock EXCEPT ![e] = s] /\ protocol' = protocol /\ unsent' = unsent
  BY <1>1 DEF Ended, TSockets
<1>3. PaceOf(sock[e], unsent) BY PaceIs DEF Paced
<1>4. PaceOf(s, unsent) BY <1>1, <1>3 DEF PaceOf, Good, Socks, Got
<1> HIDE DEF s
<1> QED BY <1>1, <1>2, <1>4, PaceAgent

LEMMA ServePace ==
  ASSUME TypeOK, Place, Pace, NEW e \in Ends, NEW r, Serves(e, r) PROVE Pace'
<1> DEFINE s == sock[e]
<1>1. TThread /\ TSockets /\ s \in Good BY TypesAre DEF TSockets
<1>2. /\ r.op \in Ops /\ r \in Request /\ protocol' = protocol
      /\ \A op \in Said : ~Owes(s, op)
  BY TakenIs DEF Serves
<1>3. PaceOf(s, unsent) BY PaceIs DEF Paced
<1>4. unsent = 0 => ~s.timer BY <1>2, <1>3 DEF PaceOf, Said
<1>5. CASE Refused(e, r)
  <2>1. UNCHANGED <<sock, unsent>> BY <1>5 DEF Refused
  <2> QED BY <1>2, <2>1, PaceSame
<1>6. ASSUME NEW o, Accepted(e, r, o), ServedRecv(e, r, o) \/ ServedEffect(e, r, o)
                                       \/ ServedClose(e, r, o)
      PROVE  Pace'
  <2> DEFINE k == o.sock
  <2>1. k \in Good /\ sock' = [sock EXCEPT ![e] = k] /\ unsent' = unsent
    BY <1>6 DEF Accepted, ServedRecv, ServedEffect, ServedClose
  <2>2. k.timer = s.timer
    BY <1>1, <1>6 DEF ServedRecv, ServedEffect, ServedClose, Good, Socks
  <2>3. \/ k.request # "SndRecv"
        \/ /\ k.request = s.request /\ k.sendcnt = s.sendcnt /\ k.recvcnt = s.recvcnt
           /\ k.sentcnt = s.sentcnt /\ Got(k) = Got(s)
    <3>1. CASE ServedRecv(e, r, o) BY <3>1 DEF ServedRecv
    <3>2. CASE ServedEffect(e, r, o) BY <3>2 DEF ServedEffect, SendOnly, Got
    <3>3. CASE ServedClose(e, r, o)
      <4>1. k = [s EXCEPT !.open = FALSE] BY <3>3 DEF ServedClose
      <4> HIDE DEF k, s
      <4> QED BY <1>1, <4>1 DEF Got, Good, Socks
    <3> QED BY <1>6, <3>1, <3>2, <3>3
  <2> HIDE DEF k, s
  <2>4. PaceOf(k, unsent') BY <1>3, <1>4, <2>1, <2>2, <2>3 DEF PaceOf
  <2> QED BY <1>1, <1>2, <2>1, <2>4, PaceAgent
<1>7. ASSUME NEW o, NEW f \in BOOLEAN, Accepted(e, r, o), ServedSend(e, r, f, o) PROVE Pace'
  <2> DEFINE k == o.sock
             q == Renewed(s, r.op, r.count)
  <2>1. r.count \in 0 .. MaxCount /\ r.count > 0 BY <1>2, TrafficAssumption DEF Request
  <2>2. /\ q \in Good /\ q.request = r.op /\ q.sentcnt = 0 /\ q.sendcnt = r.count
        /\ q.recvdcnt = 0 /\ q.regard = 0 /\ q.open = s.open
        /\ r.op = "SndRecv" => q.recvcnt = r.count
    BY <1>1, <1>2, <2>1, RenewedResult
  <2>3. r.op \in {"Snd", "SndRecv"} /\ SendResult(q, f, o) BY <1>7 DEF ServedSend
  <2>4. /\ protocol = "tcp" => unsent' = unsent
        /\ unsent' = 0 => unsent = 0 /\ o.sent
    BY <1>7 DEF ServedSend
  <2>5. s.open /\ sock' = [sock EXCEPT ![e] = k] BY <1>7 DEF Accepted
  <2> HIDE DEF k, q, s
  <2>6. Got(q) = 0 BY <2>2 DEF Got
  <2>7. /\ k.open /\ k.request = r.op /\ k.sendcnt = r.count /\ Got(k) = 0
        /\ r.op = "SndRecv" => k.recvcnt = r.count
        /\ o.sent => k.sentcnt = 1
        /\ k.timer => (r.op = "Snd" /\ k.sentcnt < k.sendcnt) \/ Timed(q)
    BY <2>2, <2>3, <2>5, <2>6 DEF SendResult, SendOnly, Got, k
  <2>8. unsent' = 0 /\ k.timer => Owes(k, "Snd") \/ (protocol = "udp" /\ Owes(k, "SndRecv"))
    BY <2>1, <2>2, <2>7 DEF Owes, Timed
  <2>9. PaceOf(k, unsent') BY <2>1, <2>4, <2>7, <2>8 DEF PaceOf
  <2> QED BY <1>1, <1>2, <2>4, <2>5, <2>9, PaceAgent
<1> QED BY <1>5, <1>6, <1>7 DEF Serves

----------------------------------------------------------------------------
(* The connection of a transfer *)

NoClosed(q) == \A i \in 1 .. Len(q) : q[i].op # "Closed"

LEMMA NoClosedAppend ==
  ASSUME NEW q \in Seq(Answer), NEW a \in Answer, a.op # "Closed", NoClosed(q)
  PROVE  NoClosed(Append(q, a))
<1> DEFINE p == Append(q, a)
<1>1. /\ Len(p) = Len(q) + 1 /\ Len(q) \in Nat
      /\ \A i \in 1 .. Len(q) : p[i] = q[i]
      /\ p[Len(q) + 1] = a
  BY AppendProperties, LenProperties
<1> HIDE DEF p
<1>2. \A i \in 1 .. Len(p) : i \in 1 .. Len(q) \/ i = Len(q) + 1 BY <1>1
<1>3. NoClosed(p) BY <1>1, <1>2 DEF NoClosed
<1> QED BY <1>3 DEF p

LEMMA NoClosedTail ==
  ASSUME NEW q \in Seq(Answer), q # <<>>, NoClosed(q)
  PROVE  NoClosed(Tail(q)) /\ Head(q).op # "Closed"
<1> DEFINE p == Tail(q)
<1>1. /\ Len(p) = Len(q) - 1 /\ Len(q) \in Nat /\ Len(q) # 0
      /\ \A i \in 1 .. Len(p) : p[i] = q[i + 1]
      /\ Head(q) = q[1]
  BY HeadTailProperties, LenProperties, EmptySeq
<1> HIDE DEF p
<1>2. 1 \in 1 .. Len(q) BY <1>1
<1>3. \A i \in 1 .. Len(p) : i + 1 \in 1 .. Len(q) BY <1>1
<1>4. NoClosed(p) BY <1>1, <1>3 DEF NoClosed
<1> QED BY <1>1, <1>2, <1>4 DEF NoClosed, p

\* Both sockets are open and neither end has seen the other close.
Intact == \A e \in Ends : sock[e].open /\ ~eof[e] /\ NoClosed(toManager[e])

Connected(e) == connects[e] = "connected"

\* The client is closed first, in a close statement, which leaves both closed.
Closing ==
  /\ wait.op = "Close" => ~Connected("client")
  /\ Running =>
       /\ Statement.kind = "close" /\ step >= 2 => ~Connected("client")
       /\ Statement.kind = "close" /\ step >= 3 => ~Connected("server")
       /\ Statement.kind # "close" /\ Connected("server") => Connected("client")
       /\ Statement.kind # "close" /\ (step >= 2 \/ wait # None) => Connected("server")

Conn == (Connected("client") => Intact) /\ Closing

\* What velm asks for at each step.
LEMMA ActionIs ==
  ASSUME TThread, Running, ~StatementOver, NEW r, r = StepsOf(Statement.kind)[step]
  PROVE  /\ r.op = "Close" <=> Statement.kind = "close"
         /\ step \in {1, 2, 3} /\ (Statement.kind = "close" => step \in {1, 2})
         /\ r.end = "client" <=> step = (IF Statement.kind = "close" THEN 1 ELSE 2)
         /\ r.end \in Ends
         /\ Statement.kind = "oneway" =>
              r.op = IF step = 1 THEN "Recv" ELSE IF step = 2 THEN "Snd" ELSE "RecvEffect"
         /\ Statement.kind = "turnaround" =>
              r.op = IF step = 1 THEN "RecvSnd" ELSE IF step = 2 THEN "SndRecv" ELSE "RecvEffect"
         /\ Statement.kind \in {"oneway", "turnaround", "close"}
<1>1. Statement.kind \in {"oneway", "turnaround", "close"} BY StatementType
<1>2. step \in 1 .. 4 /\ ~(step > Len(StepsOf(Statement.kind))) BY DEF TThread, StatementOver
<1> DEFINE k == Statement.kind
<1>3. k \in {"oneway", "turnaround", "close"} /\ step \in 1 .. 4
      /\ ~(step > Len(StepsOf(k))) /\ r = StepsOf(k)[step]
  BY <1>1, <1>2
<1> HIDE DEF k
<1>4. step \in {1, 2, 3} /\ (k = "close" => step \in {1, 2})
  <2>1. Len(StepsOf(k)) = (IF k = "close" THEN 2 ELSE 3) BY <1>3, StepsType
  <2> QED BY <1>3, <2>1
<1>5. CASE k = "oneway" BY <1>3, <1>4, <1>5 DEF StepsOf, Ends, k
<1>6. CASE k = "turnaround" BY <1>3, <1>4, <1>6 DEF StepsOf, Ends, k
<1>7. CASE k = "close" BY <1>3, <1>4, <1>7 DEF StepsOf, Ends, k
<1> QED BY <1>3, <1>5, <1>6, <1>7

LEMMA ConnNextStatement ==
  ASSUME TypeOK, Conn, NextStatement PROVE Conn'
<1>1. /\ UNCHANGED <<connects, toManager, sock, eof>> /\ wait' = None /\ step' = 1
      /\ Running /\ StatementOver
  BY DEF NextStatement, network
<1>2. TThread BY TypesAre
<1>3. wait'.op # "Close" BY <1>1, NoneIsNoAction DEF Ops
<1>4. Statement.kind = "close" => step >= 3
  <2>1. Statement.kind = "close" => Len(StepsOf(Statement.kind)) = 2
    BY <1>1, <1>2, StatementType, StepsType
  <2> QED BY <1>1, <1>2, <2>1 DEF StatementOver, TThread
<1>5. Connected("server") => Connected("client")
  BY <1>1, <1>4 DEF Conn, Closing
<1>6. Closing' BY <1>1, <1>3, <1>5 DEF Closing, Connected
<1>7. Intact' <=> Intact BY <1>1 DEF Intact, NoClosed
<1> QED BY <1>1, <1>6, <1>7 DEF Conn, Connected

LEMMA ConnDoStep ==
  ASSUME TypeOK, Conn, NEW r, Does(r) PROVE Conn'
<1>1. TThread BY TypesAre
<1>2. /\ Running /\ wait = None /\ UNCHANGED <<toManager, sock, eof>> /\ Statement' = Statement
      /\ Running' => ~aborted' /\ r.end \in Ends /\ r.op \in Ops
  BY DEF Does, network, Statement, Running, Actions
<1>3. /\ r.op = "Close" <=> Statement.kind = "close"
      /\ step \in {1, 2, 3} /\ (Statement.kind = "close" => step \in {1, 2})
      /\ r.end = "client" <=> step = (IF Statement.kind = "close" THEN 1 ELSE 2)
      /\ r.end \in {"client", "server"}
  BY <1>1, ActionIs DEF Does, Ends
<1>4. Intact' <=> Intact BY <1>2 DEF Intact, NoClosed
<1>5. wait.op # "Close" BY <1>2, NoneIsNoAction DEF Ops
<1>6. connects \in [Ends -> {"connected", "closing", "none"}] BY <1>1 DEF TThread
<1>7. "client" \in Ends /\ "server" \in Ends BY DEF Ends
<1>8. CASE Requested(r)
  <2>1. /\ Connected(r.end) /\ wait' = r /\ step' = step
        /\ connects' = IF r.op = "Close" THEN [connects EXCEPT ![r.end] = "closing"] ELSE connects
    BY <1>8 DEF Requested, Connected
  <2>2. \A e \in Ends : Connected(e)' <=> Connected(e) /\ ~(r.op = "Close" /\ e = r.end)
    BY <1>6, <2>1 DEF Connected
  <2>3. Statement.kind # "close" => Connected("server")
    BY <1>2, <1>3, <2>1 DEF Conn, Closing
  <2>4. r.op = "Close" => ~Connected("client")'
    BY <1>2, <1>3, <1>7, <2>2 DEF Conn, Closing
  <2>5. Closing'
    <3>1. wait'.op = "Close" => ~Connected("client")' BY <2>1, <2>4
    <3>2. Statement.kind = "close" /\ step >= 2 => ~Connected("client")' BY <1>3, <2>4
    <3>3. ~(Statement.kind = "close" /\ step >= 3) BY <1>3
    <3>4. Statement.kind # "close" => (Connected("server")' /\ Connected("client")')
      BY <1>2, <1>3, <1>7, <2>2, <2>3 DEF Conn, Closing
    <3> QED BY <1>2, <2>1, <3>1, <3>2, <3>3, <3>4 DEF Closing
  <2> QED BY <1>4, <1>7, <2>2, <2>5 DEF Conn
<1>9. CASE Skipped(r)
  <2>1. ~Connected(r.end) /\ r.op = "Close" /\ step' = step + 1 /\ UNCHANGED <<wait, connects>>
    BY <1>9 DEF Skipped, Connected
  <2>2. Statement.kind = "close" /\ step \in {1, 2} BY <1>3, <2>1
  <2>3. ~Connected("client")
    BY <1>2, <1>3, <2>1, <2>2 DEF Conn, Closing
  <2>4. step' >= 3 => ~Connected("server")
    BY <1>3, <2>1, <2>2
  <2> QED BY <1>2, <1>4, <1>5, <2>1, <2>2, <2>3, <2>4 DEF Conn, Closing, Connected
<1>10. CASE Aborts(r)
  <2>1. aborted' /\ UNCHANGED <<wait, connects>> BY <1>10 DEF Aborts
  <2> QED BY <1>2, <1>4, <1>5, <2>1 DEF Conn, Closing, Connected, Running
<1> QED BY <1>8, <1>9, <1>10 DEF Does

LEMMA ConnHear ==
  ASSUME TypeOK, AtStep, Conn, NEW e \in Ends, NEW a, Hears(e, a) PROVE Conn'
<1>1. TThread /\ TChannels BY TypesAre
<1>2. /\ UNCHANGED <<sock, eof>> /\ Statement' = Statement
      /\ toManager' = [toManager EXCEPT ![e] = Tail(@)] /\ toManager[e] # <<>>
      /\ a = Head(toManager[e])
  BY DEF Hears, Statement, network
<1>3. Intact => Intact' /\ a.op # "Closed"
  <2> HAVE Intact
  <2>1. toManager[e] \in Seq(Answer) BY <1>1 DEF TChannels
  <2>2. NoClosed(Tail(toManager[e])) /\ a.op # "Closed"
    BY <1>2, <2>1, NoClosedTail DEF Intact
  <2>3. \A d \in Ends : NoClosed(toManager'[d]) BY <1>1, <1>2, <2>2 DEF Intact, TChannels
  <2>4. \A d \in Ends : NoClosed(toManager[d])' <=> NoClosed(toManager'[d]) BY DEF NoClosed
  <2> QED BY <1>2, <2>2, <2>3, <2>4 DEF Intact
<1>4. connects \in [Ends -> {"connected", "closing", "none"}] BY <1>1 DEF TThread
<1>5. "client" \in Ends /\ "server" \in Ends BY DEF Ends
<1>6. CASE HeardClosed(e, a)
  <2>1. /\ UNCHANGED <<wait, step, aborted>> /\ ~Connected("client")
        /\ \A d \in Ends : Connected(d)' => Connected(d)
    BY <1>3, <1>4, <1>6 DEF HeardClosed, Connected, Conn
  <2>2. Running' <=> Running BY <2>1 DEF Running, Hears
  <2>3. ~Connected("client")' BY <1>5, <2>1
  <2>4. Running /\ Statement.kind # "close" => ~(step >= 2) /\ wait = None
    BY <2>1 DEF Conn, Closing
  <2>5. Running /\ Statement.kind # "close" => ~Connected("server")' 
    BY <1>5, <2>1 DEF Conn, Closing
  <2>6. Running /\ Statement.kind = "close" /\ step >= 3 => ~Connected("server")'
    BY <1>5, <2>1 DEF Conn, Closing
  <2>7. Closing' BY <1>2, <2>1, <2>2, <2>3, <2>4, <2>5, <2>6 DEF Closing
  <2> QED BY <2>3, <2>7 DEF Conn
<1>7. CASE HeardStray(e, a)
  <2>1. UNCHANGED <<wait, step, aborted, connects>> BY <1>7 DEF HeardStray
  <2>2. Running' <=> Running BY <2>1 DEF Running, Hears
  <2> QED BY <1>2, <1>3, <2>1, <2>2 DEF Conn, Closing, Connected
<1>8. CASE HeardAnswer(e, a)
  <2>1. /\ a.op # "Closed" /\ wait.end = e /\ wait.op = a.op /\ wait # None /\ wait' = None
        /\ Running' => Running /\ step' = step + 1
        /\ connects' = IF a.op = "Close" THEN [connects EXCEPT ![e] = "none"] ELSE connects
    BY <1>8 DEF HeardAnswer, Hears, Running
  <2>2. Running /\ ~StatementOver /\ wait = StepsOf(Statement.kind)[step]
    BY <2>1 DEF AtStep
  <2>3. /\ a.op = "Close" <=> Statement.kind = "close"
        /\ step \in {1, 2, 3} /\ (Statement.kind = "close" => step \in {1, 2})
        /\ e = "client" <=> step = (IF Statement.kind = "close" THEN 1 ELSE 2)
        /\ e \in {"client", "server"}
    BY <1>1, <2>1, <2>2, ActionIs DEF Ends
  <2>4. \A d \in Ends : Connected(d)' <=> Connected(d) /\ ~(a.op = "Close" /\ d = e)
    BY <1>4, <2>1 DEF Connected
  <2>5. wait'.op # "Close" BY <2>1, NoneIsNoAction DEF Ops
  <2>6. a.op = "Close" => ~Connected("client")' BY <1>5, <2>1, <2>4 DEF Conn, Closing
  <2>7. Statement.kind = "close" /\ step + 1 >= 3 => ~Connected("server")'
    BY <1>5, <2>3, <2>4
  <2>8. Statement.kind # "close" => Connected("server")' /\ Connected("client")'
    BY <1>5, <2>1, <2>2, <2>3, <2>4 DEF Conn, Closing
  <2>9. Closing' BY <1>2, <2>1, <2>3, <2>5, <2>6, <2>7, <2>8 DEF Closing
  <2> QED BY <1>3, <1>5, <2>4, <2>9 DEF Conn
<1> QED BY <1>6, <1>7, <1>8 DEF Hears

\* A step of an agent closes neither end while the client is connected.
LEMMA ConnAgent ==
  ASSUME Conn, UNCHANGED <<protocol, thread>>, Connected("client") /\ Intact => Intact'
  PROVE  Conn'
<1>1. Running' = Running /\ Statement' = Statement BY SameThread
<1> QED BY <1>1 DEF thread, Conn, Closing, Connected

LEMMA IntactReports ==
  ASSUME TypeOK, Intact, NEW e \in Ends, NEW o, Reports(e, o), sock' = [sock EXCEPT ![e] = o.sock],
         o.sock.open, eof' = eof, o.reports = <<>> \/ \E op \in Ops : o.reports = <<op>>
  PROVE  Intact'
<1>1. TChannels /\ TSockets BY TypesAre
<1>2. \A d \in Ends : NoClosed(toManager'[d])
  <2>1. CASE o.reports = <<>> BY <2>1 DEF Reports, Intact
  <2>2. ASSUME NEW op \in Ops, o.reports = <<op>> PROVE \A d \in Ends : NoClosed(toManager'[d])
    <3> DEFINE a == [op |-> op, ok |-> TRUE]
    <3>1. a \in Answer /\ a.op # "Closed" BY SaidAreOps DEF Answer
    <3>2. toManager' = [toManager EXCEPT ![e] = Append(toManager[e], a)]
      BY <1>1, <2>2 DEF Reports, TChannels
    <3> HIDE DEF a
    <3>3. toManager[e] \in Seq(Answer) BY <1>1 DEF TChannels
    <3>4. NoClosed(Append(toManager[e], a)) BY <3>1, <3>3, NoClosedAppend DEF Intact
    <3> QED BY <1>1, <3>2, <3>4 DEF Intact, TChannels
  <2> QED BY <2>1, <2>2
<1>3. \A d \in Ends : sock'[d].open BY <1>1 DEF Intact, TSockets
<1>4. \A d \in Ends : NoClosed(toManager[d])' <=> NoClosed(toManager'[d]) BY DEF NoClosed
<1> QED BY <1>2, <1>3, <1>4 DEF Intact

LEMMA ConnProgress ==
  ASSUME TypeOK, Conn, NEW e \in Ends, NEW t, NEW rest, NEW f, NEW o, Progress(e, t, rest, f, o)
  PROVE  Conn'
<1>1. Intact => Intact'
  <2> HAVE Intact
  <2>1. o.sock.open BY DEF Progress, Counted, ReceiveResult, SendOnly, Intact
  <2>2. o.reports = <<>> \/ \E op \in Ops : o.reports = <<op>>
    BY DEF Progress, ReceiveResult, Ops
  <2> QED BY <2>1, <2>2, IntactReports DEF Progress
<1> QED BY <1>1, ConnAgent DEF Progress

LEMMA ConnServe ==
  ASSUME TypeOK, Place, Conn, NEW e \in Ends, NEW r, Serves(e, r) PROVE Conn'
<1>1. UNCHANGED <<protocol, thread>> BY DEF Serves
<1>2. wait.op = r.op /\ r.op \in Ops BY TakenIs
<1>3. Connected("client") /\ Intact => Intact'
  <2> HAVE Connected("client") /\ Intact
  <2>1. r.op # "Close" BY <1>2 DEF Conn, Closing
  <2>2. ~Refused(e, r) BY DEF Refused, Intact
  <2>3. ASSUME NEW o, Accepted(e, r, o),
               ServedRecv(e, r, o) \/ ServedEffect(e, r, o)
                 \/ \E f \in BOOLEAN : ServedSend(e, r, f, o)
        PROVE  Intact'
    <3>1. eof' = eof BY <2>3 DEF ServedRecv, ServedEffect, ServedSend, network
    <3>2. o.reports = <<>> \/ \E op \in Ops : o.reports = <<op>>
      BY <1>2, <2>3 DEF Accepted
    <3>3. o.sock.open
      <4>1. sock[e].open BY <2>3 DEF Accepted
      <4>2. CASE ServedRecv(e, r, o) \/ ServedEffect(e, r, o)
        BY <4>1, <4>2 DEF ServedRecv, ServedEffect, SendOnly
      <4>3. ASSUME NEW f \in BOOLEAN, ServedSend(e, r, f, o) PROVE o.sock.open
        <5>1. sock[e] \in Good BY TypesAre DEF TSockets
        <5>2. r.count \in 0 .. MaxCount BY TrafficAssumption DEF Serves, Request
        <5>3. Renewed(sock[e], r.op, r.count).open = sock[e].open
          BY <1>2, <5>1, <5>2, RenewedResult
        <5> QED BY <4>1, <4>3, <5>3 DEF ServedSend, SendResult, SendOnly
      <4> QED BY <2>3, <4>2, <4>3
    <3> QED BY <2>3, <3>1, <3>2, <3>3, IntactReports DEF Accepted
  <2> QED BY <2>1, <2>2, <2>3 DEF Serves, ServedClose
<1> QED BY <1>1, <1>3, ConnAgent

LEMMA ConnEnded ==
  ASSUME Conn, NEW e \in Ends, Ended(e) PROVE Conn'
BY ConnAgent DEF Ended, Intact

LEMMA ConnLoss ==
  ASSUME Conn, NEW e \in Ends, Lose(e) \/ Repeat(e) PROVE Conn'
<1>1. UNCHANGED <<protocol, thread>> /\ (Intact' <=> Intact)
  BY DEF Lose, Repeat, Intact, NoClosed
<1> QED BY <1>1, ConnAgent

----------------------------------------------------------------------------
(* The packets of a transfer *)

Turnaround == Statement.kind = "turnaround"

\* A transfer on a connection that is not being closed, and how far it is:
\* the server was told to receive, the client to send, the client has
\* answered, the server has answered.
Live == Running /\ Statement.kind # "close" /\ Connected("client")
Told == step >= 2 \/ (wait # None /\ toAgent["server"] = <<>>)
Going == step >= 3 \/ (step = 2 /\ wait # None /\ toAgent["client"] = <<>>)
Done == step >= 3 \/ toManager["client"] # <<>>
Over == step = 4 \/ (step = 3 /\ toManager["server"] # <<>>)

\* What holds then of the client c, the server s and the packets w on their way.
Prepared(s) ==
  /\ s.request = IF Turnaround THEN "RecvSnd" ELSE "Recv"
  /\ s.recvcnt = Statement.count
  /\ Turnaround => s.sendcnt = Statement.count
Still(w) == w["client"] = 0 /\ w["server"] = 0
Unmoved(s) == s.recvdcnt = 0 /\ s.sentcnt = 0
Moving(c) ==
  /\ c.request = IF Turnaround THEN "SndRecv" ELSE "Snd"
  /\ c.sendcnt = Statement.count
  /\ Turnaround => c.recvcnt = Statement.count
Carried(c, s, w) ==
  /\ c.sentcnt = s.recvdcnt + w["server"]
  /\ Turnaround => s.sentcnt = c.recvdcnt + w["client"]
  /\ ~Turnaround => w["client"] = 0
Finished(c, u) ==
  /\ u = 0 => c.sentcnt = Statement.count
  /\ protocol = "tcp" /\ Turnaround => c.recvdcnt = Statement.count

Xfer ==
  Live =>
    /\ Told => Prepared(sock["server"])
    /\ ~Going /\ protocol = "tcp" => Still(net) /\ (Told => Unmoved(sock["server"]))
    /\ Going => Moving(sock["client"])
    /\ Going /\ protocol = "tcp" => Carried(sock["client"], sock["server"], net)
    /\ Done => Finished(sock["client"], unsent)
    /\ Over /\ protocol = "tcp" => sock["server"].recvdcnt = Statement.count

\* A step that leaves the statement where it is.
LEMMA XferNext ==
  ASSUME protocol' = protocol, Statement' = Statement,
         Live' =>
           /\ Told' => Prepared(sock'["server"])
           /\ ~Going' /\ protocol = "tcp" => Still(net') /\ (Told' => Unmoved(sock'["server"]))
           /\ Going' => Moving(sock'["client"])
           /\ Going' /\ protocol = "tcp" => Carried(sock'["client"], sock'["server"], net')
           /\ Done' => Finished(sock'["client"], unsent')
           /\ Over' /\ protocol = "tcp" => sock'["server"].recvdcnt = Statement.count
  PROVE  Xfer'
<1>1. /\ Prepared(sock["server"])' <=> Prepared(sock'["server"])
      /\ Still(net)' <=> Still(net')
      /\ Unmoved(sock["server"])' <=> Unmoved(sock'["server"])
      /\ Moving(sock["client"])' <=> Moving(sock'["client"])
      /\ Carried(sock["client"], sock["server"], net)'
           <=> Carried(sock'["client"], sock'["server"], net')
      /\ Finished(sock["client"], unsent)' <=> Finished(sock'["client"], unsent')
  BY DEF Prepared, Still, Unmoved, Moving, Carried, Finished, Turnaround
<1> QED BY <1>1 DEF Xfer

\* A step that only moves on.
LEMMA XferSame ==
  ASSUME Xfer, UNCHANGED <<protocol, sock, net, unsent>>, Statement' = Statement,
         Live' => Live /\ (Told' => Told) /\ (Going' <=> Going) /\ (Done' => Done) /\ (Over' => Over)
  PROVE  Xfer'
BY XferNext DEF Xfer

\* On a connection that stands, an agent tells velm only what it waits for.
LEMMA Quiet ==
  ASSUME TypeOK, Place, Intact, NEW e \in Ends
  PROVE  /\ wait = None \/ wait.end # e \/ Silent(e) => toManager[e] = <<>>
         /\ toManager[e] # <<>> => toAgent[e] = <<>> /\ wait.end = e /\ wait # None
<1>1. toManager[e] \in Seq(Answer) BY TypesAre DEF TChannels
<1>2. ASSUME wait = None \/ wait.end # e \/ Silent(e) PROVE toManager[e] = <<>>
  <2>1. ASSUME NEW i \in 1 .. Len(toManager[e]) PROVE FALSE
    <3>1. toManager[e][i].op # "Closed" BY DEF Intact, NoClosed
    <3>2. wait.end = e BY <3>1 DEF Place, AnsweredOnce
    <3>3. ~Silent(e) BY <3>1 DEF Silent
    <3> QED BY <1>2, <3>2, <3>3, NothingWaits
  <2>2. ~(1 \in 1 .. Len(toManager[e])) BY <2>1
  <2>3. Len(toManager[e]) = 0 BY <1>1, <2>2, LenProperties
  <2> QED BY <1>1, <2>3, EmptySeq
<1>3. toAgent[e] # <<>> => Silent(e) BY DEF Place, Asked
<1> QED BY <1>2, <1>3

LEMMA LiveIs ==
  ASSUME TypeOK, AtStep, Conn, Live
  PROVE  /\ Intact /\ "client" \in Ends /\ "server" \in Ends
         /\ Statement.kind = (IF Turnaround THEN "turnaround" ELSE "oneway")
         /\ Statement.count \in Nat /\ Statement.count > 0
         /\ wait # None =>
              /\ step \in {1, 2, 3} /\ (wait.end = "client" <=> step = 2) /\ wait.end \in Ends
              /\ step = 1 => wait.op = IF Turnaround THEN "RecvSnd" ELSE "Recv"
              /\ step = 2 => wait.op = IF Turnaround THEN "SndRecv" ELSE "Snd"
              /\ step = 3 => wait.op = "RecvEffect"
<1>1. TThread BY TypesAre
<1>2. Statement.kind \in {"oneway", "turnaround"} /\ Statement.count \in 1 .. MaxCount
  BY <1>1, StatementType DEF Live
<1>3. wait # None =>
        /\ step \in {1, 2, 3} /\ (wait.end = "client" <=> step = 2) /\ wait.end \in Ends
        /\ step = 1 => wait.op = IF Turnaround THEN "RecvSnd" ELSE "Recv"
        /\ step = 2 => wait.op = IF Turnaround THEN "SndRecv" ELSE "Snd"
        /\ step = 3 => wait.op = "RecvEffect"
  BY <1>1, <1>2, ActionIs DEF AtStep, Turnaround
<1> QED BY <1>2, <1>3, TrafficAssumption DEF Conn, Live, Ends, Turnaround

\* What was answered was going on.
LEMMA DoneGoes ==
  ASSUME TypeOK, AtStep, Place, Conn, Live PROVE Done => Going
<1>1. toManager["client"] # <<>> => toAgent["client"] = <<>> /\ wait.end = "client" /\ wait # None
  BY LiveIs, Quiet
<1> QED BY <1>1, LiveIs DEF Done, Going

\* When all packets have been received none is left.
LEMMA Exhausted ==
  ASSUME TypeOK, AtStep, Conn, Live, NEW c \in Good, NEW s \in Good, NEW w \in [Ends -> Nat],
         Prepared(s), Moving(c), Carried(c, s, w)
  PROVE  /\ s.recvdcnt = Statement.count => w["server"] = 0
         /\ Turnaround /\ c.recvdcnt = Statement.count => w["client"] = 0
         /\ ~Turnaround => w["client"] = 0
<1>1. w["server"] \in Nat /\ w["client"] \in Nat /\ Statement.count \in Nat BY LiveIs
<1>2. c.sentcnt <= Statement.count /\ (Turnaround => s.sentcnt <= Statement.count)
  BY Counters DEF Prepared, Moving
<1>3. c.sentcnt \in Nat /\ s.sentcnt \in Nat BY Counters
<1> QED BY <1>1, <1>2, <1>3 DEF Carried

LEMMA XferNextStatement ==
  ASSUME TypeOK, AtStep, Place, Conn, Xfer, NextStatement PROVE Xfer'
<1>1. /\ UNCHANGED <<protocol, connects, toManager, sock, net, unsent>> /\ wait = None /\ wait' = None
      /\ step' = 1 /\ Running /\ StatementOver
  BY DEF NextStatement, network
<1>2. TThread BY TypesAre
<1> SUFFICES ASSUME Live' PROVE Xfer' BY DEF Xfer
<1>3. Connected("client") BY <1>1 DEF Live, Connected
<1>4. Statement.kind # "close" /\ step = 4
  <2>1. Len(StepsOf(Statement.kind)) = (IF Statement.kind = "close" THEN 2 ELSE 3)
    BY <1>1, <1>2, StatementType, StepsType
  <2>2. step \in 1 .. 4 /\ step > Len(StepsOf(Statement.kind))
    BY <1>1, <1>2 DEF TThread, StatementOver
  <2>3. Statement.kind # "close" BY <1>1, <1>3, <2>1, <2>2 DEF Conn, Closing
  <2> QED BY <2>1, <2>2, <2>3
<1>5. Live BY <1>1, <1>3, <1>4 DEF Live
<1>6. toManager["client"] = <<>> BY <1>1, <1>5, LiveIs, Quiet
<1>7. ~Told' /\ ~Going' /\ ~Done' /\ ~Over'
  BY <1>1, <1>6 DEF Told, Going, Done, Over
<1>8. protocol = "tcp" => Still(net)
  <2> HAVE protocol = "tcp"
  <2>1. Told /\ Going /\ Done /\ Over BY <1>4 DEF Told, Going, Done, Over
  <2>2. /\ Prepared(sock["server"]) /\ Moving(sock["client"])
        /\ Carried(sock["client"], sock["server"], net)
        /\ sock["server"].recvdcnt = Statement.count
        /\ Turnaround => sock["client"].recvdcnt = Statement.count
    BY <1>5, <2>1 DEF Xfer, Finished
  <2>3. sock["client"] \in Good /\ sock["server"] \in Good /\ net \in [Ends -> Nat]
    BY <1>5, LiveIs, TypesAre DEF TSockets, TNetwork
  <2> QED BY <1>5, <2>2, <2>3, Exhausted DEF Still
<1>9. Still(net)' <=> Still(net) BY <1>1 DEF Still
<1> QED BY <1>1, <1>7, <1>8, <1>9 DEF Xfer

LEMMA XferDoStep ==
  ASSUME TypeOK, AtStep, Place, Conn, Xfer, NEW r, Does(r) PROVE Xfer'
<1>1. /\ UNCHANGED <<protocol, toManager, sock, net, unsent>> /\ Statement' = Statement
      /\ Running /\ wait = None /\ (Running' => ~aborted')
  BY DEF Does, Statement, network, Running
<1>2. TThread /\ TChannels BY TypesAre
<1>3. /\ r.op = "Close" <=> Statement.kind = "close"
      /\ step \in {1, 2, 3}
      /\ r.end = "client" <=> step = (IF Statement.kind = "close" THEN 1 ELSE 2)
      /\ r.end \in Ends /\ r.end \in {"client", "server"}
  BY <1>2, ActionIs DEF Does, Ends
<1> SUFFICES ASSUME Live' PROVE Live /\ (Told' => Told) /\ (Going' <=> Going)
                                /\ (Done' => Done) /\ (Over' => Over)
  BY <1>1, XferSame
<1>4. Requested(r) /\ r.op # "Close"
  BY <1>1, <1>3 DEF Does, Skipped, Aborts, Live
<1>5. connects' = connects /\ step' = step
      /\ toAgent' = [toAgent EXCEPT ![r.end] = Append(@, [op |-> r.op, count |-> Statement.count])]
  BY <1>4 DEF Requested
<1>6. Live BY <1>1, <1>5 DEF Live, Connected
<1>7. toAgent'[r.end] # <<>>
  <2>1. [op |-> r.op, count |-> Statement.count] \in Request
    BY <1>1, <1>2, StatementType DEF Request, Does, Actions
  <2>2. toAgent[r.end] \in Seq(Request) BY <1>2, <1>3 DEF TChannels
  <2>3. Append(toAgent[r.end], [op |-> r.op, count |-> Statement.count]) # <<>>
    BY <2>1, <2>2, AppendProperties
  <2>4. toAgent'[r.end] = Append(toAgent[r.end], [op |-> r.op, count |-> Statement.count])
    BY <1>2, <1>3, <1>5 DEF TChannels
  <2> QED BY <2>3, <2>4
<1>8. step = 1 => r.end = "server" BY <1>3, <1>6 DEF Live
<1>9. step = 2 => r.end = "client" BY <1>3, <1>6 DEF Live
<1> QED BY <1>1, <1>3, <1>5, <1>6, <1>7, <1>8, <1>9 DEF Told, Going, Done, Over

LEMMA XferHear ==
  ASSUME TypeOK, AtStep, Place, Conn, Xfer, NEW e \in Ends, NEW a, Hears(e, a) PROVE Xfer'
<1>1. /\ UNCHANGED <<protocol, toAgent, sock, net, unsent>> /\ Statement' = Statement
      /\ toManager' = [toManager EXCEPT ![e] = Tail(@)] /\ toManager[e] # <<>>
      /\ a = Head(toManager[e])
  BY DEF Hears, Statement, network
<1>2. TThread /\ TChannels BY TypesAre
<1> SUFFICES ASSUME Live' PROVE Live /\ (Told' => Told) /\ (Going' <=> Going)
                                /\ (Done' => Done) /\ (Over' => Over)
  BY <1>1, XferSame
<1>3. Live
  <2>1. Running BY DEF Live, Running, Hears, HeardClosed, HeardStray, HeardAnswer
  <2>2. Connected("client")
    BY <1>2 DEF Live, Connected, Hears, HeardClosed, HeardStray, HeardAnswer, TThread, Ends
  <2> QED BY <1>1, <2>1, <2>2 DEF Live
<1>4. Intact /\ wait.end = e /\ wait # None /\ toAgent[e] = <<>> BY <1>1, <1>3, LiveIs, Quiet
<1>5. a.op # "Closed" /\ wait.op = a.op
  <2>1. toManager[e] \in Seq(Answer) BY <1>2 DEF TChannels
  <2>2. a = toManager[e][1] /\ 1 \in 1 .. Len(toManager[e])
    BY <1>1, <2>1, LenProperties, EmptySeq
  <2> QED BY <1>4, <2>2 DEF Intact, NoClosed, Place, AnsweredOnce
<1>6. HeardAnswer(e, a) BY <1>4, <1>5 DEF Hears, HeardClosed, HeardStray
<1>7. step' = step + 1 /\ wait' = None
  BY <1>6 DEF HeardAnswer, Live, Running
<1>8. step \in {1, 2, 3} /\ (e = "client" <=> step = 2) /\ e \in {"client", "server"}
  BY <1>3, <1>4, LiveIs DEF Ends
<1>9. \A d \in Ends : d # e => toManager[d] = <<>> /\ toManager'[d] = <<>>
  BY <1>1, <1>2, <1>4, Quiet DEF TChannels
<1> QED BY <1>1, <1>3, <1>4, <1>7, <1>8, <1>9, LiveIs DEF Told, Going, Done, Over

\* While both ends are open what goes out is on its way.
LEMMA SentIs ==
  ASSUME Intact, NEW e \in Ends, NEW o, NEW w \in [Ends -> Nat]
  PROVE  /\ Sent(w, e, o)[Other(e)] = IF o.sent THEN w[Other(e)] + 1 ELSE w[Other(e)]
         /\ Sent(w, e, o)[e] = w[e]
BY DEF Sent, Other, Ends, Intact

\* A step of an agent other than the one that velm waits for changes no answer.
LEMMA OtherSilent ==
  ASSUME TypeOK, NEW e \in Ends, NEW o, Reports(e, o), NEW d \in Ends,
         o.reports = <<>> \/ \E op \in Ops : o.reports = <<op>>
  PROVE  d # e \/ o.reports = <<>> => toManager'[d] = toManager[d]
BY TypesAre DEF Reports, TChannels

LEMMA XferServe ==
  ASSUME TypeOK, AtStep, Place, Conn, Xfer, NEW e \in Ends, NEW r, Serves(e, r) PROVE Xfer'
<1>1. TThread /\ TChannels /\ TSockets /\ TNetwork BY TypesAre
<1>2. UNCHANGED <<protocol, thread>> /\ toAgent' = [toAgent EXCEPT ![e] = Tail(@)]
      /\ toAgent[e] # <<>> /\ r \in Request
  BY DEF Serves
<1>3. /\ Running' = Running /\ Statement' = Statement /\ protocol' = protocol
      /\ UNCHANGED <<step, wait, connects>>
  BY <1>2, SameThread DEF thread
<1>4. /\ Tail(toAgent[e]) = <<>> /\ wait.end = e /\ wait.op = r.op /\ r.op \in Ops
      /\ r.count = Statement.count /\ Silent(e)
  BY TakenIs
<1>5. wait # None BY <1>4, NoneIsNoAction
<1> SUFFICES ASSUME Live' PROVE Xfer' BY DEF Xfer
<1>6. Live BY <1>3 DEF Live, Connected
<1>7. /\ Intact /\ "client" \in Ends /\ "server" \in Ends
      /\ Statement.count \in Nat /\ Statement.count > 0
      /\ step \in {1, 2, 3} /\ (e = "client" <=> step = 2) /\ e \in {"client", "server"}
      /\ step = 1 => r.op = IF Turnaround THEN "RecvSnd" ELSE "Recv"
      /\ step = 2 => r.op = IF Turnaround THEN "SndRecv" ELSE "Snd"
      /\ step = 3 => r.op = "RecvEffect"
  BY <1>4, <1>5, <1>6, LiveIs DEF Ends
<1>8. toManager["client"] = <<>> /\ toManager["server"] = <<>>
  BY <1>4, <1>7, Quiet
<1>9. PICK o : /\ Accepted(e, r, o)
               /\ \/ ServedRecv(e, r, o) \/ ServedEffect(e, r, o) \/ ServedClose(e, r, o)
                  \/ \E f \in BOOLEAN : ServedSend(e, r, f, o)
  BY <1>7 DEF Serves, Refused, Intact
<1>10. /\ sock' = [sock EXCEPT ![e] = o.sock] /\ Reports(e, o)
       /\ o.reports = <<>> \/ \E op \in Ops : o.reports = <<op>>
  BY <1>4, <1>9 DEF Accepted
<1>11. \A d \in Ends : /\ toAgent'[d] = IF d = e THEN <<>> ELSE toAgent[d]
                       /\ sock'[d] = IF d = e THEN o.sock ELSE sock[d]
                       /\ d # e \/ o.reports = <<>> => toManager'[d] = toManager[d]
  BY <1>1, <1>2, <1>4, <1>10, OtherSilent DEF TChannels, TSockets
<1>12. CASE step = 1
  <2>1. e = "server" /\ ServedRecv(e, r, o)
    BY <1>7, <1>9, <1>12 DEF ServedEffect, ServedClose, ServedSend
  <2>2. ~Going /\ ~Going' /\ ~Done' /\ ~Over'
    BY <1>3, <1>7, <1>8, <1>11, <1>12, <2>1 DEF Going, Done, Over
  <2>3. Prepared(sock'["server"]) /\ Unmoved(sock'["server"]) /\ net' = net
    BY <1>4, <1>7, <1>11, <1>12, <2>1 DEF ServedRecv, Prepared, Unmoved, network
  <2>4. protocol = "tcp" => Still(net) BY <1>6, <2>2 DEF Xfer
  <2> QED BY <1>3, <2>2, <2>3, <2>4, XferNext
<1>13. CASE step = 2
  <2>1. e = "client" /\ \E f \in BOOLEAN : ServedSend(e, r, f, o)
    BY <1>7, <1>9, <1>13 DEF ServedRecv, ServedEffect, ServedClose
  <2>2. PICK f \in BOOLEAN : ServedSend(e, r, f, o) BY <2>1
  <2> DEFINE q == Renewed(sock[e], r.op, r.count)
             k == o.sock
  <2>3. Told /\ ~Going /\ Told' /\ Going' /\ ~Over'
    <3>1. step' = 2 /\ wait' # None /\ toAgent["client"] # <<>> /\ toAgent'["client"] = <<>>
      BY <1>2, <1>3, <1>5, <1>7, <1>11, <1>13, <2>1
    <3>2. Told' /\ Going' BY <3>1 DEF Told, Going
    <3>3. ~Over' BY <3>1 DEF Over
    <3>4. Told /\ ~Going BY <1>13, <3>1 DEF Told, Going
    <3> QED BY <3>2, <3>3, <3>4
  <2>4. /\ q \in Good /\ q.request = r.op /\ q.sentcnt = 0 /\ q.sendcnt = r.count
        /\ q.recvdcnt = 0 /\ q.regard = 0
        /\ r.op = "SndRecv" => q.recvcnt = r.count
    <3>1. sock[e] \in Good BY <1>1 DEF TSockets
    <3>2. r.count \in 0 .. MaxCount BY <1>2, TrafficAssumption DEF Request
    <3> QED BY <1>4, <3>1, <3>2, RenewedResult
  <2>5. /\ SendResult(q, f, o) /\ net' = Sent(net, e, o) /\ (unsent' = 0 => unsent = 0)
    BY <2>2 DEF ServedSend
  <2> HIDE DEF q
  <2>6. /\ k.request = r.op /\ k.sendcnt = r.count /\ k.recvdcnt = 0
        /\ (r.op = "SndRecv" => k.recvcnt = r.count)
        /\ o.sent \in BOOLEAN /\ k.sentcnt = (IF o.sent THEN 1 ELSE 0)
        /\ o.reports # <<>> => r.op = "Snd" /\ k.sentcnt = r.count
    BY <2>4, <2>5 DEF SendResult, SendOnly
  <2> HIDE DEF k
  <2>7. sock'["client"] = k /\ sock'["server"] = sock["server"]
    BY <1>7, <1>11, <2>1 DEF k
  <2>8. Moving(k) BY <1>4, <1>7, <1>13, <2>6 DEF Moving
  <2>9. Done' => Finished(k, unsent')
    BY <1>3, <1>4, <1>7, <1>8, <1>11, <1>13, <2>6 DEF Done, Finished
  <2>10. protocol = "tcp" => Carried(k, sock["server"], net')
    <3> HAVE protocol = "tcp"
    <3>1. Still(net) /\ Unmoved(sock["server"]) BY <1>6, <2>3 DEF Xfer
    <3>2. net'["server"] = (IF o.sent THEN 1 ELSE 0) /\ net'["client"] = 0
      <4>1. net \in [Ends -> Nat] /\ Other("client") = "server" BY <1>1 DEF TNetwork, Other
      <4> QED BY <1>7, <2>1, <2>5, <3>1, <4>1, SentIs DEF Still
    <3> QED BY <2>6, <3>1, <3>2 DEF Carried, Unmoved
  <2>11. Prepared(sock["server"]) BY <1>6, <2>3 DEF Xfer
  <2> QED BY <1>3, <2>3, <2>7, <2>8, <2>9, <2>10, <2>11, XferNext
<1>14. CASE step = 3
  <2>1. e = "server" /\ ServedEffect(e, r, o)
    BY <1>7, <1>9, <1>14 DEF ServedRecv, ServedClose, ServedSend
  <2>2. Told /\ Going /\ Done /\ Told' /\ Going' /\ Done'
    BY <1>3, <1>14 DEF Told, Going, Done
  <2> DEFINE s == sock["server"]
             k == o.sock
  <2>3. /\ k.request = s.request /\ k.sendcnt = s.sendcnt /\ k.recvcnt = s.recvcnt
        /\ k.recvdcnt = s.recvdcnt /\ k.sentcnt = s.sentcnt
        /\ o.reports # <<>> => EffectNow(s)
        /\ net' = net /\ unsent' = unsent
    BY <2>1 DEF ServedEffect, SendOnly, network
  <2>4. sock'["client"] = sock["client"] /\ sock'["server"] = k
    BY <1>7, <1>11, <2>1
  <2>5. Prepared(s) BY <1>6, <2>2 DEF Xfer
  <2> HIDE DEF s, k
  <2>6. Prepared(k) BY <2>3, <2>5 DEF Prepared
  <2>7. Moving(sock["client"]) /\ Finished(sock["client"], unsent) BY <1>6, <2>2 DEF Xfer
  <2>8. protocol = "tcp" => Carried(sock["client"], k, net)
    BY <1>6, <2>2, <2>3 DEF Xfer, Carried, s
  <2>9. Over' /\ protocol = "tcp" => k.recvdcnt = Statement.count
    BY <1>3, <1>7, <1>8, <1>11, <1>14, <2>1, <2>3, <2>5 DEF Over, EffectNow, Prepared
  <2> QED BY <1>3, <2>2, <2>3, <2>4, <2>6, <2>7, <2>8, <2>9, XferNext
<1> QED BY <1>7, <1>12, <1>13, <1>14

\* Over TCP a socket gets a packet or the timer only in a transfer that goes
\* on, and the server only packets.
LEMMA TcpProgress ==
  ASSUME TypeOK, AtStep, Place, Pace, Conn, Xfer, Live, protocol = "tcp",
         NEW e \in Ends, NEW t, NEW rest, NEW f, NEW o, Progress(e, t, rest, f, o)
  PROVE  Going /\ (PacketCounted(e, t, rest) \/ (e = "client" /\ TimerCounted(e, t, rest)))
<1>1. PacketCounted(e, t, rest) => Going
  <2>1. PacketCounted(e, t, rest) => net[e] > 0 BY DEF PacketCounted
  <2>2. ~Going => net["client"] = 0 /\ net["server"] = 0 BY DEF Xfer, Still
  <2> QED BY <2>1, <2>2 DEF Ends
<1>2. ASSUME TimerCounted(e, t, rest) PROVE Going /\ e = "client"
  <2>1. sock[e].timer /\ unsent = 0 BY <1>2 DEF TimerCounted, Pace, TcpSends
  <2>2. Owes(sock[e], "Snd") BY <2>1 DEF Pace, Timers
  <2>3. wait.end = e /\ wait.op = "Snd" /\ toAgent[e] = <<>> BY <2>2 DEF Place, Owing, Said
  <2>4. wait # None BY <2>3, NoneIsNoAction DEF Ops
  <2>5. step = 2 /\ e = "client" BY <2>3, <2>4, LiveIs
  <2> QED BY <2>3, <2>4, <2>5 DEF Going
<1> QED BY <1>1, <1>2 DEF Progress

LEMMA XferProgress ==
  ASSUME TypeOK, AtStep, Place, Pace, Conn, Xfer, NEW e \in Ends,
         NEW t, NEW rest, NEW f \in BOOLEAN, NEW o, Progress(e, t, rest, f, o)
  PROVE  Xfer'
<1> DEFINE s == sock[e]
           k == o.sock
<1>1. TThread /\ TChannels /\ TSockets /\ TNetwork BY TypesAre
<1>2. UNCHANGED <<protocol, thread, toAgent>> BY DEF Progress
<1>3. /\ Running' = Running /\ Statement' = Statement /\ protocol' = protocol
      /\ UNCHANGED <<step, wait, connects, toAgent>>
  BY <1>2, SameThread DEF thread
<1> SUFFICES ASSUME Live' PROVE Xfer' BY DEF Xfer
<1>4. Live BY <1>3 DEF Live, Connected
<1>5. /\ Intact /\ "client" \in Ends /\ "server" \in Ends /\ e \in {"client", "server"}
      /\ Statement.count \in Nat /\ Statement.count > 0
  BY <1>4, LiveIs DEF Ends
<1>6. (Told' <=> Told) /\ (Going' <=> Going) BY <1>3 DEF Told, Going
<1>7. o.reports = <<>> \/ \E op \in Said : o.reports = <<op>> /\ Owes(s, op)
  BY ProgressOwes
<1>8. /\ sock' = [sock EXCEPT ![e] = k] /\ Reports(e, o) /\ net' = Sent(rest, e, o)
      /\ unsent' = 0 => unsent = 0
  BY DEF Progress
<1>9. s \in Good /\ t \in Good /\ k \in Good
  BY <1>1 DEF TSockets, Progress, Counted, ReceiveResult
<1>10. ReceiveResult(t, f, o) BY DEF Progress
<1>11. /\ t.request = s.request /\ t.sendcnt = s.sendcnt /\ t.sentcnt = s.sentcnt
       /\ t.recvcnt = s.recvcnt
       /\ TimerCounted(e, t, rest) => rest = net /\ t.recvdcnt = s.recvdcnt
       /\ PacketCounted(e, t, rest) =>
            /\ net[e] > 0
            /\ t.recvcnt # 0 => rest = [net EXCEPT ![e] = @ - 1] /\ t.recvdcnt = s.recvdcnt + 1
            /\ t.recvcnt = 0 => rest = net /\ t.recvdcnt = s.recvdcnt
  BY DEF Progress, Counted, TimerCounted, PacketCounted
<1>12. Pace' BY ProgressPace
<1>13. PaceOf(k, unsent')
  <2>1. \A d \in Ends : PaceOf(sock'[d], unsent') BY <1>3, <1>12, PaceNext
  <2> QED BY <1>1, <1>8, <2>1 DEF TSockets
<1>14. \A d \in Ends : /\ sock'[d] = IF d = e THEN k ELSE sock[d]
                       /\ d # e \/ o.reports = <<>> => toManager'[d] = toManager[d]
  <2>1. o.reports = <<>> \/ \E op \in Ops : o.reports = <<op>> BY <1>7, SaidAreOps
  <2> QED BY <1>1, <1>8, <2>1, OtherSilent DEF TSockets
\* An answer that is reported was waited for.
<1>15. o.reports # <<>> =>
         /\ wait.end = e /\ wait # None /\ o.reports = <<wait.op>> /\ toAgent[e] = <<>>
         /\ toManager[e] = <<>> /\ (e = "client" <=> step = 2)
  <2> HAVE o.reports # <<>>
  <2>1. PICK op \in Said : o.reports = <<op>> /\ Owes(s, op) BY <1>7
  <2>2. wait.end = e /\ wait.op = op /\ toAgent[e] = <<>> /\ Silent(e)
    BY <2>1 DEF Place, Owing
  <2>3. wait # None BY <2>2, NoneIsNoAction, SaidAreOps
  <2> QED BY <1>4, <1>5, <2>1, <2>2, <2>3, LiveIs, Quiet
<1>16. /\ k.request = s.request /\ k.sendcnt = s.sendcnt /\ k.recvcnt = s.recvcnt
       /\ k.recvdcnt = t.recvdcnt /\ k.regard = t.regard
       /\ o.sent \in BOOLEAN /\ k.sentcnt = (IF o.sent THEN s.sentcnt + 1 ELSE s.sentcnt)
       /\ o.sent => SendsOn(t) /\ s.request \in {"SndRecv", "Snd", "RecvSnd"}
  BY <1>10, <1>11 DEF ReceiveResult, SendOnly
<1>17. /\ k.sentcnt \in Nat /\ s.sentcnt \in Nat /\ s.recvdcnt \in Nat /\ t.recvdcnt \in Nat
       /\ k.sentcnt <= k.sendcnt /\ s.sendcnt \in Nat
  <2>1. s.recvdcnt \in Nat /\ t.recvdcnt \in Nat BY <1>9 DEF Good, Socks
  <2> QED BY <1>9, <2>1, Counters
<1>18. protocol = "tcp" =>
         Going /\ (PacketCounted(e, t, rest) \/ (e = "client" /\ TimerCounted(e, t, rest)))
  BY <1>4, TcpProgress
<1>19. net \in [Ends -> Nat] /\ sock["client"] \in Good /\ sock["server"] \in Good
  BY <1>1, <1>5 DEF TNetwork, TSockets
<1>20. Told => Prepared(sock["server"]) BY <1>4 DEF Xfer
<1>21. Going => Moving(sock["client"]) BY <1>4 DEF Xfer
<1>22. Going => Told BY <1>1 DEF Going, Told, TThread
<1>23. protocol = "tcp" => Carried(sock["client"], sock["server"], net)
  BY <1>4, <1>18 DEF Xfer
<1>24. protocol = "tcp" =>
         /\ sock["server"].recvdcnt = Statement.count => net["server"] = 0
         /\ Turnaround /\ sock["client"].recvdcnt = Statement.count => net["client"] = 0
         /\ ~Turnaround => net["client"] = 0
  BY <1>4, <1>18, <1>19, <1>20, <1>21, <1>22, <1>23, Exhausted
<1>25. CASE e = "server"
  <2>1. sock'["server"] = k /\ sock'["client"] = sock["client"]
        /\ toManager'["client"] = toManager["client"]
    BY <1>5, <1>14, <1>25
  <2>2. s = sock["server"] BY <1>25
  <2> HIDE DEF s, k
  <2>3. Told => Prepared(k) BY <1>16, <1>20, <2>2 DEF Prepared
  <2>4. Done' <=> Done BY <1>3, <2>1 DEF Done
  <2>5. Done => Finished(sock["client"], unsent') BY <1>4, <1>8 DEF Xfer, Finished
  <2>6. ASSUME protocol = "tcp" PROVE Carried(sock["client"], k, net')
    <3>1. t.recvcnt # 0 /\ PacketCounted(e, t, rest)
      BY <1>5, <1>11, <1>18, <1>20, <1>22, <1>25, <2>2, <2>6 DEF Prepared
    <3>2. /\ rest = [net EXCEPT !["server"] = @ - 1] /\ t.recvdcnt = s.recvdcnt + 1
          /\ net["server"] > 0
      BY <1>11, <1>25, <3>1
    <3>3. rest \in [Ends -> Nat] /\ rest["server"] = net["server"] - 1
          /\ rest["client"] = net["client"]
      BY <1>5, <1>19, <3>2 DEF Ends
    <3>4. Other("server") = "client" BY DEF Other
    <3>5. /\ net'["client"] = IF o.sent THEN net["client"] + 1 ELSE net["client"]
          /\ net'["server"] = net["server"] - 1
      BY <1>5, <1>8, <1>25, <3>3, <3>4, SentIs
    <3>6. net["client"] \in Nat /\ net["server"] \in Nat BY <1>5, <1>19
    <3>7. sock["client"].sentcnt = k.recvdcnt + net'["server"]
      BY <1>16, <1>17, <1>23, <2>2, <2>6, <3>2, <3>5, <3>6 DEF Carried
    <3>8. Turnaround => k.sentcnt = sock["client"].recvdcnt + net'["client"]
      <4>1. sock["client"].recvdcnt \in Nat BY <1>19 DEF Good, Socks
      <4> QED BY <1>16, <1>17, <1>23, <2>2, <2>6, <3>5, <3>6, <4>1 DEF Carried
    <3>9. ~Turnaround => ~o.sent
      BY <1>16, <1>18, <1>20, <1>22, <2>2, <2>6 DEF Prepared
    <3> QED BY <1>23, <2>6, <3>5, <3>7, <3>8, <3>9 DEF Carried
  <2>7. ASSUME Over', protocol = "tcp" PROVE k.recvdcnt = Statement.count
    <3>1. Told /\ s.recvcnt = Statement.count
      BY <1>18, <1>20, <1>22, <2>2, <2>7 DEF Prepared
    <3>2. CASE Over
      <4>1. net["server"] = 0 BY <1>4, <1>24, <2>7, <3>2 DEF Xfer
      <4> QED BY <1>11, <1>18, <1>25, <2>7, <4>1
    <3>3. CASE ~Over
      <4>1. step = 3 /\ o.reports # <<>>
        BY <1>3, <1>5, <1>14, <1>25, <2>7, <3>3 DEF Over
      <4>2. o.reports = <<"RecvEffect">> BY <1>4, <1>15, <4>1, LiveIs
      <4>3. EffectDue(t)
        <5>1. <<"RecvEffect">>[1] = "RecvEffect" /\ <<"Snd">>[1] = "Snd" /\ <<"SndRecv">>[1] = "SndRecv"
          OBVIOUS
        <5> QED BY <1>10, <4>1, <4>2, <5>1 DEF ReceiveResult
      <4> QED BY <1>11, <1>16, <2>7, <3>1, <4>3 DEF EffectDue, AllReceived
    <3> QED BY <3>2, <3>3
  <2> QED BY <1>3, <1>6, <1>18, <1>21, <2>1, <2>3, <2>4, <2>5, <2>6, <2>7, XferNext
<1>26. CASE e = "client"
  <2>1. sock'["client"] = k /\ sock'["server"] = sock["server"]
        /\ toManager'["server"] = toManager["server"]
    BY <1>5, <1>14, <1>26
  <2>2. s = sock["client"] BY <1>26
  <2> HIDE DEF s, k
  <2>3. Going => Moving(k) BY <1>16, <1>21, <2>2 DEF Moving
  <2>4. Over' <=> Over BY <1>3, <2>1 DEF Over
  <2>5. ASSUME protocol = "tcp" PROVE Carried(k, sock["server"], net')
    <3>1. net["client"] \in Nat /\ net["server"] \in Nat BY <1>5, <1>19
    <3>2. /\ rest \in [Ends -> Nat] /\ rest["server"] = net["server"]
          /\ k.recvdcnt + rest["client"] = s.recvdcnt + net["client"]
          /\ ~Turnaround => rest["client"] = 0
      <4>1. CASE rest = net /\ t.recvdcnt = s.recvdcnt
        BY <1>16, <1>19, <1>24, <2>5, <4>1
      <4>2. CASE net["client"] > 0 /\ rest = [net EXCEPT !["client"] = @ - 1]
                 /\ t.recvdcnt = s.recvdcnt + 1
        <5>1. Turnaround BY <1>24, <2>5, <4>2
        <5>2. rest \in [Ends -> Nat] /\ rest["client"] = net["client"] - 1
              /\ rest["server"] = net["server"]
          BY <1>5, <1>19, <4>2 DEF Ends
        <5> QED BY <1>16, <1>17, <3>1, <5>1, <5>2, <4>2
      <4> QED BY <1>11, <1>18, <1>26, <2>5, <4>1, <4>2
    <3>3. Other("client") = "server" BY DEF Other
    <3>4. /\ net'["server"] = IF o.sent THEN net["server"] + 1 ELSE net["server"]
          /\ net'["client"] = rest["client"]
      BY <1>5, <1>8, <1>26, <3>2, <3>3, SentIs
    <3>5. sock["server"].recvdcnt \in Nat BY <1>19 DEF Good, Socks
    <3>6. k.sentcnt = sock["server"].recvdcnt + net'["server"]
      BY <1>16, <1>17, <1>23, <2>2, <2>5, <3>1, <3>4, <3>5 DEF Carried
    <3>7. Turnaround => sock["server"].sentcnt = k.recvdcnt + net'["client"]
      BY <1>23, <2>2, <2>5, <3>2, <3>4 DEF Carried
    <3> QED BY <3>2, <3>4, <3>6, <3>7 DEF Carried
  <2>6. ASSUME Done' PROVE Finished(k, unsent')
    <3>1. CASE Done
      <4>1. Going BY <1>4, <3>1, DoneGoes
      <4>2. s.sendcnt = Statement.count /\ Finished(s, unsent)
        BY <1>4, <1>21, <2>2, <3>1, <4>1 DEF Moving, Xfer
      <4>3. unsent' = 0 => k.sentcnt = Statement.count
        <5>1. SendsOn(t) => s.sentcnt < s.sendcnt
          BY <1>11, <1>17 DEF SendsOn
        <5> QED BY <1>5, <1>8, <1>16, <4>2, <5>1 DEF Finished
      <4>4. protocol = "tcp" /\ Turnaround => k.recvdcnt = Statement.count
        <5> HAVE protocol = "tcp" /\ Turnaround
        <5>1. s.recvdcnt = Statement.count /\ net["client"] = 0
          BY <1>24, <2>2, <4>2 DEF Finished
        <5> QED BY <1>11, <1>16, <1>18, <1>26, <5>1
      <4> QED BY <4>3, <4>4 DEF Finished
    <3>2. CASE ~Done
      <4>1. step = 2 /\ o.reports # <<>>
        BY <1>3, <1>5, <1>14, <1>15, <1>26, <2>6, <3>2 DEF Done
      <4>2. Going /\ o.reports = <<wait.op>> /\ wait # None
        BY <1>15, <1>26, <4>1 DEF Going
      <4>3. Moving(k) BY <2>3, <4>2
      <4>4. CASE Turnaround
        <5>1. k.request = "SndRecv" /\ k.sendcnt = Statement.count /\ k.recvcnt = Statement.count
          BY <4>3, <4>4 DEF Moving
        <5>2. Answered(t)
          <6>1. t.request = "SndRecv" BY <1>11, <1>16, <5>1
          <6> QED BY <1>10, <4>1, <6>1 DEF ReceiveResult, EffectDue
        <5>3. AllReceived(t) BY <5>2 DEF Answered
        <5>4. Got(k) = Statement.count
          <6>1. t.regard \in Nat BY <1>9 DEF Good, Socks
          <6> QED BY <1>11, <1>16, <1>17, <5>1, <5>3, <6>1 DEF AllReceived, Got
        <5>5. unsent' = 0 => k.sentcnt = Statement.count
          BY <1>5, <1>13, <1>17, <5>1, <5>4 DEF PaceOf
        <5>6. protocol = "tcp" => k.recvdcnt = Statement.count BY <5>4 DEF Got
        <5> QED BY <5>5, <5>6 DEF Finished
      <4>5. CASE ~Turnaround
        <5>1. t.request = "Snd" /\ t.sendcnt = Statement.count
          BY <1>11, <1>16, <4>3, <4>5 DEF Moving
        <5>2. k.sentcnt = t.sendcnt
          BY <1>10, <4>1, <5>1 DEF ReceiveResult, EffectDue, Answered, k
        <5> QED BY <4>5, <5>1, <5>2 DEF Finished
      <4> QED BY <4>4, <4>5
    <3> QED BY <3>1, <3>2
  <2>7. Over /\ protocol = "tcp" => sock["server"].recvdcnt = Statement.count BY <1>4 DEF Xfer
  <2> QED BY <1>3, <1>6, <1>18, <1>20, <2>1, <2>3, <2>4, <2>5, <2>6, <2>7, XferNext
<1> QED BY <1>5, <1>25, <1>26

----------------------------------------------------------------------------
(* What holds of every transfer *)

TInv == TypeOK /\ AtStep /\ Place /\ Pace /\ Conn /\ Xfer

LEMMA TInvInit == Init => TInv
<1> SUFFICES ASSUME Init PROVE TInv OBVIOUS
<1>1. \A e \in Ends : /\ toAgent[e] = <<>> /\ toManager[e] = <<>>
                      /\ sock[e] = NewSocket(IF e = "client" THEN "Connect" ELSE "Listen")
  BY DEF Init
<1>2. \A e \in Ends : /\ sock[e].open /\ sock[e].request \in {"Connect", "Listen"}
                      /\ sock[e].timer = FALSE /\ sock[e] \in Good
  <2> TAKE e \in Ends
  <2>1. 0 \in 0 .. MaxCount BY TrafficAssumption
  <2>2. \A x \in {"Connect", "Listen"} :
          /\ NewSocket(x).open /\ NewSocket(x).request = x /\ NewSocket(x).timer = FALSE
          /\ NewSocket(x) \in Good
    BY <2>1 DEF NewSocket, Good, Socks
  <2> QED BY <1>1, <2>2
<1>3. TypeOK
  <2>1. TThread
    <3>1. wait \in Waits BY NoneIsNoAction DEF Init
    <3>2. connects \in [Ends -> {"connected", "closing", "none"}] BY DEF Init
    <3>3. aborted \in BOOLEAN BY DEF Init
    <3>4. protocol \in Protocols /\ program \in Programs BY DEF Init
    <3>5. stmtPos \in Nat \ {0} /\ step \in 1 .. 4 BY DEF Init
    <3> QED BY <3>1, <3>2, <3>3, <3>4, <3>5 DEF TThread
  <2>2. TChannels
    <3>1. <<>> \in Seq(Request) /\ <<>> \in Seq(Answer) BY EmptySeq
    <3> QED BY <3>1 DEF Init, TChannels
  <2>3. TSockets
    <3>1. sock = [e \in Ends |-> sock[e]] BY DEF Init
    <3> QED BY <1>2, <3>1 DEF TSockets
  <2>4. TNetwork BY DEF Init, TNetwork
  <2> QED BY <2>1, <2>2, <2>3, <2>4, TypesAre
<1>4. AtStep BY DEF Init, AtStep
<1>5. \A e \in Ends : PlaceOf(e, toAgent[e], sock[e], toManager[e], wait)
  <2> TAKE e \in Ends
  <2>1. \A i \in 1 .. Len(toManager[e]) : FALSE BY <1>1
  <2>2. \A op \in Said : ~Owes(sock[e], op) BY <1>2 DEF Owes
  <2> QED BY <1>1, <2>1, <2>2 DEF PlaceOf, AnsweredSeq, ShutSeq
<1>6. Pace
  <2>1. unsent = 0 BY DEF Init
  <2> QED BY <1>2, <2>1 DEF Pace, Turning, Timers, TcpSends
<1>7. Conn
  <2>1. \A e \in Ends : ~eof[e] /\ NoClosed(toManager[e])
    <3>1. \A e \in Ends : \A i \in 1 .. Len(toManager[e]) : FALSE BY <1>1
    <3> QED BY <3>1 DEF Init, NoClosed
  <2>2. wait.op # "Close" /\ wait = None /\ step = 1 BY DEF Init, None
  <2>3. Connected("client") /\ Connected("server") BY DEF Init, Connected, Ends
  <2> QED BY <1>2, <2>1, <2>2, <2>3 DEF Conn, Intact, Closing
<1>8. Xfer
  <2>1. step = 1 /\ wait = None /\ net["client"] = 0 /\ net["server"] = 0
        /\ toManager["client"] = <<>>
    BY DEF Init, Ends
  <2> QED BY <2>1 DEF Xfer, Told, Going, Done, Over, Still
<1> QED BY <1>3, <1>4, <1>5, <1>6, <1>7, <1>8, PlaceIs DEF TInv, Placed

LEMMA TInvNext == TInv /\ [Next]_vars => TInv'
<1> SUFFICES ASSUME TInv, [Next]_vars PROVE TInv' OBVIOUS
<1>0. TypeOK /\ AtStep /\ Place /\ Pace /\ Conn /\ Xfer BY DEF TInv
<1>1. CASE NextStatement
  <2>1. Pace' BY <1>0, <1>1, PaceSame DEF NextStatement
  <2> QED BY <1>0, <1>1, <2>1, NextStatementTypes, NextStatementPlace,
     ConnNextStatement, XferNextStatement DEF TInv
<1>2. CASE DoStep
  <2>1. TThread BY <1>0, TypesAre
  <2>2. PICK r : Does(r) BY <1>2, <2>1, DoStepIs
  <2>3. Pace' BY <1>0, <2>2, PaceSame DEF Does
  <2> QED BY <1>0, <1>2, <2>2, <2>3, DoStepTypes, DoStepPlace,
     ConnDoStep, XferDoStep DEF TInv
<1>3. ASSUME NEW e \in Ends, Hear(e) PROVE TInv'
  <2>1. TChannels BY <1>0, TypesAre
  <2>2. PICK a : Hears(e, a) BY <1>3, <2>1, HearIs
  <2>3. Pace' BY <1>0, <2>2, PaceSame DEF Hears
  <2> QED BY <1>0, <2>2, <2>3, HearTypes, HearPlace, ConnHear, XferHear DEF TInv
<1>4. ASSUME NEW e \in Ends, Serve(e) PROVE TInv'
  <2>1. PICK r : Serves(e, r) BY <1>0, <1>4, ServeOf
  <2> QED BY <1>0, <2>1, ServeTypes, ServePlace, ServePace, ConnServe, XferServe DEF TInv
<1>5. ASSUME NEW e \in Ends, Arrives(e) \/ Timeup(e) PROVE TInv'
  <2>1. PICK t, rest, o : \E f \in BOOLEAN : Progress(e, t, rest, f, o)
    BY <1>0, <1>5, ProgressOf
  <2>2. PICK f \in BOOLEAN : Progress(e, t, rest, f, o) BY <2>1
  <2> QED BY <1>0, <2>2, ProgressTypes, ProgressPlace, ProgressPace,
     ConnProgress, XferProgress DEF TInv
<1>6. ASSUME NEW e \in Ends, EndOfStream(e) PROVE TInv'
  <2>1. Ended(e) BY <1>6 DEF EndOfStream, Ended
  <2>2. Conn' BY <1>0, <2>1, ConnEnded
  <2>3. ~Live' BY <1>0, <2>1, SameThread
    DEF Ended, Conn, Intact, Live, Connected, thread
  <2> QED BY <1>0, <2>1, <2>2, <2>3, EndedTypes, EndedPlace, EndedPace DEF TInv, Xfer
<1>7. ASSUME NEW e \in Ends, Lose(e) \/ Repeat(e) PROVE TInv'
  <2>1. Pace' BY <1>0, <1>7, PaceSame DEF Lose, Repeat
  <2>2. /\ protocol = "udp" /\ Statement' = Statement
        /\ UNCHANGED <<protocol, thread, toAgent, toManager, sock, unsent>>
    BY <1>7, SameThread DEF Lose, Repeat
  <2>3. (Live' <=> Live) /\ (Told' <=> Told) /\ (Going' <=> Going) /\ (Done' <=> Done) /\ (Over' <=> Over)
    BY <2>2, SameThread DEF Live, Connected, Told, Going, Done, Over, thread
  <2>4. Xfer' BY <1>0, <2>2, <2>3, XferNext DEF Xfer
  <2> QED BY <1>0, <1>7, <2>1, <2>4, LossTypes, LossPlace, ConnLoss DEF TInv
<1>8. CASE UNCHANGED vars
  <2>1. UNCHANGED <<protocol, thread>> /\ UNCHANGED <<toAgent, toManager, sock, net, eof, repeats, unsent>>
    BY <1>8 DEF vars, network
  <2>2. TThread' /\ TChannels' /\ TSockets' /\ TNetwork' /\ AtStep'
    BY <1>0, <2>1, TypesAre, SameThread DEF TChannels, TSockets, TNetwork
  <2>3. protocol' = protocol /\ Statement' = Statement /\ wait' = wait
    BY <2>1, SameThread DEF thread
  <2>4. Place' BY <1>0, <2>1, <2>3, PlaceIs, PlaceNext DEF Placed
  <2>5. Pace' BY <1>0, <2>1, PaceSame
  <2>6. TypeOK' BY <2>2, TypesAre, PTL
  <2>7. Conn' BY <1>0, <2>1, ConnAgent DEF Intact, NoClosed
  <2>8. (Live' <=> Live) /\ (Told' <=> Told) /\ (Going' <=> Going) /\ (Done' <=> Done) /\ (Over' <=> Over)
    BY <2>1, SameThread DEF Live, Connected, Told, Going, Done, Over, thread
  <2>9. Xfer' BY <1>0, <2>1, <2>3, <2>8, XferSame
  <2> QED BY <2>2, <2>4, <2>5, <2>6, <2>7, <2>9 DEF TInv
<1> QED BY <1>1, <1>2, <1>3, <1>4, <1>5, <1>6, <1>7, <1>8 DEF Next, Manager, Agent

LEMMA TInvAlways == Spec => []TInv
BY TInvInit, TInvNext, PTL DEF Spec

\* Every variable of a connection keeps its type, and a socket never sends
\* more packets than the request it has says (TcSocket::sendPacket).
THEOREM TypeCorrect == Spec => []TypeOK
<1>1. TInv => TypeOK BY DEF TInv
<1> QED BY <1>1, TInvAlways, PTL

\* Packets, the timer and requests end in the same code, and yet a request
\* gets one answer, the one that velm waits for (TcSocket::postReceive).
THEOREM AnsweredOnceCorrect == Spec => []AnsweredOnce
<1>1. TInv => AnsweredOnce BY DEF TInv, Place
<1> QED BY <1>1, TInvAlways, PTL

\* No timer is left for a socket that velm may close, unless a send failed
\* (TcSocket::postSend).
THEOREM NoTimerLeftCorrect == Spec => []NoTimerLeft
<1>1. TInv => NoTimerLeft
  <2> SUFFICES ASSUME TInv, unsent = 0, NEW e \in Ends, sock[e].timer
               PROVE  /\ sock[e].open
                      /\ wait.end = e /\ wait.op \in {"Snd", "SndRecv"}
                      /\ toManager[e] = <<>>
    BY DEF NoTimerLeft
  <2>1. TypeOK /\ Place /\ Pace BY DEF TInv
  <2>2. sock[e].open /\ (Owes(sock[e], "Snd") \/ Owes(sock[e], "SndRecv"))
    BY <2>1 DEF Pace, Timers
  <2>3. wait.end = e /\ wait.op \in {"Snd", "SndRecv"} /\ Silent(e)
    BY <2>1, <2>2 DEF Place, Owing, Said
  <2>4. toManager[e] \in Seq(Answer) BY <2>1, TypesAre DEF TChannels
  <2>5. \A i \in 1 .. Len(toManager[e]) : FALSE BY <2>1, <2>2, <2>3 DEF Silent, Place, Shut
  <2>6. toManager[e] = <<>>
    <3>1. ~(1 \in 1 .. Len(toManager[e])) BY <2>5
    <3>2. Len(toManager[e]) \in Nat BY <2>4, LenProperties
    <3>3. Len(toManager[e]) = 0 BY <3>1, <3>2
    <3> QED BY <2>4, <3>3, EmptySeq
  <2> QED BY <2>2, <2>3, <2>6
<1> QED BY <1>1, TInvAlways, PTL

\* A statement is over when its packets are, and not before: the client has
\* sent every packet when velm turns to the third step, unless a send failed,
\* and over TCP every packet is received (TcSocket::postReceive, effectAction).
THEOREM TransferCompleteCorrect == Spec => []TransferComplete
<1>1. TInv => TransferComplete
  <2> SUFFICES ASSUME TInv, Running, Statement.kind # "close"
               PROVE  /\ unsent = 0 /\ step = 3 => sock["client"].sentcnt = Statement.count
                      /\ protocol = "tcp" /\ step = 4 =>
                           /\ sock["server"].recvdcnt = Statement.count
                           /\ Turnaround => sock["client"].recvdcnt = Statement.count
    BY DEF TransferComplete, AllSent, AllReceivedAtEnd, Turnaround
  <2>1. step >= 2 => Live BY DEF TInv, Conn, Closing, Live
  <2>2. step \in 1 .. 4 BY DEF TInv, TypeOK
  <2>3. CASE step \in {3, 4}
    <3>1. Live /\ Done /\ (step = 4 => Over) BY <2>1, <2>3 DEF Done, Over
    <3> QED BY <3>1 DEF TInv, Xfer, Finished
  <2> QED BY <2>2, <2>3
<1> QED BY <1>1, TInvAlways, PTL

----------------------------------------------------------------------------
(* No request fails *)

\* velm has been told that a socket is closed, or will be.
ToldShut(q, c) == c = "none" \/ \E i \in 1 .. Len(q) : q[i].op \in {"Closed", "Close"}

\* Only a close is refused, and after the report that says why.
Refusals(q, c) ==
  \A i \in 1 .. Len(q) : q[i].op # "Closed" /\ ~q[i].ok =>
    q[i].op = "Close" /\ (c = "none" \/ \E j \in 1 .. i - 1 : q[j].op = "Closed")

LEMMA AppendRefusals ==
  ASSUME NEW q \in Seq(Answer), NEW c, Refusals(q, c), NEW a \in Answer,
         a.ok \/ (a.op = "Close" /\ SilentSeq(q) /\ ToldShut(q, c))
  PROVE  /\ Refusals(Append(q, a), c)
         /\ ToldShut(q, c) \/ a.op \in {"Closed", "Close"} => ToldShut(Append(q, a), c)
<1> DEFINE p == Append(q, a)
<1>1. /\ Len(p) = Len(q) + 1 /\ Len(q) \in Nat
      /\ \A i \in 1 .. Len(q) : p[i] = q[i]
      /\ p[Len(q) + 1] = a
  BY AppendProperties, LenProperties
<1> HIDE DEF p
<1>2. \A i \in 1 .. Len(p) : i \in 1 .. Len(q) \/ i = Len(q) + 1 BY <1>1
<1>3. Refusals(p, c)
  <2> SUFFICES ASSUME NEW i \in 1 .. Len(p), p[i].op # "Closed", ~p[i].ok
               PROVE  p[i].op = "Close" /\ (c = "none" \/ \E j \in 1 .. i - 1 : p[j].op = "Closed")
    BY DEF Refusals
  <2>1. CASE i \in 1 .. Len(q)
    <3>1. q[i].op = "Close" /\ (c = "none" \/ \E j \in 1 .. i - 1 : q[j].op = "Closed")
      BY <1>1, <2>1 DEF Refusals
    <3>2. \A j \in 1 .. i - 1 : p[j] = q[j] BY <1>1, <2>1
    <3> QED BY <1>1, <2>1, <3>1, <3>2
  <2>2. CASE i = Len(q) + 1
    <3>1. a.op = "Close" /\ (c = "none" \/ \E j \in 1 .. Len(q) : q[j].op = "Closed")
      BY <1>1, <2>2 DEF ToldShut, SilentSeq
    <3> QED BY <1>1, <2>2, <3>1
  <2> QED BY <1>2, <2>1, <2>2
<1>4. a.op \in {"Closed", "Close"} => ToldShut(p, c)
  <2>1. Len(q) + 1 \in 1 .. Len(p) BY <1>1
  <2> QED BY <1>1, <2>1 DEF ToldShut
<1>5. ToldShut(q, c) => ToldShut(p, c)
  <2>1. \A i \in 1 .. Len(q) : i \in 1 .. Len(p) BY <1>1
  <2> QED BY <1>1, <2>1 DEF ToldShut
<1> QED BY <1>3, <1>4, <1>5 DEF p

LEMMA TailRefusals ==
  ASSUME NEW q \in Seq(Answer), q # <<>>, NEW c, Refusals(q, c), NEW d,
         d = (IF Head(q).op \in {"Closed", "Close"} THEN "none" ELSE c)
  PROVE  /\ Refusals(Tail(q), d) /\ (ToldShut(q, c) => ToldShut(Tail(q), d))
         /\ Head(q).op # "Closed" /\ ~Head(q).ok => Head(q).op = "Close" /\ c = "none"
<1> DEFINE p == Tail(q)
<1>1. /\ Len(p) = Len(q) - 1 /\ Len(q) \in Nat /\ Len(q) # 0
      /\ \A i \in 1 .. Len(p) : p[i] = q[i + 1]
      /\ Head(q) = q[1]
  BY HeadTailProperties, LenProperties, EmptySeq
<1> HIDE DEF p
<1>2. 1 \in 1 .. Len(q) BY <1>1
<1>3. \A i \in 1 .. Len(p) : i + 1 \in 1 .. Len(q) BY <1>1
<1>4. \A j \in 1 .. Len(q) : j # 1 => j - 1 \in 1 .. Len(p) /\ q[j] = p[j - 1]
  <2> TAKE j \in 1 .. Len(q)
  <2>1. j # 1 => j - 1 \in 1 .. Len(p) /\ (j - 1) + 1 = j BY <1>1
  <2> QED BY <1>1, <2>1
<1>5. Refusals(p, d)
  <2> SUFFICES ASSUME NEW i \in 1 .. Len(p), p[i].op # "Closed", ~p[i].ok
               PROVE  p[i].op = "Close" /\ (d = "none" \/ \E j \in 1 .. i - 1 : p[j].op = "Closed")
    BY DEF Refusals
  <2>1. p[i].op = "Close" /\ (c = "none" \/ \E j \in 1 .. (i + 1) - 1 : q[j].op = "Closed")
    BY <1>1, <1>3 DEF Refusals
  <2>2. CASE d = "none" BY <2>1, <2>2
  <2>3. CASE d # "none"
    <3>1. d = c /\ q[1].op # "Closed" BY <1>1, <2>3
    <3>2. PICK j \in 1 .. (i + 1) - 1 : q[j].op = "Closed" BY <2>1, <2>3, <3>1
    <3>3. j # 1 /\ j \in 1 .. Len(q) /\ j - 1 \in 1 .. i - 1 BY <1>1, <3>1, <3>2
    <3>4. p[j - 1].op = "Closed" BY <1>4, <3>2, <3>3
    <3> QED BY <2>1, <3>3, <3>4
  <2> QED BY <2>2, <2>3
<1>6. ToldShut(q, c) => ToldShut(p, d)
  <2> HAVE ToldShut(q, c)
  <2>1. CASE d = "none" BY <2>1 DEF ToldShut
  <2>2. CASE d # "none"
    <3>1. d = c /\ q[1].op \notin {"Closed", "Close"} BY <1>1, <2>2
    <3>2. PICK j \in 1 .. Len(q) : q[j].op \in {"Closed", "Close"} BY <2>2, <3>1 DEF ToldShut
    <3>3. j # 1 BY <3>1, <3>2
    <3> QED BY <1>4, <3>2, <3>3 DEF ToldShut
  <2> QED BY <2>1, <2>2
<1>7. Head(q).op # "Closed" /\ ~Head(q).ok => Head(q).op = "Close" /\ c = "none"
  <2>1. \A j \in 1 .. 1 - 1 : FALSE OBVIOUS
  <2> QED BY <1>1, <1>2, <2>1 DEF Refusals
<1> QED BY <1>5, <1>6, <1>7 DEF p

\* Nothing but close statements follows a close statement.
CloseLast ==
  \A p \in Programs : \A i, j \in 1 .. Len(p) : p[i].kind = "close" /\ i < j => p[j].kind = "close"

ShutOf(q, c, s) == Refusals(q, c) /\ (~s.open => ToldShut(q, c))

NInv ==
  /\ ~aborted
  /\ Running /\ Statement.kind # "close" => Connected("client") /\ Connected("server")
  /\ \A e \in Ends : ShutOf(toManager[e], connects[e], sock[e])

\* The two parts after a step.
LEMMA NInvNext ==
  ASSUME ~aborted',
         Running' /\ Statement'.kind # "close" => Connected("client")' /\ Connected("server")',
         \A e \in Ends : ShutOf(toManager'[e], connects'[e], sock'[e])
  PROVE  NInv'
<1>1. \A e \in Ends : ShutOf(toManager[e], connects[e], sock[e])'
                      <=> ShutOf(toManager'[e], connects'[e], sock'[e])
  BY DEF ShutOf, Refusals, ToldShut
<1> QED BY <1>1 DEF NInv

\* A step of agent e.
LEMMA NInvAgent ==
  ASSUME TypeOK, NInv, UNCHANGED <<protocol, thread>>, NEW e \in Ends, NEW s, NEW p,
         sock' = [sock EXCEPT ![e] = s], toManager' = [toManager EXCEPT ![e] = p],
         ShutOf(p, connects[e], s)
  PROVE  NInv'
<1>1. TChannels /\ TSockets BY TypesAre
<1>2. Running' = Running /\ Statement' = Statement /\ UNCHANGED <<connects, aborted>>
  BY SameThread DEF thread
<1>3. \A d \in Ends : ShutOf(toManager'[d], connects'[d], sock'[d])
  BY <1>1, <1>2 DEF NInv, TChannels, TSockets
<1> QED BY <1>2, <1>3, NInvNext DEF NInv, Connected

\* A report with which nothing is refused.
LEMMA NInvReports ==
  ASSUME TypeOK, NInv, UNCHANGED <<protocol, thread>>, NEW e \in Ends, NEW o,
         sock' = [sock EXCEPT ![e] = o.sock], Reports(e, o),
         o.reports = <<>> \/ \E op \in Ops : o.reports = <<op>>,
         ~o.sock.open => ~sock[e].open \/ o.reports = <<"Close">>
  PROVE  NInv'
<1>1. TChannels BY TypesAre
<1>2. ShutOf(toManager[e], connects[e], sock[e]) /\ toManager[e] \in Seq(Answer)
  BY <1>1 DEF NInv, TChannels
<1>3. CASE o.reports = <<>>
  <2>1. toManager' = [toManager EXCEPT ![e] = toManager[e]]
    BY <1>1, <1>3, SameEntry DEF Reports, TChannels
  <2>2. <<>> # <<"Close">> OBVIOUS
  <2>3. ShutOf(toManager[e], connects[e], o.sock) BY <1>2, <1>3, <2>2 DEF ShutOf
  <2> QED BY <2>1, <2>3, NInvAgent
<1>4. ASSUME NEW op \in Ops, o.reports = <<op>> PROVE NInv'
  <2> DEFINE a == [op |-> op, ok |-> TRUE]
  <2>1. a \in Answer /\ a.ok /\ a.op = op BY DEF Answer
  <2>2. toManager' = [toManager EXCEPT ![e] = Append(toManager[e], a)]
    BY <1>1, <1>4 DEF Reports, TChannels
  <2> HIDE DEF a
  <2>3. o.reports = <<"Close">> => op = "Close"
    <3>1. <<op>>[1] = op /\ <<"Close">>[1] = "Close" OBVIOUS
    <3> QED BY <1>4, <3>1
  <2>4. ShutOf(Append(toManager[e], a), connects[e], o.sock)
    BY <1>2, <2>1, <2>3, AppendRefusals DEF ShutOf
  <2> QED BY <2>2, <2>4, NInvAgent
<1> QED BY <1>3, <1>4

LEMMA NInvNextStatement ==
  ASSUME CloseLast, TypeOK, NInv, NextStatement PROVE NInv'
<1>1. /\ UNCHANGED <<program, connects, toManager, sock, aborted>> /\ stmtPos' = stmtPos + 1
      /\ Running
  BY DEF NextStatement
<1>2. TThread BY TypesAre
<1>3. Running' /\ Statement'.kind # "close" => Statement.kind # "close"
  <2>1. program \in Programs /\ Len(program) \in Nat /\ stmtPos \in Nat \ {0}
    BY <1>2, TrafficAssumption, LenProperties DEF TThread
  <2>2. Running' => stmtPos + 1 \in 1 .. Len(program) /\ stmtPos \in 1 .. Len(program)
    BY <1>1, <2>1 DEF Running
  <2>3. \A i, j \in 1 .. Len(program) :
          program[i].kind = "close" /\ i < j => program[j].kind = "close"
    BY <2>1 DEF CloseLast
  <2>4. stmtPos < stmtPos + 1 BY <2>1
  <2>5. Statement = program[stmtPos] /\ Statement' = program[stmtPos + 1]
    BY <1>1 DEF Statement
  <2> QED BY <2>2, <2>3, <2>4, <2>5
<1>4. \A e \in Ends : ShutOf(toManager'[e], connects'[e], sock'[e]) BY <1>1 DEF NInv
<1>5. ~aborted' /\ (Running' /\ Statement'.kind # "close" => Connected("client")' /\ Connected("server")')
  BY <1>1, <1>3 DEF NInv, Connected
<1> QED BY <1>4, <1>5, NInvNext

LEMMA NInvDoStep ==
  ASSUME TypeOK, NInv, NEW r, Does(r) PROVE NInv'
<1>1. TThread BY TypesAre
<1>2. /\ Running /\ UNCHANGED <<toManager, sock>> /\ Statement' = Statement
      /\ r.end \in Ends /\ r.end \in {"client", "server"}
      /\ r.op = "Close" <=> Statement.kind = "close"
  BY <1>1, ActionIs DEF Does, Statement, Actions, Ends
<1>3. connects \in [Ends -> {"connected", "closing", "none"}] BY <1>1 DEF TThread
<1>4. ~Aborts(r) BY <1>2 DEF Aborts, NInv, Connected
<1>5. /\ ~aborted'
      /\ connects' = connects
           \/ (r.op = "Close" /\ Connected(r.end)
               /\ connects' = [connects EXCEPT ![r.end] = "closing"])
  BY <1>4 DEF Does, Requested, Skipped, NInv, Connected
<1>6. Statement.kind # "close" => connects' = connects BY <1>2, <1>5
<1>7. \A e \in Ends : connects'[e] = connects[e] \/ connects[e] = "connected"
  BY <1>2, <1>3, <1>5 DEF Connected
<1>8. \A e \in Ends : ShutOf(toManager'[e], connects'[e], sock'[e])
  <2> TAKE e \in Ends
  <2>1. CASE connects'[e] = connects[e] BY <1>2, <2>1 DEF NInv
  <2>2. CASE connects[e] = "connected"
    BY <1>2, <2>2 DEF NInv, ShutOf, Refusals, ToldShut
  <2> QED BY <1>7, <2>1, <2>2
<1> QED BY <1>2, <1>5, <1>6, <1>8, NInvNext DEF NInv, Connected

LEMMA NInvHear ==
  ASSUME TypeOK, AtStep, Place, Conn, NInv, NEW e \in Ends, NEW a, Hears(e, a) PROVE NInv'
<1>1. TThread /\ TChannels BY TypesAre
<1>2. /\ UNCHANGED <<sock>> /\ Statement' = Statement /\ a = Head(toManager[e])
      /\ toManager' = [toManager EXCEPT ![e] = Tail(@)] /\ toManager[e] # <<>>
  BY DEF Hears, Statement
<1>3. toManager[e] \in Seq(Answer) /\ Refusals(toManager[e], connects[e])
      /\ (~sock[e].open => ToldShut(toManager[e], connects[e]))
  BY <1>1 DEF TChannels, NInv, ShutOf
<1> DEFINE c == IF a.op \in {"Closed", "Close"} THEN "none" ELSE connects[e]
<1>4. /\ Refusals(Tail(toManager[e]), c)
      /\ ToldShut(toManager[e], connects[e]) => ToldShut(Tail(toManager[e]), c)
      /\ a.op # "Closed" /\ ~a.ok => a.op = "Close" /\ connects[e] = "none"
  BY <1>2, <1>3, TailRefusals
\* What is heard is a report or the answer that velm waits for.
<1>5. a.op # "Closed" => wait.end = e /\ wait.op = a.op
  <2>1. a = toManager[e][1] /\ 1 \in 1 .. Len(toManager[e])
    BY <1>2, <1>3, LenProperties, EmptySeq
  <2> QED BY <2>1 DEF Place, AnsweredOnce
<1>6. HeardClosed(e, a) \/ HeardAnswer(e, a) BY <1>5 DEF Hears, HeardStray
<1>7. ~aborted'
  BY <1>4, <1>6 DEF HeardClosed, HeardAnswer, NInv
<1>8. connects \in [Ends -> {"connected", "closing", "none"}] BY <1>1 DEF TThread
<1>9. \A d \in Ends : connects'[d] = IF d = e THEN c ELSE connects[d]
  <2>1. CASE HeardClosed(e, a) BY <1>8, <2>1 DEF HeardClosed
  <2>2. CASE HeardAnswer(e, a) BY <1>8, <2>2 DEF HeardAnswer
  <2> QED BY <1>6, <2>1, <2>2
<1> HIDE DEF c
<1>10. \A d \in Ends : ShutOf(toManager'[d], connects'[d], sock'[d])
  BY <1>1, <1>2, <1>3, <1>4, <1>9 DEF NInv, ShutOf, TChannels
<1>11. Running' /\ Statement'.kind # "close" => Connected("client")' /\ Connected("server")'
  <2> SUFFICES ASSUME Running', Statement.kind # "close"
               PROVE  Connected("client")' /\ Connected("server")'
    BY <1>2
  <2>1. Running BY <1>6 DEF Running, Hears, HeardClosed, HeardAnswer
  <2>2. Connected("client") /\ Connected("server") /\ Intact BY <2>1 DEF NInv, Conn
  <2>3. a.op # "Closed" BY <1>2, <1>3, <2>2, NoClosedTail DEF Intact
  <2>4. wait # None BY <1>6, <2>3 DEF HeardClosed, HeardAnswer
  <2>5. a.op # "Close" BY <1>1, <1>5, <2>3, <2>4, ActionIs DEF AtStep
  <2>6. connects' = connects BY <1>6, <2>3, <2>5 DEF HeardClosed, HeardAnswer
  <2> QED BY <2>2, <2>6 DEF Connected
<1> QED BY <1>7, <1>10, <1>11, NInvNext

LEMMA NInvServe ==
  ASSUME TypeOK, AtStep, Place, Conn, NInv, NEW e \in Ends, NEW r, Serves(e, r) PROVE NInv'
<1>1. TThread /\ TChannels /\ TSockets BY TypesAre
<1>2. UNCHANGED <<protocol, thread>> BY DEF Serves
<1>3. wait.end = e /\ wait.op = r.op /\ r.op \in Ops /\ Silent(e) BY TakenIs
<1>4. CASE Refused(e, r)
  <2> DEFINE a == [op |-> r.op, ok |-> FALSE]
  <2>1. ~sock[e].open BY <1>4 DEF Refused
  <2>2. wait # None BY <1>3, NoneIsNoAction
  <2>3. Running /\ Statement.kind = "close"
    BY <2>1, <2>2 DEF AtStep, NInv, Conn, Intact
  <2>4. r.op = "Close" BY <1>1, <1>3, <2>2, <2>3, ActionIs DEF AtStep
  <2>5. a \in Answer /\ a.op = "Close" BY <1>3, <2>4 DEF Answer
  <2>6. toManager' = [toManager EXCEPT ![e] = Append(toManager[e], a)]
    BY <1>1, <1>4 DEF Refused, TChannels
  <2> HIDE DEF a
  <2>7. sock' = [sock EXCEPT ![e] = sock[e]] BY <1>1, <1>4, SameEntry DEF Refused, TSockets
  <2>8. toManager[e] \in Seq(Answer) /\ SilentSeq(toManager[e])
        /\ Refusals(toManager[e], connects[e]) /\ ToldShut(toManager[e], connects[e])
    BY <1>1, <1>3, <2>1 DEF TChannels, Silent, SilentSeq, NInv, ShutOf
  <2>9. ShutOf(Append(toManager[e], a), connects[e], sock[e])
    BY <2>5, <2>8, AppendRefusals DEF ShutOf
  <2> QED BY <1>2, <2>6, <2>7, <2>9, NInvAgent
<1>5. ASSUME NEW o, Accepted(e, r, o),
             ServedRecv(e, r, o) \/ ServedEffect(e, r, o) \/ ServedClose(e, r, o)
               \/ \E f \in BOOLEAN : ServedSend(e, r, f, o)
      PROVE  NInv'
  <2>1. o.reports = <<>> \/ \E op \in Ops : o.reports = <<op>> BY <1>3, <1>5 DEF Accepted
  <2>2. sock[e].open /\ sock' = [sock EXCEPT ![e] = o.sock] /\ Reports(e, o)
    BY <1>5 DEF Accepted
  <2>3. ~o.sock.open => o.reports = <<"Close">>
    <3>1. CASE ServedRecv(e, r, o) \/ ServedEffect(e, r, o)
      BY <2>2, <3>1 DEF ServedRecv, ServedEffect, SendOnly
    <3>2. CASE ServedClose(e, r, o) BY <3>2 DEF ServedClose
    <3>3. ASSUME NEW f \in BOOLEAN, ServedSend(e, r, f, o) PROVE o.sock.open
      <4>1. sock[e] \in Good BY <1>1 DEF TSockets
      <4>2. r.count \in 0 .. MaxCount BY TrafficAssumption DEF Serves, Request
      <4>3. Renewed(sock[e], r.op, r.count).open = sock[e].open
        BY <1>3, <4>1, <4>2, RenewedResult
      <4> QED BY <2>2, <3>3, <4>3 DEF ServedSend, SendResult, SendOnly
    <3> QED BY <1>5, <3>1, <3>2, <3>3
  <2> QED BY <1>2, <2>1, <2>2, <2>3, NInvReports
<1> QED BY <1>4, <1>5 DEF Serves

LEMMA NInvProgress ==
  ASSUME TypeOK, NInv, NEW e \in Ends, NEW t, NEW rest, NEW f, NEW o, Progress(e, t, rest, f, o)
  PROVE  NInv'
<1>1. o.reports = <<>> \/ \E op \in Ops : o.reports = <<op>>
  BY DEF Progress, ReceiveResult, Ops
<1>2. ~o.sock.open => ~sock[e].open
  BY DEF Progress, Counted, ReceiveResult, SendOnly
<1> QED BY <1>1, <1>2, NInvReports DEF Progress

LEMMA NInvEnded ==
  ASSUME TypeOK, NInv, NEW e \in Ends, Ended(e) PROVE NInv'
<1> DEFINE s == [sock[e] EXCEPT !.open = FALSE, !.timer = FALSE]
           a == [op |-> "Closed", ok |-> TRUE]
<1>1. TChannels /\ TSockets BY TypesAre
<1>2. UNCHANGED <<protocol, thread>> BY DEF Ended
<1>3. sock' = [sock EXCEPT ![e] = s] BY <1>1 DEF Ended, TSockets
<1>4. toManager' = [toManager EXCEPT ![e] = Append(toManager[e], a)]
  BY <1>1 DEF Ended, TChannels
<1>5. a \in Answer /\ a.ok /\ a.op = "Closed" BY DEF Answer
<1> HIDE DEF s, a
<1>6. toManager[e] \in Seq(Answer) /\ Refusals(toManager[e], connects[e])
  BY <1>1 DEF TChannels, NInv, ShutOf
<1>7. ShutOf(Append(toManager[e], a), connects[e], s)
  BY <1>5, <1>6, AppendRefusals DEF ShutOf
<1> QED BY <1>2, <1>3, <1>4, <1>7, NInvAgent

LEMMA NInvSame ==
  ASSUME NInv, UNCHANGED <<protocol, thread, toManager, sock>> PROVE NInv'
<1>1. Running' = Running /\ Statement' = Statement /\ UNCHANGED <<connects, aborted>>
  BY SameThread DEF thread
<1>2. \A d \in Ends : ShutOf(toManager'[d], connects'[d], sock'[d])
  BY <1>1 DEF NInv
<1> QED BY <1>1, <1>2, NInvNext DEF NInv, Connected

LEMMA NInvInit == Init => NInv
<1> SUFFICES ASSUME Init PROVE NInv OBVIOUS
<1>1. \A e \in Ends : sock[e].open /\ connects[e] = "connected" BY DEF Init, NewSocket
<1>2. \A e \in Ends : \A i \in 1 .. Len(toManager[e]) : FALSE BY DEF Init
<1>3. \A e \in Ends : ShutOf(toManager[e], connects[e], sock[e])
  BY <1>1, <1>2 DEF ShutOf, Refusals
<1>4. ~aborted BY DEF Init
<1> QED BY <1>1, <1>3, <1>4 DEF NInv, Connected, Ends

LEMMA NInvStep ==
  ASSUME CloseLast, TInv, NInv, [Next]_vars PROVE NInv'
<1>0. TypeOK /\ AtStep /\ Place /\ Pace /\ Conn BY DEF TInv
<1>1. CASE NextStatement BY <1>0, <1>1, NInvNextStatement
<1>2. CASE DoStep
  <2>1. TThread BY <1>0, TypesAre
  <2>2. PICK r : Does(r) BY <1>2, <2>1, DoStepIs
  <2> QED BY <1>0, <2>2, NInvDoStep
<1>3. ASSUME NEW e \in Ends, Hear(e) PROVE NInv'
  <2>1. TChannels BY <1>0, TypesAre
  <2>2. PICK a : Hears(e, a) BY <1>3, <2>1, HearIs
  <2> QED BY <1>0, <2>2, NInvHear
<1>4. ASSUME NEW e \in Ends, Serve(e) PROVE NInv'
  <2>1. PICK r : Serves(e, r) BY <1>0, <1>4, ServeOf
  <2> QED BY <1>0, <2>1, NInvServe
<1>5. ASSUME NEW e \in Ends, Arrives(e) \/ Timeup(e) PROVE NInv'
  <2>1. PICK t, rest, o : \E f \in BOOLEAN : Progress(e, t, rest, f, o)
    BY <1>0, <1>5, ProgressOf
  <2>2. PICK f \in BOOLEAN : Progress(e, t, rest, f, o) BY <2>1
  <2> QED BY <1>0, <2>2, NInvProgress
<1>6. ASSUME NEW e \in Ends, EndOfStream(e) PROVE NInv'
  <2>1. Ended(e) BY <1>6 DEF EndOfStream, Ended
  <2> QED BY <1>0, <2>1, NInvEnded
<1>7. ASSUME NEW e \in Ends, Lose(e) \/ Repeat(e) PROVE NInv'
  BY <1>7, NInvSame DEF Lose, Repeat
<1>8. CASE UNCHANGED vars BY <1>8, NInvSame DEF vars
<1> QED BY <1>1, <1>2, <1>3, <1>4, <1>5, <1>6, <1>7, <1>8 DEF Next, Manager, Agent

\* Where nothing but a close follows a close no request fails, although the
\* socket that velm closes may just have been closed and reported by its vela
\* (TgAgntCtrl::opClose, TgAgntCtrl::recvCloseConfirm).
THEOREM NeverAbortsCorrect == ASSUME CloseLast PROVE Spec => []NeverAborts
<1>1. Init => NInv BY NInvInit
<1>2. TInv /\ NInv /\ [Next]_vars => NInv' BY NInvStep
<1>3. NInv => NeverAborts BY DEF NInv, NeverAborts
<1> QED BY <1>1, <1>2, <1>3, TInvAlways, PTL DEF Spec
=============================================================================
