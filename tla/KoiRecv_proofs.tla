--------------------------- MODULE KoiRecv_proofs ---------------------------
(***************************************************************************)
(* Proofs about the answers to RECV commands, for any number of sockets,   *)
(* messages and commands.                                                  *)
(***************************************************************************)
EXTENDS KoiRecv, FiniteSetTheorems, SequenceTheorems, WellFoundedInduction, TLAPS

(* The linked lists, KoiList *)

\* A finite nonempty set of integers has a least element: the set of the
\* elements below it is minimal, and strict inclusion is well-founded.
LEMMA LeastExists ==
  ASSUME NEW S, S \subseteq Int, IsFiniteSet(S), S # {}
  PROVE  \E k \in S : \A j \in S : k <= j
<1>. DEFINE Below(k) == {j \in S : j < k}
            T == {Below(k) : k \in S}
            R == StrictSubsetOrdering(S)
<1>1. T \subseteq SUBSET S /\ T # {}
  OBVIOUS
<1>2. PICK x \in T : \A y \in T : ~(<<y, x>> \in R)
  <2>1. IsWellFoundedOn(R, SUBSET S)
    BY FS_StrictSubsetOrderingWellFounded, FS_FiniteSubsetsOfFinite, Zenon
  <2>. HIDE DEF R, T
  <2>. QED  BY <1>1, <2>1, WFMin, Zenon
<1>3. PICK k \in S : x = Below(k)
  BY Zenon
<1>4. ASSUME NEW j \in S, j < k PROVE FALSE
  <2>1. \A i \in S : i < j => i < k
    BY <1>4
  <2>2. Below(j) \subseteq Below(k) /\ Below(j) \in T
    BY <2>1
  <2>3. j \in Below(k) /\ j \notin Below(j)
    BY <1>4
  <2>4. <<Below(j), Below(k)>> \in (SUBSET S) \X (SUBSET S)
    OBVIOUS
  <2>. HIDE DEF Below, T
  <2>5. <<Below(j), Below(k)>> \in R
    BY <2>2, <2>3, <2>4 DEF StrictSubsetOrdering
  <2>. QED  BY <1>2, <1>3, <2>2, <2>5, Zenon
<1>. QED  BY <1>4

\* And a greatest one, by the same argument on the elements above it.
LEMMA GreatestExists ==
  ASSUME NEW S, S \subseteq Int, IsFiniteSet(S), S # {}
  PROVE  \E k \in S : \A j \in S : j <= k
<1>. DEFINE Above(k) == {j \in S : j > k}
            T == {Above(k) : k \in S}
            R == StrictSubsetOrdering(S)
<1>1. T \subseteq SUBSET S /\ T # {}
  OBVIOUS
<1>2. PICK x \in T : \A y \in T : ~(<<y, x>> \in R)
  <2>1. IsWellFoundedOn(R, SUBSET S)
    BY FS_StrictSubsetOrderingWellFounded, FS_FiniteSubsetsOfFinite, Zenon
  <2>. HIDE DEF R, T
  <2>. QED  BY <1>1, <2>1, WFMin, Zenon
<1>3. PICK k \in S : x = Above(k)
  BY Zenon
<1>4. ASSUME NEW j \in S, j > k PROVE FALSE
  <2>1. \A i \in S : i > j => i > k
    BY <1>4
  <2>2. Above(j) \subseteq Above(k) /\ Above(j) \in T
    BY <2>1
  <2>3. j \in Above(k) /\ j \notin Above(j)
    BY <1>4
  <2>4. <<Above(j), Above(k)>> \in (SUBSET S) \X (SUBSET S)
    OBVIOUS
  <2>. HIDE DEF Above, T
  <2>5. <<Above(j), Above(k)>> \in R
    BY <2>2, <2>3, <2>4 DEF StrictSubsetOrdering
  <2>. QED  BY <1>2, <1>3, <2>2, <2>5, Zenon
<1>. QED  BY <1>4

\* What the two CHOOSEs of KoiList return.
LEMMA FirstIsLeast ==
  ASSUME NEW S, S \subseteq Int, IsFiniteSet(S), S # {}
  PROVE  First(S) \in S /\ \A j \in S : First(S) <= j
BY LeastExists DEF First

\* Likewise for the greatest.
LEMMA FinalIsGreatest ==
  ASSUME NEW S, S \subseteq Int, IsFiniteSet(S), S # {}
  PROVE  Final(S) \in S /\ \A j \in S : j <= Final(S)
BY GreatestExists DEF Final

\* A list whose nodes are numbered from 1.
IsList(l) ==
  /\ l \in [linked : SUBSET (Nat \ {0}), last : Nat]
  /\ IsFiniteSet(l.linked)

\* Linking adds at most the new node; what it drops lay behind the last
\* pointer.
LEMMA LinkFacts ==
  ASSUME NEW l, IsList(l), NEW n \in Nat \ {0}
  PROVE  /\ IsList(Link(l, n))
         /\ Link(l, n).linked \subseteq l.linked \union {n}
         /\ Link(l, n).last = n
<1>1. /\ Link(l, n).linked \subseteq l.linked \union {n}
      /\ Link(l, n).last = n
      /\ Link(l, n) = [linked |-> Link(l, n).linked, last |-> Link(l, n).last]
  BY DEF Link
<1>2. IsFiniteSet(l.linked \union {n})
  BY FS_AddElement DEF IsList
<1>3. IsFiniteSet(Link(l, n).linked)
  BY <1>1, <1>2, FS_Subset
<1>. QED  BY <1>1, <1>3 DEF IsList

\* Removal of one node removes just that node from what is reachable.
LEMMA UnlinkFacts ==
  ASSUME NEW l, IsList(l), NEW n \in Nat
  PROVE  IsList(Unlink(l, n)) /\ Unlink(l, n).linked = l.linked \ {n}
<1>. DEFINE before == {j \in l.linked : j < n}
<1>1. before \subseteq Int /\ IsFiniteSet(before)
  BY FS_Subset DEF IsList
<1>2. before # {} => Final(before) \in Nat
  <2>. HIDE DEF before
  <2>1. before \subseteq Nat
    BY DEF before, IsList
  <2>. QED  BY <1>1, <2>1, FinalIsGreatest
<1>3. IsFiniteSet(l.linked \ {n})
  BY FS_Subset DEF IsList
<1>4. Unlink(l, n) = [linked |-> l.linked \ {n},
                      last |-> IF before = {} THEN l.last ELSE Final(before)]
  BY DEF Unlink
<1>. QED  BY <1>2, <1>3, <1>4 DEF IsList

\* Removal of several, likewise.
LEMMA UnlinkAllFacts ==
  ASSUME NEW l, IsList(l), NEW S
  PROVE  IsList(UnlinkAll(l, S)) /\ UnlinkAll(l, S).linked = l.linked \ S
<1>1. UnlinkAll(l, S) = [linked |-> l.linked \ S, last |-> l.last]
  BY DEF UnlinkAll, IsList
<1>2. IsFiniteSet(l.linked \ S)
  BY FS_Subset DEF IsList
<1>. QED  BY <1>1, <1>2 DEF IsList

\* A walk skips nothing: between a node and its next one there is none.
LEMMA NextNodeFacts ==
  ASSUME NEW l, IsList(l), NEW n \in Nat
  PROVE  /\ NextNode(l, n) \in {0} \union l.linked
         /\ NextNode(l, n) = 0 => \A j \in l.linked : j <= n
         /\ NextNode(l, n) # 0 =>
              /\ NextNode(l, n) > n
              /\ \A j \in l.linked : j < NextNode(l, n) => j <= n
<1>. DEFINE behind == {j \in l.linked : j > n}
<1>1. behind \subseteq Int /\ IsFiniteSet(behind) /\ l.linked \subseteq Nat \ {0}
  BY FS_Subset DEF IsList
<1>2. NextNode(l, n) = IF behind = {} THEN 0 ELSE First(behind)
  BY DEF NextNode
<1>3. CASE behind = {}
  BY <1>1, <1>2, <1>3
<1>4. CASE behind # {}
  <2>1. First(behind) \in behind /\ \A j \in behind : First(behind) <= j
    <3>. HIDE DEF behind
    <3>. QED  BY <1>1, <1>4, FirstIsLeast
  <2>2. NextNode(l, n) = First(behind)
    BY <1>2, <1>4
  <2>. QED  BY <1>1, <2>1, <2>2
<1>. QED  BY <1>3, <1>4

\* Appending to a table leaves its entries in place.
LEMMA AppendFacts ==
  ASSUME NEW S, NEW s \in Seq(S), NEW e \in S
  PROVE  /\ Append(s, e) \in Seq(S)
         /\ DOMAIN Append(s, e) = 1 .. (Len(s) + 1)
         /\ Len(Append(s, e)) = Len(s) + 1
         /\ DOMAIN s = 1 .. Len(s) /\ Len(s) \in Nat
         /\ \A i \in DOMAIN s : Append(s, e)[i] = s[i]
         /\ Append(s, e)[Len(s) + 1] = e
OBVIOUS

\* A function on 1 .. n is a sequence.
LEMMA FunctionIsSeq ==
  ASSUME NEW S, NEW n \in Nat, NEW f \in [1 .. n -> S]
  PROVE  f \in Seq(S) /\ Len(f) = n
OBVIOUS

----------------------------------------------------------------------------
(* The component *)

----------------------------------------------------------------------------
(* The inductive invariant, by the tables it is about. *)

\* The socket table.
SocketsInv == sockets \in Seq(SocketEntry)

\* The message table: ids grow along the list and stay below the counter.
MessagesInv ==
  /\ message \in Seq(MessageEntry)
  /\ \A m \in DOMAIN message : message[m].socketid \in DOMAIN sockets
  /\ IsList(msgs) /\ msgs.linked \subseteq DOMAIN message
  /\ msg_dataid \in 0 .. MSG_MAXMSGNUM
  /\ \A m \in msgs.linked : message[m].dataid <= msg_dataid
  /\ DataIdsGrow

\* The waiting RECV commands.
TimersInv ==
  /\ request \in Seq(RequestEntry)
  /\ IsList(timers) /\ timers.linked \subseteq DOMAIN request
  /\ rt_num \in Nat
  /\ CounterCoversList
  /\ OneTimerPerSocket

\* The answers.  That a message is not delivered again follows from its
\* being marked read; that deliveries keep the order, from every unread
\* message of a socket being newer than what the socket delivered.
AcksInv ==
  /\ acks \in Seq(AckEntry)
  /\ \A i \in DOMAIN acks :
       acks[i].req \in DOMAIN request /\ acks[i].req \notin timers.linked
  /\ AckedOnce
  /\ \A i \in DOMAIN acks :
       Delivery(i) =>
         /\ acks[i].msg \in DOMAIN message
         /\ message[acks[i].msg].read
         /\ \A n \in msgs.linked :
              /\ message[n].mode = "RECV" /\ ~message[n].read
              /\ message[n].socketid = message[acks[i].msg].socketid
              => acks[i].msg < n
  /\ DeliveredOnce
  /\ DeliveredInOrder

NotDue(r) == NoData(request[r].socketid) /\ request[r].expire > current_time

\* The loop: a walk stands on a node of the list, and behind it nothing is due.
LoopInv ==
  /\ now \in Nat /\ current_time \in Nat
  /\ phase \in {"close", "walk", "select"}
  /\ pos \in {0} \union DOMAIN request
  /\ phase = "walk" => pos \in timers.linked
  /\ phase = "walk" => \A r \in timers.linked : r < pos => NotDue(r)
  /\ WalkLeavesNothingDue

IInv == SocketsInv /\ MessagesInv /\ TimersInv /\ AcksInv /\ LoopInv

----------------------------------------------------------------------------
(* What the helpers of the model do to the tables. *)

\* Messages are only added, to an old one nothing happens but that it is
\* marked read, and what is new on the list is a new message.
MessagesKept ==
  /\ DOMAIN message \subseteq DOMAIN message'
  /\ \A m \in DOMAIN message :
       /\ message'[m].socketid = message[m].socketid
       /\ message'[m].mode = message[m].mode
       /\ message[m].read => message'[m].read
  /\ \A m \in msgs'.linked : m \in msgs.linked \/ m > Len(message)

\* RECV commands are only added, and what is new on the list is a new one.
TimersKept ==
  /\ DOMAIN request \subseteq DOMAIN request'
  /\ \A r \in timers'.linked : r \in timers.linked \/ r > Len(request)

\* The message table stays as it is while the socket table grows.
LEMMA MessagesUnchanged ==
  ASSUME MessagesInv, UNCHANGED <<message, msgs, msg_dataid>>,
         DOMAIN sockets \subseteq DOMAIN sockets'
  PROVE  MessagesInv' /\ MessagesKept
BY DEF MessagesInv, MessagesKept, DataIdsGrow

\* kDataRegist links at most one message, with an id above all others.
LEMMA RegistFacts ==
  ASSUME MessagesInv, NEW t, NEW s \in Nat, NEW mode \in {"SEND", "RECV"},
         kDataRegist(t, s, mode),
         DOMAIN sockets \subseteq DOMAIN sockets', s \in DOMAIN sockets'
  PROVE  MessagesInv' /\ MessagesKept
<1>1. CASE RegistRefused(t, s)
  BY <1>1, MessagesUnchanged DEF kDataRegist
<1>2. CASE ~RegistRefused(t, s)
  <2>. DEFINE new == NewMessage(s, mode)
              n == Len(message) + 1
  <2>1. /\ message' = Append(message, new)
        /\ msgs' = Link(msgs, n)
        /\ msg_dataid' = msg_dataid + 1
        /\ msg_dataid \in 0 .. MSG_MAXMSGNUM /\ msg_dataid # MSG_MAXMSGNUM
    BY <1>2 DEF kDataRegist, RegistRefused, MessagesInv
  <2>2. new \in MessageEntry /\ new.socketid = s /\ new.dataid = msg_dataid + 1
    BY <2>1, RecvAssumption DEF NewMessage, MessageEntry
  <2>. HIDE DEF new
  <2>3. /\ message' \in Seq(MessageEntry)
        /\ DOMAIN message' = 1 .. n
        /\ DOMAIN message = 1 .. Len(message) /\ Len(message) \in Nat
        /\ \A m \in DOMAIN message : message'[m] = message[m]
        /\ message'[n] = new
    BY <2>1, <2>2, AppendFacts DEF MessagesInv
  <2>4. IsList(msgs') /\ msgs'.linked \subseteq msgs.linked \union {n}
    BY <2>1, <2>3, LinkFacts DEF MessagesInv
  <2>5. MessagesKept
    BY <2>3, <2>4 DEF MessagesKept
  <2>6. msg_dataid' \in 0 .. MSG_MAXMSGNUM
    BY <2>1, RecvAssumption
  <2>7. \A m \in DOMAIN message' : message'[m].socketid \in DOMAIN sockets'
    BY <2>2, <2>3 DEF MessagesInv
  <2>10. \A m \in msgs.linked :
           /\ m \in DOMAIN message /\ m < n
           /\ message'[m].dataid = message[m].dataid
           /\ message[m].dataid \in Nat /\ message[m].dataid <= msg_dataid
    <3>1. \A m \in DOMAIN message : message[m] \in MessageEntry
      BY <2>3 DEF MessagesInv
    <3>. QED  BY <3>1, <2>3 DEF MessagesInv, MessageEntry
  <2>11. message'[n].dataid = msg_dataid + 1
    BY <2>2, <2>3
  <2>8. \A m \in msgs'.linked : message'[m].dataid <= msg_dataid'
    BY <2>1, <2>4, <2>10, <2>11
  <2>9. ASSUME NEW m \in msgs'.linked, NEW k \in msgs'.linked, m < k
        PROVE  message'[m].dataid < message'[k].dataid
    <3>1. m \in msgs.linked
      BY <2>4, <2>9, <2>10, <2>3
    <3>2. CASE k = n
      BY <3>1, <3>2, <2>1, <2>10, <2>11
    <3>3. CASE k \in msgs.linked
      BY <3>1, <3>3, <2>9, <2>10 DEF MessagesInv, DataIdsGrow
    <3>. QED  BY <3>2, <3>3, <2>4
  <2>12. DataIdsGrow'
    BY <2>9 DEF DataIdsGrow
  <2>. QED
    BY <2>3, <2>4, <2>5, <2>6, <2>7, <2>8, <2>12 DEF MessagesInv
<1>. QED  BY <1>1, <1>2

\* A flush removes messages and adds none.
LEMMA ClearFacts ==
  ASSUME MessagesInv, NEW sf, NEW df, NEW s, NEW d, kDataClear(sf, df, s, d),
         UNCHANGED <<message, sockets>>
  PROVE  MessagesInv' /\ MessagesKept
<1>1. CASE UNCHANGED <<msgs, msg_dataid>>
  BY <1>1, MessagesUnchanged
<1>2. CASE kDataInit
  <2>1. msgs' = EmptyList /\ msg_dataid' = 0
    BY <1>2 DEF kDataInit
  <2>2. IsList(msgs') /\ msgs'.linked = {}
    BY <2>1, FS_EmptySet DEF IsList, EmptyList
  <2>. QED  BY <2>1, <2>2, RecvAssumption
            DEF MessagesInv, MessagesKept, DataIdsGrow
<1>3. CASE /\ msgs' = UnlinkAll(msgs, Matching(sf, df, s, d))
           /\ UNCHANGED msg_dataid
  <2>1. IsList(msgs') /\ msgs'.linked \subseteq msgs.linked
    BY <1>3, UnlinkAllFacts DEF MessagesInv
  <2>. QED  BY <1>3, <2>1 DEF MessagesInv, MessagesKept, DataIdsGrow
<1>. QED  BY <1>1, <1>2, <1>3 DEF kDataClear

\* Marking a message changes nothing the message table promises.
LEMMA MarkReadFacts ==
  ASSUME MessagesInv, NEW m \in DOMAIN message, MarkRead(m),
         UNCHANGED <<msgs, msg_dataid>>, UNCHANGED sockets
  PROVE  /\ MessagesInv' /\ MessagesKept
         /\ DOMAIN message' = DOMAIN message
         /\ message'[m].read
<1>. DEFINE e == [message[m] EXCEPT !.read = TRUE]
<1>0. DOMAIN message = 1 .. Len(message) /\ Len(message) \in Nat
  BY DEF MessagesInv
<1>1. message[m] \in MessageEntry
  BY <1>0 DEF MessagesInv
<1>2. /\ e \in MessageEntry /\ e.dataid = message[m].dataid /\ e.read
      /\ e.socketid = message[m].socketid /\ e.mode = message[m].mode
  BY <1>1 DEF MessageEntry
<1>3. message' = [message EXCEPT ![m] = e]
  BY DEF MarkRead
<1>. HIDE DEF e
<1>4. /\ message' \in Seq(MessageEntry) /\ DOMAIN message' = DOMAIN message
      /\ \A k \in DOMAIN message : message'[k] = IF k = m THEN e ELSE message[k]
  BY <1>0, <1>2, <1>3, ExceptSeq DEF MessagesInv
<1>5. MessagesInv'
  BY <1>2, <1>4 DEF MessagesInv, DataIdsGrow
<1>6. MessagesKept
  BY <1>2, <1>4 DEF MessagesKept
<1>. QED  BY <1>2, <1>4, <1>5, <1>6

\* What kDataGetDataBySocketid returns is an unread message received, and no
\* other unread message of its socket is older: whichever socket id covers
\* the one covers the other.
LEMMA DataForFacts ==
  ASSUME MessagesInv, NEW id, HasData(id)
  PROVE  /\ DataFor(id) \in msgs.linked
         /\ message[DataFor(id)].mode = "RECV" /\ ~message[DataFor(id)].read
         /\ \A n \in msgs.linked :
              /\ message[n].mode = "RECV" /\ ~message[n].read
              /\ message[n].socketid = message[DataFor(id)].socketid
              => DataFor(id) <= n
<1>1. Wanted(id) # {} /\ Wanted(id) \subseteq msgs.linked
  BY DEF HasData, Wanted
<1>2. IsFiniteSet(Wanted(id)) /\ Wanted(id) \subseteq Int
  BY <1>1, FS_Subset DEF MessagesInv, IsList
<1>3. DataFor(id) \in Wanted(id) /\ \A n \in Wanted(id) : DataFor(id) <= n
  BY <1>1, <1>2, FirstIsLeast DEF DataFor
<1>4. ASSUME NEW n \in msgs.linked,
             message[n].mode = "RECV", ~message[n].read,
             message[n].socketid = message[DataFor(id)].socketid
      PROVE  n \in Wanted(id)
  BY <1>3, <1>4 DEF Wanted
<1>5. message[DataFor(id)].mode = "RECV" /\ ~message[DataFor(id)].read
  BY <1>3 DEF Wanted
<1>. QED  BY <1>1, <1>3, <1>4, <1>5

\* A new RECV command, with or without a node on the list.
LEMMA TimerSetFacts ==
  ASSUME TimersInv, NEW q \in RequestEntry, request' = Append(request, q),
         \/ kRecvTimerSet(q.socketid)
         \/ UNCHANGED <<timers, rt_num>>
  PROVE  TimersInv' /\ TimersKept /\ DOMAIN request' = 1 .. (Len(request) + 1)
<1>. DEFINE n == Len(request) + 1
<1>1. /\ request' \in Seq(RequestEntry)
      /\ DOMAIN request' = 1 .. n
      /\ DOMAIN request = 1 .. Len(request) /\ Len(request) \in Nat
      /\ \A r \in DOMAIN request : request'[r] = request[r]
      /\ request'[n] = q
  BY AppendFacts DEF TimersInv
<1>2. \A r \in timers.linked : r \in DOMAIN request /\ r # n
  BY <1>1 DEF TimersInv
<1>3. CASE UNCHANGED <<timers, rt_num>>
  BY <1>1, <1>2, <1>3
  DEF TimersInv, TimersKept, CounterCoversList, OneTimerPerSocket
<1>4. CASE ~TimerRefused(q.socketid) /\ kRecvTimerSet(q.socketid)
  <2>1. timers' = Link(timers, n) /\ rt_num' = rt_num + 1
    BY <1>4 DEF kRecvTimerSet
  <2>2. IsList(timers') /\ timers'.linked \subseteq timers.linked \union {n}
    BY <2>1, <1>1, LinkFacts DEF TimersInv
  <2>3. CounterCoversList'
    <3>1. /\ IsFiniteSet(timers.linked \union {n})
          /\ Cardinality(timers.linked \union {n}) = Cardinality(timers.linked) + 1
      BY <1>2, FS_AddElement DEF TimersInv, IsList
    <3>2. /\ IsFiniteSet(timers'.linked)
          /\ Cardinality(timers'.linked) <= Cardinality(timers.linked \union {n})
      BY <2>2, <3>1, FS_Subset
    <3>3. Cardinality(timers.linked) \in Nat /\ Cardinality(timers'.linked) \in Nat
      BY <3>2, FS_CardinalityType DEF TimersInv, IsList
    <3>. QED  BY <2>1, <3>1, <3>2, <3>3 DEF TimersInv, CounterCoversList
  <2>4. OneTimerPerSocket'
    BY <1>1, <1>2, <1>4, <2>2 DEF TimersInv, OneTimerPerSocket, TimerRefused
  <2>. QED  BY <1>1, <2>1, <2>2, <2>3, <2>4 DEF TimersInv, TimersKept
<1>. QED  BY <1>3, <1>4 DEF kRecvTimerSet

\* The removal of a waiting RECV lowers counter and list together.
LEMMA TimerRemoveFacts ==
  ASSUME TimersInv, NEW r \in timers.linked, kRecvTimerRemove(r), UNCHANGED request
  PROVE  /\ TimersInv' /\ TimersKept
         /\ timers'.linked = timers.linked \ {r}
<1>1. timers' = Unlink(timers, r) /\ rt_num' = rt_num - 1
  BY DEF kRecvTimerRemove
<1>2. r \in Nat /\ IsFiniteSet(timers.linked)
  BY DEF TimersInv, IsList
<1>3. IsList(timers') /\ timers'.linked = timers.linked \ {r}
  BY <1>1, <1>2, UnlinkFacts DEF TimersInv
<1>4. /\ Cardinality(timers'.linked) = Cardinality(timers.linked) - 1
      /\ Cardinality(timers'.linked) \in Nat
      /\ Cardinality(timers.linked) \in Nat
  <2>1. IsFiniteSet(timers'.linked)
    BY <1>3 DEF IsList
  <2>. QED  BY <1>2, <1>3, <2>1, FS_RemoveElement, FS_CardinalityType
<1>. QED  BY <1>1, <1>3, <1>4
          DEF TimersInv, TimersKept, CounterCoversList, OneTimerPerSocket

\* Dropping all waiting RECVs.
LEMMA TimerInitFacts ==
  ASSUME TimersInv, kRecvTimerInit, UNCHANGED request
  PROVE  TimersInv' /\ TimersKept
<1>1. CASE timers.linked = {}
  BY <1>1 DEF kRecvTimerInit, TimersInv, TimersKept, CounterCoversList, OneTimerPerSocket
<1>2. CASE timers.linked # {}
  <2>1. timers' = [timers EXCEPT !.linked = {}] /\ rt_num' = 0
    BY <1>2 DEF kRecvTimerInit
  <2>2. IsList(timers') /\ timers'.linked = {}
    BY <2>1, FS_EmptySet DEF TimersInv, IsList
  <2>. QED  BY <2>1, <2>2, FS_EmptySet
            DEF TimersInv, TimersKept, CounterCoversList, OneTimerPerSocket
<1>. QED  BY <1>1, <1>2

----------------------------------------------------------------------------
(* What the steps do to the answers. *)

\* The answers given so far are still what AcksInv says of them, in the new
\* tables.
AnswersHold ==
  \A i \in DOMAIN acks :
    /\ acks[i].req \in DOMAIN request' /\ acks[i].req \notin timers'.linked
    /\ Delivery(i) =>
         /\ acks[i].msg \in DOMAIN message /\ acks[i].msg \in DOMAIN message'
         /\ message'[acks[i].msg].read
         /\ message'[acks[i].msg].socketid = message[acks[i].msg].socketid
         /\ \A n \in msgs'.linked :
              /\ message'[n].mode = "RECV" /\ ~message'[n].read
              /\ message'[n].socketid = message'[acks[i].msg].socketid
              => acks[i].msg < n

\* Every step leaves the earlier answers valid: what it adds to the lists
\* is new.
LEMMA AnswersStay ==
  ASSUME MessagesInv, MessagesInv', TimersInv, AcksInv, MessagesKept, TimersKept
  PROVE  AnswersHold
<1>1. /\ \A i \in DOMAIN acks : acks[i].req \in DOMAIN request
      /\ DOMAIN request = 1 .. Len(request) /\ Len(request) \in Nat
      /\ DOMAIN message = 1 .. Len(message) /\ Len(message) \in Nat
      /\ msgs'.linked \subseteq Nat
  BY DEF AcksInv, TimersInv, MessagesInv, IsList
<1>2. \A i \in DOMAIN acks :
        acks[i].req \in DOMAIN request' /\ acks[i].req \notin timers'.linked
  BY <1>1 DEF AcksInv, TimersKept
<1>3. ASSUME NEW i \in DOMAIN acks, Delivery(i)
      PROVE  /\ acks[i].msg \in DOMAIN message /\ acks[i].msg \in DOMAIN message'
             /\ message'[acks[i].msg].read
             /\ message'[acks[i].msg].socketid = message[acks[i].msg].socketid
  BY <1>3 DEF AcksInv, MessagesKept
<1>4. ASSUME NEW i \in DOMAIN acks, Delivery(i),
             NEW n \in msgs'.linked,
             message'[n].mode = "RECV", ~message'[n].read,
             message'[n].socketid = message'[acks[i].msg].socketid
      PROVE  acks[i].msg < n
  <2>1. acks[i].msg \in DOMAIN message
    BY <1>3, <1>4
  <2>2. CASE n > Len(message)
    BY <1>1, <2>1, <2>2
  <2>3. CASE n \in msgs.linked
    <3>1. /\ n \in DOMAIN message
          /\ message[n].mode = "RECV" /\ ~message[n].read
          /\ message[n].socketid = message[acks[i].msg].socketid
      BY <1>3, <1>4, <2>1, <2>3 DEF MessagesInv, MessagesKept
    <3>. QED  BY <1>4, <2>3, <3>1 DEF AcksInv
  <2>. QED  BY <2>2, <2>3 DEF MessagesKept
<1>. QED  BY <1>2, <1>3, <1>4 DEF AnswersHold

\* A step that writes no ack.
LEMMA NoAnswer ==
  ASSUME AcksInv, AnswersHold, UNCHANGED acks
  PROVE  AcksInv'
<1>1. AckedOnce' /\ DeliveredOnce'
  BY DEF AcksInv, AckedOnce, DeliveredOnce, Delivery
<1>2. DeliveredInOrder'
  BY DEF AcksInv, AnswersHold, DeliveredInOrder, Delivery
<1>. QED  BY <1>1, <1>2 DEF AcksInv, AnswersHold, Delivery

\* A step that answers RECV r, which was not answered before and does not
\* wait any longer; if with a message, then with one that no other answer
\* holds, newer than all that its socket delivered and older than all that
\* it still has to deliver.
LEMMA Answer ==
  ASSUME AcksInv, AnswersHold,
         NEW r \in DOMAIN request', r \in Nat, r \notin timers'.linked,
         \A i \in DOMAIN acks : acks[i].req # r,
         NEW result \in {"OK", "NG_TIMEOUT", "NG_OTHER"}, NEW m \in Nat,
         Ack(r, result, m),
         result = "OK" =>
           /\ m \in DOMAIN message' /\ message'[m].read
           /\ \A i \in DOMAIN acks :
                /\ Delivery(i)
                => /\ acks[i].msg # m
                   /\ message'[acks[i].msg].socketid = message'[m].socketid
                      => acks[i].msg < m
           /\ \A n \in msgs'.linked :
                /\ message'[n].mode = "RECV" /\ ~message'[n].read
                /\ message'[n].socketid = message'[m].socketid
                => m < n
  PROVE  AcksInv'
<1>. DEFINE e == [req |-> r, result |-> result, msg |-> m]
<1>0. PICK k \in Nat : k = Len(acks) + 1
  BY DEF AcksInv
<1>1. e \in AckEntry /\ e.req = r /\ e.result = result /\ e.msg = m
  BY DEF AckEntry
<1>2. acks' = Append(acks, e)
  BY DEF Ack
<1>. HIDE DEF e
<1>3. /\ acks' \in Seq(AckEntry)
      /\ DOMAIN acks' = 1 .. k
      /\ DOMAIN acks = 1 .. Len(acks) /\ Len(acks) \in Nat
      /\ \A i \in DOMAIN acks : acks'[i] = acks[i]
      /\ acks'[k] = e
  BY <1>0, <1>1, <1>2, AppendFacts DEF AcksInv
<1>4. /\ \A i \in DOMAIN acks' : i \in DOMAIN acks \/ i = k
      /\ \A i \in DOMAIN acks : i < k /\ i # k
      /\ \A i \in DOMAIN acks : Delivery(i)' <=> Delivery(i)
      /\ Delivery(k)' <=> result = "OK"
  <2>1. /\ \A i \in DOMAIN acks' : i \in DOMAIN acks \/ i = k
        /\ \A i \in DOMAIN acks : i < k /\ i # k
    BY <1>0, <1>3
  <2>2. \A i \in DOMAIN acks : Delivery(i)' <=> Delivery(i)
    BY <1>3 DEF Delivery
  <2>3. Delivery(k)' <=> result = "OK"
    BY <1>1, <1>3 DEF Delivery
  <2>. QED  BY <2>1, <2>2, <2>3
<1>5. AckedOnce'
  BY <1>1, <1>3, <1>4 DEF AcksInv, AckedOnce
<1>6. DeliveredOnce'
  BY <1>1, <1>3, <1>4 DEF AcksInv, DeliveredOnce
<1>7. DeliveredInOrder'
  <2>1. ASSUME NEW i \in DOMAIN acks', NEW j \in DOMAIN acks',
               Delivery(i)', Delivery(j)', i < j,
               message'[acks'[i].msg].socketid = message'[acks'[j].msg].socketid
        PROVE  acks'[i].msg < acks'[j].msg
    <3>1. i \in DOMAIN acks
      <4>1. i # k
        BY <1>3, <1>4, <2>1
      <4>. QED  BY <4>1, <1>4
    <3>2. CASE j = k
      BY <1>1, <1>3, <1>4, <2>1, <3>1, <3>2
    <3>3. CASE j \in DOMAIN acks
      BY <1>3, <1>4, <2>1, <3>1, <3>3 DEF AcksInv, AnswersHold, DeliveredInOrder
    <3>. QED  BY <1>4, <3>2, <3>3
  <2>. QED  BY <2>1 DEF DeliveredInOrder
<1>8. \A i \in DOMAIN acks' :
        acks'[i].req \in DOMAIN request' /\ acks'[i].req \notin timers'.linked
  BY <1>1, <1>3, <1>4 DEF AnswersHold
<1>9. ASSUME NEW i \in DOMAIN acks', Delivery(i)'
      PROVE  /\ acks'[i].msg \in DOMAIN message'
             /\ message'[acks'[i].msg].read
             /\ \A n \in msgs'.linked :
                  /\ message'[n].mode = "RECV" /\ ~message'[n].read
                  /\ message'[n].socketid = message'[acks'[i].msg].socketid
                  => acks'[i].msg < n
  <2>1. CASE i = k
    BY <1>1, <1>3, <1>4, <1>9, <2>1
  <2>2. CASE i \in DOMAIN acks
    BY <1>3, <1>4, <1>9, <2>2 DEF AnswersHold
  <2>. QED  BY <1>4, <2>1, <2>2
<1>. QED  BY <1>3, <1>5, <1>6, <1>7, <1>8, <1>9 DEF AcksInv

----------------------------------------------------------------------------
(* What the steps do to the socket table and to the loop. *)

\* A new entry at the end of the table.
LEMMA NewSocketFacts ==
  ASSUME SocketsInv, NEW type \in SocketTypes, NEW parent \in Nat,
         sockets' = Append(sockets, NewSocket(type, parent))
  PROVE  /\ SocketsInv'
         /\ DOMAIN sockets \subseteq DOMAIN sockets'
         /\ Len(sockets) + 1 \in DOMAIN sockets'
<1>. DEFINE e == NewSocket(type, parent)
<1>1. e \in SocketEntry
  BY DEF NewSocket, SocketEntry
<1>. HIDE DEF e
<1>2. sockets' = Append(sockets, e)
  BY DEF e
<1>. QED  BY <1>1, <1>2, AppendFacts DEF SocketsInv

\* Closing changes the status of entries, never their number.
LEMMA MarkClosedFacts ==
  ASSUME SocketsInv, NEW S, sockets' = MarkClosed(sockets, S)
  PROVE  SocketsInv' /\ DOMAIN sockets' = DOMAIN sockets
<1>1. DOMAIN sockets = 1 .. Len(sockets) /\ Len(sockets) \in Nat
  BY DEF SocketsInv
<1>2. ASSUME NEW k \in DOMAIN sockets
      PROVE  /\ sockets[k] \in SocketEntry
             /\ [sockets[k] EXCEPT !.alive = FALSE] \in SocketEntry
  <2>1. sockets[k] \in SocketEntry
    BY <1>1 DEF SocketsInv
  <2>. QED  BY <2>1 DEF SocketEntry
<1>3. sockets' \in [1 .. Len(sockets) -> SocketEntry]
  BY <1>1, <1>2 DEF MarkClosed
<1>. QED  BY <1>1, <1>3, FunctionIsSeq DEF SocketsInv

\* A RECV that the walk found not due does not become due while messages
\* are only marked read.
LEMMA NotDueStays ==
  ASSUME MessagesInv, MessagesKept, NEW r, NotDue(r),
         UNCHANGED <<sockets, msgs, request, current_time>>
  PROVE  NotDue(r)'
<1>. DEFINE id == request[r].socketid
<1>1. BadId(id)' <=> BadId(id)
  BY DEF BadId
<1>2. Wanted(id)' \subseteq Wanted(id)
  BY DEF Wanted, MessagesInv, MessagesKept
<1>3. HasData(id)' => HasData(id)
  BY <1>1, <1>2 DEF HasData
<1>. QED  BY <1>1, <1>3 DEF NotDue, NoData

\* After an event the loop starts again.
LEMMA ServedFacts ==
  ASSUME LoopInv, Served, DOMAIN request \subseteq DOMAIN request'
  PROVE  LoopInv'
BY DEF LoopInv, Served, WalkLeavesNothingDue

\* The walk goes on to a node of the list, and has seen all before it.
LEMMA WalkOnFacts ==
  ASSUME MessagesInv, MessagesKept, TimersInv, LoopInv, phase = "walk", WalkOn,
         \/ timers'.linked = timers.linked \ {pos}
         \/ timers'.linked = timers.linked /\ NotDue(pos)
  PROVE  LoopInv'
<1>1. /\ pos \in timers.linked /\ pos \in Nat /\ timers.linked \subseteq Nat \ {0}
      /\ timers.linked \subseteq DOMAIN request
  BY DEF LoopInv, TimersInv, IsList
<1>2. /\ pos' = NextNode(timers, pos)
      /\ phase' = IF pos' = 0 THEN "select" ELSE "walk"
      /\ UNCHANGED <<sockets, msgs, request, now, current_time>>
  BY DEF WalkOn
<1>3. /\ pos' \in {0} \union timers.linked
      /\ pos' = 0 => \A j \in timers.linked : j <= pos
      /\ pos' # 0 => /\ pos' > pos
                     /\ \A j \in timers.linked : j < pos' => j <= pos
  BY <1>1, <1>2, NextNodeFacts DEF TimersInv
<1>4. ASSUME NEW r \in timers'.linked, r <= pos
      PROVE  NotDue(r)'
  <2>1. r \in timers.linked /\ r \in Nat
    BY <1>1, <1>4
  <2>2. NotDue(r)
    <3>1. CASE r = pos
      BY <3>1, <1>4
    <3>2. CASE r < pos
      BY <3>2, <2>1 DEF LoopInv
    <3>. QED  BY <1>1, <1>4, <2>1, <3>1, <3>2
  <2>. QED  BY <1>2, <2>2, NotDueStays
<1>5. phase' = "walk" => pos' \in timers'.linked
  BY <1>1, <1>2, <1>3
<1>6. phase' = "walk" => \A r \in timers'.linked : r < pos' => NotDue(r)'
  BY <1>2, <1>3, <1>4
<1>7. phase' = "select" => \A r \in timers'.linked : NotDue(r)'
  BY <1>2, <1>3, <1>4
<1>8. WalkLeavesNothingDue'
  BY <1>7 DEF WalkLeavesNothingDue, NotDue
<1>. QED  BY <1>1, <1>2, <1>3, <1>5, <1>6, <1>8 DEF LoopInv

----------------------------------------------------------------------------
(* Every step keeps the invariant. *)

\* The tables of a koid that has just started.
LEMMA InitIInv == Init => IInv
<1>. SUFFICES ASSUME Init PROVE IInv
  OBVIOUS
<1>1. SocketsInv
  BY DEF Init, SocketsInv, NewSocket, SocketEntry, SocketTypes, UnixTypes
<1>2. IsList(EmptyList) /\ EmptyList.linked = {} /\ Cardinality({}) = 0
  BY FS_EmptySet DEF EmptyList, IsList
<1>3. MessagesInv
  BY <1>2, RecvAssumption DEF Init, MessagesInv, DataIdsGrow
<1>4. TimersInv
  BY <1>2 DEF Init, TimersInv, CounterCoversList, OneTimerPerSocket
<1>5. AcksInv
  BY DEF Init, AcksInv, AckedOnce, DeliveredOnce, DeliveredInOrder
<1>6. LoopInv
  BY DEF Init, LoopInv, WalkLeavesNothingDue
<1>. QED  BY <1>1, <1>3, <1>4, <1>5, <1>6 DEF IInv

\* The table of waiting RECVs stays as it is.
LEMMA TimersUnchanged ==
  ASSUME TimersInv, UNCHANGED <<request, timers, rt_num>>
  PROVE  TimersInv' /\ TimersKept
BY DEF TimersInv, TimersKept, CounterCoversList, OneTimerPerSocket

\* An event that leaves the waiting RECVs and the answers alone.
LEMMA QuietEvent ==
  ASSUME IInv, Served, SocketsInv', MessagesInv', MessagesKept,
         UNCHANGED <<request, timers, rt_num, acks>>
  PROVE  IInv'
<1>1. TimersInv' /\ TimersKept
  BY TimersUnchanged DEF IInv
<1>2. AcksInv'
  BY <1>1, AnswersStay, NoAnswer DEF IInv
<1>3. LoopInv'
  BY ServedFacts DEF IInv
<1>. QED  BY <1>1, <1>2, <1>3 DEF IInv

\* The events that open a socket.
LEMMA OpeningKeepsIInv ==
  ASSUME IInv,
         \/ ClientConnects
         \/ \E type \in OpenTypes : OpenReq(type)
         \/ \E s \in DOMAIN sockets : Accept(s) \/ AcceptUdp(s)
  PROVE  IInv'
<1>1. PICK type \in SocketTypes, parent \in Nat :
        sockets' = Append(sockets, NewSocket(type, parent))
  <2>1. DOMAIN sockets \subseteq Nat /\ OpenTypes \subseteq SocketTypes
    BY RecvAssumption DEF IInv, SocketsInv, SocketTypes
  <2>2. {"UNIX_DATA", "DATA", "UDP"} \subseteq SocketTypes /\ 0 \in Nat
    BY DEF SocketTypes, UnixTypes, DataTypes
  <2>3. CASE ClientConnects
    BY <2>2, <2>3 DEF ClientConnects
  <2>4. ASSUME NEW type \in OpenTypes, OpenReq(type)
        PROVE  sockets' = Append(sockets, NewSocket(type, 0))
    BY <2>4 DEF OpenReq
  <2>5. ASSUME NEW s \in DOMAIN sockets, Accept(s)
        PROVE  sockets' = Append(sockets, NewSocket("DATA", s))
    BY <2>5 DEF Accept
  <2>6. ASSUME NEW s \in DOMAIN sockets, AcceptUdp(s)
        PROVE  sockets' = Append(sockets, NewSocket("UDP", s))
    BY <2>6 DEF AcceptUdp
  <2>. QED  BY <2>1, <2>2, <2>3, <2>4, <2>5, <2>6
<1>2. /\ SocketsInv'
      /\ DOMAIN sockets \subseteq DOMAIN sockets'
      /\ Len(sockets) + 1 \in DOMAIN sockets' /\ Len(sockets) + 1 \in Nat
  BY <1>1, NewSocketFacts DEF IInv, SocketsInv
<1>3. Served /\ UNCHANGED <<request, timers, rt_num, acks>>
  BY DEF ClientConnects, OpenReq, Accept, AcceptUdp
<1>4. MessagesInv' /\ MessagesKept
  <2>1. CASE UNCHANGED <<message, msgs, msg_dataid>>
    BY <1>2, <2>1, MessagesUnchanged DEF IInv
  <2>2. CASE kDataRegist(sockets', Len(sockets) + 1, "RECV")
    BY <1>2, <2>2, RegistFacts DEF IInv
  <2>. QED  BY <2>1, <2>2 DEF ClientConnects, OpenReq, Accept, AcceptUdp
<1>. QED  BY <1>2, <1>3, <1>4, QuietEvent

\* The events that register or flush messages, and those that do nothing.
LEMMA MessageEventKeepsIInv ==
  ASSUME IInv,
         \/ \E s \in DOMAIN sockets : Arrive(s) \/ SendReq(s)
         \/ FlushReq
         \/ Idle
  PROVE  IInv'
<1>1. Served /\ UNCHANGED <<sockets, request, timers, rt_num, acks>>
  BY DEF Arrive, SendReq, FlushReq, Idle, tables
<1>2. SocketsInv' /\ DOMAIN sockets \subseteq Nat
  BY <1>1 DEF IInv, SocketsInv
<1>3. ASSUME NEW s \in DOMAIN sockets, Arrive(s) \/ SendReq(s)
      PROVE  MessagesInv' /\ MessagesKept
  <2>1. kDataRegist(sockets, s, "RECV") \/ kDataRegist(sockets, s, "SEND")
    BY <1>3 DEF Arrive, SendReq
  <2>. QED  BY <1>1, <1>2, <2>1, RegistFacts DEF IInv
<1>4. ASSUME FlushReq
      PROVE  MessagesInv' /\ MessagesKept
  <2>1. PICK sf, df, s, d : kDataClear(sf, df, s, d)
    BY <1>4 DEF FlushReq
  <2>2. UNCHANGED <<message, sockets>>
    BY <1>4 DEF FlushReq
  <2>. QED  BY <2>1, <2>2, ClearFacts DEF IInv
<1>5. ASSUME Idle
      PROVE  MessagesInv' /\ MessagesKept
  BY <1>5, MessagesUnchanged DEF IInv, Idle, tables
<1>6. MessagesInv' /\ MessagesKept
  BY <1>3, <1>4, <1>5
<1>. QED  BY <1>1, <1>2, <1>6, QuietEvent

\* The steps that close sockets: a close timer and a hangup of a client.
LEMMA ClosingKeepsIInv ==
  ASSUME IInv, CloseTimerFires \/ \E c \in DOMAIN sockets : Hangup(c)
  PROVE  IInv'
<1>1. PICK S : sockets' = MarkClosed(sockets, S)
  BY DEF CloseTimerFires, Hangup
<1>2. SocketsInv' /\ DOMAIN sockets' = DOMAIN sockets
  BY <1>1, MarkClosedFacts DEF IInv
<1>3. UNCHANGED <<message, msgs, msg_dataid, request, acks>>
  BY DEF CloseTimerFires, Hangup
<1>4. MessagesInv' /\ MessagesKept
  BY <1>2, <1>3, MessagesUnchanged DEF IInv
<1>5. TimersInv' /\ TimersKept
  <2>1. UNCHANGED <<timers, rt_num>> \/ kRecvTimerInit
    BY DEF CloseTimerFires, Hangup
  <2>. QED  BY <1>3, <2>1, TimersUnchanged, TimerInitFacts DEF IInv
<1>6. AcksInv'
  BY <1>3, <1>4, <1>5, AnswersStay, NoAnswer DEF IInv
<1>7. LoopInv'
  <2>1. ASSUME CloseTimerFires
        PROVE  LoopInv'
    BY <2>1 DEF CloseTimerFires, loop, IInv, LoopInv, WalkLeavesNothingDue
  <2>2. ASSUME NEW c \in DOMAIN sockets, Hangup(c)
        PROVE  LoopInv'
    BY <1>3, <2>2, ServedFacts DEF Hangup, IInv
  <2>. QED  BY <2>1, <2>2
<1>. QED  BY <1>2, <1>4, <1>5, <1>6, <1>7 DEF IInv

\* The walk begins on the first node; it does not begin when there is none,
\* which the counter tells because it is never below their number.
LEMMA WalkStartKeepsIInv ==
  ASSUME IInv, WalkStart
  PROVE  IInv'
<1>1. UNCHANGED <<tables, now>> /\ current_time' = now
  BY DEF WalkStart, ClockReading
<1>2. SocketsInv' /\ MessagesInv' /\ TimersInv'
  BY <1>1 DEF IInv, tables, SocketsInv, MessagesInv, DataIdsGrow,
              TimersInv, CounterCoversList, OneTimerPerSocket
<1>3. AcksInv'
  BY <1>1 DEF IInv, tables, AcksInv, AckedOnce, DeliveredOnce, DeliveredInOrder,
              Delivery
<1>4. LoopInv'
  <2>1. /\ timers' = timers /\ request' = request
        /\ timers.linked \subseteq DOMAIN request
        /\ timers.linked \subseteq Int /\ IsFiniteSet(timers.linked)
        /\ now' = now /\ now \in Nat
    BY <1>1 DEF tables, IInv, TimersInv, IsList, LoopInv
  <2>2. CASE rt_num = 0 \/ timers.linked = {}
    <3>1. phase' = "select" /\ pos' = 0
      BY <2>2 DEF WalkStart
    <3>2. timers.linked = {}
      <4>1. CASE rt_num = 0
        <5>1. Cardinality(timers.linked) \in Nat
          BY <2>1, FS_CardinalityType
        <5>2. Cardinality(timers.linked) = 0
          BY <4>1, <5>1 DEF IInv, TimersInv, CounterCoversList
        <5>. QED  BY <2>1, <5>2, FS_EmptySet
      <4>. QED  BY <2>2, <4>1
    <3>. QED  BY <1>1, <2>1, <3>1, <3>2 DEF LoopInv, WalkLeavesNothingDue
  <2>3. CASE ~(rt_num = 0 \/ timers.linked = {})
    <3>1. phase' = "walk" /\ pos' = First(timers.linked)
      BY <2>3 DEF WalkStart
    <3>2. pos' \in timers.linked /\ \A r \in timers.linked : pos' <= r
      BY <2>1, <2>3, <3>1, FirstIsLeast
    <3>3. \A r \in timers'.linked : ~(r < pos')
      BY <2>1, <3>2
    <3>. QED  BY <1>1, <2>1, <3>1, <3>2, <3>3 DEF LoopInv, WalkLeavesNothingDue
  <2>. QED  BY <2>2, <2>3
<1>. QED  BY <1>2, <1>3, <1>4 DEF IInv

\* Time passes.
LEMMA TickKeepsIInv ==
  ASSUME IInv, Tick
  PROVE  IInv'
<1>1. UNCHANGED <<tables, loop>> /\ now' = now + 1
  BY DEF Tick
<1>2. SocketsInv' /\ MessagesInv' /\ TimersInv'
  BY <1>1 DEF IInv, tables, SocketsInv, MessagesInv, DataIdsGrow,
              TimersInv, CounterCoversList, OneTimerPerSocket
<1>3. AcksInv'
  BY <1>1 DEF IInv, tables, AcksInv, AckedOnce, DeliveredOnce, DeliveredInOrder,
              Delivery
<1>4. LoopInv'
  BY <1>1 DEF IInv, tables, loop, LoopInv, WalkLeavesNothingDue, NotDue, NoData,
              BadId, HasData, Wanted
<1>. QED  BY <1>2, <1>3, <1>4 DEF IInv

\* RECV r, not answered before, is answered with the message that covers id.
LEMMA DeliveryFacts ==
  ASSUME MessagesInv, TimersInv, AcksInv, TimersKept,
         NEW id, HasData(id), MarkRead(DataFor(id)),
         UNCHANGED <<sockets, msgs, msg_dataid>>,
         NEW r \in DOMAIN request', r \in Nat, r \notin timers'.linked,
         \A i \in DOMAIN acks : acks[i].req # r,
         Ack(r, "OK", DataFor(id))
  PROVE  MessagesInv' /\ MessagesKept /\ AcksInv'
<1>0. PICK m : m = DataFor(id)
  OBVIOUS
<1>1. /\ m \in msgs.linked /\ m \in DOMAIN message /\ m \in Nat
      /\ message[m].mode = "RECV" /\ ~message[m].read
      /\ msgs.linked \subseteq Nat /\ msgs.linked \subseteq DOMAIN message
      /\ \A n \in msgs.linked :
           /\ message[n].mode = "RECV" /\ ~message[n].read
           /\ message[n].socketid = message[m].socketid
           => m <= n
  BY <1>0, DataForFacts DEF MessagesInv, IsList
<1>2. /\ MessagesInv' /\ MessagesKept
      /\ m \in DOMAIN message' /\ message'[m].read
  BY <1>0, <1>1, MarkReadFacts
<1>3. AnswersHold
  BY <1>2, AnswersStay
<1>4. ASSUME NEW i \in DOMAIN acks, Delivery(i)
      PROVE  /\ acks[i].msg # m
             /\ message'[acks[i].msg].socketid = message'[m].socketid
                => acks[i].msg < m
  <2>1. message[acks[i].msg].read
    BY <1>4 DEF AcksInv
  <2>2. message'[acks[i].msg].socketid = message[acks[i].msg].socketid
    BY <1>3, <1>4 DEF AnswersHold
  <2>3. message'[m].socketid = message[m].socketid
    BY <1>1, <1>2 DEF MessagesKept
  <2>. QED  BY <1>1, <1>4, <2>1, <2>2, <2>3 DEF AcksInv
<1>5. ASSUME NEW n \in msgs'.linked,
             message'[n].mode = "RECV", ~message'[n].read,
             message'[n].socketid = message'[m].socketid
      PROVE  m < n
  <2>1. n \in msgs.linked /\ n # m /\ n \in Nat
    BY <1>1, <1>2, <1>5
  <2>2. m <= n
    BY <1>1, <1>2, <1>5, <2>1 DEF MessagesKept
  <2>. QED  BY <1>1, <2>1, <2>2
<1>6. Ack(r, "OK", m)
  BY <1>0
<1>7. AcksInv'
  BY <1>1, <1>2, <1>3, <1>4, <1>5, <1>6, Answer
<1>. QED  BY <1>2, <1>7

\* The three outcomes of a RECV command, which is a new one.
LEMMA RecvReqKeepsIInv ==
  ASSUME IInv, NEW c \in DOMAIN sockets, NEW id \in RecvIds, RecvReq(c, id)
  PROVE  IInv'
<1>. DEFINE n == Len(request) + 1
<1>1. /\ Served /\ UNCHANGED <<sockets, msgs, msg_dataid>>
  BY DEF RecvReq, RecvRefused, RecvDelivers, RecvWaits, RecvStart
<1>2. PICK q \in RequestEntry :
        request' = Append(request, q) /\ q.socketid = id
  <2>1. /\ c \in Nat /\ id \in Int /\ now \in Nat /\ Timeouts \subseteq Nat
    BY RecvAssumption DEF IInv, SocketsInv, LoopInv
  <2>2. ASSUME NEW e \in Nat
        PROVE  NewRequest(c, id, e) \in RequestEntry /\ NewRequest(c, id, e).socketid = id
    BY <2>1 DEF NewRequest, RequestEntry
  <2>3. \E e \in Nat : request' = Append(request, NewRequest(c, id, e))
    BY <2>1 DEF RecvReq, RecvRefused, RecvDelivers, RecvWaits
  <2>. QED  BY <2>2, <2>3
<1>3. TimersInv' /\ TimersKept /\ DOMAIN request' = 1 .. n
  <2>1. UNCHANGED <<timers, rt_num>> \/ kRecvTimerSet(q.socketid)
    BY <1>2 DEF RecvReq, RecvRefused, RecvDelivers, RecvWaits
  <2>. QED  BY <1>2, <2>1, TimerSetFacts DEF IInv
<1>4. /\ DOMAIN request = 1 .. Len(request) /\ Len(request) \in Nat
      /\ n \in DOMAIN request' /\ n \in Nat
      /\ timers.linked \subseteq DOMAIN request
      /\ \A i \in DOMAIN acks : acks[i].req # n
  BY <1>3 DEF IInv, TimersInv, AcksInv
<1>5. SocketsInv' /\ LoopInv'
  BY <1>1, <1>3, <1>4, ServedFacts DEF IInv, SocketsInv
<1>6. ASSUME RecvRefused(c, id)
      PROVE  MessagesInv' /\ AcksInv'
  <2>1. MessagesInv' /\ MessagesKept
    BY <1>1, <1>6, MessagesUnchanged DEF RecvRefused, IInv
  <2>2. AnswersHold
    BY <1>3, <2>1, AnswersStay DEF IInv
  <2>3. n \notin timers'.linked /\ Ack(n, "NG_OTHER", 0)
    BY <1>4, <1>6 DEF RecvRefused
  <2>. QED  BY <1>4, <2>1, <2>2, <2>3, Answer DEF IInv
<1>7. ASSUME RecvDelivers(c, id)
      PROVE  MessagesInv' /\ AcksInv'
  <2>1. /\ n \notin timers'.linked /\ HasData(id) /\ MarkRead(DataFor(id))
        /\ Ack(n, "OK", DataFor(id))
    BY <1>4, <1>7 DEF RecvDelivers
  <2>. QED  BY <1>1, <1>3, <1>4, <2>1, DeliveryFacts DEF IInv
<1>8. ASSUME RecvWaits(c, id)
      PROVE  MessagesInv' /\ AcksInv'
  <2>1. MessagesInv' /\ MessagesKept
    BY <1>1, <1>8, MessagesUnchanged DEF RecvWaits, IInv
  <2>. QED  BY <1>3, <1>8, <2>1, AnswersStay, NoAnswer DEF RecvWaits, IInv
<1>. QED  BY <1>3, <1>5, <1>6, <1>7, <1>8 DEF RecvReq, IInv

\* The walk, on a node that it takes off the list when it answers it.
LEMMA WalkKeepsIInv ==
  ASSUME IInv, Walk
  PROVE  IInv'
<1>1. /\ phase = "walk" /\ WalkOn
      /\ UNCHANGED <<sockets, msgs, msg_dataid, request>>
  BY DEF Walk, WalkError, WalkDelivers, WalkTimesOut, WalkWaits, WalkOn
<1>2. /\ pos \in timers.linked /\ pos \in DOMAIN request /\ pos \in Nat
      /\ \A i \in DOMAIN acks : acks[i].req # pos
      /\ pos \in DOMAIN request'
  BY <1>1 DEF IInv, LoopInv, TimersInv, IsList, AcksInv
<1>3. ASSUME kRecvTimerRemove(pos)
      PROVE  TimersInv' /\ TimersKept /\ timers'.linked = timers.linked \ {pos}
  BY <1>1, <1>2, <1>3, TimerRemoveFacts DEF IInv
<1>4. ASSUME UNCHANGED message
      PROVE  MessagesInv' /\ MessagesKept
  BY <1>1, <1>4, MessagesUnchanged DEF IInv
<1>5. SocketsInv'
  BY <1>1 DEF IInv, SocketsInv
<1>6. CASE WalkError
  <2>1. kRecvTimerRemove(pos) /\ UNCHANGED <<message, acks>>
    BY <1>6 DEF WalkError
  <2>2. AcksInv'
    BY <1>3, <1>4, <2>1, AnswersStay, NoAnswer DEF IInv
  <2>3. LoopInv'
    BY <1>1, <1>3, <1>4, <2>1, WalkOnFacts DEF IInv
  <2>. QED  BY <1>3, <1>4, <1>5, <2>1, <2>2, <2>3 DEF IInv
<1>7. CASE WalkDelivers
  <2>1. PICK id : id = request[pos].socketid
    OBVIOUS
  <2>2. /\ HasData(id) /\ MarkRead(DataFor(id)) /\ Ack(pos, "OK", DataFor(id))
        /\ kRecvTimerRemove(pos)
    BY <1>7, <2>1 DEF WalkDelivers
  <2>3. MessagesInv' /\ MessagesKept /\ AcksInv'
    BY <1>1, <1>2, <1>3, <2>2, DeliveryFacts DEF IInv
  <2>4. LoopInv'
    BY <1>1, <1>3, <2>2, <2>3, WalkOnFacts DEF IInv
  <2>. QED  BY <1>3, <1>5, <2>2, <2>3, <2>4 DEF IInv
<1>8. CASE WalkTimesOut
  <2>1. /\ kRecvTimerRemove(pos) /\ UNCHANGED message
        /\ Ack(pos, "NG_TIMEOUT", 0)
    BY <1>8 DEF WalkTimesOut
  <2>2. AnswersHold
    BY <1>3, <1>4, <2>1, AnswersStay DEF IInv
  <2>3. AcksInv'
    BY <1>2, <1>3, <2>1, <2>2, Answer DEF IInv
  <2>4. LoopInv'
    BY <1>1, <1>3, <1>4, <2>1, WalkOnFacts DEF IInv
  <2>. QED  BY <1>3, <1>4, <1>5, <2>1, <2>3, <2>4 DEF IInv
<1>9. CASE WalkWaits
  <2>1. UNCHANGED <<message, timers, rt_num, acks>>
    BY <1>9 DEF WalkWaits
  <2>2. TimersInv' /\ TimersKept
    BY <1>1, <2>1, TimersUnchanged DEF IInv
  <2>3. AcksInv'
    BY <1>4, <2>1, <2>2, AnswersStay, NoAnswer DEF IInv
  <2>4. NotDue(pos)
    <3>1. /\ request[pos].expire \in Nat /\ current_time \in Nat
      <4>1. request[pos] \in RequestEntry
        BY <1>2 DEF IInv, TimersInv
      <4>. QED  BY <4>1 DEF RequestEntry, IInv, LoopInv
    <3>. QED  BY <1>9, <3>1 DEF WalkWaits, NotDue, Expired
  <2>5. LoopInv'
    BY <1>1, <1>4, <2>1, <2>4, WalkOnFacts DEF IInv
  <2>. QED  BY <1>4, <1>5, <2>1, <2>2, <2>3, <2>5 DEF IInv
<1>. QED  BY <1>6, <1>7, <1>8, <1>9 DEF Walk

\* A step that changes nothing.
LEMMA StutterKeepsIInv ==
  ASSUME IInv, UNCHANGED vars
  PROVE  IInv'
<1>1. UNCHANGED <<tables, loop, now>>
  BY DEF vars
<1>2. SocketsInv' /\ MessagesInv' /\ TimersInv'
  BY <1>1 DEF IInv, tables, SocketsInv, MessagesInv, DataIdsGrow,
              TimersInv, CounterCoversList, OneTimerPerSocket
<1>3. AcksInv'
  BY <1>1 DEF IInv, tables, AcksInv, AckedOnce, DeliveredOnce, DeliveredInOrder,
              Delivery
<1>4. LoopInv'
  BY <1>1 DEF IInv, tables, loop, LoopInv, WalkLeavesNothingDue, NotDue, NoData,
              BadId, HasData, Wanted
<1>. QED  BY <1>2, <1>3, <1>4 DEF IInv

\* IInv is inductive: a case for each action of Next.
LEMMA NextIInv == IInv /\ [Next]_vars => IInv'
<1>. SUFFICES ASSUME IInv, [Next]_vars PROVE IInv'
  OBVIOUS
<1>1. CASE CloseTimerFires
  BY <1>1, ClosingKeepsIInv
<1>2. CASE WalkStart
  BY <1>2, WalkStartKeepsIInv
<1>3. CASE Walk
  BY <1>3, WalkKeepsIInv
<1>4. CASE Tick
  BY <1>4, TickKeepsIInv
<1>5. CASE Event
  <2>1. CASE \/ ClientConnects
             \/ \E type \in OpenTypes : OpenReq(type)
             \/ \E s \in DOMAIN sockets : Accept(s) \/ AcceptUdp(s)
    BY <2>1, OpeningKeepsIInv
  <2>2. CASE \/ \E s \in DOMAIN sockets : Arrive(s) \/ SendReq(s)
             \/ FlushReq
             \/ Idle
    BY <2>2, MessageEventKeepsIInv
  <2>3. CASE \E c \in DOMAIN sockets : Hangup(c)
    BY <2>3, ClosingKeepsIInv
  <2>4. CASE \E c \in DOMAIN sockets : \E id \in RecvIds : RecvReq(c, id)
    BY <2>4, RecvReqKeepsIInv
  <2>. QED  BY <1>5, <2>1, <2>2, <2>3, <2>4 DEF Event
<1>6. CASE UNCHANGED vars
  BY <1>6, StutterKeepsIInv
<1>. QED  BY <1>1, <1>2, <1>3, <1>4, <1>5, <1>6 DEF Next

----------------------------------------------------------------------------
(* What follows for every execution. *)

\* Every reachable state satisfies the inductive invariant.
THEOREM InvariantHolds == Spec => []IInv
BY InitIInv, NextIInv, PTL DEF Spec

\* The tables of koid keep their types: every message belongs to an entry of
\* the socket table, every ack to a command.
THEOREM TypeCorrect == Spec => []TypeOK
<1>1. IInv => TypeOK
  <2>. SUFFICES ASSUME IInv PROVE TypeOK
    OBVIOUS
  <2>1. /\ msgs \in [linked : SUBSET (DOMAIN message), last : Nat]
        /\ timers \in [linked : SUBSET (DOMAIN request), last : Nat]
    BY DEF IInv, MessagesInv, TimersInv, IsList
  <2>. QED  BY <2>1 DEF IInv, TypeOK, SocketsInv, MessagesInv, TimersInv, AcksInv, LoopInv
<1>. QED  BY <1>1, InvariantHolds, PTL

\* No RECV command is ever answered twice: by the command itself, by the walk
\* of kRecvTimerProc, or by the timeout and by data that comes late.
THEOREM AckedOnceCorrect == Spec => []AckedOnce
<1>1. IInv => AckedOnce
  BY DEF IInv, AcksInv
<1>. QED  BY <1>1, InvariantHolds, PTL

\* No message is ever handed to two RECV commands, though the ids of both
\* may cover it.
THEOREM DeliveredOnceCorrect == Spec => []DeliveredOnce
<1>1. IInv => DeliveredOnce
  BY DEF IInv, AcksInv
<1>. QED  BY <1>1, InvariantHolds, PTL

\* What a socket received is delivered in the order it arrived, with flushes,
\* closed sockets and broken lists in between.
THEOREM DeliveredInOrderCorrect == Spec => []DeliveredInOrder
<1>1. IInv => DeliveredInOrder
  BY DEF IInv, AcksInv
<1>. QED  BY <1>1, InvariantHolds, PTL

\* The walk of kRecvTimerProc, which goes on from nodes it has freed, misses
\* no RECV that it could have answered.
THEOREM WalkComplete == Spec => []WalkLeavesNothingDue
<1>1. IInv => WalkLeavesNothingDue
  BY DEF IInv, LoopInv
<1>. QED  BY <1>1, InvariantHolds, PTL

\* The counter with which kRecvTimerProc decides whether to walk at all is
\* never below the number of waiting RECVs, and no two of them have the same
\* socket id, so that kRecvTimerRemove, which searches by socket id, removes
\* the one the walk answered.
THEOREM WaitingListCorrect == Spec => []WaitingListSound
<1>1. IInv => WaitingListSound
  BY DEF IInv, TimersInv, WaitingListSound
<1>. QED  BY <1>1, InvariantHolds, PTL

\* Message ids stay unique and ordered on the list across flushes, also when
\* FLUSH of everything starts the numbers again.
THEOREM DataIdsCorrect == Spec => []DataIdsGrow
<1>1. IInv => DataIdsGrow
  BY DEF IInv, MessagesInv
<1>. QED  BY <1>1, InvariantHolds, PTL
=============================================================================
