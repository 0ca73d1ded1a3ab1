-------------------------- MODULE KoiStream_proofs --------------------------
(***************************************************************************)
(* Proofs about the left data of TCP sockets, for any number of sockets    *)
(* and any streams.                                                        *)
(***************************************************************************)
EXTENDS KoiStream, FiniteSetTheorems, SequenceTheorems, WellFoundedInduction, TLAPS

(* The linked lists, KoiList *)

\* A finite nonempty set of integers has a least element: the set of the
\* elements below it is minimal, and strict inclusion is well-founded.
LEMMA LeastExists ==
  ASSUME NEW S, S \subseteq Int, IsFiniteSet(S), S # {}
  PROVE  \E k \in S : \A j \in S : k <= j
<1>. DEFINE Below(k) == {j \in S : j < k}
            T == {Below(k) : k \in S}
            R == StrictSubsetOrdering(S)
<1>1. T \subseteq SUBSET S /\ T # {}
  OBVIOUS
<1>2. PICK x \in T : \A y \in T : ~(<<y, x>> \in R)
  <2>1. IsWellFoundedOn(R, SUBSET S)
    BY FS_StrictSubsetOrderingWellFounded, FS_FiniteSubsetsOfFinite, Zenon
  <2>. HIDE DEF R, T
  <2>. QED  BY <1>1, <2>1, WFMin, Zenon
<1>3. PICK k \in S : x = Below(k)
  BY Zenon
<1>4. ASSUME NEW j \in S, j < k PROVE FALSE
  <2>1. \A i \in S : i < j => i < k
    BY <1>4
  <2>2. Below(j) \subseteq Below(k) /\ Below(j) \in T
    BY <2>1
  <2>3. j \in Below(k) /\ j \notin Below(j)
    BY <1>4
  <2>4. <<Below(j), Below(k)>> \in (SUBSET S) \X (SUBSET S)
    OBVIOUS
  <2>. HIDE DEF Below, T
  <2>5. <<Below(j), Below(k)>> \in R
    BY <2>2, <2>3, <2>4 DEF StrictSubsetOrdering
  <2>. QED  BY <1>2, <1>3, <2>2, <2>5, Zenon
<1>. QED  BY <1>4

\* And a greatest one, by the same argument on the elements above it.
LEMMA GreatestExists ==
  ASSUME NEW S, S \subseteq Int, IsFiniteSet(S), S # {}
  PROVE  \E k \in S : \A j \in S : j <= k
<1>. DEFINE Above(k) == {j \in S : j > k}
            T == {Above(k) : k \in S}
            R == StrictSubsetOrdering(S)
<1>1. T \subseteq SUBSET S /\ T # {}
  OBVIOUS
<1>2. PICK x \in T : \A y \in T : ~(<<y, x>> \in R)
  <2>1. IsWellFoundedOn(R, SUBSET S)
    BY FS_StrictSubsetOrderingWellFounded, FS_FiniteSubsetsOfFinite, Zenon
  <2>. HIDE DEF R, T
  <2>. QED  BY <1>1, <2>1, WFMin, Zenon
<1>3. PICK k \in S : x = Above(k)
  BY Zenon
<1>4. ASSUME NEW j \in S, j > k PROVE FALSE
  <2>1. \A i \in S : i > j => i > k
    BY <1>4
  <2>2. Above(j) \subseteq Above(k) /\ Above(j) \in T
    BY <2>1
  <2>3. j \in Above(k) /\ j \notin Above(j)
    BY <1>4
  <2>4. <<Above(j), Above(k)>> \in (SUBSET S) \X (SUBSET S)
    OBVIOUS
  <2>. HIDE DEF Above, T
  <2>5. <<Above(j), Above(k)>> \in R
    BY <2>2, <2>3, <2>4 DEF StrictSubsetOrdering
  <2>. QED  BY <1>2, <1>3, <2>2, <2>5, Zenon
<1>. QED  BY <1>4

\* What the two CHOOSEs of KoiList return.
LEMMA FirstIsLeast ==
  ASSUME NEW S, S \subseteq Int, IsFiniteSet(S), S # {}
  PROVE  First(S) \in S /\ \A j \in S : First(S) <= j
BY LeastExists DEF First

\* Likewise for the greatest.
LEMMA FinalIsGreatest ==
  ASSUME NEW S, S \subseteq Int, IsFiniteSet(S), S # {}
  PROVE  Final(S) \in S /\ \A j \in S : j <= Final(S)
BY GreatestExists DEF Final

\* A list whose nodes are numbered from 1.
IsList(l) ==
  /\ l \in [linked : SUBSET (Nat \ {0}), last : Nat]
  /\ IsFiniteSet(l.linked)

\* Linking adds at most the new node; what it drops lay behind the last
\* pointer.
LEMMA LinkFacts ==
  ASSUME NEW l, IsList(l), NEW n \in Nat \ {0}
  PROVE  /\ IsList(Link(l, n))
         /\ Link(l, n).linked \subseteq l.linked \union {n}
         /\ Link(l, n).last = n
<1>1. /\ Link(l, n).linked \subseteq l.linked \union {n}
      /\ Link(l, n).last = n
      /\ Link(l, n) = [linked |-> Link(l, n).linked, last |-> Link(l, n).last]
  BY DEF Link
<1>2. IsFiniteSet(l.linked \union {n})
  BY FS_AddElement DEF IsList
<1>3. IsFiniteSet(Link(l, n).linked)
  BY <1>1, <1>2, FS_Subset
<1>. QED  BY <1>1, <1>3 DEF IsList

\* Removal of one node removes just that node from what is reachable.
LEMMA UnlinkFacts ==
  ASSUME NEW l, IsList(l), NEW n \in Nat
  PROVE  IsList(Unlink(l, n)) /\ Unlink(l, n).linked = l.linked \ {n}
<1>. DEFINE before == {j \in l.linked : j < n}
<1>1. before \subseteq Int /\ IsFiniteSet(before)
  BY FS_Subset DEF IsList
<1>2. before # {} => Final(before) \in Nat
  <2>. HIDE DEF before
  <2>1. before \subseteq Nat
    BY DEF before, IsList
  <2>. QED  BY <1>1, <2>1, FinalIsGreatest
<1>3. IsFiniteSet(l.linked \ {n})
  BY FS_Subset DEF IsList
<1>4. Unlink(l, n) = [linked |-> l.linked \ {n},
                      last |-> IF before = {} THEN l.last ELSE Final(before)]
  BY DEF Unlink
<1>. QED  BY <1>2, <1>3, <1>4 DEF IsList

\* Appending to a table leaves its entries in place.
LEMMA AppendFacts ==
  ASSUME NEW S, NEW s \in Seq(S), NEW e \in S
  PROVE  /\ Append(s, e) \in Seq(S)
         /\ DOMAIN Append(s, e) = 1 .. (Len(s) + 1)
         /\ Len(Append(s, e)) = Len(s) + 1
         /\ DOMAIN s = 1 .. Len(s) /\ Len(s) \in Nat
         /\ \A i \in DOMAIN s : Append(s, e)[i] = s[i]
         /\ Append(s, e)[Len(s) + 1] = e
OBVIOUS

----------------------------------------------------------------------------
(* The component *)

\* Streams, sockets and what was received.  No socket receives more than its
\* peer sends, so that the parser always has a message end ahead.
SocketsInv ==
  /\ ends \in [Ids -> Streams]
  /\ g_socket_socketid \in Nat /\ g_socket_socketid >= 2
  /\ alive \subseteq Ids
  /\ recvd \in [Ids -> Nat]
  /\ \A s \in Ids : recvd[s] <= Final(ends[s])
  /\ messages \in [Ids -> Seq([from : Nat, to : Nat])]

\* The list of left data.
LeftInv ==
  /\ piece \in Seq(Run)
  /\ IsList(left) /\ left.linked \subseteq DOMAIN piece
  /\ \A p \in left.linked : piece[p].socketid \in Ids /\ piece[p].from < piece[p].to
  /\ g_ld_datanum \in 0 .. g_socket_socketid
  /\ DatanumCoversList
  /\ \A p, q \in left.linked : piece[p].socketid = piece[q].socketid => p = q

\* The space of the handler, and how the list stands to it.
SpaceInv ==
  /\ space \in Run
  /\ Handling =>
       /\ space.socketid \in Ids /\ space.from < space.to
       /\ space.to = recvd[space.socketid]
       /\ LeftOf(space.socketid) = {}
  /\ LeftIsCurrent

IInv == SocketsInv /\ LeftInv /\ SpaceInv

\* What a stream has: a last end, and a next one behind every earlier place.
LEMMA StreamFacts ==
  ASSUME NEW E \in Streams
  PROVE  /\ Final(E) \in E /\ E \subseteq Nat \ {0}
         /\ \A i \in E : i <= Final(E) /\ HEADER <= i
         /\ \A n \in Nat : n < Final(E) =>
              /\ First({e \in E : e > n}) \in E
              /\ First({e \in E : e > n}) > n
<1>1. E \subseteq Nat \ {0} /\ IsFiniteSet(E) /\ E # {} /\ \A i \in E : HEADER <= i
  BY StreamAssumption DEF IsStream, HEADER
<1>. E \subseteq Int
  BY <1>1
<1>2. Final(E) \in E /\ \A i \in E : i <= Final(E)
  BY <1>1, FinalIsGreatest
<1>3. ASSUME NEW n \in Nat, n < Final(E)
      PROVE  /\ First({e \in E : e > n}) \in E
             /\ First({e \in E : e > n}) > n
  <2>1. PICK S : S = {e \in E : e > n}
    OBVIOUS
  <2>2. S \subseteq E /\ Final(E) \in S
    BY <1>1, <1>2, <1>3, <2>1
  <2>3. First(S) \in S
    <3>1. S \subseteq Int /\ S # {} /\ IsFiniteSet(S)
      BY <1>1, <2>2, FS_Subset
    <3>. QED  BY <3>1, FirstIsLeast
  <2>. QED  BY <2>1, <2>3
<1>. QED  BY <1>1, <1>2, <1>3

\* The parser never reads a size of 0 from a space that is not empty: its
\* loop makes progress.
LEMMA SizesFacts ==
  ASSUME SocketsInv, SpaceInv, Handling, NEW size \in Sizes
  PROVE  size \in Nat \ {0}
<1>. DEFINE E == ends[space.socketid]
<1>1. /\ E \in Streams /\ space.from \in Nat /\ space.to \in Nat
      /\ space.from < space.to /\ space.to <= Final(E)
  BY DEF SocketsInv, SpaceInv, Run
<1>2. E \subseteq Nat \ {0} /\ Final(E) \in Nat /\ HEADER = 2
  BY <1>1, StreamFacts DEF HEADER
<1>3. CASE space.from \in {0} \union E
  <2>0. PICK n : n = First({e \in E : e > space.from})
    OBVIOUS
  <2>1. n \in E /\ n > space.from
    <3>. HIDE DEF E
    <3>. QED  BY <1>1, <1>2, <2>0, StreamFacts
  <2>2. size = n - space.from
    BY <1>3, <2>0 DEF Sizes
  <2>. QED  BY <1>1, <1>2, <2>1, <2>2
<1>4. CASE space.from \notin {0} \union E
  <2>1. size \in HEADER .. Final(E)
    BY <1>4 DEF Sizes
  <2>. HIDE DEF E
  <2>. QED  BY <1>2, <2>1
<1>. QED  BY <1>3, <1>4

\* The tables of a koid that has just started.
LEMMA InitIInv == Init => IInv
<1>. SUFFICES ASSUME Init PROVE IInv
  OBVIOUS
<1>1. \A s \in Ids : Final(ends[s]) \in Nat
  BY StreamFacts DEF Init
<1>2. SocketsInv
  BY <1>1 DEF Init, SocketsInv
<1>3. LeftInv
  BY FS_EmptySet DEF Init, LeftInv, IsList, EmptyList, DatanumCoversList
<1>4. SpaceInv
  BY DEF Init, SpaceInv, NoSpace, Handling, Run, LeftIsCurrent, EmptyList
<1>. QED  BY <1>2, <1>3, <1>4 DEF IInv

\* The counter finds the node of a socket whenever there is one.
LEMMA FoundFacts ==
  ASSUME IInv, NEW s
  PROVE  /\ Found(s) <=> LeftOf(s) # {}
         /\ Found(s) => First(LeftOf(s)) \in LeftOf(s)
<1>1. /\ IsFiniteSet(left.linked) /\ left.linked \subseteq Nat \ {0}
      /\ LeftOf(s) \subseteq left.linked
      /\ g_ld_datanum >= Cardinality(left.linked)
      /\ Cardinality(left.linked) \in Nat
  BY FS_CardinalityType DEF IInv, LeftInv, IsList, DatanumCoversList, LeftOf
<1>2. Found(s) <=> LeftOf(s) # {}
  <2>1. LeftOf(s) # {} => Cardinality(left.linked) # 0
    BY <1>1, FS_EmptySet
  <2>. QED  BY <1>1, <2>1 DEF Found
<1>3. IsFiniteSet(LeftOf(s)) /\ LeftOf(s) \subseteq Int
  BY <1>1, FS_Subset
<1>. QED  BY <1>2, <1>3, FirstIsLeast

\* After kBufferGet the socket has no node.
LEMMA GetFacts ==
  ASSUME IInv, NEW s \in Ids, kBufferGet(s), UNCHANGED <<piece, g_socket_socketid>>
  PROVE  /\ LeftInv'
         /\ left'.linked = left.linked \ LeftOf(s)
         /\ Found(s) <=> LeftOf(s) # {}
         /\ Found(s) => First(LeftOf(s)) \in LeftOf(s)
<1>1. /\ IsFiniteSet(left.linked) /\ left.linked \subseteq Nat \ {0} /\ IsList(left)
      /\ Cardinality(left.linked) \in Nat
      /\ LeftOf(s) \subseteq left.linked
      /\ g_ld_datanum >= Cardinality(left.linked)
      /\ g_ld_datanum \in Nat /\ g_socket_socketid \in Nat
      /\ g_ld_datanum <= g_socket_socketid
  BY FS_CardinalityType DEF IInv, LeftInv, SocketsInv, IsList, DatanumCoversList, LeftOf
<1>2. Found(s) <=> LeftOf(s) # {}
  BY FoundFacts
<1>3. Found(s) => First(LeftOf(s)) \in LeftOf(s)
  BY FoundFacts
<1>4. CASE ~Found(s)
  <2>1. UNCHANGED <<left, g_ld_datanum>>
    BY <1>4 DEF kBufferGet
  <2>. QED  BY <1>2, <1>4, <2>1 DEF IInv, LeftInv, DatanumCoversList
<1>5. CASE Found(s)
  <2>1. PICK p \in left.linked : p = First(LeftOf(s)) /\ LeftOf(s) = {p}
    BY <1>1, <1>3, <1>5 DEF IInv, LeftInv, LeftOf
  <2>2. left' = Unlink(left, p) /\ g_ld_datanum' = g_ld_datanum - 1
    BY <1>5, <2>1 DEF kBufferGet
  <2>3. IsList(left') /\ left'.linked = left.linked \ {p}
    BY <1>1, <2>2, UnlinkFacts
  <2>4. /\ Cardinality(left'.linked) = Cardinality(left.linked) - 1
        /\ Cardinality(left'.linked) \in Nat
    <3>1. IsFiniteSet(left'.linked)
      BY <2>3 DEF IsList
    <3>. QED  BY <1>1, <2>3, <3>1, FS_RemoveElement, FS_CardinalityType
  <2>5. DatanumCoversList' /\ g_ld_datanum' \in 0 .. g_socket_socketid'
    BY <1>1, <2>2, <2>4 DEF DatanumCoversList
  <2>6. LeftInv'
    BY <2>3, <2>5 DEF IInv, LeftInv
  <2>. QED  BY <1>2, <1>3, <2>1, <2>3, <2>6
<1>. QED  BY <1>4, <1>5

\* Bytes arrive and are merged with the left data.
LEMMA ReceiveKeepsIInv ==
  ASSUME IInv, NEW s \in alive, NEW n \in 1 .. Remaining(s), Receive(s, n)
  PROVE  IInv'
<1>1. /\ s \in Ids /\ recvd[s] \in Nat /\ Final(ends[s]) \in Nat
      /\ n \in Nat /\ n > 0 /\ recvd[s] + n <= Final(ends[s])
  <2>1. s \in Ids /\ recvd[s] \in Nat /\ ends[s] \in Streams
    BY DEF IInv, SocketsInv
  <2>2. Final(ends[s]) \in Nat
    BY <2>1, StreamFacts
  <2>. QED  BY <2>1, <2>2 DEF Remaining
<1>2. /\ ~Handling /\ kBufferGet(s)
      /\ space' = [socketid |-> s, from |-> MergedFrom(s), to |-> recvd[s] + n]
      /\ recvd' = [recvd EXCEPT ![s] = @ + n]
      /\ UNCHANGED <<ends, g_socket_socketid, alive, piece, messages>>
  BY DEF Receive
<1>3. SocketsInv'
  BY <1>1, <1>2 DEF IInv, SocketsInv
<1>4. /\ LeftInv'
      /\ left'.linked = left.linked \ LeftOf(s)
      /\ Found(s) <=> LeftOf(s) # {}
      /\ Found(s) => First(LeftOf(s)) \in LeftOf(s)
  BY <1>1, <1>2, GetFacts
<1>5. \A p \in left.linked :
        /\ piece[p].to = recvd[piece[p].socketid] /\ piece[p].socketid \in Ids
        /\ piece[p].from \in Nat /\ piece[p].from < piece[p].to
  <2>1. \A p \in left.linked : piece[p] \in Run
    BY DEF IInv, LeftInv
  <2>. QED  BY <1>2, <2>1 DEF IInv, LeftInv, SpaceInv, LeftIsCurrent, Handling, NoSpace,
                              Ids, Run
<1>6. MergedFrom(s) \in Nat /\ MergedFrom(s) <= recvd[s]
  <2>1. CASE Found(s)
    <3>1. PICK p \in LeftOf(s) : p = First(LeftOf(s))
      BY <1>4, <2>1
    <3>2. p \in left.linked /\ piece[p].socketid = s
      BY DEF LeftOf
    <3>. QED  BY <1>1, <1>5, <2>1, <3>1, <3>2 DEF MergedFrom
  <2>2. CASE ~Found(s)
    BY <1>1, <2>2 DEF MergedFrom
  <2>. QED  BY <2>1, <2>2
<1>7. /\ space' \in Run /\ space'.socketid = s
      /\ space'.from < space'.to /\ space'.to = recvd'[s]
  <2>1. recvd'[s] = recvd[s] + n
    BY <1>1, <1>2 DEF IInv, SocketsInv
  <2>2. recvd[s] + n \in Nat /\ MergedFrom(s) < recvd[s] + n /\ s \in Nat
    BY <1>1, <1>6 DEF Ids
  <2>. QED  BY <1>2, <1>6, <2>1, <2>2 DEF Run
<1>8. LeftOf(s)' = {}
  BY <1>2, <1>4 DEF LeftOf
<1>9. LeftIsCurrent'
  BY <1>1, <1>2, <1>4, <1>5, <1>7 DEF LeftIsCurrent, IInv, SocketsInv
<1>10. SpaceInv'
  BY <1>1, <1>7, <1>8, <1>9 DEF SpaceInv
<1>. QED  BY <1>3, <1>4, <1>10 DEF IInv

\* A message from the space is registered.
LEMMA RegisterFacts ==
  ASSUME SocketsInv, SpaceInv, Handling, NEW size \in Sizes, Register(size)
  PROVE  messages' \in [Ids -> Seq([from : Nat, to : Nat])]
<1>1. size \in Nat
  BY SizesFacts
<1>2. /\ space.socketid \in Ids /\ space.from \in Nat
      /\ messages \in [Ids -> Seq([from : Nat, to : Nat])]
  BY DEF SocketsInv, SpaceInv, Run
<1>. DEFINE msg == [from |-> space.from, to |-> space.from + size]
<1>3. msg \in [from : Nat, to : Nat]
  BY <1>1, <1>2
<1>4. messages' = [messages EXCEPT ![space.socketid] = Append(@, msg)]
  BY DEF Register
<1>. HIDE DEF msg
<1>. QED  BY <1>2, <1>3, <1>4

\* A message is taken from the space, more is left.
LEMMA ParseOneKeepsIInv ==
  ASSUME IInv, ParseOne
  PROVE  IInv'
<1>1. PICK size \in Sizes : size < Length /\ Register(size) /\ space' = Advance(size)
  BY DEF ParseOne
<1>2. /\ Handling
      /\ UNCHANGED <<ends, g_socket_socketid, alive, recvd, piece, left, g_ld_datanum>>
  BY DEF ParseOne, ParseStep, buffer
<1>3. messages' \in [Ids -> Seq([from : Nat, to : Nat])]
  BY <1>1, <1>2, RegisterFacts DEF IInv
<1>4. SocketsInv'
  BY <1>2, <1>3 DEF IInv, SocketsInv
<1>5. LeftInv'
  BY <1>2 DEF IInv, LeftInv, DatanumCoversList
<1>6. /\ size \in Nat
      /\ space \in Run /\ space.socketid \in Ids /\ space.from \in Nat /\ space.to \in Nat
      /\ space.from + size < space.to
  <2>1. size \in Nat
    BY <1>2, SizesFacts DEF IInv
  <2>. QED  BY <1>1, <1>2, <2>1 DEF IInv, SpaceInv, Run, Length
<1>7. /\ space' = [socketid |-> space.socketid, from |-> space.from + size, to |-> space.to]
      /\ space' \in Run
  BY <1>1, <1>6 DEF Advance, Run
<1>8. SpaceInv'
  BY <1>2, <1>6, <1>7 DEF IInv, SpaceInv, LeftOf, LeftIsCurrent
<1>. QED  BY <1>4, <1>5, <1>8 DEF IInv

\* The list stays as it is and nothing is handled after the step.
LEMMA LeftUnchanged ==
  ASSUME IInv, UNCHANGED <<piece, left, g_ld_datanum, recvd>>,
         g_socket_socketid' \in Nat, g_socket_socketid <= g_socket_socketid',
         space' = NoSpace
  PROVE  LeftInv' /\ SpaceInv'
<1>1. LeftInv'
  BY DEF IInv, LeftInv, SocketsInv, DatanumCoversList
<1>2. \A p \in left.linked : piece[p].to = recvd[piece[p].socketid]
  <2>1. CASE Handling
    BY <2>1 DEF IInv, SpaceInv, LeftIsCurrent, LeftOf
  <2>2. CASE ~Handling
    BY <2>2 DEF IInv, LeftInv, SpaceInv, LeftIsCurrent, Handling, NoSpace, Ids
  <2>. QED  BY <2>1, <2>2
<1>3. SpaceInv'
  BY <1>2 DEF SpaceInv, LeftIsCurrent, Handling, NoSpace, Run
<1>. QED  BY <1>1, <1>3

\* The last message of the space is taken.
LEMMA ParseLastKeepsIInv ==
  ASSUME IInv, ParseLast
  PROVE  IInv'
<1>1. PICK size \in Sizes : Register(size)
  BY DEF ParseLast
<1>2. /\ Handling /\ space' = NoSpace
      /\ UNCHANGED <<ends, g_socket_socketid, alive, recvd, piece, left, g_ld_datanum>>
  BY DEF ParseLast, ParseStep, buffer
<1>3. messages' \in [Ids -> Seq([from : Nat, to : Nat])]
  BY <1>1, <1>2, RegisterFacts DEF IInv
<1>4. SocketsInv'
  BY <1>2, <1>3 DEF IInv, SocketsInv
<1>5. LeftInv' /\ SpaceInv'
  BY <1>2, LeftUnchanged DEF IInv, SocketsInv
<1>. QED  BY <1>4, <1>5 DEF IInv

\* What is stored as left data is the whole rest of the space, and the first
\* left data of its socket.
LEMMA SetFacts ==
  ASSUME IInv, Handling, kBufferSet(space), UNCHANGED <<recvd, g_socket_socketid>>,
         space' = NoSpace, ~SetRefused(space.socketid)
  PROVE  LeftInv' /\ SpaceInv'
<1>. DEFINE n == Len(piece) + 1
<1>1. /\ piece' = Append(piece, space)
      /\ left' = Link(left, n)
      /\ g_ld_datanum' = g_ld_datanum + 1
      /\ g_ld_datanum # g_socket_socketid
  BY DEF kBufferSet, SetRefused
<1>2. /\ piece \in Seq(Run) /\ space \in Run
      /\ space.socketid \in Ids /\ space.from < space.to
      /\ space.to = recvd[space.socketid] /\ LeftOf(space.socketid) = {}
      /\ IsList(left) /\ left.linked \subseteq DOMAIN piece
      /\ g_ld_datanum \in Nat /\ g_socket_socketid \in Nat
      /\ g_ld_datanum <= g_socket_socketid
  BY DEF IInv, SocketsInv, LeftInv, SpaceInv
<1>3. /\ piece' \in Seq(Run) /\ DOMAIN piece' = 1 .. n
      /\ DOMAIN piece = 1 .. Len(piece) /\ Len(piece) \in Nat
      /\ \A i \in DOMAIN piece : piece'[i] = piece[i]
      /\ piece'[n] = space
  BY <1>1, <1>2, AppendFacts
<1>4. n \in Nat \ {0} /\ DOMAIN piece \subseteq DOMAIN piece' /\ n \in DOMAIN piece'
  BY <1>3
<1>. HIDE DEF n
<1>5. IsList(left') /\ left'.linked \subseteq left.linked \union {n}
  BY <1>1, <1>2, <1>4, LinkFacts
<1>6. DatanumCoversList'
  <2>1. /\ IsFiniteSet(left.linked) /\ Cardinality(left.linked) \in Nat
        /\ g_ld_datanum >= Cardinality(left.linked)
    BY <1>2, FS_CardinalityType DEF IInv, LeftInv, IsList, DatanumCoversList
  <2>2. /\ IsFiniteSet(left.linked \union {n})
        /\ Cardinality(left.linked \union {n}) \in Nat
        /\ Cardinality(left.linked \union {n}) <= Cardinality(left.linked) + 1
    <3>1. /\ IsFiniteSet(left.linked \union {n})
          /\ \/ Cardinality(left.linked \union {n}) = Cardinality(left.linked)
             \/ Cardinality(left.linked \union {n}) = Cardinality(left.linked) + 1
      BY <2>1, FS_AddElement
    <3>. QED  BY <2>1, <3>1
  <2>3. /\ Cardinality(left'.linked) <= Cardinality(left.linked \union {n})
        /\ Cardinality(left'.linked) \in Nat
    BY <1>5, <2>2, FS_Subset, FS_CardinalityType
  <2>. QED  BY <1>1, <1>2, <2>1, <2>2, <2>3 DEF DatanumCoversList
<1>7. \A p \in left'.linked :
        /\ p \in DOMAIN piece'
        /\ \/ p = n /\ piece'[p] = space
           \/ p \in left.linked /\ piece'[p] = piece[p] /\ piece[p].socketid # space.socketid
  BY <1>2, <1>3, <1>4, <1>5 DEF LeftOf
<1>8. LeftInv'
  <2>1. \A p \in left'.linked : piece'[p].socketid \in Ids /\ piece'[p].from < piece'[p].to
    BY <1>2, <1>7 DEF IInv, LeftInv
  <2>2. \A p, q \in left'.linked : piece'[p].socketid = piece'[q].socketid => p = q
    BY <1>7 DEF IInv, LeftInv
  <2>3. g_ld_datanum' \in 0 .. g_socket_socketid'
    BY <1>1, <1>2
  <2>4. left'.linked \subseteq DOMAIN piece'
    BY <1>7
  <2>. QED  BY <1>3, <1>5, <1>6, <2>1, <2>2, <2>3, <2>4 DEF LeftInv
<1>9. \A p \in left'.linked : piece'[p].to = recvd[piece'[p].socketid]
  BY <1>2, <1>7 DEF IInv, SpaceInv, LeftIsCurrent
<1>10. SpaceInv'
  BY <1>9 DEF SpaceInv, LeftIsCurrent, Handling, NoSpace, Run
<1>. QED  BY <1>8, <1>10

\* The space holds no whole message any more.
LEMMA ParseRestKeepsIInv ==
  ASSUME IInv, ParseRest
  PROVE  IInv'
<1>1. /\ Handling /\ space' = NoSpace
      /\ UNCHANGED <<ends, g_socket_socketid, alive, recvd, messages>>
      /\ IF Length = 0 THEN UNCHANGED <<piece, left, g_ld_datanum>> ELSE kBufferSet(space)
  BY DEF ParseRest, ParseStep, buffer
<1>2. SocketsInv'
  BY <1>1 DEF IInv, SocketsInv
<1>3. CASE UNCHANGED <<piece, left, g_ld_datanum>>
  BY <1>1, <1>2, <1>3, LeftUnchanged DEF IInv, SocketsInv
<1>4. CASE ~UNCHANGED <<piece, left, g_ld_datanum>>
  <2>1. kBufferSet(space) /\ ~SetRefused(space.socketid)
    BY <1>1, <1>4 DEF kBufferSet
  <2>. QED  BY <1>1, <1>2, <2>1, SetFacts DEF IInv
<1>. QED  BY <1>3, <1>4

\* Sockets that come and go do not touch the left data.
LEMMA SocketsKeepIInv ==
  ASSUME IInv, OpenTcp \/ OpenOther \/ \E s \in alive : EndOfFile(s)
  PROVE  IInv'
<1>1. /\ ~Handling
      /\ UNCHANGED <<ends, recvd, piece, left, g_ld_datanum, space, messages>>
      /\ g_socket_socketid' \in {g_socket_socketid, g_socket_socketid + 1}
  BY DEF OpenTcp, OpenOther, EndOfFile, buffer
<1>2. g_socket_socketid' \in Nat /\ g_socket_socketid <= g_socket_socketid'
  BY <1>1 DEF IInv, SocketsInv
<1>3. alive' \subseteq Ids
  <2>1. CASE OpenTcp
    BY <2>1, StreamAssumption DEF OpenTcp, IInv, SocketsInv, Ids
  <2>2. CASE OpenOther \/ \E s \in alive : EndOfFile(s)
    BY <2>2 DEF OpenOther, EndOfFile, IInv, SocketsInv
  <2>. QED  BY <2>1, <2>2
<1>4. SocketsInv'
  BY <1>1, <1>2, <1>3 DEF IInv, SocketsInv
<1>5. LeftInv' /\ SpaceInv'
  BY <1>1, <1>2, LeftUnchanged DEF Handling
<1>. QED  BY <1>4, <1>5 DEF IInv

\* A hangup empties the list.
LEMMA HangupKeepsIInv ==
  ASSUME IInv, Hangup
  PROVE  IInv'
<1>1. /\ ~Handling /\ alive' = {} /\ g_ld_datanum' = 0
      /\ left' = [left EXCEPT !.linked = {}]
      /\ UNCHANGED <<ends, g_socket_socketid, recvd, piece, space, messages>>
  BY DEF Hangup, kBufferInit
<1>2. SocketsInv'
  BY <1>1 DEF IInv, SocketsInv
<1>3. IsList(left') /\ left'.linked = {}
  BY <1>1, FS_EmptySet DEF IInv, LeftInv, IsList
<1>4. LeftInv'
  BY <1>1, <1>2, <1>3, FS_EmptySet DEF IInv, LeftInv, SocketsInv, DatanumCoversList
<1>5. SpaceInv'
  BY <1>1, <1>3 DEF IInv, SpaceInv, LeftIsCurrent, Handling
<1>. QED  BY <1>2, <1>4, <1>5 DEF IInv

\* Every step, and none, keeps the invariant.
LEMMA NextKeepsIInv == IInv /\ [Next]_vars => IInv'
<1>. SUFFICES ASSUME IInv, [Next]_vars PROVE IInv'
  OBVIOUS
<1>1. CASE \E s \in alive : \E n \in 1 .. Remaining(s) : Receive(s, n)
  BY <1>1, ReceiveKeepsIInv
<1>2. CASE OpenTcp \/ OpenOther \/ \E s \in alive : EndOfFile(s)
  BY <1>2, SocketsKeepIInv
<1>3. CASE ParseOne
  BY <1>3, ParseOneKeepsIInv
<1>4. CASE ParseLast
  BY <1>4, ParseLastKeepsIInv
<1>5. CASE ParseRest
  BY <1>5, ParseRestKeepsIInv
<1>6. CASE Hangup
  BY <1>6, HangupKeepsIInv
<1>7. CASE UNCHANGED vars
  <2>1. SocketsInv'
    BY <1>7 DEF IInv, SocketsInv, vars
  <2>2. LeftInv'
    BY <1>7 DEF IInv, LeftInv, DatanumCoversList, vars, buffer
  <2>3. SpaceInv'
    BY <1>7 DEF IInv, SpaceInv, LeftIsCurrent, LeftOf, Handling, vars, buffer
  <2>. QED  BY <2>1, <2>2, <2>3 DEF IInv
<1>. QED  BY <1>1, <1>2, <1>3, <1>4, <1>5, <1>6, <1>7 DEF Next

\* The invariant holds of every behaviour of the handler and the main loop.
THEOREM InvariantHolds == Spec => []IInv
BY InitIInv, NextKeepsIInv, PTL DEF Spec

----------------------------------------------------------------------------
(* What the list loses *)

\* Only sockets that have been opened have anything.
OpenedInv ==
  /\ space.socketid <= g_socket_socketid
  /\ \A s \in Ids : s > g_socket_socketid =>
       s \notin alive /\ recvd[s] = 0 /\ messages[s] = <<>> /\ LeftOf(s) = {}

\* With two TCP sockets the list has two nodes at most, one of them only when
\* another is linked, and the last pointer points to its end.
TwoInv ==
  g_socket_socketid < 5 =>
    /\ dropped = {}
    /\ g_ld_datanum = Cardinality(left.linked)
    /\ left.linked # {} => left.last \in left.linked /\ \A p \in left.linked : p <= left.last

DInv == dropped \subseteq Ids /\ OpenedInv /\ TwoInv

\* The empty list has lost nothing.
LEMMA InitDInv == Init => DInv
<1>. SUFFICES ASSUME Init PROVE DInv
  OBVIOUS
<1>1. Cardinality({}) = 0
  BY FS_EmptySet
<1>. QED  BY <1>1 DEF Init, DInv, OpenedInv, TwoInv, EmptyList, NoSpace, LeftOf

\* The node of a socket that has been opened.
LEMMA NodeOpened ==
  ASSUME IInv, OpenedInv, NEW p \in left.linked
  PROVE  /\ piece[p].socketid \in Ids /\ piece[p].socketid \in 3 .. g_socket_socketid
         /\ g_socket_socketid \in Nat
<1>1. piece[p].socketid \in Ids /\ piece[p].socketid \in Nat /\ g_socket_socketid \in Nat
  <2>1. piece \in Seq(Run) /\ p \in DOMAIN piece /\ piece[p].socketid \in Ids
    BY DEF IInv, LeftInv
  <2>2. piece[p] \in Run
    BY <2>1
  <2>. QED  BY <2>1, <2>2 DEF IInv, SocketsInv, Run
<1>2. p \in LeftOf(piece[p].socketid)
  BY DEF LeftOf
<1>. QED  BY <1>1, <1>2 DEF OpenedInv, Ids

\* As long as there are two TCP sockets at most, a node of one of them has no
\* other beside it but that of the other.
LEMMA TwoNodes ==
  ASSUME IInv, OpenedInv, g_socket_socketid < 5,
         NEW p \in left.linked, NEW q \in left.linked, NEW r \in left.linked
  PROVE  p = q \/ p = r \/ q = r
<1>1. \A n \in left.linked : piece[n].socketid \in {3, 4}
  BY NodeOpened
<1>. QED  BY <1>1 DEF IInv, LeftInv

\* kBufferGet, with two sockets, leaves the last pointer at the end.
LEMMA GetKeepsTwo ==
  ASSUME IInv, DInv, NEW s \in Ids, kBufferGet(s),
         UNCHANGED <<piece, g_socket_socketid, dropped>>
  PROVE  TwoInv'
<1>. SUFFICES ASSUME g_socket_socketid < 5 PROVE TwoInv'
  BY DEF TwoInv
<1>1. /\ dropped = {} /\ g_ld_datanum = Cardinality(left.linked)
      /\ left.linked # {} => left.last \in left.linked /\ \A p \in left.linked : p <= left.last
  BY DEF DInv, TwoInv
<1>2. CASE ~Found(s)
  BY <1>1, <1>2 DEF kBufferGet, TwoInv
<1>3. CASE Found(s)
  <2>1. PICK p \in left.linked : p = First(LeftOf(s))
    BY <1>3, GetFacts DEF LeftOf
  <2>2. left' = Unlink(left, p) /\ g_ld_datanum' = g_ld_datanum - 1
    BY <1>3, <2>1 DEF kBufferGet
  <2>3. /\ IsFiniteSet(left.linked) /\ left.linked \subseteq Nat \ {0}
        /\ left'.linked = left.linked \ {p}
    BY <2>2, UnlinkFacts DEF IInv, LeftInv, IsList
  <2>4. Cardinality(left'.linked) = g_ld_datanum'
    BY <1>1, <2>2, <2>3, FS_RemoveElement
  <2>. DEFINE before == {j \in left.linked : j < p}
  <2>5. left'.last = IF before = {} THEN left.last ELSE Final(before)
    BY <2>2 DEF Unlink
  <2>6. left'.linked # {} => left'.last \in left'.linked /\ \A q \in left'.linked : q <= left'.last
    <3>1. CASE before = {}
      BY <1>1, <2>3, <2>5, <3>1
    <3>2. CASE before # {}
      <4>1. before \subseteq Int /\ IsFiniteSet(before)
        BY <2>3, FS_Subset
      <4>2. PICK q \in before : q = Final(before)
        <5>. HIDE DEF before
        <5>. QED  BY <3>2, <4>1, FinalIsGreatest
      <4>3. \A r \in left'.linked : r = q
        BY <2>3, <4>2, TwoNodes DEF DInv
      <4>. QED  BY <2>3, <2>5, <3>2, <4>2, <4>3
    <3>. QED  BY <3>1, <3>2
  <2>. QED  BY <1>1, <2>4, <2>6 DEF TwoInv
<1>. QED  BY <1>2, <1>3

\* kBufferSet, with two sockets, links behind the node of the other socket,
\* the only one there is; nothing is refused and nothing is cut off.
LEMMA SetKeepsTwo ==
  ASSUME IInv, DInv, Handling, kBufferSet(space), UNCHANGED g_socket_socketid
  PROVE  TwoInv'
<1>. SUFFICES ASSUME g_socket_socketid < 5 PROVE TwoInv'
  BY DEF TwoInv
<1>. DEFINE n == Len(piece) + 1
<1>1. /\ dropped = {} /\ g_ld_datanum = Cardinality(left.linked)
      /\ left.linked # {} => left.last \in left.linked /\ \A p \in left.linked : p <= left.last
  BY DEF DInv, TwoInv
<1>2. /\ space.socketid \in Ids /\ space.socketid <= g_socket_socketid
      /\ LeftOf(space.socketid) = {} /\ g_socket_socketid \in Nat
      /\ IsFiniteSet(left.linked) /\ left.linked \subseteq Nat \ {0}
      /\ left.linked \subseteq DOMAIN piece /\ piece \in Seq(Run)
  BY DEF IInv, SocketsInv, SpaceInv, LeftInv, DInv, OpenedInv, IsList
<1>3. \A p, q \in left.linked : p = q
  <2>1. \A p \in left.linked : /\ piece[p].socketid \in 3 .. g_socket_socketid
                               /\ piece[p].socketid # space.socketid
    BY <1>2, NodeOpened DEF DInv, LeftOf
  <2>2. space.socketid \in 3 .. g_socket_socketid
    BY <1>2 DEF Ids
  <2>. QED  BY <1>2, <2>1, <2>2 DEF IInv, LeftInv
<1>4. Cardinality(left.linked) <= 1 /\ Cardinality(left.linked) \in Nat
  <2>1. CASE left.linked = {}
    BY <2>1, FS_EmptySet
  <2>2. CASE left.linked # {}
    <3>1. PICK p : left.linked = {p}
      BY <1>3, <2>2
    <3>. QED  BY <3>1, FS_Singleton
  <2>. QED  BY <2>1, <2>2
<1>5. ~SetRefused(space.socketid)
  BY <1>1, <1>2, <1>4 DEF SetRefused, Ids
<1>6. /\ left' = Link(left, n) /\ g_ld_datanum' = g_ld_datanum + 1
      /\ dropped' = dropped \union CutOff
  BY <1>5 DEF kBufferSet
<1>7. n \in Nat /\ \A p \in left.linked : p < n
  BY <1>2
<1>. HIDE DEF n
<1>8. left'.linked = left.linked \union {n} /\ left'.last = n
  <2>1. {j \in left.linked : j <= left.last} = left.linked
    BY <1>1
  <2>. QED  BY <1>1, <1>6, <2>1 DEF Link
<1>9. Cardinality(left'.linked) = g_ld_datanum'
  <2>1. n \notin left.linked
    BY <1>7
  <2>2. Cardinality(left.linked \union {n}) = Cardinality(left.linked) + 1
    BY <1>2, <2>1, FS_AddElement
  <2>. QED  BY <1>1, <1>6, <1>8, <2>2
<1>10. dropped' = {}
  BY <1>1, <1>6, <1>8 DEF CutOff, n
<1>. QED  BY <1>2, <1>7, <1>8, <1>9, <1>10 DEF TwoInv

\* Every step, and none, keeps it.
LEMMA NextKeepsDInv == IInv /\ DInv /\ [Next]_vars => DInv'
<1>. SUFFICES ASSUME IInv, DInv, [Next]_vars PROVE DInv'
  OBVIOUS
<1>1. /\ g_socket_socketid \in Nat /\ alive \subseteq Ids /\ space \in Run
      /\ dropped \subseteq Ids
      /\ Handling => space.socketid \in Ids
  BY DEF IInv, SocketsInv, SpaceInv, DInv
<1>2. ASSUME NEW s \in alive, NEW n \in 1 .. Remaining(s), Receive(s, n)
      PROVE  DInv'
  <2>1. /\ s \in Ids /\ s <= g_socket_socketid /\ kBufferGet(s)
        /\ space' = [socketid |-> s, from |-> MergedFrom(s), to |-> recvd[s] + n]
        /\ recvd' = [recvd EXCEPT ![s] = @ + n]
        /\ UNCHANGED <<ends, g_socket_socketid, alive, piece, messages, dropped>>
    BY <1>1, <1>2 DEF Receive, DInv, OpenedInv, Ids
  <2>2. left'.linked = left.linked \ LeftOf(s)
    BY <2>1, GetFacts
  <2>3. OpenedInv'
    BY <1>1, <2>1, <2>2 DEF DInv, OpenedInv, LeftOf, Ids, IInv, SocketsInv
  <2>. QED  BY <1>1, <2>1, <2>3, GetKeepsTwo DEF DInv
<1>3. CASE ParseOne \/ ParseLast
  <2>1. PICK size : Register(size) /\ space' \in {Advance(size), NoSpace}
    BY <1>3 DEF ParseOne, ParseLast
  <2>2. /\ Handling /\ space.socketid \in Ids /\ space.socketid <= g_socket_socketid
        /\ UNCHANGED <<ends, g_socket_socketid, alive, recvd, piece, left, g_ld_datanum, dropped>>
    BY <1>1, <1>3 DEF ParseOne, ParseLast, ParseStep, buffer, DInv, OpenedInv
  <2>3. space'.socketid \in {space.socketid, 0}
    BY <1>1, <2>1 DEF Advance, NoSpace, Run
  <2>4. \A t \in Ids : t # space.socketid => messages'[t] = messages[t]
    BY <2>1 DEF Register, IInv, SocketsInv
  <2>5. OpenedInv'
    BY <1>1, <2>2, <2>3, <2>4 DEF DInv, OpenedInv, LeftOf, Ids
  <2>6. TwoInv'
    BY <2>2 DEF DInv, TwoInv
  <2>. QED  BY <2>2, <2>5, <2>6 DEF DInv
<1>4. CASE ParseRest
  <2>1. /\ Handling /\ space' = NoSpace /\ space.socketid \in Ids
        /\ space.socketid <= g_socket_socketid
        /\ UNCHANGED <<ends, g_socket_socketid, alive, recvd, messages>>
        /\ IF Length = 0 THEN UNCHANGED buffer ELSE kBufferSet(space)
    BY <1>1, <1>4 DEF ParseRest, ParseStep, DInv, OpenedInv
  <2>2. CASE UNCHANGED buffer
    BY <1>1, <2>1, <2>2 DEF buffer, DInv, OpenedInv, TwoInv, LeftOf, NoSpace
  <2>3. CASE ~UNCHANGED buffer
    <3>1. kBufferSet(space)
      BY <2>1, <2>3
    <3>2. TwoInv'
      BY <2>1, <3>1, SetKeepsTwo
    <3>3. CASE SetRefused(space.socketid)
      <4>1. dropped' = dropped \union {space.socketid} /\ UNCHANGED <<piece, left>>
        BY <3>1, <3>3 DEF kBufferSet
      <4>. QED  BY <1>1, <2>1, <3>2, <4>1 DEF DInv, OpenedInv, LeftOf, NoSpace
    <3>4. CASE ~SetRefused(space.socketid)
      <4>1. /\ piece' = Append(piece, space) /\ left' = Link(left, Len(piece) + 1)
            /\ dropped' = dropped \union CutOff
        BY <3>1, <3>4 DEF kBufferSet
      <4>2. /\ \A p \in left.linked : piece'[p] = piece[p]
            /\ piece'[Len(piece) + 1] = space
            /\ left'.linked \subseteq left.linked \union {Len(piece) + 1}
        <5>1. /\ piece \in Seq(Run) /\ space \in Run /\ IsList(left)
              /\ left.linked \subseteq DOMAIN piece
          BY <1>1 DEF IInv, LeftInv
        <5>2. Len(piece) + 1 \in Nat \ {0}
          BY <5>1
        <5>3. left'.linked \subseteq left.linked \union {Len(piece) + 1}
          BY <4>1, <5>1, <5>2, LinkFacts
        <5>. QED  BY <4>1, <5>1, <5>3, AppendFacts
      <4>3. \A p \in left.linked : piece[p].socketid \in Ids
        BY DEF IInv, LeftInv
      <4>4. dropped' \subseteq Ids
        <5>1. \A p \in left.linked \union {Len(piece) + 1} : piece'[p].socketid \in Ids
          BY <2>1, <4>2, <4>3
        <5>2. CutOff \subseteq Ids
          BY <5>1 DEF CutOff
        <5>. QED  BY <1>1, <4>1, <5>2
      <4>5. \A t \in Ids : t # space.socketid /\ LeftOf(t) = {} => LeftOf(t)' = {}
        BY <4>2 DEF LeftOf
      <4>6. OpenedInv'
        BY <1>1, <2>1, <4>5 DEF DInv, OpenedInv, NoSpace, Ids
      <4>. QED  BY <3>2, <4>4, <4>6 DEF DInv
    <3>. QED  BY <3>3, <3>4
  <2>. QED  BY <2>2, <2>3
<1>5. CASE OpenTcp \/ OpenOther \/ \E s \in alive : EndOfFile(s)
  <2>1. /\ UNCHANGED <<ends, recvd, piece, left, g_ld_datanum, dropped, space, messages>>
        /\ g_socket_socketid' \in {g_socket_socketid, g_socket_socketid + 1}
        /\ alive' \subseteq alive \union {g_socket_socketid'}
    BY <1>5 DEF OpenTcp, OpenOther, EndOfFile, buffer
  <2>. QED  BY <1>1, <2>1 DEF DInv, OpenedInv, TwoInv, LeftOf, Run, Ids
<1>6. CASE Hangup
  <2>1. /\ alive' = {} /\ g_ld_datanum' = 0 /\ left' = [left EXCEPT !.linked = {}]
        /\ UNCHANGED <<ends, g_socket_socketid, recvd, piece, space, messages, dropped>>
    BY <1>6 DEF Hangup, kBufferInit
  <2>2. left'.linked = {} /\ Cardinality(left'.linked) = 0
    BY <2>1, FS_EmptySet DEF IInv, LeftInv, IsList
  <2>. QED  BY <1>1, <2>1, <2>2 DEF DInv, OpenedInv, TwoInv, LeftOf
<1>7. CASE UNCHANGED vars
  BY <1>7 DEF vars, buffer, DInv, OpenedInv, TwoInv, LeftOf
<1>. QED  BY <1>2, <1>3, <1>4, <1>5, <1>6, <1>7 DEF Next

\* In every behaviour.
LEMMA DropsHold == Spec => []DInv
BY InitDInv, NextKeepsDInv, InvariantHolds, PTL DEF Spec

----------------------------------------------------------------------------
(* What becomes of the streams *)

\* Of a socket whose left data was always kept: its stream is registered in
\* whole messages up to some place, and what has come behind it is in the
\* space or is left data, as long as it is no whole message.
StreamInv(s) ==
  /\ Framed(s)
  /\ Parsed(s) \in {0} \union ends[s]
  /\ Handling /\ space.socketid = s => space.from = Parsed(s)
  /\ space.socketid # s => NothingHeldBack(s) /\ (s \in alive => LeftIsTail(s))

StreamsInv == \A s \in Ids \ dropped : StreamInv(s)

\* What makes up the invariant of one socket, for the sockets that a step
\* does not concern.
LEMMA StreamKept ==
  ASSUME NEW s \in Ids, StreamInv(s),
         ends' = ends, messages'[s] = messages[s], recvd'[s] = recvd[s],
         {piece'[p] : p \in LeftOf(s)'} = {piece[p] : p \in LeftOf(s)},
         s \in alive' => s \in alive,
         space.socketid # s, space'.socketid # s
  PROVE  StreamInv(s)'
<1>1. Parsed(s)' = Parsed(s) /\ Framed(s)'
  BY DEF StreamInv, Parsed, Framed
<1>2. {[from |-> piece'[p].from, to |-> piece'[p].to] : p \in LeftOf(s)'}
        = {[from |-> piece[p].from, to |-> piece[p].to] : p \in LeftOf(s)}
  OBVIOUS
<1>3. NothingHeldBack(s)' /\ (s \in alive' => LeftIsTail(s)')
  BY <1>1, <1>2 DEF StreamInv, NothingHeldBack, LeftIsTail
<1>. QED  BY <1>1, <1>3 DEF StreamInv

\* What is merged begins behind the last message.
LEMMA MergedIsParsed ==
  ASSUME IInv, NEW s \in Ids, LeftIsTail(s)
  PROVE  MergedFrom(s) = Parsed(s)
<1>. DEFINE tail == {[from |-> piece[p].from, to |-> piece[p].to] : p \in LeftOf(s)}
<1>1. /\ Found(s) <=> LeftOf(s) # {}
      /\ Found(s) => First(LeftOf(s)) \in LeftOf(s)
  BY FoundFacts
<1>2. CASE Found(s)
  <2>1. PICK p \in LeftOf(s) : p = First(LeftOf(s))
    BY <1>1, <1>2
  <2>2. [from |-> piece[p].from, to |-> piece[p].to] \in tail
    OBVIOUS
  <2>3. [from |-> piece[p].from, to |-> piece[p].to] = [from |-> Parsed(s), to |-> recvd[s]]
    BY <2>2 DEF LeftIsTail
  <2>. QED  BY <1>2, <2>1, <2>3 DEF MergedFrom
<1>3. CASE ~Found(s)
  BY <1>1, <1>3 DEF LeftIsTail, MergedFrom
<1>. QED  BY <1>2, <1>3

\* Streams of which nothing has come.
LEMMA InitStreams == Init => StreamsInv
<1>. SUFFICES ASSUME Init, NEW s \in Ids PROVE StreamInv(s)
  BY DEF StreamsInv
<1>1. messages[s] = <<>> /\ Parsed(s) = 0 /\ recvd[s] = 0 /\ LeftOf(s) = {} /\ ~Handling
  BY DEF Init, Parsed, LeftOf, EmptyList, Handling
<1>2. ends[s] \subseteq Nat
  BY StreamFacts DEF Init
<1>. QED  BY <1>1, <1>2 DEF StreamInv, Framed, NothingHeldBack, LeftIsTail

\* While its handler runs a socket stands to its stream as the parser needs
\* it: the size that the parser reads is that of the next message.
LEMMA HeaderRead ==
  ASSUME IInv, StreamsInv, Handling, space.socketid \notin dropped, NEW size \in Sizes
  PROVE  LET s == space.socketid
             e == space.from + size
         IN  /\ space.from = Parsed(s) /\ e \in ends[s] /\ e \in Nat
             /\ space.from < e
             /\ \A f \in ends[s] : f \in Nat /\ (f > space.from => f >= e)
<1>. DEFINE E == ends[space.socketid]
            ahead == {e \in E : e > space.from}
<1>1. /\ space.socketid \in Ids \ dropped /\ E \in Streams
      /\ space.from \in Nat /\ space.to \in Nat
      /\ space.from < space.to /\ space.to <= Final(E)
  BY DEF IInv, SocketsInv, SpaceInv, Run
<1>2. space.from = Parsed(space.socketid) /\ space.from \in {0} \union E
  BY <1>1 DEF StreamsInv, StreamInv
<1>3. size = First(ahead) - space.from
  BY <1>2 DEF Sizes
<1>4. /\ IsFiniteSet(E) /\ E \subseteq Nat /\ Final(E) \in E
  BY <1>1, StreamFacts, StreamAssumption DEF IsStream
<1>. HIDE DEF E
<1>5. /\ ahead \subseteq Int /\ IsFiniteSet(ahead) /\ ahead # {}
  <2>1. PICK f \in E : f = Final(E)
    BY <1>4
  <2>2. f \in ahead
    BY <1>1, <1>4, <2>1
  <2>3. ahead \subseteq E
    OBVIOUS
  <2>. HIDE DEF ahead
  <2>4. ahead \subseteq Int
    BY <1>4, <2>3
  <2>. QED  BY <1>4, <2>2, <2>3, <2>4, FS_Subset
<1>6. First(ahead) \in ahead /\ \A f \in ahead : First(ahead) <= f
  BY <1>5, FirstIsLeast
<1>7. PICK n \in E : n > space.from /\ n = First(ahead)
  BY <1>6
<1>8. n \in Nat /\ size = n - space.from
  BY <1>3, <1>4, <1>7
<1>9. space.from + size = n
  BY <1>1, <1>8
<1>. QED  BY <1>2, <1>4, <1>6, <1>7, <1>8, <1>9 DEF E

\* Registering the next message of the stream.
LEMMA RegisterKeepsFramed ==
  ASSUME IInv, StreamsInv, Handling, NEW s \in Ids \ dropped, s = space.socketid,
         NEW size \in Sizes, Register(size), ends' = ends
  PROVE  Framed(s)' /\ Parsed(s)' = space.from + size
<1>. DEFINE msg == [from |-> space.from, to |-> space.from + size]
            old == messages[s]
<1>2. /\ space.from = Parsed(s) /\ msg.to \in ends[s]
      /\ \A f \in ends[s] : f > msg.from => f >= msg.to
      /\ msg \in [from : Nat, to : Nat] /\ space.from \in Nat
  BY HeaderRead DEF IInv, SpaceInv, Run
<1>3. messages'[s] = Append(old, msg) /\ old \in Seq([from : Nat, to : Nat])
  BY DEF Register, IInv, SocketsInv
<1>4. Framed(s)
  BY DEF StreamsInv, StreamInv
<1>5. msg.from = IF old = <<>> THEN 0 ELSE old[Len(old)].to
  BY <1>2 DEF Parsed
<1>. HIDE DEF msg, old
<1>6. /\ DOMAIN messages'[s] = 1 .. Len(old) + 1 /\ DOMAIN old = 1 .. Len(old)
      /\ \A k \in 1 .. Len(old) : messages'[s][k] = old[k]
      /\ messages'[s][Len(old) + 1] = msg /\ Len(messages'[s]) = Len(old) + 1
      /\ messages'[s] # <<>> /\ Len(old) \in Nat /\ (old = <<>> <=> Len(old) = 0)
  <2>1. /\ DOMAIN messages'[s] = 1 .. Len(old) + 1 /\ DOMAIN old = 1 .. Len(old)
        /\ \A k \in DOMAIN old : messages'[s][k] = old[k]
        /\ messages'[s][Len(old) + 1] = msg /\ Len(messages'[s]) = Len(old) + 1
        /\ Len(old) \in Nat
    BY <1>2, <1>3, AppendFacts
  <2>. QED  BY <1>3, <2>1
<1>7. Parsed(s)' = msg.to
  BY <1>6 DEF Parsed
<1>8. Framed(s)'
  <2>1. ASSUME NEW k \in 1 .. Len(old) + 1
        PROVE  /\ messages'[s][k].from = IF k = 1 THEN 0 ELSE messages'[s][k - 1].to
               /\ messages'[s][k].to \in ends[s]
               /\ \A e \in ends[s] : e > messages'[s][k].from => e >= messages'[s][k].to
    <3>1. CASE k \in 1 .. Len(old)
      <4>1. /\ old[k].from = IF k = 1 THEN 0 ELSE old[k - 1].to
            /\ old[k].to \in ends[s]
            /\ \A e \in ends[s] : e > old[k].from => e >= old[k].to
        BY <1>4, <1>6, <3>1 DEF Framed, old
      <4>. QED  BY <1>6, <3>1, <4>1
    <3>2. CASE k = Len(old) + 1
      BY <1>2, <1>5, <1>6, <3>2
    <3>. QED  BY <3>1, <3>2
  <2>. QED  BY <1>6, <2>1 DEF Framed
<1>. QED  BY <1>7, <1>8 DEF msg

\* Bytes arrive.
LEMMA ReceiveStreams ==
  ASSUME IInv, DInv, StreamsInv, NEW r \in alive, NEW n \in 1 .. Remaining(r), Receive(r, n)
  PROVE  StreamsInv'
<1>1. /\ ~Handling /\ r \in Ids /\ kBufferGet(r)
      /\ space' = [socketid |-> r, from |-> MergedFrom(r), to |-> recvd[r] + n]
      /\ recvd' = [recvd EXCEPT ![r] = @ + n]
      /\ UNCHANGED <<ends, g_socket_socketid, alive, piece, messages, dropped>>
  BY DEF Receive, IInv, SocketsInv
<1>2. left'.linked = left.linked \ LeftOf(r)
  BY <1>1, GetFacts
<1>3. space.socketid = 0 /\ 0 \notin Ids
  BY <1>1 DEF Handling, NoSpace, Ids
<1>. SUFFICES ASSUME NEW s \in Ids \ dropped PROVE StreamInv(s)'
  BY <1>1 DEF StreamsInv
<1>4. StreamInv(s)
  BY DEF StreamsInv
<1>5. CASE s # r
  <2>1. LeftOf(s)' = LeftOf(s)
    BY <1>1, <1>2, <1>5 DEF LeftOf
  <2>2. recvd'[s] = recvd[s]
    BY <1>1, <1>5 DEF IInv, SocketsInv
  <2>. QED  BY <1>1, <1>3, <1>4, <1>5, <2>1, <2>2, StreamKept
<1>6. CASE s = r
  <2>1. MergedFrom(s) = Parsed(s)
    BY <1>3, <1>4, <1>6, MergedIsParsed DEF StreamInv
  <2>2. Parsed(s)' = Parsed(s) /\ Framed(s)'
    BY <1>1, <1>4 DEF StreamInv, Parsed, Framed
  <2>. QED  BY <1>1, <1>4, <1>6, <2>1, <2>2 DEF StreamInv
<1>. QED  BY <1>5, <1>6

\* The parser takes one message and goes on behind it.
LEMMA ParseOneStreams ==
  ASSUME IInv, DInv, StreamsInv, ParseOne
  PROVE  StreamsInv'
<1>1. PICK size \in Sizes : Register(size) /\ space' = Advance(size)
  BY DEF ParseOne
<1>2. /\ Handling
      /\ UNCHANGED <<ends, g_socket_socketid, alive, recvd, piece, left, g_ld_datanum, dropped>>
  BY DEF ParseOne, ParseStep, buffer
<1>3. /\ space'.socketid = space.socketid /\ space'.from = space.from + size
      /\ space.socketid \in Ids
  BY <1>1, <1>2 DEF Advance, IInv, SpaceInv, Run
<1>. SUFFICES ASSUME NEW s \in Ids \ dropped PROVE StreamInv(s)'
  BY <1>2 DEF StreamsInv
<1>4. CASE s # space.socketid
  <2>1. messages'[s] = messages[s]
    BY <1>1, <1>4 DEF Register, IInv, SocketsInv
  <2>2. LeftOf(s)' = LeftOf(s) /\ StreamInv(s)
    BY <1>2 DEF LeftOf, StreamsInv
  <2>. QED  BY <1>2, <1>3, <1>4, <2>1, <2>2, StreamKept
<1>5. CASE s = space.socketid
  <2>1. Framed(s)' /\ Parsed(s)' = space.from + size
    BY <1>1, <1>2, <1>5, RegisterKeepsFramed
  <2>2. space.from + size \in ends[s]
    BY <1>2, <1>5, HeaderRead
  <2>. QED  BY <1>2, <1>3, <1>5, <2>1, <2>2 DEF StreamInv
<1>. QED  BY <1>4, <1>5

\* The last message fills the space: there is no rest.
LEMMA ParseLastStreams ==
  ASSUME IInv, DInv, StreamsInv, ParseLast
  PROVE  StreamsInv'
<1>1. PICK size \in Sizes : ~Incomplete(size) /\ size >= Length /\ Register(size)
  BY DEF ParseLast
<1>2. /\ Handling /\ space' = NoSpace
      /\ UNCHANGED <<ends, g_socket_socketid, alive, recvd, piece, left, g_ld_datanum, dropped>>
  BY DEF ParseLast, ParseStep, buffer
<1>3. /\ space.socketid \in Ids /\ space.from \in Nat /\ space.to \in Nat
      /\ space.to = recvd[space.socketid] /\ LeftOf(space.socketid) = {}
      /\ size \in Nat /\ 0 \notin Ids
  BY <1>2, SizesFacts DEF IInv, SpaceInv, Run, Ids
<1>4. space.from + size = space.to
  BY <1>1, <1>3 DEF Incomplete, Length
<1>. SUFFICES ASSUME NEW s \in Ids \ dropped PROVE StreamInv(s)'
  BY <1>2 DEF StreamsInv
<1>5. CASE s # space.socketid
  <2>1. messages'[s] = messages[s]
    BY <1>1, <1>5 DEF Register, IInv, SocketsInv
  <2>2. LeftOf(s)' = LeftOf(s) /\ StreamInv(s) /\ space'.socketid = 0
    BY <1>2 DEF LeftOf, StreamsInv, NoSpace
  <2>. QED  BY <1>2, <1>3, <1>5, <2>1, <2>2, StreamKept
<1>6. CASE s = space.socketid
  <2>1. Framed(s)' /\ Parsed(s)' = recvd'[s]
    BY <1>1, <1>2, <1>3, <1>4, <1>6, RegisterKeepsFramed
  <2>2. recvd'[s] \in ends'[s]
    BY <1>2, <1>3, <1>4, <1>6, HeaderRead
  <2>3. NothingHeldBack(s)'
    BY <2>1 DEF NothingHeldBack
  <2>4. LeftIsTail(s)'
    <3>1. LeftOf(s)' = {}
      BY <1>2, <1>3, <1>6 DEF LeftOf
    <3>. QED  BY <2>1, <3>1 DEF LeftIsTail
  <2>. QED  BY <1>2, <2>1, <2>2, <2>3, <2>4 DEF StreamInv, Handling
<1>. QED  BY <1>5, <1>6

\* The rest that is no whole message becomes left data.
LEMMA ParseRestStreams ==
  ASSUME IInv, DInv, StreamsInv, ParseRest
  PROVE  StreamsInv'
<1>1. PICK size \in Sizes : Incomplete(size)
  BY DEF ParseRest
<1>2. /\ Handling /\ space' = NoSpace
      /\ UNCHANGED <<ends, g_socket_socketid, alive, recvd, messages>>
      /\ IF Length = 0 THEN UNCHANGED buffer ELSE kBufferSet(space)
  BY DEF ParseRest, ParseStep
<1>3. /\ space.socketid \in Ids /\ space.from \in Nat /\ space.to \in Nat /\ space \in Run
      /\ space.from < space.to
      /\ space.to = recvd[space.socketid] /\ LeftOf(space.socketid) = {}
      /\ size \in Nat /\ 0 \notin Ids
      /\ piece \in Seq(Run) /\ left.linked \subseteq DOMAIN piece
      /\ \A p \in left.linked : piece[p].socketid \in Ids
  BY <1>2, SizesFacts DEF IInv, SpaceInv, LeftInv, Run, Ids
<1>4. kBufferSet(space)
  BY <1>2, <1>3 DEF Length
<1>5. dropped \subseteq dropped'
  BY <1>4 DEF kBufferSet
<1>. SUFFICES ASSUME NEW s \in Ids \ dropped' PROVE StreamInv(s)'
  BY DEF StreamsInv
<1>6. StreamInv(s) /\ s \notin dropped
  BY <1>5 DEF StreamsInv
<1>7. CASE SetRefused(space.socketid)
  <2>1. dropped' = dropped \union {space.socketid} /\ UNCHANGED <<piece, left>>
    BY <1>4, <1>7 DEF kBufferSet
  <2>2. s # space.socketid /\ LeftOf(s)' = LeftOf(s) /\ space'.socketid = 0
    BY <1>2, <2>1 DEF LeftOf, NoSpace
  <2>. QED  BY <1>2, <1>3, <1>6, <2>1, <2>2, StreamKept
<1>8. CASE ~SetRefused(space.socketid)
  <2>. DEFINE n == Len(piece) + 1
  <2>1. /\ piece' = Append(piece, space) /\ left' = Link(left, n)
        /\ dropped' = dropped \union CutOff
    BY <1>4, <1>8 DEF kBufferSet
  <2>2. /\ \A p \in left.linked : piece'[p] = piece[p] /\ p # n
        /\ piece'[n] = space
        /\ left'.linked \subseteq left.linked \union {n}
    <3>1. n \in Nat \ {0} /\ DOMAIN piece = 1 .. Len(piece) /\ Len(piece) \in Nat
      BY <1>3
    <3>2. left'.linked \subseteq left.linked \union {n}
      BY <2>1, <3>1, LinkFacts DEF IInv, LeftInv
    <3>. QED  BY <1>3, <2>1, <3>1, <3>2, AppendFacts
  <2>3. \A p \in left.linked \union {n} : piece'[p].socketid = s => p \in left'.linked
    BY <2>1 DEF CutOff
  <2>. HIDE DEF n
  <2>4. CASE s # space.socketid
    <3>1. LeftOf(s)' = LeftOf(s) /\ space'.socketid = 0
      BY <1>2, <2>2, <2>3, <2>4 DEF LeftOf, NoSpace
    <3>2. {piece'[p] : p \in LeftOf(s)'} = {piece[p] : p \in LeftOf(s)}
      BY <2>2, <3>1 DEF LeftOf
    <3>. QED  BY <1>2, <1>3, <1>6, <2>4, <3>1, <3>2, StreamKept
  <2>5. CASE s = space.socketid
    <3>1. LeftOf(s)' = {n}
      BY <1>3, <2>2, <2>3, <2>5 DEF LeftOf
    <3>2. Parsed(s)' = Parsed(s) /\ Framed(s)'
      BY <1>2, <1>6 DEF StreamInv, Parsed, Framed
    <3>3. Parsed(s) = space.from /\ recvd'[s] = space.to
      BY <1>2, <1>3, <1>6, <2>5 DEF StreamInv
    <3>4. LeftIsTail(s)'
      BY <1>3, <2>2, <3>1, <3>2, <3>3 DEF LeftIsTail
    <3>5. NothingHeldBack(s)'
      <4>1. ASSUME NEW e \in ends[s], e <= space.to PROVE e <= space.from
        <5>1. e \in Nat /\ (e > space.from => e >= space.from + size)
          BY <1>2, <1>6, <2>5, HeaderRead
        <5>2. size > space.to - space.from
          BY <1>1 DEF Incomplete, Length
        <5>. QED  BY <1>3, <4>1, <5>1, <5>2
      <4>. QED  BY <1>2, <3>2, <3>3, <4>1 DEF NothingHeldBack
    <3>. QED  BY <1>2, <1>6, <3>2, <3>4, <3>5 DEF StreamInv, Handling
  <2>. QED  BY <2>4, <2>5
<1>. QED  BY <1>7, <1>8

\* A socket that is opened has not received anything.
LEMMA OpenStreams ==
  ASSUME IInv, DInv, StreamsInv, OpenTcp \/ OpenOther \/ \E s \in alive : EndOfFile(s)
  PROVE  StreamsInv'
<1>1. /\ ~Handling
      /\ UNCHANGED <<ends, recvd, piece, left, g_ld_datanum, dropped, space, messages>>
      /\ alive' \subseteq alive \union {g_socket_socketid + 1}
  BY DEF OpenTcp, OpenOther, EndOfFile, buffer
<1>. SUFFICES ASSUME NEW s \in Ids \ dropped PROVE StreamInv(s)'
  BY <1>1 DEF StreamsInv
<1>2. /\ LeftOf(s)' = LeftOf(s) /\ StreamInv(s) /\ space.socketid = 0 /\ 0 \notin Ids
      /\ Parsed(s)' = Parsed(s) /\ Framed(s)'
  BY <1>1 DEF LeftOf, StreamsInv, StreamInv, Handling, NoSpace, Ids, Parsed, Framed
<1>3. NothingHeldBack(s)'
  BY <1>1, <1>2 DEF StreamInv, NothingHeldBack
<1>4. CASE s \in alive' => s \in alive
  BY <1>1, <1>2, <1>4, StreamKept
<1>5. CASE s = g_socket_socketid + 1
  <2>1. recvd[s] = 0 /\ messages[s] = <<>> /\ LeftOf(s) = {}
    BY <1>5 DEF DInv, OpenedInv, IInv, SocketsInv, Ids
  <2>2. LeftIsTail(s)'
    BY <1>1, <1>2, <2>1 DEF LeftIsTail, Parsed
  <2>. QED  BY <1>1, <1>2, <1>3, <2>2 DEF StreamInv
<1>. QED  BY <1>1, <1>4, <1>5

\* Every step, and none, keeps it.
LEMMA NextKeepsStreams == IInv /\ DInv /\ StreamsInv /\ [Next]_vars => StreamsInv'
<1>. SUFFICES ASSUME IInv, DInv, StreamsInv, [Next]_vars PROVE StreamsInv'
  OBVIOUS
<1>1. CASE \E s \in alive : \E n \in 1 .. Remaining(s) : Receive(s, n)
  BY <1>1, ReceiveStreams
<1>2. CASE OpenTcp \/ OpenOther \/ \E s \in alive : EndOfFile(s)
  BY <1>2, OpenStreams
<1>3. CASE ParseOne
  BY <1>3, ParseOneStreams
<1>4. CASE ParseLast
  BY <1>4, ParseLastStreams
<1>5. CASE ParseRest
  BY <1>5, ParseRestStreams
<1>6. CASE Hangup
  <2>1. /\ alive' = {} /\ left' = [left EXCEPT !.linked = {}] /\ ~Handling
        /\ UNCHANGED <<ends, recvd, piece, space, messages, dropped>>
    BY <1>6 DEF Hangup, kBufferInit
  <2>2. ASSUME NEW s \in Ids \ dropped PROVE StreamInv(s)'
    <3>1. /\ StreamInv(s) /\ space.socketid # s
          /\ Parsed(s)' = Parsed(s) /\ Framed(s)'
      BY <2>1 DEF StreamsInv, StreamInv, Handling, NoSpace, Ids, Parsed, Framed
    <3>. QED  BY <2>1, <3>1 DEF StreamInv, NothingHeldBack
  <2>. QED  BY <2>1, <2>2 DEF StreamsInv
<1>7. CASE UNCHANGED vars
  BY <1>7 DEF vars, buffer, StreamsInv, StreamInv, Framed, Parsed, NothingHeldBack,
              LeftIsTail, LeftOf, Handling
<1>. QED  BY <1>1, <1>2, <1>3, <1>4, <1>5, <1>6, <1>7 DEF Next

\* In every behaviour.
LEMMA StreamsHold == Spec => []StreamsInv
BY InitStreams, NextKeepsStreams, InvariantHolds, DropsHold, PTL DEF Spec

\* The types of the tables; in the middle of the handler the space is never
\* empty, and the table of left data is never larger than that of sockets.
THEOREM TypeCorrect == Spec => []TypeOK
<1>1. IInv /\ DInv => TypeOK
  <2>. SUFFICES ASSUME IInv, DInv PROVE TypeOK
    OBVIOUS
  <2>1. left \in [linked : SUBSET (DOMAIN piece), last : Nat]
    BY DEF IInv, LeftInv, IsList
  <2>2. space = NoSpace \/ (space.socketid \in Ids /\ space.from < space.to)
    BY DEF IInv, SpaceInv, Handling
  <2>. QED  BY <2>1, <2>2 DEF IInv, SocketsInv, LeftInv, SpaceInv, DInv, TypeOK
<1>. QED  BY <1>1, InvariantHolds, DropsHold, PTL

\* Left data is never stale, what kBufferGet finds first for a socket is all
\* there is for it, and the counter never hides the list from kBufferGet.
THEOREM LeftListCorrect == Spec => []LeftListSound
<1>1. IInv => LeftIsCurrent
  BY DEF IInv, SpaceInv
<1>2. IInv => LeftIsOne
  BY DEF IInv, LeftInv, SpaceInv, LeftIsOne
<1>3. IInv => DatanumCoversList
  BY DEF IInv, LeftInv
<1>4. IInv => LeftListSound
  BY <1>1, <1>2, <1>3 DEF LeftListSound
<1>. QED  BY <1>4, InvariantHolds, PTL

\* What a peer sends as one message is registered as one message, in order,
\* for any number of sockets whose streams recv() cuts anywhere, as long as
\* the list of the buffer has not lost left data of that socket itself.
THEOREM FramedCorrect == Spec => []FramedAsSent
<1>1. StreamsInv => FramedAsSent
  BY DEF StreamsInv, StreamInv, FramedAsSent
<1>. QED  BY <1>1, StreamsHold, PTL

\* Between two events what has arrived is registered or kept, for every socket
\* whose left data the list has not lost; and it loses none as long as there
\* have been two TCP sockets at most.
THEOREM KeptCorrect == Spec => []RegisteredOrKept
<1>1. ASSUME IInv, DInv, StreamsInv PROVE RegisteredOrKept
  <2>1. DropsTakeThree
    BY <1>1 DEF DInv, TwoInv, DropsTakeThree, IInv, SocketsInv
  <2>2. ASSUME ~Handling, NEW s \in Ids \ dropped
        PROVE  NothingHeldBack(s) /\ (s \in alive => LeftIsTail(s))
    BY <1>1, <2>2 DEF StreamsInv, StreamInv, Handling, NoSpace, Ids
  <2>3. alive \subseteq Ids
    BY <1>1 DEF IInv, SocketsInv
  <2>. QED  BY <2>1, <2>2, <2>3 DEF RegisteredOrKept
<1>. QED  BY <1>1, InvariantHolds, DropsHold, StreamsHold, PTL
=============================================================================
