-------------------------- MODULE KoiSocket_proofs --------------------------
(***************************************************************************)
(* Proofs about the sockets of koid: the table, for any number of ids and  *)
(* descriptors, and the timer that closes them, for any number of slots,   *)
(* any set of socket ids and any delays.                                   *)
(***************************************************************************)
EXTENDS KoiSocket, KoiCloseTimer, FiniteSetTheorems, WellFoundedInduction, TLAPS

(* The linked lists, KoiList *)

\* A finite nonempty set of integers has a least element: the set of the
\* elements below it is minimal, and strict inclusion is well-founded.
LEMMA LeastExists ==
  ASSUME NEW S, S \subseteq Int, IsFiniteSet(S), S # {}
  PROVE  \E k \in S : \A j \in S : k <= j
<1>. DEFINE Below(k) == {j \in S : j < k}
            T == {Below(k) : k \in S}
            R == StrictSubsetOrdering(S)
<1>1. T \subseteq SUBSET S /\ T # {}
  OBVIOUS
<1>2. PICK x \in T : \A y \in T : ~(<<y, x>> \in R)
  <2>1. IsWellFoundedOn(R, SUBSET S)
    BY FS_StrictSubsetOrderingWellFounded, FS_FiniteSubsetsOfFinite, Zenon
  <2>. HIDE DEF R, T
  <2>. QED  BY <1>1, <2>1, WFMin, Zenon
<1>3. PICK k \in S : x = Below(k)
  BY Zenon
<1>4. ASSUME NEW j \in S, j < k PROVE FALSE
  <2>1. \A i \in S : i < j => i < k
    BY <1>4
  <2>2. Below(j) \subseteq Below(k) /\ Below(j) \in T
    BY <2>1
  <2>3. j \in Below(k) /\ j \notin Below(j)
    BY <1>4
  <2>4. <<Below(j), Below(k)>> \in (SUBSET S) \X (SUBSET S)
    OBVIOUS
  <2>. HIDE DEF Below, T
  <2>5. <<Below(j), Below(k)>> \in R
    BY <2>2, <2>3, <2>4 DEF StrictSubsetOrdering
  <2>. QED  BY <1>2, <1>3, <2>2, <2>5, Zenon
<1>. QED  BY <1>4

\* And a greatest one, by the same argument on the elements above it.
LEMMA GreatestExists ==
  ASSUME NEW S, S \subseteq Int, IsFiniteSet(S), S # {}
  PROVE  \E k \in S : \A j \in S : j <= k
<1>. DEFINE Above(k) == {j \in S : j > k}
            T == {Above(k) : k \in S}
            R == StrictSubsetOrdering(S)
<1>1. T \subseteq SUBSET S /\ T # {}
  OBVIOUS
<1>2. PICK x \in T : \A y \in T : ~(<<y, x>> \in R)
  <2>1. IsWellFoundedOn(R, SUBSET S)
    BY FS_StrictSubsetOrderingWellFounded, FS_FiniteSubsetsOfFinite, Zenon
  <2>. HIDE DEF R, T
  <2>. QED  BY <1>1, <2>1, WFMin, Zenon
<1>3. PICK k \in S : x = Above(k)
  BY Zenon
<1>4. ASSUME NEW j \in S, j > k PROVE FALSE
  <2>1. \A i \in S : i > j => i > k
    BY <1>4
  <2>2. Above(j) \subseteq Above(k) /\ Above(j) \in T
    BY <2>1
  <2>3. j \in Above(k) /\ j \notin Above(j)
    BY <1>4
  <2>4. <<Above(j), Above(k)>> \in (SUBSET S) \X (SUBSET S)
    OBVIOUS
  <2>. HIDE DEF Above, T
  <2>5. <<Above(j), Above(k)>> \in R
    BY <2>2, <2>3, <2>4 DEF StrictSubsetOrdering
  <2>. QED  BY <1>2, <1>3, <2>2, <2>5, Zenon
<1>. QED  BY <1>4

\* What the two CHOOSEs of KoiList return.
LEMMA FirstIsLeast ==
  ASSUME NEW S, S \subseteq Int, IsFiniteSet(S), S # {}
  PROVE  First(S) \in S /\ \A j \in S : First(S) <= j
BY LeastExists DEF First

\* Likewise for the greatest.
LEMMA FinalIsGreatest ==
  ASSUME NEW S, S \subseteq Int, IsFiniteSet(S), S # {}
  PROVE  Final(S) \in S /\ \A j \in S : j <= Final(S)
BY GreatestExists DEF Final

----------------------------------------------------------------------------
(* The component *)

Descriptor == [conn : Nat, peer : Destinations \union {Client, Nobody}]

\* The types, apart from the history variable.
TablesOK ==
  /\ DOMAIN table \subseteq (-SOCKET_MAXNUM - 1) .. SOCKET_MAXNUM
  /\ table \in [DOMAIN table -> Entry]
  /\ g_socket_socketid \in (-SOCKET_MAXNUM - 1) .. SOCKET_MAXNUM
  /\ g_readfds \subseteq Fds
  /\ fds \in [Fds -> Descriptor]
  /\ conns \in Nat

\* Ids are given in order and once, and so are the numbers of sockets.
IdsInv ==
  /\ NotWrapped => DOMAIN table \subseteq 1 .. g_socket_socketid
  /\ \A k \in DOMAIN table : table[k].conn \in 1 .. conns
  /\ \A j, k \in DOMAIN table : table[j].conn = table[k].conn => j = k

\* A TCP socket that was accepted has a TCP listener for its parent.
ParentsInv ==
  \A k \in DOMAIN table :
    table[k].type = "DATA" /\ table[k].parent # 0 =>
      table[k].parent \in DOMAIN table /\ table[table[k].parent].type = "LISTEN_TCP"

\* What the handlers keep.
IInv ==
  /\ TablesOK /\ IdsInv /\ ParentsInv
  /\ HandleIsOwn /\ AliveIsWatched /\ WatchedHasEntry /\ ChildHasListener

LEMMA FiniteTables ==
  ASSUME TablesOK
  PROVE  /\ DOMAIN table \subseteq Int /\ IsFiniteSet(DOMAIN table)
         /\ Fds \subseteq Int /\ IsFiniteSet(Fds)
<1>1. /\ SOCKET_MAXNUM \in Int /\ -SOCKET_MAXNUM - 1 \in Int
      /\ Fds \subseteq Int /\ IsFiniteSet(Fds)
  BY SocketAssumption
<1>2. IsFiniteSet((-SOCKET_MAXNUM - 1) .. SOCKET_MAXNUM)
  BY <1>1, FS_Interval
<1>. QED  BY <1>1, <1>2, FS_Subset DEF TablesOK

\* The first of a set of ids or of descriptors is one of them.
LEMMA FirstOfIds ==
  ASSUME TablesOK, NEW S, S # {},
         S \subseteq DOMAIN table \/ S \subseteq Fds
  PROVE  First(S) \in S
<1>1. /\ DOMAIN table \subseteq Int /\ IsFiniteSet(DOMAIN table)
      /\ Fds \subseteq Int /\ IsFiniteSet(Fds)
  BY FiniteTables
<1>2. S \subseteq Int /\ IsFiniteSet(S)
  BY <1>1, FS_Subset
<1>. QED  BY <1>2, FirstIsLeast

\* A free number belongs to no live entry, so the openers that mark the
\* first entry with their new number as closed change nothing.
LEMMA MarkingIsIdle ==
  ASSUME IInv, NEW f \in Free
  PROVE  /\ MakeSocketStatusClose(table, f) = table
         /\ \A k \in DOMAIN table : table[k].alive => table[k].handle # f
<1>1. \A k \in DOMAIN table : table[k].alive => table[k].handle # f
  BY DEF IInv, IdsInv, HandleIsOwn, Free, IsOpen
<1>. DEFINE named == {k \in DOMAIN table : table[k].handle = f}
<1>2. CASE named = {}
  BY <1>1, <1>2 DEF MakeSocketStatusClose
<1>3. CASE named # {}
  <2>1. First(named) \in named
    <3>1. named \subseteq DOMAIN table
      OBVIOUS
    <3>. HIDE DEF named
    <3>. QED  BY <1>3, <3>1, FirstOfIds DEF IInv
  <2>2. ~table[First(named)].alive /\ First(named) \in DOMAIN table
    BY <1>1, <2>1
  <2>3. MakeSocketStatusClose(table, f) = MarkClosed(table, {First(named)})
    BY <1>3 DEF MakeSocketStatusClose
  <2>4. \A k \in DOMAIN table : [table[k] EXCEPT !.alive = FALSE] = table[k] \/ k # First(named)
    <3>1. table[First(named)] \in Entry /\ table[First(named)].alive = FALSE
      <4>. HIDE DEF named
      <4>. QED  BY <2>2 DEF IInv, TablesOK, Entry
    <3>2. [table[First(named)] EXCEPT !.alive = FALSE] = table[First(named)]
      <4>. HIDE DEF named
      <4>. QED  BY <3>1 DEF Entry
    <3>. QED  BY <3>2
  <2>5. MarkClosed(table, {First(named)}) = [k \in DOMAIN table |-> table[k]]
    <3>. HIDE DEF named
    <3>. QED  BY <2>4 DEF MarkClosed
  <2>. QED  BY <1>1, <2>3, <2>5 DEF IInv, TablesOK
<1>. QED  BY <1>2, <1>3

\* The next id is one that no entry has.
LEMMA IncrementFacts ==
  ASSUME IInv, NotWrapped
  PROVE  /\ Increment \in (-SOCKET_MAXNUM - 1) .. SOCKET_MAXNUM
         /\ Increment \notin DOMAIN table
         /\ Increment # 0
         /\ Increment >= 0 => Increment = g_socket_socketid + 1
         /\ Increment < 0 <=> g_socket_socketid = SOCKET_MAXNUM
BY SocketAssumption DEF IInv, IdsInv, TablesOK, NotWrapped, Increment

\* A new socket with an entry of its own, on the select list.
LEMMA NewSocket ==
  ASSUME IInv, NotWrapped, Served,
         NEW f \in Fds, NEW peer \in Destinations \union {Client, Nobody},
         Created(f, peer), SELECT_IN(f),
         NEW e \in Entry, Registered(table, e),
         e.alive, e.handle = f, e.conn = conns + 1,
         e.type = "DATA" /\ e.parent # 0 =>
           Alive(table, e.parent) /\ table[e.parent].type = "LISTEN_TCP"
  PROVE  IInv'
<1>. DEFINE n == Increment
<1>1. /\ n \in (-SOCKET_MAXNUM - 1) .. SOCKET_MAXNUM
      /\ n \notin DOMAIN table /\ n # 0
      /\ n >= 0 => n = g_socket_socketid + 1
      /\ n < 0 <=> g_socket_socketid = SOCKET_MAXNUM
  BY IncrementFacts
<1>2. f \in Free
  BY FirstOfIds DEF Created, Free, IInv
<1>3. \A k \in DOMAIN table : table[k].alive => table[k].handle # f
  BY <1>2, MarkingIsIdle
<1>4. /\ DOMAIN table' = DOMAIN table \union {n}
      /\ table' = [k \in DOMAIN table' |-> table'[k]]
      /\ table'[n] = e
      /\ \A k \in DOMAIN table : table'[k] = table[k]
      /\ g_socket_socketid' = n
  <2>. HIDE DEF n
  <2>1. table' = Put(table, n, e) /\ g_socket_socketid' = n
    BY DEF Registered, n
  <2>2. /\ DOMAIN table' = DOMAIN table \union {n}
        /\ table'[n] = e
        /\ \A k \in DOMAIN table : k # n => table'[k] = table[k]
    BY <2>1 DEF Put
  <2>3. table' = [k \in DOMAIN table' |-> table'[k]]
    BY <2>1 DEF Put
  <2>. QED  BY <1>1, <2>1, <2>2, <2>3
<1>5. /\ conns' = conns + 1 /\ conns \in Nat
      /\ fds' = [fds EXCEPT ![f] = [conn |-> conns + 1, peer |-> peer]]
      /\ g_readfds' = g_readfds \union {f}
  BY DEF Created, SELECT_IN, IInv, TablesOK
<1>. HIDE DEF n
<1>6. TablesOK'
  <2>1. fds' \in [Fds -> Descriptor]
    BY <1>5 DEF IInv, TablesOK, Descriptor
  <2>2. \A k \in DOMAIN table' : table'[k] \in Entry
    BY <1>4 DEF IInv, TablesOK
  <2>3. table' \in [DOMAIN table' -> Entry]
    BY <1>4, <2>2
  <2>. QED  BY <1>1, <1>4, <1>5, <2>1, <2>3 DEF IInv, TablesOK
<1>7. IdsInv'
  <2>1. NotWrapped' => DOMAIN table' \subseteq 1 .. g_socket_socketid'
    BY <1>1, <1>4 DEF IInv, IdsInv, NotWrapped, TablesOK
  <2>2. \A k \in DOMAIN table' : table'[k].conn \in 1 .. conns'
    BY <1>4, <1>5 DEF IInv, IdsInv
  <2>3. \A j, k \in DOMAIN table' : table'[j].conn = table'[k].conn => j = k
    BY <1>4, <1>5 DEF IInv, IdsInv
  <2>. QED  BY <2>1, <2>2, <2>3 DEF IdsInv
<1>8. ParentsInv'
  BY <1>1, <1>4 DEF IInv, ParentsInv, Alive
<1>9. HandleIsOwn'
  <2>1. \A k \in DOMAIN table : table[k].handle \in Fds
    BY DEF IInv, TablesOK, Entry
  <2>. QED  BY <1>3, <1>4, <1>5, <2>1 DEF IInv, TablesOK, HandleIsOwn
<1>10. AliveIsWatched'
  BY <1>4, <1>5 DEF IInv, AliveIsWatched
<1>11. WatchedHasEntry'
  <2>1. SUFFICES ASSUME g_socket_socketid' \in 0 .. SOCKET_MAXNUM - 1,
                        NEW h \in g_readfds', fds'[h].conn # 0
                 PROVE  \E k \in DOMAIN table' : table'[k].alive /\ table'[k].handle = h
    BY DEF WatchedHasEntry, IsOpen
  <2>2. CASE h = f
    BY <1>4, <2>2
  <2>3. CASE h # f
    <3>1. h \in g_readfds /\ IsOpen(h)
      BY <1>5, <2>1, <2>3 DEF IsOpen, IInv, TablesOK
    <3>2. g_socket_socketid \in 0 .. SOCKET_MAXNUM - 1
      BY <1>1, <1>4, <2>1, SocketAssumption DEF IInv, TablesOK, NotWrapped
    <3>. QED  BY <1>4, <3>1, <3>2 DEF IInv, WatchedHasEntry
  <2>. QED  BY <2>2, <2>3
<1>12. ChildHasListener'
  BY <1>1, <1>4 DEF IInv, ChildHasListener, Alive
<1>. QED  BY <1>6, <1>7, <1>8, <1>9, <1>10, <1>11, <1>12 DEF IInv

\* Closing live sockets, together with the children of every TCP listener
\* among them.
LEMMA ClosingKeeps ==
  ASSUME IInv, NEW S \in SUBSET DOMAIN table, CloseSockets(S),
         \A k \in S : table[k].alive,
         \A k \in DOMAIN table :
           table[k].alive /\ table[k].type = "DATA" /\ table[k].parent \in S => k \in S
  PROVE  IInv'
<1>. DEFINE handles == {table[k].handle : k \in S}
<1>0. /\ table \in [DOMAIN table -> Entry] /\ fds \in [Fds -> Descriptor]
      /\ \A k \in DOMAIN table : table[k].handle \in Fds
      /\ \A k \in S : IsOpen(table[k].handle)
  BY DEF IInv, TablesOK, Entry, IdsInv, HandleIsOwn, IsOpen
<1>1. /\ table' = MarkClosed(table, S)
      /\ fds' = [f \in Fds |-> IF f \in handles THEN Closed ELSE fds[f]]
      /\ g_readfds' = g_readfds \ handles
      /\ g_socket_socketid' = g_socket_socketid /\ conns' = conns
  <2>1. {k \in S : IsOpen(table[k].handle)} = S
    BY <1>0
  <2>. QED  BY <2>1 DEF CloseSockets
<1>2. /\ DOMAIN table' = DOMAIN table
      /\ table' = [k \in DOMAIN table' |-> table'[k]]
      /\ \A k \in S : table'[k] = [table[k] EXCEPT !.alive = FALSE]
      /\ \A k \in DOMAIN table \ S : table'[k] = table[k]
  BY <1>1 DEF MarkClosed
<1>3. \A k \in DOMAIN table :
        /\ table'[k] \in Entry
        /\ table'[k].type = table[k].type /\ table'[k].parent = table[k].parent
        /\ table'[k].handle = table[k].handle /\ table'[k].conn = table[k].conn
        /\ table'[k].alive <=> table[k].alive /\ k \notin S
  <2>1. SUFFICES ASSUME NEW k \in DOMAIN table
                 PROVE  /\ table'[k] \in Entry
                        /\ table'[k].type = table[k].type
                        /\ table'[k].parent = table[k].parent
                        /\ table'[k].handle = table[k].handle
                        /\ table'[k].conn = table[k].conn
                        /\ table'[k].alive <=> table[k].alive /\ k \notin S
    OBVIOUS
  <2>2. table[k] \in Entry
    BY <1>0
  <2>3. CASE k \in S
    <3>1. PICK e : e = table[k]
      OBVIOUS
    <3>2. table'[k] = [e EXCEPT !.alive = FALSE] /\ e \in Entry
      BY <1>2, <2>2, <2>3, <3>1
    <3>3. /\ table'[k] \in Entry /\ ~table'[k].alive
          /\ table'[k].type = e.type /\ table'[k].parent = e.parent
          /\ table'[k].handle = e.handle /\ table'[k].conn = e.conn
      BY <3>2 DEF Entry
    <3>. QED  BY <2>3, <3>1, <3>3
  <2>4. CASE k \notin S
    BY <1>2, <2>2, <2>4 DEF Entry
  <2>. QED  BY <2>3, <2>4
\* No other live entry has the number of one that is closed.
<1>4. \A k \in DOMAIN table : table[k].alive /\ k \notin S => table[k].handle \notin handles
  BY DEF IInv, IdsInv, HandleIsOwn
<1>. HIDE DEF handles
<1>5. TablesOK'
  <2>1. fds' \in [Fds -> Descriptor]
    BY <1>0, <1>1 DEF Descriptor, Closed
  <2>. QED  BY <1>1, <1>2, <1>3, <2>1 DEF IInv, TablesOK
<1>6. IdsInv' /\ ParentsInv'
  BY <1>1, <1>2, <1>3 DEF IInv, IdsInv, ParentsInv, NotWrapped
<1>7. HandleIsOwn' /\ AliveIsWatched'
  BY <1>0, <1>1, <1>2, <1>3, <1>4 DEF IInv, HandleIsOwn, AliveIsWatched
<1>8. WatchedHasEntry'
  <2>1. SUFFICES ASSUME g_socket_socketid \in 0 .. SOCKET_MAXNUM - 1,
                        NEW h \in g_readfds', fds'[h].conn # 0
                 PROVE  \E k \in DOMAIN table' : table'[k].alive /\ table'[k].handle = h
    BY <1>1 DEF WatchedHasEntry, IsOpen
  <2>2. h \in g_readfds /\ h \notin handles /\ IsOpen(h)
    BY <1>1, <2>1 DEF IInv, TablesOK, IsOpen
  <2>3. PICK k \in DOMAIN table : table[k].alive /\ table[k].handle = h
    BY <2>1, <2>2 DEF IInv, WatchedHasEntry
  <2>4. k \notin S
    BY <2>2, <2>3 DEF handles
  <2>. QED  BY <1>2, <1>3, <2>3, <2>4
<1>9. ChildHasListener'
  BY <1>2, <1>3 DEF IInv, ChildHasListener, Alive
<1>. QED  BY <1>5, <1>6, <1>7, <1>8, <1>9 DEF IInv

\* Steps that make no entry: failures on the way, and a full table.  They
\* leave every open number as it is and let the main loop watch no open
\* number that it did not watch before, unless the ids are used up.
LEMMA NoNewEntry ==
  ASSUME IInv, NotWrapped, table' = table,
         g_socket_socketid' = g_socket_socketid \/ (~Full /\ g_socket_socketid' = Increment),
         fds' \in [Fds -> Descriptor], conns' \in {conns, conns + 1},
         g_readfds \subseteq g_readfds', g_readfds' \subseteq Fds,
         \A h \in Fds : IsOpen(h) => fds'[h] = fds[h],
         ~Full => \A h \in g_readfds' : fds'[h].conn # 0 => h \in g_readfds /\ IsOpen(h)
  PROVE  IInv'
<1>1. /\ g_socket_socketid' \in (-SOCKET_MAXNUM - 1) .. SOCKET_MAXNUM
      /\ g_socket_socketid' >= g_socket_socketid
  BY IncrementFacts, SocketAssumption DEF IInv, TablesOK, NotWrapped, Full
<1>2. TablesOK'
  BY <1>1 DEF IInv, TablesOK
<1>3. IdsInv' /\ ParentsInv' /\ ChildHasListener'
  BY <1>1 DEF IInv, TablesOK, IdsInv, ParentsInv, ChildHasListener, NotWrapped, Alive
<1>4. HandleIsOwn' /\ AliveIsWatched'
  <2>1. \A k \in DOMAIN table : table[k].handle \in Fds
    BY DEF IInv, TablesOK, Entry
  <2>2. \A k \in DOMAIN table : table[k].alive => IsOpen(table[k].handle)
    BY DEF IInv, HandleIsOwn, IsOpen, IdsInv
  <2>. QED  BY <2>1, <2>2 DEF IInv, HandleIsOwn, AliveIsWatched
<1>5. WatchedHasEntry'
  <2>1. SUFFICES ASSUME g_socket_socketid' \in 0 .. SOCKET_MAXNUM - 1,
                        NEW h \in g_readfds', fds'[h].conn # 0
                 PROVE  \E k \in DOMAIN table : table[k].alive /\ table[k].handle = h
    BY DEF WatchedHasEntry, IsOpen
  <2>2. ~Full /\ g_socket_socketid \in 0 .. SOCKET_MAXNUM - 1
    BY <1>1, <2>1, SocketAssumption DEF IInv, TablesOK, NotWrapped, Full
  <2>. QED  BY <2>1, <2>2 DEF IInv, WatchedHasEntry
<1>. QED  BY <1>2, <1>3, <1>4, <1>5 DEF IInv

\* A new number, as the kernel gives it.
LEMMA CreatedFacts ==
  ASSUME IInv, NEW f, NEW peer \in Destinations \union {Client, Nobody}, Created(f, peer)
  PROVE  /\ f \in Free /\ f \in Fds /\ fds' \in [Fds -> Descriptor] /\ conns' = conns + 1
         /\ \A h \in Fds : IsOpen(h) => fds'[h] = fds[h]
         /\ MakeSocketStatusClose(table, f) = table
<1>1. f \in Free /\ f \in Fds
  BY FirstOfIds DEF Created, Free, IInv
<1>2. fds' \in [Fds -> Descriptor] /\ conns' = conns + 1
  <2>1. /\ conns \in Nat /\ fds \in [Fds -> Descriptor]
        /\ fds' = [fds EXCEPT ![f] = [conn |-> conns + 1, peer |-> peer]]
        /\ conns' = conns + 1
    BY DEF Created, IInv, TablesOK
  <2>2. [conn |-> conns + 1, peer |-> peer] \in Descriptor
    BY <2>1 DEF Descriptor
  <2>. QED  BY <2>1, <2>2
<1>3. \A h \in Fds : IsOpen(h) => fds'[h] = fds[h]
  BY <1>1 DEF Created, IInv, TablesOK, Free
<1>. QED  BY <1>1, <1>2, <1>3, MarkingIsIdle

\* The failures of the openers.
LEMMA FailuresKeep ==
  ASSUME IInv, NotWrapped, ~Full, OptionFails \/ NoParser
  PROVE  IInv'
<1>1. First(Free) \in Free /\ First(Free) \in Fds /\ Free # {}
  BY FirstOfIds DEF OptionFails, NoParser, Free, IInv
<1>2. MakeSocketStatusClose(table, First(Free)) = table
  BY <1>1, MarkingIsIdle
<1>3. /\ table' = table /\ g_socket_socketid' = Increment
      /\ fds' = fds /\ conns' = conns
      /\ g_readfds' \in {g_readfds, g_readfds \union {First(Free)}}
  BY <1>2 DEF OptionFails, NoParser, SELECT_IN
<1>4. \A h \in g_readfds' : fds'[h].conn # 0 => h \in g_readfds /\ IsOpen(h)
  BY <1>1, <1>3 DEF Free, IsOpen
<1>. QED  BY <1>1, <1>3, <1>4, NoNewEntry DEF IInv, TablesOK

LEMMA UnchangedKeeps ==
  ASSUME IInv, Unchanged
  PROVE  IInv'
BY DEF Unchanged, IInv, TablesOK, IdsInv, ParentsInv, HandleIsOwn, AliveIsWatched,
       WatchedHasEntry, ChildHasListener, NotWrapped, IsOpen, Alive

\* Opening a socket, by CONNECT or LISTEN.
LEMMA OpeningKeeps ==
  ASSUME IInv, NotWrapped, Served, NEW f \in Fds,
         NEW peer \in Destinations \union {Client, Nobody}, Created(f, peer), SELECT_IN(f),
         NEW type \in SocketTypes, NEW port \in SPorts \union {0},
         NEW addr \in Addrs \union {Any}, NEW dest \in Destinations \union {Client, Nobody},
         Registered(MakeSocketStatusClose(table, f), NewEntry(type, f, 0, port, addr, dest))
  PROVE  IInv'
<1>1. NewEntry(type, f, 0, port, addr, dest) \in Entry
  BY DEF NewEntry, Entry, IInv, TablesOK
<1>2. PICK e : e = NewEntry(type, f, 0, port, addr, dest)
  OBVIOUS
<1>3. e.alive /\ e.handle = f /\ e.conn = conns + 1 /\ e.parent = 0
  BY <1>2 DEF NewEntry
<1>4. Registered(table, e)
  BY <1>2, CreatedFacts
<1>. QED  BY <1>1, <1>2, <1>3, <1>4, NewSocket

\* A CONNECT that opens a TCP or UDP socket.
LEMMA OpenKeeps ==
  ASSUME IInv, NotWrapped, Served, NEW type \in {"DATA", "UDP"}, NEW port \in SPorts,
         NEW addr \in Addrs \union {Any}, NEW peer \in Destinations,
         kSocketOpen(type, port, addr, peer)
  PROVE  IInv'
<1>1. CASE Unchanged
  BY <1>1, UnchangedKeeps
<1>2. CASE ~Full /\ OptionFails
  BY <1>2, FailuresKeep
<1>3. ASSUME NEW f \in Fds, NEW bound \in BOOLEAN,
             bound => peer \in Peers,
             Created(f, IF bound THEN peer ELSE Nobody), SELECT_IN(f),
             NEW a \in IF ~bound THEN {Any} ELSE IF addr = Any THEN Addrs ELSE {addr},
             Registered(MakeSocketStatusClose(table, f),
                        NewEntry(type, f, 0, IF bound THEN port ELSE 0, a, peer))
      PROVE  IInv'
  <2>1. PICK to, from : to = (IF bound THEN peer ELSE Nobody) /\ from = (IF bound THEN port ELSE 0)
    OBVIOUS
  <2>2. /\ to \in Destinations \union {Client, Nobody} /\ from \in SPorts \union {0}
        /\ a \in Addrs \union {Any} /\ type \in SocketTypes
    BY <1>3, <2>1 DEF SocketTypes, DataTypes
  <2>. QED  BY <1>3, <2>1, <2>2, OpeningKeeps
<1>. QED  BY <1>1, <1>2, <1>3 DEF kSocketOpen

LEMMA OpenRawKeeps ==
  ASSUME IInv, NotWrapped, Served, NEW addr \in Addrs \union {Any},
         NEW peer \in Destinations \union {Nobody}, kSocketOpenRaw(addr, peer)
  PROVE  IInv'
<1>1. CASE Unchanged
  BY <1>1, UnchangedKeeps
<1>2. ASSUME NEW f \in Fds, Created(f, peer), SELECT_IN(f),
             Registered(MakeSocketStatusClose(table, f),
                        NewEntry("RAW", f, 0, 0, addr, peer))
      PROVE  IInv'
  BY <1>2, OpeningKeeps DEF SocketTypes, DataTypes
<1>. QED  BY <1>1, <1>2 DEF kSocketOpenRaw

\* A new destination for an entry in use.
LEMMA ReuseKeeps ==
  ASSUME IInv, NEW k \in DOMAIN table, NEW peer \in Destinations, Reuse(k, peer)
  PROVE  IInv'
<1>1. /\ table \in [DOMAIN table -> Entry]
      /\ table' = [table EXCEPT ![k].peer = peer]
      /\ UNCHANGED <<g_socket_socketid, g_readfds, fds, conns>>
  BY DEF Reuse, IInv, TablesOK
<1>2. [table[k] EXCEPT !.peer = peer] \in Entry
  BY <1>1 DEF Entry
<1>3. /\ table' \in [DOMAIN table -> Entry]
      /\ DOMAIN table' = DOMAIN table
  BY <1>1, <1>2
<1>4. \A j \in DOMAIN table :
        /\ table'[j].type = table[j].type /\ table'[j].parent = table[j].parent
        /\ table'[j].handle = table[j].handle /\ table'[j].conn = table[j].conn
        /\ table'[j].alive = table[j].alive
  BY <1>1 DEF Entry
<1>5. TablesOK' /\ IdsInv'
  BY <1>1, <1>3, <1>4 DEF IInv, TablesOK, IdsInv, NotWrapped
<1>6. ParentsInv' /\ HandleIsOwn' /\ AliveIsWatched' /\ ChildHasListener'
  BY <1>1, <1>3, <1>4 DEF IInv, ParentsInv, HandleIsOwn, AliveIsWatched, ChildHasListener, Alive
<1>7. WatchedHasEntry'
  BY <1>1, <1>3, <1>4 DEF IInv, WatchedHasEntry, IsOpen
<1>. QED  BY <1>5, <1>6, <1>7 DEF IInv

LEMMA ReusableFacts ==
  ASSUME IInv, NEW protocol, NEW port, NEW addr, NEW peer
  PROVE  Reusable(protocol, port, addr, peer) \subseteq DOMAIN table
<1>. DEFINE S == SameUdpPort(port, peer)
<1>1. S \subseteq DOMAIN table
  BY DEF SameUdpPort
<1>2. S # {} => Final(S) \in S
  <2>1. DOMAIN table \subseteq Int /\ IsFiniteSet(DOMAIN table)
    BY FiniteTables DEF IInv
  <2>2. S \subseteq Int /\ IsFiniteSet(S)
    <3>. HIDE DEF S
    <3>. QED  BY <1>1, <2>1, FS_Subset
  <2>. HIDE DEF S
  <2>. QED  BY <2>2, FinalIsGreatest
<1>. QED  BY <1>1, <1>2 DEF Reusable

\* Listening.
LEMMA WaitSocketKeeps ==
  ASSUME IInv, NotWrapped, Served, NEW type \in ListenTypes, NEW port \in SPorts,
         NEW addr \in Addrs \union {Any}, kSocketOpenWaitSocket(type, port, addr)
  PROVE  IInv'
<1>1. CASE Unchanged
  BY <1>1, UnchangedKeeps
<1>2. CASE ~Full /\ (OptionFails \/ NoParser)
  BY <1>2, FailuresKeep
<1>3. ASSUME NEW f \in Fds, Created(f, Nobody), SELECT_IN(f),
             Registered(MakeSocketStatusClose(table, f),
                        NewEntry(type, f, 0, port, addr, Nobody))
      PROVE  IInv'
  BY <1>3, OpeningKeeps DEF SocketTypes
<1>. QED  BY <1>1, <1>2, <1>3 DEF kSocketOpenWaitSocket

\* Accepting, with an entry or without.
LEMMA AdoptKeeps ==
  ASSUME IInv, NotWrapped, Served, NEW f \in Fds,
         NEW peer \in Destinations \union {Client, Nobody}, Created(f, peer),
         NEW e \in Entry, Adopt(f, e),
         e.alive, e.handle = f, e.conn = conns + 1,
         e.type = "DATA" /\ e.parent # 0 =>
           Alive(table, e.parent) /\ table[e.parent].type = "LISTEN_TCP"
  PROVE  IInv'
<1>1. CASE ~Full
  BY <1>1, NewSocket DEF Adopt
<1>2. CASE Full
  <2>1. /\ table' = table /\ g_socket_socketid' = g_socket_socketid
        /\ g_readfds' = g_readfds \union {f}
    BY <1>2 DEF Adopt, SELECT_IN
  <2>2. g_readfds' \subseteq Fds
    BY <2>1 DEF IInv, TablesOK
  <2>. QED  BY <1>2, <2>1, <2>2, CreatedFacts, NoNewEntry
<1>. QED  BY <1>1, <1>2

LEMMA AcceptFailsKeeps ==
  ASSUME IInv, NotWrapped, Served, NEW f \in Fds,
         NEW peer \in Destinations \union {Client, Nobody}, AcceptFails(f, peer)
  PROVE  IInv'
<1>1. /\ table' = table /\ g_socket_socketid' = g_socket_socketid
      /\ g_readfds' = g_readfds /\ Created(f, peer)
  BY DEF AcceptFails
<1>2. \A h \in g_readfds' : h \in g_readfds /\ IsOpen(h)
  BY <1>1 DEF Served
<1>3. g_readfds' \subseteq Fds
  BY <1>1 DEF IInv, TablesOK
<1>. QED  BY <1>1, <1>2, <1>3, CreatedFacts, NoNewEntry

LEMMA AcceptKeeps ==
  ASSUME IInv, NEW h \in Fds, NEW peer \in Peers, Accept(h, peer)
  PROVE  IInv'
<1>. DEFINE l == SIBySocketHandle(h)
            type == IF table[l].type = "LISTEN_TCP" THEN "DATA" ELSE "UDP"
<1>1. Served /\ NotWrapped /\ peer \in Destinations
  BY DEF Accept, Peers, Destinations
<1>2. l \in DOMAIN table /\ table[l].alive
  <2>1. PICK S : S = {k \in DOMAIN table : table[k].handle = h /\ table[k].alive}
    OBVIOUS
  <2>2. S # {} /\ S \subseteq DOMAIN table
    BY <2>1 DEF Accept
  <2>3. First(S) \in S
    BY <2>2, FirstOfIds DEF IInv
  <2>. QED  BY <2>1, <2>3 DEF SIBySocketHandle
<1>. HIDE DEF l
<1>3. ASSUME NEW f \in Fds, AcceptFails(f, peer)
      PROVE  IInv'
  BY <1>1, <1>3, AcceptFailsKeeps
<1>4. ASSUME NEW f \in Fds, NEW a \in Addrs, Created(f, peer),
             Adopt(f, NewEntry(type, f, l, table[l].port, a, peer))
      PROVE  IInv'
  <2>1. PICK e : e = NewEntry(type, f, l, table[l].port, a, peer)
    OBVIOUS
  <2>2. /\ table[l] \in Entry /\ l \in Nat /\ conns \in Nat
    BY <1>1, <1>2 DEF IInv, TablesOK, IdsInv, NotWrapped
  <2>3. type \in SocketTypes
    BY DEF SocketTypes, DataTypes
  <2>4. /\ e \in Entry /\ e.alive /\ e.handle = f /\ e.conn = conns + 1
        /\ e.parent = l /\ e.type = type
    <3>. HIDE DEF type
    <3>. QED  BY <1>1, <2>1, <2>2, <2>3 DEF NewEntry, Entry
  <2>5. e.type = "DATA" /\ e.parent # 0 =>
          Alive(table, e.parent) /\ table[e.parent].type = "LISTEN_TCP"
    BY <1>2, <2>4 DEF Alive
  <2>. HIDE DEF type
  <2>. QED  BY <1>1, <1>4, <2>1, <2>4, <2>5, AdoptKeeps
<1>. QED  BY <1>3, <1>4 DEF Accept, l

LEMMA ClientKeeps ==
  ASSUME IInv, ClientConnects
  PROVE  IInv'
<1>1. PICK f \in Fds : /\ Created(f, Client)
                       /\ Adopt(f, NewEntry("UNIX_DATA", f, 0, 0, Any, Client))
  BY DEF ClientConnects
<1>2. PICK e : e = NewEntry("UNIX_DATA", f, 0, 0, Any, Client)
  OBVIOUS
<1>3. /\ e \in Entry /\ e.alive /\ e.handle = f /\ e.conn = conns + 1 /\ e.parent = 0
  BY <1>2 DEF NewEntry, Entry, IInv, TablesOK, SocketTypes, UnixTypes
<1>. QED  BY <1>1, <1>2, <1>3, AdoptKeeps DEF ClientConnects

\* Closing by id, 0 included.
LEMMA CloseKeeps ==
  ASSUME IInv, NEW id \in 0 .. SOCKET_MAXNUM, NEW garbage \in BOOLEAN,
         kSocketClose(id, garbage)
  PROVE  IInv'
<1>. DEFINE S == ClosedBy(table, id, garbage)
<1>1. S \in SUBSET DOMAIN table /\ \A k \in S : table[k].alive
  BY DEF ClosedBy, CloseAll, CloseListener, Closable, Alive
<1>2. \A k \in DOMAIN table :
        table[k].alive /\ table[k].type = "DATA" /\ table[k].parent \in S => k \in S
  <2>1. SUFFICES ASSUME NEW k \in DOMAIN table, table[k].alive, table[k].type = "DATA",
                        table[k].parent \in S
                 PROVE  k \in S
    OBVIOUS
  <2>2. k \in CloseAll(table)
    BY <2>1 DEF CloseAll, Closable, Alive, UnixTypes
  <2>3. CASE id = 0
    BY <2>2, <2>3 DEF ClosedBy
  <2>4. CASE id # 0 /\ id \in DOMAIN table /\ table[id].type = "LISTEN_TCP"
    BY <2>1, <2>2, <2>4 DEF ClosedBy, CloseListener
  <2>5. CASE id # 0 /\ ~(id \in DOMAIN table /\ table[id].type = "LISTEN_TCP")
    <3>1. table[k].parent = id /\ id \in DOMAIN table
      BY <2>1, <2>5 DEF ClosedBy
    <3>. QED  BY <2>1, <2>5, <3>1 DEF IInv, ParentsInv
  <2>. QED  BY <2>3, <2>4, <2>5
<1>. HIDE DEF S
<1>. QED  BY <1>1, <1>2, ClosingKeeps DEF kSocketClose, S

LEMMA HangupKeeps ==
  ASSUME IInv, NEW c \in DOMAIN table, Hangup(c)
  PROVE  IInv'
<1>. DEFINE own == SIBySocketHandle(table[c].handle)
            S == {own} \union CloseAll(table)
<1>1. own \in DOMAIN table /\ table[own].alive
  <2>1. PICK T : T = {k \in DOMAIN table : table[k].handle = table[c].handle /\ table[k].alive}
    OBVIOUS
  <2>2. T # {} /\ T \subseteq DOMAIN table
    BY <2>1 DEF Hangup
  <2>3. First(T) \in T
    BY <2>2, FirstOfIds DEF IInv
  <2>. QED  BY <2>1, <2>3 DEF SIBySocketHandle
<1>2. S \in SUBSET DOMAIN table /\ \A k \in S : table[k].alive
  BY <1>1 DEF CloseAll, Closable, Alive
<1>3. \A k \in DOMAIN table : table[k].alive /\ table[k].type = "DATA" => k \in S
  BY DEF CloseAll, Closable, Alive, UnixTypes
<1>. HIDE DEF S
<1>. QED  BY <1>2, <1>3, ClosingKeeps DEF Hangup, S

\* What a send records has the right types.
LEMMA SendingFacts ==
  ASSUME NEW t, NEW d \in [Fds -> Descriptor], NEW id \in Int, t[id] \in Entry
  PROVE  Sending(t, d, id) \in Sends \union {NoSend}
BY DEF Sending, Sends, Entry, Descriptor

SentOK == sent \in Sends \union {NoSend}

LEMMA SentKeeps ==
  ASSUME IInv, IInv', [Next]_vars, SentOK
  PROVE  SentOK'
<1>1. \A id \in DOMAIN table' :
        Sending(table', fds', id) \in Sends \union {NoSend}
  <2>1. SUFFICES ASSUME NEW id \in DOMAIN table'
                 PROVE  Sending(table', fds', id) \in Sends \union {NoSend}
    OBVIOUS
  <2>2. /\ table'[id] \in Entry /\ fds' \in [Fds -> Descriptor] /\ id \in Int
    BY FiniteTables, SocketAssumption DEF IInv, TablesOK
  <2>. QED  BY <2>2, SendingFacts
<1>2. \A id \in DOMAIN table' : SentOn(id) => SentOK'
  BY <1>1 DEF SentOn, SentOK
<1>3. ASSUME NEW t, NEW e, Registered(t, e)
      PROVE  Increment \in DOMAIN table'
  BY <1>3 DEF Registered, Put
<1>4. ASSUME NEW type, NEW port, NEW addr, NEW peer, kSocketOpen(type, port, addr, peer)
      PROVE  SentOK'
  BY <1>2, <1>3, <1>4 DEF kSocketOpen, SentOK
<1>5. ASSUME NEW addr, NEW peer, kSocketOpenRaw(addr, peer)
      PROVE  SentOK'
  BY <1>2, <1>3, <1>5 DEF kSocketOpenRaw, SentOK
<1>6. ASSUME NEW k \in DOMAIN table, NEW peer, Reuse(k, peer)
      PROVE  SentOK'
  <2>1. DOMAIN table' = DOMAIN table
    BY <1>6 DEF Reuse
  <2>. QED  BY <1>2, <1>6, <2>1 DEF Reuse
<1>7. ASSUME NEW protocol \in Protocols, NEW port, NEW addr, NEW peer,
             ConnectReq(protocol, port, addr, peer)
      PROVE  SentOK'
  BY <1>4, <1>5, <1>6, <1>7, ReusableFacts DEF ConnectReq
<1>8. ASSUME NEW protocol \in Protocols, NEW port, NEW addr, ListenReq(protocol, port, addr)
      PROVE  SentOK'
  BY <1>5, <1>8 DEF ListenReq, kSocketOpenWaitSocket, SentOK
<1>9. ASSUME NEW id \in DOMAIN table, SendReq(id)
      PROVE  SentOK'
  <2>1. table' = table /\ fds' = fds
    BY <1>9 DEF SendReq
  <2>. QED  BY <1>1, <1>9, <2>1 DEF SendReq, SentOK
<1>10. ASSUME NEW S, CloseSockets(S)
       PROVE  SentOK'
  BY <1>10 DEF CloseSockets, SentOK
<1>11. CASE ClientConnects
  BY <1>11 DEF ClientConnects, Adopt, SentOK
<1>12. ASSUME NEW h \in Fds, NEW peer \in Peers, Accept(h, peer)
       PROVE  SentOK'
  BY <1>12 DEF Accept, AcceptFails, Adopt, SentOK
<1>13. CASE UNCHANGED vars
  BY <1>13 DEF vars, SentOK
<1>. QED  BY <1>7, <1>8, <1>9, <1>10, <1>11, <1>12, <1>13
          DEF Next, kSocketClose, Hangup

LEMMA InitIInv == Init => IInv /\ SentOK
<1>. SUFFICES ASSUME Init PROVE IInv /\ SentOK
  OBVIOUS
<1>1. First(Fds) \in Fds
  <2>1. Fds \subseteq Int /\ IsFiniteSet(Fds) /\ Fds # {}
    BY SocketAssumption
  <2>. QED  BY <2>1, FirstIsLeast
<1>2. /\ DOMAIN table = {1} /\ table[1] \in Entry /\ table \in [{1} -> Entry]
      /\ table[1].alive /\ table[1].type = "UNIX" /\ table[1].conn = 1
      /\ table[1].handle = First(Fds) /\ table[1].parent = 0
  <2>1. table[1] = [type |-> "UNIX", alive |-> TRUE, parent |-> 0,
                    handle |-> First(Fds), port |-> 0, addr |-> Any,
                    peer |-> Nobody, conn |-> 1]
    BY DEF Init
  <2>2. table[1] \in Entry
    BY <1>1, <2>1 DEF Entry, SocketTypes, UnixTypes
  <2>. QED  BY <2>1, <2>2 DEF Init
<1>3. /\ fds \in [Fds -> Descriptor] /\ fds[First(Fds)].conn = 1
      /\ \A f \in Fds : fds[f].conn # 0 => f = First(Fds)
  BY <1>1 DEF Init, Closed, Descriptor
<1>4. TablesOK
  BY <1>1, <1>2, <1>3, SocketAssumption DEF Init, TablesOK
<1>5. IdsInv /\ ParentsInv /\ ChildHasListener
  BY <1>2 DEF Init, IdsInv, ParentsInv, ChildHasListener
<1>6. HandleIsOwn /\ AliveIsWatched /\ WatchedHasEntry
  BY <1>1, <1>2, <1>3 DEF Init, HandleIsOwn, AliveIsWatched, WatchedHasEntry, IsOpen
<1>. QED  BY <1>4, <1>5, <1>6 DEF IInv, Init, SentOK

LEMMA NextIInv == IInv /\ [Next]_vars => IInv'
<1>. SUFFICES ASSUME IInv, [Next]_vars PROVE IInv'
  OBVIOUS
<1>1. CASE ClientConnects
  BY <1>1, ClientKeeps
<1>2. ASSUME NEW protocol \in Protocols, NEW port \in SPorts, NEW addr \in Addrs \union {Any},
             NEW peer \in Destinations, ConnectReq(protocol, port, addr, peer)
      PROVE  IInv'
  BY <1>2, ReuseKeeps, ReusableFacts, OpenKeeps, OpenRawKeeps DEF ConnectReq, Commanded
<1>3. ASSUME NEW protocol \in Protocols, NEW port \in SPorts, NEW addr \in Addrs \union {Any},
             ListenReq(protocol, port, addr)
      PROVE  IInv'
  BY <1>3, WaitSocketKeeps, OpenRawKeeps DEF ListenReq, Commanded, ListenTypes
<1>4. ASSUME NEW h \in Fds, NEW peer \in Peers, Accept(h, peer)
      PROVE  IInv'
  BY <1>4, AcceptKeeps
<1>5. ASSUME NEW id \in DOMAIN table, SendReq(id)
      PROVE  IInv'
  BY <1>5, UnchangedKeeps DEF SendReq, Unchanged
<1>6. ASSUME NEW id \in 0 .. SOCKET_MAXNUM, NEW garbage \in BOOLEAN, kSocketClose(id, garbage)
      PROVE  IInv'
  BY <1>6, CloseKeeps
<1>7. ASSUME NEW c \in DOMAIN table, Hangup(c)
      PROVE  IInv'
  BY <1>7, HangupKeeps
<1>8. CASE UNCHANGED vars
  BY <1>8, UnchangedKeeps DEF vars, Unchanged
<1>. QED  BY <1>1, <1>2, <1>3, <1>4, <1>5, <1>6, <1>7, <1>8 DEF Next

\* What a step leaves of every entry.
Kept ==
  \A k \in DOMAIN table :
    /\ k \in DOMAIN table'
    /\ table'[k].conn = table[k].conn
    /\ table'[k].alive => table[k].alive

LEMMA RegisteredKept ==
  ASSUME IInv, NotWrapped, NEW e, Registered(table, e)
  PROVE  Kept
<1>1. Increment \notin DOMAIN table
  BY IncrementFacts
<1>2. \A k \in DOMAIN table : k \in DOMAIN table' /\ table'[k] = table[k]
  BY <1>1 DEF Registered, Put
<1>. QED  BY <1>2 DEF Kept

LEMMA MarkedKept ==
  ASSUME NEW S, IInv, table' = MarkClosed(table, S)
  PROVE  Kept
<1>1. \A k \in DOMAIN table : table[k] \in Entry
  BY DEF IInv, TablesOK
<1>2. ASSUME NEW k \in DOMAIN table
      PROVE  /\ k \in DOMAIN table' /\ table'[k].conn = table[k].conn
             /\ table'[k].alive => table[k].alive
  <2>1. CASE k \in S
    <3>1. k \in DOMAIN table' /\ table'[k] = [table[k] EXCEPT !.alive = FALSE]
      BY <2>1 DEF MarkClosed
    <3>. QED  BY <1>1, <3>1 DEF Entry
  <2>2. CASE k \notin S
    BY <2>2 DEF MarkClosed
  <2>. QED  BY <2>1, <2>2
<1>. QED  BY <1>2 DEF Kept

LEMMA NextKept == IInv /\ [Next]_vars => Kept
<1>. SUFFICES ASSUME IInv, [Next]_vars PROVE Kept
  OBVIOUS
<1>1. table' = table => Kept
  BY DEF Kept
<1>2. ASSUME NotWrapped, NEW f, NEW peer \in Destinations \union {Client, Nobody},
             Created(f, peer), NEW e, Registered(MakeSocketStatusClose(table, f), e)
      PROVE  Kept
  BY <1>2, CreatedFacts, RegisteredKept
<1>3. OptionFails \/ NoParser => Kept
  BY MarkedKept, <1>1 DEF OptionFails, NoParser, MakeSocketStatusClose
<1>4. ASSUME NotWrapped, NEW type, NEW port, NEW addr, NEW peer \in Destinations,
             kSocketOpen(type, port, addr, peer)
      PROVE  Kept
  <2>1. ASSUME NEW f \in Fds, NEW bound \in BOOLEAN,
               Created(f, IF bound THEN peer ELSE Nobody),
               NEW a,
               Registered(MakeSocketStatusClose(table, f),
                          NewEntry(type, f, 0, IF bound THEN port ELSE 0, a, peer))
        PROVE  Kept
    <3>1. (IF bound THEN peer ELSE Nobody) \in Destinations \union {Client, Nobody}
      BY <1>4
    <3>. QED  BY <1>2, <1>4, <2>1, <3>1
  <2>. QED  BY <1>1, <1>3, <1>4, <2>1 DEF kSocketOpen, Unchanged
<1>5. ASSUME NotWrapped, NEW addr, NEW peer \in Destinations \union {Nobody},
             kSocketOpenRaw(addr, peer)
      PROVE  Kept
  BY <1>1, <1>2, <1>5 DEF kSocketOpenRaw, Unchanged
<1>6. ASSUME NotWrapped, NEW type, NEW port, NEW addr, kSocketOpenWaitSocket(type, port, addr)
      PROVE  Kept
  BY <1>1, <1>2, <1>3, <1>6 DEF kSocketOpenWaitSocket, Unchanged
<1>7. ASSUME NEW k \in DOMAIN table, NEW peer, Reuse(k, peer)
      PROVE  Kept
  <2>1. \A j \in DOMAIN table : table[j] \in Entry
    BY DEF IInv, TablesOK
  <2>2. \A j \in DOMAIN table : /\ j \in DOMAIN table' /\ table'[j].conn = table[j].conn
                                /\ table'[j].alive = table[j].alive
    BY <1>7, <2>1 DEF Reuse, Entry
  <2>. QED  BY <2>2 DEF Kept
<1>8. ASSUME NEW S, CloseSockets(S)
      PROVE  Kept
  BY <1>8, MarkedKept DEF CloseSockets
<1>9. ASSUME NotWrapped, NEW f, NEW e, Adopt(f, e)
      PROVE  Kept
  BY <1>1, <1>9, RegisteredKept DEF Adopt
<1>10. ASSUME NEW protocol \in Protocols, NEW port \in SPorts, NEW addr \in Addrs \union {Any},
              NEW peer \in Destinations, ConnectReq(protocol, port, addr, peer)
       PROVE  Kept
  BY <1>4, <1>5, <1>7, <1>10, ReusableFacts DEF ConnectReq, Commanded
<1>11. ASSUME NEW protocol \in Protocols, NEW port \in SPorts, NEW addr \in Addrs \union {Any},
              ListenReq(protocol, port, addr)
       PROVE  Kept
  BY <1>5, <1>6, <1>11 DEF ListenReq, Commanded
<1>12. ASSUME NEW h \in Fds, NEW peer \in Peers, Accept(h, peer)
       PROVE  Kept
  BY <1>1, <1>9, <1>12 DEF Accept, AcceptFails
<1>13. CASE ClientConnects
  BY <1>9, <1>13 DEF ClientConnects
<1>14. ASSUME NEW id \in DOMAIN table, SendReq(id)
       PROVE  Kept
  BY <1>1, <1>14 DEF SendReq
<1>15. CASE UNCHANGED vars
  BY <1>1, <1>15 DEF vars
<1>. QED  BY <1>8, <1>10, <1>11, <1>12, <1>13, <1>14, <1>15 DEF Next, kSocketClose, Hangup

\* Where a connected socket of an entry leads: to the peer of the entry, or
\* nowhere, after a failed bind().  UDP entries change their peer.
PeersInv ==
  \A k \in DOMAIN table :
    table[k].type # "UDP" /\ fds[table[k].handle].conn = table[k].conn =>
      fds[table[k].handle].peer \in {Nobody, table[k].peer}

\* It is enough that entries keep what they name, that a new one names the
\* peer of its socket, and that a number is closed or given to a new socket.
LEMMA PeersKeep ==
  ASSUME IInv, PeersInv,
         \A k \in DOMAIN table :
           /\ table'[k].type = table[k].type /\ table'[k].handle = table[k].handle
           /\ table'[k].conn = table[k].conn
           /\ table'[k].peer = table[k].peer \/ table[k].type = "UDP",
         \A k \in DOMAIN table' \ DOMAIN table :
           fds'[table'[k].handle].peer \in {Nobody, table'[k].peer},
         \A h \in Fds : fds'[h] = fds[h] \/ fds'[h].conn = 0 \/ fds'[h].conn = conns + 1
  PROVE  PeersInv'
<1>1. SUFFICES ASSUME NEW k \in DOMAIN table', table'[k].type # "UDP",
                      fds'[table'[k].handle].conn = table'[k].conn
               PROVE  fds'[table'[k].handle].peer \in {Nobody, table'[k].peer}
  BY DEF PeersInv
<1>2. CASE k \notin DOMAIN table
  BY <1>2
<1>3. CASE k \in DOMAIN table
  <2>1. table[k].conn \in 1 .. conns /\ table[k].handle \in Fds /\ conns \in Nat
    BY <1>3 DEF IInv, IdsInv, TablesOK, Entry
  <2>2. fds'[table[k].handle] = fds[table[k].handle]
    BY <1>1, <1>3, <2>1
  <2>. QED  BY <1>1, <1>3, <2>2 DEF PeersInv
<1>. QED  BY <1>2, <1>3

\* A new socket, with or without an entry.
LEMMA CreatedPeers ==
  ASSUME IInv, PeersInv, NotWrapped,
         NEW f, NEW peer \in Destinations \union {Client, Nobody}, Created(f, peer),
         table' = table \/ \E e : /\ Registered(MakeSocketStatusClose(table, f), e)
                                  /\ e.handle = f /\ (peer = Nobody \/ e.peer = peer)
  PROVE  PeersInv'
<1>1. /\ f \in Fds /\ fds'[f] = [conn |-> conns + 1, peer |-> peer]
      /\ \A h \in Fds : fds'[h] = fds[h] \/ h = f
  <2>1. f \in Fds /\ fds \in [Fds -> Descriptor]
    BY CreatedFacts DEF IInv, TablesOK
  <2>. QED  BY <2>1 DEF Created
<1>2. CASE table' = table
  BY <1>1, <1>2, PeersKeep
<1>3. ASSUME NEW e, Registered(MakeSocketStatusClose(table, f), e), e.handle = f,
             peer = Nobody \/ e.peer = peer
      PROVE  PeersInv'
  <2>1. Registered(table, e) /\ Increment \notin DOMAIN table
    BY <1>3, CreatedFacts, IncrementFacts
  <2>2. /\ \A k \in DOMAIN table : table'[k] = table[k]
        /\ \A k \in DOMAIN table' \ DOMAIN table : table'[k] = e
    BY <2>1 DEF Registered, Put
  <2>. QED  BY <1>1, <1>3, <2>2, PeersKeep
<1>. QED  BY <1>2, <1>3

\* Sockets that are gone.
LEMMA ClosedPeers ==
  ASSUME IInv, PeersInv, NEW S, CloseSockets(S)
  PROVE  PeersInv'
<1>. DEFINE gone == {k \in S : IsOpen(table[k].handle)}
<1>1. /\ table' = MarkClosed(table, gone)
      /\ \A h \in Fds : fds'[h] = fds[h] \/ fds'[h].conn = 0
  BY DEF CloseSockets, Closed
<1>. HIDE DEF gone
<1>2. \A k \in DOMAIN table : table[k] \in Entry
  BY DEF IInv, TablesOK
<1>3. ASSUME NEW k \in DOMAIN table
      PROVE  /\ table'[k].type = table[k].type /\ table'[k].handle = table[k].handle
             /\ table'[k].conn = table[k].conn /\ table'[k].peer = table[k].peer
  <2>1. table'[k] = table[k] \/ table'[k] = [table[k] EXCEPT !.alive = FALSE]
    BY <1>1 DEF MarkClosed
  <2>. QED  BY <1>2, <2>1 DEF Entry
<1>4. DOMAIN table' = DOMAIN table
  BY <1>1 DEF MarkClosed
<1>. QED  BY <1>1, <1>3, <1>4, PeersKeep

\* A new destination for an entry, which is of type UDP.
LEMMA ReusePeers ==
  ASSUME IInv, PeersInv, NEW protocol, NEW port, NEW addr, NEW peer \in Destinations,
         NEW k \in Reusable(protocol, port, addr, peer), Reuse(k, peer)
  PROVE  PeersInv'
<1>. DEFINE S == SameUdpPort(port, peer)
<1>1. k \in DOMAIN table /\ table[k].type = "UDP"
  <2>1. S \subseteq {j \in DOMAIN table : table[j].type = "UDP"}
    BY DEF SameUdpPort
  <2>2. S # {} => Final(S) \in S
    <3>1. DOMAIN table \subseteq Int /\ IsFiniteSet(DOMAIN table)
      BY FiniteTables DEF IInv
    <3>2. S \subseteq Int /\ IsFiniteSet(S)
      <4>. HIDE DEF S
      <4>. QED  BY <2>1, <3>1, FS_Subset
    <3>. HIDE DEF S
    <3>. QED  BY <3>2, FinalIsGreatest
  <2>. QED  BY <2>1, <2>2 DEF Reusable
<1>2. \A j \in DOMAIN table : table[j] \in Entry
  BY DEF IInv, TablesOK
<1>3. /\ table' = [table EXCEPT ![k].peer = peer] /\ fds' = fds
      /\ DOMAIN table' = DOMAIN table
  BY DEF Reuse
<1>4. ASSUME NEW j \in DOMAIN table
      PROVE  /\ table'[j].type = table[j].type /\ table'[j].handle = table[j].handle
             /\ table'[j].conn = table[j].conn
             /\ table'[j].peer = table[j].peer \/ table[j].type = "UDP"
  BY <1>1, <1>2, <1>3 DEF Entry
<1>. QED  BY <1>3, <1>4, PeersKeep

LEMMA NextPeers == IInv /\ PeersInv /\ [Next]_vars => PeersInv'
<1>. SUFFICES ASSUME IInv, PeersInv, [Next]_vars PROVE PeersInv'
  OBVIOUS
<1>1. table' = table /\ fds' = fds => PeersInv'
  BY DEF PeersInv
<1>2. ASSUME OptionFails \/ NoParser
      PROVE  PeersInv'
  <2>1. First(Free) \in Free
    BY <1>2, FirstOfIds DEF OptionFails, NoParser, Free, IInv
  <2>. QED  BY <1>1, <1>2, <2>1, MarkingIsIdle DEF OptionFails, NoParser
<1>3. ASSUME NotWrapped, NEW type, NEW port, NEW addr, NEW peer \in Destinations,
             kSocketOpen(type, port, addr, peer)
      PROVE  PeersInv'
  <2>1. ASSUME NEW f \in Fds, NEW bound \in BOOLEAN,
               Created(f, IF bound THEN peer ELSE Nobody),
               NEW a,
               Registered(MakeSocketStatusClose(table, f),
                          NewEntry(type, f, 0, IF bound THEN port ELSE 0, a, peer))
        PROVE  PeersInv'
    <3>1. PICK e, to : /\ e = NewEntry(type, f, 0, IF bound THEN port ELSE 0, a, peer)
                       /\ to = (IF bound THEN peer ELSE Nobody)
      OBVIOUS
    <3>2. /\ to \in Destinations \union {Client, Nobody} /\ e.handle = f
          /\ to = Nobody \/ e.peer = to
      BY <3>1 DEF NewEntry
    <3>. QED  BY <1>3, <2>1, <3>1, <3>2, CreatedPeers
  <2>. QED  BY <1>1, <1>2, <1>3, <2>1 DEF kSocketOpen, Unchanged
<1>4. ASSUME NotWrapped, NEW addr, NEW peer \in Destinations \union {Nobody},
             kSocketOpenRaw(addr, peer)
      PROVE  PeersInv'
  <2>1. ASSUME NEW f \in Fds, Created(f, peer),
               Registered(MakeSocketStatusClose(table, f), NewEntry("RAW", f, 0, 0, addr, peer))
        PROVE  PeersInv'
    <3>1. PICK e : e = NewEntry("RAW", f, 0, 0, addr, peer)
      OBVIOUS
    <3>2. e.handle = f /\ e.peer = peer
      BY <3>1 DEF NewEntry
    <3>. QED  BY <1>4, <2>1, <3>1, <3>2, CreatedPeers
  <2>. QED  BY <1>1, <1>4, <2>1 DEF kSocketOpenRaw, Unchanged
<1>5. ASSUME NotWrapped, NEW type, NEW port, NEW addr, kSocketOpenWaitSocket(type, port, addr)
      PROVE  PeersInv'
  <2>1. ASSUME NEW f \in Fds, Created(f, Nobody),
               Registered(MakeSocketStatusClose(table, f), NewEntry(type, f, 0, port, addr, Nobody))
        PROVE  PeersInv'
    <3>1. NewEntry(type, f, 0, port, addr, Nobody).handle = f
      BY DEF NewEntry
    <3>. QED  BY <1>5, <2>1, <3>1, CreatedPeers
  <2>. QED  BY <1>1, <1>2, <1>5, <2>1 DEF kSocketOpenWaitSocket, Unchanged
<1>6. ASSUME NotWrapped, NEW f, NEW peer \in Destinations \union {Client, Nobody},
             Created(f, peer), NEW e, e.handle = f, e.peer = peer, Adopt(f, e)
      PROVE  PeersInv'
  BY <1>6, CreatedFacts, CreatedPeers DEF Adopt
<1>7. ASSUME NEW protocol \in Protocols, NEW port \in SPorts, NEW addr \in Addrs \union {Any},
             NEW peer \in Destinations, ConnectReq(protocol, port, addr, peer)
      PROVE  PeersInv'
  BY <1>3, <1>4, <1>7, ReusePeers DEF ConnectReq, Commanded
<1>8. ASSUME NEW protocol \in Protocols, NEW port \in SPorts, NEW addr \in Addrs \union {Any},
             ListenReq(protocol, port, addr)
      PROVE  PeersInv'
  BY <1>4, <1>5, <1>8 DEF ListenReq, Commanded
<1>9. ASSUME NEW h \in Fds, NEW peer \in Peers, Accept(h, peer)
      PROVE  PeersInv'
  <2>1. NotWrapped /\ peer \in Destinations
    BY <1>9 DEF Accept, Peers, Destinations
  <2>2. ASSUME NEW f \in Fds, AcceptFails(f, peer)
        PROVE  PeersInv'
    BY <2>1, <2>2, CreatedPeers DEF AcceptFails
  <2>3. ASSUME NEW f \in Fds, NEW a, NEW l, NEW type, Created(f, peer),
               Adopt(f, NewEntry(type, f, l, table[l].port, a, peer))
        PROVE  PeersInv'
    <3>1. PICK e : e = NewEntry(type, f, l, table[l].port, a, peer)
      OBVIOUS
    <3>2. e.handle = f /\ e.peer = peer
      BY <3>1 DEF NewEntry
    <3>. QED  BY <1>6, <2>1, <2>3, <3>1, <3>2
  <2>. QED  BY <1>9, <2>2, <2>3 DEF Accept
<1>10. CASE ClientConnects
  <2>1. PICK f \in Fds : /\ Created(f, Client)
                         /\ Adopt(f, NewEntry("UNIX_DATA", f, 0, 0, Any, Client))
    BY <1>10 DEF ClientConnects
  <2>2. PICK e : e = NewEntry("UNIX_DATA", f, 0, 0, Any, Client)
    OBVIOUS
  <2>3. e.handle = f /\ e.peer = Client
    BY <2>2 DEF NewEntry
  <2>. QED  BY <1>6, <1>10, <2>1, <2>2, <2>3 DEF ClientConnects
<1>11. ASSUME NEW S, CloseSockets(S)
       PROVE  PeersInv'
  BY <1>11, ClosedPeers
<1>12. ASSUME NEW id \in DOMAIN table, SendReq(id)
       PROVE  PeersInv'
  BY <1>1, <1>12 DEF SendReq
<1>13. CASE UNCHANGED vars
  BY <1>1, <1>13 DEF vars
<1>. QED  BY <1>7, <1>8, <1>9, <1>10, <1>11, <1>12, <1>13 DEF Next, kSocketClose, Hangup

\* What a step sends: nothing, or what a send on some entry sends, with the
\* table and the descriptors as they are after the step.
LEMMA SentIsSending ==
  ASSUME IInv, Next
  PROVE  sent' = NoSend \/ \E id \in DOMAIN table' : sent' = Sending(table', fds', id)
<1>. DEFINE P == sent' = NoSend \/ \E id \in DOMAIN table' : sent' = Sending(table', fds', id)
<1>1. ASSUME NEW t, NEW e, Registered(t, e), SentOn(Increment)
      PROVE  P
  BY <1>1 DEF Registered, Put, SentOn
<1>2. ASSUME NEW type, NEW port, NEW addr, NEW peer, kSocketOpen(type, port, addr, peer)
      PROVE  P
  BY <1>1, <1>2 DEF kSocketOpen
<1>3. ASSUME NEW addr, NEW peer, kSocketOpenRaw(addr, peer)
      PROVE  P
  BY <1>1, <1>3 DEF kSocketOpenRaw
<1>4. ASSUME NEW k \in DOMAIN table, NEW peer, Reuse(k, peer)
      PROVE  P
  BY <1>4 DEF Reuse, SentOn
<1>5. ASSUME NEW protocol \in Protocols, NEW port, NEW addr, NEW peer,
             ConnectReq(protocol, port, addr, peer)
      PROVE  P
  BY <1>2, <1>3, <1>4, <1>5, ReusableFacts DEF ConnectReq
<1>6. ASSUME NEW protocol \in Protocols, NEW port, NEW addr, ListenReq(protocol, port, addr)
      PROVE  P
  BY <1>3, <1>6 DEF ListenReq, kSocketOpenWaitSocket
<1>7. ASSUME NEW id \in DOMAIN table, SendReq(id)
      PROVE  P
  <2>1. table' = table /\ fds' = fds
    BY <1>7 DEF SendReq
  <2>. QED  BY <1>7, <2>1 DEF SendReq
<1>8. ASSUME NEW S, CloseSockets(S)
      PROVE  P
  BY <1>8 DEF CloseSockets
<1>9. CASE ClientConnects
  BY <1>9 DEF ClientConnects, Adopt
<1>10. ASSUME NEW h \in Fds, NEW peer \in Peers, Accept(h, peer)
       PROVE  P
  BY <1>10 DEF Accept, AcceptFails, Adopt
<1>. QED  BY <1>5, <1>6, <1>7, <1>8, <1>9, <1>10 DEF Next, kSocketClose, Hangup

\* The types of entries never change, nor are entries taken out.
LEMMA SentToPeerKeeps ==
  ASSUME IInv, IInv', PeersInv', SentToPeer, [Next]_vars
  PROVE  SentToPeer'
<1>1. CASE UNCHANGED vars
  BY <1>1 DEF vars, SentToPeer
<1>2. CASE Next
  <2>1. sent' = NoSend => SentToPeer'
    BY DEF NoSend, SentToPeer
  <2>2. ASSUME NEW id \in DOMAIN table', sent' = Sending(table', fds', id)
        PROVE  SentToPeer'
    <3>1. \/ sent' = NoSend
          \/ /\ fds'[table'[id].handle].peer # Nobody
             /\ sent'.id = id /\ sent'.conn = table'[id].conn /\ sent'.peer = table'[id].peer
             /\ sent'.atConn = fds'[table'[id].handle].conn
             /\ sent'.atPeer = fds'[table'[id].handle].peer
      BY <2>2 DEF Sending
    <3>. QED  BY <2>1, <3>1 DEF SentToPeer, PeersInv
  <2>. QED  BY <1>2, <2>1, <2>2, SentIsSending
<1>. QED  BY <1>1, <1>2

\* A descriptor that is watched and open stays both or loses both.
LEMMA ServedKeeps ==
  ASSUME IInv, Served, [Next]_vars
  PROVE  Served' \/ OptionFails
<1>. DEFINE P == Served' \/ OptionFails
<1>1. g_readfds' = g_readfds /\ fds' = fds => P
  BY DEF Served, IsOpen
<1>2. ASSUME NEW f, NEW peer \in Destinations \union {Client, Nobody}, Created(f, peer),
             g_readfds' = g_readfds \/ SELECT_IN(f)
      PROVE  P
  <2>1. /\ f \in Fds /\ fds \in [Fds -> Descriptor] /\ conns \in Nat /\ g_readfds \subseteq Fds
        /\ \A h \in Fds : IsOpen(h) => fds'[h] = fds[h]
    BY <1>2, CreatedFacts DEF IInv, TablesOK
  <2>2. fds'[f].conn # 0
    BY <1>2, <2>1 DEF Created
  <2>. QED  BY <1>2, <2>1, <2>2 DEF Served, IsOpen, SELECT_IN
<1>3. ASSUME NEW S, CloseSockets(S)
      PROVE  P
  <2>1. PICK handles : /\ fds' = [f \in Fds |-> IF f \in handles THEN Closed ELSE fds[f]]
                       /\ g_readfds' = g_readfds \ handles
    BY <1>3 DEF CloseSockets
  <2>2. g_readfds \subseteq Fds
    BY DEF IInv, TablesOK
  <2>. QED  BY <2>1, <2>2 DEF Served, IsOpen
<1>4. ASSUME NEW type, NEW port, NEW addr, NEW peer \in Destinations,
             kSocketOpen(type, port, addr, peer)
      PROVE  P
  <2>1. ASSUME NEW f, NEW bound \in BOOLEAN, Created(f, IF bound THEN peer ELSE Nobody),
               SELECT_IN(f)
        PROVE  P
    <3>1. (IF bound THEN peer ELSE Nobody) \in Destinations \union {Client, Nobody}
      BY <1>4
    <3>. QED  BY <1>2, <2>1, <3>1
  <2>. QED  BY <1>1, <1>4, <2>1 DEF kSocketOpen, Unchanged
<1>5. ASSUME NEW addr, NEW peer \in Destinations \union {Nobody}, kSocketOpenRaw(addr, peer)
      PROVE  P
  BY <1>1, <1>2, <1>5 DEF kSocketOpenRaw, Unchanged
<1>6. ASSUME NEW type, NEW port, NEW addr, kSocketOpenWaitSocket(type, port, addr)
      PROVE  P
  BY <1>1, <1>2, <1>6 DEF kSocketOpenWaitSocket, Unchanged, NoParser
<1>7. ASSUME NEW k, NEW peer, Reuse(k, peer)
      PROVE  P
  BY <1>1, <1>7 DEF Reuse
<1>8. ASSUME NEW protocol \in Protocols, NEW port \in SPorts, NEW addr \in Addrs \union {Any},
             NEW peer \in Destinations, ConnectReq(protocol, port, addr, peer)
      PROVE  P
  BY <1>4, <1>5, <1>7, <1>8 DEF ConnectReq
<1>9. ASSUME NEW protocol \in Protocols, NEW port \in SPorts, NEW addr \in Addrs \union {Any},
             ListenReq(protocol, port, addr)
      PROVE  P
  BY <1>5, <1>6, <1>9 DEF ListenReq
<1>10. ASSUME NEW h \in Fds, NEW peer \in Peers, Accept(h, peer)
       PROVE  P
  <2>1. peer \in Destinations
    BY DEF Peers, Destinations
  <2>. QED  BY <1>2, <1>10, <2>1 DEF Accept, AcceptFails, Adopt
<1>11. CASE ClientConnects
  BY <1>2, <1>11 DEF ClientConnects, Adopt
<1>12. ASSUME NEW id \in DOMAIN table, SendReq(id)
       PROVE  P
  BY <1>1, <1>12 DEF SendReq
<1>13. CASE UNCHANGED vars
  BY <1>1, <1>13 DEF vars
<1>. QED  BY <1>3, <1>8, <1>9, <1>10, <1>11, <1>12, <1>13 DEF Next, kSocketClose, Hangup

LEMMA InitPeers == Init => PeersInv /\ SentToPeer
<1>. SUFFICES ASSUME Init PROVE PeersInv /\ SentToPeer
  OBVIOUS
<1>1. First(Fds) \in Fds
  <2>1. Fds \subseteq Int /\ IsFiniteSet(Fds) /\ Fds # {}
    BY SocketAssumption
  <2>. QED  BY <2>1, FirstIsLeast
<1>2. DOMAIN table = {1} /\ table[1].handle = First(Fds)
  BY DEF Init
<1>3. fds[First(Fds)].peer = Nobody
  BY <1>1 DEF Init
<1>. QED  BY <1>2, <1>3 DEF Init, PeersInv, SentToPeer, NoSend

LEMMA Invariance == Spec => [](IInv /\ SentOK /\ PeersInv /\ SentToPeer)
<1>. DEFINE I == IInv /\ SentOK /\ PeersInv /\ SentToPeer
<1>1. I /\ [Next]_vars => I'
  BY NextIInv, SentKeeps, NextPeers, SentToPeerKeeps
<1>. QED  BY <1>1, InitIInv, InitPeers, PTL DEF Spec

\* The types of the table, the descriptors and the select list.
THEOREM TypeCorrect == Spec => []TypeOK
<1>1. IInv /\ SentOK => TypeOK
  BY DEF IInv, TablesOK, SentOK, TypeOK, Descriptor
<1>. QED  BY <1>1, Invariance, PTL

\* No descriptor number is given away while a live entry still names it.
THEOREM HandleCorrect == Spec => []HandleIsOwn
<1>1. IInv => HandleIsOwn
  BY DEF IInv
<1>. QED  BY <1>1, Invariance, PTL

\* The main loop watches every live socket, and knows every open one that
\* it watches as long as the socket ids last.
THEOREM WatchCorrect == Spec => []SelectListSound
<1>1. IInv => SelectListSound
  BY DEF IInv, SelectListSound
<1>. QED  BY <1>1, Invariance, PTL

\* Closing a TCP listener leaves none of its children open, in spite of the
\* condition that closes too much.
THEOREM ChildrenCorrect == Spec => []ChildHasListener
<1>1. IInv => ChildHasListener
  BY DEF IInv
<1>. QED  BY <1>1, Invariance, PTL

\* A socket id names one socket for ever, and no closed socket comes back
\* to life: ids are appended once and entries are never taken out.
THEOREM IdKeepsCorrect == Spec => IdKeepsSocket
<1>1. IInv /\ [Next]_vars =>
        [\A k \in DOMAIN table :
           /\ k \in DOMAIN table'
           /\ table'[k].conn = table[k].conn
           /\ table'[k].alive => table[k].alive]_vars
  BY NextKept DEF Kept
<1>. QED  BY <1>1, Invariance, PTL DEF Spec, IdKeepsSocket

\* Data that is sent on the socket of a TCP or raw entry reaches the peer that
\* the entry names: only UDP entries are used again for another peer, and a
\* failed bind() leaves a socket that sends nothing.
THEOREM SentToPeerCorrect == Spec => []SentToPeer
<1>. QED  BY Invariance, PTL

\* A failed setsockopt() is the only step that makes select() fail: every other
\* one takes a number that it closes off the list.
THEOREM ServedCorrect == Spec => ServedStays
<1>1. IInv /\ [Next]_vars => [Served => Served' \/ OptionFails]_vars
  BY ServedKeeps
<1>. QED  BY <1>1, Invariance, PTL DEF Spec, ServedStays

----------------------------------------------------------------------------
(* The close timer, KoiCloseTimer *)

\* The inductive invariant.  The counter alone is not inductive: that the
\* removal in a scan clears the slot the scan stands on needs the uniqueness
\* of the registration, and uniqueness needs the double check of the set.
TimerInv ==
  /\ TimerTypeOK
  /\ NumCountsOccupied
  /\ OneSlotPerSocket
  /\ ScanLeavesNothingDue

\* The slots are finitely many, hence so are the occupied ones.
LEMMA OccupiedFinite ==
  /\ IsFiniteSet(Occupied)
  /\ Cardinality(Occupied) \in 0 .. T_SCT_MAXNUM
  /\ Cardinality(Occupied) = T_SCT_MAXNUM => Occupied = Slots
<1>1. IsFiniteSet(Slots) /\ Cardinality(Slots) = T_SCT_MAXNUM
  BY FS_Interval, TableAssumption DEF Slots
<1>2. Occupied \in SUBSET Slots
  BY DEF Occupied
<1>3. /\ IsFiniteSet(Occupied)
      /\ Cardinality(Occupied) <= T_SCT_MAXNUM
      /\ Cardinality(Occupied) = T_SCT_MAXNUM => Occupied = Slots
  BY <1>1, <1>2, FS_Subset, Zenon
<1>4. Cardinality(Occupied) \in Nat
  BY <1>3, FS_CardinalityType
<1>. QED  BY <1>3, <1>4, TableAssumption

\* An empty table satisfies the invariant.
LEMMA InitTimerInv == TimerInit => TimerInv
<1>. SUFFICES ASSUME TimerInit PROVE TimerInv
  OBVIOUS
<1>. USE TableAssumption DEF TimerInit, EmptySlot, NoAnswer, T_SCT_INIT, Slots
<1>1. TimerTypeOK
  BY DEF TimerTypeOK
<1>2. Occupied = {}
  BY DEF Occupied, Vacant
<1>3. NumCountsOccupied
  BY <1>2, FS_EmptySet DEF NumCountsOccupied
<1>4. OneSlotPerSocket /\ ScanLeavesNothingDue
  BY <1>2 DEF OneSlotPerSocket, ScanLeavesNothingDue
<1>. QED  BY <1>1, <1>3, <1>4 DEF TimerInv

\* So does the table after kCloseTimerInit, whatever it held.
LEMMA ResetTimerInv ==
  ASSUME TimerInv, kCloseTimerInit
  PROVE  TimerInv'
<1>. USE TableAssumption
     DEF kCloseTimerInit, EmptySlot, NoAnswer, T_SCT_INIT, Slots
<1>1. TimerTypeOK'
  BY DEF TimerInv, TimerTypeOK
<1>2. Occupied' = {}
  BY DEF Occupied, Vacant
<1>3. NumCountsOccupied'
  BY <1>2, FS_EmptySet DEF NumCountsOccupied
<1>4. OneSlotPerSocket'
  BY <1>2 DEF OneSlotPerSocket
<1>5. ScanLeavesNothingDue'
  BY DEF ScanLeavesNothingDue
<1>. QED  BY <1>1, <1>3, <1>4, <1>5 DEF TimerInv

\* An accepted set fills the first vacant slot and no other.
LEMMA SetIInv ==
  ASSUME TimerInv, NEW s \in SocketIds, NEW sec \in Waits, kCloseTimerSet(s, sec)
  PROVE  TimerInv'
<1>. USE TableAssumption DEF T_SCT_INIT
<1>1. CASE SetRefused(s)
  <2>1. UNCHANGED <<close_table, table_num, now, cursor, current_time>>
    BY <1>1 DEF kCloseTimerSet
  <2>2. closed' = -1 /\ answer' = [socketid |-> s, ret |-> "RETURN_NG"]
    BY <1>1 DEF kCloseTimerSet
  <2>3. TimerTypeOK'
    BY <2>1, <2>2 DEF TimerInv, TimerTypeOK
  <2>4. Occupied' = Occupied
    BY <2>1 DEF Occupied, Vacant
  <2>. QED  BY <2>1, <2>3, <2>4
            DEF TimerInv, NumCountsOccupied, OneSlotPerSocket,
                ScanLeavesNothingDue, Vacant
<1>2. CASE ~SetRefused(s)
  <2>1. PICK k \in Slots :
          /\ IsFirst(k, T_SCT_INIT)
          /\ close_table' = [close_table EXCEPT
               ![k] = [sct_socketid |-> s, sct_expire |-> now + sec]]
    BY <1>2 DEF kCloseTimerSet
  <2>2. /\ table_num' = table_num + 1
        /\ closed' = -1
        /\ answer' = [socketid |-> s, ret |-> "RETURN_OK"]
        /\ cursor = 0
        /\ UNCHANGED <<now, cursor, current_time>>
    BY <1>2 DEF kCloseTimerSet
  <2>3. s \in Nat /\ ~InTable(s) /\ table_num # T_SCT_MAXNUM
    BY <1>2 DEF SetRefused
  <2>4. now + sec \in Nat
    BY DEF TimerInv, TimerTypeOK
  <2>5. TimerTypeOK'
    BY <2>1, <2>2, <2>3, <2>4 DEF TimerInv, TimerTypeOK
  <2>6. \A i \in Slots :
          /\ i = k => close_table'[i].sct_socketid = s
          /\ i # k => close_table'[i] = close_table[i]
    BY <2>1 DEF TimerInv, TimerTypeOK
  <2>7. k \notin Occupied /\ Occupied' = Occupied \union {k}
    BY <2>1, <2>3, <2>6 DEF Occupied, Vacant, IsFirst
  <2>8. NumCountsOccupied'
    BY <2>2, <2>7, FS_AddElement, OccupiedFinite DEF TimerInv, NumCountsOccupied
  <2>9. OneSlotPerSocket'
    BY <2>3, <2>6, <2>7 DEF TimerInv, OneSlotPerSocket, InTable, Occupied
  <2>10. ScanLeavesNothingDue'
    BY <2>2 DEF ScanLeavesNothingDue
  <2>. QED  BY <2>5, <2>8, <2>9, <2>10 DEF TimerInv
<1>. QED  BY <1>1, <1>2

\* The start of a scan: nothing is passed yet.
LEMMA ProcStartIInv ==
  ASSUME TimerInv, ProcStart
  PROVE  TimerInv'
<1>1. /\ UNCHANGED <<close_table, table_num, now>>
      /\ cursor' = 1 /\ current_time' = now
      /\ closed' = T_SCT_INIT /\ answer' = NoAnswer
  BY DEF ProcStart
<1>2. TimerTypeOK'
  BY <1>1, TableAssumption DEF TimerInv, TimerTypeOK, NoAnswer, T_SCT_INIT
<1>3. Occupied' = Occupied
  BY <1>1 DEF Occupied, Vacant
<1>4. ScanLeavesNothingDue'
  BY <1>1 DEF ScanLeavesNothingDue
<1>. QED  BY <1>1, <1>2, <1>3, <1>4
          DEF TimerInv, NumCountsOccupied, OneSlotPerSocket

\* The removal behind an expiry clears the very slot the scan stands on.
LEMMA RemoveClearsCursor ==
  ASSUME TimerInv, cursor # 0, Expired(cursor),
         kCloseTimerRemove(close_table[cursor].sct_socketid)
  PROVE  /\ cursor \in Occupied
         /\ close_table' = [close_table EXCEPT
                              ![cursor].sct_socketid = T_SCT_INIT]
         /\ table_num' = table_num - 1
<1>. DEFINE s == close_table[cursor].sct_socketid
<1>1. cursor \in Slots /\ cursor \in Occupied
  BY DEF TimerInv, TimerTypeOK, Slots, Expired, Occupied
<1>2. s \in Nat /\ InTable(s)
  BY <1>1 DEF TimerInv, TimerTypeOK, Expired, Vacant, InTable, T_SCT_INIT
<1>3. table_num # 0
  BY <1>1, OccupiedFinite, FS_EmptySet DEF TimerInv, NumCountsOccupied
<1>4. PICK k \in Slots :
        /\ IsFirst(k, s)
        /\ close_table' = [close_table EXCEPT ![k].sct_socketid = T_SCT_INIT]
  BY <1>2, <1>3 DEF kCloseTimerRemove
<1>5. k \in Occupied
  BY <1>2, <1>4 DEF IsFirst, Occupied, Vacant, T_SCT_INIT
<1>6. k = cursor
  BY <1>1, <1>4, <1>5 DEF TimerInv, OneSlotPerSocket, IsFirst
<1>7. table_num' = table_num - 1
  BY <1>2, <1>3 DEF kCloseTimerRemove
<1>. QED  BY <1>1, <1>4, <1>6, <1>7

\* A turn of the scan passes one slot: either it is not due, or the removal
\* behind the close clears it.
LEMMA ProcSlotIInv ==
  ASSUME TimerInv, ProcSlot
  PROVE  TimerInv'
<1>. USE TableAssumption
<1>1. /\ cursor # 0 /\ cursor \in Slots
      /\ cursor' = NextCursor(cursor)
      /\ answer' = NoAnswer
      /\ UNCHANGED <<now, current_time>>
  BY DEF ProcSlot, TimerInv, TimerTypeOK, Slots
<1>2. /\ cursor' \in 0 .. T_SCT_MAXNUM
      /\ cursor' # 0 => cursor' = cursor + 1
  BY <1>1 DEF NextCursor, Slots
<1>3. CASE ~Expired(cursor)
  <2>1. UNCHANGED <<close_table, table_num>> /\ closed' = T_SCT_INIT
    BY <1>3, <1>1 DEF ProcSlot
  <2>2. TimerTypeOK'
    BY <1>1, <1>2, <2>1 DEF TimerInv, TimerTypeOK, NoAnswer, T_SCT_INIT
  <2>3. Occupied' = Occupied
    BY <2>1 DEF Occupied, Vacant
  <2>4. ~Vacant(cursor) => close_table[cursor].sct_expire > current_time
    BY <1>1, <1>3 DEF Expired, TimerInv, TimerTypeOK
  <2>5. ScanLeavesNothingDue'
    BY <1>1, <1>2, <2>1, <2>4 DEF TimerInv, TimerTypeOK, ScanLeavesNothingDue, Vacant
  <2>. QED  BY <2>1, <2>2, <2>3, <2>5
            DEF TimerInv, NumCountsOccupied, OneSlotPerSocket
<1>4. CASE Expired(cursor)
  <2>1. /\ closed' = close_table[cursor].sct_socketid
        /\ kCloseTimerRemove(close_table[cursor].sct_socketid)
    BY <1>4, <1>1 DEF ProcSlot
  <2>2. /\ cursor \in Occupied
        /\ close_table' = [close_table EXCEPT
                             ![cursor].sct_socketid = T_SCT_INIT]
        /\ table_num' = table_num - 1
    BY <1>1, <1>4, <2>1, RemoveClearsCursor
  <2>3. table_num # 0
    BY <2>2, OccupiedFinite, FS_EmptySet DEF TimerInv, NumCountsOccupied
  <2>4. TimerTypeOK'
    BY <1>1, <1>2, <2>1, <2>2, <2>3 DEF TimerInv, TimerTypeOK, NoAnswer, T_SCT_INIT
  <2>5. \A i \in Slots :
          /\ i = cursor => close_table'[i].sct_socketid = T_SCT_INIT
          /\ i # cursor => close_table'[i] = close_table[i]
    BY <2>2 DEF TimerInv, TimerTypeOK
  <2>6. Occupied' = Occupied \ {cursor}
    BY <2>5, <1>1 DEF Occupied, Vacant
  <2>7. NumCountsOccupied'
    BY <2>2, <2>6, FS_RemoveElement, OccupiedFinite
    DEF TimerInv, NumCountsOccupied
  <2>8. OneSlotPerSocket'
    BY <2>5, <2>6 DEF TimerInv, OneSlotPerSocket, Occupied
  <2>9. ScanLeavesNothingDue'
    BY <1>1, <1>2, <2>5
    DEF TimerInv, TimerTypeOK, ScanLeavesNothingDue, Vacant, Slots
  <2>. QED  BY <2>4, <2>7, <2>8, <2>9 DEF TimerInv
<1>. QED  BY <1>3, <1>4

\* Time does not touch the table, and a scan keeps its clock reading.
LEMMA TickIInv ==
  ASSUME TimerInv, Tick
  PROVE  TimerInv'
<1>1. /\ UNCHANGED <<close_table, table_num, cursor, current_time>>
      /\ now' = now + 1 /\ closed' = T_SCT_INIT /\ answer' = NoAnswer
  BY DEF Tick
<1>2. TimerTypeOK'
  BY <1>1 DEF TimerInv, TimerTypeOK, NoAnswer, T_SCT_INIT
<1>. QED  BY <1>1, <1>2 DEF TimerInv, NumCountsOccupied, OneSlotPerSocket,
            ScanLeavesNothingDue, Occupied, Vacant

\* TimerInv is inductive: a case for each action of TimerNext.
LEMMA NextTimerInv == TimerInv /\ [TimerNext]_timerVars => TimerInv'
<1>. SUFFICES ASSUME TimerInv, [TimerNext]_timerVars PROVE TimerInv'
  OBVIOUS
<1>1. CASE UNCHANGED timerVars
  BY <1>1 DEF timerVars, TimerInv, TimerTypeOK, NumCountsOccupied, OneSlotPerSocket,
     ScanLeavesNothingDue, Occupied, Vacant
<1>. QED  BY <1>1, ResetTimerInv, SetIInv, ProcStartIInv, ProcSlotIInv, TickIInv
          DEF TimerNext

----------------------------------------------------------------------------
\* Every slot holds a socket id or T_SCT_INIT, and the scan stays in the table.
THEOREM TimerTypeCorrect == TimerSpec => []TimerTypeOK
<1>. TimerInv => TimerTypeOK
  BY DEF TimerInv
<1>. QED  BY InitTimerInv, NextTimerInv, PTL DEF TimerSpec

\* The counter that kCloseTimerSet compares with T_SCT_MAXNUM counts exactly
\* the slots in use, and no socket ever occupies two of them, in every order
\* of sets, expiries and resets.
THEOREM TableCorrect == TimerSpec => []TableSound
<1>. TimerInv => TableSound
  BY DEF TimerInv, TableSound
<1>. QED  BY InitTimerInv, NextTimerInv, PTL DEF TimerSpec

\* A scan never passes a slot that was due when it read the clock.
THEOREM ScanComplete == TimerSpec => []ScanLeavesNothingDue
<1>. TimerInv => ScanLeavesNothingDue
  BY DEF TimerInv
<1>. QED  BY InitTimerInv, NextTimerInv, PTL DEF TimerSpec

----------------------------------------------------------------------------
\* What the agenda sees of a slot: with one slot per socket the first slot
\* that holds an id is the only one.
SlotShowsDeadline ==
  \A i \in Occupied :
    DeadlineOf(close_table[i].sct_socketid) = close_table[i].sct_expire

\* By the uniqueness of registrations.
LEMMA DeadlineOfSlot == TimerInv => SlotShowsDeadline
<1>. SUFFICES ASSUME TimerInv, NEW i \in Occupied
              PROVE  DeadlineOf(close_table[i].sct_socketid)
                       = close_table[i].sct_expire
  BY DEF SlotShowsDeadline
<1>. DEFINE s == close_table[i].sct_socketid
            k == CHOOSE j \in Slots : IsFirst(j, s)
<1>1. i \in Slots /\ s # T_SCT_INIT
  BY DEF Occupied, Vacant
<1>2. \A j \in Slots : close_table[j].sct_socketid = s => j = i
  BY <1>1 DEF TimerInv, OneSlotPerSocket, Occupied, Vacant
<1>3. IsFirst(i, s)
  <2>1. ASSUME NEW j \in 1 .. (i - 1) PROVE j \in Slots /\ j # i
    BY <1>1, TableAssumption DEF Slots
  <2>. QED  BY <1>2, <2>1 DEF IsFirst
<1>4. k \in Slots /\ IsFirst(k, s)
  BY <1>1, <1>3
<1>5. k = i
  BY <1>2, <1>4 DEF IsFirst
<1>. QED  BY <1>5 DEF DeadlineOf

\* A step that keeps the slots keeps the agenda.
LEMMA SameTableSameAgenda ==
  ASSUME UNCHANGED close_table
  PROVE  [s \in Waiting |-> DeadlineOf(s)]' = [s \in Waiting |-> DeadlineOf(s)]
BY DEF Waiting, DeadlineOf, Occupied, Vacant, IsFirst

\* An accepted kCloseTimerSet is an Accept of the agenda.
LEMMA SetIsAccept ==
  ASSUME TimerInv, TimerInv', NEW s \in SocketIds, NEW sec \in Waits,
         kCloseTimerSet(s, sec), ~SetRefused(s),
         SlotShowsDeadline, SlotShowsDeadline'
  PROVE  s \in Nat /\ Agenda!Accept(s, sec)
<1>1. PICK k \in Slots :
        /\ IsFirst(k, T_SCT_INIT)
        /\ close_table' = [close_table EXCEPT
             ![k] = [sct_socketid |-> s, sct_expire |-> now + sec]]
  BY DEF kCloseTimerSet
<1>2. /\ closed' = T_SCT_INIT /\ UNCHANGED now /\ Accepted' = s
      /\ s \in Nat /\ ~InTable(s) /\ table_num # T_SCT_MAXNUM
  BY TableAssumption DEF kCloseTimerSet, SetRefused, Accepted
<1>3. \A i \in Slots :
        /\ i = k => close_table'[i] = [sct_socketid |-> s, sct_expire |-> now + sec]
        /\ i # k => close_table'[i] = close_table[i]
  BY <1>1 DEF TimerInv, TimerTypeOK
<1>4. k \notin Occupied /\ Occupied' = Occupied \union {k}
  BY <1>1, <1>2, <1>3 DEF Occupied, Vacant, IsFirst, T_SCT_INIT
<1>5. s \notin Waiting
  BY <1>2 DEF Waiting, InTable, Occupied
<1>6. Waiting' = Waiting \union {s}
  <2>1. ASSUME NEW t \in Waiting' PROVE t \in Waiting \union {s}
    <3>1. PICK i \in Occupied' : t = (close_table[i].sct_socketid)'
      BY <2>1 DEF Waiting
    <3>. QED  BY <1>3, <1>4, <3>1 DEF Waiting, Occupied
  <2>2. ASSUME NEW t \in Waiting PROVE t \in Waiting'
    <3>1. PICK i \in Occupied : t = close_table[i].sct_socketid
      BY <2>2 DEF Waiting
    <3>2. i \in Occupied' /\ (close_table[i].sct_socketid)' = t
      BY <1>3, <1>4, <3>1 DEF Occupied
    <3>. QED  BY <3>2 DEF Waiting
  <2>3. s \in Waiting'
    BY <1>3, <1>4 DEF Waiting
  <2>. QED  BY <2>1, <2>2, <2>3
<1>7. DeadlineOf(s)' = now + sec
  <2>1. k \in Occupied' /\ close_table'[k] = [sct_socketid |-> s, sct_expire |-> now + sec]
    BY <1>3, <1>4
  <2>. QED  BY <2>1 DEF SlotShowsDeadline
<1>8. ASSUME NEW t \in Waiting PROVE DeadlineOf(t)' = DeadlineOf(t)
  <2>1. PICK i \in Occupied : t = close_table[i].sct_socketid
    BY DEF Waiting
  <2>2. i \in Occupied' /\ close_table'[i] = close_table[i]
    BY <1>3, <1>4, <2>1 DEF Occupied
  <2>3. DeadlineOf(t)' = close_table[i].sct_expire
    BY <2>1, <2>2 DEF SlotShowsDeadline
  <2>. QED  BY <2>1, <2>3 DEF SlotShowsDeadline
<1>9. [u \in Waiting |-> DeadlineOf(u)]'
        = [u \in Waiting \union {s} |->
             IF u = s THEN now + sec ELSE [v \in Waiting |-> DeadlineOf(v)][u]]
  BY <1>5, <1>6, <1>7, <1>8, Zenon
<1>. QED  BY <1>2, <1>5, <1>9 DEF Agenda!Accept

\* An expired slot is a Close of the agenda, at a time the agenda allows.
LEMMA ExpiryIsClose ==
  ASSUME TimerInv, TimerInv', ProcSlot, Expired(cursor), current_time <= now,
         SlotShowsDeadline, SlotShowsDeadline'
  PROVE  closed' \in Waiting /\ Agenda!Close(closed')
<1>. DEFINE s == close_table[cursor].sct_socketid
<1>1. /\ cursor # 0 /\ closed' = s
      /\ kCloseTimerRemove(s) /\ UNCHANGED now
      /\ Accepted' = T_SCT_INIT
  BY DEF ProcSlot, Accepted, NoAnswer
<1>2. /\ cursor \in Occupied
      /\ close_table' = [close_table EXCEPT ![cursor].sct_socketid = T_SCT_INIT]
  BY <1>1, RemoveClearsCursor
<1>3. \A i \in Slots :
        /\ i = cursor => close_table'[i].sct_socketid = T_SCT_INIT
        /\ i # cursor => close_table'[i] = close_table[i]
  BY <1>2 DEF TimerInv, TimerTypeOK
<1>4. Occupied' = Occupied \ {cursor}
  BY <1>2, <1>3 DEF Occupied, Vacant
<1>5. s \in Waiting /\ DeadlineOf(s) = close_table[cursor].sct_expire
  BY <1>2 DEF Waiting, SlotShowsDeadline
<1>6. DeadlineOf(s) <= now
  <2>1. close_table[cursor].sct_expire \in Nat
    BY <1>2 DEF TimerInv, TimerTypeOK, Occupied
  <2>. QED  BY <1>5, <2>1 DEF Expired, TimerInv, TimerTypeOK
<1>7. Waiting' = Waiting \ {s}
  <2>1. ASSUME NEW t \in Waiting' PROVE t \in Waiting \ {s}
    <3>1. PICK i \in Occupied' : t = (close_table[i].sct_socketid)'
      BY <2>1 DEF Waiting
    <3>2. i \in Occupied /\ i # cursor /\ t = close_table[i].sct_socketid
      BY <1>3, <1>4, <3>1 DEF Occupied
    <3>. QED  BY <3>2, <1>2 DEF Waiting, TimerInv, OneSlotPerSocket
  <2>2. ASSUME NEW t \in Waiting \ {s} PROVE t \in Waiting'
    <3>1. PICK i \in Occupied : t = close_table[i].sct_socketid
      BY <2>2 DEF Waiting
    <3>2. i \in Occupied' /\ (close_table[i].sct_socketid)' = t
      BY <1>3, <1>4, <2>2, <3>1 DEF Occupied
    <3>. QED  BY <3>2 DEF Waiting
  <2>. QED  BY <2>1, <2>2
<1>8. ASSUME NEW t \in Waiting' PROVE DeadlineOf(t)' = DeadlineOf(t)
  <2>1. PICK i \in Occupied' : t = (close_table[i].sct_socketid)'
    BY <1>8 DEF Waiting
  <2>2. i \in Occupied /\ close_table'[i] = close_table[i]
    BY <1>3, <1>4, <2>1 DEF Occupied
  <2>3. DeadlineOf(t)' = close_table[i].sct_expire
    BY <2>1, <2>2 DEF SlotShowsDeadline
  <2>. QED  BY <2>1, <2>2, <2>3 DEF SlotShowsDeadline
<1>9. [u \in Waiting |-> DeadlineOf(u)]'
        = [u \in Waiting \ {s} |-> [v \in Waiting |-> DeadlineOf(v)][u]]
  BY <1>7, <1>8, Zenon
<1>. QED  BY <1>1, <1>5, <1>6, <1>9 DEF Agenda!Close

\* The clock of a scan was read in the past.
ScanClock == current_time \in Nat /\ now \in Nat /\ current_time <= now

\* So it stays while time passes.
LEMMA ScanClockInvariant == TimerSpec => []ScanClock
<1>1. TimerInit => ScanClock
  BY DEF TimerInit, ScanClock
<1>2. ScanClock /\ [TimerNext]_timerVars => ScanClock'
  BY DEF ScanClock, TimerNext, timerVars, kCloseTimerInit, kCloseTimerSet, ProcStart,
         ProcSlot, Tick
<1>. QED  BY <1>1, <1>2, PTL DEF TimerSpec

\* The slot table implements the agenda: every step of the code is a step the
\* agenda allows, or changes nothing the agenda shows.  In particular no
\* socket is closed before its deadline and no accepted request is lost.
THEOREM CloseTimerImplementsAgenda == TimerSpec => ImplementsAgenda
<1>1. TimerInit => Agenda!Init
  <2>. SUFFICES ASSUME TimerInit PROVE Agenda!Init
    OBVIOUS
  <2>1. Waiting = {}
    BY DEF TimerInit, Waiting, Occupied, Vacant, EmptySlot
  <2>. QED  BY <2>1 DEF Agenda!Init, Agenda!Nobody, TimerInit, Accepted, NoAnswer
<1>2. TimerInv /\ TimerInv' => SlotShowsDeadline /\ SlotShowsDeadline'
  BY DeadlineOfSlot, PTL
<1>3. TimerInv /\ TimerInv' /\ ScanClock /\ [TimerNext]_timerVars => [Agenda!Next]_(Agenda!vars)
  <2>. SUFFICES ASSUME TimerInv, TimerInv', ScanClock, [TimerNext]_timerVars
                PROVE  [Agenda!Next]_(Agenda!vars)
    OBVIOUS
  <2>1. CASE kCloseTimerInit
    <3>1. Waiting' = {}
      BY <2>1 DEF kCloseTimerInit, Waiting, Occupied, Vacant, EmptySlot
    <3>2. Agenda!Reset
      BY <2>1, <3>1 DEF kCloseTimerInit, Agenda!Reset, Agenda!Nobody,
         Accepted, NoAnswer
    <3>. QED  BY <3>2 DEF Agenda!Next
  <2>2. ASSUME NEW s \in SocketIds, NEW sec \in Waits, kCloseTimerSet(s, sec)
        PROVE  Agenda!Next
    <3>1. CASE ~SetRefused(s)
      BY <2>2, <3>1, <1>2, SetIsAccept DEF Agenda!Next
    <3>2. CASE SetRefused(s)
      <4>1. /\ UNCHANGED <<close_table, now>>
            /\ closed' = T_SCT_INIT /\ Accepted' = T_SCT_INIT
        BY <2>2, <3>2 DEF kCloseTimerSet, Accepted
      <4>2. Agenda!Quiet
        BY <4>1, SameTableSameAgenda DEF Agenda!Quiet
      <4>. QED  BY <4>2 DEF Agenda!Next
    <3>. QED  BY <3>1, <3>2
  <2>3. CASE ProcStart
    <3>1. Agenda!Quiet
      BY <2>3, SameTableSameAgenda 
      DEF ProcStart, Agenda!Quiet, Accepted, NoAnswer
    <3>. QED  BY <3>1 DEF Agenda!Next
  <2>4. CASE ProcSlot
    <3>1. CASE ~Expired(cursor)
      <4>1. /\ UNCHANGED <<close_table, now>>
            /\ closed' = T_SCT_INIT /\ Accepted' = T_SCT_INIT
        BY <2>4, <3>1 DEF ProcSlot, Accepted, NoAnswer
      <4>2. Agenda!Quiet
        BY <4>1, SameTableSameAgenda DEF Agenda!Quiet
      <4>. QED  BY <4>2 DEF Agenda!Next
    <3>2. CASE Expired(cursor)
      <4>1. closed' \in Waiting /\ Agenda!Close(closed')
        BY <2>4, <3>2, <1>2, ExpiryIsClose DEF ScanClock
      <4>. QED  BY <4>1 DEF Agenda!Next
    <3>. QED  BY <3>1, <3>2
  <2>5. CASE Tick
    <3>1. Agenda!Tick
      BY <2>5, SameTableSameAgenda 
      DEF Tick, Agenda!Tick, Accepted, NoAnswer
    <3>. QED  BY <3>1 DEF Agenda!Next
  <2>6. CASE UNCHANGED timerVars
    BY <2>6, SameTableSameAgenda DEF timerVars, Agenda!vars, Accepted
  <2>. QED  BY <2>1, <2>2, <2>3, <2>4, <2>5, <2>6 DEF TimerNext
<1>. QED
  BY <1>1, <1>3, InitTimerInv, NextTimerInv, ScanClockInvariant, PTL
  DEF TimerSpec, ImplementsAgenda, Agenda!Spec

\* A request is never refused for lack of room while a slot is vacant.
THEOREM RefusalHasCause == TimerSpec => RefusedOnlyForCause
<1>1. TimerInv /\ [TimerNext]_timerVars =>
        [ answer'.ret = "RETURN_NG" =>
            \/ answer'.socketid < 0
            \/ InTable(answer'.socketid)
            \/ Occupied = Slots ]_timerVars
  <2>. SUFFICES ASSUME TimerInv, TimerNext, answer'.ret = "RETURN_NG"
                PROVE  \/ answer'.socketid < 0
                       \/ InTable(answer'.socketid)
                       \/ Occupied = Slots
    OBVIOUS
  <2>1. PICK s \in SocketIds, sec \in Waits : kCloseTimerSet(s, sec)
    BY DEF TimerNext, kCloseTimerInit, ProcStart, ProcSlot, Tick, NoAnswer
  <2>2. SetRefused(s) /\ answer'.socketid = s
    BY <2>1 DEF kCloseTimerSet
  <2>3. table_num = T_SCT_MAXNUM => Occupied = Slots
    BY OccupiedFinite DEF TimerInv, NumCountsOccupied
  <2>4. (\A i \in Slots : ~Vacant(i)) => Occupied = Slots
    BY DEF Occupied
  <2>. QED  BY <2>2, <2>3, <2>4 DEF SetRefused
<1>. QED  BY <1>1, InitTimerInv, NextTimerInv, PTL DEF TimerSpec, RefusedOnlyForCause
=============================================================================
