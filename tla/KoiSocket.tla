------------------------------ MODULE KoiSocket ------------------------------
(***************************************************************************)
(* The socket table of koid (lib/kSocket) over the descriptors of its      *)
(* process: how sockets are opened, accepted, reused, sent on and closed,  *)
(* and which descriptors the main loop watches.                            *)
(*                                                                         *)
(* An entry of the table names its socket by a descriptor number.  The     *)
(* kernel hands the lowest free number out again after a close(), and      *)
(* entries are never removed, so an entry may name a number that has long  *)
(* been given to another socket.  To tell these apart every socket that    *)
(* was ever created has a number of its own here, its conn.                *)
(*                                                                         *)
(* koid has one thread: a step is one handler, run to its end.  All        *)
(* sockets are of one address family.  TLS is the handshake that may fail; *)
(* memory is never exhausted, and a freed node keeps its contents.         *)
(***************************************************************************)
EXTENDS KoiList, KoiSocketTable, FiniteSets

CONSTANTS
  SOCKET_MAXNUM, \* the largest socket id, also the largest short
  Fds,           \* descriptor numbers
  Hosts,         \* remote hosts
  DPorts,        \*   and the ports on them
  SPorts,        \* local ports that commands name
  Addrs,         \* local addresses
  Any,           \* the unspecified local address
  Client,        \* the peer of a command channel
  Nobody,        \* the peer of a socket that is not connected
  MaxConns       \* bound of the model: sockets ever created

ASSUME SocketAssumption ==
  /\ SOCKET_MAXNUM \in Nat \ {0} /\ MaxConns \in Nat \ {0}
  /\ Fds \subseteq Nat /\ Fds # {} /\ IsFiniteSet(Fds)
  /\ DPorts \subseteq Nat \ {0} /\ SPorts \subseteq Nat \ {0}
  /\ Any \notin Addrs
  /\ Client # Nobody
  /\ {Client, Nobody} \intersect [host : Hosts, port : DPorts \union {0}] = {}

Peers == [host : Hosts, port : DPorts]

\* What a command may name: port 0 is no port to connect to.
Destinations == [host : Hosts, port : DPorts \union {0}]

VARIABLES
  table,             \* g_socket_start_ptr: socket id -> entry
  g_socket_socketid, \* the id given last, a short
  g_readfds,         \* the descriptors that select() watches
  fds,               \* the descriptor table of the process
  conns,             \* how many sockets were ever created
  sent               \* what the last step sent, and where it went

vars == <<table, g_socket_socketid, g_readfds, fds, conns, sent>>

Entry ==
  [type : SocketTypes, alive : BOOLEAN, parent : Nat, handle : Fds,
   port : SPorts \union {0}, addr : Addrs \union {Any},
   peer : Destinations \union {Client, Nobody}, conn : Nat]

Closed == [conn |-> 0, peer |-> Nobody]
IsOpen(f) == fds[f].conn # 0
Free == {f \in Fds : ~IsOpen(f)}

NoSend == [id |-> 0]

\* Where a send was to go and where it went.
Sends ==
  [id : Int, conn : Nat, peer : Destinations \union {Client, Nobody},
   atConn : Nat, atPeer : Destinations \union {Client, Nobody}]

TypeOK ==
  /\ DOMAIN table \subseteq (-SOCKET_MAXNUM - 1) .. SOCKET_MAXNUM
  /\ \A k \in DOMAIN table : table[k] \in Entry
  /\ g_socket_socketid \in (-SOCKET_MAXNUM - 1) .. SOCKET_MAXNUM
  /\ g_readfds \subseteq Fds
  /\ fds \in [Fds -> [conn : Nat, peer : Destinations \union {Client, Nobody}]]
  /\ conns \in Nat
  /\ sent \in Sends \union {NoSend}

----------------------------------------------------------------------------
(* The parts that the handlers share *)

\* select() fails for a set with a descriptor that is not open, and the
\* main loop then starts again without looking at any socket.
Served == \A f \in g_readfds : IsOpen(f)

\* Once the ids have wrapped (see Increment) the order of the list is no
\* longer that of the ids; the model then opens nothing more.
NotWrapped == g_socket_socketid >= 0

\* A handler that was given a command by a client.
Commanded ==
  /\ Served /\ NotWrapped
  /\ \E c \in DOMAIN table : table[c].type = "UNIX_DATA" /\ table[c].alive

\* "max socket number check" of all openers but kSocketOpenRaw.
Full == g_socket_socketid = SOCKET_MAXNUM

\* g_socket_socketid++ on a short whose largest value is SOCKET_MAXNUM.
Increment ==
  IF g_socket_socketid = SOCKET_MAXNUM THEN -SOCKET_MAXNUM - 1
  ELSE g_socket_socketid + 1

\* kSocketMakeSocketStatusClose: the first entry with that descriptor.
MakeSocketStatusClose(t, h) ==
  LET named == {k \in DOMAIN t : t[k].handle = h}
  IN IF named = {} THEN t ELSE MarkClosed(t, {First(named)})

Put(t, id, e) == [k \in DOMAIN t \union {id} |-> IF k = id THEN e ELSE t[k]]

\* kSocketGetSIBySocketHandle: the first live entry with that descriptor.
SIBySocketHandle(h) ==
  First({k \in DOMAIN table : table[k].handle = h /\ table[k].alive})

\* socket() or accept(): the lowest free number (external: the kernel).
Created(f, peer) ==
  /\ Free # {} /\ f = First(Free)
  /\ conns < MaxConns
  /\ conns' = conns + 1
  /\ fds' = [fds EXCEPT ![f] = [conn |-> conns + 1, peer |-> peer]]

SELECT_IN(f) == g_readfds' = g_readfds \union {f}

NewEntry(type, f, parent, port, addr, peer) ==
  [type |-> type, alive |-> TRUE, parent |-> parent, handle |-> f,
   port |-> port, addr |-> addr, peer |-> peer, conn |-> conns + 1]

\* Mutant: the entry takes the id that was given last.
Registered_SameId(t, e) ==
  /\ g_socket_socketid' = g_socket_socketid
  /\ table' = Put(t, IF g_socket_socketid = 0 THEN 1 ELSE g_socket_socketid, e)

\* The id and the place at the end of the list.
Registered(t, e) ==
  /\ g_socket_socketid' = Increment
  /\ table' = Put(t, Increment, e)

----------------------------------------------------------------------------
(* Sending *)

\* send() on the descriptor of an entry, whatever is open there by now; it
\* fails on a closed number and on a socket that is not connected.
Sending(t, d, id) ==
  LET at == d[t[id].handle]
  IN IF t[id].type \notin DataTypes \/ at.peer = Nobody THEN NoSend
     ELSE [id |-> id, conn |-> t[id].conn, peer |-> t[id].peer,
           atConn |-> at.conn, atPeer |-> at.peer]

\* A CONNECT that carries data sends it on the socket it ends up with.
SentOn(id) == sent' \in {NoSend, Sending(table', fds', id)}

\* SEND_REQ: kSocketSend looks the id up and never at its status.
SendReq(id) ==
  /\ Commanded
  /\ id \in DOMAIN table
  /\ sent' = Sending(table, fds, id)
  /\ UNCHANGED <<table, g_socket_socketid, g_readfds, fds, conns>>

----------------------------------------------------------------------------
(* Opening *)

\* A setsockopt() failed: the descriptor is closed and the number kept, put
\* on the select list, and the id counted, before getsockname() fails.
OptionFails ==
  /\ Free # {}
  /\ table' = MakeSocketStatusClose(table, First(Free))
  /\ g_socket_socketid' = Increment
  /\ SELECT_IN(First(Free))
  /\ UNCHANGED <<fds, conns>>

Unchanged == UNCHANGED <<table, g_socket_socketid, g_readfds, fds, conns>>

\* kSocketOpen.  A failed bind() frees the address lists, leaves the loop
\* and goes on with the socket as it is, bound and connected to nothing.
kSocketOpen(type, port, addr, peer) ==
  \/ /\ Unchanged                       \* an error return
     /\ sent' = NoSend
  \/ /\ ~Full
     /\ OptionFails
     /\ sent' = NoSend
  \/ \E f \in Fds, bound \in BOOLEAN :
       /\ ~Full
       /\ bound => peer \in Peers
       /\ Created(f, IF bound THEN peer ELSE Nobody)
       /\ SELECT_IN(f)
       /\ \E a \in IF ~bound THEN {Any} ELSE IF addr = Any THEN Addrs ELSE {addr} :
            Registered(MakeSocketStatusClose(table, f),
                       NewEntry(type, f, 0, IF bound THEN port ELSE 0, a, peer))
       /\ SentOn(Increment)

\* kSocketOpenRaw, which does not look at the limit.
kSocketOpenRaw(addr, peer) ==
  \/ /\ Unchanged                       \* an error return
     /\ sent' = NoSend
  \/ \E f \in Fds :
       /\ Created(f, peer)
       /\ SELECT_IN(f)
       /\ Registered(MakeSocketStatusClose(table, f),
                     NewEntry("RAW", f, 0, 0, addr, peer))
       /\ SentOn(Increment)

\* Mutant: the type of the entry is not looked at.
SameUdpPort_AnyType(port, peer) ==
  {k \in DOMAIN table :
     /\ \E j \in DOMAIN table : j > k
     /\ table[k].alive /\ table[k].peer \in Destinations
     /\ table[k].port = port
     /\ peer.port = 0 \/ table[k].peer.port = peer.port}

\* kSocketCheckNewSocket: the live UDP entries, the last of the list left
\* out, that have the local port and the remote port of the command.
SameUdpPort(port, peer) ==
  {k \in DOMAIN table :
     /\ \E j \in DOMAIN table : j > k
     /\ table[k].type = "UDP" /\ table[k].alive
     /\ table[k].port = port
     /\ peer.port = 0 \/ table[k].peer.port = peer.port}

\* The last of these is used again, unless both local addresses are given
\* and differ.  TCP passes the UDP entries over; TLS and ICMP do not.
Reusable(protocol, port, addr, peer) ==
  IF protocol = "TCP" \/ SameUdpPort(port, peer) = {} THEN {}
  ELSE LET k == Final(SameUdpPort(port, peer))
       IN IF {table[k].addr, addr} \subseteq Addrs /\ table[k].addr # addr
            THEN {} ELSE {k}

\* The entry takes the new destination; the socket stays as it is.
Reuse(k, peer) ==
  /\ table' = [table EXCEPT ![k].peer = peer]
  /\ UNCHANGED <<g_socket_socketid, g_readfds, fds, conns>>
  /\ SentOn(k)

\* CONNECT: process_command_connect_req.
ConnectReq(protocol, port, addr, peer) ==
  /\ Commanded
  /\ LET again == Reusable(protocol, port, addr, peer)
     IN \/ \E k \in again : Reuse(k, peer)
        \/ again = {} /\ protocol \in {"TCP", "TLS"}
           /\ kSocketOpen("DATA", port, addr, peer)
        \/ again = {} /\ protocol = "UDP" /\ kSocketOpen("UDP", port, addr, peer)
        \/ again = {} /\ protocol = "ICMP" /\ kSocketOpenRaw(addr, peer)

\* IsExistSameSocket.  It reads a LISTEN_UDP entry as if it were that of a
\* TCP listener and finds no address family there, so it knows only TCP.
IsExistSameSocket(type, port) ==
  /\ type = "LISTEN_TCP"
  /\ \E k \in DOMAIN table :
       table[k].type = type /\ table[k].alive /\ table[k].port = port

\* There is no parser for the frame id: the socket is closed and taken off
\* the select list, and the id stays counted.
NoParser ==
  /\ Free # {}
  /\ table' = MakeSocketStatusClose(table, First(Free))
  /\ g_socket_socketid' = Increment
  /\ UNCHANGED <<g_readfds, fds, conns>>

kSocketOpenWaitSocket(type, port, addr) ==
  /\ sent' = NoSend
  /\ \/ Unchanged       \* an error return, or OK for a socket that exists
     \/ /\ ~IsExistSameSocket(type, port) /\ ~Full
        /\ \/ OptionFails
           \/ type = "LISTEN_UDP" /\ NoParser
           \/ \E f \in Fds :
                /\ Created(f, Nobody)
                /\ SELECT_IN(f)
                /\ Registered(MakeSocketStatusClose(table, f),
                              NewEntry(type, f, 0, port, addr, Nobody))

\* LISTEN: process_command_wait_req.
ListenReq(protocol, port, addr) ==
  /\ Commanded
  /\ \/ protocol \in {"TCP", "TLS"} /\ kSocketOpenWaitSocket("LISTEN_TCP", port, addr)
     \/ protocol = "UDP" /\ kSocketOpenWaitSocket("LISTEN_UDP", port, addr)
     \/ protocol = "ICMP" /\ kSocketOpenRaw(addr, Nobody)

----------------------------------------------------------------------------
(* Accepting *)

\* The accepting handlers: a full table leaves the new descriptor without
\* an entry, and it is watched all the same.
Adopt(f, e) ==
  /\ SELECT_IN(f)
  /\ sent' = NoSend
  /\ IF Full THEN UNCHANGED <<table, g_socket_socketid>> ELSE Registered(table, e)

\* process_si_type_unixd
ClientConnects ==
  /\ Served /\ NotWrapped
  /\ \E k \in DOMAIN table : table[k].type = "UNIX" /\ table[k].alive
  /\ \E f \in Fds :
       /\ Created(f, Client)
       /\ Adopt(f, NewEntry("UNIX_DATA", f, 0, 0, Any, Client))

\* Mutant: the descriptor is watched when its entry could not be made.
AcceptFails_Watched(f, peer) ==
  /\ Created(f, peer)
  /\ SELECT_IN(f)
  /\ sent' = NoSend
  /\ UNCHANGED <<table, g_socket_socketid>>

\* An early return after accept(), for one a failed TLS handshake: the
\* descriptor stays open and nobody knows it.
AcceptFails(f, peer) ==
  /\ Created(f, peer)
  /\ sent' = NoSend
  /\ UNCHANGED <<table, g_socket_socketid, g_readfds>>

\* process_si_type_listen, for the listening socket with descriptor h.
Accept(h, peer) ==
  /\ Served /\ NotWrapped
  /\ \E l \in DOMAIN table :
       table[l].handle = h /\ table[l].alive /\ table[l].type \in ListenTypes
  /\ LET l == SIBySocketHandle(h)
         type == IF table[l].type = "LISTEN_TCP" THEN "DATA" ELSE "UDP"
     IN \E f \in Fds, a \in Addrs :
          \/ AcceptFails(f, peer)
          \/ /\ Created(f, peer)
             /\ Adopt(f, NewEntry(type, f, l, table[l].port, a, peer))

----------------------------------------------------------------------------
(* Closing *)

\* Mutant: the id is taken off the select list instead of the number.
CloseSockets_IdNotHandle(S) ==
  LET closed == {k \in S : IsOpen(table[k].handle)}
      handles == {table[k].handle : k \in closed}
  IN /\ table' = MarkClosed(table, closed)
     /\ fds' = [f \in Fds |-> IF f \in handles THEN Closed ELSE fds[f]]
     /\ g_readfds' = g_readfds \ closed
     /\ sent' = NoSend
     /\ UNCHANGED <<g_socket_socketid, conns>>

\* Mutant: the status is not changed.
CloseSockets_StaysAlive(S) ==
  LET handles == {table[k].handle : k \in S}
  IN /\ fds' = [f \in Fds |-> IF f \in handles THEN Closed ELSE fds[f]]
     /\ g_readfds' = g_readfds \ handles
     /\ sent' = NoSend
     /\ UNCHANGED <<table, g_socket_socketid, conns>>

\* The body of the loops of kSocketClose: close(), SELECT_OUT, the status.
\* An entry whose close() fails keeps its status and stays watched.
CloseSockets(S) ==
  LET closed == {k \in S : IsOpen(table[k].handle)}
      handles == {table[k].handle : k \in closed}
  IN /\ table' = MarkClosed(table, closed)
     /\ fds' = [f \in Fds |-> IF f \in handles THEN Closed ELSE fds[f]]
     /\ g_readfds' = g_readfds \ handles
     /\ sent' = NoSend
     /\ UNCHANGED <<g_socket_socketid, conns>>

\* kSocketClose, which the close timer calls at the start of every turn of
\* the main loop, served or not.
kSocketClose(id, garbage) ==
  /\ NotWrapped \/ id = 0
  /\ CloseSockets(ClosedBy(table, id, garbage))

\* process_si_type_unixd_data reads the end of the stream.
Hangup(c) ==
  /\ Served /\ NotWrapped
  /\ table[c].type = "UNIX_DATA" /\ table[c].alive
  /\ LET own == SIBySocketHandle(table[c].handle)
     IN CloseSockets({own} \union CloseAll(table))

----------------------------------------------------------------------------
(* main() opens the UNIX socket before the first turn of its loop. *)

Init ==
  /\ table = [k \in {1} |->
                [type |-> "UNIX", alive |-> TRUE, parent |-> 0,
                 handle |-> First(Fds), port |-> 0, addr |-> Any,
                 peer |-> Nobody, conn |-> 1]]
  /\ g_socket_socketid = 1
  /\ g_readfds = {First(Fds)}
  /\ fds = [f \in Fds |-> IF f = First(Fds) THEN [conn |-> 1, peer |-> Nobody]
                          ELSE Closed]
  /\ conns = 1
  /\ sent = NoSend

Protocols == {"TCP", "UDP", "ICMP", "TLS"}

Next ==
  \/ ClientConnects
  \/ \E protocol \in Protocols, port \in SPorts, addr \in Addrs \union {Any},
        peer \in Destinations : ConnectReq(protocol, port, addr, peer)
  \/ \E protocol \in Protocols, port \in SPorts, addr \in Addrs \union {Any} :
       ListenReq(protocol, port, addr)
  \/ \E h \in Fds, peer \in Peers : Accept(h, peer)
  \/ \E id \in DOMAIN table : SendReq(id)
  \/ \E id \in 0 .. SOCKET_MAXNUM, garbage \in BOOLEAN : kSocketClose(id, garbage)
  \/ \E c \in DOMAIN table : Hangup(c)

Spec == Init /\ [][Next]_vars

----------------------------------------------------------------------------
(* Properties *)

\* A live entry names its own socket: the number was not given to another
\* socket since, and what is read from it is booked under the right id.
HandleIsOwn ==
  \A k \in DOMAIN table : table[k].alive => fds[table[k].handle].conn = table[k].conn

\* The main loop looks at every live socket.
AliveIsWatched ==
  \A k \in DOMAIN table : table[k].alive => table[k].handle \in g_readfds

\* As long as the ids last, what the main loop watches it can also find:
\* an open descriptor that kSocketGetSelectedHandle does not know would be
\* reported by select() in every turn and never be read.
WatchedHasEntry ==
  g_socket_socketid \in 0 .. SOCKET_MAXNUM - 1 =>
    \A f \in g_readfds : IsOpen(f) =>
      \E k \in DOMAIN table : table[k].alive /\ table[k].handle = f

\* The select list and the table of sockets agree, in both directions.
SelectListSound == AliveIsWatched /\ WatchedHasEntry

\* No accepted TCP socket outlives its listening socket.
ChildHasListener ==
  \A k \in DOMAIN table :
    table[k].alive /\ table[k].type = "DATA" /\ table[k].parent # 0 =>
      Alive(table, table[k].parent)

\* A socket id that was given out names the same socket for ever, and a
\* socket that was closed does not come back.
IdKeepsSocket ==
  [][\A k \in DOMAIN table :
       /\ k \in DOMAIN table'
       /\ table'[k].conn = table[k].conn
       /\ table'[k].alive => table[k].alive]_vars

\* Once select() works it goes on working: closes, hangups, failed opens and
\* accepts leave no closed number on its list.  The one step that does is a
\* setsockopt() that fails; the main loop then serves nobody.
ServedStays == [][Served => Served' \/ OptionFails]_vars

\* Data sent on the own socket of an entry goes to the peer that the entry
\* names.  UDP entries are left out: a CONNECT that uses one again changes the
\* destination in the entry and leaves the socket connected where it was.
SentToPeer ==
  sent.id # 0 /\ sent.atConn = sent.conn /\ table[sent.id].type # "UDP" =>
    sent.atPeer = sent.peer
=============================================================================
