----------------------------- MODULE KoiStream -----------------------------
(***************************************************************************)
(* How koid cuts the byte streams of its TCP sockets into messages: the    *)
(* handler process_si_type_tcp of the dispatcher, the parser for DNS over  *)
(* TCP (two bytes of length, then the message) and lib/kBuffer, the linked *)
(* list that keeps the incomplete rest of what a socket received until     *)
(* more of it arrives.                                                     *)
(*                                                                         *)
(* A byte is its position in the stream of its socket, 1, 2, ...; a run of *)
(* bytes is an interval: behind "from", up to and including "to".  ends[s] *)
(* are the positions at which the messages that the peer of s sends end.   *)
(* recv() returns any part of what is left of the stream.                  *)
(*                                                                         *)
(* The handler runs to its end before anything else happens; its parsing   *)
(* loop is modelled turn by turn.                                          *)
(***************************************************************************)
EXTENDS KoiList, Sequences, FiniteSets

CONSTANTS
  Streams,     \* what peers send: sets of positions at which messages end
  MaxSockets   \* bound of the model: entries of the socket table

\* Messages have a header of two bytes.
HEADER == 2

IsStream(E) ==
  /\ E \subseteq Nat \ {0} /\ IsFiniteSet(E) /\ E # {}
  /\ \A i \in E : i >= HEADER
  /\ \A i, j \in E : i < j => i + HEADER <= j

ASSUME StreamAssumption ==
  /\ MaxSockets \in Nat
  /\ \A E \in Streams : IsStream(E)

\* Behind the UNIX socket and the client, which are there first.
Ids == 3 .. MaxSockets

VARIABLES
  ends,               \* the peers' streams
  g_socket_socketid,  \* entries of the socket table
  alive,              \* the TCP sockets among them that are not closed
  recvd,              \* recvd[s]: how much of its stream s has received
  piece,              \* everything ever stored as left data
  left,               \* g_ld_start_ptr, g_ld_last_ptr: list over piece
  g_ld_datanum,
  space,              \* packet_gen_space, while the handler runs
  messages,           \* messages[s]: what was passed to kDataRegist
  dropped             \* history: the sockets whose left data was not kept

buffer == <<piece, left, g_ld_datanum, dropped>>

vars == <<ends, g_socket_socketid, alive, recvd, buffer, space, messages>>

NoSpace == [socketid |-> 0, from |-> 0, to |-> 0]
Handling == space # NoSpace
Length == space.to - space.from
----------------------------------------------------------------------------
(* kBuffer *)

LeftOf(s) == {p \in left.linked : piece[p].socketid = s}

\* kBufferGet finds the first node of the socket, unless the table counts 0.
Found(s) == g_ld_datanum # 0 /\ LeftOf(s) # {}

\* Mutant: the node stays on the list.
kBufferGet_KeepsNode(s) == UNCHANGED <<left, g_ld_datanum>>

\* kBufferGet hands out the left data of the socket and removes it.
kBufferGet(s) ==
  IF Found(s)
    THEN /\ left' = Unlink(left, First(LeftOf(s)))
         /\ g_ld_datanum' = g_ld_datanum - 1
    ELSE UNCHANGED <<left, g_ld_datanum>>

\* The early returns of kBufferSet.
SetRefused(s) == g_ld_datanum = g_socket_socketid \/ LeftOf(s) # {}

\* The sockets whose nodes cannot be reached once the new node is linked.
CutOff ==
  {piece'[p].socketid : p \in (left.linked \union {Len(piece) + 1}) \ left'.linked}

kBufferSet(run) ==
  IF SetRefused(run.socketid)
    THEN /\ dropped' = dropped \union {run.socketid}
         /\ UNCHANGED <<piece, left, g_ld_datanum>>
    ELSE /\ piece' = Append(piece, run)
         /\ left' = Link(left, Len(piece) + 1)
         /\ g_ld_datanum' = g_ld_datanum + 1
         /\ dropped' = dropped \union CutOff

\* kBufferInit drops all nodes; the last pointer keeps its value.
kBufferInit == left' = [left EXCEPT !.linked = {}] /\ g_ld_datanum' = 0
----------------------------------------------------------------------------
(* kParserDNS *)

\* The sizes the parser may read at the start of the space: the length of
\* the message that begins there, or whatever bytes inside a message say.
Sizes ==
  IF space.from \in {0} \union ends[space.socketid]
    THEN {First({e \in ends[space.socketid] : e > space.from}) - space.from}
    ELSE HEADER .. Final(ends[space.socketid])

\* Mutant: a message that fills the space counts as incomplete.
Incomplete_Filled(size) == size >= Length

\* PA_NOMATCH; otherwise PA_JUSTONE or PA_LEFTDATA.
Incomplete(size) == size > Length
----------------------------------------------------------------------------
(* process_si_type_tcp *)

\* What the bytes just received are appended to: the left data, or nothing.
MergedFrom(s) == IF Found(s) THEN piece[First(LeftOf(s))].from ELSE recvd[s]

Remaining(s) == Final(ends[s]) - recvd[s]

Receive(s, n) ==
  /\ ~Handling /\ s \in alive /\ n <= Remaining(s)
  /\ kBufferGet(s)
  /\ space' = [socketid |-> s, from |-> MergedFrom(s), to |-> recvd[s] + n]
  /\ recvd' = [recvd EXCEPT ![s] = @ + n]
  /\ UNCHANGED <<ends, g_socket_socketid, alive, piece, messages, dropped>>

\* recv() returns 0: the peer has closed, perhaps inside a message.  A CLOSE
\* command does the same.
EndOfFile(s) ==
  /\ ~Handling /\ s \in alive
  /\ alive' = alive \ {s}
  /\ UNCHANGED <<ends, g_socket_socketid, recvd, buffer, space, messages>>

Register(size) ==
  messages' = [messages EXCEPT ![space.socketid] =
                 Append(@, [from |-> space.from, to |-> space.from + size])]

\* Mutant: the length is reduced, the position stays where it is.
Advance_LengthOnly(size) == [space EXCEPT !.to = @ - size]
Advance(size) == [space EXCEPT !.from = @ + size]

ParseStep ==
  /\ Handling
  /\ UNCHANGED <<ends, g_socket_socketid, alive, recvd>>

\* PA_LEFTDATA: the loop goes round again.
ParseOne ==
  /\ ParseStep
  /\ \E size \in Sizes :
       /\ ~Incomplete(size) /\ size < Length
       /\ Register(size)
       /\ space' = Advance(size)
  /\ UNCHANGED buffer

\* PA_JUSTONE
ParseLast ==
  /\ ParseStep
  /\ \E size \in Sizes : ~Incomplete(size) /\ size >= Length /\ Register(size)
  /\ space' = NoSpace
  /\ UNCHANGED buffer

\* PA_NOMATCH: what is there becomes left data.
ParseRest ==
  /\ ParseStep
  /\ \E size \in Sizes : Incomplete(size)
  /\ IF Length = 0 THEN UNCHANGED buffer
                   ELSE kBufferSet(space)
  /\ space' = NoSpace
  /\ UNCHANGED messages
----------------------------------------------------------------------------
(* Other events of the main loop *)

\* A TCP socket is connected or accepted; or another entry is registered.
OpenTcp ==
  /\ ~Handling /\ g_socket_socketid < MaxSockets
  /\ g_socket_socketid' = g_socket_socketid + 1
  /\ alive' = alive \union {g_socket_socketid + 1}
  /\ UNCHANGED <<ends, recvd, buffer, space, messages>>

OpenOther ==
  /\ ~Handling /\ g_socket_socketid < MaxSockets
  /\ g_socket_socketid' = g_socket_socketid + 1
  /\ UNCHANGED <<ends, alive, recvd, buffer, space, messages>>

\* The client hangs up: every socket is closed, all left data is dropped.
Hangup ==
  /\ ~Handling
  /\ alive' = {}
  /\ kBufferInit
  /\ UNCHANGED <<ends, g_socket_socketid, recvd, piece, space, messages, dropped>>
----------------------------------------------------------------------------
Init ==
  /\ ends \in [Ids -> Streams]
  /\ g_socket_socketid = 2
  /\ alive = {}
  /\ recvd = [s \in Ids |-> 0]
  /\ piece = <<>>
  /\ left = EmptyList
  /\ g_ld_datanum = 0
  /\ space = NoSpace
  /\ messages = [s \in Ids |-> <<>>]
  /\ dropped = {}

Next ==
  \/ \E s \in alive : \E n \in 1 .. Remaining(s) : Receive(s, n)
  \/ \E s \in alive : EndOfFile(s)
  \/ ParseOne \/ ParseLast \/ ParseRest
  \/ OpenTcp \/ OpenOther \/ Hangup

Spec == Init /\ [][Next]_vars
----------------------------------------------------------------------------
Run == [socketid : Nat, from : Nat, to : Nat]

TypeOK ==
  /\ g_socket_socketid \in Nat
  /\ alive \subseteq Ids
  /\ recvd \in [Ids -> Nat]
  /\ piece \in Seq(Run)
  /\ left \in [linked : SUBSET (DOMAIN piece), last : Nat]
  /\ g_ld_datanum \in 0 .. g_socket_socketid
  /\ space \in Run
  /\ space = NoSpace \/ (space.socketid \in Ids /\ space.from < space.to)
  /\ messages \in [Ids -> Seq([from : Nat, to : Nat])]
  /\ dropped \subseteq Ids

\* Up to where the stream of s was handed on as messages.
Parsed(s) == IF messages[s] = <<>> THEN 0 ELSE messages[s][Len(messages[s])].to

\* The messages of s are its stream, cut at its ends.
Framed(s) ==
  \A k \in DOMAIN messages[s] :
    LET msg == messages[s][k]
    IN /\ msg.from = IF k = 1 THEN 0 ELSE messages[s][k - 1].to
       /\ msg.to \in ends[s]
       /\ \A e \in ends[s] : e > msg.from => e >= msg.to

\* What a peer sends as one message is registered as one message, in order,
\* whatever recv() makes of the stream and whatever other sockets do, unless
\* the list has lost left data of this very socket.
FramedAsSent == \A s \in Ids \ dropped : Framed(s)

\* No message that has arrived completely is held back.
NothingHeldBack(s) == \A e \in ends[s] : e <= recvd[s] => e <= Parsed(s)

\* The left data of a socket is exactly what it has received behind its last
\* message.
LeftIsTail(s) ==
  {[from |-> piece[p].from, to |-> piece[p].to] : p \in LeftOf(s)} =
    IF Parsed(s) = recvd[s] THEN {}
    ELSE {[from |-> Parsed(s), to |-> recvd[s]]}

\* It takes three TCP sockets, open or not any more, to lose left data.
DropsTakeThree == dropped # {} => g_socket_socketid >= 5

\* Between two events, what has arrived is registered as far as it is
\* complete, and the rest is kept: nothing waits and nothing is lost, but the
\* left data that the list has lost, which takes three sockets.
RegisteredOrKept ==
  /\ ~Handling =>
       /\ \A s \in Ids \ dropped : NothingHeldBack(s)
       /\ \A s \in alive \ dropped : LeftIsTail(s)
  /\ DropsTakeThree

\* Left data that the handler would merge is never stale: it ends where the
\* socket has read to, so that the bytes behind it are the next ones.
LeftIsCurrent ==
  \A p \in left.linked :
    piece[p].socketid # space.socketid => piece[p].to = recvd[piece[p].socketid]

\* A socket has one left data at most, and none while its handler runs: what
\* kBufferGet finds first is all there is.
LeftIsOne ==
  /\ \A p, q \in left.linked : piece[p].socketid = piece[q].socketid => p = q
  /\ Handling => LeftOf(space.socketid) = {}

\* kBufferGet looks at the list only if the counter is not 0, which it is
\* not while there is left data.
DatanumCoversList == g_ld_datanum >= Cardinality(left.linked)

\* The list of left data can be trusted by the handler that merges it.
LeftListSound == LeftIsCurrent /\ LeftIsOne /\ DatanumCoversList
----------------------------------------------------------------------------
(* What a comment in the code says and does not hold. *)

\* "get left data and merge": what is parsed begins where the last message
\* of the socket ended (process_si_type_tcp).
MergesLeftData ==
  [][ space = NoSpace /\ space' # NoSpace =>
        space'.from = Parsed(space'.socketid) ]_vars
=============================================================================
