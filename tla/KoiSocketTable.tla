--------------------------- MODULE KoiSocketTable ---------------------------
(***************************************************************************)
(* What the other parts of koid ask of the socket table: a list of entries *)
(* with a type, a status and, for a socket that came from a listening one, *)
(* the id of that parent.  Entries are appended and never removed; in the  *)
(* operators below a table is a function of the socket ids, whose order is *)
(* that of the list.                                                       *)
(***************************************************************************)
EXTENDS Integers, Sequences

UnixTypes == {"UNIX", "UNIX_DATA"}
ListenTypes == {"LISTEN_TCP", "LISTEN_UDP"}
DataTypes == {"DATA", "UDP", "RAW"}
SocketTypes == UnixTypes \union ListenTypes \union DataTypes

\* The types whose uniq_info is a DatasocketInfo.
DatasocketTypes == DataTypes \union {"LISTEN_UDP"}

SocketEntry == [type : SocketTypes, alive : BOOLEAN, parent : Nat]

Alive(t, id) == id \in DOMAIN t /\ t[id].alive
Closable(t, id) == Alive(t, id) /\ t[id].type \notin UnixTypes

\* Pattern 1 of kSocketClose, socket id 0: everything but UNIX sockets.
CloseAll(t) == {k \in DOMAIN t : Closable(t, k)}

\* Pattern 2, a listening TCP socket.  Each live entry is looked up into
\* local copies; a LISTEN_TCP entry has no DatasocketInfo and leaves in
\* datasocketinfo what an earlier entry put there, or, before any, whatever
\* the stack held: garbage says whether that equals the closed id.
ParentSeen(t, id, k, garbage) ==
  LET seen == {j \in CloseAll(t) : j <= k /\ t[j].type \in DatasocketTypes}
  IN IF seen = {} THEN garbage
     ELSE \E j \in seen : (\A i \in seen : i <= j) /\ t[j].parent = id

\* Mutant: the listening socket alone.
CloseListener_Alone(t, id, garbage) == CloseAll(t) \intersect {id}

CloseListener(t, id, garbage) ==
  {k \in CloseAll(t) :
     \/ k = id
     \/ t[k].type = "DATA"
     \/ ParentSeen(t, id, k, garbage)}

\* kSocketClose: the entries whose descriptor is closed and whose status
\* becomes SI_STATUS_CLOSE.  The empty set stands for the error returns.
ClosedBy(t, id, garbage) ==
  IF id = 0 THEN CloseAll(t)
  ELSE IF id \notin DOMAIN t THEN {}
  ELSE IF t[id].type = "LISTEN_TCP" THEN CloseListener(t, id, garbage)
  ELSE IF t[id].alive /\ t[id].type # "UNIX" THEN {id}
  ELSE {}

MarkClosed(t, S) ==
  [k \in DOMAIN t |-> IF k \in S THEN [t[k] EXCEPT !.alive = FALSE] ELSE t[k]]
=============================================================================
