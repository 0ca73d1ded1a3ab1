---------------------------- MODULE CloseAgenda ----------------------------
(***************************************************************************)
(* What the close timer of koid promises, without its slots: a partial map *)
(* from socket ids to the moment they have to be closed.  A request that   *)
(* is answered with success gives the socket a deadline, and only a socket *)
(* without one; a socket is closed only when its deadline has passed, and  *)
(* then has none; a reset forgets every deadline.  KoiCloseTimer           *)
(* implements this specification.                                          *)
(***************************************************************************)
EXTENDS Integers

CONSTANTS
  Sockets,     \* the socket ids a close may be asked for
  Waits,       \* the delays, in seconds, a close may be asked with
  NotASocket   \* "accepted" or "closed" when the latest step did neither

VARIABLES
  deadline,    \* deadline[s]: when the waiting socket s has to be closed
  now,         \* the current time
  accepted,    \* the socket whose request the latest step accepted
  closed       \* the socket closed by the latest step

vars == <<deadline, now, accepted, closed>>

Nobody == [s \in {} |-> 0]

Init ==
  /\ deadline = Nobody
  /\ now \in Nat
  /\ accepted = NotASocket
  /\ closed = NotASocket

Tick ==
  /\ now' = now + 1
  /\ accepted' = NotASocket
  /\ closed' = NotASocket
  /\ UNCHANGED deadline

Accept(s, sec) ==
  /\ s \notin DOMAIN deadline
  /\ deadline' = [t \in DOMAIN deadline \union {s} |->
                    IF t = s THEN now + sec ELSE deadline[t]]
  /\ accepted' = s
  /\ closed' = NotASocket
  /\ UNCHANGED now

Close(s) ==
  /\ s \in DOMAIN deadline
  /\ deadline[s] <= now
  /\ deadline' = [t \in DOMAIN deadline \ {s} |-> deadline[t]]
  /\ accepted' = NotASocket
  /\ closed' = s
  /\ UNCHANGED now

Reset ==
  /\ deadline' = Nobody
  /\ accepted' = NotASocket
  /\ closed' = NotASocket
  /\ UNCHANGED now

\* A refused request, or a look at the agenda that finds nothing due.
Quiet ==
  /\ accepted' = NotASocket
  /\ closed' = NotASocket
  /\ UNCHANGED <<deadline, now>>

Next ==
  \/ Tick
  \/ \E s \in Sockets, sec \in Waits : Accept(s, sec)
  \/ \E s \in DOMAIN deadline : Close(s)
  \/ Reset
  \/ Quiet

Spec == Init /\ [][Next]_vars
=============================================================================
