------------------------------ MODULE MCPktBuf ------------------------------
(* Two readers and a client that controls the daemon and sends; the daemon *)
(* has been told to capture, and may be told to stop.                      *)
EXTENDS PktBuf, TLC

CONSTANTS
  r1, r2, s1, a,
  MaxEvents   \* bound on what tools and peers do together

MCAsks ==
  (r1 :> {[op |-> "read", deadline |-> 0]})
    @@ (r2 :> {[op |-> "read", deadline |-> -1], [op |-> "dump", n |-> 0]})
    @@ (s1 :> {[op |-> "write", id |-> i] : i \in Own}
              \union {[op |-> o] : o \in {"capture", "stop", "clear", "wrap"}})

MCInit == Started(TRUE)

\* A write, its copy that is never seen and a clear fit in, with two packets of
\* peers; or two of these, with three packets.
MCNext == Next /\ acts' + peers' <= MaxEvents

MCSpec == MCInit /\ [][MCNext]_vars /\ Fairness
=============================================================================
