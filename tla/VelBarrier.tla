----------------------------- MODULE VelBarrier -----------------------------
(***************************************************************************)
(* What a sync event of vel promises: it becomes active when all the       *)
(* threads it names wait for it, once, and they go on together.            *)
(***************************************************************************)
EXTENDS FiniteSets

CONSTANTS
  Events,   \* the events of a scenario
  Members   \* the threads that each event names

VARIABLES
  arrived,  \* the threads that have reached the event
  active    \* the events that have become active

bvars == <<arrived, active>>

Init == arrived = [e \in Events |-> {}] /\ active = {}

Arrive(e, t) ==
  /\ t \in Members[e] \ arrived[e]
  /\ arrived' = [arrived EXCEPT ![e] = @ \union {t}]
  /\ UNCHANGED active

Activate(e) ==
  /\ e \notin active /\ arrived[e] = Members[e]
  /\ active' = active \union {e}
  /\ UNCHANGED arrived

Next ==
  \E e \in Events : Activate(e) \/ \E t \in Members[e] : Arrive(e, t)

Spec == Init /\ [][Next]_bvars
=============================================================================
