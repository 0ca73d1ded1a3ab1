---------------------------- MODULE MCVelTraffic ----------------------------
(* Bounds for checking VelTraffic. *)
EXTENDS VelTraffic

CONSTANT MaxLength  \* traffic statements in a program, before its close

Traffic == [kind : {"oneway", "turnaround"}, count : 1 .. MaxCount]
CloseStatement == [kind |-> "close", count |-> 1]

\* Every program of up to MaxLength traffic statements and a close.
MCPrograms ==
  {Append(p, CloseStatement) : p \in UNION {[1 .. n -> Traffic] : n \in 1 .. MaxLength}}
=============================================================================
