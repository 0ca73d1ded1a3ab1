------------------------------- MODULE PktLog -------------------------------
(***************************************************************************)
(* What the packet buffer of v6eval promises of the packets it records: a  *)
(* queue of bounded length, in which a packet that finds no room is either *)
(* not recorded, or recorded at the expense of the oldest one, and which   *)
(* only the end of a clear empties.                                        *)
(***************************************************************************)
EXTENDS Naturals, Sequences

CONSTANTS Packets, Size

VARIABLES log, wrap, clearing

vars == <<log, wrap, clearing>>

Init == log = <<>> /\ wrap \in BOOLEAN /\ clearing = FALSE

Record(p) ==
  /\ log' = IF Len(log) < Size THEN Append(log, p)
            ELSE IF wrap THEN Tail(Append(log, p)) ELSE log
  /\ UNCHANGED <<wrap, clearing>>

Take == log # <<>> /\ log' = Tail(log) /\ UNCHANGED <<wrap, clearing>>

StartClear == ~clearing /\ clearing' = TRUE /\ UNCHANGED <<log, wrap>>

Clear == clearing /\ clearing' = FALSE /\ log' = <<>> /\ UNCHANGED wrap

SetMode == wrap' \in BOOLEAN /\ UNCHANGED <<log, clearing>>

Next == (\E p \in Packets : Record(p)) \/ Take \/ StartClear \/ Clear \/ SetMode

Spec == Init /\ [][Next]_vars
=============================================================================
