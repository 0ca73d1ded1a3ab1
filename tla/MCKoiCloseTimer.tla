-------------------------- MODULE MCKoiCloseTimer --------------------------
(***************************************************************************)
(* Two slots and three sockets, so that the table fills up and a socket    *)
(* asks in vain; an id below zero, as a CLOSE command may carry one only   *)
(* past the check of the dispatcher.                                       *)
(***************************************************************************)
EXTENDS KoiCloseTimer

MCSocketIds == {-1, 0, 1, 2}
MCWaits == {0, 1, 2}
=============================================================================
