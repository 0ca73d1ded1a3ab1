----------------------------- MODULE MCKoiRecv -----------------------------
(***************************************************************************)
(* koid with one client and up to two further sockets.  The runs about     *)
(* waiting RECVs open UDP sockets; those about delivery open listening     *)
(* ones, whose children the same RECVs cover.                              *)
(***************************************************************************)
EXTENDS KoiRecv

MCOpenTypes == {"UDP"}
MCRecvIds == {0, 3, 4}

MCListenTypes == {"LISTEN_TCP", "LISTEN_UDP"}
MCListenIds == {0, 3, 4}
MCOneTimeout == {1}
=============================================================================
