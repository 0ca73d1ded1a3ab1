----------------------------- MODULE MCVelExec -----------------------------
(* Bounds for checking VelExec: one command, whose effects may stay, and then *)
(* three, the least with which a pid is used again behind a flag that stays.  *)
EXTENDS VelExec

MCLoad == <<1, 3>>
MCOne == <<3>>
=============================================================================
