----------------------------- MODULE MCKoiSocket -----------------------------
(***************************************************************************)
(* KoiSocket on a few descriptors and socket ids, for TLC.                 *)
(***************************************************************************)
EXTENDS KoiSocket

MCTLC == INSTANCE TLC

\* The remote hosts cannot be told apart.
MCSymmetry == MCTLC!Permutations(Hosts)
=============================================================================
