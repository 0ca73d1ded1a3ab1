---------------------------- MODULE MCKoiStream ----------------------------
(***************************************************************************)
(* Three TCP sockets, which is what it takes to break the list: socket ids *)
(* up to 5.  Streams of one message of three bytes or two of two bytes.    *)
(***************************************************************************)
EXTENDS KoiStream

MCStreams == {{2, 4}, {3}}
MCOneMessage == {{3}}
=============================================================================
