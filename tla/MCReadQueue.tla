----------------------------- MODULE MCReadQueue -----------------------------
(***************************************************************************)
(* Three chunks of one or two bytes: enough for a read to cross a chunk     *)
(* boundary from the middle of a chunk, to stop short at the end of the    *)
(* stream, and for an uncommitted chunk to lie between a committed and an  *)
(* unread one.                                                             *)
(***************************************************************************)
EXTENDS ReadQueue

MCMaxChunks == 3
MCMaxLen == 2
=============================================================================
