---------------------------- MODULE MCTokenizer ----------------------------
(***************************************************************************)
(* Every sequence of classes up to the bound, cut in every way: enough for *)
(* a newline, a sequence with a parameter and a byte after it.             *)
(***************************************************************************)
EXTENDS Tokenizer

AllClasses == {"n", "e", "[", "f", "d", "p", "i", "0", "c"}
=============================================================================
