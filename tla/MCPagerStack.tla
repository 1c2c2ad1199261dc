---------------------------- MODULE MCPagerStack ----------------------------
(***************************************************************************)
(* The smallest instance of PagerStack on its own: one pager on a stack of *)
(* one, enough for the resize signal to find it without its buffer.        *)
(***************************************************************************)
EXTENDS PagerStack
=============================================================================
