------------------------------ MODULE MCIoLoop ------------------------------
(***************************************************************************)
(* Small instances of IoLoop, one per .cfg.  A pipe of one unit makes every *)
(* write of two units of content a partial one and every process wait for  *)
(* the loop.  Two annotators are the least that can be orphaned or lost;   *)
(* two commands the least that can be neighbours, or use one address one   *)
(* after the other, and two pagers the least that can be on top of each    *)
(* other.  Addresses are interchangeable.                                  *)
(***************************************************************************)
EXTENDS IoLoop, TLC

Addresses == Permutations(Addr)

(* The bound of io_reload: of a behaviour with two pagers only the part in *)
(* which one annotator is used and one operation is left.                  *)
OneOrOther ==
  (\E p \in Pager : p > 1 /\ pager[p].state # "none") =>
    ops >= 1 /\ nAios <= 1 /\ \A p \in Pager : pager[p].annotators <= 1
=============================================================================
