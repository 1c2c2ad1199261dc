------------------------- MODULE MCAnnotationParser -------------------------
(***************************************************************************)
(* Numbers of two binary digits: a header of six bytes that can be cut     *)
(* anywhere, also inside a number, and values of up to two bytes.  Up to    *)
(* three records: one to commit the version byte, one to be cut in two,    *)
(* one to follow.                                                          *)
(***************************************************************************)
EXTENDS AnnotationParser

SmallRecords == {[start |-> 0, end |-> 1, value |-> <<>>],
                 [start |-> 2, end |-> 3, value |-> <<1>>],
                 [start |-> 1, end |-> 2, value |-> <<1, 1>>]}
UpToThree == UNION {[1..n -> SmallRecords] : n \in 1..3}
=============================================================================
