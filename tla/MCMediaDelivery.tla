--------------------------- MODULE MCMediaDelivery ---------------------------
(***************************************************************************)
(* Model values for the connections of MediaDelivery are interchangeable.  *)
(* Without the histories `torn' and `replayed', which no action reads, the *)
(* states of two clients are few enough; the properties of the runs with   *)
(* this view do not depend on them.                                        *)
(***************************************************************************)
EXTENDS MediaDelivery, TLC

Symmetry == Permutations(Conns)
View == <<loopVars, pending, running, handled, push, crashed, sent>>
=============================================================================
