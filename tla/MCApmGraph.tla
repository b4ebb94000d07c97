----------------------------- MODULE MCApmGraph -----------------------------
(* ApmGraph on small instances.  The controls are interchangeable, but the *)
(* runs that check liveness do without symmetry, which is not sound there. *)
EXTENDS ApmGraph
=============================================================================
