----------------------------- MODULE MCDspCalls ------------------------------
(***************************************************************************)
(* Modules a topology describes: the sink at the end; one whose first and  *)
(* last output go somewhere, with links; one with an output that goes      *)
(* nowhere and a link.                                                     *)
(***************************************************************************)
EXTENDS DspCalls

Forms ==
  {[ports |-> <<>>, max |-> 0, links |-> "none"],
   [ports |-> <<1>>, max |-> 1, links |-> "none"],
   [ports |-> <<1, 0, 2>>, max |-> 3, links |-> <<16, 20>>],
   [ports |-> <<0>>, max |-> 1, links |-> <<24>>]}
=============================================================================
