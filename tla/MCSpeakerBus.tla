---------------------------- MODULE MCSpeakerBus -----------------------------
(***************************************************************************)
(* The speaker bus, with the board's amplifiers and their port map.  A     *)
(* behaviour is one of SpeakerBus, which takes the runtimes and ports of   *)
(* its streams as given, or one of SdwRuntimes, which makes them: the two  *)
(* meet in hw_params and hw_free alone.                                    *)
(***************************************************************************)
EXTENDS SpeakerBus, SdwRuntimes

VARIABLE part   \* which of the two

AmpsInOrder == <<"left", "right">>

\* "qcom,port-mapping" of the Denali's device tree: playback, PBR, V/I, CPS.
BoardPorts ==
  [left  |-> [dac |-> 1, comp |-> 2, boost |-> 3, pbr |-> 7, vi |-> 10, cps |-> 13],
   right |-> [dac |-> 4, comp |-> 5, boost |-> 6, pbr |-> 7, vi |-> 11, cps |-> 13]]

EitherInit ==
  /\ part \in {"bus", "runtimes"}
  /\ BusInit /\ RuntimesInit
  /\ part = "bus" => \A a \in Speakers : "vi" \notin enabled[a]
  /\ part = "runtimes" => faults = 0

EitherNext ==
  /\ UNCHANGED part
  /\ \/ part = "bus" /\ BusNext /\ UNCHANGED rtVars
     \/ part = "runtimes" /\ RuntimesNext /\ UNCHANGED busVars

EitherSpec == EitherInit /\ [][EitherNext]_<<part, busVars, rtVars>>
=============================================================================
