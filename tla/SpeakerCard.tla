---------------------------- MODULE SpeakerCard -----------------------------
(***************************************************************************)
(* The card's life around the protected stream: the topology is loaded,    *)
(* with the protection profile its modules carry; the stream opens, plays  *)
(* and closes over the graph that describes; the topology goes when the    *)
(* card does.  The stream needs the speakers' mixer switch on.  The card's *)
(* switches and another stream's gain move while this stream is closed:    *)
(* neither reads what the other writes.                                    *)
(***************************************************************************)
EXTENDS Protection

CONSTANTS Module, Mixer, Stage, Files, Flaws, Gain, None,
          SpeakerGraph   \* the graph with the protection's modules

VARIABLES file, phase, made, tree, mixers, good, oops, on, vol

Tplg == INSTANCE Topology

ASSUME CardAssumption == Tplg!TopologyAssumption

topology == <<file, phase, made, tree, mixers, good, oops, on, vol>>
cardVars == <<vars, topology>>

CardInit == Init /\ Tplg!Init /\ profile = FALSE

(* A stream keeps its card: a module with an open stream is not removed.   *)
Describe ==
  /\ pcm = "closed" /\ ~held
  /\ Tplg!Next
  /\ profile' = Tplg!Accepts(SpeakerGraph)'
  /\ UNCHANGED <<pcm, feState, bePrepared, ready, todo, configured, held, dsp>>

(* DPCM finds the back ends through the mixer that is switched on.         *)
Play ==
  /\ Tplg!Live /\ on # {} /\ ~vol.power /\ vol.put = "idle"
  /\ Next
  /\ UNCHANGED topology

CardNext == Describe \/ Play
CardSpec == CardInit /\ [][CardNext]_cardVars

(* Topology's properties, over the card's life: see there.                 *)
TreeFollowsFile == Tplg!LoadedIsFile /\ Tplg!UnloadIsClean
GainIsHeard == Tplg!GainIsHeard

(* A stream's protection is configured only with a profile that one        *)
(* complete load of the file brought, each stage once in the stream's      *)
(* graph; what failed loads left behind is never taken for a stage         *)
(* (audioreach_find_stage).                                                *)
ConfiguredFromFile ==
  configured =>
    /\ file.expected
    /\ \A s \in Stage :
         \E w \in Module :
           {v \in Module : file.graph[file.sub[v]] = SpeakerGraph /\ s \in file.stages[v]} = {w}

(* The tree is what the file says, load after failed load, and a stream is *)
(* protected only by what the file says.                                   *)
FollowsFile == TreeFollowsFile /\ ConfiguredFromFile
=============================================================================
