------------------------------ MODULE DspCalls ------------------------------
(***************************************************************************)
(* What the driver asks of the DSP and waits for: the command channel with *)
(* its senders; the pause of the protected stream, a command and an event  *)
(* later; the mappings of shared memory, a command and a handle; and the   *)
(* packets themselves, filled and read.  Each keeps the others' packets    *)
(* out of the way: a behaviour is one of the four.                         *)
(***************************************************************************)
EXTENDS CmdSync

CONSTANTS Faulty, MaxPauses, MaxMark, MaxBinds, MaxOpens, MaxSlow,
          Shapes, MaxContainers, MaxModules, Kinds, Formats, MaxChannels, InjectSizes

VARIABLES
  part,    \* which of the four
  alsa, state, softPaused, done, at, order, undo, inWorker, worker, rx,
  sent, pending, owed, ans, dsp, supported, lost,
  step, phase, buffer, handle, mapped, config, wire, answers, half, result,
  trouble, count,
  graph, joined, doing, cursor, memory, todo, packet, accepted

Pause == INSTANCE SoftPause WITH MaxCmd <- MaxPauses, pc <- at, cmd <- order
Maps == INSTANCE SharedMaps WITH Late <- Slow, at <- step
Packets == INSTANCE Packets

ASSUME CallsAssumption ==
  Pause!SoftPauseAssumption /\ Maps!MapsAssumption /\ Packets!PacketsAssumption

pauseVars == <<alsa, state, softPaused, done, at, order, undo, inWorker, worker, rx,
               sent, pending, owed, ans, dsp, supported, lost>>
mapsVars == <<step, phase, buffer, handle, mapped, config, wire, answers, half, result,
              trouble, count>>
packetVars == <<graph, joined, doing, cursor, memory, todo, packet, accepted>>
callsVars == <<part, vars, pauseVars, mapsVars, packetVars>>

CallsInit ==
  /\ part \in {"channel", "pause", "maps", "packets"}
  /\ Init /\ Pause!Init /\ Maps!Init /\ Packets!Init
  /\ part # "pause" => supported

(* A packet that is read is the end of it.                                 *)
PacketStep ==
  \/ Packets!Next
  \/ doing \in {"sent", "setting", "controlled"} /\ todo = <<>> /\ UNCHANGED packetVars

CallsNext ==
  /\ UNCHANGED part
  /\ \/ part = "channel" /\ Next /\ UNCHANGED <<pauseVars, mapsVars, packetVars>>
     \/ part = "pause" /\ Pause!Next /\ UNCHANGED <<vars, mapsVars, packetVars>>
     \/ part = "maps" /\ Maps!Next /\ UNCHANGED <<vars, pauseVars, packetVars>>
     \/ part = "packets" /\ PacketStep /\ UNCHANGED <<vars, pauseVars, mapsVars>>

CallsSpec == CallsInit /\ [][CallsNext]_callsVars /\ Fairness /\ Pause!Fairness

-----------------------------------------------------------------------------
(* What the host believes about a pause is so, and a stream ALSA takes for *)
(* running reacts to watermarks: PauseIsKnown and RunningHearsWatermarks   *)
(* of SoftPause.                                                           *)
PauseIsAgreed == Pause!PauseIsAgreed

(* Nothing the DSP has mapped is freed: MapsFollowBuffers of SharedMaps.   *)
MapsFollowBuffers == Maps!MapsFollowBuffers

(* What is described to the DSP is what it reads, with the exceptions for  *)
(* Opus, PCM and MP3 formats that PacketsAreRead of Packets states.        *)
PacketsAreRead == Packets!PacketsAreRead

(* Every call to the DSP ends, and the receive worker gets on, whether it  *)
(* has to take the mutex of a command in progress or the stream lock of a  *)
(* trigger (NobodyStuck of CmdSync and of SoftPause).                      *)
EveryCallEnds == NobodyStuck /\ Pause!NobodyStuck
=============================================================================
