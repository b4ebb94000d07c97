----------------------------- MODULE DaiStreams -----------------------------
(***************************************************************************)
(* The four kinds of stream the front end of q6apm-dai.c runs.  Which kind *)
(* a stream is of is settled when it is opened: by its device (pull mode   *)
(* is the graph with the protected calibration; compressed streams have    *)
(* devices and operations of their own) and by its direction.              *)
(***************************************************************************)
EXTENDS PullRing

CONSTANTS Fragments, F, MaxUnits, MaxTurns

VARIABLES
  cstate, total, received, sent, copied, active, nextTrack, notify, partial,
  fragment, decoder, done, copying, heard, fed, vain, turns

Compr == INSTANCE ComprStream

ASSUME ComprAssumption == Compr!ComprAssumption

comprVars == <<cstate, total, received, sent, copied, active, nextTrack, notify, partial,
               fragment, decoder, done, copying, heard, fed, vain, turns>>

pcmRest == <<alsa, appl, hw, queuePtr, dspBuf, hwPtr, dspq, rxq, elapsing, played, back,
             lives, clean, state, again, tape, missed, blind, first>>
pullRest == <<page, half, look, pulled, origin>>

StreamsInit ==
  /\ Init /\ dir \in {"playback", "capture", "pull", "compressed"}
  /\ CaptureIdle /\ PullInit /\ Compr!ComprInit

StreamsNext ==
  /\ UNCHANGED dir
  /\ \/ dir \in {"playback", "capture"} /\ RingNext /\ UNCHANGED <<pullRest, comprVars>>
     \/ dir = "pull" /\ PullNext /\ UNCHANGED comprVars
     \/ dir = "compressed" /\ Compr!ComprNext /\ UNCHANGED <<pcmRest, pullRest>>

StreamsSpec == StreamsInit /\ [][StreamsNext]_<<ringVars, pullRest, comprVars>>

-----------------------------------------------------------------------------
(* What is heard or read is the stream, in order and once, whichever kind  *)
(* it is: PlayedAsWritten and RecordsTheSource of CaptureRing, PullsTheStream *)
(* of PullRing, DecodesTheStream of ComprStream.                           *)
StreamsAreWhole ==
  /\ PlayedAsWritten /\ RecordsTheSource /\ PullsTheStream
  /\ dir = "compressed" => Compr!DecodesTheStream

(* A drain that has something to send ends: DrainEnds.                     *)
DrainEnds == dir = "compressed" => Compr!DrainEnds
=============================================================================
