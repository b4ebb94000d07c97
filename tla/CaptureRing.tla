---------------------------- MODULE CaptureRing ----------------------------
(***************************************************************************)
(* The same ring the other way round: prepare queues every buffer with     *)
(* q6apm_read, the DSP records into them, and each one that comes back is  *)
(* queued again by the call-back that reports it, as long as prtd->state   *)
(* says RUNNING (q6apm-dai.c).  A substream is of one direction for good.  *)
(*                                                                         *)
(* The graph is started, and records, before prepare returns and before    *)
(* ALSA starts the stream.  A drain of a capture is left out.              *)
(***************************************************************************)
EXTENDS PcmRing

VARIABLES
  dir,       \* substream->stream
  state,     \* prtd->state
  again,     \* the callback is about to look at it, to queue the next buffer
  tape,      \* the period last recorded into each buffer, or -1
  missed,    \* history: a buffer came back while prepare had not finished
  blind,     \* history: ALSA has not looked since before a start or a resume
  first      \* history: periods that went round unseen meanwhile

captureVars == <<state, again, tape, missed, blind, first>>
ringVars == <<vars, dir, captureVars>>

CaptureIdle ==
  /\ state = "idle" /\ again = FALSE
  /\ tape = [b \in 0 .. N - 1 |-> -1] /\ missed = FALSE /\ blind = FALSE /\ first = 0

-----------------------------------------------------------------------------
(* q6apm_dai_prepare up to its last read.  q6apm_read's result is ignored. *)
CapturePrepare ==
  /\ alsa \in {"OPEN", "SETUP", "XRUN", "PREPARED"} /\ lives < MaxLives
  /\ alsa' = "PREPARING" /\ appl' = 0 /\ hw' = 0
  /\ dspBuf' = 0
  /\ \E s \in {rxq, rxq \o dspq} : \E i \in 1 .. Len(s) + 1 :
       rxq' = SubSeq(s, i, Len(s))
  /\ \/ dspq' = [i \in 1 .. N |-> i - 1]
     \/ Refuses /\ dspq' = [i \in 1 .. N - 1 |-> i - 1]
  /\ tape' = [b \in 0 .. N - 1 |-> -1] /\ missed' = FALSE /\ blind' = TRUE /\ first' = 0
  /\ played' = 0 /\ back' = 0 /\ lives' = lives + 1
  /\ clean' = (hwPtr = 0 /\ rxq' = <<>> /\ Len(dspq') = N /\ ~elapsing /\ ~again)
  /\ UNCHANGED <<queuePtr, hwPtr, elapsing, state, again>>

Prepared ==
  /\ alsa = "PREPARING" /\ alsa' = "PREPARED"
  /\ state' = "running"
  /\ UNCHANGED <<appl, hw, host, remote, history, again, tape, missed, blind, first>>

CaptureStart ==
  /\ alsa = "PREPARED" /\ alsa' = "RUNNING"
  /\ UNCHANGED <<appl, hw, host, remote, history, captureVars>>

Read(k) ==
  /\ alsa \in {"PREPARED", "RUNNING", "PAUSED"} /\ k <= hw - appl
  /\ appl' = appl + k
  /\ UNCHANGED <<alsa, hw, host, remote, history, captureVars>>

(* The trigger does nothing about a pause: the DSP records on.             *)
Hold == Pause /\ blind' = TRUE /\ UNCHANGED <<state, again, tape, missed, first>>

(* ALSA triggers STOP only if the PCM runs.                                *)
StopRecording == state' = IF alsa = "PREPARED" THEN state ELSE "stopped"
CaptureDrop == Drop /\ StopRecording /\ UNCHANGED <<again, tape, missed, blind, first>>

-----------------------------------------------------------------------------
Record ==
  /\ dspq # <<>> /\ played * P < MaxFrames
  /\ dspq' = Tail(dspq) /\ rxq' = Append(rxq, Head(dspq))
  /\ tape' = [tape EXCEPT ![Head(dspq)] = played]
  /\ played' = played + 1
  /\ UNCHANGED <<app, host, back, lives, clean, state, again, missed, blind, first>>

(* graph_callback, for a read that is done.                                *)
ReadDone ==
  /\ ~again /\ GiveBack
  /\ UNCHANGED captureVars

(* A full ring is an overrun.  ALSA does not look while the stream is      *)
(* prepared or paused, and the DSP records on: what went round the ring    *)
(* then is nobody's.                                                       *)
CaptureRefresh ==
  /\ hw' = Reported
  /\ blind' = FALSE
  /\ first' = IF blind THEN back - (hw' + 1) \div P ELSE first
  /\ \/ Reported - appl < Size /\ UNCHANGED <<alsa, queuePtr, state>>
     \/ Reported - appl >= Size /\ alsa' = "XRUN" /\ Stop /\ StopRecording
  /\ UNCHANGED <<appl, dspBuf, hwPtr, remote, history, tape, missed>>

CaptureElapsed ==
  /\ elapsing /\ elapsing' = FALSE /\ again' = TRUE
  /\ \/ Running /\ CaptureRefresh
     \/ ~Running /\ UNCHANGED <<app, queuePtr, dspBuf, hwPtr, remote, history,
                                state, tape, missed, blind, first>>

CaptureStatus == Running /\ CaptureRefresh /\ UNCHANGED <<elapsing, again>>

(* Mutant: the buffer after the next in turn.                              *)
NextBuffer_Ahead == (dspBuf + 1) % N

(* q6apm_read takes the buffer at dsp_buf, whichever came back.            *)
NextBuffer == dspBuf

QueueAgain ==
  /\ again /\ again' = FALSE
  /\ \/ /\ state = "running"
        /\ dspBuf' = (dspBuf + 1) % N
        /\ \/ dspq' = Append(dspq, NextBuffer) /\ UNCHANGED clean
           \/ Refuses /\ clean' = FALSE /\ UNCHANGED dspq
        /\ UNCHANGED missed
     \/ /\ state # "running"
        /\ missed' = (missed \/ alsa = "PREPARING")
        /\ UNCHANGED <<dspBuf, dspq, clean>>
  /\ UNCHANGED <<app, queuePtr, hwPtr, elapsing, rxq, played, back, lives, state, tape,
                 blind, first>>

-----------------------------------------------------------------------------
CaptureNext ==
  \/ CapturePrepare \/ Prepared \/ CaptureStart \/ Hold \/ CaptureDrop
  \/ \E k \in 1 .. Size : Read(k)
  \/ Record \/ ReadDone \/ CaptureElapsed \/ CaptureStatus \/ QueueAgain

RingInit == Init /\ dir \in {"playback", "capture"} /\ CaptureIdle
RingNext ==
  /\ UNCHANGED dir
  /\ \/ dir = "playback" /\ Next /\ UNCHANGED captureVars
     \/ dir = "capture" /\ CaptureNext

RingSpec == RingInit /\ [][RingNext]_ringVars

-----------------------------------------------------------------------------
(* The frames the application may read are what the DSP recorded, in       *)
(* order, and none is being recorded over, as long as the application is   *)
(* less than the ring behind the DSP by the period that is being filled.   *)
Intact(f) ==
  LET b == (f % Size) \div P
  IN  tape[b] = f \div P + first /\ (dspq # <<>> => Head(dspq) # b)
ReadableIsIntact ==
  clean /\ (played - first) * P - appl <= Size - P => \A f \in appl .. hw - 1 : Intact(f)

(* What is written is what is played: PlaysTheStream, of a playback.       *)
PlayedAsWritten == dir = "playback" => PlaysTheStream

(* A stream that records has every buffer of the ring with the DSP or on   *)
(* its way, unless one came back before prepare set the state.             *)
KeepsRecording ==
  clean /\ ~missed /\ alsa \in {"RUNNING", "PAUSED"}
    => Len(dspq) + Len(rxq) + (IF elapsing \/ again THEN 1 ELSE 0) = N

(* The application of a capture stream reads what was recorded, all of it. *)
RecordsTheSource == dir = "capture" => ReadableIsIntact /\ KeepsRecording

(* The pointer ALSA takes says how many periods came back, one frame short *)
(* of them: no lap is lost between two looks at a stream that runs.        *)
PointerIsTheDevices ==
  [][dir # "pull" /\ clean /\ hw' > hw => hw' = (back - first') * P - 1]_ringVars

-----------------------------------------------------------------------------
(* Stated and false: an application whose unread frames are recorded over  *)
(* has been told of an overrun.                                            *)
OverrunIsReported ==
  dir = "capture" /\ clean /\ alsa = "RUNNING" => \A f \in appl .. hw - 1 : Intact(f)

(* ... and whatever prepare met, with no exception for a buffer that came  *)
(* back too early.                                                         *)
AllBuffersRecord ==
  dir = "capture" /\ clean /\ alsa = "RUNNING"
    => Len(dspq) + Len(rxq) + (IF elapsing \/ again THEN 1 ELSE 0) = N
=============================================================================
