------------------------------- MODULE PcmRing -------------------------------
(***************************************************************************)
(* The data path of an ordinary playback stream: the application writes    *)
(* frames into ALSA's ring, q6apm_dai_ack (q6apm-dai.c) hands whole        *)
(* periods to the DSP with q6apm_write_async, the DSP gives each one back, *)
(* and the callback (q6apm.c) turns its token into the hardware pointer    *)
(* from which ALSA computes what the application may write next.           *)
(*                                                                         *)
(* The graph is started by prepare, so the DSP plays what it is given from *)
(* then on, whatever the state of the PCM.  Frames are numbered from the   *)
(* last prepare; ALSA's wrap of its pointers at the boundary, and its test   *)
(* of the pointer against jiffies, are left out.                           *)
(***************************************************************************)
EXTENDS Integers, Sequences

CONSTANTS
  N, P,     \* periods of the ring, frames of a period (a power of two, not 1)
  Refuses,  \* the GPR core may refuse a data packet
  MaxFrames, MaxLives  \* model bounds: frames written, prepares

ASSUME RingAssumption ==
  /\ {N, P} \subseteq Nat \ {0, 1}
  /\ Refuses \in BOOLEAN /\ MaxFrames \in Nat /\ MaxLives \in Nat

VARIABLES
  alsa,      \* the PCM's state
  appl, hw,  \* control->appl_ptr and status->hw_ptr
  queuePtr,  \* prtd->queue_ptr
  dspBuf,    \* rx_data.dsp_buf: the next buffer to hand over
  hwPtr,     \* rx_data.hw_ptr: the last buffer given back, plus one
  dspq,      \* buffers the DSP has; it plays the first
  rxq,       \* buffers given back, on their way to the callback
  elapsing,  \* the callback is about to call snd_pcm_period_elapsed
  played,    \* history: periods played since prepare
  back,      \* history: buffers given back to the callback since prepare
  lives,     \* history: prepares so far
  clean      \* history: no trace of an earlier life, and no refusal since

vars == <<alsa, appl, hw, queuePtr, dspBuf, hwPtr, dspq, rxq, elapsing,
          played, back, lives, clean>>
app == <<alsa, appl, hw>>
host == <<queuePtr, dspBuf, hwPtr, elapsing>>
remote == <<dspq, rxq>>
history == <<played, back, lives, clean>>

Size == N * P
Running == alsa \in {"RUNNING", "DRAINING"}   \* snd_pcm_running

Init ==
  /\ alsa = "OPEN" /\ appl = 0 /\ hw = 0
  /\ queuePtr = 0 /\ dspBuf = 0 /\ hwPtr = 0
  /\ dspq = <<>> /\ rxq = <<>> /\ elapsing = FALSE
  /\ played = 0 /\ back = 0 /\ lives = 0 /\ clean = TRUE

-----------------------------------------------------------------------------
(* The application's calls.                                                *)

(* q6apm_dai_prepare: the graph of an earlier life is stopped and its      *)
(* buffers freed and allocated again.  What the DSP still had may come     *)
(* back after that, or find no buffers and be dropped.  The failures of    *)
(* the commands are the subject of ApmGraph.                               *)
Prepare ==
  /\ alsa \in {"OPEN", "SETUP", "XRUN", "PREPARED"} /\ lives < MaxLives
  /\ alsa' = "PREPARED" /\ appl' = 0 /\ hw' = 0
  /\ dspBuf' = 0
  /\ dspq' = <<>>
  /\ \E s \in {rxq, rxq \o dspq} : \E i \in 1 .. Len(s) + 1 :
       rxq' = SubSeq(s, i, Len(s))
  /\ played' = 0 /\ back' = 0 /\ lives' = lives + 1
  /\ clean' = (hwPtr = 0 /\ queuePtr = 0 /\ rxq' = <<>> /\ ~elapsing)
  /\ UNCHANGED <<queuePtr, hwPtr, elapsing>>

(* Mutant: a period begun is handed over with the whole ones.              *)
Whole_Begun(a) == IF a < queuePtr THEN 0 ELSE (a - queuePtr + P - 1) \div P

(* q6apm_dai_ack's count.  Below queue_ptr the unsigned difference, taken  *)
(* by a power of two and cut to an int, is negative: no buffer.            *)
Whole(a) == IF a < queuePtr THEN 0 ELSE (a - queuePtr) \div P


(* q6apm_write_async for m buffers in a row.                               *)
HandOver(m) ==
  /\ dspq' = dspq \o [i \in 1 .. m |-> (dspBuf + i - 1) % N]
  /\ queuePtr' = queuePtr + m * P

MayWrite(k) == alsa \in {"PREPARED", "RUNNING", "PAUSED"} /\ k <= hw + Size - appl

Write(k) ==
  /\ MayWrite(k) /\ appl + k <= MaxFrames
  /\ appl' = appl + k
  /\ HandOver(Whole(appl + k))
  /\ dspBuf' = (dspBuf + Whole(appl + k)) % N
  /\ UNCHANGED <<alsa, hw, hwPtr, elapsing, rxq, history>>

(* The packet after the first m is refused: its buffer is already counted, *)
(* and ALSA takes all of the application's frames back.                    *)
WriteRefused(k, m) ==
  /\ Refuses /\ MayWrite(k) /\ m < Whole(appl + k)
  /\ HandOver(m)
  /\ dspBuf' = (dspBuf + m + 1) % N
  /\ clean' = FALSE
  /\ UNCHANGED <<app, hwPtr, elapsing, rxq, played, back, lives>>

Start ==
  /\ alsa = "PREPARED" /\ appl > hw
  /\ alsa' = "RUNNING"
  /\ UNCHANGED <<appl, hw, host, remote, history>>

(* q6apm_dai_trigger does nothing about a pause outside pull mode.         *)
Pause ==
  /\ \/ alsa = "RUNNING" /\ alsa' = "PAUSED"
     \/ alsa = "PAUSED" /\ alsa' = "RUNNING"
  /\ UNCHANGED <<appl, hw, host, remote, history>>

Drain ==
  /\ alsa \in {"PREPARED", "RUNNING"} /\ appl > hw
  /\ alsa' = "DRAINING"
  /\ UNCHANGED <<appl, hw, host, remote, history>>

(* ALSA triggers STOP only if the PCM runs; snd_pcm_drop releases a pause  *)
(* before.                                                                 *)
Stop == queuePtr' = IF alsa = "PREPARED" THEN queuePtr ELSE 0
Drop ==
  /\ alsa \in {"PREPARED", "RUNNING", "DRAINING", "PAUSED"}
  /\ alsa' = "SETUP" /\ Stop
  /\ UNCHANGED <<appl, hw, dspBuf, hwPtr, elapsing, remote, history>>

(* snd_pcm_drain gives up after ten seconds without progress.              *)
DrainTimeout ==
  /\ alsa = "DRAINING" /\ dspq = <<>> /\ rxq = <<>> /\ ~elapsing
  /\ alsa' = "SETUP" /\ Stop
  /\ UNCHANGED <<appl, hw, dspBuf, hwPtr, elapsing, remote, history>>

-----------------------------------------------------------------------------
(* The DSP and the receive worker.                                         *)

Play ==
  /\ dspq # <<>>
  /\ dspq' = Tail(dspq) /\ rxq' = Append(rxq, Head(dspq))
  /\ played' = played + 1
  /\ UNCHANGED <<app, host, back, lives, clean>>

GiveBack ==
  /\ rxq # <<>> /\ ~elapsing
  /\ hwPtr' = Head(rxq) + 1 /\ rxq' = Tail(rxq)
  /\ back' = back + 1
  /\ elapsing' = TRUE
  /\ UNCHANGED <<app, queuePtr, dspBuf, dspq, played, lives, clean>>

(* Mutant: the position past the last frame.                               *)
Position_Past == hwPtr * P

(* q6apm_dai_pointer.                                                      *)
Position == IF hwPtr = 0 THEN 0 ELSE hwPtr * P - 1

(* snd_pcm_update_hw_ptr: a position outside the ring counts as 0, one     *)
(* behind the last pointer as the next lap.                                *)
Onward(at) ==
  LET pos == IF at < Size THEN at ELSE 0
      lap == hw - (hw % Size)
  IN  IF lap + pos < hw THEN lap + Size + pos ELSE lap + pos
Reported == Onward(Position)

(* An empty ring is an underrun, or the end of draining.                   *)
Refresh ==
  /\ hw' = Reported
  /\ \/ appl > Reported /\ UNCHANGED <<alsa, queuePtr>>
     \/ /\ appl <= Reported /\ Stop
        /\ alsa' = IF alsa = "DRAINING" THEN "SETUP" ELSE "XRUN"
  /\ UNCHANGED <<appl, dspBuf, hwPtr, remote, history>>

Elapsed ==
  /\ elapsing /\ elapsing' = FALSE
  /\ \/ Running /\ Refresh
     \/ ~Running /\ UNCHANGED <<app, queuePtr, dspBuf, hwPtr, remote, history>>

(* The application asks for its position.                                  *)
Status == Running /\ Refresh /\ UNCHANGED elapsing

-----------------------------------------------------------------------------
Next ==
  \/ Prepare \/ Start \/ Pause \/ Drain \/ Drop \/ DrainTimeout
  \/ \E k \in 1 .. Size : Write(k)
  \/ \E k \in 1 .. Size, m \in 0 .. N : WriteRefused(k, m)
  \/ Play \/ GiveBack \/ Elapsed \/ Status

Spec == Init /\ [][Next]_vars

(* The DSP plays what it has, the worker delivers what came back, and      *)
(* snd_pcm_drain has a timer; nobody has to write.                         *)
FairSpec ==
  Spec /\ WF_vars(Play) /\ WF_vars(GiveBack) /\ WF_vars(Elapsed)
       /\ WF_vars(DrainTimeout)

-----------------------------------------------------------------------------
(* Type invariant of the pointers, queues and histories.                   *)
TypeOK ==
  /\ alsa \in {"OPEN", "PREPARED", "RUNNING", "PAUSED", "DRAINING", "XRUN", "SETUP"}
  /\ {appl, hw, queuePtr, played, back, lives} \subseteq Nat
  /\ dspBuf \in 0 .. N - 1 /\ hwPtr \in 0 .. N
  /\ dspq \in Seq(0 .. N - 1) /\ rxq \in Seq(0 .. N - 1)
  /\ elapsing \in BOOLEAN /\ clean \in BOOLEAN

(* The frame last written to a place of the ring since prepare, or -1.     *)
Content(place) ==
  LET lap == appl - (appl % Size) + place
      f == IF lap < appl THEN lap ELSE lap - Size
  IN  IF f < 0 THEN -1 ELSE f

(* What the DSP holds is the continuation of what it has played: no frame  *)
(* is skipped, repeated, or overwritten before its turn, however the       *)
(* application cuts its writes and whenever it asks for the pointer.       *)
ContinuesTheStream ==
  clean => \A i \in 1 .. Len(dspq), j \in 0 .. P - 1 :
             Content(dspq[i] * P + j) = (played + i - 1) * P + j

(* The pointer ALSA takes says how many periods came back, one frame short *)
(* of them: no lap is lost however many callbacks fall between two looks.  *)
PointerIsTheDsps ==
  [][clean /\ hw' > hw => hw' = back * P - 1]_vars

(* A full ring whose pointer is current keeps a period queued behind the   *)
(* one that plays, although the pointer stays a frame short.  With the two *)
(* periods PLAYBACK_MIN_NUM_PERIODS allows this is false.                  *)
NextIsQueued ==
  clean /\ appl = hw + Size /\ rxq = <<>> /\ Reported = hw => Len(dspq) >= 2

(* A DSP with nothing to play has played every whole period written, so    *)
(* the drain that finds it idle has lost none of them.                     *)
NothingHeldBack == clean /\ dspq = <<>> => (played + 1) * P > appl

(* What is written is what is played, all of it and in order.              *)
PlaysTheStream == ContinuesTheStream /\ NothingHeldBack

(* Model bound: a life that is not clean is entered and not followed; no   *)
(* property says anything of it.                                           *)
Followed == clean

-----------------------------------------------------------------------------
(* Stated and false, without the assumption that the stream is clean or    *)
(* for a pointer one frame short of what was played.                       *)

(* Playback that has given nothing back since prepare has no position: the *)
(* callback's hw_ptr outlives prepare and stop.                            *)
FreshPointer == Running /\ back = 0 => hw = 0

(* The last period's callback ends a drain of whole periods, without       *)
(* snd_pcm_drain's timer.                                                  *)
DrainIsPrompt ==
  clean /\ appl % P = 0 /\ back * P = appl /\ ~elapsing => alsa # "DRAINING"

(* An application that stops writing is told of its underrun.              *)
UnderrunIsReported ==
  clean /\ alsa = "RUNNING" /\ appl % P = 0 /\ back * P = appl /\ ~elapsing => hw >= appl

=============================================================================
