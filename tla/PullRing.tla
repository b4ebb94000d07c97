------------------------------ MODULE PullRing ------------------------------
(***************************************************************************)
(* The ring of the protected stream, which the DSP reads at its own pace   *)
(* from the moment prepare configures it until the graph closes, and tells *)
(* where it is in a page of shared memory.  q6apm_get_pull_hw_pointer      *)
(* (q6apm.c) reads that page while the DSP writes it: a frame counter, the *)
(* index into the ring, the counter again.  In what order the DSP stores   *)
(* the two is its own affair.                                              *)
(*                                                                         *)
(* A second prepare (q6apm-dai.c) only sets prtd->state: ALSA begins at    *)
(* frame 0 again, the DSP goes on where it is.  ALSA looks at the pointer  *)
(* of a running stream at least once a round (the watermarks at each half  *)
(* see to it); of one that is prepared or paused it does not.              *)
(***************************************************************************)
EXTENDS CaptureRing

CONSTANTS
  Tries,     \* readings of the page that do not agree before giving up
  Wrap,      \* frame counters: 0 .. Wrap - 1
  MaxPulled  \* model bound: frames pulled

ASSUME PullAssumption == Tries \in Nat \ {0} /\ Wrap \in Nat \ {0} /\ MaxPulled \in Nat

VARIABLES
  page,      \* sh_mem_pull_push_mode_position_buffer: frame_counter, index
  half,      \* the store the DSP still has to do: "none", "counter", "index"
  look,      \* q6apm_get_pull_hw_pointer's locals, the stream lock held
  pulled,    \* history: frames the DSP has pulled
  origin     \* history: that count when ALSA's frame 0 was due

pullVars == <<page, half, look, pulled, origin>>
NoLook == [at |-> "idle", before |-> 0, index |-> 0, tries |-> 0]

PullInit ==
  /\ page = [counter |-> 0, index |-> 0] /\ half = "none"
  /\ look = NoLook /\ pulled = 0 /\ origin = 0

(* What the two directions of the ordinary ring keep.                      *)
others == <<queuePtr, dspBuf, dspq, rxq, elapsing, played, back, clean, again,
            tape, missed, first>>
Idle == look.at = "idle"

-----------------------------------------------------------------------------
PullPrepare ==
  /\ Idle /\ alsa \in {"OPEN", "SETUP", "XRUN", "PREPARED"} /\ lives < MaxLives
  /\ alsa' = "PREPARED" /\ appl' = 0 /\ hw' = 0
  /\ state' = "running"
  /\ blind' = TRUE /\ lives' = lives + 1
  /\ UNCHANGED <<hwPtr, others, pullVars>>

(* q6apm_dai_ack has nothing to do in pull mode.                           *)
PullWrite(k) ==
  /\ Idle /\ MayWrite(k) /\ appl + k <= MaxFrames
  /\ appl' = appl + k
  /\ UNCHANGED <<alsa, hw, hwPtr, state, blind, lives, others, pullVars>>

PullStart ==
  /\ Idle /\ alsa = "PREPARED" /\ appl > hw /\ alsa' = "RUNNING"
  /\ UNCHANGED <<appl, hw, hwPtr, state, blind, lives, others, pullVars>>

(* A pause that succeeds; SoftPause has the others.                        *)
PullPause ==
  /\ Idle
  /\ \/ alsa = "RUNNING" /\ alsa' = "PAUSED" /\ state' = "stopped"
     \/ alsa = "PAUSED" /\ alsa' = "RUNNING" /\ state' = "running"
  /\ blind' = TRUE
  /\ UNCHANGED <<appl, hw, hwPtr, lives, others, pullVars>>

PullDrop ==
  /\ Idle /\ alsa \in {"PREPARED", "RUNNING", "PAUSED"} /\ alsa' = "SETUP"
  /\ state' = IF alsa = "PREPARED" THEN state ELSE "stopped"
  /\ UNCHANGED <<appl, hw, hwPtr, blind, lives, others, pullVars>>

-----------------------------------------------------------------------------
(* The DSP, from the first prepare on.                                     *)
Prompt == alsa = "RUNNING" /\ ~blind => pulled - (hw + origin) < Size
Store(what) ==
  /\ page' = IF what = "index" THEN [page EXCEPT !.index = (@ + 1) % Size]
             ELSE [page EXCEPT !.counter = (@ + 1) % Wrap]
  /\ pulled' = IF what = "index" THEN pulled + 1 ELSE pulled
  /\ UNCHANGED <<app, hwPtr, state, blind, lives, others, look, origin>>

Update ==
  /\ lives > 0 /\ half = "none" /\ pulled < MaxPulled /\ Prompt
  /\ \E what \in {"counter", "index"} :
       Store(what) /\ half' = IF what = "index" THEN "counter" ELSE "index"
Updated == half # "none" /\ Prompt /\ Store(half) /\ half' = "none"

-----------------------------------------------------------------------------
(* A watermark, or the application's asking.                               *)
LookAgain(n) == look' = [look EXCEPT !.at = "index", !.before = page.counter, !.tries = n]
Look ==
  /\ Idle /\ alsa = "RUNNING"
  /\ LookAgain(Tries)
  /\ UNCHANGED <<app, hwPtr, state, blind, lives, others, page, half, pulled, origin>>

LookIndex ==
  /\ look.at = "index"
  /\ look' = [look EXCEPT !.at = "after", !.index = page.index]
  /\ UNCHANGED <<app, hwPtr, state, blind, lives, others, page, half, pulled, origin>>

Settled == look.before # 0 /\ look.before = page.counter

Disagree ==
  /\ look.at = "after" /\ ~Settled /\ look.tries > 1
  /\ LookAgain(look.tries - 1)
  /\ UNCHANGED <<app, hwPtr, state, blind, lives, others, page, half, pulled, origin>>

(* Mutant: a page that does not settle counts as the start of the ring.    *)
Index_Zero == IF Settled /\ look.index < Size THEN look.index ELSE 0

Index == IF Settled /\ look.index < Size THEN look.index ELSE hwPtr

(* The index goes to ALSA; an empty ring is an underrun.                   *)
LookDone ==
  /\ look.at = "after" /\ (Settled \/ look.tries = 1)
  /\ look' = NoLook
  /\ hwPtr' = Index
  /\ hw' = Onward(Index)
  /\ blind' = FALSE
  /\ origin' = IF blind THEN pulled - hw' - ((pulled - hw') % Size) ELSE origin
  /\ \/ appl > hw' /\ UNCHANGED <<alsa, state>>
     \/ appl <= hw' /\ alsa' = "XRUN" /\ state' = "stopped"
  /\ UNCHANGED <<appl, lives, others, page, half, pulled>>

PullNext ==
  \/ PullPrepare \/ PullStart \/ PullPause \/ PullDrop
  \/ \E k \in 1 .. Size : PullWrite(k)
  \/ Update \/ Updated
  \/ Look \/ LookIndex \/ Disagree \/ LookDone

-----------------------------------------------------------------------------
(* ALSA never takes the DSP to be further than it is, so what the          *)
(* application may write never covers a frame still to be pulled; and the  *)
(* DSP's next frame is the one ALSA thinks it is.                          *)
PullsTheStream ==
  dir = "pull" /\ alsa = "RUNNING" /\ ~blind =>
    /\ hw + origin <= pulled
    /\ pulled - origin < appl => Content(pulled % Size) = pulled - origin

(* Stated and false: the stream begins where the DSP is.                   *)
StartIsHeard == dir = "pull" /\ alsa = "PREPARED" => pulled % Size = 0
=============================================================================
