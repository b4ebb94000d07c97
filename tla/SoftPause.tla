------------------------------ MODULE SoftPause ------------------------------
(***************************************************************************)
(* Pausing the protected pull stream (q6apm-dai.c): q6apm_dai_trigger and  *)
(* q6apm_dai_sp11_soft_pause, which tell the DSP's SOFT_PAUSE module to    *)
(* ramp down or up and wait for its completion event, against the receive  *)
(* worker that delivers watermarks, command answers and those events one   *)
(* after another.                                                          *)
(*                                                                         *)
(* ALSA calls trigger with the PCM stream lock held, and the worker takes  *)
(* the same lock when a watermark makes it call snd_pcm_period_elapsed, so *)
(* a watermark can hold up the answer the trigger waits for.  The stream   *)
(* has been prepared once; answers are matched to their command here (how  *)
(* the channel can confuse them is the subject of CmdSync).                *)
(***************************************************************************)
EXTENDS Naturals, Sequences, FiniteSets

CONSTANTS
  Faulty,          \* the DSP may reject, delay or lose commands and events
  MaxCmd, MaxMark  \* model bounds: commands sent, watermarks in the queue

SoftPauseAssumption ==
  Faulty \in BOOLEAN /\ MaxCmd \in Nat /\ MaxMark \in Nat

VARIABLES
  alsa,        \* the PCM's ALSA state
  state,       \* prtd->state
  softPaused,  \* prtd->soft_paused
  done,        \* which of soft_pause_done, soft_resume_done is complete
  pc,          \* where the trigger is; not "idle": it holds the stream lock
  cmd,         \* the trigger command
  undo,        \* ALSA called it to undo a failed one
  inWorker,    \* it runs inside the worker's snd_pcm_period_elapsed
  worker,      \* the receive worker: idle, or about to take the stream lock
  rx,          \* packets queued for the worker
  sent,        \* commands sent; the last one is the trigger's
  pending,     \* commands the DSP has not answered
  owed,        \* completion events the DSP has not sent
  ans,         \* the answer to the last command
  dsp,         \* the SOFT_PAUSE module: run or paused
  supported,   \* the graph has that module and the DSP knows its parameters
  lost         \* history: what failed: an "answer" in time, an "undo", a "stop"

vars == <<alsa, state, softPaused, done, pc, cmd, undo, inWorker, worker, rx,
          sent, pending, owed, ans, dsp, supported, lost>>
host == <<alsa, state, softPaused>>
call == <<cmd, undo, inWorker>>
remote == <<pending, owed, dsp>>

Init ==
  /\ alsa = "PREPARED" /\ state = "RUNNING" /\ softPaused = FALSE
  /\ done = {}
  /\ pc = "idle" /\ cmd = "stop" /\ undo = FALSE /\ inWorker = FALSE
  /\ worker = "idle" /\ rx = <<>>
  /\ sent = 0 /\ pending = {} /\ owed = {} /\ ans = "none"
  /\ dsp = "run"
  /\ supported \in BOOLEAN
  /\ lost = {}

Pausing == cmd = "push"
Event(c) == IF c = "push" THEN "paused" ELSE "resumed"

-----------------------------------------------------------------------------
(* The PCM core.  A trigger that fails is undone by the opposite one, and  *)
(* ALSA's own state moves only when it succeeds; STOP cannot fail.         *)

Reached(c) == CASE c = "push" -> "PAUSED" [] c = "release" -> "RUNNING"
                [] c = "stop" -> "SETUP"

(* ALSA gets the trigger's return value.                                   *)
Return(ok) ==
  /\ alsa' = IF undo \/ (~ok /\ cmd # "stop") THEN alsa ELSE Reached(cmd)
  /\ IF ok \/ undo \/ cmd = "stop"
     THEN pc' = "idle" /\ inWorker' = FALSE /\ UNCHANGED <<cmd, undo>>
     ELSE /\ pc' = "enter" /\ undo' = TRUE
          /\ cmd' = IF cmd = "push" THEN "release" ELSE "push"
          /\ UNCHANGED inWorker

Call(c, byWorker) ==
  /\ pc = "idle" /\ sent + 2 <= MaxCmd
  /\ pc' = "enter" /\ cmd' = c /\ undo' = FALSE /\ inWorker' = byWorker

Pause   == alsa = "RUNNING" /\ Call("push", FALSE)
Release == alsa = "PAUSED" /\ Call("release", FALSE)
Stop    == alsa \in {"RUNNING", "PAUSED"} /\ Call("stop", FALSE)
User ==
  /\ Pause \/ Release \/ Stop
  /\ UNCHANGED <<host, done, worker, rx, sent, remote, ans, supported, lost>>

Start ==
  /\ pc = "idle" /\ alsa = "PREPARED"
  /\ alsa' = "RUNNING"
  /\ UNCHANGED <<state, softPaused, done, pc, call, worker, rx, sent, remote,
                 ans, supported, lost>>

(* q6apm_dai_prepare on a pull graph that is already configured.           *)
Prepare ==
  /\ pc = "idle" /\ alsa \in {"SETUP", "PREPARED"}
  /\ alsa' = "PREPARED" /\ state' = "RUNNING"
  /\ UNCHANGED <<softPaused, done, pc, call, worker, rx, sent, remote, ans,
                 supported, lost>>

-----------------------------------------------------------------------------
(* q6apm_dai_trigger and q6apm_dai_sp11_soft_pause.                        *)

Stopped == IF cmd = "stop" THEN state' = "STOPPED" ELSE UNCHANGED state

(* Nothing to do when the DSP is, as far as the host knows, where the      *)
(* command wants it.  Otherwise a pause quiesces the watermarks first.     *)
Enter ==
  /\ pc = "enter"
  /\ IF softPaused = Pausing
     THEN Return(TRUE) /\ Stopped /\ UNCHANGED done
     ELSE /\ pc' = "send"
          /\ state' = IF Pausing THEN "STOPPED" ELSE state
          /\ done' = done \ {Event(cmd)}
          /\ UNCHANGED <<alsa, call>>
  /\ UNCHANGED <<softPaused, worker, rx, sent, remote, ans, supported, lost>>

Send ==
  /\ pc = "send" /\ supported
  /\ sent' = sent + 1
  /\ pending' = pending \cup {[id |-> sent + 1, cmd |-> cmd]}
  /\ ans' = "none"
  /\ pc' = "answer"
  /\ UNCHANGED <<host, done, call, worker, rx, owed, dsp, supported, lost>>

(* -EOPNOTSUPP: the trigger makes 0 of it.                                 *)
Unsupported ==
  /\ pc = "send" /\ ~supported
  /\ Return(TRUE)
  /\ state' = CASE cmd = "push" -> "RUNNING" [] cmd = "stop" -> "STOPPED"
                [] OTHER -> state
  /\ UNCHANGED <<softPaused, done, worker, rx, sent, remote, ans, supported, lost>>

Failed == (IF cmd = "stop" THEN {"stop"} ELSE {}) \cup
          (IF cmd = "release" /\ undo THEN {"undo"} ELSE {})

(* Mutant: a refused pause forgets that it has quiesced the stream.        *)
Refused_StayStopped ==
  /\ Return(FALSE)
  /\ Stopped
  /\ UNCHANGED <<softPaused, done, worker, rx, sent, remote, ans, supported>>

(* The command is refused, or unanswered after five seconds.               *)
Refused ==
  /\ Return(FALSE)
  /\ state' = CASE cmd = "push" -> "RUNNING" [] cmd = "stop" -> "STOPPED"
                [] OTHER -> state
  /\ UNCHANGED <<softPaused, done, worker, rx, sent, remote, ans, supported>>

(* Mutant: soft_paused waits for the completion event.                     *)
Accepted_TrackLater ==
  /\ pc = "answer" /\ ans = "ok"
  /\ pc' = "wait"
  /\ UNCHANGED <<host, done, call, worker, rx, sent, remote, ans, supported, lost>>

Accepted ==
  /\ pc = "answer" /\ ans = "ok"
  /\ softPaused' = Pausing
  /\ pc' = "wait"
  /\ UNCHANGED <<alsa, state, done, call, worker, rx, sent, remote, ans,
                 supported, lost>>

Rejected ==
  /\ pc = "answer" /\ ans = "rejected"
  /\ Refused
  /\ lost' = lost \cup Failed

Completed ==
  /\ pc = "wait" /\ Event(cmd) \in done
  /\ Return(TRUE)
  /\ softPaused' = Pausing
  /\ state' = IF cmd = "release" THEN "RUNNING" ELSE "STOPPED"
  /\ UNCHANGED <<done, worker, rx, sent, remote, ans, supported, lost>>

(* A prompt DSP is only late for a host whose worker waits for the stream  *)
(* lock, or is itself the one that waits, with the packet still queued.    *)
Late(events) ==
  \/ Faulty
  \/ /\ worker = "elapse" \/ inWorker
     /\ \E i \in DOMAIN rx : rx[i].id = sent /\ rx[i].ev \in events

(* Mutant: when the five seconds are over the wait begins again.           *)
AnswerTimeout_Again ==
  /\ pc = "answer" /\ ans = "none" /\ Late({"ok", "rejected"})
  /\ UNCHANGED vars

AnswerTimeout ==
  /\ pc = "answer" /\ ans = "none" /\ Late({"ok", "rejected"})
  /\ Refused
  /\ lost' = lost \cup {"answer"} \cup Failed

(* Fifty milliseconds for the completion event.                            *)
DoneTimeout ==
  /\ pc = "wait" /\ Event(cmd) \notin done /\ Late({Event(cmd)})
  /\ Return(FALSE)
  /\ Stopped
  /\ lost' = lost \cup (Failed \ {"stop"})
  /\ UNCHANGED <<softPaused, done, worker, rx, sent, remote, ans, supported>>

-----------------------------------------------------------------------------
(* The DSP.                                                                *)

Accept(m) ==
  /\ pending' = pending \ {m}
  /\ dsp' = IF m.cmd = "push" THEN "paused" ELSE "run"
  /\ owed' = owed \cup {m}
  /\ rx' = Append(rx, [ev |-> "ok", id |-> m.id])

Reject(m) ==
  /\ Faulty
  /\ pending' = pending \ {m}
  /\ rx' = Append(rx, [ev |-> "rejected", id |-> m.id])
  /\ UNCHANGED <<dsp, owed>>

RampDone(m) ==
  /\ owed' = owed \ {m}
  /\ rx' = Append(rx, [ev |-> Event(m.cmd), id |-> m.id])
  /\ UNCHANGED <<pending, dsp>>

Dsp ==
  /\ (\E m \in pending : Accept(m) \/ Reject(m)) \/ (\E m \in owed : RampDone(m))
  /\ UNCHANGED <<host, done, pc, call, worker, sent, ans, supported, lost>>

Watermark ==
  /\ Cardinality({i \in DOMAIN rx : rx[i].ev = "mark"}) < MaxMark
  /\ rx' = Append(rx, [ev |-> "mark", id |-> 0])
  /\ UNCHANGED <<host, done, pc, call, worker, sent, remote, ans, supported, lost>>

-----------------------------------------------------------------------------
(* The receive worker: graph_callback and event_handler, then              *)
(* snd_pcm_period_elapsed under the stream lock.  An elapsed period may    *)
(* turn out to be an underrun, which stops the stream from here.           *)

Deliver ==
  /\ worker = "idle" /\ ~inWorker /\ rx # <<>>
  /\ rx' = Tail(rx)
  /\ LET p == Head(rx) IN
     /\ worker' = IF p.ev = "mark" /\ state = "RUNNING" THEN "elapse" ELSE "idle"
     /\ done' = IF p.ev \in {"paused", "resumed"} THEN done \cup {p.ev} ELSE done
     /\ ans' = IF p.ev \in {"ok", "rejected"} /\ p.id = sent THEN p.ev ELSE ans
  /\ UNCHANGED <<host, pc, call, sent, remote, supported, lost>>

Elapse ==
  /\ worker = "elapse" /\ pc = "idle"
  /\ worker' = "idle"
  /\ \/ UNCHANGED <<pc, call>>
     \/ alsa = "RUNNING" /\ Call("stop", TRUE)
  /\ UNCHANGED <<host, done, rx, sent, remote, ans, supported, lost>>

-----------------------------------------------------------------------------
Trigger == Enter \/ Send \/ Unsupported \/ Accepted \/ Rejected \/ Completed
Timeout == AnswerTimeout \/ DoneTimeout

Next ==
  \/ User \/ Start \/ Prepare
  \/ Trigger \/ Timeout
  \/ Dsp \/ Watermark \/ Deliver \/ Elapse

Spec == Init /\ [][Next]_vars

(* A trigger in progress runs on and its timers go off; the worker runs    *)
(* and gets the stream lock in its turn; a prompt DSP answers.             *)
Fairness ==
  /\ WF_vars(Trigger) /\ WF_vars(Timeout) /\ WF_vars(Deliver) /\ SF_vars(Elapse)
  /\ Faulty \/ WF_vars(Dsp)

FairSpec == Spec /\ Fairness

-----------------------------------------------------------------------------
(* Type invariant of the stream, the trigger, the worker and the DSP.      *)
Command == [id : 1 .. MaxCmd, cmd : {"push", "release", "stop"}]
TypeOK ==
  /\ alsa \in {"PREPARED", "RUNNING", "PAUSED", "SETUP"}
  /\ state \in {"RUNNING", "STOPPED"} /\ softPaused \in BOOLEAN
  /\ done \subseteq {"paused", "resumed"}
  /\ pc \in {"idle", "enter", "send", "answer", "wait"}
  /\ cmd \in {"push", "release", "stop"} /\ undo \in BOOLEAN /\ inWorker \in BOOLEAN
  /\ worker \in {"idle", "elapse"}
  /\ rx \in Seq([ev : {"mark", "ok", "rejected", "paused", "resumed"}, id : 0 .. MaxCmd])
  /\ sent \in 0 .. MaxCmd /\ pending \subseteq Command /\ owed \subseteq Command
  /\ ans \in {"none", "ok", "rejected"}
  /\ dsp \in {"run", "paused"} /\ supported \in BOOLEAN
  /\ lost \subseteq {"answer", "undo", "stop"}

AtRest == pc = "idle" /\ pending = {}

(* A paused DSP is known to be paused, even if its completion event is     *)
(* delayed or lost, unless the answer to a command was (q6apm-dai.c:412).  *)
PauseTracked ==
  AtRest /\ "answer" \notin lost => (softPaused <=> dsp = "paused")

(* While ALSA holds the stream PAUSED, the host takes no watermark exactly *)
(* when it believes the DSP paused, unless a STOP left a pause behind.     *)
PausedIsQuiet ==
  AtRest /\ alsa = "PAUSED" /\ "stop" \notin lost
    => (softPaused <=> state = "STOPPED")

(* What the host believes about the pause is so, and it acts on it: it     *)
(* knows what the DSP does and is deaf to watermarks only meanwhile.       *)
PauseIsKnown == PauseTracked /\ PausedIsQuiet

(* A stream ALSA runs reacts to watermarks, whatever was refused or undone *)
(* on the way, unless undoing a failed pause failed as well: without       *)
(* watermarks the application never hears of an elapsed period.            *)
RunningHearsWatermarks ==
  AtRest /\ alsa = "RUNNING" /\ "undo" \notin lost => state = "RUNNING"

(* Both: what the host believes about a pause is so, and a stream ALSA     *)
(* takes for running reacts to watermarks.                                 *)
PauseIsAgreed == PauseIsKnown /\ RunningHearsWatermarks

(* Every trigger returns and gives the stream lock back.                   *)
TriggerEnds == (pc # "idle") ~> (pc = "idle")

(* Neither a trigger nor the worker waits for ever on the other: every     *)
(* trigger ends, and the worker, blocked on the stream lock by a trigger   *)
(* that waits for what the worker has not delivered yet, gets on.          *)
NobodyStuck == TriggerEnds /\ ((worker = "elapse") ~> (worker = "idle"))

(* q6apm-dai.c:395: a watermark "must not call snd_pcm_period_elapsed()    *)
(* ahead of the SOFT_PAUSE completion event on the same GPR receive path". *)
WatermarkNeverBlocks ==
  ~(worker = "elapse" /\ pc \in {"answer", "wait"} /\ Pausing)

(* q6apm-dai.c:412: the requested state is tracked "so STOP can safely     *)
(* clean up a possibly outstanding pause".                                 *)
StopCleansUp == AtRest /\ alsa = "SETUP" => dsp = "run"
=============================================================================
