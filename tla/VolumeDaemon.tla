---------------------------- MODULE VolumeDaemon ----------------------------
(***************************************************************************)
(* deploy/ubig/sp11_windows_volume_transaction_sync.py: the daemon that    *)
(* carries the volume and mute of the visible sink to the hidden hardware  *)
(* sink ("host") and, while the protected graph runs, to the DSP.          *)
(*                                                                         *)
(* The daemon is sequential, but every helper process it starts (wpctl,    *)
(* pw-dump, tlv_write, amixer) is a step of its own here, because the      *)
(* user, PipeWire and the PCM go on meanwhile.  d.pc names the next        *)
(* helper to be started; the decisions up to it belong to the step before. *)
(*                                                                         *)
(* Volumes are the levels 1 .. Levels, and Full, which is unity: the level *)
(* of a fresh node, of a freshly programmed graph, and of a hidden sink    *)
(* that leaves the attenuation to the DSP.                                 *)
(***************************************************************************)
EXTENDS Integers, Sequences

CONSTANTS
    Levels,        \* the number of levels the user can choose (below Full)
    Targets,       \* what a graph may be: {TRUE} always protected, FALSE not
    Faults,        \* kernel calls that may fail otherwise than by ENODEV:
                   \* a subset of {"mute", "volume", "gainstep"}
    QuickReopen,   \* the PCM may reopen before the daemon, if it runs, saw it closed
    Exits,         \* the daemon may be terminated
    MaxNodes,      \* bound on incarnations of the visible sink
    MaxEvents,     \* bound on events of the environment waiting in pw-dump
    None           \* what a variable of the daemon holds before it is known

ASSUME VolumeAssumption ==
    /\ Levels \in Nat \ {0} /\ MaxNodes \in Nat \ {0} /\ MaxEvents \in Nat \ {0}
    /\ Targets \subseteq BOOLEAN /\ Targets # {}
    /\ None \notin BOOLEAN /\ None \notin [vol : 1 .. Levels, mute : BOOLEAN]
    /\ Faults \subseteq {"mute", "volume", "gainstep"}
    /\ QuickReopen \in BOOLEAN /\ Exits \in BOOLEAN

VARIABLES
    graph,      \* "closed", "prepared" (DSP graph started) or "running" (PCM too)
    protected,  \* the graph has the protected calibration
    dsp,        \* final volume left and right, GainStep row, endpoint mute
    host,       \* volume and mute of the hidden hardware sink
    rx,         \* the amplifier's receive gain is at 0 dB (84), not at 81
    vis, node,  \* volume and mute of the visible sink, and its node id
    page,       \* the postgain last requested: for which node and setting
    news,       \* the hardware sink changed state, and has not said so yet
    queue,      \* what pw-dump -m has printed and the daemon not read
    d,          \* the daemon: program counter and the variables of run()
    lapse       \* history: what has happened since the sink was last in charge
                \* that run() does not provide for, of Lapses

sinks == <<host, vis, node>>
pcm == <<graph, protected, dsp>>
vars == <<graph, protected, dsp, host, rx, vis, node, page, news, queue, d, lapse>>

\* A PCM reopened before the daemon, not knowing, saw it closed; the daemon
\* ended with the sink at unity and the transaction not yet recorded.
Lapses == {"reopened", "cut"}

Volumes == 1 .. Levels
Full == Levels + 1
Settings == [vol : 1 .. Full, mute : BOOLEAN]
UserSettings == [vol : Volumes, mute : BOOLEAN]
Greater(a, b) == IF a <= b THEN b ELSE a

\* The GainStep row of a final volume: rows are coarser than volumes.
StepOf(v) == (v + 1) \div 2

\* Events.  Props carries the whole setting; Partial says that something of
\* the two sinks changed.  pw-dump prints one Partial for changes in a row.
Props(n, s) == [kind |-> "props", node |-> n, state |-> s]
Partial == [kind |-> "partial"]
Repeats(e) == e = Partial /\ queue # <<>> /\ queue[Len(queue)] = e
PwDump(e) == queue' = IF d.pc = "dead" \/ Repeats(e) THEN queue ELSE Append(queue, e)
Room == Len(queue) < MaxEvents

\* The variables of run() when the daemon has just been started.
Fresh == [pc |-> "dead", st |-> None, node |-> 0, found |-> 0, last |-> None, lastMute |-> None,
          lastHost |-> None, active |-> FALSE, muteGone |-> FALSE, txGone |-> FALSE,
          rxActive |-> FALSE, guard |-> FALSE]

Init ==
    /\ graph = "closed" /\ protected = TRUE
    /\ dsp = [l |-> Full, r |-> Full, step |-> StepOf(Full), mute |-> FALSE]
    /\ vis = [vol |-> 1, mute |-> FALSE] /\ host = vis /\ node = 1
    /\ rx = FALSE /\ page = None /\ news = FALSE /\ queue = <<>>
    /\ d = Fresh /\ lapse = {}

Quiet == d.pc = "wait" /\ queue = <<>> /\ ~news
Aware == Quiet \/ d.pc = "dead"

-----------------------------------------------------------------------------
(* PipeWire, the user and the PCM.                                          *)

\* The user, or WirePlumber restoring a node's properties, moves the control.
User ==
    /\ Room
    /\ \E s \in [vol : Volumes, mute : BOOLEAN] :
          s # vis /\ vis' = s /\ PwDump(Props(node, s))
    /\ UNCHANGED <<pcm, host, rx, node, page, lapse, news, d>>

\* The filter chain is replaced: a new node is born at unity.
Recreate ==
    /\ Room /\ node < MaxNodes
    /\ node' = node + 1
    /\ vis' = [vol |-> Full, mute |-> FALSE]
    /\ PwDump(Props(node', vis'))
    /\ UNCHANGED <<pcm, host, rx, page, lapse, news, d>>

\* A new graph is started: the kernel programs full volume and unmutes it.
Open ==
    /\ graph = "closed"
    /\ QuickReopen \/ Aware
    /\ lapse' = IF Aware THEN lapse ELSE lapse \cup {"reopened"}
    /\ graph' = "prepared"
    /\ protected' \in Targets
    /\ dsp' = [l |-> Full, r |-> Full, step |-> StepOf(Full), mute |-> FALSE]
    /\ UNCHANGED <<sinks, rx, page, news, queue, d>>

Pcm(from, to) ==
    /\ graph = from /\ graph' = to /\ news' = TRUE
    /\ UNCHANGED <<protected, dsp, sinks, rx, page, lapse, queue, d>>

Trigger == Pcm("prepared", "running")
Pause == Pcm("running", "prepared")
Close == Pcm("prepared", "closed")

\* The hardware sink's change of state is printed by pw-dump.
Announce ==
    /\ news /\ Room
    /\ news' = FALSE
    /\ PwDump(Partial)
    /\ UNCHANGED <<pcm, sinks, rx, page, lapse, d>>

-----------------------------------------------------------------------------
(* The kernel's controls.  They find the running protected graph, or fail   *)
(* with ENODEV; the graph may have been closed since the PCM was looked at. *)

NoDevice == graph = "closed" \/ ~protected

\* The DSP after a final volume and, with a row, a GainStep calibration.
Sound(l, r, row) == [dsp EXCEPT !.l = l, !.r = r, !.step = row]

\* The results of a kernel call that should leave the DSP as `full`.  It may
\* fail without an effect, or after the volume and before the calibration.
Results(full, part) ==
    IF NoDevice THEN {[code |-> "ENODEV", dsp |-> dsp]}
    ELSE {[code |-> "ok", dsp |-> full]}
         \cup {[code |-> "error", dsp |-> dsp] : f \in Faults \cap {"volume"}}
         \cup {[code |-> "error", dsp |-> part] : f \in Faults \cap {"gainstep"}}

MuteResults ==
    IF NoDevice THEN {"ENODEV"} ELSE {"ok"} \cup (Faults \cap {"mute"})

-----------------------------------------------------------------------------
(* The daemon.  At(p) is the guard of the step that runs helper p.          *)

At(p) == d.pc = p
Goto(e, p) == [e EXCEPT !.pc = p]

\* wpctl on the hidden sink.  A change of it is printed by pw-dump.
SetHost(h) ==
    /\ host' = h
    /\ IF h = host THEN UNCHANGED queue ELSE PwDump(Partial)

\* Mutant: the daemon goes on believing that its transaction holds.
HostOwned_KeepsActive(e) == [e EXCEPT !.lastMute = None]

\* How every path ends that leaves the host in charge of the volume.
HostOwned(e) == [e EXCEPT !.active = FALSE, !.lastMute = None]

\* Enter reconcile() with setting s.
Reconcile(e, s) == [e EXCEPT !.st = s, !.pc = "queue"]

\* apply_transaction has returned.
Applied == [d EXCEPT !.last = d.st.vol, !.pc = IF d.rxActive THEN "done" ELSE "rxUp"]

\* Mutant: every event tries the DSP again.
Sticky_Never == FALSE

\* A fallback, once taken, stays until the visible node is replaced.
Sticky == TRUE

\* systemd starts the daemon; it subscribes, waits for WirePlumber to restore
\* the node's setting, takes a snapshot and reconciles.
Boot ==
    /\ At("dead") /\ vis.vol \in Volumes
    /\ d' = Reconcile([Fresh EXCEPT !.node = node, !.guard = TRUE], vis)
    /\ queue' = <<Partial>>
    /\ UNCHANGED <<pcm, sinks, rx, page, lapse, news>>

\* The guard is a second long: events of before it are gone when it ends.
GuardEnds ==
    /\ At("wait") /\ queue = <<>> /\ d.guard
    /\ d' = [d EXCEPT !.guard = FALSE]
    /\ UNCHANGED <<pcm, sinks, rx, page, lapse, news, queue>>

\* A replaced node is restored first.  Otherwise a complete event is used as
\* it is, except during the guard.
Adopts(n) == n # d.node
Adopt(n) == [d EXCEPT !.found = n, !.pc = "restoreVol"]
Receive ==
    /\ At("wait") /\ queue # <<>>
    /\ queue' = Tail(queue)
    /\ LET e == Head(queue) IN
       d' = IF e.kind = "props" /\ Adopts(e.node) THEN Adopt(e.node)
            ELSE IF e.kind = "partial" \/ d.guard THEN Goto(d, "look")
            ELSE Reconcile(d, e.state)
    /\ UNCHANGED <<pcm, sinks, rx, page, lapse, news>>

\* settled(): a snapshot of the graph of PipeWire.
Look ==
    /\ At("look")
    /\ d' = IF Adopts(node) THEN Adopt(node) ELSE Reconcile(d, vis)
    /\ UNCHANGED <<pcm, sinks, rx, page, lapse, news, queue>>

\* restore_visible_control_state: the old setting, volume before mute.
RestoreVol ==
    /\ At("restoreVol") /\ d.found = node
    /\ vis' = [vis EXCEPT !.vol = d.st.vol]
    /\ PwDump(Props(node, vis'))
    /\ d' = Goto(d, "restoreMute")
    /\ UNCHANGED <<pcm, host, node, rx, page, lapse, news>>

RestoreMute ==
    /\ At("restoreMute") /\ d.found = node
    /\ vis' = [vis EXCEPT !.mute = d.st.mute]
    /\ PwDump(Props(node, vis'))
    /\ d' = [d EXCEPT !.pc = "queue", !.node = d.found, !.found = 0,
                      !.guard = TRUE, !.muteGone = FALSE, !.txGone = FALSE]
    /\ UNCHANGED <<pcm, host, node, rx, page, lapse, news>>

\* The found node is gone again: wpctl fails, and nothing catches that.
RestoreFails ==
    /\ d.pc \in {"restoreVol", "restoreMute"} /\ d.found # node
    /\ d' = Goto(d, "exit")
    /\ UNCHANGED <<pcm, sinks, rx, page, lapse, news, queue>>

\* queue_ubig_postgain_for_generation.
Queue ==
    /\ At("queue")
    /\ page' = [node |-> d.node, state |-> d.st]
    /\ d' = Goto(d, "probe")
    /\ UNCHANGED <<pcm, sinks, rx, news, lapse, queue>>

\* graph_running, and what follows from its answer.
HostStale == d.lastHost # d.st
Probe ==
    /\ At("probe")
    /\ d' = IF graph # "running" THEN Goto(d, IF d.rxActive THEN "rxDown" ELSE "idle")
            ELSE IF ~d.txGone THEN Goto(d, "mute")
            ELSE IF HostStale THEN Goto(d, "hostVol") ELSE HostOwned(Goto(d, "wait"))
    /\ UNCHANGED <<pcm, sinks, rx, page, lapse, news, queue>>

RxDown ==
    /\ At("rxDown")
    /\ rx' = FALSE
    /\ d' = [d EXCEPT !.rxActive = FALSE, !.pc = "idle"]
    /\ UNCHANGED <<pcm, sinks, page, lapse, news, queue>>

Idle ==
    /\ At("idle")
    /\ d' = IF d.active \/ HostStale THEN Goto(d, "hostVol")
            ELSE HostOwned(Goto(d, "wait"))
    /\ UNCHANGED <<pcm, sinks, rx, page, lapse, news, queue>>

\* restore_host_attenuation: volume before mute.
HostVol ==
    /\ At("hostVol")
    /\ SetHost([host EXCEPT !.vol = d.st.vol])
    /\ d' = Goto(d, "hostMute")
    /\ UNCHANGED <<pcm, vis, node, rx, page, lapse, news>>

HostMute ==
    /\ At("hostMute")
    /\ SetHost([host EXCEPT !.mute = d.st.mute])
    /\ d' = HostOwned([d EXCEPT !.lastHost = d.st, !.pc = "wait"])
    /\ lapse' = {}
    /\ UNCHANGED <<pcm, vis, node, rx, page, news>>

\* write_endpoint_mute, when the mute is not known to be what is wanted.
MuteChanged == d.lastMute # d.st.mute
WriteMute ==
    /\ At("mute") /\ ~d.muteGone /\ MuteChanged
    /\ \E code \in MuteResults :
          /\ dsp' = IF code = "ok" THEN [dsp EXCEPT !.mute = d.st.mute] ELSE dsp
          /\ d' = CASE code = "ok" -> [d EXCEPT !.lastMute = d.st.mute, !.pc = "gain"]
                    [] code = "ENODEV" -> Goto(d, "muteGone")
                    [] OTHER -> Goto(d, "muteFailed")
    /\ UNCHANGED <<graph, protected, sinks, rx, page, lapse, news, queue>>

SkipMute ==
    /\ At("mute")
    /\ d.muteGone \/ ~MuteChanged
    /\ IF d.muteGone /\ d.st.mute THEN SetHost([host EXCEPT !.mute = TRUE])
                                  ELSE UNCHANGED <<host, queue>>
    /\ d' = Goto(d, "gain")
    /\ UNCHANGED <<pcm, vis, node, rx, page, lapse, news>>

\* ENODEV: the host mutes until the volume is established.
MuteGone ==
    /\ At("muteGone")
    /\ SetHost([host EXCEPT !.mute = TRUE])
    /\ d' = [d EXCEPT !.lastMute = None, !.muteGone = Sticky, !.pc = "gain"]
    /\ UNCHANGED <<pcm, vis, node, rx, page, lapse, news>>

\* Any other failure: attenuate, mute, and give up until the next event.
MuteFailed ==
    /\ At("muteFailed")
    /\ SetHost([host EXCEPT !.vol = d.st.vol])
    /\ d' = Goto(d, "muteFailedToo")
    /\ UNCHANGED <<pcm, vis, node, rx, page, lapse, news>>

\* Mutant: a failed mute leaves the speaker as it is.
MuteFailClosed_Open ==
    /\ At("muteFailedToo")
    /\ d' = HostOwned(Goto(d, "wait"))
    /\ UNCHANGED <<pcm, sinks, rx, page, lapse, news, queue>>

MuteFailClosed ==
    /\ At("muteFailedToo")
    /\ SetHost([host EXCEPT !.mute = TRUE])
    /\ d' = HostOwned(Goto(d, "wait"))
    /\ UNCHANGED <<pcm, vis, node, rx, page, lapse, news>>

\* Known volume, known mute: nothing to write, but the mute of the fallback.
Gain ==
    /\ At("gain")
    /\ IF d.active /\ d.st.vol = d.last
         THEN /\ d' = Goto(d, "wait")
              /\ IF d.muteGone THEN SetHost([host EXCEPT !.mute = d.st.mute])
                               ELSE UNCHANGED <<host, queue>>
         ELSE /\ d' = Goto(d, IF d.active THEN "left" ELSE "baseline")
              /\ UNCHANGED <<host, queue>>
    /\ UNCHANGED <<pcm, vis, node, rx, page, lapse, news>>

\* Mutant: only ENODEV counts as a failure.
Write_Ignored(full, part, done) ==
    /\ \E result \in Results(full, part) :
          /\ dsp' = result.dsp
          /\ d' = CASE result.code = "ok" -> done
                    [] result.code = "ENODEV" -> [d EXCEPT !.txGone = Sticky, !.pc = "hostVol"]
                    [] OTHER -> done
    /\ UNCHANGED <<graph, protected, sinks, rx, page, lapse, news, queue>>

\* Mutant: a failed write is left to the next event.
Write_KeepsUnity(full, part, done) ==
    /\ \E result \in Results(full, part) :
          /\ dsp' = result.dsp
          /\ d' = CASE result.code = "ok" -> done
                    [] result.code = "ENODEV" -> [d EXCEPT !.txGone = Sticky, !.pc = "hostVol"]
                    [] OTHER -> Goto(d, "wait")
    /\ UNCHANGED <<graph, protected, sinks, rx, page, lapse, news, queue>>

\* A failed transaction leaves the volume to the host.
Write(full, part, done) ==
    /\ \E result \in Results(full, part) :
          /\ dsp' = result.dsp
          /\ d' = CASE result.code = "ok" -> done
                    [] result.code = "ENODEV" -> [d EXCEPT !.txGone = Sticky, !.pc = "hostVol"]
                    [] OTHER -> Goto(d, "hostVol")
    /\ UNCHANGED <<graph, protected, sinks, rx, page, lapse, news, queue>>

\* The row of the louder of two channels.
MixedRow(old, new) == Greater(StepOf(old), StepOf(new))

\* From the last volume: the left channel first, with the row of the louder
\* one if that is another row, then the right one.
Left ==
    /\ At("left")
    /\ LET row == MixedRow(d.last, d.st.vol)
           new == IF row = StepOf(d.last) THEN dsp.step ELSE row
       IN  Write(Sound(d.st.vol, d.last, new), Sound(d.st.vol, d.last, dsp.step),
                 Goto(d, "right"))

Right ==
    /\ At("right")
    /\ LET row == MixedRow(d.last, d.st.vol)
           new == IF row = StepOf(d.st.vol) THEN dsp.step ELSE StepOf(d.st.vol)
       IN  Write(Sound(d.st.vol, d.st.vol, new), Sound(d.st.vol, d.st.vol, dsp.step),
                 Applied)

\* From the host: a whole transaction, and only then the host at unity.
Baseline ==
    /\ At("baseline")
    /\ Write(Sound(d.st.vol, d.st.vol, StepOf(d.st.vol)), Sound(d.st.vol, d.st.vol, dsp.step),
             Goto(d, "unity"))

Unity ==
    /\ At("unity")
    /\ SetHost([host EXCEPT !.vol = Full])
    /\ d' = Applied
    /\ UNCHANGED <<pcm, vis, node, rx, page, lapse, news>>

RxUp ==
    /\ At("rxUp")
    /\ rx' = TRUE
    /\ d' = [d EXCEPT !.rxActive = TRUE, !.pc = "done"]
    /\ UNCHANGED <<pcm, sinks, page, lapse, news, queue>>

Done ==
    /\ At("done")
    /\ IF d.muteGone THEN SetHost([host EXCEPT !.mute = d.st.mute])
                     ELSE UNCHANGED <<host, queue>>
    /\ d' = [d EXCEPT !.lastHost = None, !.active = TRUE, !.pc = "wait"]
    /\ UNCHANGED <<pcm, vis, node, rx, page, lapse, news>>

\* The sink may be at unity, and active is not set yet.
Taken == {"rxUp", "done"}

\* SIGTERM, or a helper that fails with an exception nothing catches.
Terminate ==
    /\ Exits /\ d.pc \notin {"dead", "exit", "exitHost", "exitMute"}
    /\ d' = Goto(d, "exit")
    /\ lapse' = IF d.pc \in Taken /\ ~d.active THEN lapse \cup {"cut"} ELSE lapse
    /\ UNCHANGED <<pcm, sinks, rx, page, news, queue>>

\* run()'s finally.
Exit ==
    /\ At("exit")
    /\ rx' = (rx /\ ~d.rxActive)
    /\ IF d.active
         THEN d' = Goto(d, "exitHost") /\ UNCHANGED queue
         ELSE d' = Fresh /\ queue' = <<>>
    /\ UNCHANGED <<pcm, sinks, page, lapse, news>>

ExitHost ==
    /\ At("exitHost")
    /\ host' = [host EXCEPT !.vol = d.st.vol]
    /\ d' = Goto(d, "exitMute")
    /\ UNCHANGED <<pcm, vis, node, rx, page, lapse, news, queue>>

ExitMute ==
    /\ At("exitMute")
    /\ host' = [host EXCEPT !.mute = d.st.mute]
    /\ d' = Fresh /\ queue' = <<>>
    /\ UNCHANGED <<pcm, vis, node, rx, page, lapse, news>>

Environment == User \/ Recreate \/ Open \/ Trigger \/ Pause \/ Close \/ Terminate
Daemon ==
    \/ Receive \/ Look \/ RestoreVol \/ RestoreMute \/ RestoreFails
    \/ Queue \/ Probe \/ RxDown \/ Idle \/ HostVol \/ HostMute
    \/ WriteMute \/ SkipMute \/ MuteGone \/ MuteFailed \/ MuteFailClosed
    \/ Gain \/ Left \/ Right \/ Baseline \/ Unity \/ RxUp \/ Done
    \/ Exit \/ ExitHost \/ ExitMute
Next == Environment \/ Daemon \/ Boot \/ GuardEnds \/ Announce

Spec == Init /\ [][Next]_vars
FairSpec == Spec /\ WF_vars(Daemon) /\ WF_vars(Boot) /\ WF_vars(Announce)

-----------------------------------------------------------------------------
(* Properties.                                                              *)

\* Types: a setting the daemon keeps is one of the user's, never the unity at
\* which a node is born.
Programs == {"dead", "wait", "look", "restoreVol", "restoreMute", "queue", "probe", "rxDown",
             "idle", "hostVol", "hostMute", "mute", "muteGone", "muteFailed", "muteFailedToo",
             "gain", "left", "right", "baseline", "unity", "rxUp", "done",
             "exit", "exitHost", "exitMute"}
Daemons ==
    [pc : Programs, st : UserSettings \cup {None}, node : 0 .. MaxNodes, found : 0 .. MaxNodes,
     last : Volumes \cup {None}, lastMute : BOOLEAN \cup {None},
     lastHost : UserSettings \cup {None}, active : BOOLEAN, muteGone : BOOLEAN,
     txGone : BOOLEAN, rxActive : BOOLEAN, guard : BOOLEAN]
Events == [kind : {"props"}, node : 1 .. MaxNodes, state : Settings] \cup {Partial}
TypeOK ==
    /\ graph \in {"closed", "prepared", "running"} /\ protected \in BOOLEAN
    /\ dsp \in [l : 1 .. Full, r : 1 .. Full, step : 1 .. StepOf(Full), mute : BOOLEAN]
    /\ host \in Settings /\ vis \in Settings /\ node \in 1 .. MaxNodes
    /\ rx \in BOOLEAN /\ news \in BOOLEAN /\ lapse \in SUBSET Lapses
    /\ page = None \/ page \in [node : 1 .. MaxNodes, state : UserSettings]
    /\ queue \in Seq(Events) /\ d \in Daemons

\* The promise of the daemon's header: handover "fails quiet rather than
\* creating a full-volume interval".  A running PCM is attenuated: by the
\* hidden sink, or by a protected graph's final volume on both channels.
Attenuated ==
    graph = "running" /\ host.vol = Full /\ ~host.mute =>
        protected /\ (dsp.mute \/ (dsp.l # Full /\ dsp.r # Full))

\* Whatever the daemon has done so far, whichever of its writes have failed and
\* however often it was ended and started, only two things can break the
\* promise, and only until the daemon next gives the volume back to the sink:
\* a PCM reopened before the daemon saw it closed, and an end in the middle of
\* a take-over.
NeverFull == lapse = {} => Attenuated

Exact == dsp.l = vis.vol /\ dsp.r = vis.vol /\ dsp.step = StepOf(vis.vol)

\* When the daemon has caught up the volume heard is the user's, applied
\* exactly once: by the DSP with the matching GainStep row behind a sink at
\* unity, or by the sink alone; and the engine has the postgain of this node.
VolumeIsUsers ==
    Quiet =>
        /\ page = [node |-> node, state |-> vis]
        /\ IF graph = "running" /\ ~d.txGone
             THEN Exact /\ host.vol = Full /\ rx
             ELSE host.vol = vis.vol

\* When the daemon has caught up after failures the volume heard is never
\* more than the user's.
FailsQuiet ==
    Quiet /\ graph = "running" =>
        host.vol <= vis.vol \/ (protected /\ dsp.l <= vis.vol /\ dsp.r <= vis.vol)

\* A mute of the user is a mute of the speaker, on whichever actuator.
MuteHolds ==
    Quiet /\ graph = "running" /\ vis.mute => host.mute \/ (protected /\ dsp.mute)

\* A daemon that has caught up leaves nothing louder than the user set it,
\* unless it still takes a reopened PCM for the one it knew.
FailsSafe == "reopened" \notin lapse => FailsQuiet /\ MuteHolds

\* The audit checklist: "Unmute restores the hidden sink safely."  A mute of
\* the idle sink is never lifted by a graph that is taken over.
UnmuteIsHeard == Quiet /\ graph = "running" /\ ~vis.mute => ~host.mute /\ ~dsp.mute

\* The daemon answers its own echoes, and yet it comes to rest: once nothing
\* else changes, it "no longer hammers unavailable DSP controls continuously".
\* (It does not start before the node it finds has a user's setting.)
ComesToRest == <>[][~Environment]_vars => <>[](Quiet \/ vis.vol = Full)

\* "Exact DSP volume transaction target is absent for this live graph": the
\* fallback is taken because of the graph that plays.
FallbackIsThisGraphs == Quiet /\ d.txGone => NoDevice

\* Nobody looks after a graph that opens while the daemon is away: when it
\* has exited, the hidden sink attenuates.
ExitIsQuiet == d.pc = "dead" => host.vol # Full

-----------------------------------------------------------------------------
(* The inductive invariants behind the properties.                          *)

Exiting  == {"dead", "exit", "exitHost", "exitMute"}
Finding  == {"look", "restoreVol", "restoreMute"}
Entering == {"queue", "probe", "rxDown", "idle"}
\* After a look at the PCM that saw it running.
InCharge == {"mute", "muteGone", "muteFailed", "muteFailedToo", "gain", "left", "right",
             "baseline", "unity", "rxUp", "done"}
Muted    == {"gain", "left", "right", "baseline", "unity", "rxUp", "done"}
Handing  == {"hostVol", "hostMute"}

\* The transient unity of a new node never becomes the daemon's setting.
Transient(e) == e.kind = "props" /\ e.node = d.node /\ e.state.vol = Full
UserSet ==
    /\ d.pc = "dead" => d = Fresh /\ queue = <<>>
    /\ d.pc # "dead" => d.st \in UserSettings /\ d.node \in 1 .. node
    /\ d.pc \in {"restoreVol", "restoreMute"} => d.found \in 1 .. node
    /\ d.node = node \/ (d.pc = "restoreMute" /\ d.found = node) => vis.vol # Full
    /\ \A i \in 1 .. Len(queue) :
          /\ queue[i].kind = "props" => queue[i].node <= node
          /\ Transient(queue[i]) => d.guard

\* A volume is the last one from its first write to the end of its transaction.
LastKnown ==
    /\ d.active \/ d.pc \in Taken => d.last \in Volumes
    /\ d.pc \in {"left", "right"} => d.active

\* Half a hand-over is the volume's.
Handed == d.pc = "hostMute" => host.vol = d.st.vol

\* The last complete event the daemon has not read is the user's setting;
\* if there is none, the daemon has it.
Silent(q) == \A i \in 1 .. Len(q) : q[i] = Partial
Said(q, e) ==
    \A i \in 1 .. Len(q) :
        q[i] # Partial /\ (\A j \in i + 1 .. Len(q) : q[j] = Partial) => q[i] = e
Informed ==
    /\ Said(queue, Props(node, vis))
    /\ Silent(queue) /\ d.pc \notin Exiting \cup Finding => d.st = vis /\ d.node = node

\* What the daemon believes of a graph it has seen running, and has not been
\* told to look at again, is true.
Pending == news \/ queue # <<>>
DspIs(l, r) == graph # "closed" => protected /\ dsp.l = l /\ dsp.r = r
Looks ==
    /\ d.pc \in InCharge /\ graph # "running" => Pending
    /\ d.pc \in {"idle", "rxDown"} /\ graph = "running" => Pending
    /\ d.pc = "wait" /\ d.active /\ graph # "running" => Pending
VolumeHeld ==
    /\ d.pc \in {"baseline", "unity"} => ~d.active
    /\ d.pc \in Taken \/ (d.active /\ d.pc = "wait") => d.last = d.st.vol
    /\ \/ d.active /\ d.pc \notin {"right"} \cup Handing \cup Exiting
       \/ d.pc \in Taken
       => DspIs(d.last, d.last)
    /\ d.pc = "right" => DspIs(d.st.vol, d.last)
    /\ d.pc = "unity" => DspIs(d.st.vol, d.st.vol)
MuteHeld ==
    /\ d.pc \in {"wait", "look", "restoreVol", "restoreMute"} \cup Entering
          => d.active \/ d.lastMute = None
    /\ d.lastMute # None /\ d.pc \notin Exiting /\ graph # "closed"
          => protected /\ dsp.mute = d.lastMute
    /\ d.pc \in Muted \/ (d.active /\ d.pc = "wait") => d.lastMute = d.st.mute \/ d.muteGone
    /\ d.pc = "wait" /\ d.active /\ d.lastMute # d.st.mute => host.mute = d.st.mute
HostHeld ==
    /\ d.txGone /\ d.pc \notin Handing \cup Exiting => host = d.lastHost /\ ~d.active
    /\ d.pc \in InCharge => ~d.txGone
    /\ d.pc = "muteFailedToo" => host.vol = d.st.vol
    /\ d.pc = "wait" /\ ~d.active /\ graph = "running" /\ ~Pending
          => host.vol <= d.st.vol /\ (d.st.mute => host.mute)
Belief == Looks /\ VolumeHeld /\ MuteHeld /\ HostHeld

\* The hidden sink is at unity only while the DSP attenuates.
UnityHeld ==
    /\ host.vol = Full /\ d.pc \notin Taken => d.active
    /\ d.lastHost # None /\ d.pc \notin Taken => host.vol # Full
    /\ d.active => d.lastHost = None
    /\ d.pc = "exitMute" => host.vol # Full
    /\ host.vol = Full /\ graph # "closed" => protected /\ dsp.l # Full /\ dsp.r # Full

\* Without failures the setting is applied exactly once, and never half.
RowIs(row) == graph # "closed" => dsp.step = row
ExactHeld ==
    /\ d.pc \notin {"queue"} \cup Exiting \cup Finding
          => page = [node |-> d.node, state |-> d.st]
    /\ d.pc \notin {"muteFailed", "muteFailedToo"}
    /\ \/ d.active /\ d.pc \notin {"right"} \cup Handing \cup Exiting
       \/ d.pc \in Taken
       => RowIs(StepOf(d.last))
    /\ d.pc = "right" => RowIs(MixedRow(d.last, d.st.vol))
    /\ d.pc = "unity" => RowIs(StepOf(d.st.vol))
    /\ (d.active /\ d.pc \notin Handing \cup Exiting) \/ d.pc \in Taken => host.vol = Full
    /\ (d.active /\ d.pc \notin {"idle"} \cup Handing \cup Exiting) \/ d.pc = "done" => d.rxActive
    /\ d.rxActive /\ d.pc \notin Exiting => rx
    /\ d.lastHost # None /\ d.pc \notin {"hostMute"} \cup Taken \cup Exiting
          => host.vol = d.lastHost.vol
    /\ d.pc \in Handing => d.txGone \/ graph # "running" \/ Pending
    /\ d.pc = "wait" /\ ~d.active /\ ~Pending
          => host.vol = d.st.vol /\ (graph # "running" \/ d.txGone)

\* Together.  The belief, lost when a PCM reopens before the daemon has seen it
\* closed, is true again when the volume goes back to the sink.
KnownInv == TypeOK /\ UserSet /\ LastKnown /\ Informed /\ Handed
BeliefInv == KnownInv /\ ("reopened" \notin lapse => Belief)
UnityInv == BeliefInv /\ (lapse = {} => UnityHeld)
=============================================================================
