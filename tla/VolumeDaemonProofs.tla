-------------------------- MODULE VolumeDaemonProofs --------------------------
\* Proofs about VolumeDaemon, for any number of levels, of incarnations of
\* the visible sink and of waiting events, and any targets.
\* 
\* The argument has three layers.  KnownInv, for all constants: types, the
\* setting the daemon holds is a user's, and what it has yet to read ends
\* with the present one.  BeliefInv: what run() remembers of the DSP and
\* of the sinks is so, unless a PCM has reopened behind the daemon's back
\* since the sink was last in charge.  On top of it UnityInv, which adds
\* what an end of the daemon may leave behind, and ExactHeld for a daemon
\* whose calls do not fail and no PCM of which reopens unseen.
\* 
\* The lemmas <action>Does say once what each action does to the fields of
\* d and to the sinks; the proofs that a step preserves an invariant have
\* one step per action and cite them.
EXTENDS VolumeDaemon, SequenceTheorems, TLAPS

\* What the assumptions on the constants say of volumes.
LEMMA Levelled ==
  /\ Levels \in Nat \ {0} /\ Full = Levels + 1 /\ Full \in Nat \ {0, 1}
  /\ Volumes = 1 .. Levels /\ Volumes \subseteq 1 .. Full
  /\ \A v \in Volumes : v \in Int /\ v < Full /\ v # Full
  /\ MaxNodes \in Nat \ {0}
  BY VolumeAssumption DEF VolumeAssumption, Full, Volumes

\* The variables of run() at its start have their types.
LEMMA FreshDaemon == Fresh \in Daemons
  BY Levelled DEF Fresh, Daemons, Programs

\* The usual updates of d keep its type.
LEMMA Moves ==
  ASSUME NEW x \in Daemons
  PROVE  /\ \A p \in Programs : Goto(x, p) \in Daemons
         /\ HostOwned(x) \in Daemons
         /\ \A s \in UserSettings : Reconcile(x, s) \in Daemons
         /\ [x EXCEPT !.guard = FALSE] \in Daemons
         /\ \A n \in 0 .. MaxNodes : [x EXCEPT !.node = n, !.guard = TRUE] \in Daemons
  <1>1. "queue" \in Programs
    BY DEF Programs
  <1> QED BY <1>1 DEF Daemons, Goto, HostOwned, Reconcile

\* A DSP write succeeds, finds no device, or fails before or half way.
LEMMA Written ==
  ASSUME NEW full, NEW part, NEW done, Write(full, part, done)
  PROVE  /\ UNCHANGED <<graph, protected, sinks, rx, page, news, queue>>
         /\ \/ ~NoDevice /\ dsp' = full /\ d' = done
            \/ NoDevice /\ dsp' = dsp /\ d' = [d EXCEPT !.txGone = TRUE, !.pc = "hostVol"]
            \/ ~NoDevice /\ Faults # {} /\ dsp' \in {dsp, part} /\ d' = Goto(d, "hostVol")
  <1>1. PICK result \in Results(full, part) :
          /\ dsp' = result.dsp
          /\ d' = CASE result.code = "ok" -> done
                    [] result.code = "ENODEV" -> [d EXCEPT !.txGone = Sticky, !.pc = "hostVol"]
                    [] OTHER -> Goto(d, "hostVol")
    BY DEF Write
  <1>2. \/ NoDevice /\ result = [code |-> "ENODEV", dsp |-> dsp]
        \/ ~NoDevice /\ result = [code |-> "ok", dsp |-> full]
        \/ ~NoDevice /\ Faults # {} /\ result \in {[code |-> "error", dsp |-> dsp], [code |-> "error", dsp |-> part]}
    BY DEF Results
  <1>3. UNCHANGED <<graph, protected, sinks, rx, page, news, queue>>
    BY DEF Write
  <1> QED BY <1>1, <1>2, <1>3 DEF Sticky

\* write_endpoint_mute likewise.
LEMMA MuteWritten ==
  ASSUME WriteMute
  PROVE  /\ d.pc = "mute" /\ UNCHANGED <<graph, protected, sinks, rx, page, news, queue>>
         /\ ~d.muteGone
         /\ \/ /\ ~NoDevice /\ dsp' = [dsp EXCEPT !.mute = d.st.mute]
               /\ d' = [d EXCEPT !.lastMute = d.st.mute, !.pc = "gain"]
            \/ dsp' = dsp /\ d' = Goto(d, "muteGone")
            \/ dsp' = dsp /\ Faults # {} /\ d' = Goto(d, "muteFailed")
  <1>1. PICK code \in MuteResults :
          /\ dsp' = IF code = "ok" THEN [dsp EXCEPT !.mute = d.st.mute] ELSE dsp
          /\ d' = CASE code = "ok" -> [d EXCEPT !.lastMute = d.st.mute, !.pc = "gain"]
                    [] code = "ENODEV" -> Goto(d, "muteGone")
                    [] OTHER -> Goto(d, "muteFailed")
    BY DEF WriteMute
  <1>2. \/ code = "ENODEV" \/ (~NoDevice /\ code = "ok") \/ (code = "mute" /\ Faults # {})
    BY DEF MuteResults
  <1>3. /\ d.pc = "mute" /\ UNCHANGED <<graph, protected, sinks, rx, page, news, queue>>
        /\ ~d.muteGone
    BY DEF WriteMute, At
  <1> QED BY <1>1, <1>2, <1>3

\* The three ways out of the decision on the volume.
LEMMA GainTaken ==
  ASSUME Gain
  PROVE  /\ d.pc = "gain" /\ UNCHANGED <<pcm, vis, node, rx, page, news>>
         /\ \/ /\ d.active /\ d.st.vol = d.last /\ d' = Goto(d, "wait")
               /\ \/ d.muteGone /\ SetHost([host EXCEPT !.mute = d.st.mute])
                  \/ ~d.muteGone /\ UNCHANGED <<host, queue>>
            \/ d.active /\ d' = Goto(d, "left") /\ UNCHANGED <<host, queue>>
            \/ ~d.active /\ d' = Goto(d, "baseline") /\ UNCHANGED <<host, queue>>
  BY DEF Gain, At

\* What a line of pw-dump makes the daemon do.
LEMMA Received ==
  ASSUME TypeOK, Receive
  PROVE  /\ d.pc = "wait" /\ queue # <<>> /\ queue' = Tail(queue) /\ Len(queue) \in Nat \ {0}
         /\ UNCHANGED <<pcm, sinks, rx, page, news>>
         /\ Head(queue) = queue[1] /\ queue[1] \in Events
         /\ \/ /\ queue[1].kind = "props" /\ queue[1].node # d.node
               /\ d' = Adopt(queue[1].node)
            \/ d' = Goto(d, "look")
            \/ /\ queue[1].kind = "props" /\ queue[1].node = d.node /\ ~d.guard
               /\ d' = Reconcile(d, queue[1].state)
  <1>1. d.pc = "wait" /\ queue # <<>> /\ queue' = Tail(queue) /\ UNCHANGED <<pcm, sinks, rx, page, news>>
    BY DEF Receive, At
  <1>2. Head(queue) = queue[1] /\ queue[1] \in Events /\ Len(queue) \in Nat \ {0}
    BY <1>1, HeadTailProperties DEF TypeOK
  <1>3. queue[1].kind \in {"props", "partial"}
    BY <1>2 DEF Events, Partial
  <1> QED BY <1>1, <1>2, <1>3 DEF Receive, Adopts

\* Every step keeps the types of the daemon's variables.
LEMMA DaemonTyped ==
  ASSUME TypeOK, UserSet, Next
  PROVE  d' \in Daemons
  <1>0. /\ d \in Daemons /\ (d.pc # "dead" => d.st \in UserSettings) /\ Fresh \in Daemons
        /\ node \in 1 .. MaxNodes /\ node \in 0 .. MaxNodes
    BY FreshDaemon, Levelled DEF TypeOK, UserSet
  <1>s. d.pc # "dead" => d.st.vol \in Volumes /\ d.st.mute \in BOOLEAN
    BY <1>0 DEF UserSettings
  <1>v. vis.vol # Full => vis \in UserSettings
    BY Levelled DEF TypeOK, Settings, UserSettings
  <1>g. \A p \in Programs : Goto(d, p) \in Daemons
    BY <1>0, Moves
  <1>e. d.pc \in Programs /\ d.found \in 0 .. MaxNodes
    BY <1>0 DEF Daemons
  <1> USE <1>0 DEF At
  <1>1. CASE User \/ Recreate \/ Open \/ Trigger \/ Pause \/ Close \/ Announce
    BY <1>1 DEF User, Recreate, Open, Trigger, Pause, Close, Pcm, Announce
  <1>2. CASE \/ Terminate \/ RestoreVol \/ RestoreFails \/ Queue \/ HostVol \/ SkipMute
             \/ MuteFailed \/ ExitHost
    BY <1>2, <1>g DEF Programs, Terminate, RestoreVol, RestoreFails, Queue, HostVol, SkipMute,
       MuteFailed, ExitHost
  <1>3. CASE GuardEnds \/ ExitMute \/ Exit
    <2>1. d' = [d EXCEPT !.guard = FALSE] \/ d' = Fresh \/ d' = Goto(d, "exitHost")
      BY <1>3 DEF GuardEnds, ExitMute, Exit
    <2> QED BY <2>1, <1>g, Moves DEF Programs
  <1>4. CASE Boot
    <2>1. vis \in UserSettings /\ d' = Reconcile([Fresh EXCEPT !.node = node, !.guard = TRUE], vis)
      BY <1>4, <1>v, Levelled DEF Boot
    <2>2. [Fresh EXCEPT !.node = node, !.guard = TRUE] \in Daemons
      BY Moves
    <2> QED BY <2>1, <2>2, Moves
  <1>5. CASE Receive
    <2>1. \/ d' = Goto(d, "look")
          \/ queue[1].node \in 0 .. MaxNodes /\ d' = Adopt(queue[1].node)
          \/ queue[1].state \in UserSettings /\ d' = Reconcile(d, queue[1].state)
      <3>1. queue[1] \in Events /\ 1 \in 1 .. Len(queue)
        BY <1>5, Received
      <3>2. queue[1].kind = "props" => queue[1].node \in 0 .. MaxNodes /\ queue[1].state \in Settings
        BY <3>1, Levelled DEF Events, Partial
      <3>3. queue[1].kind = "props" /\ queue[1].node = d.node /\ ~d.guard => queue[1].state.vol # Full
        BY <3>1 DEF UserSet, Transient
      <3> QED BY <1>5, <3>2, <3>3, Received, Levelled DEF Settings, UserSettings
    <2>2. CASE d' = Adopt(queue[1].node) /\ queue[1].node \in 0 .. MaxNodes
      BY <2>2 DEF Adopt, Daemons, Programs
    <2>3. CASE queue[1].state \in UserSettings /\ d' = Reconcile(d, queue[1].state)
      BY <2>3, Moves
    <2> QED BY <2>1, <2>2, <2>3, <1>g DEF Programs
  <1>6. CASE Look
    <2>1. d' = Adopt(node) \/ (vis \in UserSettings /\ d' = Reconcile(d, vis))
      BY <1>6, <1>v DEF Look, Adopts, UserSet
    <2>2. CASE d' = Adopt(node)
      BY <2>2 DEF Adopt, Daemons, Programs
    <2> QED BY <2>1, <2>2, Moves
  <1>7. CASE RestoreMute
    <2>1. d' = [d EXCEPT !.pc = "queue", !.node = d.found, !.found = 0,
                         !.guard = TRUE, !.muteGone = FALSE, !.txGone = FALSE]
      BY <1>7 DEF RestoreMute
    <2>2. 0 \in 0 .. MaxNodes
      BY Levelled
    <2> QED BY ZenonT(60), <2>1, <2>2, <1>e DEF Daemons, Programs
  <1>8. CASE RxDown \/ RxUp
    <2>1. CASE RxDown
      BY <2>1 DEF RxDown, Daemons, Programs
    <2>2. CASE RxUp
      BY <2>2 DEF RxUp, Daemons, Programs
    <2> QED BY <1>8, <2>1, <2>2
  <1>9. CASE Probe \/ Idle
    <2>1. d' \in {Goto(d, "rxDown"), Goto(d, "idle"), Goto(d, "mute"), Goto(d, "hostVol"),
                 HostOwned(Goto(d, "wait"))}
      BY <1>9 DEF Probe, Idle
    <2>2. Goto(d, "wait") \in Daemons
      BY <1>g DEF Programs
    <2>3. HostOwned(Goto(d, "wait")) \in Daemons
      BY <2>2, Moves
    <2> QED BY <2>1, <2>3, <1>g DEF Programs
  <1>10. CASE HostMute \/ MuteFailClosed
    <2>1. \/ d.st \in UserSettings /\ d' = HostOwned([d EXCEPT !.lastHost = d.st, !.pc = "wait"])
          \/ d' = HostOwned(Goto(d, "wait"))
      BY <1>10 DEF HostMute, MuteFailClosed
    <2>2. Goto(d, "wait") \in Daemons
      BY <1>g DEF Programs
    <2>3. HostOwned(Goto(d, "wait")) \in Daemons
      BY <2>2, Moves
    <2>4. CASE d.st \in UserSettings /\ d' = HostOwned([d EXCEPT !.lastHost = d.st, !.pc = "wait"])
      BY <2>4 DEF HostOwned, Daemons, Programs
    <2> QED BY <2>1, <2>3, <2>4
  <1>11. CASE WriteMute
    <2>1. d.st.mute \in BOOLEAN
      BY <1>11, <1>s, MuteWritten
    <2>2. CASE d' = [d EXCEPT !.lastMute = d.st.mute, !.pc = "gain"]
      BY <2>1, <2>2 DEF Daemons, Programs
    <2> QED BY <1>11, <2>2, <1>g, MuteWritten DEF Programs
  <1>12. CASE MuteGone \/ Done
    <2>1. CASE MuteGone
      BY <2>1 DEF MuteGone, Sticky, Daemons, Programs
    <2>2. CASE Done
      BY <2>2 DEF Done, Daemons, Programs
    <2> QED BY <1>12, <2>1, <2>2
  <1>13. CASE Gain
    BY <1>13, <1>g, GainTaken DEF Programs
  <1>14. CASE Right \/ Unity
    <2>1. d.st.vol \in Volumes /\ Applied \in Daemons
      <3>1. d.st.vol \in Volumes
        BY <1>14, <1>s DEF Right, Unity
      <3> QED BY ZenonT(60), <3>1 DEF Applied, Daemons, Programs
    <2>2. d' \in {Applied, [d EXCEPT !.txGone = TRUE, !.pc = "hostVol"], Goto(d, "hostVol")}
      BY <1>14, Written DEF Right, Unity
    <2>3. [d EXCEPT !.txGone = TRUE, !.pc = "hostVol"] \in Daemons
      BY DEF Daemons, Programs
    <2> QED BY <2>1, <2>2, <2>3, <1>g DEF Programs
  <1>15. CASE Left \/ Baseline
    <2>1. d' \in {Goto(d, "right"), Goto(d, "unity"), [d EXCEPT !.txGone = TRUE, !.pc = "hostVol"],
                 Goto(d, "hostVol")}
      BY <1>15, Written DEF Left, Baseline
    <2>3. [d EXCEPT !.txGone = TRUE, !.pc = "hostVol"] \in Daemons
      BY DEF Daemons, Programs
    <2> QED BY <2>1, <2>3, <1>g DEF Programs
  <1> QED BY <1>1, <1>2, <1>3, <1>4, <1>5, <1>6, <1>7, <1>8, <1>9, <1>10, <1>11, <1>12, <1>13,
              <1>14, <1>15 DEF Next, Environment, Daemon

-----------------------------------------------------------------------------
\* What each step does to the daemon's variables.

Fields == {"pc", "st", "node", "found", "last", "lastMute", "lastHost", "active", "muteGone",
           "txGone", "rxActive", "guard"}
Kept(fs) == \A f \in Fields \ fs : d'[f] = d[f]
Elsewhere == <<graph, protected, dsp, vis, node, rx, page, news>>
Tells == /\ queue' \in Seq(Events)
         /\ queue' = queue \/ queue' = Append(queue, Partial)
         /\ queue # <<>> => queue' # <<>>
HostIs(v, m) == /\ Tells /\ host' \in Settings /\ host'.vol = v /\ host'.mute = m
                /\ host' # host => queue' # <<>>

\* A change of the program counter alone.
LEMMA GotoDoes ==
  ASSUME d \in Daemons, NEW p, d' = Goto(d, p)
  PROVE  d'.pc = p /\ Kept({"pc"})
  BY DEF Kept, Fields, Daemons, Goto

LEMMA OwnedDoes ==
  ASSUME d \in Daemons, NEW p, d' = HostOwned(Goto(d, p))
  PROVE  d'.pc = p /\ ~d'.active /\ d'.lastMute = None /\ Kept({"pc", "active", "lastMute"})
  BY DEF Kept, Fields, Daemons, Goto, HostOwned

LEMMA ReconcileDoes ==
  ASSUME d \in Daemons, NEW s, d' = Reconcile(d, s)
  PROVE  d'.pc = "queue" /\ d'.st = s /\ Kept({"pc", "st"})
  BY DEF Kept, Fields, Daemons, Reconcile

LEMMA AdoptDoes ==
  ASSUME d \in Daemons, NEW n, d' = Adopt(n)
  PROVE  d'.pc = "restoreVol" /\ d'.found = n /\ Kept({"pc", "found"})
  BY DEF Kept, Fields, Daemons, Adopt

LEMMA AppliedDoes ==
  ASSUME d \in Daemons, d' = Applied
  PROVE  /\ d'.pc = (IF d.rxActive THEN "done" ELSE "rxUp") /\ d'.last = d.st.vol
         /\ Kept({"pc", "last"})
  BY DEF Kept, Fields, Daemons, Applied

LEMMA FreshDoes ==
  ASSUME d' = Fresh
  PROVE  /\ d'.pc = "dead" /\ d'.node = 0 /\ d'.lastMute = None /\ d'.lastHost = None
         /\ ~d'.active /\ ~d'.txGone /\ ~d'.rxActive /\ ~d'.muteGone /\ ~d'.guard
  BY DEF Fresh

\* A changed hidden sink is printed by pw-dump, an unchanged one is not.
LEMMA Printed ==
  ASSUME TypeOK, NEW e \in Events, PwDump(e)
  PROVE  /\ queue' \in Seq(Events)
         /\ queue' = queue \/ queue' = Append(queue, e)
         /\ d.pc = "dead" => queue' = queue
         /\ d.pc # "dead" \/ queue # <<>> => queue' # <<>>
         /\ d.pc # "dead" /\ e # Partial => queue' = Append(queue, e)
  BY DEF TypeOK, PwDump, Repeats

\* What pw-dump prints are events, and complete ones are not partial ones.
LEMMA EventType ==
  /\ Partial \in Events
  /\ \A n \in 1 .. MaxNodes, s \in Settings : Props(n, s) \in Events /\ Props(n, s) # Partial
  BY DEF Events, Partial, Props

LEMMA HostSet ==
  ASSUME TypeOK, d.pc # "dead", NEW h, SetHost(h)
  PROVE  Tells /\ host' = h /\ (host' # host => queue' # <<>>)
  <1>1. CASE h = host
    BY <1>1 DEF SetHost, Tells, TypeOK
  <1>2. CASE h # host
    <2>1. PwDump(Partial) /\ host' = h
      BY <1>2 DEF SetHost
    <2> QED BY <1>2, <2>1, Printed, EventType DEF Tells
  <1> QED BY <1>1, <1>2

LEMMA HostVolume ==
  ASSUME TypeOK, d.pc # "dead", NEW v \in 1 .. Full, SetHost([host EXCEPT !.vol = v])
  PROVE  HostIs(v, host.mute)
  <1>1. /\ host \in Settings /\ host' = [host EXCEPT !.vol = v]
        /\ Tells /\ (host' # host => queue' # <<>>)
    BY HostSet DEF TypeOK
  <1>2. host' \in Settings /\ host'.vol = v /\ host'.mute = host.mute
    BY <1>1 DEF Settings
  <1> QED BY <1>1, <1>2 DEF HostIs

LEMMA HostMuted ==
  ASSUME TypeOK, d.pc # "dead", NEW m \in BOOLEAN, SetHost([host EXCEPT !.mute = m])
  PROVE  HostIs(host.vol, m)
  <1>1. /\ host \in Settings /\ host' = [host EXCEPT !.mute = m]
        /\ Tells /\ (host' # host => queue' # <<>>)
    BY HostSet DEF TypeOK
  <1>2. host' \in Settings /\ host'.vol = host.vol /\ host'.mute = m
    BY <1>1 DEF Settings
  <1> QED BY <1>1, <1>2 DEF HostIs

LEMMA HostLeft ==
  ASSUME TypeOK, UNCHANGED <<host, queue>>
  PROVE  HostIs(host.vol, host.mute)
  BY DEF TypeOK, HostIs, Tells

\* What the daemon holds, as its steps need it.
LEMMA DaemonState ==
  ASSUME TypeOK, UserSet
  PROVE  /\ d \in Daemons /\ Full \in 1 .. Full
         /\ d.pc # "dead" => /\ d.st \in UserSettings /\ d.st.vol \in Volumes
                             /\ d.st.vol \in 1 .. Full /\ d.st.mute \in BOOLEAN
  BY Levelled DEF TypeOK, UserSet, UserSettings

\* The actions, one by one.
LEMMA TerminateDoes ==
  ASSUME TypeOK, Terminate
  PROVE  /\ d.pc # "dead" /\ d'.pc = "exit" /\ Kept({"pc"}) /\ UNCHANGED <<Elsewhere, host, queue>>
  BY GotoDoes DEF TypeOK, Terminate, Elsewhere, pcm, sinks

LEMMA BootDoes ==
  ASSUME TypeOK, UserSet, Boot
  PROVE  /\ d.pc = "dead" /\ vis.vol \in Volumes /\ queue' = <<Partial>>
         /\ d'.pc = "queue" /\ d'.st = vis /\ d'.node = node /\ d'.guard
         /\ d'.lastMute = None /\ d'.lastHost = None /\ d'.last = None
         /\ ~d'.active /\ ~d'.txGone /\ ~d'.rxActive /\ ~d'.muteGone
         /\ UNCHANGED <<Elsewhere, host>>
  <1>1. d' = [Fresh EXCEPT !.node = node, !.guard = TRUE, !.st = vis, !.pc = "queue"]
    BY DEF Boot, Reconcile, Fresh
  <1>2. d.pc = "dead" /\ vis.vol \in Volumes /\ queue' = <<Partial>> /\ UNCHANGED <<Elsewhere, host>>
    BY DEF Boot, At, Elsewhere, pcm, sinks
  <1> QED BY <1>1, <1>2 DEF Fresh

LEMMA GuardDoes ==
  ASSUME TypeOK, GuardEnds
  PROVE  /\ d.pc = "wait" /\ queue = <<>> /\ ~d'.guard /\ Kept({"guard"})
         /\ UNCHANGED <<Elsewhere, host, queue>>
  BY DEF TypeOK, Kept, Fields, Daemons, GuardEnds, At, Elsewhere, pcm, sinks

LEMMA ReceiveDoes ==
  ASSUME TypeOK, Receive
  PROVE  /\ d.pc = "wait" /\ queue # <<>> /\ queue' = Tail(queue)
         /\ Kept({"pc", "st", "found"}) /\ UNCHANGED <<Elsewhere, host>>
         /\ \/ /\ d'.pc = "restoreVol" /\ d'.st = d.st /\ d'.found = queue[1].node
               /\ queue[1].kind = "props" /\ queue[1].node # d.node
            \/ d'.pc = "look" /\ d'.st = d.st
            \/ /\ d'.pc = "queue" /\ d'.st = queue[1].state
               /\ queue[1].kind = "props" /\ queue[1].node = d.node /\ ~d.guard
  <1>0. d \in Daemons
    BY DEF TypeOK
  <1>1. d.pc = "wait" /\ queue # <<>> /\ queue' = Tail(queue) /\ UNCHANGED <<Elsewhere, host>>
    BY Received DEF Elsewhere, pcm, sinks
  <1>2. CASE /\ queue[1].kind = "props" /\ queue[1].node # d.node /\ d' = Adopt(queue[1].node)
    BY <1>0, <1>1, <1>2, AdoptDoes DEF Kept, Fields
  <1>3. CASE d' = Goto(d, "look")
    BY <1>0, <1>1, <1>3, GotoDoes DEF Kept, Fields
  <1>4. CASE /\ queue[1].kind = "props" /\ queue[1].node = d.node /\ ~d.guard
             /\ d' = Reconcile(d, queue[1].state)
    BY <1>0, <1>1, <1>4, ReconcileDoes DEF Kept, Fields
  <1> QED BY <1>2, <1>3, <1>4, Received

LEMMA LookDoes ==
  ASSUME TypeOK, Look
  PROVE  /\ d.pc = "look" /\ UNCHANGED <<Elsewhere, host, queue>>
         /\ \/ d'.pc = "restoreVol" /\ d'.found = node /\ node # d.node /\ Kept({"pc", "found"})
            \/ d'.pc = "queue" /\ d'.st = vis /\ node = d.node /\ Kept({"pc", "st"})
  BY AdoptDoes, ReconcileDoes DEF TypeOK, Look, At, Adopts, Elsewhere, pcm, sinks

LEMMA RestoreVolDoes ==
  ASSUME TypeOK, RestoreVol
  PROVE  /\ d.pc = "restoreVol" /\ d.found = node /\ d'.pc = "restoreMute" /\ Kept({"pc"})
         /\ vis' = [vis EXCEPT !.vol = d.st.vol] /\ PwDump(Props(node, vis'))
         /\ UNCHANGED <<pcm, host, node, rx, page, news>>
  BY GotoDoes DEF TypeOK, RestoreVol, At

LEMMA RestoreMuteDoes ==
  ASSUME TypeOK, RestoreMute
  PROVE  /\ d.pc = "restoreMute" /\ d.found = node /\ d'.pc = "queue" /\ d'.node = node
         /\ d'.guard /\ ~d'.muteGone /\ ~d'.txGone
         /\ Kept({"pc", "node", "found", "guard", "muteGone", "txGone"})
         /\ vis' = [vis EXCEPT !.mute = d.st.mute] /\ PwDump(Props(node, vis'))
         /\ UNCHANGED <<pcm, host, node, rx, page, news>>
  BY DEF TypeOK, Kept, Fields, Daemons, RestoreMute, At

LEMMA RestoreFailsDoes ==
  ASSUME TypeOK, RestoreFails
  PROVE  /\ d.pc \in {"restoreVol", "restoreMute"} /\ d.found # node /\ d'.pc = "exit"
         /\ Kept({"pc"}) /\ UNCHANGED <<Elsewhere, host, queue>>
  BY GotoDoes DEF TypeOK, RestoreFails, Elsewhere, pcm, sinks

LEMMA QueueDoes ==
  ASSUME TypeOK, Queue
  PROVE  /\ d.pc = "queue" /\ d'.pc = "probe" /\ Kept({"pc"})
         /\ page' = [node |-> d.node, state |-> d.st]
         /\ UNCHANGED <<pcm, sinks, rx, news, queue>>
  BY GotoDoes DEF TypeOK, Queue, At

LEMMA ProbeDoes ==
  ASSUME TypeOK, Probe
  PROVE  /\ d.pc = "probe" /\ UNCHANGED <<Elsewhere, host, queue>>
         /\ \/ graph # "running" /\ d.rxActive /\ d'.pc = "rxDown" /\ Kept({"pc"})
            \/ graph # "running" /\ ~d.rxActive /\ d'.pc = "idle" /\ Kept({"pc"})
            \/ graph = "running" /\ ~d.txGone /\ d'.pc = "mute" /\ Kept({"pc"})
            \/ graph = "running" /\ d.txGone /\ d'.pc = "hostVol" /\ Kept({"pc"})
            \/ /\ graph = "running" /\ d.txGone /\ d.lastHost = d.st
               /\ d'.pc = "wait" /\ ~d'.active /\ d'.lastMute = None
               /\ Kept({"pc", "active", "lastMute"})
  BY GotoDoes, OwnedDoes DEF TypeOK, Probe, HostStale, At, Elsewhere, pcm, sinks

LEMMA RxDownDoes ==
  ASSUME TypeOK, RxDown
  PROVE  /\ d.pc = "rxDown" /\ d'.pc = "idle" /\ ~d'.rxActive /\ Kept({"pc", "rxActive"}) /\ rx' = FALSE
         /\ UNCHANGED <<pcm, sinks, page, news, queue>>
  BY DEF TypeOK, Kept, Fields, Daemons, RxDown, At

LEMMA IdleDoes ==
  ASSUME TypeOK, Idle
  PROVE  /\ d.pc = "idle" /\ UNCHANGED <<Elsewhere, host, queue>>
         /\ \/ d'.pc = "hostVol" /\ Kept({"pc"})
            \/ /\ ~d.active /\ d.lastHost = d.st /\ d'.pc = "wait" /\ ~d'.active /\ d'.lastMute = None
               /\ Kept({"pc", "active", "lastMute"})
  BY GotoDoes, OwnedDoes DEF TypeOK, Idle, HostStale, At, Elsewhere, pcm, sinks

LEMMA HostVolDoes ==
  ASSUME TypeOK, UserSet, HostVol
  PROVE  /\ d.pc = "hostVol" /\ d'.pc = "hostMute" /\ Kept({"pc"}) /\ HostIs(d.st.vol, host.mute)
         /\ UNCHANGED Elsewhere
  BY GotoDoes, DaemonState, HostVolume DEF HostVol, At, Elsewhere, pcm

LEMMA HostMuteDoes ==
  ASSUME TypeOK, UserSet, HostMute
  PROVE  /\ d.pc = "hostMute" /\ d'.pc = "wait" /\ d'.lastHost = d.st /\ ~d'.active /\ d'.lastMute = None
         /\ Kept({"pc", "lastHost", "active", "lastMute"}) /\ HostIs(host.vol, d.st.mute)
         /\ UNCHANGED Elsewhere
  <1>1. d.pc = "hostMute" /\ SetHost([host EXCEPT !.mute = d.st.mute]) /\ UNCHANGED Elsewhere
    BY DEF HostMute, At, Elsewhere, pcm
  <1>2. d' = [d EXCEPT !.lastHost = d.st, !.pc = "wait", !.active = FALSE, !.lastMute = None]
    BY DaemonState DEF HostMute, HostOwned, Daemons
  <1> QED BY <1>1, <1>2, DaemonState, HostMuted DEF Kept, Fields, Daemons

LEMMA WriteMuteDoes ==
  ASSUME TypeOK, WriteMute
  PROVE  /\ d.pc = "mute" /\ ~d.muteGone
         /\ UNCHANGED <<graph, protected, sinks, rx, page, news, queue>>
         /\ \/ /\ ~NoDevice /\ d'.pc = "gain" /\ d'.lastMute = d.st.mute /\ Kept({"pc", "lastMute"})
               /\ dsp' = [dsp EXCEPT !.mute = d.st.mute] /\ dsp'.mute = d.st.mute
               /\ dsp'.l = dsp.l /\ dsp'.r = dsp.r /\ dsp'.step = dsp.step
            \/ dsp' = dsp /\ d'.pc = "muteGone" /\ Kept({"pc"})
            \/ dsp' = dsp /\ d'.pc = "muteFailed" /\ Kept({"pc"}) /\ Faults # {}
  <1>1. CASE d' = [d EXCEPT !.lastMute = d.st.mute, !.pc = "gain"]
    <2>1. d'.pc = "gain" /\ d'.lastMute = d.st.mute /\ Kept({"pc", "lastMute"})
      BY <1>1 DEF TypeOK, Kept, Fields, Daemons
    <2>2. /\ dsp' = [dsp EXCEPT !.mute = d.st.mute] => /\ dsp'.mute = d.st.mute /\ dsp'.l = dsp.l
                                                       /\ dsp'.r = dsp.r /\ dsp'.step = dsp.step
      BY DEF TypeOK
    <2> QED BY <1>1, <2>1, <2>2, MuteWritten, GotoDoes DEF TypeOK
  <1> QED BY <1>1, MuteWritten, GotoDoes DEF TypeOK

LEMMA SkipMuteDoes ==
  ASSUME TypeOK, SkipMute
  PROVE  /\ d.pc = "mute" /\ d'.pc = "gain" /\ Kept({"pc"}) /\ (d.muteGone \/ d.lastMute = d.st.mute)
         /\ HostIs(host.vol, host.mute) \/ HostIs(host.vol, TRUE)
         /\ UNCHANGED Elsewhere
  <1>1. /\ d.pc = "mute" /\ d'.pc = "gain" /\ Kept({"pc"}) /\ (d.muteGone \/ d.lastMute = d.st.mute)
        /\ SetHost([host EXCEPT !.mute = TRUE]) \/ UNCHANGED <<host, queue>>
        /\ UNCHANGED Elsewhere
    BY GotoDoes DEF TypeOK, SkipMute, MuteChanged, At, Elsewhere, pcm
  <1> QED BY <1>1, HostMuted, HostLeft

LEMMA MuteGoneDoes ==
  ASSUME TypeOK, MuteGone
  PROVE  /\ d.pc = "muteGone" /\ d'.pc = "gain" /\ d'.lastMute = None /\ d'.muteGone
         /\ Kept({"pc", "lastMute", "muteGone"}) /\ HostIs(host.vol, TRUE)
         /\ UNCHANGED Elsewhere
  <1>1. /\ d.pc = "muteGone" /\ d'.pc = "gain" /\ d'.lastMute = None /\ d'.muteGone
        /\ Kept({"pc", "lastMute", "muteGone"})
        /\ SetHost([host EXCEPT !.mute = TRUE]) /\ UNCHANGED Elsewhere
    BY DEF TypeOK, Kept, Fields, Daemons, MuteGone, Sticky, At, Elsewhere, pcm
  <1> QED BY <1>1, HostMuted

LEMMA MuteFailedDoes ==
  ASSUME TypeOK, UserSet, MuteFailed
  PROVE  /\ d.pc = "muteFailed" /\ d'.pc = "muteFailedToo" /\ Kept({"pc"}) /\ HostIs(d.st.vol, host.mute)
         /\ UNCHANGED Elsewhere
  BY GotoDoes, DaemonState, HostVolume DEF MuteFailed, At, Elsewhere, pcm

LEMMA MuteFailClosedDoes ==
  ASSUME TypeOK, MuteFailClosed
  PROVE  /\ d.pc = "muteFailedToo" /\ d'.pc = "wait" /\ ~d'.active /\ d'.lastMute = None
         /\ Kept({"pc", "active", "lastMute"}) /\ HostIs(host.vol, TRUE)
         /\ UNCHANGED Elsewhere
  BY OwnedDoes, HostMuted DEF TypeOK, MuteFailClosed, At, Elsewhere, pcm

LEMMA GainDoes ==
  ASSUME TypeOK, UserSet, Gain
  PROVE  /\ d.pc = "gain" /\ Kept({"pc"}) /\ UNCHANGED Elsewhere
         /\ \/ /\ d'.pc = "wait" /\ d.active /\ d.st.vol = d.last
               /\ \/ d.muteGone /\ HostIs(host.vol, d.st.mute)
                  \/ ~d.muteGone /\ HostIs(host.vol, host.mute)
            \/ d'.pc = "left" /\ d.active /\ HostIs(host.vol, host.mute)
            \/ d'.pc = "baseline" /\ ~d.active /\ HostIs(host.vol, host.mute)
  <1>1. d.pc = "gain" /\ UNCHANGED Elsewhere
    BY GainTaken DEF Elsewhere, pcm
  <1> QED BY <1>1, GainTaken, GotoDoes, HostMuted, HostLeft, DaemonState

LEMMA GoneDoes ==
  ASSUME d \in Daemons, d' = [d EXCEPT !.txGone = TRUE, !.pc = "hostVol"]
  PROVE  d'.pc = "hostVol" /\ d'.txGone /\ Kept({"pc", "txGone"})
  BY DEF Kept, Fields, Daemons

\* The ends of a write: done as wanted, no device, or failed half way.
Gone == /\ NoDevice /\ dsp' = dsp /\ d'.pc = "hostVol" /\ d'.txGone /\ Kept({"pc", "txGone"})
Failed(l, r) == /\ ~NoDevice /\ Faults # {} /\ d'.pc = "hostVol" /\ Kept({"pc"})
                /\ \/ dsp' = dsp
                   \/ dsp' = Sound(l, r, dsp.step)

LEMMA LeftDoes ==
  ASSUME TypeOK, Left
  PROVE  /\ d.pc = "left" /\ UNCHANGED <<graph, protected, sinks, rx, page, news, queue>>
         /\ \/ /\ ~NoDevice /\ d'.pc = "right" /\ Kept({"pc"})
               /\ dsp' = Sound(d.st.vol, d.last,
                              IF MixedRow(d.last, d.st.vol) = StepOf(d.last)
                                THEN dsp.step ELSE MixedRow(d.last, d.st.vol))
            \/ Gone
            \/ Failed(d.st.vol, d.last)
  BY Written, GotoDoes, GoneDoes DEF TypeOK, Left, At, Gone, Failed

LEMMA RightDoes ==
  ASSUME TypeOK, Right
  PROVE  /\ d.pc = "right" /\ UNCHANGED <<graph, protected, sinks, rx, page, news, queue>>
         /\ \/ /\ ~NoDevice /\ d'.pc = (IF d.rxActive THEN "done" ELSE "rxUp")
               /\ d'.last = d.st.vol /\ Kept({"pc", "last"})
               /\ dsp' = Sound(d.st.vol, d.st.vol,
                              IF MixedRow(d.last, d.st.vol) = StepOf(d.st.vol)
                                THEN dsp.step ELSE StepOf(d.st.vol))
            \/ Gone
            \/ Failed(d.st.vol, d.st.vol)
  BY Written, GotoDoes, GoneDoes, AppliedDoes DEF TypeOK, Right, At, Gone, Failed

LEMMA BaselineDoes ==
  ASSUME TypeOK, Baseline
  PROVE  /\ d.pc = "baseline" /\ UNCHANGED <<graph, protected, sinks, rx, page, news, queue>>
         /\ \/ /\ ~NoDevice /\ d'.pc = "unity" /\ Kept({"pc"})
               /\ dsp' = Sound(d.st.vol, d.st.vol, StepOf(d.st.vol))
            \/ Gone
            \/ Failed(d.st.vol, d.st.vol)
  BY Written, GotoDoes, GoneDoes DEF TypeOK, Baseline, At, Gone, Failed

LEMMA UnityDoes ==
  ASSUME TypeOK, UserSet, Unity
  PROVE  /\ d.pc = "unity" /\ d'.pc = (IF d.rxActive THEN "done" ELSE "rxUp")
         /\ d'.last = d.st.vol /\ Kept({"pc", "last"}) /\ HostIs(Full, host.mute)
         /\ UNCHANGED Elsewhere
  BY AppliedDoes, DaemonState, HostVolume DEF Unity, At, Elsewhere, pcm

LEMMA RxUpDoes ==
  ASSUME TypeOK, RxUp
  PROVE  /\ d.pc = "rxUp" /\ d'.pc = "done" /\ d'.rxActive /\ Kept({"pc", "rxActive"}) /\ rx' = TRUE
         /\ UNCHANGED <<pcm, sinks, page, news, queue>>
  BY DEF TypeOK, Kept, Fields, Daemons, RxUp, At

LEMMA DoneDoes ==
  ASSUME TypeOK, UserSet, Done
  PROVE  /\ d.pc = "done" /\ d'.pc = "wait" /\ d'.lastHost = None /\ d'.active
         /\ Kept({"pc", "lastHost", "active"})
         /\ \/ d.muteGone /\ HostIs(host.vol, d.st.mute)
            \/ ~d.muteGone /\ HostIs(host.vol, host.mute)
         /\ UNCHANGED Elsewhere
  <1>1. /\ d.pc = "done" /\ d'.pc = "wait" /\ d'.lastHost = None /\ d'.active
        /\ Kept({"pc", "lastHost", "active"}) /\ UNCHANGED Elsewhere
    BY DEF TypeOK, Kept, Fields, Daemons, Done, At, Elsewhere, pcm
  <1>2. \/ d.muteGone /\ SetHost([host EXCEPT !.mute = d.st.mute])
        \/ ~d.muteGone /\ UNCHANGED <<host, queue>>
    BY DEF Done
  <1> QED BY <1>1, <1>2, DaemonState, HostMuted, HostLeft

LEMMA ExitDoes ==
  ASSUME TypeOK, Exit
  PROVE  /\ d.pc = "exit" /\ UNCHANGED <<pcm, sinks, page, news>> /\ rx' = (rx /\ ~d.rxActive)
         /\ \/ d.active /\ d'.pc = "exitHost" /\ Kept({"pc"}) /\ UNCHANGED queue
            \/ ~d.active /\ d' = Fresh /\ queue' = <<>>
  BY GotoDoes DEF TypeOK, Exit, At

LEMMA ExitHostDoes ==
  ASSUME TypeOK, UserSet, ExitHost
  PROVE  /\ d.pc = "exitHost" /\ d'.pc = "exitMute" /\ Kept({"pc"}) /\ UNCHANGED <<Elsewhere, queue>>
         /\ host' \in Settings /\ host'.vol = d.st.vol /\ host'.mute = host.mute
  <1>1. /\ d.pc = "exitHost" /\ d'.pc = "exitMute" /\ Kept({"pc"}) /\ UNCHANGED <<Elsewhere, queue>>
        /\ host' = [host EXCEPT !.vol = d.st.vol] /\ host \in Settings
    BY GotoDoes DEF TypeOK, ExitHost, At, Elsewhere, pcm
  <1> QED BY <1>1, DaemonState DEF Settings

LEMMA ExitMuteDoes ==
  ASSUME TypeOK, UserSet, ExitMute
  PROVE  /\ d.pc = "exitMute" /\ d' = Fresh /\ queue' = <<>> /\ UNCHANGED Elsewhere
         /\ host' \in Settings /\ host'.vol = host.vol /\ host'.mute = d.st.mute
  <1>1. /\ d.pc = "exitMute" /\ d' = Fresh /\ queue' = <<>> /\ UNCHANGED Elsewhere
        /\ host' = [host EXCEPT !.mute = d.st.mute] /\ host \in Settings
    BY DEF TypeOK, ExitMute, At, Elsewhere, pcm
  <1> QED BY <1>1, DaemonState DEF Settings

-----------------------------------------------------------------------------
\* Types, and what the daemon may hold as a setting.

\* Rows of volumes are rows.
LEMMA RowType ==
  ASSUME NEW v \in 1 .. Full
  PROVE  StepOf(v) \in 1 .. StepOf(Full)
  BY Levelled DEF StepOf

\* The DSP after a write.
LEMMA SoundType ==
  ASSUME TypeOK, NEW l \in 1 .. Full, NEW r \in 1 .. Full, NEW row \in 1 .. StepOf(Full)
  PROVE  /\ Sound(l, r, row).l = l /\ Sound(l, r, row).r = r
         /\ Sound(l, r, row).step = row /\ Sound(l, r, row).mute = dsp.mute
         /\ Sound(l, r, row) \in [l : 1 .. Full, r : 1 .. Full, step : 1 .. StepOf(Full), mute : BOOLEAN]
  BY DEF TypeOK, Sound

\* The daemon's queue after a line is read.
LEMMA TailEvents ==
  ASSUME NEW q \in Seq(Events), q # << >>
  PROVE  /\ Tail(q) \in Seq(Events) /\ Len(q) \in Nat \ {0} /\ Len(Tail(q)) = Len(q) - 1
         /\ q[1] \in Events
         /\ \A i \in 1 .. Len(Tail(q)) : i + 1 \in 1 .. Len(q) /\ Tail(q)[i] = q[i + 1]
  BY HeadTailProperties

\* The daemon's queue after a line is printed.
LEMMA AppendEvents ==
  ASSUME NEW q \in Seq(Events), NEW e \in Events
  PROVE  /\ Append(q, e) \in Seq(Events) /\ Len(q) \in Nat /\ Len(Append(q, e)) = Len(q) + 1
         /\ \A i \in 1 .. Len(q) : Append(q, e)[i] = q[i]
         /\ Append(q, e)[Len(q) + 1] = e
  BY AppendProperties

\* An opening the daemon may not notice, an end in a take-over: when neither.
Watched == Open => Aware
Uncut == Terminate => d.pc \notin Taken \/ d.active

\* What a step adds to the lapses, and that HostMute ends them.
LEMMA LapseDoes ==
  ASSUME Next
  PROVE  \/ lapse' = lapse /\ Watched /\ Uncut
         \/ Open /\ Uncut /\ lapse' = lapse \cup {"reopened"}
         \/ Terminate /\ Watched /\ lapse' = lapse \cup {"cut"}
         \/ HostMute /\ lapse' = {}
  <1>1. CASE Open
    BY <1>1 DEF Open, Watched, Uncut, Terminate, pcm, sinks
  <1>2. CASE Terminate
    BY <1>2 DEF Open, Watched, Uncut, Terminate, pcm, sinks
  <1>3. CASE HostMute
    BY <1>3 DEF HostMute
  <1>4. CASE ~Open /\ ~Terminate /\ ~HostMute
    <2>1. Watched /\ Uncut
      BY <1>4 DEF Watched, Uncut
    <2>2. CASE User \/ Recreate \/ Trigger \/ Pause \/ Close \/ Announce \/ Boot \/ GuardEnds
      BY <2>1, <2>2 DEF User, Recreate, Trigger, Pause, Close, Pcm, Announce, Boot, GuardEnds
    <2>3. CASE Receive \/ Look \/ RestoreVol \/ RestoreMute \/ RestoreFails \/ Queue \/ Probe
      BY <2>1, <2>3 DEF Receive, Look, RestoreVol, RestoreMute, RestoreFails, Queue, Probe
    <2>4. CASE RxDown \/ Idle \/ HostVol \/ WriteMute \/ SkipMute \/ MuteGone \/ MuteFailed
      BY <2>1, <2>4 DEF RxDown, Idle, HostVol, WriteMute, SkipMute, MuteGone, MuteFailed
    <2>5. CASE MuteFailClosed \/ Gain \/ Left \/ Right \/ Baseline
      BY <2>1, <2>5 DEF MuteFailClosed, Gain, Left, Right, Baseline, Write
    <2>6. CASE Unity \/ RxUp \/ Done \/ Exit \/ ExitHost \/ ExitMute
      BY <2>1, <2>6 DEF Unity, RxUp, Done, Exit, ExitHost, ExitMute
    <2> QED BY <1>4, <2>2, <2>3, <2>4, <2>5, <2>6 DEF Next, Environment, Daemon
  <1> QED BY <1>1, <1>2, <1>3, <1>4

\* Every step keeps the types of the other variables.
LEMMA RestTyped ==
  ASSUME TypeOK, UserSet, LastKnown, Next
  PROVE  /\ graph' \in {"closed", "prepared", "running"} /\ protected' \in BOOLEAN
         /\ dsp' \in [l : 1 .. Full, r : 1 .. Full, step : 1 .. StepOf(Full), mute : BOOLEAN]
         /\ host' \in Settings /\ vis' \in Settings /\ node' \in 1 .. MaxNodes
         /\ rx' \in BOOLEAN /\ news' \in BOOLEAN
         /\ page' = None \/ page' \in [node : 1 .. MaxNodes, state : UserSettings]
         /\ queue' \in Seq(Events)
  <1>1. /\ graph \in {"closed", "prepared", "running"} /\ protected \in BOOLEAN
        /\ dsp \in [l : 1 .. Full, r : 1 .. Full, step : 1 .. StepOf(Full), mute : BOOLEAN]
        /\ host \in Settings /\ vis \in Settings /\ node \in 1 .. MaxNodes
        /\ rx \in BOOLEAN /\ news \in BOOLEAN
        /\ page = None \/ page \in [node : 1 .. MaxNodes, state : UserSettings]
        /\ queue \in Seq(Events) /\ <<>> \in Seq(Events) /\ <<Partial>> \in Seq(Events)
    BY EventType DEF TypeOK
  <1>2. /\ d.pc # "dead" => d.st \in UserSettings /\ d.st.vol \in Volumes /\ d.st.vol \in 1 .. Full
                            /\ d.st.mute \in BOOLEAN /\ d.node \in 1 .. node
        /\ Full \in 1 .. Full /\ d \in Daemons
    BY DaemonState DEF UserSet
  <1>3. \A e \in Events : PwDump(e) => queue' \in Seq(Events)
    BY Printed
  <1>4. \A s \in Settings, n \in 1 .. MaxNodes : Props(n, s) \in Events
    BY EventType
  <1> USE <1>1
  <1>5. CASE User
    <2>1. PICK s \in [vol : Volumes, mute : BOOLEAN] : vis' = s /\ PwDump(Props(node, s))
      BY <1>5 DEF User
    <2>2. s \in Settings
      BY Levelled DEF Settings
    <2> QED BY <1>5, <2>1, <2>2, <1>3, <1>4 DEF User, pcm
  <1>6. CASE Recreate
    <2>1. node' \in 1 .. MaxNodes /\ vis' \in Settings
      BY <1>6, <1>2, Levelled DEF Recreate, Settings
    <2> QED BY <1>6, <2>1, <1>3, <1>4 DEF Recreate, pcm
  <1>7. CASE Open
    <2>1. protected' \in BOOLEAN
      BY <1>7, VolumeAssumption DEF Open, VolumeAssumption
    <2> QED BY <1>7, <2>1, <1>2, RowType DEF Open, sinks
  <1>8. CASE Trigger \/ Pause \/ Close
    BY <1>8 DEF Trigger, Pause, Close, Pcm, sinks
  <1>9. CASE Announce
    BY <1>9, <1>3, EventType DEF Announce, pcm, sinks
  <1>10. CASE Terminate \/ GuardEnds \/ Look \/ RestoreFails \/ Probe \/ Idle
    BY <1>10 DEF Terminate, GuardEnds, Look, RestoreFails, Probe, Idle, pcm, sinks
  <1>11. CASE Boot \/ Exit
    BY <1>11 DEF Boot, Exit, pcm, sinks
  <1>12. CASE Receive
    BY <1>12, ReceiveDoes, TailEvents DEF Elsewhere
  <1>13. CASE RestoreVol
    <2>1. vis' \in Settings
      BY <1>13, <1>2, RestoreVolDoes DEF Settings
    <2> QED BY <1>13, <2>1, <1>3, <1>4, RestoreVolDoes DEF pcm
  <1>14. CASE RestoreMute
    <2>1. vis' \in Settings
      BY <1>14, <1>2, RestoreMuteDoes DEF Settings
    <2> QED BY <1>14, <2>1, <1>3, <1>4, RestoreMuteDoes DEF pcm
  <1>15. CASE Queue
    <2>1. page' \in [node : 1 .. MaxNodes, state : UserSettings]
      BY <1>15, <1>2, QueueDoes, Levelled
    <2> QED BY <1>15, <2>1, QueueDoes DEF pcm, sinks
  <1>16. CASE RxDown \/ RxUp
    BY <1>16, RxDownDoes, RxUpDoes DEF pcm, sinks
  <1>17. CASE HostVol
    BY <1>17, HostVolDoes DEF Elsewhere, HostIs, Tells
  <1>18. CASE HostMute
    BY <1>18, HostMuteDoes DEF Elsewhere, HostIs, Tells
  <1>19. CASE SkipMute
    BY <1>19, SkipMuteDoes DEF Elsewhere, HostIs, Tells
  <1>20. CASE MuteGone
    BY <1>20, MuteGoneDoes DEF Elsewhere, HostIs, Tells
  <1>21. CASE MuteFailed
    BY <1>21, MuteFailedDoes DEF Elsewhere, HostIs, Tells
  <1>22. CASE MuteFailClosed
    BY <1>22, MuteFailClosedDoes DEF Elsewhere, HostIs, Tells
  <1>23. CASE Gain
    BY <1>23, GainDoes DEF Elsewhere, HostIs, Tells
  <1>24. CASE Unity
    BY <1>24, UnityDoes DEF Elsewhere, HostIs, Tells
  <1>25. CASE Done
    BY <1>25, DoneDoes DEF Elsewhere, HostIs, Tells
  <1>26. CASE ExitHost
    BY <1>26, ExitHostDoes DEF Elsewhere
  <1>27. CASE ExitMute
    BY <1>27, ExitMuteDoes DEF Elsewhere
  <1>28. CASE WriteMute
    <2>1. dsp' = dsp \/ dsp' = [dsp EXCEPT !.mute = d.st.mute]
      BY <1>28, WriteMuteDoes
    <2>2. dsp' \in [l : 1 .. Full, r : 1 .. Full, step : 1 .. StepOf(Full), mute : BOOLEAN]
      BY <1>2, <1>28, <2>1, WriteMuteDoes
    <2> QED BY <1>28, <2>2, WriteMuteDoes DEF sinks
  <1>29. CASE Left
    <2>1. d.last \in 1 .. Full /\ d.last \in Int /\ d.st.vol \in 1 .. Full
      BY <1>2, <1>29, LeftDoes, Levelled DEF LastKnown
    <2>2. MixedRow(d.last, d.st.vol) \in 1 .. StepOf(Full) /\ dsp.step \in 1 .. StepOf(Full)
      BY <2>1, RowType DEF MixedRow, Greater
    <2>3. PICK row \in 1 .. StepOf(Full) : dsp' \in {dsp, Sound(d.st.vol, d.last, row)}
      BY <1>29, <2>2, LeftDoes DEF Gone, Failed
    <2>4. Sound(d.st.vol, d.last, row) \in [l : 1 .. Full, r : 1 .. Full, step : 1 .. StepOf(Full), mute : BOOLEAN]
      BY <2>1, SoundType
    <2> QED BY <1>29, <2>3, <2>4, LeftDoes DEF sinks
  <1>30. CASE Right
    <2>1. d.st.vol \in 1 .. Full /\ StepOf(d.st.vol) \in 1 .. StepOf(Full) /\ dsp.step \in 1 .. StepOf(Full)
      BY <1>2, <1>30, RightDoes, RowType
    <2>2. PICK row \in 1 .. StepOf(Full) : dsp' \in {dsp, Sound(d.st.vol, d.st.vol, row)}
      BY <1>30, <2>1, RightDoes DEF Gone, Failed
    <2>3. Sound(d.st.vol, d.st.vol, row) \in [l : 1 .. Full, r : 1 .. Full, step : 1 .. StepOf(Full), mute : BOOLEAN]
      BY <2>1, SoundType
    <2> QED BY <1>30, <2>2, <2>3, RightDoes DEF sinks
  <1>31. CASE Baseline
    <2>1. d.st.vol \in 1 .. Full /\ StepOf(d.st.vol) \in 1 .. StepOf(Full) /\ dsp.step \in 1 .. StepOf(Full)
      BY <1>2, <1>31, BaselineDoes, RowType
    <2>2. PICK row \in 1 .. StepOf(Full) : dsp' \in {dsp, Sound(d.st.vol, d.st.vol, row)}
      BY <1>31, <2>1, BaselineDoes DEF Gone, Failed
    <2>3. Sound(d.st.vol, d.st.vol, row) \in [l : 1 .. Full, r : 1 .. Full, step : 1 .. StepOf(Full), mute : BOOLEAN]
      BY <2>1, SoundType
    <2> QED BY <1>31, <2>2, <2>3, BaselineDoes DEF sinks
  <1> QED BY <1>5, <1>6, <1>7, <1>8, <1>9, <1>10, <1>11, <1>12, <1>13, <1>14, <1>15, <1>16, <1>17,
              <1>18, <1>19, <1>20, <1>21, <1>22, <1>23, <1>24, <1>25, <1>26, <1>27, <1>28, <1>29,
              <1>30, <1>31 DEF Next, Environment, Daemon

\* Types are kept.
LEMMA TypeNext ==
  ASSUME TypeOK, UserSet, LastKnown, Next
  PROVE  TypeOK'
  <1>1. lapse' \in SUBSET Lapses
    BY LapseDoes DEF TypeOK, Lapses
  <1> QED BY <1>1, DaemonTyped, RestTyped DEF TypeOK

\* The last volume is known as long as it is relied on.
LEMMA LastKnownNext ==
  ASSUME TypeOK, UserSet, LastKnown, Next
  PROVE  LastKnown'
  <1> USE DEF LastKnown, Taken, Kept, Fields
  <1>1. CASE User \/ Recreate \/ Open \/ Trigger \/ Pause \/ Close \/ Announce
    BY <1>1 DEF User, Recreate, Open, Trigger, Pause, Close, Pcm, Announce
  <1>2. CASE Terminate \/ RestoreFails \/ GuardEnds
    BY <1>2, TerminateDoes, RestoreFailsDoes, GuardDoes
  <1>3. CASE Boot
    BY <1>3, BootDoes
  <1>4. CASE Receive \/ Look \/ RestoreVol \/ RestoreMute
    BY <1>4, ReceiveDoes, LookDoes, RestoreVolDoes, RestoreMuteDoes
  <1>5. CASE Queue \/ RxDown \/ RxUp
    BY <1>5, QueueDoes, RxDownDoes, RxUpDoes
  <1>6. CASE Probe \/ Idle
    BY <1>6, ProbeDoes, IdleDoes
  <1>7. CASE HostVol \/ HostMute \/ ExitHost
    BY <1>7, HostVolDoes, HostMuteDoes, ExitHostDoes
  <1>8. CASE WriteMute \/ SkipMute \/ MuteGone
    BY <1>8, WriteMuteDoes, SkipMuteDoes, MuteGoneDoes
  <1>9. CASE MuteFailed \/ MuteFailClosed \/ Gain
    BY <1>9, MuteFailedDoes, MuteFailClosedDoes, GainDoes
  <1>10. CASE Left \/ Baseline
    BY <1>10, LeftDoes, BaselineDoes DEF Gone, Failed
  <1>11. CASE Right \/ Unity
    <2>1. d.st.vol \in Volumes
      BY <1>11, DaemonState, RightDoes, UnityDoes
    <2> QED BY <1>11, <2>1, RightDoes, UnityDoes DEF Gone, Failed
  <1>12. CASE Done
    BY <1>12, DoneDoes
  <1>13. CASE Exit \/ ExitMute
    BY <1>13, ExitDoes, ExitMuteDoes, FreshDoes
  <1> QED BY <1>1, <1>2, <1>3, <1>4, <1>5, <1>6, <1>7, <1>8, <1>9, <1>10, <1>11, <1>12, <1>13
           DEF Next, Environment, Daemon

\* Nobody but HostVol begins a hand-over, nobody disturbs it.
LEMMA HandedNext ==
  ASSUME TypeOK, UserSet, LastKnown, Handed, Next
  PROVE  Handed'
  <1> USE DEF Handed, Kept, Fields
  <1>1. CASE User \/ Recreate \/ Open \/ Trigger \/ Pause \/ Close \/ Announce
    BY <1>1 DEF User, Recreate, Open, Trigger, Pause, Close, Pcm, Announce, sinks
  <1>2. CASE Terminate \/ RestoreFails \/ GuardEnds
    BY <1>2, TerminateDoes, RestoreFailsDoes, GuardDoes
  <1>3. CASE Boot \/ Receive \/ Look \/ RestoreVol \/ RestoreMute
    BY <1>3, BootDoes, ReceiveDoes, LookDoes, RestoreVolDoes, RestoreMuteDoes
  <1>4. CASE Queue \/ RxDown \/ RxUp \/ Probe \/ Idle
    BY <1>4, QueueDoes, RxDownDoes, RxUpDoes, ProbeDoes, IdleDoes
  <1>5. CASE HostVol
    BY <1>5, HostVolDoes DEF HostIs
  <1>6. CASE HostMute \/ ExitHost
    BY <1>6, HostMuteDoes, ExitHostDoes
  <1>7. CASE WriteMute \/ SkipMute \/ MuteGone
    BY <1>7, WriteMuteDoes, SkipMuteDoes, MuteGoneDoes
  <1>8. CASE MuteFailed \/ MuteFailClosed \/ Gain
    BY <1>8, MuteFailedDoes, MuteFailClosedDoes, GainDoes
  <1>9. CASE Left \/ Baseline \/ Right
    BY <1>9, LeftDoes, BaselineDoes, RightDoes DEF Gone, Failed
  <1>10. CASE Unity \/ Done
    BY <1>10, UnityDoes, DoneDoes
  <1>11. CASE Exit \/ ExitMute
    BY <1>11, ExitDoes, ExitMuteDoes, FreshDoes
  <1> QED BY <1>1, <1>2, <1>3, <1>4, <1>5, <1>6, <1>7, <1>8, <1>9, <1>10, <1>11
           DEF Next, Environment, Daemon

-----------------------------------------------------------------------------
\* The daemon's setting, and how it learns of a new one.

\* A step in the middle of a reaction: the setting, the node and what the
\* daemon is still to read stay, but for the news of its own changes.
Proceeds ==
    /\ d.pc # "dead" /\ d'.pc \notin {"dead", "restoreVol", "restoreMute"}
    /\ d.pc \notin Exiting \cup Finding \/ d'.pc \in Exiting
    /\ Kept({"pc", "last", "lastMute", "lastHost", "active", "muteGone", "txGone", "rxActive"})
    /\ vis' = vis /\ node' = node /\ Tells

Proceeding ==
    \/ Queue \/ Probe \/ RxDown \/ Idle \/ HostVol \/ HostMute
    \/ WriteMute \/ SkipMute \/ MuteGone \/ MuteFailed \/ MuteFailClosed
    \/ Gain \/ Left \/ Right \/ Baseline \/ Unity \/ RxUp \/ Done
    \/ RestoreFails \/ Terminate \/ ExitHost \/ (Exit /\ d' # Fresh)

\* The steps in the middle of a reaction are such.
LEMMA Proceeded ==
  ASSUME TypeOK, UserSet, Proceeding
  PROVE  Proceeds
  <1>1. UNCHANGED queue => Tells
    BY DEF TypeOK, Tells
  <1> USE DEF Proceeds, Kept, Fields, Exiting, Finding
  <1>2. CASE Terminate \/ RestoreFails \/ ExitHost \/ (Exit /\ d' # Fresh)
    BY <1>1, <1>2, TerminateDoes, RestoreFailsDoes, ExitHostDoes, ExitDoes DEF Elsewhere, sinks,
       Terminate, RestoreFails
  <1>3. CASE Queue \/ RxDown \/ RxUp
    BY <1>1, <1>3, QueueDoes, RxDownDoes, RxUpDoes DEF sinks
  <1>4. CASE Probe \/ Idle
    BY <1>1, <1>4, ProbeDoes, IdleDoes DEF Elsewhere
  <1>5. CASE HostVol \/ HostMute
    BY <1>5, HostVolDoes, HostMuteDoes DEF Elsewhere, HostIs
  <1>6. CASE SkipMute \/ MuteGone
    BY <1>6, SkipMuteDoes, MuteGoneDoes DEF Elsewhere, HostIs
  <1>7. CASE WriteMute
    BY <1>1, <1>7, WriteMuteDoes DEF sinks
  <1>8. CASE MuteFailed \/ MuteFailClosed \/ Gain
    BY <1>8, MuteFailedDoes, MuteFailClosedDoes, GainDoes DEF Elsewhere, HostIs
  <1>9. CASE Left \/ Baseline
    BY <1>1, <1>9, LeftDoes, BaselineDoes DEF sinks, Gone, Failed
  <1>10. CASE Right
    BY <1>1, <1>10, RightDoes DEF sinks, Gone, Failed
  <1>11. CASE Unity \/ Done
    BY <1>11, UnityDoes, DoneDoes DEF Elsewhere, HostIs
  <1> QED BY <1>2, <1>3, <1>4, <1>5, <1>6, <1>7, <1>8, <1>9, <1>10, <1>11 DEF Proceeding

\* What an event in the queue may be, given what the daemon knows.
Lawful(e) == /\ e.kind = "props" => e.node <= node
             /\ Transient(e) => d.guard

\* The transient unity of a new node never becomes the daemon's setting.
LEMMA UserSetNext ==
  ASSUME TypeOK, UserSet, LastKnown, Next
  PROVE  UserSet'
  <1>0. TypeOK' /\ queue \in Seq(Events) /\ node \in Nat
    BY TypeNext, Levelled DEF TypeOK
  <1>1. /\ d.pc = "dead" => d = Fresh /\ queue = <<>>
        /\ d.pc # "dead" => d.st \in UserSettings /\ d.node \in 1 .. node
        /\ d.pc \in {"restoreVol", "restoreMute"} => d.found \in 1 .. node
        /\ d.node = node \/ (d.pc = "restoreMute" /\ d.found = node) => vis.vol # Full
        /\ \A i \in 1 .. Len(queue) : Lawful(queue[i])
    BY DEF UserSet, Lawful
  <1>p. Partial.kind = "partial"
    BY DEF Partial
  <1>2. CASE Proceeding
    <2>1. Proceeds
      BY <1>2, Proceeded
    <2>2. d'.node = d.node /\ d'.st = d.st /\ d'.guard = d.guard
      BY <2>1 DEF Proceeds, Kept, Fields
    <2>3. \A i \in 1 .. Len(queue') : Lawful(queue'[i])
      BY <1>0, <1>1, <1>p, <2>1, EventType, AppendEvents DEF Proceeds, Tells, Lawful, Transient
    <2> QED BY <1>1, <2>1, <2>2, <2>3 DEF UserSet, Lawful, Transient, Proceeds
  <1>3. CASE Open \/ Trigger \/ Pause \/ Close
    <2>1. UNCHANGED <<d, queue, vis, node>>
      BY <1>3 DEF Open, Trigger, Pause, Close, Pcm, sinks
    <2> QED BY <2>1 DEF UserSet, Transient
  <1>4. CASE Announce
    <2>1. UNCHANGED <<d, vis, node>> /\ PwDump(Partial)
      BY <1>4 DEF Announce, sinks
    <2>2. \A i \in 1 .. Len(queue') : Lawful(queue'[i])
      BY <1>0, <1>1, <1>p, <2>1, Printed, EventType, AppendEvents DEF Lawful, Transient
    <2>3. d.pc = "dead" => queue' = queue
      BY <2>1, Printed, EventType
    <2> QED BY <1>1, <2>1, <2>2, <2>3 DEF UserSet, Lawful, Transient
  <1>5. CASE User
    <2>1. PICK s \in [vol : Volumes, mute : BOOLEAN] : vis' = s /\ PwDump(Props(node, s))
      BY <1>5 DEF User
    <2>2. s \in Settings /\ s.vol # Full /\ node \in 1 .. MaxNodes /\ UNCHANGED <<d, node>>
      BY <1>5, Levelled DEF Settings, User, TypeOK
    <2>3. Props(node, s) \in Events
      BY <2>2, EventType
    <2>4. Lawful(Props(node, s))
      BY <1>0, <2>2 DEF Lawful, Transient, Props
    <2>5. \A i \in 1 .. Len(queue') : Lawful(queue'[i])
      BY <1>0, <1>1, <2>1, <2>3, <2>4, Printed, AppendEvents
    <2>6. d.pc = "dead" => queue' = queue
      BY <2>1, <2>3, Printed
    <2> QED BY <1>1, <2>1, <2>2, <2>5, <2>6 DEF UserSet, Lawful, Transient
  <1>6. CASE Recreate
    <2>1. /\ node' = node + 1 /\ node' \in 1 .. MaxNodes /\ vis' \in Settings /\ UNCHANGED d
          /\ PwDump(Props(node', vis'))
      BY <1>0, <1>6 DEF Recreate, TypeOK
    <2>2. Props(node', vis') \in Events
      BY <2>1, EventType
    <2>3. d.pc = "dead" => queue' = queue
      BY <2>1, <2>2, Printed
    <2>4. d.pc # "dead" => \A i \in 1 .. Len(queue') :
             /\ queue'[i].kind = "props" => queue'[i].node <= node'
             /\ Transient(queue'[i]) => d.guard
      <3>1. SUFFICES ASSUME d.pc # "dead"
                     PROVE  \A i \in 1 .. Len(queue') :
                                /\ queue'[i].kind = "props" => queue'[i].node <= node'
                                /\ Transient(queue'[i]) => d.guard
        OBVIOUS
      <3>2. queue' = Append(queue, Props(node', vis')) /\ d.node # node'
        BY <1>0, <1>1, <2>1, <2>2, <3>1, Printed, EventType
      <3>3. \A i \in 1 .. Len(queue) : queue[i].kind = "props" => queue[i].node \in Nat /\ queue[i].node <= node
        BY <1>0, <1>1, <1>p, ElementOfSeq DEF Lawful, Events
      <3> QED BY <1>0, <1>1, <2>1, <2>2, <3>2, <3>3, AppendEvents DEF Lawful, Transient, Props
    <2>5. d.node # node' /\ (d.pc \in {"restoreVol", "restoreMute"} => d.found # node')
      BY <1>0, <1>1, <2>1, Levelled DEF Fresh
    <2> QED BY <1>0, <1>1, <2>1, <2>3, <2>4, <2>5 DEF UserSet, Transient
  <1>7. CASE Boot
    <2>1. /\ d'.pc = "queue" /\ d'.st \in UserSettings /\ d'.node = node /\ d'.guard /\ vis.vol # Full
          /\ queue' = <<Partial>> /\ UNCHANGED <<vis, node>>
      BY <1>7, BootDoes, Levelled DEF Elsewhere, TypeOK, Settings, UserSettings
    <2>2. Len(queue') = 1 /\ queue'[1] = Partial
      BY <2>1
    <2> QED BY <1>0, <1>p, <2>1, <2>2 DEF UserSet, TypeOK, Transient
  <1>8. CASE GuardEnds
    <2>1. queue' = <<>> /\ UNCHANGED <<vis, node>> /\ d.pc = "wait" /\ d'.pc = d.pc /\ d'.st = d.st /\ d'.node = d.node
      BY <1>8, GuardDoes DEF Elsewhere, Kept, Fields
    <2> QED BY <1>1, <2>1 DEF UserSet
  <1>9. CASE Receive
    <2>1. /\ d.pc = "wait" /\ queue # <<>> /\ queue' = Tail(queue) /\ UNCHANGED <<vis, node>>
          /\ d'.node = d.node /\ d'.guard = d.guard
      BY <1>9, ReceiveDoes DEF Elsewhere, Kept, Fields
    <2>2. \A i \in 1 .. Len(queue') : Lawful(queue'[i])
      BY <1>0, <1>1, <2>1, TailEvents
    <2>3. queue[1] \in Events /\ Lawful(queue[1])
      BY <1>0, <1>1, <2>1, TailEvents
    <2>4. queue[1].kind = "props" => queue[1].node \in 1 .. node /\ queue[1].state \in Settings
      BY <1>0, <1>p, <2>3 DEF Lawful, Events
    <2>5. d'.pc = "restoreVol" => d'.found \in 1 .. node
      BY <1>9, <2>4, ReceiveDoes
    <2>6. d'.st \in UserSettings
      <3>1. CASE /\ d'.st = queue[1].state /\ queue[1].kind = "props" /\ queue[1].node = d.node
                 /\ ~d.guard
        BY <2>3, <2>4, <3>1, Levelled DEF Lawful, Transient, Settings, UserSettings
      <3> QED BY <1>1, <1>9, <2>1, <3>1, ReceiveDoes
    <2>7. d'.pc \in {"restoreVol", "look", "queue"}
      BY <1>9, ReceiveDoes
    <2> QED BY <1>1, <2>1, <2>2, <2>5, <2>6, <2>7 DEF UserSet, Lawful, Transient
  <1>10. CASE Look
    <2>1. /\ d.pc = "look" /\ UNCHANGED <<vis, node, queue>> /\ d'.node = d.node /\ d'.guard = d.guard
          /\ \/ d'.pc = "restoreVol" /\ d'.found = node /\ d'.st = d.st
             \/ d'.pc = "queue" /\ d'.st = vis /\ node = d.node
      BY <1>10, LookDoes DEF Elsewhere, Kept, Fields
    <2>2. d'.st \in UserSettings /\ (d'.pc = "restoreVol" => d'.found \in 1 .. node)
      BY SMTT(60), <1>0, <1>1, <2>1, Levelled DEF TypeOK, Settings, UserSettings
    <2> QED BY <1>1, <2>1, <2>2 DEF UserSet, Lawful, Transient
  <1>11. CASE RestoreVol
    <2>1. /\ d.pc = "restoreVol" /\ d'.pc = "restoreMute" /\ d'.found = d.found /\ d'.st = d.st
          /\ d'.node = d.node /\ d'.guard = d.guard /\ node' = node
          /\ vis' = [vis EXCEPT !.vol = d.st.vol] /\ PwDump(Props(node, vis'))
      BY <1>11, RestoreVolDoes DEF Kept, Fields
    <2>2. vis'.vol # Full /\ vis' \in Settings /\ node \in 1 .. MaxNodes
      BY <1>0, <2>1, DaemonState, Levelled DEF TypeOK, Settings
    <2>3. Props(node, vis') \in Events /\ Lawful(Props(node, vis'))
      BY <1>0, <2>2, EventType DEF Lawful, Transient, Props
    <2>4. \A i \in 1 .. Len(queue') : Lawful(queue'[i])
      BY SMTT(60), <1>0, <1>1, <2>1, <2>3, Printed, AppendEvents
    <2> QED BY <1>1, <2>1, <2>2, <2>4 DEF UserSet, Lawful, Transient
  <1>12. CASE RestoreMute
    <2>1. /\ d.pc = "restoreMute" /\ d.found = node /\ d'.pc = "queue" /\ d'.st = d.st
          /\ d'.node = node /\ d'.guard /\ node' = node
          /\ vis' = [vis EXCEPT !.mute = d.st.mute] /\ PwDump(Props(node, vis'))
      BY <1>12, RestoreMuteDoes DEF Kept, Fields
    <2>2. vis'.vol # Full /\ vis' \in Settings /\ node \in 1 .. MaxNodes
      BY <1>0, <1>1, <2>1 DEF TypeOK, Settings
    <2>3. Props(node, vis') \in Events /\ Props(node, vis').node = node
      BY <2>2, EventType DEF Props
    <2>4. \A i \in 1 .. Len(queue') : queue'[i].kind = "props" => queue'[i].node <= node
      BY <1>0, <1>1, <2>1, <2>3, Printed, AppendEvents DEF Lawful
    <2> QED BY <1>1, <2>1, <2>2, <2>4 DEF UserSet
  <1>13. CASE ExitMute \/ (Exit /\ d' = Fresh)
    <2>1. d' = Fresh /\ queue' = <<>> /\ d'.pc = "dead" /\ d'.node = 0
      BY <1>13, ExitMuteDoes, ExitDoes, FreshDoes
    <2>2. node' \in 1 .. MaxNodes
      BY <1>0 DEF TypeOK
    <2> QED BY <2>1, <2>2 DEF UserSet
  <1> QED BY <1>2, <1>3, <1>4, <1>5, <1>6, <1>7, <1>8, <1>9, <1>10, <1>11, <1>12, <1>13
           DEF Next, Environment, Daemon, Proceeding

\* A partial event says nothing of the setting.
LEMMA SaidPartial ==
  ASSUME NEW q \in Seq(Events), NEW e
  PROVE  /\ Silent(Append(q, Partial)) => Silent(q)
         /\ Said(q, e) => Said(Append(q, Partial), e)
  <1>1. /\ Len(q) \in Nat /\ Len(Append(q, Partial)) = Len(q) + 1
        /\ \A i \in 1 .. Len(q) : i \in 1 .. Len(q) + 1 /\ Append(q, Partial)[i] = q[i]
        /\ Append(q, Partial)[Len(q) + 1] = Partial
    BY AppendEvents, EventType
  <1>2. Silent(Append(q, Partial)) => Silent(q)
    BY <1>1 DEF Silent
  <1>3. ASSUME Said(q, e), NEW i \in 1 .. Len(q) + 1, Append(q, Partial)[i] # Partial,
               \A j \in i + 1 .. Len(q) + 1 : Append(q, Partial)[j] = Partial
        PROVE  Append(q, Partial)[i] = e
    <2>1. i \in 1 .. Len(q) /\ q[i] # Partial /\ Append(q, Partial)[i] = q[i]
      BY <1>1, <1>3
    <2>2. \A j \in i + 1 .. Len(q) : q[j] = Partial
      BY <1>1, <1>3, <2>1
    <2> QED BY <1>3, <2>1, <2>2 DEF Said
  <1> QED BY <1>1, <1>2, <1>3 DEF Said

\* A complete event has the last word.
LEMMA SaidWhole ==
  ASSUME NEW q \in Seq(Events), NEW e \in Events, e # Partial
  PROVE  ~Silent(Append(q, e)) /\ Said(Append(q, e), e)
  <1>1. /\ Len(q) \in Nat /\ Len(Append(q, e)) = Len(q) + 1
        /\ Append(q, e)[Len(q) + 1] = e
    BY AppendEvents
  <1>2. Len(q) + 1 \in 1 .. Len(q) + 1
    BY <1>1
  <1>3. \A i \in 1 .. Len(q) + 1 : i # Len(q) + 1 => Len(q) + 1 \in i + 1 .. Len(q) + 1
    BY <1>1
  <1> QED BY <1>1, <1>2, <1>3 DEF Silent, Said

\* Reading a line leaves what the others say; reading the last complete one is knowing it.
LEMMA SaidTail ==
  ASSUME NEW q \in Seq(Events), q # << >>, NEW e, Said(q, e)
  PROVE  /\ Said(Tail(q), e)
         /\ Silent(Tail(q)) => (q[1] = Partial /\ Silent(q)) \/ (q[1] # Partial /\ q[1] = e)
  <1>1. /\ Len(q) \in Nat \ {0} /\ Len(Tail(q)) = Len(q) - 1
        /\ \A i \in 1 .. Len(q) - 1 : i + 1 \in 1 .. Len(q) /\ Tail(q)[i] = q[i + 1]
    BY TailEvents
  <1>2. ASSUME NEW i \in 1 .. Len(q) - 1, Tail(q)[i] # Partial,
               \A j \in i + 1 .. Len(q) - 1 : Tail(q)[j] = Partial
        PROVE  Tail(q)[i] = e
    <2>1. i + 1 \in 1 .. Len(q) /\ q[i + 1] # Partial
      BY <1>1, <1>2
    <2>2. \A j \in (i + 1) + 1 .. Len(q) : j - 1 \in i + 1 .. Len(q) - 1 /\ q[j] = Tail(q)[j - 1]
      BY <1>1
    <2> QED BY <1>1, <1>2, <2>1, <2>2 DEF Said
  <1>3. ASSUME Silent(Tail(q))
        PROVE  \A j \in 2 .. Len(q) : q[j] = Partial
    <2>1. \A j \in 2 .. Len(q) : j - 1 \in 1 .. Len(q) - 1 /\ q[j] = Tail(q)[j - 1]
      BY <1>1
    <2> QED BY <1>1, <1>3, <2>1 DEF Silent
  <1>4. ASSUME Silent(Tail(q)), q[1] = Partial
        PROVE  Silent(q)
    BY <1>1, <1>3, <1>4 DEF Silent
  <1>5. ASSUME Silent(Tail(q)), q[1] # Partial
        PROVE  q[1] = e
    BY <1>1, <1>3, <1>5 DEF Said
  <1> QED BY <1>1, <1>2, <1>4, <1>5 DEF Said

\* Whatever becomes of the sinks, the daemon knows of the user's setting or is
\* about to read it.
LEMMA InformedNext ==
  ASSUME TypeOK, UserSet, LastKnown, Informed, Next
  PROVE  Informed'
  <1>0. TypeOK' /\ UserSet' /\ queue \in Seq(Events) /\ (d.pc = "dead" => queue = <<>>) /\ node \in 1 .. MaxNodes
    BY TypeNext, UserSetNext DEF TypeOK, UserSet
  <1>1. /\ Said(queue, Props(node, vis))
        /\ Silent(queue) /\ d.pc \notin Exiting \cup Finding => d.st = vis /\ d.node = node
    BY DEF Informed
  <1>2. ASSUME queue' = queue \/ queue' = Append(queue, Partial), node' = node, vis' = vis,
               d'.pc \notin Exiting \cup Finding => d'.st = d.st /\ d'.node = d.node
                                                   /\ d.pc \notin Exiting \cup Finding
        PROVE  Informed'
    <2>1. Said(queue', Props(node', vis')) /\ (Silent(queue') => Silent(queue))
      BY <1>0, <1>1, <1>2, SaidPartial
    <2> QED BY <1>1, <1>2, <2>1 DEF Informed
  <1>3. ASSUME PwDump(Props(node', vis')), d'.pc \in Exiting \/ d.pc # "dead"
        PROVE  Informed'
    <2>1. /\ Props(node', vis') \in Events /\ Props(node', vis') # Partial
          /\ d.pc = "dead" => queue' = <<>>
          /\ d.pc # "dead" => queue' = Append(queue, Props(node', vis'))
      BY <1>0, <1>3, EventType, Printed DEF TypeOK
    <2>2. CASE d.pc = "dead"
      <3>1. queue' = <<>> /\ d'.pc \in Exiting /\ Len(queue') = 0
        BY <1>3, <2>1, <2>2
      <3> QED BY <3>1 DEF Informed, Said, Silent
    <2>3. CASE d.pc # "dead"
      BY <1>0, <2>1, <2>3, SaidWhole DEF Informed
    <2> QED BY <2>2, <2>3
  <1>4. CASE Proceeding
    BY <1>2, <1>4, Proceeded DEF Proceeds, Tells, Kept, Fields
  <1>5. CASE Open \/ Trigger \/ Pause \/ Close
    BY <1>2, <1>5 DEF Open, Trigger, Pause, Close, Pcm, sinks
  <1>6. CASE Announce
    BY <1>2, <1>6, Printed, EventType DEF Announce, sinks
  <1>7. CASE User
    <2>1. PwDump(Props(node', vis')) /\ d' = d
      BY <1>7 DEF User
    <2> QED BY <1>3, <2>1 DEF Exiting
  <1>8. CASE Recreate
    BY <1>3, <1>8 DEF Recreate, Exiting
  <1>9. CASE Boot
    <2>1. /\ d'.st = vis /\ d'.node = node /\ vis' = vis /\ node' = node
          /\ queue' = <<Partial>> /\ Len(queue') = 1 /\ queue'[1] = Partial
      BY <1>9, BootDoes DEF Elsewhere
    <2> QED BY <2>1 DEF Informed, Said
  <1>10. CASE GuardEnds
    BY <1>2, <1>10, GuardDoes DEF Elsewhere, Kept, Fields
  <1>11. CASE Receive
    <2>1. /\ d.pc = "wait" /\ queue # <<>> /\ queue' = Tail(queue) /\ vis' = vis /\ node' = node
          /\ d'.node = d.node
          /\ \/ d'.pc \in {"restoreVol", "look"}
             \/ d'.st = queue[1].state /\ queue[1].kind = "props" /\ queue[1].node = d.node
      BY <1>11, ReceiveDoes DEF Elsewhere, Kept, Fields
    <2>2. Said(queue', Props(node', vis'))
      BY <1>0, <1>1, <2>1, SaidTail
    <2>3. ASSUME Silent(queue'), d'.pc \notin {"restoreVol", "look"}
          PROVE  d'.st = vis /\ d'.node = node
      BY <1>0, <1>1, <2>1, <2>3, SaidTail DEF Partial, Props
    <2> QED BY <2>1, <2>2, <2>3 DEF Informed, Finding
  <1>12. CASE Look
    BY <1>1, <1>12, LookDoes DEF Informed, Finding, Elsewhere, Kept, Fields
  <1>13. CASE RestoreVol \/ RestoreMute
    BY <1>3, <1>13, RestoreVolDoes, RestoreMuteDoes
  <1>14. CASE ExitMute \/ (Exit /\ d' = Fresh)
    <2>1. queue' = <<>> /\ Len(queue') = 0 /\ d'.pc = "dead"
      BY <1>14, ExitMuteDoes, ExitDoes, FreshDoes
    <2> QED BY <2>1 DEF Informed, Said, Silent, Exiting
  <1> QED BY <1>4, <1>5, <1>6, <1>7, <1>8, <1>9, <1>10, <1>11, <1>12, <1>13, <1>14
           DEF Next, Environment, Daemon, Proceeding

-----------------------------------------------------------------------------
\* What the daemon believes.

\* The environment's actions, as the daemon's belief sees them.
LEMMA EnvDoes ==
  ASSUME TypeOK, User \/ Recreate
  PROVE  /\ UNCHANGED <<graph, protected, dsp, host, rx, page, news, d>>
         /\ d.pc # "dead" \/ queue # <<>> => queue' # <<>>
  <1>1. PICK e : PwDump(e) /\ UNCHANGED <<graph, protected, dsp, host, rx, page, news, d>>
    BY DEF User, Recreate, pcm
  <1>2. queue' = IF d.pc = "dead" \/ Repeats(e) THEN queue ELSE Append(queue, e)
    BY <1>1 DEF PwDump
  <1>3. CASE d.pc = "dead" \/ Repeats(e)
    BY <1>1, <1>2, <1>3 DEF Repeats
  <1>4. CASE ~(d.pc = "dead" \/ Repeats(e))
    <2>1. queue' = Append(queue, e)
      BY <1>2, <1>4
    <2>2. Len(Append(queue, e)) = Len(queue) + 1 /\ Len(queue) \in Nat /\ Len(<<>>) = 0
      BY DEF TypeOK
    <2>3. Append(queue, e) # <<>>
      BY <2>2
    <2> QED BY <1>1, <2>1, <2>3
  <1> QED BY <1>3, <1>4

LEMMA OpenDoes ==
  ASSUME TypeOK, Watched, Open
  PROVE  /\ graph = "closed" /\ graph' = "prepared"
         /\ d.pc = "dead" \/ (d.pc = "wait" /\ ~Pending)
         /\ dsp'.l = Full /\ dsp'.r = Full /\ dsp'.step = StepOf(Full) /\ ~dsp'.mute
         /\ UNCHANGED <<host, vis, node, rx, page, news, queue, d>>
  BY DEF Watched, Aware, Open, Quiet, Pending, sinks

LEMMA PcmDoes ==
  ASSUME Trigger \/ Pause \/ Close
  PROVE  /\ graph # "closed" /\ news' = TRUE
         /\ UNCHANGED <<protected, dsp, host, vis, node, rx, page, queue, d>>
  BY DEF Trigger, Pause, Close, Pcm, sinks

LEMMA AnnounceDoes ==
  ASSUME TypeOK, Announce
  PROVE  /\ news /\ UNCHANGED <<graph, protected, dsp, host, vis, node, rx, page, d>>
         /\ d.pc # "dead" \/ queue # <<>> => queue' # <<>>
  BY Printed, EventType DEF Announce, pcm, sinks

\* A restored control is printed.
LEMMA RestoreNews ==
  ASSUME TypeOK, UserSet, d.pc \in {"restoreVol", "restoreMute"}, vis' \in Settings,
         PwDump(Props(node, vis'))
  PROVE  queue' # <<>>
  BY Printed, EventType DEF TypeOK

LEMMA RestoredType ==
  ASSUME TypeOK, UserSet, LastKnown, RestoreVol \/ RestoreMute
  PROVE  vis' \in Settings
  BY TypeNext DEF Next, Daemon, TypeOK

\* The fields of the DSP after a write.
LEMMA Sounds ==
  ASSUME TypeOK
  PROVE  \A l, r, row : /\ Sound(l, r, row).l = l /\ Sound(l, r, row).r = r
                        /\ Sound(l, r, row).step = row /\ Sound(l, r, row).mute = dsp.mute
  BY DEF TypeOK, Sound

\* Settings are equal when volume and mute are.
LEMMA SameSetting ==
  ASSUME NEW a \in Settings, NEW b \in UserSettings, a.vol = b.vol, a.mute = b.mute
  PROVE  a = b
  BY DEF Settings, UserSettings

\* A daemon that acts on a graph has seen it running, or is to hear that it is not.
LEMMA LooksNext ==
  ASSUME TypeOK, UserSet, LastKnown, Belief, Watched, Next
  PROVE  Looks'
  <1> USE DEF Belief, Looks, InCharge, Pending, Kept, Fields
  <1>1. CASE User \/ Recreate
    BY <1>1, EnvDoes
  <1>2. CASE Open
    BY <1>2, OpenDoes
  <1>3. CASE Trigger \/ Pause \/ Close
    BY <1>3, PcmDoes
  <1>4. CASE Announce
    BY <1>4, AnnounceDoes
  <1>5. CASE Terminate \/ RestoreFails
    BY <1>5, TerminateDoes, RestoreFailsDoes DEF Elsewhere
  <1>6. CASE Boot
    BY <1>6, BootDoes DEF Elsewhere
  <1>7. CASE GuardEnds
    BY <1>7, GuardDoes DEF Elsewhere
  <1>8. CASE Receive
    BY <1>8, ReceiveDoes DEF Elsewhere
  <1>9. CASE Look
    BY <1>9, LookDoes DEF Elsewhere
  <1>10. CASE RestoreVol
    BY <1>10, RestoreVolDoes, RestoreNews, RestoredType DEF pcm
  <1>11. CASE RestoreMute
    BY <1>11, RestoreMuteDoes, RestoreNews, RestoredType DEF pcm
  <1>12. CASE Queue
    BY <1>12, QueueDoes DEF pcm, sinks
  <1>13. CASE Probe
    BY <1>13, ProbeDoes DEF Elsewhere
  <1>14. CASE RxDown \/ RxUp
    BY <1>14, RxDownDoes, RxUpDoes DEF pcm, sinks
  <1>15. CASE Idle
    BY <1>15, IdleDoes DEF Elsewhere
  <1>16. CASE HostVol
    BY <1>16, HostVolDoes DEF Elsewhere, HostIs, Tells
  <1>17. CASE HostMute
    BY <1>17, HostMuteDoes DEF Elsewhere, HostIs, Tells
  <1>18. CASE WriteMute
    BY <1>18, WriteMuteDoes DEF sinks, NoDevice
  <1>19. CASE SkipMute
    BY <1>19, SkipMuteDoes DEF Elsewhere, HostIs, Tells
  <1>20. CASE MuteGone
    BY <1>20, MuteGoneDoes DEF Elsewhere, HostIs, Tells
  <1>21. CASE MuteFailed
    BY <1>21, MuteFailedDoes DEF Elsewhere, HostIs, Tells
  <1>22. CASE MuteFailClosed
    BY <1>22, MuteFailClosedDoes DEF Elsewhere, HostIs, Tells
  <1>23. CASE Gain
    BY <1>23, GainDoes DEF Elsewhere, HostIs, Tells
  <1>24. CASE Left
    BY <1>24, LeftDoes, Sounds DEF sinks, NoDevice, Gone, Failed
  <1>25. CASE Right
    BY <1>25, RightDoes, Sounds DEF sinks, NoDevice, Gone, Failed
  <1>26. CASE Baseline
    BY <1>26, BaselineDoes, Sounds DEF sinks, NoDevice, Gone, Failed
  <1>27. CASE Unity
    BY <1>27, UnityDoes DEF Elsewhere, HostIs, Tells
  <1>28. CASE Done
    BY <1>28, DoneDoes DEF Elsewhere, HostIs, Tells
  <1>29. CASE Exit
    BY <1>29, ExitDoes, FreshDoes DEF pcm, sinks
  <1>30. CASE ExitHost
    BY <1>30, ExitHostDoes DEF Elsewhere
  <1>31. CASE ExitMute
    BY <1>31, ExitMuteDoes, FreshDoes DEF Elsewhere
  <1> QED
    BY <1>1, <1>2, <1>3, <1>4, <1>5, <1>6, <1>7, <1>8, <1>9, <1>10, <1>11, <1>12, <1>13,
       <1>14, <1>15, <1>16, <1>17, <1>18, <1>19, <1>20, <1>21, <1>22, <1>23, <1>24,
       <1>25, <1>26, <1>27, <1>28, <1>29, <1>30, <1>31
    DEF Next, Environment, Daemon

\* The last volume is the one of the graph that plays.
LEMMA VolumeHeldNext ==
  ASSUME TypeOK, UserSet, LastKnown, Belief, Watched, Next
  PROVE  VolumeHeld'
  <1> USE DEF Belief, VolumeHeld, DspIs, Taken, Handing, Exiting, Kept, Fields
  <1>1. CASE User \/ Recreate
    BY <1>1, EnvDoes
  <1>2. CASE Open
    <2>1. ~d.active
      BY <1>2, OpenDoes DEF Looks, Pending, UserSet, Fresh
    <2> QED BY <1>2, <2>1, OpenDoes
  <1>3. CASE Trigger \/ Pause \/ Close
    BY <1>3, PcmDoes
  <1>4. CASE Announce
    BY <1>4, AnnounceDoes
  <1>5. CASE Terminate \/ RestoreFails
    BY <1>5, TerminateDoes, RestoreFailsDoes DEF Elsewhere
  <1>6. CASE Boot
    BY <1>6, BootDoes DEF Elsewhere
  <1>7. CASE GuardEnds
    BY <1>7, GuardDoes DEF Elsewhere
  <1>8. CASE Receive
    BY <1>8, ReceiveDoes DEF Elsewhere
  <1>9. CASE Look
    BY <1>9, LookDoes DEF Elsewhere
  <1>10. CASE RestoreVol
    BY <1>10, RestoreVolDoes, RestoreNews, RestoredType DEF pcm
  <1>11. CASE RestoreMute
    BY <1>11, RestoreMuteDoes, RestoreNews, RestoredType DEF pcm
  <1>12. CASE Queue
    BY <1>12, QueueDoes DEF pcm, sinks
  <1>13. CASE Probe
    BY <1>13, ProbeDoes DEF Elsewhere
  <1>14. CASE RxDown \/ RxUp
    BY <1>14, RxDownDoes, RxUpDoes DEF pcm, sinks
  <1>15. CASE Idle
    BY <1>15, IdleDoes DEF Elsewhere
  <1>16. CASE HostVol
    BY <1>16, HostVolDoes DEF Elsewhere, HostIs, Tells
  <1>17. CASE HostMute
    BY <1>17, HostMuteDoes DEF Elsewhere, HostIs, Tells
  <1>18. CASE WriteMute
    BY <1>18, WriteMuteDoes DEF sinks, NoDevice
  <1>19. CASE SkipMute
    BY <1>19, SkipMuteDoes DEF Elsewhere, HostIs, Tells
  <1>20. CASE MuteGone
    BY <1>20, MuteGoneDoes DEF Elsewhere, HostIs, Tells
  <1>21. CASE MuteFailed
    BY <1>21, MuteFailedDoes DEF Elsewhere, HostIs, Tells
  <1>22. CASE MuteFailClosed
    BY <1>22, MuteFailClosedDoes DEF Elsewhere, HostIs, Tells
  <1>23. CASE Gain
    BY <1>23, GainDoes DEF Elsewhere, HostIs, Tells
  <1>24. CASE Left
    BY <1>24, LeftDoes, Sounds DEF sinks, NoDevice, Gone, Failed
  <1>25. CASE Right
    BY <1>25, RightDoes, Sounds DEF sinks, NoDevice, Gone, Failed
  <1>26. CASE Baseline
    BY <1>26, BaselineDoes, Sounds DEF sinks, NoDevice, Gone, Failed
  <1>27. CASE Unity
    BY <1>27, UnityDoes DEF Elsewhere, HostIs, Tells
  <1>28. CASE Done
    BY <1>28, DoneDoes DEF Elsewhere, HostIs, Tells
  <1>29. CASE Exit
    BY <1>29, ExitDoes, FreshDoes DEF pcm, sinks
  <1>30. CASE ExitHost
    BY <1>30, ExitHostDoes DEF Elsewhere
  <1>31. CASE ExitMute
    BY <1>31, ExitMuteDoes, FreshDoes DEF Elsewhere
  <1> QED
    BY <1>1, <1>2, <1>3, <1>4, <1>5, <1>6, <1>7, <1>8, <1>9, <1>10, <1>11, <1>12, <1>13,
       <1>14, <1>15, <1>16, <1>17, <1>18, <1>19, <1>20, <1>21, <1>22, <1>23, <1>24,
       <1>25, <1>26, <1>27, <1>28, <1>29, <1>30, <1>31
    DEF Next, Environment, Daemon

\* The mute the daemon remembers is the DSP's.
LEMMA MuteHeldNext ==
  ASSUME TypeOK, UserSet, LastKnown, Belief, Watched, Next
  PROVE  MuteHeld'
  <1> USE DEF Belief, MuteHeld, Muted, Entering, Exiting, Kept, Fields
  <1>1. CASE User \/ Recreate
    BY <1>1, EnvDoes
  <1>2. CASE Open
    <2>1. ~d.active
      BY <1>2, OpenDoes DEF Looks, Pending, UserSet, Fresh
    <2> QED BY <1>2, <2>1, OpenDoes
  <1>3. CASE Trigger \/ Pause \/ Close
    BY <1>3, PcmDoes
  <1>4. CASE Announce
    BY <1>4, AnnounceDoes
  <1>5. CASE Terminate \/ RestoreFails
    BY <1>5, TerminateDoes, RestoreFailsDoes DEF Elsewhere
  <1>6. CASE Boot
    BY <1>6, BootDoes DEF Elsewhere
  <1>7. CASE GuardEnds
    BY <1>7, GuardDoes DEF Elsewhere
  <1>8. CASE Receive
    BY <1>8, ReceiveDoes DEF Elsewhere
  <1>9. CASE Look
    BY <1>9, LookDoes DEF Elsewhere
  <1>10. CASE RestoreVol
    BY <1>10, RestoreVolDoes, RestoreNews, RestoredType DEF pcm
  <1>11. CASE RestoreMute
    BY <1>11, RestoreMuteDoes, RestoreNews, RestoredType DEF pcm
  <1>12. CASE Queue
    BY <1>12, QueueDoes DEF pcm, sinks
  <1>13. CASE Probe
    BY <1>13, ProbeDoes DEF Elsewhere
  <1>14. CASE RxDown \/ RxUp
    BY <1>14, RxDownDoes, RxUpDoes DEF pcm, sinks
  <1>15. CASE Idle
    BY <1>15, IdleDoes DEF Elsewhere
  <1>16. CASE HostVol
    BY <1>16, HostVolDoes DEF Elsewhere, HostIs, Tells
  <1>17. CASE HostMute
    BY <1>17, HostMuteDoes DEF Elsewhere, HostIs, Tells
  <1>18. CASE WriteMute
    BY <1>18, WriteMuteDoes DEF sinks, NoDevice
  <1>19. CASE SkipMute
    BY <1>19, SkipMuteDoes DEF Elsewhere, HostIs, Tells
  <1>20. CASE MuteGone
    BY <1>20, MuteGoneDoes DEF Elsewhere, HostIs, Tells
  <1>21. CASE MuteFailed
    BY <1>21, MuteFailedDoes DEF Elsewhere, HostIs, Tells
  <1>22. CASE MuteFailClosed
    BY <1>22, MuteFailClosedDoes DEF Elsewhere, HostIs, Tells
  <1>23. CASE Gain
    BY <1>23, GainDoes DEF Elsewhere, HostIs, Tells
  <1>24. CASE Left
    BY <1>24, LeftDoes, Sounds DEF sinks, NoDevice, Gone, Failed
  <1>25. CASE Right
    BY <1>25, RightDoes, Sounds DEF sinks, NoDevice, Gone, Failed
  <1>26. CASE Baseline
    BY <1>26, BaselineDoes, Sounds DEF sinks, NoDevice, Gone, Failed
  <1>27. CASE Unity
    BY <1>27, UnityDoes DEF Elsewhere, HostIs, Tells
  <1>28. CASE Done
    BY <1>28, DoneDoes DEF Elsewhere, HostIs, Tells
  <1>29. CASE Exit
    BY <1>29, ExitDoes, FreshDoes DEF pcm, sinks
  <1>30. CASE ExitHost
    BY <1>30, ExitHostDoes DEF Elsewhere
  <1>31. CASE ExitMute
    BY <1>31, ExitMuteDoes, FreshDoes DEF Elsewhere
  <1> QED
    BY <1>1, <1>2, <1>3, <1>4, <1>5, <1>6, <1>7, <1>8, <1>9, <1>10, <1>11, <1>12, <1>13,
       <1>14, <1>15, <1>16, <1>17, <1>18, <1>19, <1>20, <1>21, <1>22, <1>23, <1>24,
       <1>25, <1>26, <1>27, <1>28, <1>29, <1>30, <1>31
    DEF Next, Environment, Daemon

\* What the hidden sink is left at when it is in charge.
LEMMA HostHeldNext ==
  ASSUME TypeOK, UserSet, LastKnown, Handed, Belief, Watched, Next
  PROVE  HostHeld'
  <1>t. host \in Settings /\ (d.pc # "dead" => d.st.vol \in Int /\ d.st \in UserSettings)
    BY DaemonState, Levelled DEF TypeOK
  <1> USE DEF Belief, HostHeld, Handing, Exiting, InCharge, Pending, Kept, Fields
  <1>1. CASE User \/ Recreate
    BY <1>1, EnvDoes
  <1>2. CASE Open
    BY <1>2, OpenDoes
  <1>3. CASE Trigger \/ Pause \/ Close
    BY <1>3, PcmDoes
  <1>4. CASE Announce
    BY <1>4, AnnounceDoes
  <1>5. CASE Terminate \/ RestoreFails
    BY <1>5, TerminateDoes, RestoreFailsDoes DEF Elsewhere
  <1>6. CASE Boot
    BY <1>6, BootDoes DEF Elsewhere
  <1>7. CASE GuardEnds
    BY <1>7, GuardDoes DEF Elsewhere
  <1>8. CASE Receive
    BY <1>8, ReceiveDoes DEF Elsewhere
  <1>9. CASE Look
    BY <1>9, LookDoes DEF Elsewhere
  <1>10. CASE RestoreVol
    BY <1>10, RestoreVolDoes, RestoreNews, RestoredType DEF pcm
  <1>11. CASE RestoreMute
    BY <1>11, RestoreMuteDoes, RestoreNews, RestoredType DEF pcm
  <1>12. CASE Queue
    BY <1>12, QueueDoes DEF pcm, sinks
  <1>13. CASE Probe
    <2>1. d.st.vol \in Int /\ (d.st = host => host.vol <= d.st.vol /\ (d.st.mute => host.mute))
      BY <1>13, <1>t, ProbeDoes
    <2> QED BY <1>13, <2>1, ProbeDoes DEF Elsewhere
  <1>14. CASE RxDown \/ RxUp
    BY <1>14, RxDownDoes, RxUpDoes DEF pcm, sinks
  <1>15. CASE Idle
    <2>1. graph = "running" => Pending
      BY <1>15, IdleDoes DEF Looks
    <2> QED BY <1>15, <2>1, IdleDoes DEF Elsewhere
  <1>16. CASE HostVol
    BY <1>16, HostVolDoes DEF Elsewhere, HostIs, Tells
  <1>17. CASE HostMute
    <2>1. host'.vol = d.st.vol /\ host'.mute = d.st.mute /\ d.st.vol \in Int
      BY <1>17, <1>t, HostMuteDoes DEF HostIs, Handed
    <2>2. host' = d.st
      BY <1>17, <1>t, <2>1, HostMuteDoes, SameSetting DEF HostIs
    <2> QED BY <1>17, <2>1, <2>2, HostMuteDoes DEF Elsewhere
  <1>18. CASE WriteMute
    BY <1>18, WriteMuteDoes DEF sinks, NoDevice
  <1>19. CASE SkipMute
    BY <1>19, SkipMuteDoes DEF Elsewhere, HostIs, Tells
  <1>20. CASE MuteGone
    BY <1>20, MuteGoneDoes DEF Elsewhere, HostIs, Tells
  <1>21. CASE MuteFailed
    BY <1>21, MuteFailedDoes DEF Elsewhere, HostIs, Tells
  <1>22. CASE MuteFailClosed
    <2>1. host'.vol = d.st.vol /\ host'.mute /\ d.st.vol \in Int
      BY <1>22, <1>t, MuteFailClosedDoes DEF HostIs
    <2> QED BY <1>22, <2>1, MuteFailClosedDoes DEF Elsewhere
  <1>23. CASE Gain
    BY <1>23, GainDoes DEF Elsewhere, HostIs, Tells
  <1>24. CASE Left
    BY <1>24, LeftDoes, Sounds DEF sinks, NoDevice, Gone, Failed
  <1>25. CASE Right
    BY <1>25, RightDoes, Sounds DEF sinks, NoDevice, Gone, Failed
  <1>26. CASE Baseline
    BY <1>26, BaselineDoes, Sounds DEF sinks, NoDevice, Gone, Failed
  <1>27. CASE Unity
    BY <1>27, UnityDoes DEF Elsewhere, HostIs, Tells
  <1>28. CASE Done
    BY <1>28, DoneDoes DEF Elsewhere, HostIs, Tells
  <1>29. CASE Exit
    BY <1>29, ExitDoes, FreshDoes DEF pcm, sinks
  <1>30. CASE ExitHost
    BY <1>30, ExitHostDoes DEF Elsewhere
  <1>31. CASE ExitMute
    BY <1>31, ExitMuteDoes, FreshDoes DEF Elsewhere
  <1> QED
    BY <1>1, <1>2, <1>3, <1>4, <1>5, <1>6, <1>7, <1>8, <1>9, <1>10, <1>11, <1>12, <1>13,
       <1>14, <1>15, <1>16, <1>17, <1>18, <1>19, <1>20, <1>21, <1>22, <1>23, <1>24,
       <1>25, <1>26, <1>27, <1>28, <1>29, <1>30, <1>31
    DEF Next, Environment, Daemon

\* What the daemon believes stays true.
LEMMA BeliefNext ==
  ASSUME TypeOK, UserSet, LastKnown, Handed, Belief, Watched, Next
  PROVE  Belief'
  BY LooksNext, VolumeHeldNext, MuteHeldNext, HostHeldNext DEF Belief

-----------------------------------------------------------------------------
\* The sink at unity, and the setting applied exactly once.

\* The hidden sink is at unity only in front of a graph that attenuates.
LEMMA UnityHeldNext ==
  ASSUME TypeOK, UserSet, LastKnown, Handed, Belief, UnityHeld, Watched, Uncut, Next
  PROVE  UnityHeld'
  <1>u. d.pc # "dead" => d.st.vol # Full
    BY DaemonState, Levelled
  <1> USE <1>u DEF UnityHeld, Taken, Kept, Fields
  <1>1. CASE User \/ Recreate
    BY <1>1, EnvDoes
  <1>2. CASE Open
    <2>1. ~d.active /\ d.pc \notin Taken
      BY <1>2, OpenDoes DEF Belief, Looks, Pending, UserSet, Fresh
    <2> QED BY <1>2, <2>1, OpenDoes
  <1>3. CASE Trigger \/ Pause \/ Close
    BY <1>3, PcmDoes
  <1>4. CASE Announce
    BY <1>4, AnnounceDoes
  <1>5. CASE Terminate \/ RestoreFails
    BY <1>5, TerminateDoes, RestoreFailsDoes DEF Elsewhere, Uncut
  <1>6. CASE Boot
    BY <1>6, BootDoes DEF Elsewhere, UserSet, Fresh
  <1>7. CASE GuardEnds
    BY <1>7, GuardDoes DEF Elsewhere
  <1>8. CASE Receive
    BY <1>8, ReceiveDoes DEF Elsewhere
  <1>9. CASE Look
    BY <1>9, LookDoes DEF Elsewhere
  <1>10. CASE RestoreVol
    BY <1>10, RestoreVolDoes, RestoreNews, RestoredType DEF pcm
  <1>11. CASE RestoreMute
    BY <1>11, RestoreMuteDoes, RestoreNews, RestoredType DEF pcm
  <1>12. CASE Queue
    BY <1>12, QueueDoes DEF pcm, sinks
  <1>13. CASE Probe
    <2>1. d.txGone => host = d.lastHost
      BY <1>13, ProbeDoes DEF Belief, HostHeld, Handing, Exiting
    <2> QED BY <1>13, <2>1, ProbeDoes DEF Elsewhere
  <1>14. CASE RxDown \/ RxUp
    BY <1>14, RxDownDoes, RxUpDoes DEF pcm, sinks
  <1>15. CASE Idle
    BY <1>15, IdleDoes DEF Elsewhere
  <1>16. CASE HostVol
    BY <1>16, HostVolDoes DEF Elsewhere, HostIs, Tells
  <1>17. CASE HostMute
    BY <1>17, HostMuteDoes DEF Elsewhere, HostIs, Handed
  <1>18. CASE WriteMute
    BY <1>18, WriteMuteDoes DEF sinks, NoDevice
  <1>19. CASE SkipMute
    BY <1>19, SkipMuteDoes DEF Elsewhere, HostIs, Tells
  <1>20. CASE MuteGone
    BY <1>20, MuteGoneDoes DEF Elsewhere, HostIs, Tells
  <1>21. CASE MuteFailed
    BY <1>21, MuteFailedDoes DEF Elsewhere, HostIs, Tells
  <1>22. CASE MuteFailClosed
    <2>1. host.vol = d.st.vol
      BY <1>22, MuteFailClosedDoes DEF Belief, HostHeld
    <2> QED BY <1>22, <2>1, MuteFailClosedDoes DEF Elsewhere, HostIs
  <1>23. CASE Gain
    BY <1>23, GainDoes DEF Elsewhere, HostIs, Tells
  <1>24. CASE Left
    <2>1. d.last # Full
      BY <1>24, LeftDoes, Levelled DEF LastKnown
    <2> QED BY <1>24, <2>1, LeftDoes, Sounds DEF sinks, NoDevice, Gone, Failed
  <1>25. CASE Right
    BY <1>25, RightDoes, Sounds DEF sinks, NoDevice, Gone, Failed
  <1>26. CASE Baseline
    BY <1>26, BaselineDoes, Sounds DEF sinks, NoDevice, Gone, Failed
  <1>27. CASE Unity
    <2>1. graph # "closed" => protected /\ dsp.l = d.st.vol /\ dsp.r = d.st.vol
      BY <1>27, UnityDoes DEF Belief, VolumeHeld, DspIs
    <2> QED BY <1>27, <2>1, UnityDoes DEF Elsewhere, HostIs
  <1>28. CASE Done
    BY <1>28, DoneDoes DEF Elsewhere, HostIs, Tells
  <1>29. CASE Exit
    BY <1>29, ExitDoes, FreshDoes DEF pcm, sinks
  <1>30. CASE ExitHost
    BY <1>30, ExitHostDoes DEF Elsewhere
  <1>31. CASE ExitMute
    BY <1>31, ExitMuteDoes, FreshDoes DEF Elsewhere
  <1> QED
    BY <1>1, <1>2, <1>3, <1>4, <1>5, <1>6, <1>7, <1>8, <1>9, <1>10, <1>11, <1>12, <1>13,
       <1>14, <1>15, <1>16, <1>17, <1>18, <1>19, <1>20, <1>21, <1>22, <1>23, <1>24,
       <1>25, <1>26, <1>27, <1>28, <1>29, <1>30, <1>31
    DEF Next, Environment, Daemon

\* Without failures no transaction is left half done.
LEMMA ExactHeldNext ==
  ASSUME TypeOK, UserSet, LastKnown, Handed, Belief, ExactHeld, Watched, Faults = {}, Next
  PROVE  ExactHeld'
  <1>u. d.pc # "dead" => d.st.vol # Full /\ d.st.vol \in Int /\ d.st # None
    BY DaemonState, Levelled, VolumeAssumption DEF UserSettings, Volumes, VolumeAssumption
  <1> USE <1>u DEF ExactHeld, RowIs, Pending, Taken, Handing, Exiting, Finding, Kept, Fields
  <1>1. CASE User \/ Recreate
    BY <1>1, EnvDoes
  <1>2. CASE Open
    <2>1. ~d.active /\ d.pc \notin Taken
      BY <1>2, OpenDoes DEF Belief, Looks, Pending, UserSet, Fresh
    <2> QED BY <1>2, <2>1, OpenDoes
  <1>3. CASE Trigger \/ Pause \/ Close
    BY ZenonT(60), <1>3, PcmDoes
  <1>4. CASE Announce
    BY <1>4, AnnounceDoes
  <1>5. CASE Terminate \/ RestoreFails
    BY <1>5, TerminateDoes, RestoreFailsDoes DEF Elsewhere
  <1>6. CASE Boot
    BY <1>6, BootDoes DEF Elsewhere
  <1>7. CASE GuardEnds
    BY <1>7, GuardDoes DEF Elsewhere
  <1>8. CASE Receive
    BY <1>8, ReceiveDoes DEF Elsewhere
  <1>9. CASE Look
    BY <1>9, LookDoes DEF Elsewhere
  <1>10. CASE RestoreVol
    BY <1>10, RestoreVolDoes, RestoreNews, RestoredType DEF pcm
  <1>11. CASE RestoreMute
    BY <1>11, RestoreMuteDoes, RestoreNews, RestoredType DEF pcm
  <1>12. CASE Queue
    BY <1>12, QueueDoes DEF pcm, sinks
  <1>13. CASE Probe
    <2>1. d.lastHost = d.st => host.vol = d.st.vol
      BY <1>13, ProbeDoes
    <2> QED BY <1>13, <2>1, ProbeDoes DEF Elsewhere
  <1>14. CASE RxDown \/ RxUp
    BY <1>14, RxDownDoes, RxUpDoes DEF pcm, sinks
  <1>15. CASE Idle
    <2>1. d.lastHost = d.st => host.vol = d.st.vol
      BY <1>15, IdleDoes
    <2>2. graph = "running" => news \/ queue # <<>>
      BY <1>15, IdleDoes DEF Belief, Looks, Pending
    <2> QED BY <1>15, <2>1, <2>2, IdleDoes DEF Elsewhere
  <1>16. CASE HostVol
    BY <1>16, HostVolDoes DEF Elsewhere, HostIs, Tells
  <1>17. CASE HostMute
    <2>1. host'.vol = d.st.vol
      BY <1>17, HostMuteDoes DEF HostIs, Handed
    <2> QED BY <1>17, <2>1, HostMuteDoes DEF Elsewhere, HostIs, Tells
  <1>18. CASE WriteMute
    BY <1>18, WriteMuteDoes DEF sinks, NoDevice
  <1>19. CASE SkipMute
    BY <1>19, SkipMuteDoes DEF Elsewhere, HostIs, Tells
  <1>20. CASE MuteGone
    BY <1>20, MuteGoneDoes DEF Elsewhere, HostIs, Tells
  <1>21. CASE MuteFailed
    BY <1>21, MuteFailedDoes DEF Elsewhere, HostIs, Tells
  <1>22. CASE MuteFailClosed
    BY <1>22, MuteFailClosedDoes DEF Elsewhere, HostIs, Tells
  <1>23. CASE Gain
    BY <1>23, GainDoes DEF Elsewhere, HostIs, Tells
  <1>24. CASE Left
    <2>0. d.active
      BY <1>24, LeftDoes DEF LastKnown
    <2>1. CASE d'.pc # "hostVol"
      <3>1. graph # "closed" => dsp'.step = MixedRow(d.last, d.st.vol)
        BY <1>24, <2>0, <2>1, LeftDoes, Sounds DEF Gone, Failed
      <3>2. d.pc = "left" /\ d'.pc = "right" /\ Kept({"pc"})
        BY <1>24, <2>1, LeftDoes DEF Gone, Failed
      <3>3. UNCHANGED <<graph, host, vis, node, rx, page, news, queue>>
        BY <1>24, LeftDoes DEF sinks
      <3> QED BY <2>0, <3>1, <3>2, <3>3
    <2>2. CASE Gone
      <3>1. graph # "running" \/ ~protected
        BY <2>2 DEF Gone, NoDevice
      <3> QED BY <1>24, <2>2, <3>1, LeftDoes DEF sinks, Gone
    <2> QED BY <1>24, <2>1, <2>2, LeftDoes DEF Failed
  <1>25. CASE Right
    <2>0. d.active
      BY <1>25, RightDoes DEF LastKnown
    <2>1. CASE d'.pc # "hostVol"
      <3>1. graph # "closed" => dsp'.step = StepOf(d.st.vol)
        BY <1>25, <2>0, <2>1, RightDoes, Sounds DEF Gone, Failed
      <3>2. d.pc = "right" /\ d'.pc = (IF d.rxActive THEN "done" ELSE "rxUp") /\ Kept({"pc", "last"}) /\ d'.last = d.st.vol
        BY <1>25, <2>1, RightDoes DEF Gone, Failed
      <3>3. UNCHANGED <<graph, host, vis, node, rx, page, news, queue>>
        BY <1>25, RightDoes DEF sinks
      <3> QED BY <2>0, <3>1, <3>2, <3>3
    <2>2. CASE Gone
      <3>1. graph # "running" \/ ~protected
        BY <2>2 DEF Gone, NoDevice
      <3> QED BY <1>25, <2>2, <3>1, RightDoes DEF sinks, Gone
    <2> QED BY <1>25, <2>1, <2>2, RightDoes DEF Failed
  <1>26. CASE Baseline
    <2>0. ~d.active
      BY <1>26, BaselineDoes DEF Belief, VolumeHeld
    <2>1. CASE d'.pc # "hostVol"
      <3>1. graph # "closed" => dsp'.step = StepOf(d.st.vol)
        BY <1>26, <2>0, <2>1, BaselineDoes, Sounds DEF Gone, Failed
      <3>2. d.pc = "baseline" /\ d'.pc = "unity" /\ Kept({"pc"})
        BY <1>26, <2>1, BaselineDoes DEF Gone, Failed
      <3>3. UNCHANGED <<graph, host, vis, node, rx, page, news, queue>>
        BY <1>26, BaselineDoes DEF sinks
      <3> QED BY <2>0, <3>1, <3>2, <3>3
    <2>2. CASE Gone
      <3>1. graph # "running" \/ ~protected
        BY <2>2 DEF Gone, NoDevice
      <3> QED BY <1>26, <2>2, <3>1, BaselineDoes DEF sinks, Gone
    <2> QED BY <1>26, <2>1, <2>2, BaselineDoes DEF Failed
  <1>27. CASE Unity
    BY <1>27, UnityDoes DEF Elsewhere, HostIs, Tells
  <1>28. CASE Done
    BY <1>28, DoneDoes DEF Elsewhere, HostIs, Tells
  <1>29. CASE Exit
    BY <1>29, ExitDoes, FreshDoes DEF pcm, sinks
  <1>30. CASE ExitHost
    BY <1>30, ExitHostDoes DEF Elsewhere
  <1>31. CASE ExitMute
    BY <1>31, ExitMuteDoes, FreshDoes DEF Elsewhere
  <1> QED
    BY <1>1, <1>2, <1>3, <1>4, <1>5, <1>6, <1>7, <1>8, <1>9, <1>10, <1>11, <1>12, <1>13,
       <1>14, <1>15, <1>16, <1>17, <1>18, <1>19, <1>20, <1>21, <1>22, <1>23, <1>24,
       <1>25, <1>26, <1>27, <1>28, <1>29, <1>30, <1>31
    DEF Next, Environment, Daemon

-----------------------------------------------------------------------------
\* The theorems.

\* The first layer holds at the start, and is kept.
LEMMA KnownInit ==
  ASSUME Init
  PROVE  KnownInv
  <1>1. TypeOK
    <2>1. /\ 1 \in 1 .. Full /\ Full \in 1 .. Full /\ 1 \in 1 .. MaxNodes /\ StepOf(Full) \in 1 .. StepOf(Full)
          /\ d \in Daemons /\ queue \in Seq(Events)
      BY FreshDaemon, Levelled, RowType DEF Init
    <2>2. vis \in Settings /\ host \in Settings
      BY <2>1 DEF Init, Settings
    <2>3. dsp \in [l : 1 .. Full, r : 1 .. Full, step : 1 .. StepOf(Full), mute : BOOLEAN]
      BY <2>1 DEF Init
    <2>4. graph = "closed" /\ protected = TRUE /\ rx = FALSE /\ news = FALSE /\ page = None /\ node = 1 /\ lapse = {}
      BY DEF Init
    <2> QED BY <2>1, <2>2, <2>3, <2>4 DEF TypeOK
  <1>2. /\ d = Fresh /\ queue = <<>> /\ Len(queue) = 0 /\ vis.vol = 1 /\ node = 1 /\ d.pc = "dead"
        /\ d.node = 0 /\ ~d.active
    BY DEF Init, Fresh
  <1>3. UserSet /\ LastKnown
    BY <1>2, Levelled DEF UserSet, LastKnown, Taken
  <1>4. Informed
    BY <1>2 DEF Informed, Said, Exiting
  <1>5. Handed
    BY <1>2 DEF Handed
  <1> QED BY <1>1, <1>3, <1>4, <1>5 DEF KnownInv

LEMMA KnownNext ==
  ASSUME KnownInv, [Next]_vars
  PROVE  KnownInv'
  <1>1. CASE Next
    BY <1>1, TypeNext, UserSetNext, LastKnownNext, InformedNext, HandedNext DEF KnownInv
  <1>2. CASE UNCHANGED vars
    BY <1>2 DEF vars, KnownInv, TypeOK, UserSet, LastKnown, Informed, Handed, Transient, Said, Silent
  <1> QED BY <1>1, <1>2

\* For any number of levels, nodes and events, any faults, terminations and
\* reopenings: the variables have their types, the daemon holds a setting of
\* the user's, never the unity at which a replaced node is born
\* (adopt_recreated_node), and what it has not read yet ends with the user's
\* present setting, so that a daemon that has nothing to read has it.
THEOREM KnownCorrect == Spec => []KnownInv
  BY KnownInit, KnownNext, PTL DEF Spec

\* The variables have their types, for all constants.
THEOREM TypeCorrect == Spec => []TypeOK
  <1>1. KnownInv => TypeOK
    BY DEF KnownInv
  <1> QED BY <1>1, KnownCorrect, PTL

\* Whatever was believed before, a hand-over leaves what is true: the sink has
\* the user's volume, and nothing is held of the DSP.
LEMMA HandedBack ==
  ASSUME KnownInv, HostMute
  PROVE  Belief' /\ UnityHeld'
  <1>1. TypeOK /\ UserSet /\ Handed /\ host \in Settings /\ d.pc = "hostMute"
    BY HostMuteDoes DEF KnownInv, TypeOK
  <1>2. d.st.vol # Full /\ d.st.vol \in Int /\ d.st \in UserSettings
    BY <1>1, DaemonState, Levelled
  <1>3. host'.vol = d.st.vol /\ host'.mute = d.st.mute /\ host' \in Settings
    BY <1>1, HostMuteDoes DEF HostIs, Handed
  <1>4. host' = d.st
    BY <1>2, <1>3, SameSetting
  <1>5. d'.pc = "wait" /\ d'.lastHost = d.st /\ ~d'.active /\ d'.lastMute = None /\ d'.st = d.st
    BY <1>1, HostMuteDoes DEF Kept, Fields
  <1>6. Looks' /\ VolumeHeld'
    BY <1>5 DEF Looks, VolumeHeld, InCharge, Taken, Handing, Exiting
  <1>7. MuteHeld'
    BY <1>5 DEF MuteHeld, Muted, Entering, Exiting
  <1>8. HostHeld'
    BY <1>2, <1>3, <1>4, <1>5 DEF HostHeld, InCharge, Handing, Exiting
  <1>9. UnityHeld'
    BY <1>2, <1>3, <1>5 DEF UnityHeld, Taken
  <1> QED BY <1>6, <1>7, <1>8, <1>9 DEF Belief

\* The second layer is kept, and holds at the start.
LEMMA BeliefStep ==
  ASSUME BeliefInv, [Next]_vars
  PROVE  BeliefInv'
  <1>1. ASSUME Next, "reopened" \notin lapse'
        PROVE  Belief'
    <2>1. CASE HostMute
      BY <2>1, HandedBack DEF BeliefInv
    <2>2. CASE "reopened" \notin lapse /\ Watched
      BY <1>1, <2>2, BeliefNext DEF BeliefInv, KnownInv
    <2> QED BY <1>1, <2>1, <2>2, LapseDoes
  <1>2. CASE Next
    BY <1>1, <1>2, KnownNext DEF BeliefInv
  <1>3. CASE UNCHANGED vars
    <2>1. KnownInv'
      BY KnownNext DEF BeliefInv
    <2>2. Belief => Looks' /\ VolumeHeld' /\ MuteHeld' /\ HostHeld'
      BY <1>3 DEF vars, Belief, Looks, VolumeHeld, MuteHeld, HostHeld, Pending, DspIs
    <2>3. lapse' = lapse
      BY <1>3 DEF vars
    <2> QED BY <2>1, <2>2, <2>3 DEF BeliefInv, Belief
  <1> QED BY <1>2, <1>3

LEMMA BeliefInit ==
  ASSUME Init
  PROVE  BeliefInv
  <1>1. d.pc = "dead" /\ ~d.active /\ ~d.txGone
    BY DEF Init, Fresh
  <1>2. Belief
    BY <1>1 DEF Belief, Looks, VolumeHeld, MuteHeld, HostHeld, InCharge, Taken, Muted, Entering, Exiting
  <1> QED BY <1>2, KnownInit DEF BeliefInv

\* For all constants, whichever of the daemon's calls fail and however often it
\* is ended and started: what run() keeps in active, last_volume, last_mute and
\* last_host is true of the graph and the sinks, unless a PCM reopened before
\* the daemon had seen it closed; and then from the next hand-over on again.
THEOREM BeliefCorrect == Spec => []BeliefInv
  BY BeliefInit, BeliefStep, PTL DEF Spec

\* For all constants: a daemon that has caught up, after whatever failures and
\* ends, leaves nothing louder than the user set it, and a mute of the user's
\* is a mute of the speaker, unless a PCM reopened unseen since the last
\* hand-over.
THEOREM FailsSafeCorrect == Spec => []FailsSafe
  <1>1. ASSUME BeliefInv, "reopened" \notin lapse, Quiet, graph = "running"
        PROVE  FailsSafe
    <2>0. Belief
      BY <1>1 DEF BeliefInv
    <2>1. d.pc = "wait" /\ queue = <<>> /\ ~Pending /\ Len(queue) = 0
      BY <1>1 DEF Quiet, Pending
    <2>2. d.st = vis /\ vis \in UserSettings /\ vis.vol \in Int
      BY <1>1, <2>1, DaemonState, Levelled
         DEF BeliefInv, KnownInv, Informed, Silent, Exiting, Finding
    <2>3. CASE d.active
      <3>1. protected /\ dsp.l = vis.vol /\ dsp.r = vis.vol
        BY <1>1, <2>0, <2>1, <2>2, <2>3 DEF Belief, VolumeHeld, DspIs, Handing, Exiting
      <3>2. vis.mute => host.mute \/ dsp.mute
        <4>1. CASE d.lastMute = d.st.mute
          <5>1. d.lastMute # None
            BY <2>2, <4>1, VolumeAssumption DEF VolumeAssumption, UserSettings
          <5> QED BY <1>1, <2>1, <2>2, <2>0, <4>1, <5>1 DEF Belief, MuteHeld, Exiting
        <4>2. CASE d.lastMute # d.st.mute
          BY <1>1, <2>1, <2>2, <2>0, <2>3, <4>2 DEF Belief, MuteHeld
        <4> QED BY <4>1, <4>2
      <3> QED BY <2>2, <3>1, <3>2 DEF FailsSafe, FailsQuiet, MuteHolds
    <2>4. CASE ~d.active
      BY <1>1, <2>1, <2>0, <2>2, <2>4 DEF Belief, HostHeld, FailsSafe, FailsQuiet, MuteHolds
    <2> QED BY <2>3, <2>4
  <1>2. BeliefInv => FailsSafe
    BY <1>1 DEF FailsSafe, FailsQuiet, MuteHolds
  <1> QED BY <1>2, BeliefCorrect, PTL

\* For all constants, reopenings and ends of the daemon included: a running PCM
\* is attenuated, by the hidden sink or by both channels of a protected graph,
\* whichever of the daemon's writes fail and between any two of them; full
\* volume is heard only if, since the volume was last handed to the sink, a PCM
\* reopened before the daemon had seen it closed or the daemon was ended in the
\* middle of a take-over.
THEOREM NeverFullCorrect == Spec => []NeverFull
  <1>1. Init => UnityInv
    <2>1. ASSUME Init
          PROVE  host.vol # Full /\ d.pc = "dead" /\ d.lastHost = None /\ ~d.active
      BY <2>1, Levelled DEF Init, Fresh
    <2>2. ASSUME Init
          PROVE  UnityHeld
      BY <2>1, <2>2 DEF UnityHeld
    <2> QED BY <2>2, BeliefInit DEF UnityInv
  <1>2. UnityInv /\ [Next]_vars => UnityInv'
    <2>1. ASSUME UnityInv, Next, lapse' = {}
          PROVE  UnityHeld'
      <3>1. CASE HostMute
        BY <2>1, <3>1, HandedBack DEF UnityInv, BeliefInv
      <3>2. CASE lapse = {} /\ Watched /\ Uncut
        BY <2>1, <3>2, UnityHeldNext DEF UnityInv, BeliefInv, KnownInv
      <3> QED BY <2>1, <3>1, <3>2, LapseDoes
    <2>2. ASSUME UnityHeld, UNCHANGED vars
          PROVE  UnityHeld'
      BY <2>2 DEF vars, UnityHeld
    <2>3. UNCHANGED vars => lapse' = lapse
      BY DEF vars
    <2> QED BY <2>1, <2>2, <2>3, BeliefStep DEF UnityInv
  <1>3. UnityInv => NeverFull
    BY DEF UnityInv, UnityHeld, NeverFull, Attenuated
  <1> QED BY <1>1, <1>2, <1>3, PTL DEF Spec

\* A PCM that waits for the daemon never counts as reopened.
NotReopened == "reopened" \notin lapse
LEMMA PcmWaits ==
  ASSUME ~QuickReopen
  PROVE  /\ Init => NotReopened
         /\ NotReopened /\ [Next]_vars => NotReopened' /\ Watched
  <1>1. Init => NotReopened
    BY DEF Init, NotReopened
  <1>2. Watched
    BY DEF Watched, Open
  <1>3. Open => lapse' = lapse
    BY DEF Open
  <1>4. ASSUME NotReopened, Next
        PROVE  NotReopened'
    BY <1>3, <1>4, LapseDoes DEF NotReopened
  <1>5. UNCHANGED vars => lapse' = lapse
    BY DEF vars
  <1> QED BY <1>1, <1>2, <1>4, <1>5 DEF NotReopened

\* Without failures of the kernel's calls and with no PCM reopened before the
\* daemon has seen it closed, terminations included: when the daemon has caught
\* up the volume heard is the user's, applied exactly once, with the matching
\* GainStep row, and the engine has this node's postgain.
THEOREM VolumeIsUsersCorrect ==
  ASSUME ~QuickReopen, Faults = {}
  PROVE  Spec => []VolumeIsUsers
  <1>1. Init => ExactHeld
    <2>1. ASSUME Init
          PROVE  d.pc = "dead" /\ d.lastHost = None /\ ~d.active /\ ~d.rxActive
      BY <2>1 DEF Init, Fresh
    <2> QED BY <2>1 DEF ExactHeld, Exiting, Taken, Handing
  <1>2. ExactHeld /\ BeliefInv /\ NotReopened /\ [Next]_vars => ExactHeld'
    <2>1. ASSUME ExactHeld, BeliefInv, NotReopened, Next
          PROVE  ExactHeld'
      BY <2>1, ExactHeldNext, PcmWaits DEF BeliefInv, KnownInv, NotReopened
    <2>2. ASSUME ExactHeld, UNCHANGED vars
          PROVE  ExactHeld'
      BY <2>2 DEF vars, ExactHeld, RowIs, Pending
    <2> QED BY <2>1, <2>2
  <1>3. ExactHeld /\ BeliefInv /\ NotReopened => VolumeIsUsers
    <2>1. SUFFICES ASSUME ExactHeld, KnownInv, Belief, Quiet
                   PROVE  VolumeIsUsers
      BY DEF VolumeIsUsers, BeliefInv, NotReopened
    <2>2. d.pc = "wait" /\ queue = <<>> /\ ~Pending /\ Len(queue) = 0
      BY <2>1 DEF Quiet, Pending
    <2>3. d.st = vis /\ d.node = node
      BY <2>1, <2>2 DEF KnownInv, Informed, Silent, Exiting, Finding
    <2>4. page = [node |-> node, state |-> vis]
      BY <2>1, <2>2, <2>3 DEF ExactHeld, Exiting, Finding
    <2>5. CASE d.active
      <3>1. graph = "running" /\ ~d.txGone
        BY <2>1, <2>2, <2>5 DEF Belief, Looks, HostHeld, Handing, Exiting
      <3>2. protected /\ dsp.l = vis.vol /\ dsp.r = vis.vol /\ d.last = vis.vol
        BY <2>1, <2>2, <2>3, <2>5, <3>1 DEF Belief, VolumeHeld, DspIs, Handing, Exiting
      <3>3. dsp.step = StepOf(vis.vol) /\ host.vol = Full /\ rx
        BY <2>1, <2>2, <2>5, <3>1, <3>2 DEF ExactHeld, RowIs, Handing, Exiting
      <3> QED BY <2>4, <3>1, <3>2, <3>3 DEF VolumeIsUsers, Exact
    <2>6. CASE ~d.active
      BY <2>1, <2>2, <2>3, <2>4, <2>6 DEF ExactHeld, VolumeIsUsers
    <2> QED BY <2>5, <2>6
  <1>4. Init => NotReopened
    BY PcmWaits
  <1>5. NotReopened /\ [Next]_vars => NotReopened'
    BY PcmWaits
  <1> QED BY <1>1, <1>2, <1>3, <1>4, <1>5, BeliefCorrect, PTL DEF Spec
=============================================================================
