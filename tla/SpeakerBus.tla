----------------------------- MODULE SpeakerBus -----------------------------
(* The speaker path's back ends over the SoundWire bus, its master and the    *)
(* macro that clocks it.  A back end that opens wakes the master, and with it *)
(* the macro; one that closes lets both go to sleep.  DAPM starts a stream    *)
(* after its back end is prepared and stops it after it is closed; the three  *)
(* seconds of autosuspend outlast that.                                       *)
EXTENDS SoundWire, SwrMaster

busVars == <<vars, macroVars, masterVars>>

\* What a step leaves alone, by component.  The macro's clock and runtime PM are
\* moved by the master too.
Codec == <<keeps, ctl, port, ch, playing, powered, sensing, softUsers, puts, changed>>
ClockVars == <<rpm, rm, mclkUsers, hclk>>
Link == <<link, latch, irq, seen, status, told, raced, changes>>

\* A disturbed behaviour has faults on the bus, control writes, or changes of
\* the link; any may meet a clock that is refused.
BusInit ==
    /\ Init /\ MacroInit /\ MasterInit
    /\ \/ faults = 0 /\ puts = MaxPuts /\ changes = MaxChanges /\ ~keeps
       \/ faults = MaxFaults /\ puts = 0 /\ changes = MaxChanges /\ ~keeps
       \/ faults = MaxFaults /\ puts = 1 /\ changes = MaxChanges /\ keeps
       \/ faults = MaxFaults /\ puts = MaxPuts /\ changes = 0 /\ ~keeps

\* DAPM hears of a prepared or closed back end before the card's PCM mutex is
\* given to another's call; of one whose front end fails to prepare, never.
Waits(s) == (prepared[s] /\ s \notin playing) \/ (be[s] = "closed" /\ s \in playing)
Turn(s) == call = Idle => \A t \in Streams \ {s} : ~Waits(t)

AllClosed == \A s \in Streams : be[s] = "closed"

Startup(s) ==
    /\ s \notin playing /\ rpm # "error"
    /\ snd_startup(s) /\ MasterGet
    /\ UNCHANGED <<Codec, Link>>

StartupRefused(s) ==
    /\ call = Idle /\ be[s] = "closed" /\ s \notin playing
    /\ \/ MasterIsAwakeUnclocked
       \/ (mpm = "error" \/ rpm = "error") /\ UNCHANGED <<ClockVars, mpm, dead, blind>>
    /\ UNCHANGED <<vars, Codec, Link>>

\* The render stream's parameters go to the macro, too.
HwParams(s) ==
    /\ snd_hw_params(s)
    /\ IF s = "render" THEN wsa_macro_hw_params ELSE UNCHANGED macroVars
    /\ Access
    /\ UNCHANGED <<Link, mpm, dead>>

\* The rest of a back end's calls is the bus's alone, and uses the master.
BusCall(s) ==
    /\ \/ snd_shutdown(s) \/ snd_hw_params_fails(s) \/ snd_prepare(s) \/ snd_hw_free(s)
       \/ sdw_prepare_stream(s) \/ sdw_prepare_stream_rejects(s)
       \/ sdw_enable_stream(s) \/ sdw_enable_stream_rejects(s)
       \/ sdw_disable_stream(s) \/ sdw_disable_stream_rejects(s)
       \/ sdw_deprepare_stream(s) \/ sdw_deprepare_stream_rejects(s)
       \/ sdw_stream_remove(s)
    /\ UNCHANGED <<macroVars, Link, mpm, dead>>
    /\ Access

DapmStart(s) ==
    /\ call = Idle /\ prepared[s] /\ s \notin playing
    /\ StreamEvent(playing \cup {s})
    /\ UNCHANGED <<vars, masterVars>>

DapmStop(s) ==
    /\ call = Idle /\ be[s] = "closed" /\ s \in playing
    /\ StreamEvent(playing \ {s})
    /\ UNCHANGED <<vars, masterVars>>

\* The timers of autosuspend.
MasterSleeps ==
    /\ call = Idle /\ AllClosed /\ playing = {}
    /\ swrm_runtime_suspend \/ swrm_runtime_suspend_fails
    /\ UNCHANGED <<vars, Codec>>

MacroSleeps ==
    /\ Suspend_CacheOnly \/ Suspend_Clocks
    /\ UNCHANGED <<vars, masterVars>>

BusControl == Control /\ UNCHANGED <<vars, masterVars>>

\* An amplifier that comes or goes under an open stream is Wsa884x's subject.
BusLink ==
    /\ AllClosed /\ call = Idle
    /\ \E a \in Amps : LinkChanges(a)
    /\ UNCHANGED <<vars, macroVars>>

BusInterrupt ==
    /\ Interrupt
    /\ UNCHANGED <<vars, Codec>>

BusNext ==
    \/ \E s \in Streams :
        \/ Turn(s) /\ (Startup(s) \/ StartupRefused(s) \/ HwParams(s) \/ BusCall(s))
        \/ DapmStart(s) \/ DapmStop(s)
    \/ MasterSleeps \/ MacroSleeps \/ BusControl \/ BusLink \/ BusInterrupt

BusSpec == BusInit /\ [][BusNext]_busVars

-----------------------------------------------------------------------------
(* The macro's registers are what the controls say, and a path in power    *)
(* has all it needs: HeardAsSet and PathIsWhole of WsaMacro.               *)
MacroIsWhole == HeardAsSet /\ PathIsWhole
=============================================================================
