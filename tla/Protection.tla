----------------------------- MODULE Protection -----------------------------
(***************************************************************************)
(* Speaker protection of the pull graph.  The render stream has three back *)
(* ends: the speakers, and the voltage/current (VI) and supply (CPS)       *)
(* feedback of the amplifiers.  Preparing a feedback back end says whether *)
(* it is ready (x1e80100.c).  The front end's first prepare then sends the *)
(* pull ring, the formats, the protection or its bypass, and the volume    *)
(* stages, in one order (q6apm-dai.c, q6apm.c, audioreach.c), and starts   *)
(* the graph, which runs until the stream is closed.  Any command may      *)
(* fail, and a mixer control may keep the graph alive over a close.        *)
(*                                                                         *)
(* The calls of one stream are serialized by ALSA.  The reference and      *)
(* start counts are ApmGraph's subject, the pause is SoftPause's, and the  *)
(* match of answers with commands CmdSync's.                               *)
(***************************************************************************)
EXTENDS Sequences, SequencesExt

Feedback == {"vi", "cps"}
BackEnd == {"rx"} \cup Feedback

VARIABLES
  pcm,         \* the stream: closed, open (no parameters), setup, prepared, running
  feState,     \* prtd->state
  bePrepared,  \* the back ends DPCM has prepared since the last stop or hw_params
  ready,       \* sp11_vi_ready, sp11_cps_ready
  todo,        \* the steps left of the prepare in progress
  configured,  \* ar_graph->protection_configured
  held,        \* a mixer control holds a reference to the graph
  profile,     \* the topology's protection stages are complete and consistent
  dsp          \* the DSP's graph: see Fresh

vars == <<pcm, feState, bePrepared, ready, todo, configured, held, profile, dsp>>

(* The commands, named for the stages the driver logs.                     *)
PullSetup == <<"ring", "watermarks", "pause_event", "resume_event",
               "pull_format", "pcm_cnv_format", "mfc_format">>
Calibration == <<"sp_mode", "sp_tag", "get_sp", "get_spvi", "r0t0",
                 "channel_mode", "processing_mode", "spvi_tag",
                 "render_ep", "vi_ep">>

(* Mutants: feedback down first; only the render module down.              *)
Bypassing_FeedbackFirst == <<"spvi_off", "sp_off">>
Bypassing_RenderOnly == <<"sp_off">>

(* audioreach_sp11_set_protection_enabled: feedback up before render,      *)
(* render down before feedback.                                            *)
Enabling == Calibration \o <<"spvi_on", "sp_on">>
Bypassing == <<"sp_off", "spvi_off">>
Volume == <<"gain", "filter", "mute", "mixer">>

Switches == {"spvi_on", "sp_on", "sp_off", "spvi_off"}
Steps == {"back_ends", "protection", "configured", "start"} \cup Switches
         \cup ToSet(PullSetup) \cup ToSet(Calibration) \cup ToSet(Volume)

(* The graph as GRAPH_OPEN leaves it.  Whether its protection modules      *)
(* start enabled is the DSP's affair.                                      *)
Fresh(on) == [ring |-> FALSE, applied |-> {}, sp |-> on, spvi |-> on,
              started |-> FALSE]

Unready == [f \in Feedback |-> FALSE]

Init ==
  /\ pcm = "closed" /\ feState = "IDLE" /\ bePrepared = {}
  /\ ready = Unready /\ todo = <<>>
  /\ configured = FALSE /\ held = FALSE /\ profile \in BOOLEAN
  /\ dsp = Fresh(FALSE)

-----------------------------------------------------------------------------
(* A command's fate: done; refused; unprocessed, or done too late for the  *)
(* five-second wait, which both end in a timeout.                          *)
Outcome == {"ok", "refused", "lost", "late"}
Done(r) == r \in {"ok", "late"}

Applied(c) ==
  CASE c = "ring"     -> [dsp EXCEPT !.ring = TRUE]
    [] c = "sp_on"    -> [dsp EXCEPT !.sp = TRUE]
    [] c = "sp_off"   -> [dsp EXCEPT !.sp = FALSE]
    [] c = "spvi_on"  -> [dsp EXCEPT !.spvi = TRUE]
    [] c = "spvi_off" -> [dsp EXCEPT !.spvi = FALSE]
    [] c = "start"    -> [dsp EXCEPT !.started = TRUE]
    [] OTHER          -> [dsp EXCEPT !.applied = @ \cup {c}]

(* The DSP takes a pull ring once (AR_EALREADY).                           *)
Takes(c) == ~(c = "ring" /\ dsp.ring)

Idle == todo = <<>>
Doing(c) == ~Idle /\ Head(todo) = c
Fail == todo' = <<>> /\ UNCHANGED <<pcm, feState, configured>>

-----------------------------------------------------------------------------
(* The application's calls, and what they mean for the back ends.          *)

(* The open finds the graph a control still holds, or makes a new one.     *)
Open ==
  /\ pcm = "closed" /\ pcm' = "open"
  /\ dsp' \in IF held THEN {dsp} ELSE {Fresh(TRUE), Fresh(FALSE)}
  /\ UNCHANGED <<feState, bePrepared, ready, todo, configured, held, profile>>

HwParams ==
  /\ pcm \in {"open", "setup", "prepared"} /\ Idle
  /\ pcm' = "setup" /\ bePrepared' = {}
  /\ UNCHANGED <<feState, ready, todo, configured, held, profile, dsp>>

HwFree ==
  /\ pcm \in {"setup", "prepared"} /\ Idle
  /\ pcm' = "open" /\ bePrepared' = {} /\ ready' = Unready
  /\ UNCHANGED <<feState, todo, configured, held, profile, dsp>>

Prepare ==
  /\ pcm \in {"setup", "prepared"} /\ Idle
  /\ todo' = <<"back_ends">>
  /\ UNCHANGED <<pcm, feState, bePrepared, ready, configured, held, profile, dsp>>

Trigger ==
  /\ pcm = "prepared" /\ Idle /\ pcm' = "running"
  /\ UNCHANGED <<feState, bePrepared, ready, todo, configured, held, profile, dsp>>

Stop ==
  /\ pcm = "running" /\ pcm' = "setup"
  /\ feState' = "STOPPED" /\ bePrepared' = {}
  /\ UNCHANGED <<ready, todo, configured, held, profile, dsp>>

(* A close frees the parameters and stops the graph, which stays while a   *)
(* control holds it.  The outcome of GRAPH_STOP is not looked at.          *)
Close ==
  /\ pcm \notin {"closed", "running"} /\ Idle /\ pcm' = "closed"
  /\ feState' = "IDLE" /\ bePrepared' = {} /\ ready' = Unready
  /\ configured' = (held /\ configured)
  /\ \E r \in Outcome :
       dsp' = IF ~held THEN Fresh(FALSE)
              ELSE IF feState # "IDLE" /\ Done(r)
                   THEN [dsp EXCEPT !.started = FALSE]
                   ELSE dsp
  /\ UNCHANGED <<todo, held, profile>>

-----------------------------------------------------------------------------
(* Prepare: DPCM's back ends, then q6apm_dai_prepare.                      *)

(* x1e80100_snd_prepare and the port's own prepare.  Feedback that cannot  *)
(* be brought up is noted and tolerated; the speakers' failure is not, nor *)
(* is a graph or codec that cannot be had.                                 *)
BePrepare(b) ==
  /\ Doing("back_ends") /\ b \notin bePrepared
  /\ \E up, dai \in BOOLEAN :
       /\ ready' = [f \in Feedback |-> IF f = b THEN up ELSE ready[f]]
       /\ IF dai /\ (up \/ b \in Feedback)
          THEN bePrepared' = bePrepared \cup {b} /\ UNCHANGED <<pcm, feState, todo, configured>>
          ELSE Fail /\ UNCHANGED bePrepared
  /\ UNCHANGED <<held, profile, dsp>>

(* A graph that was started once is only armed again.                      *)
FePrepare ==
  /\ Doing("back_ends") /\ bePrepared = BackEnd
  /\ IF feState # "IDLE"
     THEN /\ feState' = "RUNNING" /\ pcm' = "prepared" /\ todo' = <<>>
     ELSE /\ todo' = PullSetup \o <<"protection">>
          /\ UNCHANGED <<feState, pcm>>
  /\ UNCHANGED <<bePrepared, ready, configured, held, profile, dsp>>

(* Mutant: the supply feedback is not asked for.                           *)
Fed_ViOnly == ready["vi"]

Fed == \A f \in Feedback : ready[f]

(* audioreach_validate_protection_profile: a stage is missing, doubled, of *)
(* another size or layout, or for a module the graph does not have.        *)
Broken == ~profile

(* audioreach_configure_protection, up to its first command: a graph       *)
(* configured before is left alone (the pull ring, refused before it comes *)
(* to that, makes this unreachable), a broken profile is refused.          *)
Configure ==
  /\ Doing("protection")
  /\ IF configured THEN todo' = <<"start">> /\ UNCHANGED <<pcm, feState, configured>>
     ELSE IF Broken THEN Fail
     ELSE /\ todo' = (IF Fed THEN Enabling ELSE Bypassing)
                     \o Volume \o <<"configured", "start">>
          /\ UNCHANGED <<pcm, feState, configured>>
  /\ UNCHANGED <<bePrepared, ready, held, profile, dsp>>

(* One command of the sequence; the first that fails ends the prepare.     *)
Send ==
  /\ ~Idle /\ Head(todo) \notin {"back_ends", "protection", "configured", "start"}
  /\ \E r \in Outcome :
       /\ r = "refused" \/ r = "lost" \/ Takes(Head(todo))
       /\ dsp' = IF Done(r) THEN Applied(Head(todo)) ELSE dsp
       /\ IF r = "ok" THEN todo' = Tail(todo) /\ UNCHANGED <<pcm, feState, configured>>
          ELSE Fail
  /\ UNCHANGED <<bePrepared, ready, held, profile>>

Configured ==
  /\ Doing("configured")
  /\ configured' = TRUE /\ todo' = Tail(todo)
  /\ UNCHANGED <<pcm, feState, bePrepared, ready, held, profile, dsp>>

(* The front end's q6apm_graph_start.                                      *)
Start ==
  /\ Doing("start")
  /\ \E r \in Outcome :
       /\ dsp' = IF Done(r) THEN Applied("start") ELSE dsp
       /\ IF r = "ok"
          THEN feState' = "RUNNING" /\ pcm' = "prepared" /\ todo' = <<>> /\ UNCHANGED configured
          ELSE Fail
  /\ UNCHANGED <<bePrepared, ready, held, profile>>

-----------------------------------------------------------------------------
(* A mixer control finds the graph while it is started; the last put of a  *)
(* graph no stream uses closes it.                                         *)
CtlGet ==
  /\ ~held /\ feState # "IDLE" /\ held' = TRUE
  /\ UNCHANGED <<pcm, feState, bePrepared, ready, todo, configured, profile, dsp>>

CtlPut ==
  /\ held /\ held' = FALSE
  /\ IF pcm = "closed" THEN configured' = FALSE /\ dsp' = Fresh(FALSE)
     ELSE UNCHANGED <<configured, dsp>>
  /\ UNCHANGED <<pcm, feState, bePrepared, ready, todo, profile>>

User == Open \/ HwParams \/ HwFree \/ Prepare \/ Trigger \/ Stop \/ Close
Next ==
  \/ User
  \/ \E b \in BackEnd : BePrepare(b)
  \/ FePrepare \/ Configure \/ Send \/ Configured \/ Start
  \/ CtlGet \/ CtlPut
Spec == Init /\ [][Next]_vars

-----------------------------------------------------------------------------
(* Properties.                                                             *)

(* Every variable keeps its type; a closed stream has no feedback, and no  *)
(* prepare is in progress unless the stream has parameters.                *)
TypeOK ==
  /\ pcm \in {"closed", "open", "setup", "prepared", "running"}
  /\ feState \in {"IDLE", "STOPPED", "RUNNING"}
  /\ bePrepared \subseteq BackEnd
  /\ ready \in [Feedback -> BOOLEAN]
  /\ ToSet(todo) \subseteq Steps
  /\ configured \in BOOLEAN /\ held \in BOOLEAN /\ profile \in BOOLEAN
  /\ dsp \in [ring : BOOLEAN, applied : SUBSET Steps, sp : BOOLEAN,
              spvi : BOOLEAN, started : BOOLEAN]
  /\ pcm \in {"closed", "open"} => ready = Unready /\ Idle

(* audioreach_configure_protection is all or nothing: whatever commands    *)
(* failed, however often the application tried again and whichever graph   *)
(* it got, a graph that runs has its volume stages and either the whole    *)
(* protection or none of it, never a half-connected one.                   *)
RunsWhole ==
  dsp.started =>
    /\ ToSet(Volume) \subseteq dsp.applied
    /\ \/ ToSet(Calibration) \subseteq dsp.applied /\ dsp.sp /\ dsp.spvi
       \/ ~dsp.sp /\ ~dsp.spvi

(* audioreach_sp11_set_protection_enabled's comment: the render module is  *)
(* never on while its feedback module is off, at any step of any sequence. *)
FeedbackFirst == dsp.sp => dsp.spvi

(* The graph that runs is protected or bypassed, never anything between.   *)
ProtectedOrBypassed == RunsWhole /\ FeedbackFirst

(* The render protection is switched on only in a calibrated graph and     *)
(* with both feedbacks ready at that moment (x1e80100.c sets, audioreach.c *)
(* reads the flags).                                                       *)
EnabledWhole ==
  [][pcm # "closed" /\ ~dsp.sp /\ dsp'.sp =>
       (\A f \in Feedback : ready[f]) /\ ToSet(Calibration) \subseteq dsp'.applied]_vars

(* x1e80100.c: "the frontend will explicitly bypass SP/SPVI before start". *)
(* It does so on the first prepare only: a stream stopped and prepared     *)
(* again keeps what was decided then.                                      *)
EnabledIsFed == pcm = "running" /\ dsp.sp => \A f \in Feedback : ready[f]
=============================================================================
