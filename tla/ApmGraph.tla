------------------------------ MODULE ApmGraph ------------------------------
(***************************************************************************)
(* The life of a struct audioreach_graph (q6apm.c): found or allocated by  *)
(* q6apm_graph_open, shared by the front end (q6apm-dai.c), the back end   *)
(* (q6apm-lpass-dais.c) and the mixer controls that hold it while they     *)
(* talk to the DSP, started and stopped through start_count, closed by     *)
(* whoever drops the last reference.                                       *)
(*                                                                         *)
(* One PCM stream is modelled: a front end "fe" and a back end "be", whose *)
(* operations ASoC runs one at a time (DPCM holds the card's pcm mutex),   *)
(* and any number of mixer-control writers, which take only apm->lock.     *)
(* Every command to the DSP is a step of its own, so the other threads     *)
(* run between any two of them.                                            *)
(***************************************************************************)
EXTENDS Integers, FiniteSets

CONSTANTS
  Graph,      \* addresses of struct audioreach_graph; a freed one is reused
  FeId, BeId, \* the graph ids of the front end and of the back end
  Pull,       \* the protected pull graph (q6apm_graph.pull_mode)
  Ctl,        \* threads in a mixer control's put handler
  None,       \* no graph
  StopBound   \* model bound: how far start_count may fall below zero

Stream == {"fe", "be"}
Thread == Stream \cup Ctl
Ids    == {FeId, BeId}

ASSUME GraphAssumption ==
  /\ Pull \in BOOLEAN /\ StopBound \in Nat
  /\ None \notin Graph
  /\ IsFiniteSet(Ctl) /\ Ctl \cap Stream = {}
  /\ Pull => FeId = BeId

VARIABLES
  idr,        \* apm->graph_idr
  mem,        \* which addresses hold a live graph
  ref,        \* graph->refcount; Saturated once refcount_t has seen misuse
  starts,     \* graph->start_count
  res,        \* what the host owes the DSP: "pos", "dsp", "oob"
  dsp,        \* the DSP's graph: closed, open or started
  ring,       \* the DSP accepted the pull ring since GRAPH_OPEN
  pc,         \* where each thread is
  ptr,        \* its pointer to a graph (q6apm_graph.ar_graph or a local)
  pcm,        \* the stream's DPCM state
  feState,    \* prtd->state
  beStarted,  \* dai_data->is_port_started
  raced       \* history: a reference was taken on a dying graph

vars == <<idr, mem, ref, starts, res, dsp, ring, pc, ptr, pcm, feState,
          beStarted, raced>>
objVars == <<mem, ref, starts, res>>
strVars == <<pcm, feState, beStarted>>

Saturated == -1
Id(t) == IF t = "be" THEN BeId ELSE FeId

UnwindPc == {"unoob", "undsp", "unpos", "unidr"}
GetPc    == {"find", "kref", "alloc", "init", "mappos", "gopen", "mapoob",
             "cal", "port"}
Pc       == GetPc \cup UnwindPc \cup
            {"idle", "put", "cmd", "bprep", "bstop", "bcfg", "bstart", "bclose",
             "bclosestop", "fprep", "fstop", "ring", "fmt", "gprep", "fstart",
             "fclose", "fclosestop"}

(* A thread counted in ref: it took its reference and has not dropped it.  *)
Counted(t) == ptr[t] # None /\ pc[t] \notin {"kref", "init"} \cup UnwindPc
Holders(o) == {t \in Thread : Counted(t) /\ ptr[t] = o}

Goto(t, at) == pc' = [pc EXCEPT ![t] = at]

Init ==
  /\ idr = [i \in Ids |-> None]
  /\ mem = [o \in Graph |-> "free"]
  /\ ref = [o \in Graph |-> 0]
  /\ starts = [o \in Graph |-> 0]
  /\ res = [o \in Graph |-> {}]
  /\ dsp = [i \in Ids |-> "closed"]
  /\ ring = [i \in Ids |-> FALSE]
  /\ pc = [t \in Thread |-> "idle"]
  /\ ptr = [t \in Thread |-> None]
  /\ pcm = "closed" /\ feState = "IDLE" /\ beStarted = FALSE
  /\ raced = FALSE

-----------------------------------------------------------------------------
(* audioreach_send_cmd_sync: "ok" the DSP did it and said so, "err" it did *)
(* nothing (rejected, or the packet was lost), "late" it did it but the    *)
(* answer missed the five seconds.  Only "ok" returns 0.                   *)
Outcome == {"ok", "err", "late"}
Done(r) == r # "err"

DspOpen(i)  == dsp' = [dsp EXCEPT ![i] = "open"] /\ ring' = [ring EXCEPT ![i] = FALSE]
DspClose(i) == dsp' = [dsp EXCEPT ![i] = "closed"] /\ ring' = [ring EXCEPT ![i] = FALSE]
DspStart(i) == dsp' = [dsp EXCEPT ![i] = IF @ = "open" THEN "started" ELSE @]
DspStop(i)  == dsp' = [dsp EXCEPT ![i] = IF @ = "started" THEN "open" ELSE @]

(* The thread of the stream's back end or front end, or a control, is done *)
(* with the call that lost or never got its graph.                         *)
Leave(t) ==
  /\ ptr' = [ptr EXCEPT ![t] = None]
  /\ pcm' = IF t = "fe" THEN "closed"
            ELSE IF t = "be" /\ pcm = "preparing" THEN "open" ELSE pcm
  /\ pc' = IF t = "be" /\ pcm = "closing"
           THEN [pc EXCEPT !["be"] = "idle", !["fe"] = "fclose"]
           ELSE [pc EXCEPT ![t] = "idle"]

-----------------------------------------------------------------------------
(* q6apm_get_audioreach_graph and the rest of q6apm_graph_open.            *)

Find(t) ==
  /\ pc[t] = "find"
  /\ IF idr[Id(t)] # None
     THEN ptr' = [ptr EXCEPT ![t] = idr[Id(t)]] /\ Goto(t, "kref")
     ELSE Goto(t, "alloc") /\ UNCHANGED ptr
  /\ UNCHANGED <<idr, objVars, dsp, ring, strVars, raced>>

(* kref_get: from zero, or on freed memory, the count is no longer sound.  *)
KrefGet(o) ==
  /\ ref' = [ref EXCEPT ![o] = IF @ <= 0 THEN Saturated ELSE @ + 1]
  /\ raced' = (raced \/ ref[o] <= 0 \/ mem[o] = "free")

GetFound(t) ==
  /\ pc[t] = "kref"
  /\ KrefGet(ptr[t])
  /\ Goto(t, "port")
  /\ UNCHANGED <<idr, mem, starts, res, dsp, ring, ptr, strVars>>

Alloc(t) ==
  /\ pc[t] = "alloc"
  /\ \/ /\ Leave(t)                       \* -ENOMEM, -ENODEV, or the id is taken
        /\ UNCHANGED <<idr, objVars>>
     \/ /\ idr[Id(t)] = None
        /\ \E o \in Graph :
             /\ mem[o] = "free"
             /\ mem' = [mem EXCEPT ![o] = "live"]
             /\ ref' = [ref EXCEPT ![o] = 0]
             /\ starts' = [starts EXCEPT ![o] = 0]
             /\ res' = [res EXCEPT ![o] = {}]
             /\ idr' = [idr EXCEPT ![Id(t)] = o]
             /\ ptr' = [ptr EXCEPT ![t] = o]
        /\ Goto(t, "init")
        /\ UNCHANGED pcm
  /\ UNCHANGED <<dsp, ring, feState, beStarted, raced>>

KrefInit(t) ==
  /\ pc[t] = "init"
  /\ ref' = [ref EXCEPT ![ptr[t]] = 1]
  /\ Goto(t, IF Pull THEN "mappos" ELSE "gopen")
  /\ UNCHANGED <<idr, mem, starts, res, dsp, ring, ptr, strVars, raced>>

MapPosition(t) ==
  /\ pc[t] = "mappos"
  /\ \/ res' = [res EXCEPT ![ptr[t]] = @ \cup {"pos"}] /\ Goto(t, "gopen")
     \/ UNCHANGED res /\ Goto(t, "unidr")
  /\ UNCHANGED <<idr, mem, ref, starts, dsp, ring, ptr, strVars, raced>>

GraphOpen(t) ==
  /\ pc[t] = "gopen"
  /\ \E r \in Outcome :
       /\ IF Done(r) THEN DspOpen(Id(t)) ELSE UNCHANGED <<dsp, ring>>
       /\ IF r = "ok"
          THEN /\ res' = [res EXCEPT ![ptr[t]] = @ \cup {"dsp"}]
               /\ Goto(t, IF Pull THEN "mapoob" ELSE "port")
          ELSE UNCHANGED res /\ Goto(t, "unpos")
  /\ UNCHANGED <<idr, mem, ref, starts, ptr, strVars, raced>>

(* A mapping that fails frees its own memory.                              *)
MapOob(t) ==
  /\ pc[t] = "mapoob"
  /\ \/ res' = [res EXCEPT ![ptr[t]] = @ \cup {"oob"}] /\ Goto(t, "cal")
     \/ UNCHANGED res /\ Goto(t, "undsp")
  /\ UNCHANGED <<idr, mem, ref, starts, dsp, ring, ptr, strVars, raced>>

(* Mutant: the failed calibration skips the out-of-band unmap.             *)
Calibrate_SkipOob(t) ==
  /\ pc[t] = "cal"
  /\ \/ Goto(t, "port")
     \/ Goto(t, "undsp")
  /\ UNCHANGED <<idr, objVars, dsp, ring, ptr, strVars, raced>>

Calibrate(t) ==
  /\ pc[t] = "cal"
  /\ \/ Goto(t, "port")
     \/ Goto(t, "unoob")
  /\ UNCHANGED <<idr, objVars, dsp, ring, ptr, strVars, raced>>

(* Mutant: a failed port allocation keeps the graph's reference.           *)
AllocPort_NoPut(t) ==
  /\ pc[t] = "port"
  /\ \/ Leave(t)
     \/ t = "fe" /\ Goto(t, "idle") /\ pcm' = "open" /\ UNCHANGED ptr
     \/ t = "be" /\ Goto(t, "bcfg") /\ UNCHANGED <<pcm, ptr>>
  /\ UNCHANGED <<idr, objVars, dsp, ring, feState, beStarted, raced>>

(* kzalloc of struct q6apm_graph and gpr_alloc_port; then open returns.    *)
AllocPort(t) ==
  /\ pc[t] = "port"
  /\ \/ Goto(t, "put") /\ UNCHANGED pcm
     \/ t = "fe" /\ Goto(t, "idle") /\ pcm' = "open"
     \/ t = "be" /\ Goto(t, "bcfg") /\ UNCHANGED pcm
  /\ UNCHANGED <<idr, objVars, dsp, ring, ptr, feState, beStarted, raced>>

(* Mutant: a put that always releases.                                     *)
Put_Always(t) ==
  /\ pc[t] = "put"
  /\ ref' = [ref EXCEPT ![ptr[t]] = IF @ > 0 THEN @ - 1 ELSE Saturated]
  /\ Goto(t, "unoob")
  /\ UNCHANGED <<idr, mem, starts, res, dsp, ring, ptr, strVars, raced>>
(* kref_put: the last reference runs q6apm_put_audioreach_graph here.      *)
Put(t) ==
  /\ pc[t] = "put"
  /\ ref' = [ref EXCEPT ![ptr[t]] = IF @ > 0 THEN @ - 1 ELSE Saturated]
  /\ IF ref[ptr[t]] = 1
     THEN Goto(t, "unoob") /\ UNCHANGED <<ptr, pcm>>
     ELSE Leave(t)
  /\ UNCHANGED <<idr, mem, starts, res, dsp, ring, feState, beStarted, raced>>

(* The release steps, in the order both the put and the failed open run    *)
(* them; what the DSP answers is ignored.                                  *)
UnmapOob(t) ==
  /\ pc[t] = "unoob"
  /\ res' = [res EXCEPT ![ptr[t]] = @ \ {"oob"}]
  /\ Goto(t, "undsp")
  /\ UNCHANGED <<idr, mem, ref, starts, dsp, ring, ptr, strVars, raced>>

GraphClose(t) ==
  /\ pc[t] = "undsp"
  /\ res' = [res EXCEPT ![ptr[t]] = @ \ {"dsp"}]
  /\ \E r \in Outcome :
       IF Done(r) THEN DspClose(Id(t)) ELSE UNCHANGED <<dsp, ring>>
  /\ Goto(t, "unpos")
  /\ UNCHANGED <<idr, mem, ref, starts, ptr, strVars, raced>>

UnmapPosition(t) ==
  /\ pc[t] = "unpos"
  /\ res' = [res EXCEPT ![ptr[t]] = @ \ {"pos"}]
  /\ Goto(t, "unidr")
  /\ UNCHANGED <<idr, mem, ref, starts, dsp, ring, ptr, strVars, raced>>

IdrRemove(t) ==
  /\ pc[t] = "unidr"
  /\ idr' = [idr EXCEPT ![Id(t)] = None]
  /\ mem' = [mem EXCEPT ![ptr[t]] = "free"]
  /\ Leave(t)
  /\ UNCHANGED <<ref, starts, res, dsp, ring, feState, beStarted, raced>>

-----------------------------------------------------------------------------
(* q6apm_graph_start and q6apm_graph_stop on a thread's graph.  A start    *)
(* that returns 0 goes to the next stage; STOP's answer is ignored.        *)

StartOk(t, r) ==
  IF starts[ptr[t]] = 0
  THEN /\ IF Done(r) THEN DspStart(Id(t)) ELSE UNCHANGED dsp
       /\ starts' = [starts EXCEPT ![ptr[t]] = IF r = "ok" THEN @ + 1 ELSE @]
  ELSE r = "ok" /\ starts' = [starts EXCEPT ![ptr[t]] = @ + 1] /\ UNCHANGED dsp

StopDec(t, send, next) ==
  /\ starts' = [starts EXCEPT ![ptr[t]] = @ - 1]
  /\ Goto(t, IF starts[ptr[t]] - 1 > 0 THEN next ELSE send)

SendStop(t, at, next) ==
  /\ pc[t] = at
  /\ \E r \in Outcome : IF Done(r) THEN DspStop(Id(t)) ELSE UNCHANGED dsp
  /\ Goto(t, next)
  /\ UNCHANGED <<idr, objVars, ring, ptr, strVars, raced>>

-----------------------------------------------------------------------------
(* The PCM stream: ASoC's DPCM calls, and the two drivers' handlers.       *)

FeOpen ==
  /\ pcm = "closed" /\ pcm' = "opening"
  /\ Goto("fe", "find")
  /\ UNCHANGED <<idr, objVars, dsp, ring, ptr, feState, beStarted, raced>>

(* The back end is prepared first; one already prepared may be skipped.    *)
Prepare ==
  /\ pcm \in {"open", "prepared"} /\ pcm' = "preparing"
  /\ starts[ptr["fe"]] > -StopBound
  /\ \/ Goto("be", "bprep")
     \/ ptr["be"] # None /\ Goto("fe", "fprep")
  /\ UNCHANGED <<idr, objVars, dsp, ring, ptr, feState, beStarted, raced>>

(* q6apm_lpass_dai_prepare.                                                *)
BeAfterStop == IF ptr["be"] = None THEN "find" ELSE "bcfg"

(* Mutant: the stop of a started port leaves is_port_started set.          *)
BePrepare_KeepFlag ==
  /\ pc["be"] = "bprep"
  /\ IF beStarted
     THEN StopDec("be", "bstop", BeAfterStop)
     ELSE Goto("be", BeAfterStop) /\ UNCHANGED starts
  /\ UNCHANGED <<idr, mem, ref, res, dsp, ring, ptr, strVars, raced>>

BePrepare ==
  /\ pc["be"] = "bprep"
  /\ beStarted' = FALSE
  /\ IF beStarted
     THEN StopDec("be", "bstop", BeAfterStop)
     ELSE Goto("be", BeAfterStop) /\ UNCHANGED starts
  /\ UNCHANGED <<idr, mem, ref, res, dsp, ring, ptr, pcm, feState, raced>>

BeStop == SendStop("be", "bstop", BeAfterStop)

BeConfigure ==
  /\ pc["be"] = "bcfg"
  /\ \/ pc' = [pc EXCEPT !["be"] = "idle", !["fe"] = "fprep"]
     \/ ~Pull /\ Goto("be", "put")
  /\ UNCHANGED <<idr, objVars, dsp, ring, ptr, strVars, raced>>

(* q6apm_dai_prepare.                                                      *)
FePrepare ==
  /\ pc["fe"] = "fprep"
  /\ IF Pull /\ feState # "IDLE"
     THEN feState' = "RUNNING" /\ pcm' = "prepared" /\ Goto("fe", "idle") /\ UNCHANGED starts
     ELSE /\ IF feState # "IDLE"
             THEN StopDec("fe", "fstop", "ring")
             ELSE Goto("fe", "ring") /\ UNCHANGED starts
          /\ UNCHANGED <<feState, pcm>>
  /\ UNCHANGED <<idr, mem, ref, res, dsp, ring, ptr, beStarted, raced>>

FeStop == SendStop("fe", "fstop", "ring")

PrepareFails == Goto("fe", "idle") /\ pcm' = "open"

(* q6apm_graph_configure_pull's first command, or the shared-memory format *)
(* of a push graph.  The DSP refuses a second pull ring (AR_EALREADY).     *)
FeShmem ==
  /\ pc["fe"] = "ring"
  /\ \/ /\ ~(Pull /\ ring[FeId])
        /\ ring' = [ring EXCEPT ![FeId] = Pull]
        /\ \/ Goto("fe", "fmt") /\ UNCHANGED pcm
           \/ PrepareFails
     \/ PrepareFails /\ UNCHANGED ring
  /\ UNCHANGED <<idr, objVars, dsp, ptr, feState, beStarted, raced>>

(* Event registration, media formats, protection, fragment allocation.     *)
FeFormat ==
  /\ pc["fe"] = "fmt"
  /\ \/ Goto("fe", IF Pull THEN "fstart" ELSE "gprep") /\ UNCHANGED pcm
     \/ PrepareFails
  /\ UNCHANGED <<idr, objVars, dsp, ring, ptr, feState, beStarted, raced>>

GraphPrepare ==
  /\ pc["fe"] = "gprep"
  /\ \/ Goto("fe", "fstart") /\ UNCHANGED pcm
     \/ PrepareFails
  /\ UNCHANGED <<idr, objVars, dsp, ring, ptr, feState, beStarted, raced>>

FeStart ==
  /\ pc["fe"] = "fstart"
  /\ \E r \in Outcome :
       /\ StartOk("fe", r)
       /\ IF r = "ok"
          THEN feState' = "RUNNING" /\ pcm' = "prepared" /\ Goto("fe", "idle")
          ELSE PrepareFails /\ UNCHANGED feState
  /\ UNCHANGED <<idr, mem, ref, res, ring, ptr, beStarted, raced>>

(* trigger(START): nothing in the front end, the back end starts its port. *)
(* If that fails the PCM core undoes the start with trigger(STOP).         *)
TriggerStart ==
  /\ pcm = "prepared" /\ pcm' = "starting"
  /\ Goto("be", "bstart")
  /\ UNCHANGED <<idr, objVars, dsp, ring, ptr, feState, beStarted, raced>>

BeStart ==
  /\ pc["be"] = "bstart"
  /\ Goto("be", "idle")
  /\ IF beStarted
     THEN pcm' = "running" /\ UNCHANGED <<starts, dsp, feState, beStarted>>
     ELSE \E r \in Outcome :
            /\ StartOk("be", r)
            /\ beStarted' = (r = "ok")
            /\ pcm' = IF r = "ok" THEN "running" ELSE "prepared"
            /\ feState' = IF r = "ok" THEN feState ELSE "STOPPED"
  /\ UNCHANGED <<idr, mem, ref, res, ring, ptr, raced>>

TriggerStop ==
  /\ pcm = "running" /\ pcm' = "open"
  /\ feState' = "STOPPED"
  /\ UNCHANGED <<idr, objVars, dsp, ring, pc, ptr, beStarted, raced>>

(* close: q6apm_lpass_dai_shutdown, then q6apm_dai_close.                  *)
Close ==
  /\ pcm \in {"open", "prepared"} /\ pcm' = "closing"
  /\ Goto("be", "bclose")
  /\ UNCHANGED <<idr, objVars, dsp, ring, ptr, feState, beStarted, raced>>

BeShutdown ==
  /\ pc["be"] = "bclose"
  /\ beStarted' = FALSE
  /\ IF beStarted
     THEN StopDec("be", "bclosestop", "put")
     ELSE /\ UNCHANGED starts
          /\ IF ptr["be"] # None THEN Goto("be", "put")
             ELSE pc' = [pc EXCEPT !["be"] = "idle", !["fe"] = "fclose"]
  /\ UNCHANGED <<idr, mem, ref, res, dsp, ring, ptr, pcm, feState, raced>>

BeShutdownStop == SendStop("be", "bclosestop", "put")

(* Mutant: a close that leaves the front end's start counted.              *)
FeClose_NoStop ==
  /\ pc["fe"] = "fclose"
  /\ feState' = "IDLE"
  /\ Goto("fe", "put")
  /\ UNCHANGED <<idr, objVars, dsp, ring, ptr, pcm, beStarted, raced>>

FeClose ==
  /\ pc["fe"] = "fclose"
  /\ feState' = "IDLE"
  /\ IF feState # "IDLE"
     THEN StopDec("fe", "fclosestop", "put")
     ELSE Goto("fe", "put") /\ UNCHANGED starts
  /\ UNCHANGED <<idr, mem, ref, res, dsp, ring, ptr, pcm, beStarted, raced>>

FeCloseStop == SendStop("fe", "fclosestop", "put")

-----------------------------------------------------------------------------
(* The mixer controls: q6apm_sp11_get_running_protected_graph finds and    *)
(* references the graph under apm->lock, the handler sends its commands,   *)
(* and drops the reference.                                                *)

(* Mutant: the control uses the graph it found without a reference.        *)
CtlGet_NoRef(c) ==
  /\ pc[c] = "idle" /\ Pull
  /\ idr[FeId] # None /\ starts[idr[FeId]] > 0
  /\ ptr' = [ptr EXCEPT ![c] = idr[FeId]]
  /\ Goto(c, "cmd")
  /\ UNCHANGED <<idr, objVars, dsp, ring, strVars, raced>>

CtlGet(c) ==
  /\ pc[c] = "idle" /\ Pull
  /\ idr[FeId] # None /\ starts[idr[FeId]] > 0
  /\ KrefGet(idr[FeId])
  /\ ptr' = [ptr EXCEPT ![c] = idr[FeId]]
  /\ Goto(c, "cmd")
  /\ UNCHANGED <<idr, mem, starts, res, dsp, ring, strVars>>

CtlSend(c) ==
  /\ pc[c] = "cmd"
  /\ Goto(c, "put")
  /\ UNCHANGED <<idr, objVars, dsp, ring, ptr, strVars, raced>>

-----------------------------------------------------------------------------
Get(t) ==
  \/ Find(t) \/ GetFound(t) \/ Alloc(t) \/ KrefInit(t) \/ MapPosition(t)
  \/ GraphOpen(t) \/ MapOob(t) \/ Calibrate(t) \/ AllocPort(t)
Release(t) ==
  Put(t) \/ UnmapOob(t) \/ GraphClose(t) \/ UnmapPosition(t) \/ IdrRemove(t)

User == FeOpen \/ Prepare \/ TriggerStart \/ TriggerStop \/ Close
Driver ==
  \/ \E t \in Stream : Get(t)
  \/ \E t \in Thread : Release(t)
  \/ BePrepare \/ BeStop \/ BeConfigure \/ BeStart \/ BeShutdown \/ BeShutdownStop
  \/ FePrepare \/ FeStop \/ FeShmem \/ FeFormat \/ GraphPrepare \/ FeStart
  \/ FeClose \/ FeCloseStop
  \/ \E c \in Ctl : CtlSend(c)
Next == User \/ Driver \/ \E c \in Ctl : CtlGet(c)

(* Every DSP command returns within five seconds, so a call in progress    *)
(* takes its next step; nothing obliges applications to make calls.        *)
StreamStep ==
  \/ \E t \in Stream : Get(t) \/ Release(t)
  \/ BePrepare \/ BeStop \/ BeConfigure \/ BeStart \/ BeShutdown \/ BeShutdownStop
  \/ FePrepare \/ FeStop \/ FeShmem \/ FeFormat \/ GraphPrepare \/ FeStart
  \/ FeClose \/ FeCloseStop
Spec == Init /\ [][Next]_vars
FairSpec ==
  /\ Spec
  /\ WF_vars(StreamStep)
  /\ \A c \in Ctl : WF_vars(Release(c) \/ CtlSend(c))
-----------------------------------------------------------------------------
(* Properties.                                                             *)

(* Every variable keeps its type: the code's fields, flags and stages.     *)
TypeOK ==
  /\ idr \in [Ids -> Graph \cup {None}]
  /\ mem \in [Graph -> {"free", "live"}]
  /\ ref \in [Graph -> Nat \cup {Saturated}]
  /\ starts \in [Graph -> Int]
  /\ res \in [Graph -> SUBSET {"pos", "dsp", "oob"}]
  /\ dsp \in [Ids -> {"closed", "open", "started"}]
  /\ ring \in [Ids -> BOOLEAN]
  /\ pc \in [Thread -> Pc]
  /\ ptr \in [Thread -> Graph \cup {None}]
  /\ pcm \in {"closed", "opening", "open", "preparing", "prepared", "starting",
             "running", "closing"}
  /\ feState \in {"IDLE", "STOPPED", "RUNNING"}
  /\ beStarted \in BOOLEAN
  /\ raced \in BOOLEAN

Releasing(o) == \E t \in Thread : ptr[t] = o /\ pc[t] \in UnwindPc \cup {"init"}

(* kref discipline of q6apm_graph_open/close and the mixer controls: as    *)
(* long as no open has taken a reference on a dying graph, the count is    *)
(* the number of threads that still use the graph.                         *)
CountIsUsers ==
  ~raced => \A o \in Graph :
    mem[o] = "live" /\ ~Releasing(o) => ref[o] = Cardinality(Holders(o))

(* No use after free, and one graph per id: whoever uses a graph uses live *)
(* memory, and the very graph apm->graph_idr still names.                  *)
UsersHaveLiveGraph ==
  ~raced => \A t \in Thread :
    Counted(t) => mem[ptr[t]] = "live" /\ idr[Id(t)] = ptr[t]

(* A freed graph owes the DSP nothing: each failing stage of the open and  *)
(* the last put undo exactly the stages that were done.                    *)
NothingLeaks ==
  ~raced =>
    /\ \A o \in Graph : mem[o] = "free" => res[o] = {}
    /\ (\A t \in Thread : pc[t] = "idle") /\ pcm = "closed"
         => \A o \in Graph : mem[o] = "free"

(* q6apm_graph_start and q6apm_graph_stop are balanced whichever command   *)
(* the DSP refuses: start_count is what the graph's two users owe it, the  *)
(* back end's start until its stop, the front end's until its close or the *)
(* stop a push stream's prepare begins with.  A push stream may owe more   *)
(* than is counted: its prepare that fails has stopped the graph already.  *)
Restarting == pc["fe"] \in {"fstop", "ring", "fmt", "gprep", "fstart"}
FeOwesStop == IF feState # "IDLE" /\ ~Restarting THEN 1 ELSE 0
BeOwesStop == IF beStarted THEN 1 ELSE 0
Owed(o) == (IF ptr["fe"] = o THEN FeOwesStop ELSE 0)
           + (IF ptr["be"] = o THEN BeOwesStop ELSE 0)
Balanced ==
  \A o \in Graph : mem[o] = "live"
    => starts[o] <= Owed(o) /\ (Pull => starts[o] = Owed(o))
StartsBalanced == ~raced => Balanced

(* What the DSP was given is taken back, and what was started is stopped.  *)
BooksBalance == NothingLeaks /\ StartsBalanced

(* Every call in progress ends, a stream's as well as a control's put, and *)
(* a closed stream's graph is given back: the mixer controls may outlive   *)
(* the close, the last of them releases the graph, and none can take it    *)
(* again, for the stopped graph's start_count is back at zero.             *)
CallsEnd ==
  /\ \A call \in {"opening", "preparing", "starting"} : pcm = call ~> pcm # call
  /\ pcm = "closing" ~> pcm = "closed"
  /\ \A c \in Ctl : pc[c] # "idle" ~> pc[c] = "idle"
  /\ \A o \in Graph :
       pcm = "closed" /\ mem[o] = "live" ~> pcm # "closed" \/ mem[o] = "free" \/ raced

-----------------------------------------------------------------------------
(* The shared graph of one id, as its clients see it (SharedGraph).        *)
Users == {t \in Thread : ptr[t] # None /\ pc[t] \notin {"kref"} \cup UnwindPc}
OpeningPc == {"init", "mappos", "gopen", "mapoob", "cal"}
Phase ==
  IF raced THEN "broken"
  ELSE IF idr[FeId] = None THEN "absent"
  ELSE IF \E t \in Thread : pc[t] \in UnwindPc THEN "closing"
  ELSE IF \E t \in Stream : pc[t] \in OpeningPc THEN "opening"
  ELSE "present"

Shared == INSTANCE SharedGraph
  WITH Client <- Thread, phase <- Phase, users <- IF raced THEN {} ELSE Users

(* With one graph id, the whole machinery of lookups, counts, unwinding    *)
(* and puts implements the promise of SharedGraph.                         *)
ImplementsSharedGraph == Shared!Spec

-----------------------------------------------------------------------------
(* The inductive invariant behind the counting properties.                 *)

(* Who may be where: one stream call at a time, as DPCM's mutex has it.    *)
BeGetPc   == GetPc \cup UnwindPc \cup {"put", "bprep", "bstop", "bcfg"}
FePrepPc  == {"fprep", "fstop", "ring", "fmt", "gprep", "fstart"}
BeClosePc == UnwindPc \cup {"put", "bclose", "bclosestop"}
FeClosePc == UnwindPc \cup {"put", "fclose", "fclosestop"}
OneCall ==
  /\ pcm \in {"closed", "open", "prepared", "running"}
       => pc["fe"] = "idle" /\ pc["be"] = "idle"
  /\ pcm = "opening"
       => pc["be"] = "idle" /\ pc["fe"] \in GetPc \cup UnwindPc \cup {"put"}
  /\ pcm = "preparing"
       => (pc["fe"] = "idle" /\ pc["be"] \in BeGetPc) \/ (pc["be"] = "idle" /\ pc["fe"] \in FePrepPc)
  /\ pcm = "starting" => pc["fe"] = "idle" /\ pc["be"] = "bstart"
  /\ pcm = "closing"
       => (pc["fe"] = "idle" /\ pc["be"] \in BeClosePc) \/ (pc["be"] = "idle" /\ pc["fe"] \in FeClosePc)
  /\ \A c \in Ctl : pc[c] \in {"idle", "cmd", "put"} \cup UnwindPc

(* Which stages of a call have a graph in hand.                            *)
InHand == (GetPc \ {"find", "alloc"}) \cup UnwindPc
          \cup {"put", "cmd", "bcfg", "bclosestop"}
Pointers ==
  /\ \A t \in Thread : /\ pc[t] \in InHand => ptr[t] # None
                       /\ pc[t] \in {"find", "alloc"} => ptr[t] = None
  /\ pcm = "closed" => ptr["fe"] = None
  /\ pcm \notin {"closed", "opening"} => ptr["fe"] # None
  /\ beStarted \/ pcm \in {"prepared", "starting", "running"}
     \/ pc["fe"] \in FePrepPc => ptr["be"] # None
  /\ beStarted /\ pc["be"] # "idle" => pc["be"] \in {"bprep", "bstart", "bclose"}
  /\ \A c \in Ctl : /\ pc[c] = "idle" => ptr[c] = None
                    /\ pc[c] # "idle" => Pull

(* apm->graph_idr names each live graph once, under its own id.            *)
Named ==
  /\ \A i \in Ids : idr[i] # None => mem[idr[i]] = "live"
  /\ \A i, j \in Ids : idr[i] # None /\ idr[i] = idr[j] => i = j
  /\ \A o \in Graph : mem[o] = "live" => \E i \in Ids : idr[i] = o
Dying(t) == pc[t] \in UnwindPc \cup {"init"}
OwnedBy(t) ==
  /\ Counted(t) \/ Dying(t) => mem[ptr[t]] = "live" /\ idr[Id(t)] = ptr[t]
  /\ pc[t] = "kref" => Pull \/ idr[Id(t)] = ptr[t]
Owned == \A t \in Thread : OwnedBy(t)
(* Whoever opens or releases a graph is alone with it.                     *)
Apart(t, u) == Counted(u) \/ Dying(u) => ptr[u] # ptr[t]
AloneAt(t) ==
  /\ Dying(t) => \A u \in Thread \ {t} : Apart(t, u)
  /\ pc[t] \in OpeningPc => starts[ptr[t]] = 0 /\ Holders(ptr[t]) \subseteq {t}
  /\ pc[t] \in UnwindPc => ref[ptr[t]] = 0 \/ (t \in Stream /\ starts[ptr[t]] = 0)
Alone == \A t \in Thread : AloneAt(t)
RefIsUsers ==
  \A o \in Graph : mem[o] = "live" /\ ~Releasing(o)
    => Holders(o) # {} /\ ref[o] = Cardinality(Holders(o))

Sound == Named /\ Owned /\ Alone /\ RefIsUsers
(* The counts are sound, and a stream whose ids are its own never races.   *)
IInv == TypeOK /\ OneCall /\ Pointers /\ (~raced => Sound) /\ (raced => Pull)

(* Behind BooksBalance: the stages of the stream's calls say who owes the  *)
(* graph a stop.                                                           *)
OwingNothing == {"put", "fclosestop"} \cup UnwindPc
StreamBooks ==
  /\ pcm \in {"closed", "opening"} \/ (pcm = "closing" /\ pc["fe"] # "idle")
       => ptr["be"] = None
  /\ pcm \in {"closed", "opening"} \/ (pcm = "closing" /\ pc["fe"] \in OwingNothing)
       => feState = "IDLE"
  /\ pcm \in {"prepared", "starting", "running"} => feState # "IDLE"
  /\ Pull /\ pc["fe"] \in FePrepPc \ {"fprep"} => feState = "IDLE"
(* The stages of an open and of a release say what the DSP may hold.       *)
OwesAt(t) ==
  /\ pc[t] \in {"init", "mappos", "unidr"} => res[ptr[t]] = {}
  /\ pc[t] \in {"gopen", "unpos"} => res[ptr[t]] \subseteq {"pos"}
  /\ pc[t] \in {"mapoob", "undsp"} => res[ptr[t]] \subseteq {"pos", "dsp"}
Stages ==
  /\ \A t \in Thread : OwesAt(t)
  /\ \A o \in Graph : mem[o] = "free" => res[o] = {}
(* Behind ImplementsSharedGraph: a graph found and not yet referenced is   *)
(* not replaced by another.                                                *)
FoundStays ==
  \A t \in Thread : pc[t] = "kref" => idr[Id(t)] \in {None, ptr[t]}
BooksInv == StreamBooks /\ (~raced => Balanced /\ Stages /\ FoundStays)

-----------------------------------------------------------------------------
(* What comments of q6apm-dai.c say and the code does not keep.            *)

(* "only stop graph that is started" (q6apm_dai_close; prepare stops on    *)
(* the same test): no stop of a graph whose start_count is zero.           *)
OnlyStopStarted ==
  [][\A o \in Graph : starts'[o] < starts[o] => starts[o] > 0]_vars

(* "Now that graph as been prepared and started update the internal state  *)
(* accordingly" (q6apm_dai_prepare): RUNNING means the DSP was started.    *)
PreparedIsStarted ==
  pcm = "prepared" /\ feState = "RUNNING" => dsp[FeId] = "started"

(* "The SP11 pull endpoint is configured once for the lifetime of its      *)
(* graph": no prepare reaches the pull-ring command of a configured graph. *)
RingSentOnce == ~(Pull /\ pc["fe"] = "ring" /\ ring[FeId])
=============================================================================
