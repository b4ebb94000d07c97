------------------------------- MODULE Wsa884x -------------------------------
(* One WSA884x speaker amplifier: sound/soc/codecs/wsa884x.c.  Four threads   *)
(* meet in the driver: the PCM stream (power, mute), the health worker that   *)
(* looks at a powered amplifier every 100 ms, a reader of the temperature,    *)
(* and the SoundWire core, which reports the chip gone and back.              *)
(*                                                                            *)
(* What they share is the register cache.  A write goes to the cache first;   *)
(* if the cache is "only", the chip is not written and the cache is dirty,    *)
(* and if the write fails the cache keeps the value and nobody is told.       *)
(* "update" skips a write that would not change the cached value.             *)
(*                                                                            *)
(* The chip keeps its registers while the link is gone: its supplies and      *)
(* reset stay as they are for as long as the driver is bound.  A thread runs  *)
(* a short program (job), one register access or lock at a step.              *)
EXTENDS Integers, SequencesExt

CONSTANTS
    Retries,        \* WSA884X_PA_RECOVERY_RETRIES
    MaxFailures,    \* WSA884X_PA_RECOVERY_FAILURES
    MaxMishaps      \* PA errors, detachments, failed resumes and reads

ASSUME ConstantsAssumption ==
    Retries \in Nat \ {0} /\ MaxFailures \in Nat \ {0} /\ MaxMishaps \in Nat

VARIABLES
    chip,       \* the chip's registers
    err,        \* a PA error is latched in PA_FSM_STA1
    link,       \* is the chip on the bus: "here", "away"
    seen,       \* what wsa884x_update_status was last told of it
    cache,      \* regmap's copy of the registers that are not volatile
    cacheOnly, dirty, noDefaults,       \* regmap: cache_only, cache_dirty,
                                        \* no_sync_defaults
    hwInit,     \* wsa884x_priv.hw_init
    supply,     \* wsa884x_priv.supply_config: "unknown", "1S", "2S"
    paOn,       \* wsa884x_priv.pa_on
    failures,   \* wsa884x_priv.pa_recovery_failures
    work,       \* pa_health_work: "idle", "pending", "running"
    lock,       \* owner of sp_lock
    pm,         \* runtime PM: "active", "suspended"
    held,       \* worker and reader, while they hold the device active
    phase,      \* of the stream: closed, open, prepared, running, stopped
    job,        \* per thread, what it still has to do
    mishaps,
    torn,       \* history: a write failed after it had changed the cache, or
                \* the chip left the bus before it had its Windows settings
    hot         \* history: an error was latched while the stream was stopped

regmapVars == <<cache, cacheOnly, dirty, noDefaults, torn>>
vars == <<chip, err, link, seen, cache, cacheOnly, dirty, noDefaults, hwInit,
          supply, paOn, failures, work, lock, pm, held, phase, job, mishaps,
          torn, hot>>

Threads == {"stream", "worker", "reader", "bus"}

\* Registers, by what is done with them: the configuration written at attach,
\* PA_FSM_EN, the user's PA Volume, the bypass of the measuring circuit; and the
\* volatile ANA_WO_CTL.
Defaults == [conf |-> "reset", pa |-> 0, gain |-> 0, byp |-> 0]
Cached == DOMAIN Defaults
Values(r) == CASE r = "conf" -> {"reset", "cold", "generic"} [] OTHER -> {0, 1}

Windows == supply = "2S"        \* wsa884x_sp11_windows_profile on this machine

Reaches == link = "here" /\ (pm = "active" \/ job["bus"] # <<>>)
Readable == Reaches /\ ~cacheOnly       \* of a volatile register
Mishap == mishaps < MaxMishaps /\ mishaps' = mishaps + 1

-----------------------------------------------------------------------------
(* Programs *)

W(r, v) == <<[op |-> "write", reg |-> r, val |-> v]>>
U(r, v) == <<[op |-> "update", reg |-> r, val |-> v]>>
Do(o) == <<[op |-> o]>>
Look(again) == <<[op |-> "look", again |-> again]>>     \* read PA_FSM_STA1

wsa884x_reset_pa_fsm == Do("reset")

\* One attempt to enable the PA again, the n-th.
Attempt(n) == U("pa", 1) \o <<[op |-> "try", n |-> n]>>

\* What follows an attempt after which the error is back.
Retry(n) ==
    U("pa", 0) \o wsa884x_reset_pa_fsm
    \o (IF n < Retries THEN Attempt(n + 1) ELSE Do("failed"))

wsa884x_recover_pa(again) ==
    U("pa", 0) \o wsa884x_reset_pa_fsm \o (IF again THEN Attempt(1) ELSE <<>>)

sp11_windows_cold_init == W("conf", "cold") \o W("gain", 0) \o W("wo", 1)
wsa884x_generic_init == W("conf", "generic") \o W("wo", 1)
sp11_windows_start == W("pa", 1)
sp11_windows_stop == W("pa", 0)

\* Mutant: the amplifier is muted without the lock.
Mute_Unlocked ==
    IF Windows THEN sp11_windows_stop ELSE U("pa", 0)

\* wsa884x_mute_stream(mute = 1) and (mute = 0), at the trigger
wsa884x_mute_stream ==
    Do("lock") \o (IF Windows THEN sp11_windows_stop ELSE U("pa", 0))
    \o Do("unlock")

wsa884x_unmute_stream ==
    Do("lock") \o Look(FALSE)
    \o (IF Windows THEN sp11_windows_start ELSE U("pa", 1))
    \o Look(TRUE) \o Do("unlock")

\* wsa884x_spkr_event: POST_PMU and PRE_PMD
PostPmu == Do("power") \o Do("arm")

\* Mutant: the worker is waited for with the lock held.
PrePmd_CancelLocked ==
    Do("lock") \o Do("cancel") \o Do("unlock") \o Do("unpower")

PrePmd == Do("unpower") \o Do("cancel")

\* The worker leaves an amplifier alone that is off, the reader one that is on.
wsa884x_pa_health_work ==
    Do("get") \o Do("lockIfOn") \o Look(TRUE) \o Do("unlock") \o Do("put")
    \o Do("rearm")

\* Mutant: the temperature is measured whether or not the PA is on.
GetTemp_Always ==
    Do("lock") \o Do("get") \o U("byp", 1) \o U("byp", 0) \o Do("put")
    \o Do("unlock")

wsa884x_get_temp ==
    Do("lockIfOff") \o Do("get") \o U("byp", 1) \o U("byp", 0) \o Do("put")
    \o Do("unlock")

-----------------------------------------------------------------------------
(* The register map *)

\* regcache_sync, the clock running: a dirty cache is written to the chip, but
\* for the values that a chip fresh from reset would have, if it was marked
\* dirty for such a reset.
regcache_sync(reached) ==
    IF dirty /\ reached
    THEN /\ chip' = [r \in DOMAIN chip |->
                IF r \in Cached /\ ~(noDefaults /\ cache[r] = Defaults[r])
                THEN cache[r] ELSE chip[r]]
         /\ dirty' = FALSE /\ noDefaults' = FALSE
    ELSE /\ noDefaults' = (noDefaults /\ ~dirty)
         /\ UNCHANGED <<chip, dirty>>

regmap_write(r, v) ==
    /\ chip' = IF ~cacheOnly /\ Reaches THEN [chip EXCEPT ![r] = v] ELSE chip
    /\ IF r \in Cached
       THEN /\ cache' = [cache EXCEPT ![r] = v]
            /\ dirty' = (dirty \/ cacheOnly)
            /\ torn' = (torn \/ (~cacheOnly /\ ~Reaches))
       ELSE UNCHANGED <<cache, dirty, torn>>
    /\ UNCHANGED <<cacheOnly, noDefaults>>

regmap_update_bits(r, v) ==
    IF cache[r] = v THEN UNCHANGED <<chip, regmapVars>> ELSE regmap_write(r, v)

-----------------------------------------------------------------------------
(* The steps of a program *)

Here(p, o) == job[p] # <<>> /\ Head(job[p]).op = o
Jump(p, rest) == job' = [job EXCEPT ![p] = rest]
Advance(p) == Jump(p, Tail(job[p]))
\* From(p, o) is what is left of the program from its next operation o on.
From(p, o) ==
    LET i == SelectInSeq(job[p], LAMBDA x : x.op = o)
    IN  SubSeq(job[p], i, Len(job[p]))

NoRegs == UNCHANGED <<chip, regmapVars>>
NoPower == UNCHANGED <<paOn, failures, work>>
NoPm == UNCHANGED <<pm, held>>
NoBus == UNCHANGED <<link, seen, hwInit, supply>>

Access(p) ==
    /\ \/ Here(p, "write") /\ regmap_write(Head(job[p]).reg, Head(job[p]).val)
       \/ Here(p, "update") /\ regmap_update_bits(Head(job[p]).reg, Head(job[p]).val)
    /\ Advance(p)
    /\ NoPower /\ NoPm /\ NoBus /\ UNCHANGED <<err, lock, phase, mishaps, hot>>

\* sp_lock, and under it the test of pa_on.
Lock(p) ==
    /\ lock = "none" /\ lock' = p
    /\ \/ Here(p, "lock") /\ Advance(p)
       \/ Here(p, "lockIfOn") /\ Jump(p, IF paOn THEN Tail(job[p]) ELSE From(p, "unlock"))
       \/ Here(p, "lockIfOff") /\ Jump(p, IF paOn THEN From(p, "unlock") ELSE Tail(job[p]))
    /\ NoRegs /\ NoPower /\ NoPm /\ NoBus /\ UNCHANGED <<err, phase, mishaps, hot>>

Unlock(p) ==
    /\ Here(p, "unlock")
    /\ lock' = "none" /\ Advance(p)
    /\ NoRegs /\ NoPower /\ NoPm /\ NoBus /\ UNCHANGED <<err, phase, mishaps, hot>>

\* An error that can be read is recovered from, by the worker a few times only.
LookAt(p) ==
    /\ Here(p, "look")
    /\ Jump(p,
         (IF Readable /\ err /\ (p = "worker" => failures < MaxFailures)
          THEN wsa884x_recover_pa(Head(job[p]).again) ELSE <<>>)
         \o Tail(job[p]))
    /\ NoRegs /\ NoPower /\ NoPm /\ NoBus
    /\ UNCHANGED <<err, lock, phase, mishaps, hot>>

\* Toggling PA_FSM_RESET unlatches the error of a chip that hears it.
Reset(p) ==
    /\ Here(p, "reset")
    /\ err' = (err /\ ~Readable)
    /\ dirty' = (dirty \/ cacheOnly)
    /\ Advance(p)
    /\ UNCHANGED <<chip, cache, cacheOnly, noDefaults, torn>>
    /\ NoPower /\ NoPm /\ NoBus /\ UNCHANGED <<lock, phase, mishaps, hot>>

\* The look after an attempt: done, or once more, or given up.
Try(p) ==
    LET ok == Readable /\ ~err IN
    /\ Here(p, "try")
    /\ Jump(p, (IF ok THEN <<>> ELSE Retry(Head(job[p]).n)) \o Tail(job[p]))
    /\ failures' = IF ok /\ p = "worker" THEN 0 ELSE failures
    /\ NoRegs /\ NoPm /\ NoBus
    /\ UNCHANGED <<err, paOn, work, lock, phase, mishaps, hot>>

Failed(p) ==
    /\ Here(p, "failed")
    /\ failures' = IF p = "worker" THEN failures + 1 ELSE failures
    /\ Advance(p)
    /\ NoRegs /\ NoPm /\ NoBus
    /\ UNCHANGED <<err, paOn, work, lock, phase, mishaps, hot>>

\* POST_PMU and PRE_PMD set pa_on under the lock ...
Power(p) ==
    /\ lock = "none"
    /\ \/ Here(p, "power") /\ paOn' = TRUE /\ failures' = 0
       \/ Here(p, "unpower") /\ paOn' = FALSE /\ UNCHANGED failures
    /\ Advance(p)
    /\ NoRegs /\ NoPm /\ NoBus /\ UNCHANGED <<err, work, lock, phase, mishaps, hot>>

\* ... and, without it, start the worker and wait until it is no more.
Arm(p) ==
    /\ Here(p, "arm")
    /\ work' = IF work = "idle" THEN "pending" ELSE work
    /\ Advance(p)
    /\ NoRegs /\ NoPm /\ NoBus
    /\ UNCHANGED <<err, paOn, failures, lock, phase, mishaps, hot>>

cancel_delayed_work_sync(p) ==
    /\ Here(p, "cancel") /\ work # "running"
    /\ work' = "idle"
    /\ Advance(p)
    /\ NoRegs /\ NoPm /\ NoBus
    /\ UNCHANGED <<err, paOn, failures, lock, phase, mishaps, hot>>

\* pm_runtime_resume_and_get.  It may fail for the worker and for the reader.
Get(p) ==
    /\ Here(p, "get")
    /\ Advance(p)
    /\ held' = IF p = "stream" THEN held ELSE held \cup {p}
    /\ pm' = "active"
    /\ IF pm = "suspended"
       THEN \* wsa884x_runtime_resume
            /\ cacheOnly' = FALSE
            /\ regcache_sync(link = "here")
            /\ UNCHANGED <<cache, torn>>
       ELSE NoRegs
    /\ NoPower /\ NoBus /\ UNCHANGED <<err, lock, phase, mishaps, hot>>

GetFails(p) ==
    /\ Here(p, "get") /\ p # "stream"
    /\ pm = "suspended"
    /\ Mishap
    /\ Jump(p, From(p, IF p = "worker" THEN "rearm" ELSE "unlock"))
    /\ NoRegs /\ NoPower /\ NoPm /\ NoBus /\ UNCHANGED <<err, lock, phase, hot>>

Put(p) ==
    /\ Here(p, "put")
    /\ held' = held \ {p}
    /\ Advance(p)
    /\ NoRegs /\ NoPower /\ NoBus /\ UNCHANGED <<err, lock, pm, phase, mishaps, hot>>

\* The worker's last step reads pa_on without the lock.  Work that is being
\* cancelled cannot be queued.
Rearm(p) ==
    /\ Here(p, "rearm")
    /\ work' = IF paOn /\ ~Here("stream", "cancel") THEN "pending" ELSE "idle"
    /\ Advance(p)
    /\ NoRegs /\ NoPm /\ NoBus
    /\ UNCHANGED <<err, paOn, failures, lock, phase, mishaps, hot>>

\* wsa884x_init reads the supply strap first: without an answer it is 1S.
Strap(p) ==
    /\ Here(p, "strap")
    /\ supply' = IF Readable THEN "2S" ELSE "1S"
    /\ Jump(p, (IF supply' = "2S" THEN sp11_windows_cold_init
                ELSE wsa884x_generic_init) \o Do("inited"))
    /\ NoRegs /\ NoPower /\ NoPm
    /\ UNCHANGED <<link, seen, hwInit, err, lock, phase, mishaps, hot>>

Inited(p) ==
    /\ Here(p, "inited")
    /\ hwInit' = TRUE
    /\ Advance(p)
    /\ NoRegs /\ NoPower /\ NoPm
    /\ UNCHANGED <<link, seen, supply, err, lock, phase, mishaps, hot>>

Step(p) ==
    \/ Access(p) \/ Lock(p) \/ Unlock(p) \/ LookAt(p) \/ Reset(p) \/ Try(p)
    \/ Failed(p) \/ Power(p) \/ Arm(p) \/ cancel_delayed_work_sync(p)
    \/ Get(p) \/ GetFails(p) \/ Put(p) \/ Rearm(p) \/ Strap(p) \/ Inited(p)

-----------------------------------------------------------------------------
(* What starts the programs *)

TypeOK ==
    /\ chip \in [conf : Values("conf"), pa : {0, 1}, gain : {0, 1},
                 byp : {0, 1}, wo : {0, 1}]
    /\ \A r \in Cached : cache[r] \in Values(r)
    /\ {err, cacheOnly, dirty, noDefaults, hwInit, paOn, torn, hot} \subseteq BOOLEAN
    /\ link \in {"here", "away"} /\ seen \in {"attached", "unattached"}
    /\ supply \in {"unknown", "1S", "2S"}
    /\ failures \in 0..MaxFailures
    /\ work \in {"idle", "pending", "running"}
    /\ lock \in Threads \cup {"none"}
    /\ pm \in {"active", "suspended"} /\ held \subseteq {"worker", "reader"}
    /\ phase \in {"closed", "open", "prepared", "running", "stopped"}
    /\ DOMAIN job = Threads
    /\ mishaps \in 0..MaxMishaps

\* wsa884x_probe: supplies on, reset released, cache-only until enumeration.
Init ==
    /\ chip = [conf |-> "reset", pa |-> 0, gain |-> 0, byp |-> 0, wo |-> 0]
    /\ err = FALSE /\ link = "away" /\ seen = "unattached"
    /\ cache = Defaults
    /\ cacheOnly = TRUE /\ dirty = FALSE /\ noDefaults = FALSE
    /\ hwInit = FALSE /\ supply = "unknown"
    /\ paOn = FALSE /\ failures = 0 /\ work = "idle" /\ lock = "none"
    /\ pm = "active" /\ held = {}
    /\ phase = "closed"
    /\ job = [p \in Threads |-> <<>>]
    /\ mishaps = 0 /\ torn = FALSE /\ hot = FALSE

\* A call of the stream: in which phases, to which phase, with which program.
Call(from, to, program) ==
    /\ job["stream"] = <<>> /\ phase \in from
    /\ phase' = to
    /\ Jump("stream", program)
    /\ NoRegs /\ NoPower /\ NoPm /\ NoBus /\ UNCHANGED <<err, lock, mishaps>>

\* An open stream keeps the device active.  Prepare powers the widget once the
\* SoundWire stream has been prepared, for which the chip must be on the bus.
Open == Call({"closed"}, "open", Do("get")) /\ UNCHANGED hot
Prepare == link = "here" /\ Call({"open"}, "prepared", PostPmu) /\ UNCHANGED hot
Start == Call({"prepared", "stopped"}, "running", wsa884x_unmute_stream) /\ hot' = FALSE
Stop == Call({"running"}, "stopped", wsa884x_mute_stream) /\ hot' = err
Close ==
    \/ Call({"prepared", "stopped"}, "closed", PrePmd) /\ UNCHANGED hot
    \/ Call({"open"}, "closed", <<>>) /\ UNCHANGED hot

Expire ==
    /\ work = "pending" /\ work' = "running"
    /\ Jump("worker", wsa884x_pa_health_work)
    /\ NoRegs /\ NoPm /\ NoBus
    /\ UNCHANGED <<err, paOn, failures, lock, phase, mishaps, hot>>

ReadTemp ==
    /\ job["reader"] = <<>>
    /\ Jump("reader", wsa884x_get_temp)
    /\ NoRegs /\ NoPower /\ NoPm /\ NoBus
    /\ UNCHANGED <<err, lock, phase, mishaps, hot>>

\* The user turns PA Volume up, at any time, once.
SetVolume ==
    /\ cache.gain = 0 /\ regmap_update_bits("gain", 1)
    /\ NoPower /\ NoPm /\ NoBus
    /\ UNCHANGED <<err, lock, phase, job, mishaps, hot>>

Fault ==
    /\ chip.pa = 1 /\ ~err /\ Mishap
    /\ err' = TRUE
    /\ hot' = (hot \/ phase # "running")
    /\ NoRegs /\ NoPower /\ NoPm /\ NoBus /\ UNCHANGED <<lock, phase, job>>

\* wsa884x_runtime_suspend
wsa884x_runtime_suspend ==
    /\ pm = "active" /\ held = {}
    /\ phase = "closed" /\ job["stream"] = <<>>
    /\ pm' = "suspended" /\ cacheOnly' = TRUE
    /\ NoPower /\ NoBus
    /\ UNCHANGED <<chip, cache, dirty, noDefaults, torn, held, err, lock, phase,
                   job, mishaps, hot>>

-----------------------------------------------------------------------------
(* The SoundWire core *)

\* The chip drops off the bus.  It comes back once that has been noticed, and
\* the driver is told as soon as it has its number again.
Detach ==
    /\ link = "here" /\ Mishap
    /\ link' = "away"
    /\ NoRegs /\ NoPower /\ NoPm
    /\ UNCHANGED <<seen, hwInit, supply, err, lock, phase, job, hot>>

\* Mutant: the cache is marked dirty for a chip that has lost its registers.
Retained_Marked == FALSE

\* Is the chip taken to have kept its registers while it was away?
Retained == Windows /\ hwInit

update_status_unattached ==
    /\ link = "away" /\ seen = "attached" /\ job["bus"] = <<>>
    /\ seen' = "unattached"
    /\ cacheOnly' = TRUE
    /\ IF Retained THEN UNCHANGED <<hwInit, dirty, noDefaults, torn>>
       ELSE /\ hwInit' = FALSE /\ dirty' = TRUE /\ noDefaults' = TRUE
            /\ torn' = (torn \/ ~Windows \/ ~hwInit)
    /\ NoPower /\ NoPm
    /\ UNCHANGED <<chip, cache, link, supply, err, lock, phase, job,
                   mishaps, hot>>

update_status_attached ==
    /\ link = "away" /\ seen = "unattached" /\ job["bus"] = <<>>
    /\ link' = "here" /\ seen' = "attached"
    /\ IF hwInit /\ ~Retained
       THEN UNCHANGED <<chip, cacheOnly, dirty, noDefaults, job>>
       ELSE /\ cacheOnly' = FALSE
            /\ regcache_sync(TRUE)
            /\ Jump("bus", IF hwInit THEN <<>> ELSE Do("strap"))
    /\ NoPower /\ NoPm
    /\ UNCHANGED <<cache, torn, hwInit, supply, err, lock, phase, mishaps, hot>>

-----------------------------------------------------------------------------
Next ==
    \/ \E p \in Threads : Step(p)
    \/ Open \/ Prepare \/ Start \/ Stop \/ Close
    \/ Expire \/ ReadTemp \/ SetVolume \/ Fault
    \/ wsa884x_runtime_suspend
    \/ Detach \/ update_status_unattached \/ update_status_attached

Spec == Init /\ [][Next]_vars

-----------------------------------------------------------------------------
(* Properties *)

\* On this machine, initialised, nothing left to write and nothing lost.
Whole == Windows /\ hwInit /\ ~dirty /\ ~torn

\* Whatever was written while the link was away or the device suspended, by
\* whichever thread, the chip ends up with it: the cache never claims a value
\* that the chip does not have (the retained attach in wsa884x_update_status,
\* the sync in wsa884x_runtime_resume).
CacheIsChip == Whole => \A r \in Cached : chip[r] = cache[r]

\* A stopped amplifier is off and stays off: an error that was dealt with, or
\* was being dealt with, when the stream stopped does not turn it on again.
\* An error that was still latched then may: see StoppedIsOff.
StoppedIsQuiet ==
    Whole /\ ~hot /\ job["stream"] = <<>> /\ phase # "running" => chip.pa = 0

\* The measuring circuit is never bypassed into a PA that is on: "Reading
\* temperature is possible only when Power Amplifier is off" (wsa884x_get_temp).
MeasuredOff == Whole /\ ~hot /\ chip.byp = 1 => chip.pa = 0

\* The PA is on only while its stream runs and nothing is measured.
OnlyDriven == StoppedIsQuiet /\ MeasuredOff

\* A powered amplifier has its health worker, queued or running, and one whose
\* power-down has finished has none (wsa884x_spkr_event and the worker's own
\* re-arming, which reads pa_on without the lock).
PoweredIsWatched ==
    job["stream"] = <<>> =>
        (work # "idle" <=> phase \in {"prepared", "running", "stopped"})

\* p cannot go on before q does.
Waits(p, q) ==
    \/ lock = q /\ job[p] # <<>>
          /\ Head(job[p]).op \in {"lock", "lockIfOn", "lockIfOff", "power", "unpower"}
    \/ Here(p, "cancel") /\ work = "running" /\ q = "worker"

\* No threads wait for each other in a circle: the power-down waits for a
\* worker that needs sp_lock.
NoDeadlock ==
    \A p, q \in Threads : Waits(p, q) =>
        /\ ~Waits(q, p)
        /\ \A r \in Threads : ~(Waits(q, r) /\ Waits(r, p))

-----------------------------------------------------------------------------
(* Not true of the code *)

\* "cache-only still protects accesses while the link is unavailable"
\* (wsa884x_update_status).  A resume ends the cache-only mode, link or not.
AwayIsCacheOnly == hwInit /\ seen = "unattached" => cacheOnly

\* The cold transaction has been written to the chip.  It is not if the link
\* goes in the middle of it: its writes are not checked, and it is not repeated.
InitIsWhole == Windows /\ hwInit => chip.conf = "cold" /\ chip.wo = 1

\* A stopped amplifier is off.  The worker runs until the stream is closed and
\* recovers from an error that was latched at the stop with the PA enabled.
StoppedIsOff ==
    Whole /\ job["stream"] = <<>> /\ phase \in {"stopped", "closed"} => chip.pa = 0
=============================================================================
