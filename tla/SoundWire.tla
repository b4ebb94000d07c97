------------------------------ MODULE SoundWire ------------------------------
(* One SoundWire bus of the speaker path: drivers/soundwire/stream.c and the  *)
(* Qualcomm master drivers/soundwire/qcom.c, driven by the back ends of the   *)
(* sound card (x1e80100.c).  Every stream has the amplifiers of the bus as    *)
(* slaves and one master port.                                                *)
(*                                                                            *)
(* The registers that matter are kept in two banks; software prepares the     *)
(* bank not in use and a broadcast write makes it the bank in use.  A         *)
(* broadcast names the bank it switches to, so hardware does not toggle: it   *)
(* obeys.  A slave write fails when the command FIFO stays full; a broadcast  *)
(* that is not confirmed comes back as "ignored", which sdw_bank_switch takes *)
(* for a success.                                                             *)
(*                                                                            *)
(* The card's PCM mutex serialises the calls of all back ends, so one call    *)
(* (call) runs at a time and each stream.c function, which holds bus_lock     *)
(* from its first line to its last, is one step.                              *)
EXTENDS Integers, SequencesExt

CONSTANTS
    Streams,        \* the back ends of the bus: render, VI and CPS feedback
    Amps,           \* the amplifiers of the bus
    Swr,            \* the master's own end of a stream
    MaxFaults       \* failed writes, lost broadcasts, failed allocations

ASSUME ConstantsAssumption ==
    /\ IsFiniteSet(Amps) /\ Amps # {} /\ Swr \notin Amps
    /\ MaxFaults \in Nat

VARIABLES
    be,         \* phase of each back end: closed, open, params
    st,         \* sdw_stream_runtime.state
    slaves,     \* amplifiers with a slave runtime in the stream
    list,       \* bus->m_rt_list: the streams with a master runtime, in order
    mport,      \* streams whose master runtime has its port (add_master)
    orphans,    \* master runtimes whose stream has been freed
    curr,       \* bus->params.curr_bank; next_bank is its complement
    hw,         \* the bank the hardware uses
    regs,       \* per bank, the ends <<device, stream>> with parameters and
                \* the ends with their channel enabled
    bandwidth,  \* bus->params.bandwidth, one unit per stream
    prepared,   \* the card's stream_prepared
    call,       \* the call in progress: its stream and what it still has to do
    faults,     \* faults so far
    failed      \* history: streams whose last enable or disable failed

vars == <<be, st, slaves, list, mport, orphans, curr, hw, regs, bandwidth,
          prepared, call, faults, failed>>

Bank == {0, 1}
Devices == Amps \cup {Swr}
Ends == Devices \X Streams
Idle == [s |-> "none", todo |-> <<>>]
Ops == {"disable", "deprepare", "prepare", "enable", "remove"}

\* What a switch of banks comes to.  "lost" is a broadcast that never reached
\* the bus; one that did, but was confirmed too late, is as good as "done".
SwitchOutcomes == {"done", "lost", "nomem"}

-----------------------------------------------------------------------------
(* Register writes *)

\* A write: parameters ("par") or channel enable ("on", "off") of an end.
Write(what, e, bank) == [what |-> what, end |-> e, bank |-> bank]

\* The ends of a stream in the order the loops visit them: slaves, then master.
EndsOf(s) ==
    LET devs == SetToSeq(slaves[s])
                \o (IF s \in mport THEN <<Swr>> ELSE <<>>)
    IN  [i \in DOMAIN devs |-> <<devs[i], s>>]

\* The master's parameter write holds the whole PORT_CTRL register of the bank
\* and so turns the master's channels off; a slave's parameters do not touch
\* its CHANNELEN.
qcom_swrm_transport_params(r, ends) == [par |-> r.par \cup ends, on |-> r.on \ ends]
sdw_program_slave_port_params(r, ends) == [par |-> r.par \cup ends, on |-> r.on]
port_enable(r, ends, on) ==
    [par |-> r.par, on |-> IF on THEN r.on \cup ends ELSE r.on \ ends]

\* What the writes of one operation leave in a bank.  Whichever of its writes
\* an end gets there, it gets them in this order: channel off, parameters,
\* channel on.
Apply(r, off, par, on) ==
    LET masters == {e \in par : e[1] = Swr}
        programmed == sdw_program_slave_port_params(
                        qcom_swrm_transport_params(port_enable(r, off, FALSE), masters),
                        par \ masters)
    IN  port_enable(programmed, on, TRUE)

After(rs, ws) ==
    LET ends(what, bank) == {w.end : w \in {x \in ws : x.what = what /\ x.bank = bank}}
    IN  [b \in Bank |-> Apply(rs[b], ends("off", b), ends("par", b), ends("on", b))]

\* Writes come in batches.  All are made; or those of the batches before the
\* i-th and the first n of it, and the next one failed.
All(batches) == UNION {ToSet(batches[i]) : i \in DOMAIN batches}
Made(batches, i, n) ==
    (UNION {ToSet(batches[j]) : j \in 1..(i - 1)}) \cup ToSet(SubSeq(batches[i], 1, n))
Partly(batches) ==
    UNION {{Made(batches, i, n) : n \in 0..(Len(batches[i]) - 1)} : i \in DOMAIN batches}

sdw_program_port_params(s, bank) ==
    LET ends == EndsOf(s) IN [i \in DOMAIN ends |-> Write("par", ends[i], bank)]

sdw_enable_disable_ports(s, bank, en) ==
    LET ends == EndsOf(s)
    IN  [i \in DOMAIN ends |-> Write(IF en THEN "on" ELSE "off", ends[i], bank)]

\* Mutant: the streams that are already running are not enabled in the new bank.
ProgramNoEnable(prepare, state, bank) ==
    [i \in DOMAIN list |->
        IF ~prepare /\ state[list[i]] = "configured" THEN <<>>
        ELSE sdw_program_port_params(list[i], bank)]

\* Every stream of the bus is programmed into the bank to be used next, and
\* enabled there if it runs.  An orphan has neither slaves nor ports.
sdw_program_params(prepare, state, bank) ==
    [i \in DOMAIN list |->
        IF ~prepare /\ state[list[i]] = "configured" THEN <<>>
        ELSE sdw_program_port_params(list[i], bank)
             \o (IF state[list[i]] = "enabled"
                 THEN sdw_enable_disable_ports(list[i], bank, TRUE) ELSE <<>>)]

\* One fault more, of the few a run allows.
Fault == faults < MaxFaults /\ faults' = faults + 1

\* do_bank_switch: software flips its banks unless the message could not even
\* be allocated; hardware goes to the bank the broadcast names if it arrives.
do_bank_switch(o) ==
    /\ o # "done" => Fault
    /\ o = "done" => UNCHANGED faults
    /\ hw' = IF o = "done" THEN 1 - curr ELSE hw
    /\ curr' = IF o = "nomem" THEN curr ELSE 1 - curr

NoSwitch == UNCHANGED <<curr, hw>>

-----------------------------------------------------------------------------
(* Calls of the sound card *)

TypeOK ==
    /\ be \in [Streams -> {"closed", "open", "params"}]
    /\ st \in [Streams -> {"allocated", "configured", "prepared", "enabled",
                           "disabled", "deprepared", "released"}]
    /\ slaves \in [Streams -> SUBSET Amps]
    /\ ToSet(list) \subseteq Streams /\ IsInjective(list)
    /\ mport \subseteq ToSet(list)
    /\ orphans \in 0..MaxFaults
    /\ curr \in Bank /\ hw \in Bank
    /\ regs \in [Bank -> [par : SUBSET Ends, on : SUBSET Ends]]
    /\ bandwidth \in Int
    /\ prepared \in [Streams -> BOOLEAN]
    /\ call.s \in Streams \cup {"none"} /\ ToSet(call.todo) \subseteq Ops
    /\ faults \in 0..MaxFaults
    /\ failed \subseteq Streams

Init ==
    /\ be = [s \in Streams |-> "closed"]
    /\ st = [s \in Streams |-> "allocated"]
    /\ slaves = [s \in Streams |-> {}]
    /\ list = <<>> /\ mport = {} /\ orphans = 0
    /\ curr = 0 /\ hw = 0
    /\ regs = [b \in Bank |-> [par |-> {}, on |-> {}]]
    /\ bandwidth = 0
    /\ prepared = [s \in Streams |-> FALSE]
    /\ call = Idle
    /\ faults \in 0..MaxFaults /\ failed = {}

\* sdw_startup_stream allocates the runtime; the master is powered up.
snd_startup(s) ==
    /\ call = Idle /\ be[s] = "closed"
    /\ be' = [be EXCEPT ![s] = "open"]
    /\ st' = [st EXCEPT ![s] = "allocated"]
    /\ UNCHANGED <<slaves, list, mport, orphans, curr, hw, regs, bandwidth,
                   prepared, call, faults, failed>>

\* sdw_shutdown_stream frees the runtime of a back end that has no parameters.
snd_shutdown(s) ==
    /\ call = Idle /\ be[s] = "open"
    /\ be' = [be EXCEPT ![s] = "closed"]
    /\ UNCHANGED <<st, slaves, list, mport, orphans, curr, hw, regs, bandwidth,
                   prepared, call, faults, failed>>

\* The amplifiers add themselves, the first one with the master runtime, then
\* the master adds its port.  Repeated before a prepare has succeeded, it finds
\* the runtimes in place and makes the state CONFIGURED again.
snd_hw_params(s) ==
    /\ call = Idle
    /\ be[s] = "open" \/ (be[s] = "params" /\ ~prepared[s])
    /\ be' = [be EXCEPT ![s] = "params"]
    /\ st' = [st EXCEPT ![s] = "configured"]
    /\ slaves' = [slaves EXCEPT ![s] = Amps]
    /\ list' = IF s \in ToSet(list) THEN list ELSE Append(list, s)
    /\ mport' = mport \cup {s}
    /\ UNCHANGED <<orphans, curr, hw, regs, bandwidth, prepared, call, faults,
                   failed>>

\* An amplifier after the first has no port switched on.  ALSA calls hw_free of
\* those that had succeeded: their slave runtimes go, the master runtime stays,
\* and the stream is freed when the back end is closed for the failure.
snd_hw_params_fails(s) ==
    /\ call = Idle /\ be[s] = "open"
    /\ Cardinality(Amps) > 1
    /\ Fault
    /\ be' = [be EXCEPT ![s] = "closed"]
    /\ orphans' = orphans + 1
    /\ UNCHANGED <<st, slaves, list, mport, curr, hw, regs, bandwidth, prepared,
                   call, failed>>

\* qcom_snd_sdw_prepare: what was prepared is taken down first.
snd_prepare(s) ==
    /\ call = Idle /\ be[s] = "params"
    /\ call' = [s |-> s,
                todo |-> (IF prepared[s] THEN <<"disable", "deprepare">> ELSE <<>>)
                         \o <<"prepare", "enable">>]
    /\ prepared' = [prepared EXCEPT ![s] = FALSE]
    /\ UNCHANGED <<be, st, slaves, list, mport, orphans, curr, hw, regs,
                   bandwidth, faults, failed>>

\* Mutant: the note survives the teardown.
HwFree_KeepPrepared(s) ==
    /\ call = Idle /\ be[s] = "params"
    /\ call' = [s |-> s,
                todo |-> (IF prepared[s] THEN <<"disable", "deprepare">> ELSE <<>>)
                         \o <<"remove">>]
    /\ UNCHANGED <<be, st, slaves, list, mport, orphans, curr, hw, regs,
                   bandwidth, prepared, faults, failed>>

\* qcom_snd_sdw_hw_free, then hw_free of the amplifiers and of the master.
snd_hw_free(s) ==
    /\ call = Idle /\ be[s] = "params"
    /\ call' = [s |-> s,
                todo |-> (IF prepared[s] THEN <<"disable", "deprepare">> ELSE <<>>)
                         \o <<"remove">>]
    /\ prepared' = [prepared EXCEPT ![s] = FALSE]
    /\ UNCHANGED <<be, st, slaves, list, mport, orphans, curr, hw, regs,
                   bandwidth, faults, failed>>

-----------------------------------------------------------------------------
(* What the call does next, and how its caller takes the answer *)

Doing(s, op) == call.s = s /\ call.todo # <<>> /\ Head(call.todo) = op

\* The caller ignores the answer of this operation.
Ignored ==
    call' = IF Len(call.todo) = 1 THEN Idle ELSE [call EXCEPT !.todo = Tail(@)]

\* The caller gives up: a refused prepare ends it, a refused enable deprepares.
Refused(op) ==
    call' = IF op = "enable" THEN [call EXCEPT !.todo = <<"deprepare">>] ELSE Idle

Unmoved == UNCHANGED <<be, slaves, list, mport, orphans>>

\* An operation that its stream's state does not allow, or does not need.
Rejected(s, op, needless, allowed) ==
    /\ Doing(s, op)
    /\ st[s] \notin allowed
    /\ IF op \in {"disable", "deprepare"} \/ st[s] = needless THEN Ignored
       ELSE Refused(op)
    /\ prepared' = [prepared EXCEPT ![s] = op = "enable" /\ st[s] = needless]
    /\ Unmoved /\ NoSwitch
    /\ UNCHANGED <<st, regs, bandwidth, faults, failed>>

sdw_prepare_stream_rejects(s) ==
    Rejected(s, "prepare", "prepared", {"configured", "deprepared", "disabled"})
sdw_enable_stream_rejects(s) ==
    Rejected(s, "enable", "enabled", {"prepared", "disabled"})
sdw_disable_stream_rejects(s) ==
    Rejected(s, "disable", "disabled", {"enabled"})
sdw_deprepare_stream_rejects(s) ==
    Rejected(s, "deprepare", "deprepared", {"prepared", "disabled"})

\* Prepare adds the stream's bandwidth unless it was only disabled, programs
\* all streams and switches.  An error restores the parameters of the bus, not
\* the registers.  The ports of these amplifiers have no prepare state machine,
\* so preparing them on the new bank cannot fail.
sdw_prepare_stream(s) ==
    LET ws == sdw_program_params(TRUE, st, 1 - curr)
        more == IF st[s] = "disabled" THEN 0 ELSE 1
    IN
    /\ Doing(s, "prepare")
    /\ st[s] \in {"configured", "deprepared", "disabled"}
    /\ Unmoved /\ UNCHANGED <<prepared, failed>>
    /\ \/ \E made \in Partly(ws) :
            /\ Fault /\ NoSwitch /\ Refused("prepare")
            /\ regs' = After(regs, made)
            /\ UNCHANGED <<st, bandwidth>>
       \/ \E o \in SwitchOutcomes :
            /\ do_bank_switch(o)
            /\ regs' = After(regs, All(ws))
            /\ IF o = "nomem"
               THEN Refused("prepare") /\ UNCHANGED <<st, bandwidth>>
               ELSE /\ st' = [st EXCEPT ![s] = "prepared"]
                    /\ bandwidth' = bandwidth + more
                    /\ Ignored

\* Enable programs all streams and switches the stream's ports on in the next
\* bank.  A failure leaves what it wrote there.
sdw_enable_stream(s) ==
    LET ws == Append(sdw_program_params(FALSE, st, 1 - curr),
                     sdw_enable_disable_ports(s, 1 - curr, TRUE))
    IN
    /\ Doing(s, "enable")
    /\ st[s] \in {"prepared", "disabled"}
    /\ Unmoved /\ UNCHANGED bandwidth
    /\ \/ \E made \in Partly(ws) :
            /\ Fault /\ NoSwitch /\ Refused("enable")
            /\ regs' = After(regs, made)
            /\ failed' = failed \cup {s}
            /\ UNCHANGED <<st, prepared>>
       \/ \E o \in SwitchOutcomes :
            /\ do_bank_switch(o)
            /\ regs' = After(regs, All(ws))
            /\ IF o = "nomem"
               THEN /\ Refused("enable")
                    /\ failed' = failed \cup {s}
                    /\ UNCHANGED <<st, prepared>>
               ELSE /\ st' = [st EXCEPT ![s] = "enabled"]
                    /\ prepared' = [prepared EXCEPT ![s] = TRUE]
                    /\ Ignored
                    /\ UNCHANGED failed

\* Mutant: the bank that was in use is left as it is.
NoAlternate(s, bank) == <<>>

\* "make sure alternate bank (previous current) is also disabled"
AlternateOff(s, bank) == sdw_enable_disable_ports(s, bank, FALSE)

\* Disable: ports off in the next bank, state, all streams programmed, switch,
\* ports off in the bank that was in use.  The state is DISABLED as soon as the
\* next bank is, whatever happens afterwards.
sdw_disable_stream(s) ==
    LET off == sdw_enable_disable_ports(s, 1 - curr, FALSE)
        state == [st EXCEPT ![s] = "disabled"]
        ws == sdw_program_params(FALSE, state, 1 - curr)
        back == AlternateOff(s, curr)
        whole == ToSet(off) \cup All(ws)
    IN
    /\ Doing(s, "disable")
    /\ st[s] = "enabled"
    /\ Unmoved /\ UNCHANGED <<bandwidth, prepared>>
    /\ Ignored
    /\ \/ \E made \in Partly(<<off>>) :
            /\ Fault /\ NoSwitch
            /\ regs' = After(regs, made)
            /\ failed' = failed \cup {s}
            /\ UNCHANGED st
       \/ \E made \in Partly(ws) :
            /\ Fault /\ NoSwitch
            /\ regs' = After(regs, ToSet(off) \cup made)
            /\ st' = state
            /\ failed' = failed \cup {s}
       \/ \E o \in SwitchOutcomes :
            /\ do_bank_switch(o)
            /\ st' = state
            /\ regs' = After(regs, IF o = "nomem" THEN whole ELSE whole \cup ToSet(back))
            /\ failed' = IF o = "nomem" THEN failed \cup {s} ELSE failed \ {s}
       \/ \* the switch is made, a write to the other bank fails
          \E made \in Partly(<<back>>) :
            /\ Fault
            /\ hw' = 1 - curr /\ curr' = 1 - curr
            /\ st' = state
            /\ regs' = After(regs, whole \cup made)
            /\ failed' = failed \cup {s}

\* Deprepare gives the bandwidth back before it programs the others, and puts
\* only the state back when that fails.
sdw_deprepare_stream(s) ==
    LET state == [st EXCEPT ![s] = "deprepared"]
        ws == sdw_program_params(FALSE, state, 1 - curr)
    IN
    /\ Doing(s, "deprepare")
    /\ st[s] \in {"prepared", "disabled"}
    /\ bandwidth' = bandwidth - 1
    /\ Unmoved /\ UNCHANGED <<prepared, failed>>
    /\ Ignored
    /\ \/ \E made \in Partly(ws) :
            /\ Fault /\ NoSwitch
            /\ regs' = After(regs, made)
            /\ UNCHANGED st
       \/ \E o \in SwitchOutcomes :
            /\ do_bank_switch(o)
            /\ regs' = After(regs, All(ws))
            /\ st' = state

\* hw_free of the amplifiers and of the master: runtimes and ports go, nothing
\* is written to a register.
sdw_stream_remove(s) ==
    /\ Doing(s, "remove")
    /\ slaves' = [slaves EXCEPT ![s] = {}]
    /\ \E i \in DOMAIN list : list[i] = s /\ list' = RemoveAt(list, i)
    /\ mport' = mport \ {s}
    /\ st' = [st EXCEPT ![s] = "released"]
    /\ be' = [be EXCEPT ![s] = "open"]
    /\ call' = Idle
    /\ NoSwitch
    /\ UNCHANGED <<orphans, regs, bandwidth, prepared, faults, failed>>

-----------------------------------------------------------------------------
Next ==
    \E s \in Streams :
        \/ snd_startup(s) \/ snd_shutdown(s)
        \/ snd_hw_params(s) \/ snd_hw_params_fails(s)
        \/ snd_prepare(s) \/ snd_hw_free(s)
        \/ sdw_prepare_stream(s) \/ sdw_prepare_stream_rejects(s)
        \/ sdw_enable_stream(s) \/ sdw_enable_stream_rejects(s)
        \/ sdw_disable_stream(s) \/ sdw_disable_stream_rejects(s)
        \/ sdw_deprepare_stream(s) \/ sdw_deprepare_stream_rejects(s)
        \/ sdw_stream_remove(s)

Spec == Init /\ [][Next]_vars


-----------------------------------------------------------------------------
(* Properties *)

\* When hardware and software agree on the bank in use, every enabled stream is
\* programmed and enabled there at every end: whatever another back end did or
\* failed to do, and however its operations were cut short (the loop over all
\* streams in sdw_program_params, before every switch).
EnabledIsLive ==
    hw = curr =>
        \A s \in Streams : st[s] = "enabled" =>
            ToSet(EndsOf(s)) \subseteq regs[hw].par \cap regs[hw].on

\* A stream that is not enabled, and whose own last enable and disable did not
\* fail, has no channel enabled in either bank: no switch made for another
\* stream can bring it back (_sdw_disable_stream clears both banks).
QuietInBothBanks ==
    \A s \in Streams \ failed : st[s] # "enabled" =>
        \A b \in Bank, d \in Devices : <<d, s>> \notin regs[b].on

\* The card's note that a stream is prepared is true of the stream: teardown,
\* which consults only the note, never skips a stream that runs.
PreparedIsEnabled ==
    \A s \in Streams : prepared[s] => st[s] = "enabled"

\* The registers of the ports, live and waiting, are what the streams' states
\* say, and the states what the card believes.
PortsFollowStreams == EnabledIsLive /\ QuietInBothBanks /\ PreparedIsEnabled

-----------------------------------------------------------------------------
(* Not true of the code *)

\* "curr_bank: Current bank in use (BANK0/BANK1)" (include/linux/soundwire/sdw.h).
\* After a lost broadcast it is not, until the next one arrives.
SameBank == curr = hw

\* The bus accounts for the streams that are prepared.  A deprepare that fails
\* after it has given its bandwidth back is repeated by the next prepare's
\* teardown, or never.
BandwidthIsUsed ==
    call = Idle => bandwidth =
        Cardinality({s \in Streams : st[s] \in {"prepared", "enabled", "disabled"}})
=============================================================================
