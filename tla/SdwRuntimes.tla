---------------------------- MODULE SdwRuntimes ----------------------------
(* What a SoundWire stream is made of: the runtimes and ports that            *)
(* drivers/soundwire/stream.c allocates under bus_lock while the back end's   *)
(* hw_params goes over its amplifiers, in order, and then its master          *)
(* (wsa884x.c, qcom.c).  SoundWire takes these as given.                      *)
(*                                                                            *)
(* An amplifier offers the ports that its switches have on at that moment;    *)
(* the switches move under no lock that hw_params takes.  hw_params may come  *)
(* again before prepare: the runtimes and their ports are then found, not     *)
(* allocated, and only filled in anew, however many ports there are now.      *)
EXTENDS Integers, SequencesExt, FiniteSetsExt

CONSTANTS
    Dais,           \* streams, by the DAI of the amplifiers: "render", "vi", "cps"
    AmpSeq,         \* the amplifiers, in the order of the DAI link
    PortMap,        \* qcom,port-mapping: master port of an amplifier's port
    MaxPort,        \* ports of the master
    MaxBroken,      \* failed allocations
    MaxSwitches,    \* moves of a port switch
    MaxOrphans      \* freed streams that leave something behind

Kinds == {"dac", "comp", "boost", "pbr", "vi", "cps"}
Speakers == ToSet(AmpSeq)

\* Amplifiers share a port of the master for one kind of port, if at all, and
\* one that no switch of theirs turns on and off while a stream is made.
ASSUME RuntimesAssumption ==
    /\ Dais \subseteq {"render", "vi", "cps"}
    /\ AmpSeq \in Seq(Speakers) /\ IsInjective(AmpSeq) /\ AmpSeq # <<>>
    /\ "master" \notin Speakers
    /\ MaxPort \in Nat /\ PortMap \in [Speakers -> [Kinds -> 1..MaxPort]]
    /\ \A a, b \in Speakers : \A j, k \in Kinds :
            PortMap[a][j] = PortMap[b][k] => j = k /\ (a = b \/ j \in {"pbr", "cps"})
    /\ MaxBroken \in Nat /\ MaxSwitches \in Nat /\ MaxOrphans \in Nat

VARIABLES
    enabled,    \* port_enable of each amplifier
    phase,      \* of the back end: closed, open, params, prepared
    rt,         \* the stream's master runtime: {} or {record}
    refs,       \* bus->stream_refcount
    mcount,     \* stream->m_rt_count
    taken,      \* port_mask: ports of the master handed out
    adding,     \* hw_params in progress: its stream and the DAIs to come
    orphaned,   \* master runtimes on the bus's list whose stream was freed
    broken, switched,   \* allocations failed, switches resized
    resized,    \* history: streams with a port list of another length than
                \* the selection it was filled in from
    strayed     \* history: port numbers were overwritten, or got no port

rtVars == <<enabled, phase, rt, refs, mcount, taken, adding, orphaned, broken,
            switched, resized, strayed>>

Nobody == [s |-> "none", todo |-> <<>>]
Garbage == "garbage"
Master == "master"

\* The ports of a DAI of the amplifier: playback, voltage and current, CPS.
Lanes == [render |-> <<"dac", "comp", "boost">>, vi |-> <<"vi">>, cps |-> <<"cps">>]

\* A slave runtime with its ports, and a port of the master with the ports of
\* amplifiers whose channels it carries.
Slave(a, ports) == [amp |-> a, ports |-> ports]
Port(num, mask) == [num |-> num, mask |-> mask]

Fails == broken < MaxBroken /\ broken' = broken + 1

-----------------------------------------------------------------------------
(* The lists *)

SlaveOf(m, a) == {x \in ToSet(m.slaves) : x.amp = a}

\* Those of the amplifiers that are taken back are freed.
RemoveSlaves(m, amps) ==
    [m EXCEPT !.slaves =
        FoldLeft(LAMBDA kept, x : IF x.amp \in amps THEN kept ELSE Append(kept, x), <<>>, @)]

PutSlave(m, x) ==
    [m EXCEPT !.slaves =
        IF SlaveOf(m, x.amp) = {} THEN Append(@, x)
        ELSE [i \in DOMAIN @ |-> IF @[i].amp = x.amp THEN x ELSE @[i]]]

\* sdw_slave_port_config, sdw_master_port_config: the i-th port of the list
\* takes the i-th entry of the caller's array; "rest" is what lies behind it.
Filled(ports, entries, rest) ==
    [i \in DOMAIN ports |-> IF i \in DOMAIN entries THEN entries[i] ELSE rest[i]]

-----------------------------------------------------------------------------
(* The amplifier: wsa884x_hw_params, sdw_stream_add_slave *)

Selected(s, a) ==
    FoldLeft(LAMBDA ports, k : IF k \in enabled[a] THEN Append(ports, k) ELSE ports,
             <<>>, Lanes[s])

\* Probe has switched CPS on, the mixer settings the DAC alone or all.
RuntimesInit ==
    /\ \E on \in {{"cps", "dac"}, {"cps", "dac", "comp", "boost", "vi"}} :
            enabled = [a \in Speakers |-> on]
    /\ phase = [s \in Dais |-> "closed"]
    /\ rt = [s \in Dais |-> {}]
    /\ refs = 0
    /\ mcount = [s \in Dais |-> 0]
    /\ taken = {0}
    /\ adding = Nobody
    /\ orphaned = 0
    /\ broken = 0 /\ switched = 0
    /\ resized = {} /\ strayed = FALSE

sdw_alloc_stream(s) ==
    /\ adding = Nobody /\ phase[s] = "closed"
    /\ phase' = [phase EXCEPT ![s] = "open"]
    /\ mcount' = [mcount EXCEPT ![s] = 0]
    /\ UNCHANGED <<enabled, rt, refs, taken, adding, orphaned, broken, switched, resized, strayed>>

\* The stream is freed whatever is still on its lists.
sdw_release_stream(s) ==
    /\ adding = Nobody /\ phase[s] = "open"
    /\ rt[s] # {} => orphaned < MaxOrphans
    /\ phase' = [phase EXCEPT ![s] = "closed"]
    /\ rt' = [rt EXCEPT ![s] = {}]
    /\ orphaned' = orphaned + Cardinality(rt[s])
    /\ resized' = resized \ {s}
    /\ UNCHANGED <<enabled, refs, mcount, taken, adding, broken, switched, strayed>>

\* wsa884x_set_swr_port.  The CPS port of a board that has it stays on.
SetPort(a, k) ==
    /\ switched < MaxSwitches /\ switched' = switched + 1
    /\ k # "cps"
    /\ enabled' = [enabled EXCEPT ![a] = IF k \in @ THEN @ \ {k} ELSE @ \cup {k}]
    /\ UNCHANGED <<phase, rt, refs, mcount, taken, adding, orphaned, broken, resized, strayed>>

ParamsBegin(s) ==
    /\ adding = Nobody /\ phase[s] \in {"open", "params"}
    /\ adding' = [s |-> s, todo |-> Append(AmpSeq, Master)]
    /\ UNCHANGED <<enabled, phase, rt, refs, mcount, taken, orphaned, broken,
                   switched, resized, strayed>>

IsNext(d) == adding # Nobody /\ Head(adding.todo) = d

\* Mutant: the port that two amplifiers share stays taken.
FreePorts_Shared(m) ==
    taken \ {p.num : p \in {q \in ToSet(m.ports) : Cardinality(q.mask) = 1}}

\* qcom_swrm_stream_free_ports
FreePorts(m) == taken \ {p.num : p \in ToSet(m.ports)}

\* ALSA takes back the DAIs that had accepted: in a first hw_params those
\* before this one; in a later one all, and the master with them.
RollBack(s, m, amps) ==
    /\ adding' = Nobody
    /\ phase' = [phase EXCEPT ![s] = "open"]
    /\ resized' = resized \ {s}
    /\ IF phase[s] = "params"
       THEN /\ rt' = [rt EXCEPT ![s] = {}]
            /\ refs' = refs - 1
            /\ mcount' = [mcount EXCEPT ![s] = @ - 1]
            /\ taken' = FreePorts(CHOOSE x \in m : TRUE)
       ELSE /\ rt' = [rt EXCEPT ![s] = {RemoveSlaves(x, ToSet(amps)) : x \in m}]
            /\ refs' = refs + Cardinality(m) - Cardinality(rt[s])
            /\ UNCHANGED <<mcount, taken>>

Before(d) == SelectInSeq(AmpSeq, LAMBDA a : a = d)
Earlier(d) == SubSeq(AmpSeq, 1, Before(d) - 1)

\* No switch is on for this DAI.
wsa884x_hw_params_no_ports(s, a) ==
    /\ IsNext(a) /\ adding.s = s
    /\ Selected(s, a) = <<>>
    /\ RollBack(s, rt[s], Earlier(a))
    /\ UNCHANGED <<enabled, orphaned, broken, switched, strayed>>

\* The runtime of the stream's master, allocated by whoever comes first.
Fresh == [slaves |-> <<>>, ports |-> <<>>]
Runtime(s) == IF rt[s] = {} THEN Fresh ELSE CHOOSE m \in rt[s] : TRUE

\* sdw_stream_add_slave for the ports selected.  The array of entries is not
\* initialised: a port runtime of an earlier, longer selection takes what is
\* there: the number of one of its ports, or of none; one that cannot be a port's
\* refuses the call half way.
sdw_stream_add_slave(s, a) ==
    LET entries == Selected(s, a)
        m == Runtime(s)
        old == SlaveOf(m, a)
        ports == IF old = {} THEN entries ELSE (CHOOSE x \in old : TRUE).ports
        behind == (Len(entries) + 1)..Len(ports)
        whole(rest) == PutSlave(m, Slave(a, Filled(ports, entries, rest)))
    IN
    /\ IsNext(a) /\ adding.s = s
    /\ entries # <<>>
    /\ UNCHANGED <<enabled, orphaned, switched>>
    /\ \/ /\ \E rest \in [behind -> {"comp", "cps", Garbage}] :
                rt' = [rt EXCEPT ![s] = {whole(rest)}]
          /\ refs' = refs + 1 - Cardinality(rt[s])
          /\ adding' = [adding EXCEPT !.todo = Tail(@)]
          /\ resized' = IF Len(ports) # Len(entries) THEN resized \cup {s} ELSE resized
          /\ strayed' = (strayed \/ ports # entries)
          /\ UNCHANGED <<phase, mcount, taken, broken>>
       \/ /\ Len(ports) > Len(entries)
          /\ RollBack(s, {whole([i \in behind |-> Garbage])}, Earlier(a))
          /\ strayed' = TRUE
          /\ UNCHANGED broken

\* An allocation fails: master runtime, slave runtime, or one of its ports.
\* "we only cleanup what was allocated in this routine": the master runtime if
\* it was, and with it the slave's; else the slave's alone.
sdw_stream_add_slave_nomem(s, a) ==
    /\ IsNext(a) /\ adding.s = s
    /\ Selected(s, a) # <<>>
    /\ rt[s] = {} \/ SlaveOf(Runtime(s), a) = {}
    /\ Fails
    /\ RollBack(s, rt[s], Earlier(a))
    /\ UNCHANGED <<enabled, orphaned, switched, strayed>>

-----------------------------------------------------------------------------
(* The master: qcom_swrm_stream_alloc_ports, sdw_stream_add_master *)

\* find_first_zero_bit(port_mask, maxport)
FirstFree(mask) == Min({n \in 0..(MaxPort - 1) : n \notin mask} \cup {MaxPort})

\* Mutant: two amplifiers on one port of the master get it twice.
Merge_Twice(acc, a, p) ==
    LET pn == IF p \in Kinds THEN PortMap[a][p] ELSE FirstFree(acc.mask)
    IN  [mask |-> acc.mask \cup {pn}, entries |-> Append(acc.entries, Port(pn, {<<a, p>>}))]

\* One port of a slave: a port of the master that is already chosen for this
\* stream carries its channels too, another one is taken.
Merge(acc, a, p) ==
    LET pn == IF p \in Kinds THEN PortMap[a][p] ELSE FirstFree(acc.mask)
        same == {i \in DOMAIN acc.entries : acc.entries[i].num = pn}
    IN  IF same # {}
        THEN [acc EXCEPT !.entries =
                [i \in DOMAIN @ |->
                    IF i = Min(same) THEN Port(pn, @[i].mask \cup {<<a, p>>})
                    ELSE @[i]]]
        ELSE [mask |-> acc.mask \cup {pn},
              entries |-> Append(acc.entries, Port(pn, {<<a, p>>}))]

MergeSlave(acc, x) == FoldLeft(LAMBDA b, p : Merge(b, x.amp, p), acc, x.ports)
MasterPorts(m) == FoldLeft(MergeSlave, [mask |-> taken, entries |-> <<>>], m.slaves)

\* The result of sdw_stream_add_master is not looked at: a master runtime
\* without ports is a success, too, and one with the few that could be
\* allocated, which have no number and are taken for all the next time.
qcom_swrm_hw_params(s) ==
    LET m == Runtime(s)
        got == MasterPorts(m)
    IN
    /\ IsNext(Master) /\ adding.s = s
    /\ taken' = got.mask
    /\ adding' = Nobody
    /\ phase' = [phase EXCEPT ![s] = "params"]
    /\ UNCHANGED <<enabled, refs, orphaned, switched>>
    /\ \/ /\ rt' = [rt EXCEPT ![s] = {[m EXCEPT !.ports =
                IF @ = <<>> THEN got.entries
                ELSE Filled(@, got.entries, [i \in DOMAIN @ |-> Port(0, {})])]}]
          /\ mcount' = [mcount EXCEPT ![s] = IF m.ports = <<>> THEN @ + 1 ELSE @]
          /\ UNCHANGED <<broken, resized, strayed>>
       \/ /\ m.ports = <<>>
          /\ Fails
          /\ \E k \in 0..(Len(got.entries) - 1) :
                /\ rt' = [rt EXCEPT ![s] = {[m EXCEPT !.ports = [i \in 1..k |-> Port(0, {})]]}]
                /\ resized' = IF k > 0 THEN resized \cup {s} ELSE resized
          /\ strayed' = TRUE
          /\ UNCHANGED mcount

\* The array for the master's ports could not be allocated.
qcom_swrm_hw_params_nomem(s) ==
    /\ IsNext(Master) /\ adding.s = s
    /\ Fails
    /\ RollBack(s, rt[s], AmpSeq)
    /\ UNCHANGED <<enabled, orphaned, switched, strayed>>

-----------------------------------------------------------------------------
(* Preparing and going *)

\* sdw_get_slave_dpn_prop: the amplifier describes its data ports by direction.
Known(s, k) ==
    k \in (IF s = "render" THEN {"dac", "comp", "boost", "pbr"} ELSE {"vi", "cps"})

\* sdw_prep_deprep_ports refuses a port that is not described (by chance, it
\* may be); the rest of preparing is SoundWire's.
RuntimesPrepare(s) ==
    /\ adding = Nobody /\ phase[s] = "params"
    /\ \A x \in ToSet(Runtime(s).slaves) : \A k \in ToSet(x.ports) \cap Kinds : Known(s, k)
    /\ phase' = [phase EXCEPT ![s] = "prepared"]
    /\ UNCHANGED <<enabled, rt, refs, mcount, taken, adding, orphaned, broken, switched, resized, strayed>>

\* wsa884x_hw_free of each amplifier, then qcom_swrm_hw_free:
\* sdw_stream_remove_slave, qcom_swrm_stream_free_ports,
\* sdw_stream_remove_master.
RuntimesFree(s) ==
    /\ adding = Nobody /\ phase[s] \in {"params", "prepared"}
    /\ phase' = [phase EXCEPT ![s] = "open"]
    /\ taken' = FreePorts(Runtime(s))
    /\ rt' = [rt EXCEPT ![s] = {}]
    /\ refs' = refs - 1
    /\ mcount' = [mcount EXCEPT ![s] = @ - 1]
    /\ resized' = resized \ {s}
    /\ UNCHANGED <<enabled, adding, orphaned, broken, switched, strayed>>

RuntimesNext ==
    \/ \E s \in Dais :
        \/ sdw_alloc_stream(s) \/ sdw_release_stream(s)
        \/ ParamsBegin(s) \/ RuntimesPrepare(s) \/ RuntimesFree(s)
        \/ qcom_swrm_hw_params(s) \/ qcom_swrm_hw_params_nomem(s)
        \/ \E a \in Speakers :
            \/ wsa884x_hw_params_no_ports(s, a)
            \/ sdw_stream_add_slave(s, a) \/ sdw_stream_add_slave_nomem(s, a)
    \/ \E a \in Speakers, k \in Kinds : SetPort(a, k)

RuntimesSpec == RuntimesInit /\ [][RuntimesNext]_rtVars

-----------------------------------------------------------------------------
(* Properties *)

\* The bus counts the streams on its list, those that were freed with their
\* master runtime included, whatever was allocated and undone, and a stream
\* never counts more masters than it has.
ListsAreCounted ==
    /\ refs = orphaned + Cardinality({s \in Dais : rt[s] # {}})
    /\ \A s \in Dais : mcount[s] <= Cardinality(rt[s])

\* The ports of the master that carry what port p of amplifier a sends.
Carriers(m, a, p) ==
    {i \in DOMAIN m.ports :
        m.ports[i].num = PortMap[a][p] /\ <<a, p>> \in m.ports[i].mask}

\* A stream with parameters has each amplifier once, and a master with ports
\* has for each port of theirs exactly one that carries it, and none twice:
\* whatever switches moved between the amplifiers' calls, whoever failed and
\* was undone before, and however often the parameters were set.
StreamIsWhole(s) ==
    \A m \in rt[s] :
        /\ [i \in DOMAIN m.slaves |-> m.slaves[i].amp] = AmpSeq
        /\ m.ports # <<>> =>
            /\ \A x \in ToSet(m.slaves) : \A p \in ToSet(x.ports) :
                    Cardinality(Carriers(m, x.amp, p)) = 1
            /\ \A i, j \in DOMAIN m.ports : m.ports[i].num = m.ports[j].num => i = j

\* The ports handed out are those of the streams' masters, unless parameters
\* were set again with other ports on, or the master took none.
PortsAreReturned ==
    ~strayed => taken = {0} \cup UNION {{p.num : p \in ToSet(m.ports)} : m \in UNION Range(rt)}

RuntimesAreWhole ==
    /\ ListsAreCounted /\ PortsAreReturned
    /\ adding = Nobody =>
        \A s \in Dais \ resized :
            phase[s] \in {"params", "prepared"} => rt[s] # {} /\ StreamIsWhole(s)

-----------------------------------------------------------------------------
(* Not true of the code *)

\* "stream_refcount: number of streams currently using this bus"
\* (include/linux/soundwire/sdw.h).  A stream whose hw_params failed at its
\* second amplifier is freed with its master runtime on the bus's list.
NothingIsOrphaned == orphaned = 0

\* "m_rt_count: Count of Master runtime(s) in this stream" (sdw.h).  A master
\* whose ports could not be allocated was never counted, and is counted out.
MastersAreCounted == \A s \in Dais : mcount[s] >= 0

\* Parameters set again after a switch was moved fill the old ports.
NothingIsResized == resized = {}
=============================================================================
