------------------------------ MODULE WsaMacro ------------------------------
(* The LPASS WSA macro, lpass-wsa-macro.c: two render paths with compander,   *)
(* soft clipper, VBAT attenuation and boost, the sensing of the amplifiers'   *)
(* voltage and current (VI), and the clock it provides to the SoundWire       *)
(* master.                                                                    *)
(*                                                                            *)
(* Its registers are behind a regmap cache.  Runtime PM stops the clocks three*)
(* seconds after the last user: the opened streams and the SoundWire clock.   *)
(* While they are stopped, what is written reaches the cache only.            *)
(*                                                                            *)
(* A register is <<path or "top", name>> and is in a set when it differs from *)
(* its default.  DAPM's order within one power change is kept where two       *)
(* widgets share a counter or a register.                                     *)
EXTENDS Integers, FiniteSets

CONSTANTS
    Paths,      \* the render paths and, with them, the VI inputs TX0 and TX1
    Left,       \* RX0, the only path with an ear speaker gain
    MaxPuts     \* writes to the macro's controls

ASSUME MacroAssumption ==
    IsFiniteSet(Paths) /\ Left \in Paths /\ "top" \notin Paths /\ MaxPuts \in Nat

VARIABLES
    rpm,        \* runtime PM: active, suspending, suspended, error
    rm,         \* registers, their cache, and whether their clock runs
    keeps,      \* whether the registers outlive their clock
    mclkUsers,  \* wsa_mclk_users
    hclk,       \* users of the SoundWire clock the macro provides
    ctl,        \* comp_enabled, is_softclip_on, the VI mixer, ear_spkr_gain
    port,       \* rx_port_value: 0, or the DAI a path's multiplexer selects
    ch,         \* active_ch_mask and active_ch_cnt of the two playback DAIs
    playing,    \* streams DAPM has started: "render", "vi"
    powered,    \* the paths DAPM has powered
    sensing,    \* the VI widget is powered
    softUsers,  \* softclip_clk_users
    puts,       \* control writes so far
    changed     \* history: paths whose switches moved while powered

macroVars == <<rpm, rm, keeps, mclkUsers, hclk, ctl, port, ch, playing, powered,
               sensing, softUsers, puts, changed>>

Of(ps, name) == ps \X {name}
Top(name) == {<<"top", name>>}

\* The VBAT block's registers are volatile: read from the hardware, not cached.
Volatile == Top("bcl")

-----------------------------------------------------------------------------
(* The register map *)

\* A write (or read and write) of registers, if there are any to write: on leave
\* their default, off return.
Update(m, on, off) ==
    IF on \cup off = {} THEN m
    ELSE [m EXCEPT !.cache = (@ \cup (on \ Volatile)) \ off,
                   !.chip = IF m.only THEN @ ELSE (@ \cup on) \ off,
                   !.dirty = @ \/ m.only,
                   !.stray = @ \/ (~m.only /\ ~m.clk)]

\* regcache_mark_dirty: the registers are taken to be at their defaults.
MarkDirty(m) == [m EXCEPT !.dirty = TRUE, !.defaults = TRUE]

\* regcache_sync: a register is not written when it is taken to be at its
\* default and belongs there.
Sync(m) ==
    [m EXCEPT !.chip = IF ~m.dirty THEN @
                       ELSE IF m.defaults THEN @ \cup m.cache
                       ELSE m.cache \cup (@ \cap Volatile),
              !.dirty = FALSE, !.defaults = FALSE,
              !.stray = @ \/ (m.dirty /\ ~m.clk)]

\* The clocks stop; the registers may go with them.
Unclock(m) == [m EXCEPT !.clk = FALSE, !.chip = IF keeps THEN @ ELSE {}]

-----------------------------------------------------------------------------
(* The two clocks inside *)

\* wsa_macro_mclk_enable: the first user writes the cache out and starts MCLK.
MclkOn(m, users) ==
    IF users = 0 THEN Update(Sync(MarkDirty(m)), Top("mclk"), {}) ELSE m
MclkOff(m, users) == IF users = 1 THEN Update(m, {}, Top("mclk")) ELSE m

\* wsa_macro_enable_softclip_clk, the clock of the soft clipper, which the VBAT
\* stage uses too: written by the user that finds no other, on either side.
SoftClkOn(m, ps, users) ==
    Update(m, Of({p \in ps : users[p] = 0}, "softclk"), {})

\* Mutant: the count is looked at before it is taken down.
SoftClkOff_TestFirst(m, ps, users) ==
    Update(m, {}, Of({p \in ps : users[p] = 0}, "softclk"))

SoftClkOff(m, ps, users) ==
    Update(m, {}, Of({p \in ps : users[p] = 1}, "softclk"))

-----------------------------------------------------------------------------
(* The widgets of the render paths that power up, or down, together.  DAPM   *)
(* takes the paths through each stage before it goes on to the next.         *)

\* wsa_macro_enable_vbat: the path's stage, and the block both paths share.
Attenuation(ps) == Of(ps, "vbat") \cup (IF ps = {} THEN {} ELSE Top("bcl"))
VbatOn(m, ps, users) == SoftClkOn(Update(m, Attenuation(ps), {}), ps, users)
VbatOff(m, ps, users) == SoftClkOff(Update(m, {}, Attenuation(ps)), ps, users)

\* wsa_macro_config_softclip
SoftclipOn(m, ps, users) ==
    Update(SoftClkOn(m, ps \cap ctl.soft, users), Of(ps \cap ctl.soft, "soft"), {})

SoftclipOff(m, ps, users) ==
    SoftClkOff(Update(m, {}, Of(ps \cap ctl.soft, "soft")), ps \cap ctl.soft, users)

\* The half dB of the mixing paths follows the companders, for both paths.
HalfDb(ps) == IF ps = {} \/ ctl.comp = {} THEN {} ELSE Of(Paths, "half")

\* wsa_macro_config_ear_spkr_gain replaces the left path's volume, if at all.
EarGain(ps) == {p \in ps : p = Left /\ p \in ctl.comp /\ ctl.ear}

\* wsa_macro_enable_interpolator and what it calls: mute and clock before, and
\* compander, soft clipper and gains after the path has power.
InterpPre(m, ps) == Update(m, Of(ps, "interp") \cup Of(ps, "mute"), {})
InterpPost(m, ps, users) ==
    LET comp == Update(m, Of(ps \cap ctl.comp, "comp"), {})
    IN  Update(SoftclipOn(comp, ps, users),
               HalfDb(ps) \cup Of(EarGain(ps), "ear"), Of(EarGain(ps), "vol"))
InterpOff(m, ps, users) ==
    LET comp == Update(m, {}, Of(ps \cap ctl.comp, "comp"))
    IN  Update(SoftclipOff(comp, ps, users), {},
               Of(ps, "interp") \cup HalfDb(ps) \cup Of(EarGain(ps), "ear")
                   \cup Of(EarGain(ps), "vol"))

\* wsa_macro_spk_boost_event: the boost before, the end of the mute after.
BoostPre(m, ps) == Update(m, Of(ps, "boost"), {})
BoostPost(m, ps) == Update(m, {}, Of(ps, "mute"))
BoostOff(m, ps) == Update(m, {}, Of(ps, "boost"))

\* Paths power up and down.  VBAT and the soft clipper take one use each of the
\* clock they share.
PathsUp(ps, m) ==
    LET vbat == VbatOn(InterpPre(Update(m, Of(ps, "rx"), {}), ps), ps, softUsers)
        more == [p \in Paths |-> softUsers[p] + 1]
    IN  BoostPost(InterpPost(BoostPre(vbat, ps), ps, more), ps)
PathsDown(ps, m) ==
    LET fewer == [p \in Paths |-> IF p \in ctl.soft THEN softUsers[p] - 1 ELSE softUsers[p]]
        interp == InterpOff(m, ps, softUsers)
    IN  Update(BoostOff(VbatOff(interp, ps, fewer), ps), {}, Of(ps, "rx"))
Uses(p) == IF p \in ctl.soft THEN 2 ELSE 1

\* wsa_macro_enable_vi_feedback senses the amplifiers whose switch is on now.
ViOn(m, vi) == Update(m, Of(vi, "vi"), {})
ViOff(m, vi) == Update(m, {}, Of(vi, "vi"))

\* DAPM brings the widgets to what the streams and routes ask for, the VI mixer
\* standing at vi: down, and MCLK last, before up, and MCLK first.
Power(ps, sense, vi) ==
    LET was == powered # {} \/ sensing
        is == ps # {} \/ sense
        paths == PathsDown(powered \ ps, rm)
        down == IF sensing /\ ~sense THEN ViOff(paths, vi) ELSE paths
        mclk == IF was /\ ~is THEN MclkOff(down, mclkUsers)
                ELSE IF is /\ ~was THEN MclkOn(down, mclkUsers) ELSE down
        up == PathsUp(ps \ powered, mclk)
    IN
    /\ rm' = IF sense /\ ~sensing THEN ViOn(up, vi) ELSE up
    /\ mclkUsers' = IF was = is THEN mclkUsers
                    ELSE IF is THEN mclkUsers + 1 ELSE mclkUsers - 1
    /\ softUsers' = [p \in Paths |->
                        IF p \in ps \ powered THEN softUsers[p] + Uses(p)
                        ELSE IF p \in powered \ ps THEN softUsers[p] - Uses(p)
                        ELSE softUsers[p]]
    /\ powered' = ps /\ sensing' = sense

Routed(streams, ports) ==
    IF "render" \in streams THEN {p \in Paths : ports[p] = 1} ELSE {}
Sensed(streams, vi) == "vi" \in streams /\ vi # {}

-----------------------------------------------------------------------------
(* Runtime PM and the clock for SoundWire *)

\* wsa_macro_runtime_suspend, its two halves: what is written in between is
\* meant for the cache.
Suspend_CacheOnly ==
    /\ rpm = "active" /\ hclk = 0
    /\ rpm' = "suspending"
    /\ rm' = MarkDirty([rm EXCEPT !.only = TRUE])
    /\ UNCHANGED <<keeps, mclkUsers, hclk, ctl, port, ch, playing, powered,
                   sensing, softUsers, puts, changed>>
Suspend_Clocks ==
    /\ rpm = "suspending"
    /\ rpm' = "suspended"
    /\ rm' = Unclock(rm)
    /\ UNCHANGED <<keeps, mclkUsers, hclk, ctl, port, ch, playing, powered,
                   sensing, softUsers, puts, changed>>

\* Mutant: the map stays on the cache.
Resumed_CacheOnly(m) == Sync([m EXCEPT !.clk = TRUE])

\* wsa_macro_runtime_resume: the cache is written out with the clocks running.
Resumed(m) == Sync([m EXCEPT !.clk = TRUE, !.only = FALSE])
Awake == IF rpm = "active" THEN rm ELSE Resumed(rm)

\* wsa_swrm_clock: its first user wakes the macro and takes MCLK, its last
\* gives MCLK back.
HclkGet ==
    /\ hclk > 0 \/ rpm \in {"active", "suspended"}
    /\ rpm' = "active" /\ hclk' = hclk + 1
    /\ IF hclk > 0 THEN UNCHANGED <<rm, mclkUsers>>
       ELSE /\ rm' = Update(MclkOn(Awake, mclkUsers), Top("swr"), {})
            /\ mclkUsers' = mclkUsers + 1
HclkPut ==
    /\ hclk' = IF hclk = 0 THEN 0 ELSE hclk - 1
    /\ IF hclk # 1 THEN UNCHANGED <<rm, mclkUsers>>
       ELSE /\ rm' = MclkOff(Update(rm, {}, Top("swr")), mclkUsers)
            /\ mclkUsers' = mclkUsers - 1
    /\ UNCHANGED rpm

\* A clock does not start: the macro is in error, and refuses from now on.
HclkRefused ==
    /\ hclk = 0 /\ rpm \in {"suspended", "error"}
    /\ rpm' = "error"
    /\ UNCHANGED <<hclk, rm, mclkUsers>>

-----------------------------------------------------------------------------
(* Streams and controls *)

MacroInit ==
    /\ rpm = "active" /\ hclk = 1 /\ mclkUsers = 1
    /\ keeps \in BOOLEAN
    /\ rm = [cache |-> Top("mclk") \cup Top("swr"),
             chip |-> Top("mclk") \cup Top("swr"),
             only |-> FALSE, dirty |-> FALSE, defaults |-> FALSE,
             clk |-> TRUE, stray |-> FALSE]
    /\ ctl = [comp |-> Paths, soft |-> {}, vi |-> Paths, ear |-> FALSE]
    /\ port = [p \in Paths |-> 1]
    /\ ch = [mask |-> <<Paths, {}>>, cnt |-> <<Cardinality(Paths), 0>>]
    /\ playing = {} /\ powered = {} /\ sensing = FALSE
    /\ softUsers = [p \in Paths |-> 0]
    /\ changed = {}

\* wsa_macro_hw_params of the render DAI: the rate of the connected paths.
wsa_macro_hw_params ==
    /\ rm' = Update(rm, Of(ch.mask[1], "rate"), {})
    /\ UNCHANGED <<rpm, keeps, mclkUsers, hclk, ctl, port, ch, playing, powered,
                   sensing, softUsers, puts, changed>>

\* DAPM hears that a stream starts or stops.
StreamEvent(streams) ==
    /\ playing' = streams
    /\ Power(Routed(streams, port), Sensed(streams, ctl.vi), ctl.vi)
    /\ UNCHANGED <<rpm, keeps, hclk, ctl, port, ch, puts, changed>>

\* One control write more, of the few a run allows.
PutOnce == puts < MaxPuts /\ puts' = puts + 1

Toggle(set, p) == IF p \in set THEN set \ {p} ELSE set \cup {p}
Taint(p, inUse) == changed' = IF inUse THEN changed \cup {p} ELSE changed

\* wsa_macro_set_compander, wsa_macro_soft_clip_enable_put and
\* wsa_macro_ear_spkr_pa_gain_put note the value for the next power change.
PutSwitch(p) ==
    /\ PutOnce
    /\ \/ ctl' = [ctl EXCEPT !.comp = Toggle(@, p)]
       \/ ctl' = [ctl EXCEPT !.soft = Toggle(@, p)]
       \/ p = Left /\ ctl' = [ctl EXCEPT !.ear = ~@]
    /\ Taint(p, p \in powered)
    /\ UNCHANGED <<rpm, rm, keeps, mclkUsers, hclk, port, ch, playing, powered,
                   sensing, softUsers>>

\* "Digital Volume" and "Digital Mute" write a register, or its cache.
PutRegister(p) ==
    /\ PutOnce
    /\ \E name \in {"vol", "mute"} :
        \/ rm' = Update(rm, {<<p, name>>}, {})
        \/ rm' = Update(rm, {}, Of({p}, name) \cup (IF name = "vol" THEN Of({p}, "ear") ELSE {}))
    /\ UNCHANGED <<rpm, keeps, mclkUsers, hclk, ctl, port, ch, playing, powered,
                   sensing, softUsers, changed>>

\* wsa_macro_rx_mux_put: masks and counts first, then DAPM.
wsa_macro_rx_mux_put(p, value) ==
    LET old == port[p]
        ports == [port EXCEPT ![p] = value]
    IN
    /\ PutOnce
    /\ value # 0 \/ old # 0
    /\ port' = ports
    /\ ch' = IF value # 0
             THEN [ch EXCEPT !.mask[value] = @ \cup {p}, !.cnt[value] = @ + 1]
             ELSE IF ch.cnt[old] = 0 THEN ch
             ELSE [ch EXCEPT !.mask[old] = @ \ {p}, !.cnt[old] = @ - 1]
    /\ Power(Routed(playing, ports), sensing, ctl.vi)
    /\ UNCHANGED <<rpm, keeps, hclk, ctl, playing, changed>>

\* wsa_macro_vi_feed_mixer_put: the mask first, then DAPM, which disables the
\* sensing of those that are still in the mask.
wsa_macro_vi_feed_mixer_put(p) ==
    LET vi == Toggle(ctl.vi, p) IN
    /\ PutOnce
    /\ ctl' = [ctl EXCEPT !.vi = vi]
    /\ Taint(p, sensing \/ "vi" \in playing)
    /\ Power(powered, Sensed(playing, vi), vi)
    /\ UNCHANGED <<rpm, keeps, hclk, port, ch, playing>>

Control ==
    \E p \in Paths :
        \/ PutSwitch(p) \/ PutRegister(p)
        \/ \E value \in 0..2 : wsa_macro_rx_mux_put(p, value)
        \/ wsa_macro_vi_feed_mixer_put(p)

-----------------------------------------------------------------------------
(* Properties *)

MacroTypeOK ==
    /\ rpm \in {"active", "suspending", "suspended", "error"}
    /\ rm.cache \subseteq (Paths \cup {"top"}) \X STRING
    /\ rm.chip \subseteq (Paths \cup {"top"}) \X STRING
    /\ mclkUsers \in 0..2 /\ hclk \in 0..2
    /\ port \in [Paths -> 0..2] /\ softUsers \in [Paths -> Int]
    /\ powered \subseteq Paths /\ sensing \in BOOLEAN
    /\ puts \in 0..MaxPuts /\ changed \subseteq Paths

\* While the macro is awake its registers hold what was written to them, before
\* or during its sleep; unless the hardware kept them over a sleep in which they
\* were returned to their defaults (regcache_mark_dirty in
\* wsa_macro_runtime_suspend takes them for lost).
HeardAsSet ==
    rpm = "active" =>
        /\ rm.cache \subseteq rm.chip
        /\ ~keeps => rm.chip \subseteq rm.cache \cup Volatile

\* A path whose switches did not move under it has all its stages while it
\* plays and none when it does not, whatever the other path and the streams
\* did: the two users of the soft clipper's clock included.
PathIsWhole ==
    \A p \in Paths \ changed :
        LET stages == {r[2] : r \in {x \in rm.cache : x[1] = p}}
                      \ {"vol", "ear", "mute", "rate", "half"}
        IN stages = (IF p \in powered
                     THEN {"rx", "interp", "vbat", "softclk", "boost"}
                          \cup (IF p \in ctl.comp THEN {"comp"} ELSE {})
                          \cup (IF p \in ctl.soft THEN {"soft"} ELSE {})
                     ELSE {})
                    \cup (IF sensing /\ p \in ctl.vi THEN {"vi"} ELSE {})

-----------------------------------------------------------------------------
(* Not true of the code *)

\* The masks say what the multiplexers select: a change from one DAI to the
\* other leaves the bit of the first, a repeated choice counts twice.
MaskIsMux ==
    \A d \in 1..2 : /\ ch.mask[d] = {p \in Paths : port[p] = d}
                    /\ ch.cnt[d] = Cardinality(ch.mask[d])

\* The uses of the soft clipper's clock are those of the paths in power: a
\* switch moved while the path plays leaves one too many, or too few.
UsesAreUsers ==
    \A p \in Paths : softUsers[p] = IF p \in powered THEN Uses(p) ELSE 0

\* Only the amplifiers whose switch is on are sensed: a switch turned off while
\* the stream runs clears the mask that the disabling goes by.
SensedAreOn == \A p \in Paths : <<p, "vi">> \in rm.cache => p \in ctl.vi

\* A playing path has its attenuation: the other path's end takes the block
\* they share.
AttenuatedWhilePlaying == powered # {} => Volatile \subseteq rm.chip

=============================================================================
