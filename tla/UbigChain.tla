----------------------------- MODULE UbigChain -----------------------------
(***************************************************************************)
(* The LADSPA plugin (sp11_ladspa_candidate.c) around UbiG's two stages:   *)
(* Stage B streamed in blocks (stream256), then Stage A in blocks of its   *)
(* own (adapter256.c), both between whatever runs the host asks for.  A    *)
(* profile sets words Stage B's core is asked to follow; the next block    *)
(* copies what was marked dirty into the words it runs with.               *)
(*                                                                         *)
(* A frame is its number, counted over the frames the two stages are       *)
(* given; 0 is silence.                                                    *)
(***************************************************************************)
EXTENDS Integers, Sequences, SequencesExt

CONSTANTS
  Profiles,   \* the profiles asked for
  Eqs,        \* settings of the graphic equalizer
  Block,      \* frames of a block (256)
  Chunk,      \* frames a run processes at once (RT_CHUNK_FRAMES, 4096)
  Sizes,      \* frames a run has
  MaxFrames, MaxAsks, MaxFaults  \* model bounds

(* The fields vr_retarget_profile compares, in its order.                  *)
ChainProfiles ==
  [dynamic      |-> <<1, 5, 1,  5, 1, 10, 1, 96, 1, 10, 10, 10,  96>>,
   movie        |-> <<1, 0, 1,  2, 0,  6, 0, 72, 1, 16, 10, 16, 104>>,
   music        |-> <<1, 0, 0,  5, 0,  6, 0, 24, 0, 10, 10, 10,  96>>,
   game         |-> <<1, 0, 0,  7, 0, 10, 0,  0, 1, 10, 10, 10,  96>>,
   voice        |-> <<0, 0, 1,  8, 0, 10, 0,  0, 0, 10, 10, 10,  96>>,
   onlinecourse |-> <<1, 0, 1,  5, 0, 10, 0,  0, 0, 10, 10, 10,  64>>,
   personalize  |-> <<1, 3, 1, 10, 0, 10, 0, 48, 1, 10, 10, 10,  96>>]

Curve(p) == IF p \in {"movie", "music"} THEN "warm" ELSE "balanced"

ChainAssumption ==
  /\ Profiles \subseteq DOMAIN ChainProfiles
  /\ {Block, Chunk, MaxFrames} \subseteq Nat \ {0} /\ {MaxAsks, MaxFaults} \subseteq Nat
  /\ Sizes \subseteq Nat \ {0}

NoEq == 0
NoPort == "none"

VARIABLES
  ready,     \* p->ready
  profile,   \* p->profile
  eq,        \* p->custom_eq, or NoEq until one is known
  env,       \* UBIG_GEQ
  lastPort,  \* last_profile_request
  pageEq,    \* the equalizer the control page holds, if it does
  core,      \* what the core is asked for, and what of it is dirty
  live,      \* what it runs with
  stream,    \* stream256: position, source_buffer, processed_buffer
  adapter,   \* adapter256: fill, block_in, block_out
  frames,    \* frames processed so far
  since,     \* the first of them this Stage B was given
  heard,     \* the last run: its first frame, what it put out, what happened
  asks,      \* runs that asked for something
  faults

vars == <<ready, profile, eq, env, lastPort, pageEq, core, live, stream, adapter,
          frames, since, heard, asks, faults>>

Silence == [i \in 1 .. Block |-> 0]
NewStream == [position |-> 0, source |-> Silence, processed |-> Silence]
Nothing == [from |-> 1, out |-> <<>>, failed |-> FALSE, block |-> FALSE]

-----------------------------------------------------------------------------
(* vr_scalar for several fields: a word that changes makes the core dirty. *)
SetFields(c, F, p) ==
  LET fields == ChainProfiles[p]
      asked == [f \in DOMAIN c.asked |-> IF f \in F THEN fields[f] ELSE c.asked[f]]
  IN  [c EXCEPT !.asked = asked, !.dirty = @ \/ asked # c.asked]

SetCurve(c, curve) ==
  LET dirty == c.curveDirty \/ c.curve # curve
  IN  [c EXCEPT !.curve = curve, !.curveDirty = dirty, !.dirty = @ \/ dirty]

(* Mutant: the new targets do not count as a change.                       *)
ApplyGeqValues_Clean(c, e) ==
  [c EXCEPT !.geq = e, !.geqOn = TRUE, !.geqDirty = @ \/ ~c.geqOn, !.dirty = @ \/ ~c.geqOn]

(* vr_apply_geq_values: the control points are the bands, so each band's   *)
(* target is the setting.                                                  *)
ApplyGeqValues(c, e) ==
  LET dirty == c.geqDirty \/ c.geq # e \/ ~c.geqOn
  IN  [c EXCEPT !.geq = e, !.geqOn = TRUE, !.geqDirty = dirty, !.dirty = @ \/ dirty]

GeqOff(c) ==
  IF c.geqOn THEN [c EXCEPT !.geqOn = FALSE, !.geqDirty = TRUE, !.dirty = TRUE] ELSE c

(* vr_apply_geq: the setting asked for, else the environment's.            *)
Known(e) == IF e = NoEq THEN env ELSE e
ApplyGeq(c, e) == IF Known(e) = NoEq THEN GeqOff(c) ELSE ApplyGeqValues(c, Known(e))
EqAfter(p, e) == IF p = "personalize" THEN Known(e) ELSE e

(* vr_apply_profile.                                                       *)
ApplyProfile(c, p, e) ==
  LET set == SetFields(c, DOMAIN c.asked, p)
  IN  SetCurve(IF p = "personalize" THEN ApplyGeq(set, e) ELSE GeqOff(set), Curve(p))

Changed(old, new) ==
  LET before == ChainProfiles[old] after == ChainProfiles[new]
  IN  {f \in DOMAIN before : before[f] # after[f]}

(* Mutant: the equalizer stays on.                                         *)
Retarget_KeepsGeq(c, old, new, e) ==
  LET set == SetFields(c, Changed(old, new), new)
      curved == IF Curve(old) # Curve(new) THEN SetCurve(set, Curve(new)) ELSE set
  IN  IF new = "personalize" THEN ApplyGeq(curved, e) ELSE curved

(* vr_retarget_profile: only what the two profiles differ in.              *)
Retarget(c, old, new, e) ==
  LET set == SetFields(c, Changed(old, new), new)
      curved == IF Curve(old) # Curve(new) THEN SetCurve(set, Curve(new)) ELSE set
  IN  IF old # "personalize" /\ new = "personalize" THEN ApplyGeq(curved, e)
      ELSE IF old = "personalize" /\ new # "personalize" THEN GeqOff(curved)
      ELSE curved

(* chain_apply_profile_inplace, on the core, the profile and the setting.  *)
Setting == [core |-> core, profile |-> profile, eq |-> eq]
Switch(s, next) ==
  IF s.profile = next THEN s
  ELSE [core    |-> Retarget(s.core, s.profile, next, s.eq),
        profile |-> next,
        eq      |-> EqAfter(next, s.eq)]

(* chain_apply_control_request; e is the equalizer on the page.            *)
Requested(s, next, e) ==
  LET kept == IF e = NoEq THEN s ELSE [s EXCEPT !.eq = e]
  IN  IF next # s.profile THEN Switch(kept, next)
      ELSE IF next = "personalize" /\ e # NoEq
           THEN [kept EXCEPT !.core = ApplyGeqValues(@, e)]
           ELSE kept

(* native30f78_live, before every block.                                   *)
Follow(c, l) ==
  IF ~c.dirty THEN l
  ELSE [asked |-> c.asked,
        curve |-> IF c.curveDirty THEN c.curve ELSE l.curve,
        geqOn |-> IF c.geqDirty THEN c.geqOn ELSE l.geqOn,
        geq   |-> IF c.geqDirty THEN c.geq ELSE l.geq]
Followed(c) ==
  IF ~c.dirty THEN c
  ELSE [c EXCEPT !.dirty = FALSE, !.curveDirty = FALSE, !.geqDirty = FALSE]

-----------------------------------------------------------------------------
Shorter(a, b) == IF a < b THEN a ELSE b
Repeated(op(_), s, n) == FoldLeft(LAMBDA t, i : IF t.in = <<>> THEN t ELSE op(t), s,
                                  [i \in 1 .. n |-> i])
Stored(buffer, at, part) ==
  [i \in 1 .. Block |-> IF i \in (at + 1) .. (at + Len(part)) THEN part[i - at] ELSE buffer[i]]

(* One turn of ubig_stage_b_rt_stream256_process: a full block is          *)
(* processed when the frame after it comes.                                *)
StreamTurn(s) ==
  LET full == s.position >= Block
      at == IF full THEN 0 ELSE s.position
      processed == IF full THEN s.source ELSE s.processed
      take == Shorter(Block - at, Len(s.in))
  IN  [position  |-> at + take,
       source    |-> Stored(s.source, at, SubSeq(s.in, 1, take)),
       processed |-> processed,
       out       |-> s.out \o SubSeq(processed, at + 1, at + take),
       in        |-> SubSeq(s.in, take + 1, Len(s.in)),
       blocks    |-> s.blocks + (IF full THEN 1 ELSE 0)]

(* Mutant: the output of a frame is stored before its input is read.       *)
FrameIn_After(s, at, i) == s.out[at + i]

(* The input and the output of Stage A are the same array.                 *)
FrameIn(s, at, i) == s.in[i]

(* One turn of ubig_adapter256_process, stage_a_exact in it: after a       *)
(* failure the call's other blocks are silent too.                         *)
AdapterTurn(s) ==
  LET full == s.fill >= Block
      at == IF full THEN 0 ELSE s.fill
      bad == s.bad \/ (full /\ s.blocks + 1 = s.fails)
      out == IF ~full THEN s.out ELSE IF bad THEN Silence ELSE s.block
      take == Shorter(Block - at, Len(s.in))
  IN  [fill   |-> at + take,
       out    |-> out,
       block  |-> Stored(s.block, at, [i \in 1 .. take |-> FrameIn([s EXCEPT !.out = out], at, i)]),
       heard  |-> s.heard \o SubSeq(out, at + 1, at + take),
       in     |-> SubSeq(s.in, take + 1, Len(s.in)),
       blocks |-> s.blocks + (IF full THEN 1 ELSE 0),
       fails  |-> s.fails, bad |-> bad]

(* A chunk of chain_run: through Stage B, then through Stage A; a chunk    *)
(* Stage A fails in is silent.                                             *)
ChunkOf(r, in) ==
  LET b == Repeated(StreamTurn, [position |-> r.stream.position, source |-> r.stream.source,
                                 processed |-> r.stream.processed, out |-> <<>>,
                                 in |-> in, blocks |-> 0], Len(in))
      a == Repeated(AdapterTurn, [fill |-> r.adapter.fill, out |-> r.adapter.out,
                                  block |-> r.adapter.block, heard |-> <<>>, in |-> b.out,
                                  blocks |-> r.blocks, fails |-> r.fails, bad |-> FALSE],
                    Len(in))
  IN  [stream  |-> [position |-> b.position, source |-> b.source, processed |-> b.processed],
       adapter |-> [fill |-> a.fill, out |-> a.out, block |-> a.block],
       out     |-> r.out \o (IF a.bad THEN [i \in DOMAIN in |-> 0] ELSE a.heard),
       ran     |-> r.ran \/ b.blocks > 0,
       blocks  |-> a.blocks, fails |-> r.fails, failed |-> r.failed \/ a.bad]

Chunks(n) ==
  [k \in 1 .. ((n + Chunk - 1) \div Chunk) |->
     [i \in 1 .. Shorter(Chunk, n - (k - 1) * Chunk) |-> frames + (k - 1) * Chunk + i]]

-----------------------------------------------------------------------------
(* The core as the pack has it: it follows some profile.                   *)
PackOf(p) ==
  [asked |-> ChainProfiles[p], curve |-> Curve(p), geqOn |-> FALSE, geq |-> NoEq,
   dirty |-> FALSE, curveDirty |-> FALSE, geqDirty |-> FALSE]
LiveOf(c) == [asked |-> c.asked, curve |-> c.curve, geqOn |-> c.geqOn, geq |-> c.geq]

(* vr_build: a new core, cold, under the profile.                          *)
Build ==
  \E p \in Profiles :
    /\ core' = ApplyProfile(PackOf(p), profile, eq)
    /\ live' = LiveOf(PackOf(p))
    /\ eq' = EqAfter(profile, eq)
    /\ stream' = NewStream /\ since' = frames + 1

(* chain_instantiate.                                                      *)
Init ==
  /\ ready = TRUE /\ profile \in Profiles /\ env \in {NoEq} \cup Eqs
  /\ eq = EqAfter(profile, NoEq)
  /\ lastPort = NoPort /\ pageEq = NoEq
  /\ \E p \in Profiles : core = ApplyProfile(PackOf(p), profile, NoEq) /\ live = LiveOf(PackOf(p))
  /\ stream = NewStream
  /\ adapter = [fill |-> 0, block |-> Silence, out |-> Silence]
  /\ frames = 0 /\ since = 1 /\ heard = Nothing /\ asks = 0 /\ faults = 0

(* The control part of a run, and the core's own before its blocks.        *)
Serve(ran) ==
  \E port \in Profiles \cup {NoPort}, next \in Profiles \cup {NoPort}, e \in {pageEq} \cup Eqs :
    /\ e # pageEq => next = "personalize"
    /\ asks' = asks + (IF port = NoPort /\ next = NoPort THEN 0 ELSE 1) /\ asks' <= MaxAsks
    /\ LET asked == IF next = NoPort THEN Setting ELSE Requested(Setting, next, e)
           s == IF port = NoPort \/ port = asked.profile \/ port = lastPort
                THEN asked ELSE Switch(asked, port)
       IN  /\ profile' = s.profile /\ eq' = s.eq
           /\ core' = IF ran THEN Followed(s.core) ELSE s.core
           /\ live' = IF ran THEN Follow(s.core, live) ELSE live
    /\ lastPort' = (IF port = NoPort THEN lastPort ELSE port)
    /\ pageEq' = e

(* chain_run; when it is bypassed it plays its input instead of what it    *)
(* heard from the stages.                                                  *)
Run ==
  /\ ready
  /\ \E n \in Sizes, fails \in {0} \cup (IF faults < MaxFaults THEN {1, 2} ELSE {}) :
       LET r == FoldLeft(ChunkOf,
                  [stream |-> stream, adapter |-> adapter, out |-> <<>>, ran |-> FALSE,
                   blocks |-> 0, fails |-> fails, failed |-> FALSE], Chunks(n))
       IN  /\ frames + n <= MaxFrames
           /\ fails > 0 => r.failed
           /\ stream' = r.stream /\ adapter' = r.adapter
           /\ ready' = ~r.failed /\ faults' = faults + (IF r.failed THEN 1 ELSE 0)
           /\ frames' = frames + n
           /\ heard' = [from |-> frames + 1, out |-> r.out, failed |-> r.failed,
                        block |-> r.ran]
           /\ Serve(r.ran)
  /\ UNCHANGED <<env, since>>

(* chain_activate: nothing, unless Stage A failed.  For want of memory it  *)
(* may fail, and is tried again.                                           *)
Activate ==
  /\ ~ready /\ ready' = TRUE
  /\ Build
  /\ heard' = Nothing
  /\ UNCHANGED <<profile, env, lastPort, pageEq, adapter, frames, asks, faults>>

Done == (\A n \in Sizes : frames + n > MaxFrames) /\ UNCHANGED vars

Next == Run \/ Activate \/ Done

Spec == Init /\ [][Next]_vars

-----------------------------------------------------------------------------
(* Whatever was asked before, and of whom, a block runs with what a plugin *)
(* started under the present profile and equalizer would run with.         *)
AppliedWhole ==
  heard.block =>
    /\ live.asked = ChainProfiles[profile] /\ live.curve = Curve(profile)
    /\ live.geqOn <=> (profile = "personalize" /\ eq # NoEq)
    /\ live.geqOn => live.geq = eq

(* However the host cuts its runs, a frame is heard exactly two blocks     *)
(* after it came: silence instead only while Stage B starts, before which  *)
(* a block may be left in Stage A, or in a run Stage A failed in.          *)
DelayIsFixed ==
  ~heard.failed =>
    \A i \in DOMAIN heard.out :
      LET played == heard.from + i - 1 - 2 * Block
      IN  heard.out[i] = played \/ (played < since /\ heard.out[i] = 0)
=============================================================================
