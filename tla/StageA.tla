------------------------------- MODULE StageA -------------------------------
(***************************************************************************)
(* UbiG's Stage A (stage_a_core.c), a block at a time: the analysis turns  *)
(* a window of the input into bands, the synthesis turns the bands of this *)
(* block and of the one before, under the gains of each, into twice a      *)
(* window, whose ends overlap those of its neighbours; what they add up to *)
(* goes through a limiter that knows a frame one delay before it plays it. *)
(*                                                                         *)
(* A frame is its number.  In the limiter a frame is its level, 0 for one  *)
(* at or under the ceiling; gains are logarithms.                          *)
(***************************************************************************)
EXTENDS Integers, FiniteSets, FiniteSetsExt

CONSTANTS
  BlockLen,   \* frames of a block (256)
  Edge,       \* frames two windows share (64): a window is a block and an edge
  Ramp,       \* frames a gain is approached over (4)
  Groups,     \* of Ramp frames, in the limiter's histories (16)
  Loudest,    \* levels are 0 .. Loudest
  MaxPlayed   \* model bound: blocks

StageAAssumption ==
  /\ {BlockLen, Edge, Ramp, MaxPlayed} \subseteq Nat \ {0} /\ Loudest \in Nat
  /\ Groups \in Nat \ {0, 1} /\ 2 * Edge <= BlockLen

Delay == Ramp * Groups
Window == BlockLen + Edge
Phases == {0, 1}
Ring == 0 .. (Groups - 1)

VARIABLES
  phaseIndex,   \* state->phase_index, of both channels
  edge,         \* history: the edge the next window begins with
  bands,        \* band_data: the window each phase was analysed from
  gains,        \* the window each phase's gains were found for
  overlap,      \* what is still to be added to the frames to come
  output,       \* the block put out last: the parts each frame is the sum of
  blockNo,
  frameNo,      \* frames the limiter was given
  delayed,      \* delay, by delay_pos
  peak,         \* peak_history
  predictor,    \* predictor_history
  envelope,     \* the higher of the two envelopes
  pos,          \* delay_pos and history_pos
  target,       \* target_gain
  previous,     \* previous_gain
  ramped,       \* current_gain: the two gains it is between
  out           \* the frame played last: its level and the greatest its gain may be

filterVars == <<phaseIndex, edge, bands, gains, overlap, output, blockNo>>
limiterVars == <<frameNo, delayed, peak, predictor, envelope, pos, target, previous, ramped, out>>
vars == <<filterVars, limiterVars>>

-----------------------------------------------------------------------------
(* prepack of stage_a_analyzer.c: the window of the next block.            *)
Input(b) == ((b - 1) * BlockLen + 1) .. (b * BlockLen)
Packed == edge \cup Input(blockNo + 1)
EdgeAfter == {f \in Input(blockNo + 1) : f > (blockNo + 1) * BlockLen - Edge}

Turned == 1 - phaseIndex

(* ubig_stage_a_analyzer_process writes the phase it turned to, and        *)
(* ubig_stage_a_store_phase_gains the gains of it.                         *)
Analysed == [bands EXCEPT ![Turned] = Packed]

(* Mutant: the gains are stored a phase late.                              *)
Gained_Late == [gains EXCEPT ![phaseIndex] = Packed]

Gained == [gains EXCEPT ![Turned] = Packed]

(* What ubig_stage_a_synth_process makes the block of: this phase's bands  *)
(* and the other's, each under gains.                                      *)
Mixed == {<<Analysed[p], Gained[p]>> : p \in Phases}
Part(i) == <<blockNo + 1, i>>

(* Its last loops: frame by frame the overlap is moved a block on.         *)
Kept(i) ==
  IF i < 2 * Edge THEN {Part(BlockLen + i)} \cup overlap[BlockLen + i]
  ELSE {Part(BlockLen + i)}

(* ubig_stage_a_core_process_256, without its limiter.                     *)
FilterBlock ==
  /\ blockNo < MaxPlayed /\ frameNo = blockNo * BlockLen
  /\ blockNo' = blockNo + 1
  /\ phaseIndex' = Turned /\ edge' = EdgeAfter
  /\ bands' = Analysed /\ gains' = Gained
  /\ output' = [i \in 0 .. (BlockLen - 1) |-> [parts |-> {Part(i)} \cup overlap[i], of |-> Mixed]]
  /\ overlap' = [i \in DOMAIN overlap |-> Kept(i)]
  /\ UNCHANGED limiterVars

-----------------------------------------------------------------------------
Higher(a, b) == IF a < b THEN b ELSE a

(* predictor: the weight of the oldest entry is zero, the others are       *)
(* positive and their sum is one.                                          *)
Weighted(h) == Ring \ {(h + 1) % Groups}

(* The group's peak goes into the ring; at the end of a group the          *)
(* envelopes fall towards the ring's highest, or are below it, and what is *)
(* predicted is a mean.                                                    *)
PeakWith(level) == [peak EXCEPT ![pos.history] = Higher(@, level)]

GroupEnds(levels) ==
  LET highest == Max({levels[i] : i \in Ring})
  IN  \E smoothed \in highest .. Higher(highest, envelope) :
        LET entries == [predictor EXCEPT ![pos.history] = smoothed]
            seen == {entries[i] : i \in Weighted(pos.history)}
        IN  \E predicted \in Min(seen) .. Max(seen) :
              /\ envelope' = smoothed
              /\ predictor' = entries
              /\ previous' = target /\ target' = -predicted
              /\ pos' = [delay |-> (pos.delay + 1) % Delay, history |-> (pos.history + 1) % Groups]
              /\ peak' = [levels EXCEPT ![(pos.history + 1) % Groups] = 0]

Within(levels) ==
  /\ pos' = [pos EXCEPT !.delay = @ + 1]
  /\ peak' = levels
  /\ UNCHANGED <<envelope, predictor, previous, target>>

(* A frame of ubig_stage_a_limiter_process_256_feedback: it is delayed,    *)
(* and the one that comes out takes the gain found a frame before.         *)
LimitFrame ==
  /\ frameNo < blockNo * BlockLen /\ frameNo' = frameNo + 1
  /\ \E level \in 0 .. Loudest :
       /\ out' = [level |-> delayed[pos.delay], gain |-> Max(ramped)]
       /\ delayed' = [delayed EXCEPT ![pos.delay] = level]
       /\ ramped' = (IF (pos.delay + 1) % Ramp = 0 THEN {target} ELSE {previous, target})
       /\ IF (pos.delay + 1) % Ramp = 0 THEN GroupEnds(PeakWith(level)) ELSE Within(PeakWith(level))
  /\ UNCHANGED filterVars

-----------------------------------------------------------------------------
(* ubig_stage_a_core_init.                                                 *)
Init ==
  /\ phaseIndex = 1 /\ edge = {} /\ blockNo = 0
  /\ bands = [p \in Phases |-> {}] /\ gains = [p \in Phases |-> {}]
  /\ overlap = [i \in 0 .. (2 * Window - BlockLen - 1) |-> {}]
  /\ output = <<>>
  /\ frameNo = 0 /\ delayed = [i \in 0 .. (Delay - 1) |-> 0]
  /\ peak = [i \in Ring |-> 0] /\ predictor = [i \in Ring |-> 0] /\ envelope = 0
  /\ pos = [delay |-> 0, history |-> 0]
  /\ target = 0 /\ previous = 0 /\ ramped = {0}
  /\ out = [level |-> 0, gain |-> 0]

Done == blockNo = MaxPlayed /\ frameNo = MaxPlayed * BlockLen /\ UNCHANGED vars

Next == FilterBlock \/ LimitFrame \/ Done

Spec == Init /\ [][Next]_vars

-----------------------------------------------------------------------------
(* The windows analysed are the input without a gap, each a block and the  *)
(* edge before it, and bands are synthesised under the gains found for     *)
(* them; every synthesised window is heard whole, each of its frames once  *)
(* and in its place.                                                       *)
FramesAreWhole ==
  output # <<>> =>
    \A i \in 0 .. (BlockLen - 1) :
      /\ output[i].parts = {part \in (1 .. blockNo) \X (0 .. (2 * Window - 1)) :
                              (part[1] - 1) * BlockLen + part[2] = (blockNo - 1) * BlockLen + i}
      /\ output[i].of =
           {<<w, w>> : w \in {{f \in 1 .. (b * BlockLen) : f > (b - 1) * BlockLen - Edge} :
                                b \in {blockNo - 1, blockNo}}}

(* No frame leaves the limiter above the ceiling: the gain is down before  *)
(* the frame that needs it comes out, and until it has passed.             *)
BelowCeiling == out.level + out.gain <= 0
=============================================================================
