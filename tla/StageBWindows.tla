---------------------------- MODULE StageBWindows ----------------------------
(***************************************************************************)
(* The dialog enhancer of UbiG's Stage B (the multiband process of         *)
(* stage_b_rt.c), once a block while the profile has it enabled.  It goes  *)
(* by sums over the last rows it was given, each kept in its own way: one  *)
(* is summed again every time; the others are corrected by the row that    *)
(* comes and the row that goes, and replaced once a round by a sum that    *)
(* was only added to, so that roundings cannot pile up.                    *)
(*                                                                         *)
(* A row is its number among those the sum was given.  A sum is its terms, *)
(* with their signs.                                                       *)
(***************************************************************************)
EXTENDS Integers

CONSTANTS
  PrimaryDepth,     \* rows the correlation sums
  SecondaryDepth,   \* blocks back it compares them with
  IntegratorDepth, InputDepth, RmsDepth,
  MaxCounter,       \* the gate's counter at most (100)
  Bottom,           \* the stereo counter's (32768)
  MaxCalls          \* model bound

WindowsAssumption ==
  {PrimaryDepth, SecondaryDepth, IntegratorDepth, InputDepth, RmsDepth, MaxCounter,
   Bottom, MaxCalls} \subseteq Nat \ {0}

Windows == {"integrator", "input", "rms"}
RowsOf(w) == CASE w = "integrator" -> IntegratorDepth
              [] w = "input" -> InputDepth
              [] OTHER -> RmsDepth

VARIABLES
  calls,
  sound,    \* whether the pack's sums are those of its rows
  window,   \* the three sliding sums
  primary,  \* the correlation's rows: index, buffer, how many it was given
  delay,    \* its ring of earlier sums
  result,   \* what it compared last: the sum, and the earlier one
  gate,     \* one lane of the band gate: its counter, its value, whether closing it fell
  counter,  \* one lane of the stereo blend
  mixed     \* what the two rows were given last

vars == <<calls, sound, window, primary, delay, result, gate, counter, mixed>>

-----------------------------------------------------------------------------
Plus(sum, n) ==
  IF <<-1, n>> \in sum THEN sum \ {<<-1, n>>} ELSE sum \cup {<<1, n>>}
Minus(sum, n) ==
  IF <<1, n>> \in sum THEN sum \ {<<1, n>>} ELSE sum \cup {<<-1, n>>}
Terms(numbers) == {<<1, n>> : n \in numbers}
Last(n, depth) == (n - depth + 1) .. n
Stale == -1000

(* The pack's rows, oldest at the index.                                   *)
Slots(depth, index) ==
  [i \in 0 .. (depth - 1) |-> ((i - index) % depth) - depth + 1]

LoadedWindow(depth, index) ==
  [index |-> index, slot |-> Slots(depth, index), given |-> 0, rounds |-> 0, added |-> 0,
   sum |-> Terms(Last(0, depth)) \cup (IF sound THEN {} ELSE {<<1, Stale>>}),
   acc |-> Terms({Slots(depth, index)[i] : i \in 0 .. (index - 1)})
           \cup (IF sound THEN {} ELSE {<<-1, Stale>>})]

(* Mutant: the sum of the round is not started anew.                       *)
Wrapped_KeepsAcc(w, n) ==
  [w EXCEPT !.index = 0, !.slot[w.index] = n, !.given = n,
            !.sum = Plus(w.acc, n), !.rounds = w.added + 1,
            !.acc = Plus(w.acc, n), !.added = w.added + 1]

(* The last row of a round: the sum is the one only added to.              *)
Wrapped(w, n) ==
  [w EXCEPT !.index = 0, !.slot[w.index] = n, !.given = n,
            !.sum = Plus(w.acc, n), !.rounds = w.added + 1,
            !.acc = {}, !.added = 0]

Corrected(w, n) ==
  [w EXCEPT !.index = @ + 1, !.slot[w.index] = n, !.given = n,
            !.sum = Plus(Minus(w.sum, w.slot[w.index]), n), !.rounds = w.rounds + 2,
            !.acc = Plus(w.acc, n), !.added = w.added + 1]

(* ubig_stage_b_rt_window_sum_update, and the integrator of the            *)
(* correlation.                                                            *)
Given(w, depth) ==
  IF w.index + 1 < depth THEN Corrected(w, w.given + 1) ELSE Wrapped(w, w.given + 1)

(* ubig_stage_b_rt_row_history_update: every row is summed again.          *)
Summed(h) ==
  [h EXCEPT !.buffer[h.index] = h.given + 1, !.given = @ + 1,
            !.index = (@ + 1) % PrimaryDepth]

-----------------------------------------------------------------------------
(* ubig_stage_b_rt_band_gate_process, a lane: the longer it was open, the  *)
(* slower it closes at first.                                              *)
Opened(c) == IF c > MaxCounter - 1 THEN MaxCounter ELSE c + 1
Closed(c) == IF c <= 1 THEN 1 ELSE c - 1
Age(c) == MaxCounter + 1 + (IF c <= 1 THEN -1 ELSE 1 - c)

Fall(v, c) == IF Age(c) < v THEN v - Age(c) ELSE 0

(* The correction takes its step off a value above it.                     *)
Correction == 1
Correct(v) == {v} \cup (IF Correction < v THEN {v - Correction} ELSE {})

GateStep ==
  \E open \in BOOLEAN :
    \E v \in (IF open THEN 0 .. MaxCounter ELSE {Fall(gate.value, gate.counter)}) :
      \E corrected \in Correct(v) :
        gate' = [counter |-> IF open THEN Opened(gate.counter) ELSE Closed(gate.counter),
                 value   |-> corrected,
                 fell    |-> open \/ gate.value = 0 \/ corrected < gate.value]

(* ubig_stage_b_rt_stereo_blend_process, a lane: back towards zero unless  *)
(* enough lanes saw an event and the lane is above the deadband.           *)
StereoStep ==
  counter' \in {IF counter < 0 THEN counter + 1 ELSE 0,
                counter,
                IF counter <= -Bottom THEN -Bottom ELSE counter - 1}

-----------------------------------------------------------------------------
(* The scratch of ubig_stage_b_rt_multiband_process, by the lane each of   *)
(* its rows starts at; a step reads rows and writes rows, and what it      *)
(* writes is told by what it was made from.                                *)
Bands == 20
ScratchRows == {0, 20, 64, 84, 104, 124}

ExpRows(s) == [s EXCEPT ![104] = <<"exp", 0>>, ![124] = <<"exp", 1>>]
Thresholds(s) == [s EXCEPT ![64] = <<"threshold", 0>>, ![84] = <<"threshold", 1>>]
BandGate(s) == [s EXCEPT ![0] = <<"gate", 0, s[64]>>, ![20] = <<"gate", 1, s[64 + Bands]>>]
StereoBlend(s) == [s EXCEPT ![84] = <<"stereo", s[64], s[0]>>]
Crossfade(s) == [s EXCEPT ![20] = <<"mix", s[104], s[124], s[84], s[20]>>]

(* Mutant: the stereo blend writes over the thresholds before the gate has *)
(* read them.                                                              *)
Scratch_BlendFirst ==
  Crossfade(BandGate(StereoBlend(Thresholds(ExpRows([r \in ScratchRows |-> <<>>])))))

Scratch == Crossfade(StereoBlend(BandGate(Thresholds(ExpRows([r \in ScratchRows |-> <<>>])))))

-----------------------------------------------------------------------------
Init ==
  /\ calls = 0 /\ sound \in BOOLEAN
  /\ \E phase \in 0 .. (PrimaryDepth * SecondaryDepth - 1) :
       /\ window = [w \in Windows |-> LoadedWindow(RowsOf(w), phase % RowsOf(w))]
       /\ primary = [index |-> phase % PrimaryDepth, given |-> 0,
                     buffer |-> Slots(PrimaryDepth, phase % PrimaryDepth)]
       /\ delay = [index |-> phase % SecondaryDepth,
                   slot |-> Slots(SecondaryDepth, phase % SecondaryDepth)]
  /\ result = [sum |-> Terms(Last(0, PrimaryDepth)), previous |-> -SecondaryDepth]
  /\ gate = [counter |-> 0, value |-> 0, fell |-> TRUE] /\ counter = 0
  /\ mixed = <<>>

(* stage_b_rt_correlation_step.                                            *)
Correlate ==
  /\ primary' = Summed(primary)
  /\ delay' = [index |-> (delay.index + 1) % SecondaryDepth,
               slot |-> [delay.slot EXCEPT ![delay.index] = primary'.given]]
  /\ result' = [sum |-> Terms({primary'.buffer[i] : i \in DOMAIN primary.buffer}),
                previous |-> delay.slot[delay.index]]

(* A block: with a control of its own from the analysis the two windows of *)
(* the blend are left alone.                                               *)
Process(optional) ==
  /\ calls < MaxCalls /\ calls' = calls + 1
  /\ Correlate
  /\ window' = [w \in Windows |->
       IF w = "integrator" \/ ~optional THEN Given(window[w], RowsOf(w)) ELSE window[w]]
  /\ GateStep /\ StereoStep
  /\ mixed' = <<Scratch[0], Scratch[20]>>
  /\ UNCHANGED sound

Done == calls = MaxCalls /\ UNCHANGED vars

Next == (\E optional \in BOOLEAN : Process(optional)) \/ Done

Spec == Init /\ [][Next]_vars

-----------------------------------------------------------------------------
(* A sliding sum is that of the last rows it was given, from the second    *)
(* round on whatever the pack had in it, and no older rounding is left in  *)
(* it; the correlation compares the last rows with as many, as much        *)
(* earlier as its ring is long.                                            *)
WindowsAreExact ==
  /\ \A w \in Windows :
       LET s == window[w]
       IN  (sound \/ s.given >= 2 * RowsOf(w)) =>
             s.sum = Terms(Last(s.given, RowsOf(w))) /\ s.rounds < 3 * RowsOf(w)
  /\ result.sum = Terms(Last(primary.given, PrimaryDepth))
  /\ result.previous = primary.given - SecondaryDepth

(* A closing gate falls, by a step or more, until it is shut; the stereo   *)
(* counter keeps to the 16 bits it is scaled for.                          *)
GateFalls == gate.fell /\ counter \in -Bottom .. 0

(* Each row is given its own gate, the second one mixed with the stereo    *)
(* blend: no step of the process reads a row of the scratch another has    *)
(* written over.                                                           *)
RowsAreTheirOwn ==
  calls > 0 =>
    LET gated(row) == <<"gate", row, <<"threshold", row>>>>
    IN  mixed = <<gated(0), <<"mix", <<"exp", 0>>, <<"exp", 1>>,
                              <<"stereo", <<"threshold", 0>>, gated(0)>>, gated(1)>>>>
=============================================================================
