--------------------------- MODULE StageBAnalysis ---------------------------
(***************************************************************************)
(* The analysis controller of UbiG's Stage B (stage_b_rt.c), called once   *)
(* for every 64 frames.  Period calls are accumulated into one spectrum,   *)
(* every spectrum is one update of eight histories of Depth rows, and      *)
(* every few updates the histories are summarised, half of them in one     *)
(* call and half in the next, in which a decision is taken from all of     *)
(* them.  The running sums are completed one update before the summary     *)
(* that reads them, over a row zeroed for the update to come.              *)
(*                                                                         *)
(* A value is what it was computed from: a spectrum is the first and the   *)
(* last of its calls, a row the spectra it was made of.                    *)
(***************************************************************************)
EXTENDS Integers, Sequences, SequencesExt

CONSTANTS
  Depth,      \* rows of a history (32)
  Period,     \* calls to an update (16)
  Steps,      \* updates from a summary to the next (5)
  MaxUpdates  \* model bound

AnalysisAssumption ==
  /\ {Depth, Period, MaxUpdates} \subseteq Nat \ {0, 1}
  /\ Steps \subseteq 2 .. (Depth - 1)

(* Columns 4 to 18 of a feature record, and the others; then one ring for  *)
(* each of the other histories.                                            *)
Ring == {"segments", "levels", "ratio", "variation", "spectral", "projection",
         "change", "peak"}
Summed == {"segments", "projection"}
Row == 0 .. (Depth - 1)

VARIABLES
  step,      \* lower_period - lower_reset, and the step of every cursor
  calls,     \* calls so far
  spectral,  \* the accumulator: its counter and the calls in it
  export,    \* the last spectrum it gave out
  clock,     \* upper_count, lower_count, lower_toggle
  index,     \* the row of each history the next update goes to
  row,       \* what the rows hold
  previous,  \* the spectrum, and the projection, a change is counted from
  phase,     \* where each running sum is due; the ratio history's cursor
  sums,      \* the rows in the running sums
  summary,   \* the rows each group of features was computed from, as it was read
  halved,    \* how often a group was halved since it was computed
  control    \* counter, cycle, armed, updated

vars == <<step, calls, spectral, export, clock, index, row, previous, phase, sums,
          summary, halved, control>>

Spectrum(u) == <<(u - 1) * Period + 1, u * Period>>
Zero == <<>>

(* The rows of a history made from one update, and from two neighbours.    *)
Paired == {"spectral", "change"}
RowOf(h, u) == IF h \in Paired THEN <<Spectrum(u - 1), Spectrum(u)>> ELSE <<Spectrum(u)>>

(* The pack the state is loaded from: its cursors are where the first      *)
(* summary will be.  Row i is as if the update i - Depth had filled it.    *)
Init ==
  /\ step \in Steps
  /\ calls = 0
  /\ spectral = [counter |-> 0, first |-> 0] /\ export = Spectrum(0)
  /\ clock = [upper |-> 0, lower |-> Depth - step, toggle |-> 0]
  /\ index = [h \in Ring |-> 0]
  /\ row = [h \in Ring |-> [i \in Row |-> RowOf(h, i - Depth + 1)]]
  /\ previous = [h \in Paired |-> <<Spectrum(0)>>]
  /\ phase = [h \in Summed \cup {"ratio"} |-> step]
  /\ sums = [h \in Summed |-> {}]
  /\ summary = [h \in Ring |-> {}]
  /\ halved = [h \in Ring |-> 0]
  /\ control = [counter |-> 0, cycle |-> Depth - step, armed |-> TRUE, updated |-> FALSE]

After(i) == (i + 1) % Depth
Before(i) == (i + Depth - 1) % Depth

-----------------------------------------------------------------------------
(* Mutant: the accumulator goes on where it was read.                      *)
First_NoReset == IF spectral.first = 0 THEN calls + 1 ELSE spectral.first

(* The first call of the accumulated spectrum.                             *)
First == IF spectral.counter = 0 THEN calls + 1 ELSE spectral.first

(* ubig_stage_b_rt_spectral_accumulate.                                    *)
Accumulate ==
  LET full == spectral.counter + 1 = Period
  IN  /\ spectral' = [counter |-> IF full THEN 0 ELSE spectral.counter + 1, first |-> First]
      /\ export' = IF full THEN <<First, calls + 1>> ELSE export

(* ubig_stage_b_rt_scheduler_step: whether this call updates the           *)
(* histories, and whether it summarises the first half or the second.      *)
Upper == clock.upper + 1 = Period
LowerCount == IF Upper THEN clock.lower + 1 ELSE clock.lower
LowerDue == LowerCount = Depth \/ clock.toggle = 1
LowerA == LowerDue /\ clock.toggle = 0
LowerB == LowerDue /\ clock.toggle = 1

Schedule ==
  clock' = [upper  |-> IF Upper THEN 0 ELSE clock.upper + 1,
            lower  |-> IF LowerDue THEN Depth - step ELSE LowerCount,
            toggle |-> IF LowerDue THEN 1 - clock.toggle ELSE clock.toggle]

-----------------------------------------------------------------------------
(* The running sum is taken one update before the summary.                 *)
SumIsDue(h) == h \in Summed /\ (index[h] + 2) % Depth = phase[h]

(* A history writes its row, and with a running sum due it zeroes the row  *)
(* for the update to come.                                                 *)
Recorded(h, value) ==
  LET written == [row[h] EXCEPT ![index[h]] = value]
  IN  IF SumIsDue(h) THEN [written EXCEPT ![After(index[h])] = Zero] ELSE written

(* ubig_stage_b_rt_feature_history_process: both kinds of its columns.     *)
FeatureHistory(h) == Recorded(h, <<export'>>)

(* ubig_stage_b_rt_segment_ratio_process.                                  *)
SegmentRatio == Recorded("ratio", <<export'>>)

(* ubig_stage_b_rt_variation_history_process.                              *)
Variation == Recorded("variation", <<export'>>)

(* ubig_stage_b_rt_spectral_change_process, from the spectrum it kept.     *)
SpectralChange == Recorded("spectral", Append(previous["spectral"], export'))

(* ubig_stage_b_rt_projection_history_process.                             *)
Projection == Recorded("projection", <<export'>>)

(* The record the projection has just written.                             *)
LatestProjection == Projection[Before(After(index["projection"]))]

(* ubig_stage_b_rt_feature_change_process.                                 *)
FeatureChange == Recorded("change", previous["change"] \o LatestProjection)

(* ubig_stage_b_rt_peak_residual_process.                                  *)
PeakResidual == Recorded("peak", <<export'>>)

Update ==
  /\ row' = [segments |-> FeatureHistory("segments"), levels |-> FeatureHistory("levels"),
             ratio |-> SegmentRatio, variation |-> Variation, spectral |-> SpectralChange,
             projection |-> Projection, change |-> FeatureChange, peak |-> PeakResidual]
  /\ previous' = [spectral |-> <<export'>>, change |-> LatestProjection]
  /\ sums' = [h \in Summed |->
       IF SumIsDue(h) THEN {row'[h][i] : i \in Row \ {After(index[h])}} ELSE sums[h]]
  /\ index' = [h \in Ring |-> After(index[h])]

-----------------------------------------------------------------------------
(* What a summary reads, as this call's own update has left it.            *)
Held(h) == {row'[h][i] : i \in Row}
Mean(h) == sums'[h] \cup {row'[h][Before(phase[h])]}

(* The Depth rows from the phase on, round to the next to be written; a    *)
(* distance of more or less would leave some out.                          *)
InOrder(h) ==
  LET span == Depth - phase[h] + index'[h]
  IN  [i \in 1 .. (IF span < Depth THEN span ELSE Depth) |->
         row'[h][IF i <= Depth - phase[h] THEN phase[h] + i - 1
                                          ELSE i - 1 - (Depth - phase[h])]]

(* The rows each of a group's features is computed from, a set for each    *)
(* way they are read.  ubig_stage_b_rt_feature_cadence_process, of the     *)
(* columns with a running sum and of the others.                           *)
SegmentCadence == {Mean("segments"), Held("segments"), ToSet(InOrder("segments"))}
LevelCadence == {Held("levels")}

(* ubig_stage_b_rt_stat32_ring_columns.                                    *)
RatioColumns == {ToSet(InOrder("ratio"))}

(* ubig_stage_b_rt_stat32_columns.                                         *)
VariationColumns == {Held("variation")}

(* ubig_stage_b_rt_stat32_step.                                            *)
ChangeStep(h) == {Held(h)}

(* ubig_stage_b_rt_cadence_summary_process.                                *)
ProjectionCadence == {Mean("projection"), Held("projection")}

(* ubig_stage_b_rt_rank_history_process, in proportion to the mean of the  *)
(* feature history.                                                        *)
RankHistory == {Held("peak"), Held("levels")}

Views ==
  [segments |-> SegmentCadence, levels |-> LevelCadence, ratio |-> RatioColumns,
   variation |-> VariationColumns, spectral |-> ChangeStep("spectral"),
   projection |-> ProjectionCadence, change |-> ChangeStep("change"), peak |-> RankHistory]

(* feature_cadence does nothing unless the history is at its phase.        *)
FeaturesDue == index'["segments"] = phase["segments"]

Computed ==
  IF LowerA THEN {"ratio"} \cup (IF FeaturesDue THEN {"segments", "levels"} ELSE {})
  ELSE IF LowerB THEN Ring \ {"segments", "levels", "ratio"}
  ELSE {}

(* The projection's phase moves at every summary, the features' only when  *)
(* it was met.                                                             *)
Moved == Computed \cap DOMAIN phase

Analyse ==
  /\ IF Upper THEN Update ELSE UNCHANGED <<row, previous, sums, index>>
  /\ summary' = [h \in Ring |-> IF h \in Computed THEN Views[h] ELSE summary[h]]
  /\ phase' = [h \in DOMAIN phase |->
                 IF h \in Moved THEN (phase[h] + step) % Depth ELSE phase[h]]

-----------------------------------------------------------------------------
(* ubig_stage_b_rt_control_cadence_process: in the call after the one in   *)
(* which the cycle came round, every feature is halved in place and the    *)
(* scores are taken.                                                       *)
Cycle == IF control.counter + 1 = Period THEN control.cycle + 1 ELSE control.cycle
Decides == Cycle # Depth /\ control.armed

Decide ==
  /\ control' = [counter |-> (control.counter + 1) % Period,
                 cycle   |-> IF Cycle = Depth THEN Depth - step ELSE Cycle,
                 armed   |-> Cycle = Depth \/ (control.armed /\ ~Decides),
                 updated |-> Decides]
  /\ halved' = [h \in Ring |-> (IF h \in Computed THEN 0 ELSE halved[h])
                               + (IF Decides THEN 1 ELSE 0)]

(* ubig_stage_b_rt_analysis_controller_process.                            *)
Call ==
  /\ calls < MaxUpdates * Period
  /\ Accumulate /\ Schedule /\ Analyse /\ Decide
  /\ calls' = calls + 1 /\ UNCHANGED step

Done == calls = MaxUpdates * Period /\ UNCHANGED vars

Next == Call \/ Done

Spec == Init /\ [][Next]_vars

-----------------------------------------------------------------------------
(* A decision is taken from the last Depth updates, whole spectra all of   *)
(* them: every feature, whichever of the two calls computed it and whether *)
(* from a running sum, the whole ring or the ring in order, covers these   *)
(* and no others, and was computed once since the decision before halved   *)
(* it, and a change is one between neighbours.  The first call's decision  *)
(* has nothing to go by.                                                   *)
DecidedOnWhole ==
  control.updated /\ calls > 1 =>
    LET newest == calls \div Period
        window(h) == {RowOf(h, u) : u \in (newest - Depth + 1) .. newest}
    IN  \A h \in Ring : summary[h] = {window(h)} /\ halved[h] = 1
=============================================================================
