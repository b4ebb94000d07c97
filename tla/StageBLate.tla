----------------------------- MODULE StageBLate -----------------------------
(***************************************************************************)
(* The end of UbiG's Stage B (the late pipeline of stage_b_rt.c): the deep *)
(* controller bounds every band, a synthesis filter puts the bands back    *)
(* together and a limiter looks one block ahead: the block it plays is the *)
(* one it was given in the call before.  A call is four quarters of a      *)
(* block, and before them the deep controller, on the strongest reduction  *)
(* the limiter had in the last call.                                       *)
(*                                                                         *)
(* Levels, gains and reductions of the limiter are logarithms: a product   *)
(* is a sum, 0 is unity.  The bounds are in half their unit.               *)
(***************************************************************************)
EXTENDS Integers, FiniteSets, FiniteSetsExt

CONSTANTS
  Peaks,    \* peaks of a row of a block
  Limit,    \* config->limit
  Ease,     \* the reduction above which the gain falls with it
  Floor,    \* how far the gain may fall
  Top,      \* a band's levels are 0 to Top
  Width,    \* the knee: upper bound less lower
  Alpha,    \* steps of the balance's mix
  Taps,     \* coefficients of the synthesis filter
  MaxSteps  \* model bound

LateAssumption ==
  /\ Peaks \subseteq Int /\ Limit \in Int
  /\ \E p \in Peaks : p <= Limit /\ \A q \in Peaks : p <= q
  /\ {Ease, Floor, Top} \subseteq Nat
  /\ {Width, Alpha, MaxSteps} \subseteq Nat \ {0} /\ Taps \in Nat \ {0, 1}

Rows == {0, 1}
Level == 0 .. Top

VARIABLES
  steps,
  late,      \* previous_peak, envelope, delayed, minimum_ring, smoothed, gain
  lowest,    \* the least envelope of the blocks of this call; state->output
  history,   \* each row's block of the call before, by its peak
  played,    \* what each row was given: the block's peak, the reduction's ends
  baseline,  \* pair_bounds.baseline
  deep,      \* a band's bounds, until they are used
  taps,      \* the synthesis filter's history, a lane
  synth      \* what it put out last

vars == <<steps, late, lowest, history, played, baseline, deep, taps, synth>>

Quarters == steps - (steps + 4) \div 5
Rest == [upper |-> Width, lower |-> 0]
Smaller(a, b) == IF a < b THEN a ELSE b
Larger(a, b) == IF a < b THEN b ELSE a

-----------------------------------------------------------------------------
(* ubig_stage_b_rt_pair_bounds_process: a band's own bounds, or the        *)
(* common ones when those are lower; the two are a knee apart.             *)
Common(upper) == [upper |-> upper, lower |-> upper - Width]

(* Mutant: a band's lower bound is taken as it is given.                   *)
Bounds_Uncapped(upper, own) ==
  IF upper <= own.upper THEN Common(upper) ELSE own

Bounds(upper, own) ==
  IF upper <= own.upper THEN Common(upper)
  ELSE [own EXCEPT !.lower = Smaller(@, own.upper - Width)]

(* ubig_stage_b_rt_residual_balance_process: towards a lower pair of       *)
(* bounds, by a part of the way; all times Alpha.                          *)
Balanced(b, low, alpha) ==
  LET second == Smaller(b.lower + (low - b.upper), low - Width)
  IN  [upper |-> b.upper * (Alpha - alpha) + low * alpha,
       lower |-> b.lower * (Alpha - alpha) + second * alpha]

(* ubig_stage_b_rt_residual_mean_process: what is added to a target above  *)
(* the lower bound, times four knees.                                      *)
Knees(b) == 4 * (b.upper - b.lower)
Residual(b, target) ==
  IF target <= b.lower THEN 0
  ELSE IF target < 2 * b.upper - b.lower
       THEN -((target - b.lower) * (target - b.lower))
       ELSE Knees(b) * (b.upper - target)
Ended(b, target) == Knees(b) * target + Residual(b, target)

(* The baseline follows the reduction down and comes back without it.      *)
Baseline(control) ==
  IF control < 0 THEN {Larger(baseline + control, 0)}
                 ELSE {baseline, Smaller(baseline + 1, Top)}

(* ubig_stage_b_rt_deep_controller_process, a band.                        *)
DeepCall ==
  \E base \in Baseline(lowest.output), own \in [upper : Level, lower : Level],
     common \in BOOLEAN :
    LET b == IF common THEN Common(base) ELSE Bounds(base, own)
    IN  \E low \in {b.upper, b.upper - 1}, alpha \in 0 .. Alpha :
          baseline' = base /\ deep' = Balanced(b, low, alpha)

-----------------------------------------------------------------------------
(* ubig_stage_b_rt_transform64_process: the filter in transposed form, the *)
(* coefficients from the last to the first, of the real and the imaginary  *)
(* part in turn, two added and two taken off.                              *)
Sign(k) == IF k % 4 \in {0, 1} THEN 1 ELSE -1
Term(n, k) == <<n, Taps - 1 - k, IF k % 2 = 0 THEN "real" ELSE "imag", Sign(k)>>

Shifted(n) ==
  [k \in 1 .. (Taps - 1) |->
     (IF k < Taps - 1 THEN taps[k + 1] ELSE {}) \cup {Term(n, k)}]

Synthesise ==
  /\ synth' = taps[1] \cup {Term(Quarters + 1, 0)}
  /\ taps' = Shifted(Quarters + 1)

-----------------------------------------------------------------------------
(* Mutant: only the block that comes is looked at.                         *)
Held_Now(peak) == peak

Held(peak) == Larger(peak, late.previous)

(* stage_b_rt_late_history_block.  A value between two ends stands for     *)
(* their mix; the gain comes back to unity in steps.                       *)
Candidate(peak) == Smaller(0, Limit - (Held(peak) + late.gain))
Minimum(c) == Smaller(c, late.ring)
Smooth(c) == Smaller(Minimum(c), late.smoothed) .. Larger(Minimum(c), late.smoothed)

Reduced(c) == [envelope |-> c + late.gain, smoothed |-> c, control |-> c]
Released(c, smooth) ==
  [envelope |-> Smaller(c + late.gain, Larger(late.envelope, smooth + late.gain)),
   smoothed |-> smooth, control |-> smooth]

Answers(c) ==
  IF c + late.gain < late.envelope THEN {Reduced(c)}
  ELSE {Released(c, smooth) : smooth \in Smooth(c)}

Gains(control) ==
  IF control < -Ease THEN {late.gain, Larger(-Floor, late.gain + control)}
                     ELSE {late.gain, Smaller(0, late.gain + 1)}

LateBlock ==
  \E in \in [Rows -> Peaks] :
    LET peak == Larger(in[0], in[1])
        c == Candidate(peak)
    IN  \E answer \in Answers(c) : \E gain \in Gains(answer.control) :
          /\ late' = [previous |-> peak, envelope |-> answer.envelope,
                      delayed |-> late.envelope, ring |-> c,
                      smoothed |-> answer.smoothed, gain |-> gain]
          /\ history' = in
          /\ played' = [r \in Rows |->
               [peak |-> history[r], from |-> late.envelope, to |-> answer.envelope]]
          /\ lowest' = LET least == Smaller(lowest.least, answer.envelope)
                       IN  IF steps % 5 = 4 THEN [least |-> 0, output |-> least]
                                            ELSE [lowest EXCEPT !.least = least]

-----------------------------------------------------------------------------
Silent == Min(Peaks)

Init ==
  /\ steps = 0
  /\ late = [previous |-> Silent, envelope |-> 0, delayed |-> 0, ring |-> 0,
             smoothed |-> 0, gain |-> 0]
  /\ lowest = [least |-> 0, output |-> 0]
  /\ history = [r \in Rows |-> Silent]
  /\ played = [r \in Rows |-> [peak |-> Silent, from |-> 0, to |-> 0]]
  /\ baseline = Top
  /\ deep = Rest
  /\ taps = [k \in 1 .. (Taps - 1) |-> {}] /\ synth = {}

Deep ==
  /\ steps < MaxSteps /\ steps' = steps + 1 /\ steps % 5 = 0
  /\ DeepCall
  /\ UNCHANGED <<late, lowest, history, played, taps, synth>>

(* A quarter of a call of the late pipeline.                               *)
Quarter ==
  /\ steps < MaxSteps /\ steps' = steps + 1 /\ steps % 5 # 0
  /\ Synthesise /\ LateBlock
  /\ deep' = Rest
  /\ UNCHANGED baseline

Done == steps = MaxSteps /\ UNCHANGED vars

Next == Deep \/ Quarter \/ Done

Spec == Init /\ [][Next]_vars

-----------------------------------------------------------------------------
(* Nothing leaves Stage B above the limit: a block is played between two   *)
(* reductions each of which is enough for it, the second one though it was *)
(* taken for the block after it.  The synthesis sums as many of the last   *)
(* blocks as it has taps, each once.  And a band never ends above its      *)
(* upper bound, nor a louder one below a quieter.                          *)
NeverOverLimit ==
  /\ \A r \in Rows : played[r].peak + Larger(played[r].from, played[r].to) <= Limit
  /\ synth = {Term(Quarters - k, k) : k \in 0 .. (Smaller(Taps, Quarters) - 1)}
  /\ Knees(deep) > 0
  /\ \A target \in {Alpha * l : l \in Level} :
       /\ Ended(deep, target) <= Knees(deep) * deep.upper
       /\ Ended(deep, target) <= Ended(deep, target + 1)
=============================================================================
