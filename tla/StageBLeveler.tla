---------------------------- MODULE StageBLeveler ----------------------------
(***************************************************************************)
(* The leveler of UbiG's Stage B (stage_b_leveler.c and its primitives),   *)
(* once a block.  What it hears it smooths in a chain of stages, each read *)
(* by later ones, and when the sound suddenly drops, or when it was off,   *)
(* an event makes most of them begin again; when sound comes back after a  *)
(* long silence those that copy their input do.                            *)
(*                                                                         *)
(* A stage's row is the oldest block it may still hold the sound of: set,  *)
(* it has what it is set from; smoothed, the older of that and what it     *)
(* held.  Not counted as held: what a row is only weighed by (smoothing    *)
(* coefficients, mixes, gates), and the curve's bias, one number of the    *)
(* primary record for all bands, which offset, fast and slow add in every  *)
(* block, an event's too (stage_b_leveler.c:746).                          *)
(***************************************************************************)
EXTENDS Integers, Sequences

CONSTANTS
  HoldLimit,   \* quiet blocks after which silence was long
  RingSize,    \* entries of the histogram (80)
  Every,       \* blocks to an entry
  MaxBlocks    \* model bound

LevelerAssumption == {HoldLimit, RingSize, Every, MaxBlocks} \subseteq Nat \ {0}

(* Two channels, and a row for both together.                              *)
Channels == {0, 1}
Linked == 2
AllRows == Channels \cup {Linked}

RowsOf == [transition |-> AllRows, lookup |-> {Linked}, cubic |-> {Linked},
           feedback |-> {Linked}, response |-> {Linked},
           primary |-> AllRows, secondary |-> AllRows,
           level |-> AllRows, offset |-> AllRows, decision |-> {Linked},
           fast |-> {Linked}, slow |-> {Linked}, matrix |-> Channels]
Stages == DOMAIN RowsOf

(* What no event touches: the writer's primary record, what the lookup     *)
(* feeds back and answers with, and what the producer decided by: its      *)
(* count of quiet blocks and its mode.                                     *)
Lasting == {"primary", "feedback", "response", "decision"}

VARIABLES
  blocks,
  built,    \* active_rows: the state was laid out
  enabled,  \* the flags of the leveler and of the intelligent equalizer
  force,    \* force_target, state + 0x940
  direct,   \* adaptive_direct, state + 0x700
  hold,     \* lifecycle: quiet blocks
  age,      \* lifecycle: event_age
  oldest,   \* of each stage and row
  hist,     \* the histogram of the writer
  event,    \* the last block with an event
  since     \* the first block since the leveler was off

vars == <<blocks, built, enabled, force, direct, hold, age, oldest, hist, event, since>>

Now == blocks + 1

-----------------------------------------------------------------------------
(* ubig_stage_b_leveler_row_update: a drop is answered in the block after  *)
(* it, a forced event at once.                                             *)
Dropped(drop) == age + (IF drop \/ age > 0 THEN 1 ELSE 0)
Eventful(drop) == Dropped(drop) > 1 \/ force
HoldExpired(loud) == loud /\ hold >= HoldLimit

Lifecycle(drop, loud) ==
  /\ hold' = IF loud THEN 0 ELSE IF hold < HoldLimit THEN hold + 1 ELSE hold
  /\ age' = IF Eventful(drop) THEN 0 ELSE Dropped(drop)

-----------------------------------------------------------------------------
(* ubig_stage_b_leveler_history_init and _update: of the blocks to an      *)
(* entry the loudest counts; the bins and the total are corrected by the   *)
(* entry that comes and the one that goes.                                 *)
NoEntry == 0
NewHistogram ==
  [fresh |-> TRUE, peak |-> NoEntry, phase |-> 0, pos |-> 0, count |-> 0, given |-> 0,
   ring |-> [i \in 0 .. (RingSize - 1) |-> NoEntry], bins |-> {}]

Pushed(h, louder) ==
  LET peak == IF h.fresh \/ louder THEN Now ELSE h.peak
  IN  IF h.phase + 1 < Every
      THEN [h EXCEPT !.fresh = FALSE, !.peak = peak, !.phase = @ + 1]
      ELSE [h EXCEPT !.fresh = TRUE, !.peak = peak, !.phase = 0,
                     !.bins = (@ \ {h.ring[h.pos]}) \cup {peak},
                     !.ring[h.pos] = peak,
                     !.pos = (@ + 1) % RingSize, !.given = @ + 1,
                     !.count = IF @ < RingSize THEN @ + 1 ELSE RingSize]

-----------------------------------------------------------------------------
(* What smoothing leaves of a row, and what setting it does: the source is *)
(* what it is smoothed towards or set from, of any row.                    *)
Older(m, n) == IF m < n THEN m ELSE n
OldestOf(rows) == Older(Older(rows[0], rows[1]), rows[Linked])

ThisBlock == [r \in AllRows |-> Now]
Kept(stage, source) == [r \in RowsOf[stage] |-> Older(oldest[stage][r], source[r])]
Anew(stage, source) == [r \in RowsOf[stage] |-> source[r]]

(* ubig_stage_b_leveler_transition_row, of the three rows, of the lookup's *)
(* and of a channel's in the matrix: copied, or smoothed.                  *)
Transition(stage, copy) == IF copy THEN Anew(stage, ThisBlock) ELSE Kept(stage, ThisBlock)

(* The curve the lookup compares the next block with is always written     *)
(* over, with what its transition gave; its answer decays, and is raised   *)
(* by how much that curve changed, which a copy does not ask.              *)
Cubic(lookup) == Anew("cubic", lookup)
Response(lookup, feedback, copy) ==
  IF copy THEN oldest.response
  ELSE [r \in {Linked} |-> Older(Older(oldest.response[r], oldest.cubic[r]),
                                 Older(lookup[r], feedback[r]))]

(* Mutant: the row for both channels is not among those reset.             *)
Begun_Channels(stage, source) ==
  [r \in RowsOf[stage] |-> IF r \in Channels THEN source[r] ELSE Older(oldest[stage][r], source[r])]

(* The rows an event resets, each smoothed from nothing in the same block: *)
(* one for each channel, and one more for both.                            *)
Begun(stage, source) == Anew(stage, source)
Followed(stage, source, evt) == IF evt THEN Begun(stage, source) ELSE Kept(stage, source)

(* ubig_stage_b_leveler_reset, before ubig_stage_b_leveler_update smooths  *)
(* both records towards what was heard and counts the block: the reset is  *)
(* of the secondary and of the histogram.                                  *)
Primary(records) == Kept("primary", records)
Secondary(records, evt) == Followed("secondary", records, evt)
Counted(evt, push, louder) ==
  LET h == IF evt THEN NewHistogram ELSE hist
  IN  IF push THEN Pushed(h, louder) ELSE h

(* ubig_stage_b_leveler_producer_process: the curve's rows are drawn from  *)
(* the secondary and the records and held within the levels as they were,  *)
(* of any row (curve_bounds and link_ceiling); levels follow the records,  *)
(* offsets the curve's rows.                                               *)
Pipeline(records, secondary, evt) ==
  LET drawn == Older(OldestOf(records), OldestOf(secondary))
  IN  IF evt THEN drawn ELSE Older(drawn, OldestOf(oldest.level))
Level(records, evt) == Followed("level", records, evt)
Offset(records, secondary, evt) ==
  Followed("offset", [r \in AllRows |-> Pipeline(records, secondary, evt)], evt)

(* ubig_stage_b_leveler_adaptive_filter_process: an event zeroes both; the *)
(* slow one follows the fast, or is set by it when its target was, but in  *)
(* a block with nothing to set it to it stays.                             *)
Fast(records, secondary, offset, evt) ==
  Followed("fast", [r \in {Linked} |->
    Older(Older(records[r], secondary[r]), offset[r])], evt)
Slow(fast, evt, quiet) ==
  IF quiet THEN IF evt THEN Begun("slow", ThisBlock) ELSE oldest.slow
           ELSE Followed("slow", fast, evt \/ direct)

(* ubig_stage_b_leveler_matrix_process: a state for each channel.          *)
Matrix(copy) == Transition("matrix", copy)

(* Mutant: an event does not copy the rows, only the end of a silence.     *)
Copied_Expiry(evt, loud) == HoldExpired(loud)

(* linked_mode: the rows are copied.                                       *)
Copied(evt, loud) == evt \/ HoldExpired(loud)

(* What every stage has after a block: each reads those before it.         *)
Heard(evt, copy, quiet) ==
  LET records == Transition("transition", copy)
      lookup == Transition("lookup", copy)
      feedback == Kept("feedback", ThisBlock)
      secondary == Secondary(records, evt)
      offset == Offset(records, secondary, evt)
      fast == Fast(records, secondary, offset, evt)
  IN  [transition |-> records, lookup |-> lookup, cubic |-> Cubic(lookup),
       feedback |-> feedback, response |-> Response(lookup, feedback, copy),
       primary |-> Primary(records), secondary |-> secondary,
       level |-> Level(records, evt), offset |-> offset,
       decision |-> Kept("decision", records),
       fast |-> fast, slow |-> Slow(fast, evt, quiet),
       matrix |-> Matrix(copy)]

(* ubig_stage_b_leveler_parent_process: an event, and the end of a long    *)
(* silence, are known before any stage runs.                               *)
Parent(drop, loud, push, louder, quiet) ==
  LET evt == Eventful(drop)
  IN  /\ Lifecycle(drop, loud)
      /\ oldest' = Heard(evt, Copied(evt, loud), quiet)
      /\ hist' = Counted(evt, push, louder)
      /\ event' = IF evt THEN Now ELSE event

-----------------------------------------------------------------------------
(* native376: the state is laid out once, silent.                          *)
Built == [s \in Stages |-> [r \in RowsOf[s] |-> Now]]

Init ==
  /\ blocks = 0 /\ built = FALSE /\ enabled \in BOOLEAN
  /\ force = FALSE /\ direct = FALSE
  /\ hold = 0 /\ age = 0
  /\ oldest = [s \in Stages |-> [r \in RowsOf[s] |-> 0]]
  /\ hist = NewHistogram /\ event = 0 /\ since = 1

(* A profile turns it on and off, a new curve asks for its target at once. *)
Switch ==
  /\ blocks < MaxBlocks
  /\ \/ enabled' = ~enabled /\ UNCHANGED direct
     \/ enabled /\ ~direct /\ direct' = TRUE /\ UNCHANGED enabled
  /\ UNCHANGED <<blocks, built, force, hold, age, oldest, hist, event, since>>

Layout ==
  /\ blocks < MaxBlocks /\ ~built /\ built' = TRUE
  /\ oldest' = Built /\ force' = TRUE /\ direct' = TRUE
  /\ UNCHANGED <<blocks, enabled, hold, age, hist, event, since>>

(* Mutant: being off is not remembered.                                    *)
ForceAfter_Forgotten == FALSE

(* force_target after a block: taken back by a block the leveler ran in.   *)
ForceAfter == ~enabled

(* ubig_stage_b_leveler_wrapper_process.                                   *)
Process(drop, loud, push, louder, quiet) ==
  /\ blocks < MaxBlocks /\ built /\ enabled
  /\ Parent(drop, loud, push, louder, quiet)
  /\ direct' = FALSE
  /\ blocks' = Now /\ force' = ForceAfter
  /\ UNCHANGED <<built, enabled, since>>

Off ==
  /\ blocks < MaxBlocks /\ built /\ ~enabled
  /\ blocks' = Now /\ force' = ForceAfter /\ since' = Now + 1
  /\ UNCHANGED <<built, enabled, direct, hold, age, oldest, hist, event>>

Done == blocks = MaxBlocks /\ UNCHANGED vars

Next ==
  \/ Switch \/ Layout \/ Off \/ Done
  \/ \E drop, loud, push, louder, quiet \in BOOLEAN :
       (louder => push) /\ Process(drop, loud, push, louder, quiet)

Spec == Init /\ [][Next]_vars

-----------------------------------------------------------------------------
(* Nothing heard before the last event is left in any row of a stage that  *)
(* an event resets, itself or by what it reads, nor in the histogram, and  *)
(* there was an event since the leveler was off; what lasts is Lasting,    *)
(* and through the curve's bias the primary record is still added to.  The *)
(* histogram is that of as many of the last entries as it holds.           *)
EventForgets ==
  blocks >= since =>
    /\ event >= since
    /\ \A s \in Stages \ Lasting : \A r \in RowsOf[s] : oldest[s][r] >= event
    /\ hist.bins = {hist.ring[i] : i \in DOMAIN hist.ring} \ {NoEntry}
    /\ \A n \in hist.bins : n >= event
    /\ hist.count = IF hist.given < RingSize THEN hist.given ELSE RingSize
=============================================================================
