----------------------------- MODULE UbigEngine -----------------------------
(***************************************************************************)
(* UbiG's signal processing, piece by piece: the plugin's two stages in a  *)
(* chain, Stage A's filter bank and limiter, and of Stage B the analysis,  *)
(* the dialog enhancer, the leveler and the late pipeline; and the Fourier *)
(* transforms of both.  One thread calls them in a fixed order and each    *)
(* keeps a state of its own: a behaviour is that of one piece.             *)
(***************************************************************************)
EXTENDS Transforms

CONSTANTS
  Profiles, Eqs, Block, Chunk, Sizes, MaxFrames, MaxAsks, MaxFaults,
  BlockLen, Edge, Ramp, Groups, Loudest, MaxPlayed,
  Depth, Period, Steps, MaxUpdates,
  PrimaryDepth, SecondaryDepth, IntegratorDepth, InputDepth, RmsDepth, MaxCounter,
  Bottom, MaxCalls,
  Peaks, Limit, Ease, Floor, Top, Width, Alpha, Taps, MaxSteps,
  HoldLimit, RingSize, Every, MaxBlocks

VARIABLES
  piece,   \* which of them
  ready, profile, eq, env, lastPort, pageEq, core, live, stream, adapter, frames, first,
  heard, asks, faults,
  phaseIndex, edge, bands, gains, overlap, output, blockNo, frameNo, delayed, peak,
  predictor, envelope, pos, target, previous, ramped, out,
  step, calls, spectral, export, clock, index, row, before, phase, sums, summary, halved, control,
  count, sound, window, primary, delay, result, gate, counter, mixed,
  steps, late, lowest, history, played, baseline, deep, taps, synth,
  blocks, built, enabled, force, direct, hold, age, oldest, hist, event, since

Chain == INSTANCE UbigChain WITH since <- first
Core == INSTANCE StageA
Analysis == INSTANCE StageBAnalysis WITH previous <- before
Dialog == INSTANCE StageBWindows WITH calls <- count
Late == INSTANCE StageBLate
Leveler == INSTANCE StageBLeveler

ASSUME EngineAssumption ==
  /\ TransformsAssumption /\ Chain!ChainAssumption /\ Core!StageAAssumption
  /\ Analysis!AnalysisAssumption /\ Dialog!WindowsAssumption
  /\ Late!LateAssumption /\ Leveler!LevelerAssumption

chainVars == <<ready, profile, eq, env, lastPort, pageEq, core, live, stream, adapter, frames,
               first, heard, asks, faults>>
coreVars == <<phaseIndex, edge, bands, gains, overlap, output, blockNo, frameNo, delayed, peak,
              predictor, envelope, pos, target, previous, ramped, out>>
analysisVars == <<step, calls, spectral, export, clock, index, row, before, phase, sums, summary,
                  halved, control>>
dialogVars == <<count, sound, window, primary, delay, result, gate, counter, mixed>>
lateVars == <<steps, late, lowest, history, played, baseline, deep, taps, synth>>
levelerVars == <<blocks, built, enabled, force, direct, hold, age, oldest, hist, event, since>>
engineVars == <<piece, transformVars, chainVars, coreVars, analysisVars, dialogVars, lateVars,
                levelerVars>>

-----------------------------------------------------------------------------
(* The pieces that do not run rest in one of their initial states.         *)
EngineInit ==
  /\ piece \in {"transforms", "chain", "core", "analysis", "dialog", "late", "leveler"}
  /\ TransformInit /\ (piece # "transforms" => kind = "fft8" /\ at = 0 /\ part = "real")
  /\ Analysis!Init /\ (piece # "analysis" => \A s \in Steps : step <= s)
  /\ Dialog!Init /\ (piece # "dialog" => sound /\ <<primary.index, delay.index>> = <<0, 0>>)
  /\ Leveler!Init /\ (piece # "leveler" => enabled)
  /\ Chain!Init
  /\ piece # "chain" => /\ \A p \in Profiles : profile = p \/ profile = "dynamic"
                        /\ env = 0 /\ live.asked = Chain!ChainProfiles[profile]
  /\ Core!Init /\ Late!Init

EngineNext ==
  /\ UNCHANGED piece
  /\ \/ /\ piece = "transforms" /\ TransformNext
        /\ UNCHANGED <<chainVars, coreVars, analysisVars, dialogVars, lateVars, levelerVars>>
     \/ /\ piece = "chain" /\ Chain!Next
        /\ UNCHANGED <<transformVars, coreVars, analysisVars, dialogVars, lateVars, levelerVars>>
     \/ /\ piece = "core" /\ Core!Next
        /\ UNCHANGED <<transformVars, chainVars, analysisVars, dialogVars, lateVars, levelerVars>>
     \/ /\ piece = "analysis" /\ Analysis!Next
        /\ UNCHANGED <<transformVars, chainVars, coreVars, dialogVars, lateVars, levelerVars>>
     \/ /\ piece = "dialog" /\ Dialog!Next
        /\ UNCHANGED <<transformVars, chainVars, coreVars, analysisVars, lateVars, levelerVars>>
     \/ /\ piece = "late" /\ Late!Next
        /\ UNCHANGED <<transformVars, chainVars, coreVars, analysisVars, dialogVars, levelerVars>>
     \/ /\ piece = "leveler" /\ Leveler!Next
        /\ UNCHANGED <<transformVars, chainVars, coreVars, analysisVars, dialogVars, lateVars>>

EngineSpec == EngineInit /\ [][EngineNext]_engineVars

-----------------------------------------------------------------------------
(* A block of Stage B runs with the whole of the present profile and       *)
(* equalizer: AppliedWhole of UbigChain.                                   *)
AppliedWhole == piece = "chain" => Chain!AppliedWhole

(* A frame is heard two blocks after it came, however runs are cut:        *)
(* DelayIsFixed of UbigChain.                                              *)
DelayIsFixed == piece = "chain" => Chain!DelayIsFixed

(* Stage A puts every window together from the parts and gains that belong *)
(* to it: FramesAreWhole of StageA.                                        *)
FramesAreWhole == piece = "core" => Core!FramesAreWhole

(* Neither limiter lets anything through above its ceiling: BelowCeiling   *)
(* of StageA, NeverOverLimit of StageBLate.                                *)
NeverOverLimit ==
  /\ piece = "core" => Core!BelowCeiling
  /\ piece = "late" => Late!NeverOverLimit

(* What Stage B decides and compares by are the histories they are taken   *)
(* for, read before their rows are overwritten, and what it opens it       *)
(* closes: DecidedOnWhole of StageBAnalysis; WindowsAreExact,              *)
(* RowsAreTheirOwn and GateFalls of StageBWindows.                         *)
HistoriesAreWhole ==
  /\ piece = "analysis" => Analysis!DecidedOnWhole
  /\ piece = "dialog" =>
       Dialog!WindowsAreExact /\ Dialog!RowsAreTheirOwn /\ Dialog!GateFalls

(* An event of the leveler leaves nothing behind in the stages it resets,  *)
(* itself or by what they read: EventForgets of StageBLeveler.             *)
EventForgets == piece = "leveler" => Leveler!EventForgets

(* The transforms are the discrete Fourier transform: TransformsAreDft of  *)
(* Transforms.                                                             *)
BinsAreDft == piece = "transforms" => TransformsAreDft
=============================================================================
