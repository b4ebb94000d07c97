---------------------------- MODULE ComprStream ----------------------------
(***************************************************************************)
(* A compressed playback stream: the application writes an encoded track   *)
(* into a ring of fragments, q6apm_compr_copy (q6apm-dai.c) starts the     *)
(* hand-over, and every WRITE_DONE of the DSP hands over the next fragment *)
(* until a drain sends the last one with an end-of-stream behind it.       *)
(*                                                                         *)
(* Lengths are counted in units, F to the fragment.  What the compress     *)
(* core of ALSA does around the calls is part of the actions; its device   *)
(* lock keeps the application's calls apart, not the callback, which takes *)
(* prtd->lock.  Failing commands are the subject of ApmGraph.              *)
(***************************************************************************)
EXTENDS Integers, Sequences

CONSTANTS
  Fragments, F,       \* fragments of the ring, units of a fragment
  MaxUnits, MaxTurns  \* model bounds: units written; starts, pauses, drains, stops

ComprAssumption ==
  {Fragments, F} \subseteq Nat \ {0} /\ {MaxUnits, MaxTurns} \subseteq Nat

VARIABLES
  cstate,              \* stream->runtime->state
  total,               \* runtime->total_bytes_available
  received, sent, copied,  \* prtd->bytes_received, bytes_sent, copied_total
  active,              \* prtd->state = Q6APM_STREAM_RUNNING
  nextTrack, notify,   \* prtd->next_track, prtd->notify_on_drain
  partial,             \* stream->partial_drain
  fragment,            \* rx_data.dsp_buf
  decoder, done,       \* what the DSP has, and what it gave back
  copying,             \* units q6apm_compr_copy is placing, prtd->lock not held yet
  heard,               \* history: fragments the DSP has decoded
  fed,                 \* history: all it was handed was written, fragment by fragment
  vain,                \* history: the drain began with nothing unsent, nothing to come,
                       \* or a driver that counts the stream stopped
  turns                \* history: starts, releases, drains and stops

counters == <<received, sent, copied>>
drain == <<nextTrack, notify, partial, vain>>
dsp == <<fragment, decoder, done, heard>>
comprVars == <<cstate, total, counters, active, drain, dsp, copying, fed, turns>>

RingUnits == Fragments * F
Aligned(n) == ((n + F - 1) \div F) * F
Eos == [buf |-> -1, len |-> 0]

ComprInit ==
  /\ cstate = "OPEN" /\ total = 0
  /\ received = 0 /\ sent = 0 /\ copied = 0 /\ active = FALSE
  /\ nextTrack = FALSE /\ notify = FALSE /\ partial = FALSE
  /\ fragment = 0 /\ decoder = <<>> /\ done = <<>>
  /\ copying = 0 /\ heard = 0 /\ fed = TRUE /\ vain = FALSE /\ turns = 0

-----------------------------------------------------------------------------
(* Mutant: one buffer more than there are, before the first comes again.   *)
HandOver_Past(len, last) ==
  /\ decoder' = decoder \o <<[buf |-> fragment, len |-> len]>>
                        \o (IF last THEN <<Eos>> ELSE <<>>)
  /\ fragment' = (fragment + 1) % (Fragments + 1)

(* q6apm_write_async, with an end-of-stream behind it for a last fragment. *)
(* A fragment is fed if every unit of it has been written; what is fed has *)
(* an end-of-stream nowhere but at its end.                                *)
HandOver(len, last) ==
  /\ decoder' = decoder \o <<[buf |-> fragment, len |-> len]>>
                        \o (IF last THEN <<Eos>> ELSE <<>>)
  /\ fragment' = (fragment + 1) % Fragments
Spent(s) == \A i \in 1 .. Len(s) : s[i] = Eos
Outstanding(s) == IF s # <<>> /\ s[Len(s)] = Eos THEN Len(s) - 1 ELSE Len(s)
HandedOver == (heard + Outstanding(decoder)) * F
IsFed(len, written) == fed /\ len = F /\ HandedOver + F <= written

(* q6apm_dai_compr_set_params: the graph is started and the stream running *)
(* before anything is written; of the next track only the decoder is told. *)
SetParams ==
  /\ cstate = "OPEN" /\ cstate' = "SETUP"
  /\ active' = TRUE
  /\ UNCHANGED <<total, counters, drain, dsp, copying, fed, turns>>

SetNextParams ==
  /\ nextTrack /\ copying = 0 /\ cstate \in {"RUNNING", "DRAINING"}
  /\ active' = TRUE
  /\ UNCHANGED <<cstate, total, counters, drain, dsp, copying, fed, turns>>

(* snd_compr_calc_avail, with the driver's copied_total.                   *)
Avail == IF total \in {0, copied} THEN RingUnits ELSE RingUnits - (total - copied)

(* q6apm_compr_copy: the data is placed first, ...                         *)
Place(k) ==
  /\ cstate \in {"SETUP", "PREPARED", "RUNNING"} /\ copying = 0
  /\ k <= Avail /\ received + k <= MaxUnits
  /\ copying' = k
  /\ UNCHANGED <<cstate, total, counters, active, drain, dsp, fed, turns>>

(* ... then, under the lock, counted.  The first data of a next track      *)
(* begins a fragment.                                                      *)
Begin == IF nextTrack THEN Aligned(received) ELSE received
Kicked == active /\ received = copied

Count ==
  /\ copying > 0 /\ copying' = 0
  /\ cstate' = IF cstate = "SETUP" THEN "PREPARED" ELSE cstate
  /\ total' = total + copying
  /\ received' = Begin + copying
  /\ nextTrack' = FALSE
  /\ copied' = IF nextTrack THEN Aligned(copied) ELSE copied
  /\ LET from == IF nextTrack THEN Aligned(sent) ELSE sent
         avail == received' - from
         len == IF avail < F THEN avail ELSE F
     IN  \/ /\ Kicked /\ HandOver(len, FALSE)
            /\ sent' = from + len
            /\ fed' = IsFed(len, received')
         \/ /\ ~Kicked /\ sent' = from
            /\ fed' = (fed /\ received' % F = 0)
            /\ UNCHANGED <<fragment, decoder>>
  /\ UNCHANGED <<active, notify, partial, vain, done, heard, turns>>

(* q6apm_dai_compr_trigger: a start and the release of a pause hand over   *)
(* one fragment more, which bytes_sent does not count.                     *)
Turn(from, to) ==
  /\ cstate \in from /\ cstate' = to /\ copying = 0
  /\ turns < MaxTurns /\ turns' = turns + 1

StartOrRelease ==
  /\ Turn({"PREPARED", "PAUSED"}, "RUNNING")
  /\ HandOver(F, FALSE)
  /\ fed' = IsFed(F, received)
  /\ UNCHANGED <<total, counters, active, drain, done, heard, copying>>

(* The decoder does not hear of a pause.                                   *)
PausePush ==
  /\ Turn({"RUNNING"}, "PAUSED")
  /\ UNCHANGED <<total, counters, active, drain, dsp, copying, fed>>

NextTrack ==
  /\ cstate = "RUNNING" /\ ~nextTrack /\ copying = 0
  /\ nextTrack' = TRUE
  /\ UNCHANGED <<cstate, total, counters, active, notify, partial, vain, dsp, copying,
                 fed, turns>>

(* The flag is set without prtd->lock; a partial drain is one before the   *)
(* next track.                                                             *)
Drain ==
  /\ Turn({"RUNNING"}, "DRAINING")
  /\ notify' = TRUE
  /\ partial' \in {FALSE, nextTrack}
  /\ vain' = (received = sent \/ ~active \/ (Spent(decoder) /\ Spent(done)))
  /\ UNCHANGED <<total, counters, active, nextTrack, dsp, copying, fed>>

(* The core counts from nothing again; the driver and the DSP do not.      *)
Stop ==
  /\ Turn({"RUNNING", "PAUSED", "DRAINING"}, "SETUP")
  /\ partial' = FALSE /\ total' = 0
  /\ fed' = FALSE
  /\ UNCHANGED <<counters, active, nextTrack, notify, vain, dsp, copying>>

-----------------------------------------------------------------------------
Decode ==
  /\ decoder # <<>>
  /\ decoder' = Tail(decoder) /\ done' = Append(done, Head(decoder))
  /\ heard' = IF fed /\ Head(decoder) # Eos THEN heard + 1 ELSE heard
  /\ UNCHANGED <<cstate, total, counters, active, drain, fragment, copying, fed, turns>>

(* Mutant: a whole last fragment is not the last.                          *)
IsLast_Less(avail) == avail < F /\ (partial \/ notify)

IsLast(avail) == avail <= F /\ (partial \/ notify)

(* event_handler_compr.                                                    *)
WriteDone ==
  /\ done # <<>> /\ Head(done) # Eos
  /\ done' = Tail(done)
  /\ copied' = copied + Head(done).len
  /\ LET avail == received - sent
         len == IF avail > F THEN F ELSE avail
     IN  \/ /\ active /\ avail > 0
            /\ HandOver(len, notify /\ IsLast(avail))
            /\ sent' = sent + len
            /\ fed' = IsFed(len, received)
         \/ /\ ~(active /\ avail > 0)
            /\ UNCHANGED <<fragment, decoder, sent, fed>>
  /\ UNCHANGED <<cstate, total, received, active, drain, heard, copying, turns>>

EosDone ==
  /\ done # <<>> /\ Head(done) = Eos
  /\ done' = Tail(done)
  /\ \/ /\ notify /\ notify' = FALSE
        /\ cstate' = IF partial THEN "RUNNING" ELSE "SETUP"
        /\ partial' = FALSE
        /\ UNCHANGED active
     \/ /\ ~notify /\ active' = FALSE
        /\ UNCHANGED <<notify, cstate, partial>>
  /\ UNCHANGED <<total, counters, nextTrack, vain, fragment, decoder, heard, copying,
                 fed, turns>>

-----------------------------------------------------------------------------
ComprNext ==
  \/ SetParams \/ SetNextParams \/ Count
  \/ \E k \in {1, F} : Place(k)
  \/ StartOrRelease \/ PausePush \/ NextTrack \/ Drain \/ Stop
  \/ Decode \/ WriteDone \/ EosDone

ComprSpec == ComprInit /\ [][ComprNext]_comprVars

-----------------------------------------------------------------------------
(* The fragments the DSP has are the next of the stream, in order, and     *)
(* none is written over before it is decoded, whatever the application and *)
(* the callback do in between, as long as the application keeps ahead.     *)
DecodesTheStream ==
  fed =>
    /\ \A i \in 1 .. Len(decoder) :
         decoder[i] # Eos => decoder[i].buf = (heard + i - 1) % Fragments
    /\ decoder # <<>> => received + copying - heard * F <= RingUnits

(* A drain that finds something unsent, something of the stream still to   *)
(* come back, and a driver that has not counted the stream stopped, ends.  *)
DrainEnds ==
  cstate = "DRAINING" /\ decoder = <<>> /\ done = <<>> => vain

-----------------------------------------------------------------------------
(* Stated and false: a drain decodes the stream and nothing else.          *)
DrainIsClean == cstate = "DRAINING" => fed

(* ... a drain always ends.  One that begins with nothing unsent does     *)
(* not, nor does one after two end-of-streams, of a drain that was stopped *)
(* and of the next: the second finds nobody draining, and the driver       *)
(* counts a stream as stopped that the application starts again.           *)
EveryDrainEnds == ~(cstate = "DRAINING" /\ decoder = <<>> /\ done = <<>>)

(* ... "Kick off the data to dsp if its starving!!" (q6apm-dai.c:1067): of *)
(* a DSP with nothing left, everything written has come back.              *)
StarvingIsKicked ==
  cstate = "RUNNING" /\ decoder = <<>> /\ done = <<>> => received = copied
=============================================================================
