----------------------------- MODULE SharedMaps -----------------------------
(***************************************************************************)
(* The three buffers the protected pull stream shares with the DSP         *)
(* (q6apm.c, q6apm-dai.c): the ring, mapped when the card's PCM is made    *)
(* and unmapped when it is freed; the position page and the out-of-band    *)
(* buffer, which come and go with the DSP graph, around GRAPH_OPEN and     *)
(* GRAPH_CLOSE.  The driver frees a buffer when mapping it fails and,      *)
(* whatever the answer, when it has asked the DSP to unmap it.             *)
(*                                                                         *)
(* The handle of a mapping does not come back through the command          *)
(* channel's result (the subject of CmdSync): apm_callback puts it where   *)
(* the answer's token says, after it has filled the result, and whether or *)
(* not the command's sender still waits.                                   *)
(***************************************************************************)
EXTENDS Naturals, Sequences

CONSTANTS
  Late,                \* the DSP may refuse, and answer late or never
  MaxBinds, MaxOpens,  \* model bounds: PCMs made, streams opened
  MaxSlow              \* model bound: commands given up on that are still answered

MapsAssumption ==
  Late \in BOOLEAN /\ {MaxBinds, MaxOpens, MaxSlow} \subseteq Nat

Region == {"ring", "position", "oob"}

VARIABLES
  at,       \* the step the PCM's life has come to
  phase,    \* of that step: "call", or "wait" for the command's answer
  buffer,   \* the buffer of each region: 0, or which one it is
  handle,   \* the handle the driver has on record for each region
  mapped,   \* the DSP's mappings: handle, region, buffer
  config,   \* the handles the DSP's pull module was configured with
  wire,     \* commands the DSP has not carried out
  answers,  \* the answers the receive worker has not dealt with
  half,     \* apm_callback has filled the result for the first of them
  result,   \* the channel's result
  trouble,  \* history: regions a command for which was refused or not waited out
  count     \* history, for the bounds: PCMs, streams, buffers, handles, timeouts

vars == <<at, phase, buffer, handle, mapped, config, wire, answers, half, result,
          trouble, count>>

NoConfig == [ring |-> 0, position |-> 0]
NoResult == [op |-> "clear", ok |-> TRUE]

Init ==
  /\ at = "unbound" /\ phase = "call"
  /\ buffer = [r \in Region |-> 0] /\ handle = [r \in Region |-> 0]
  /\ mapped = {} /\ config = NoConfig
  /\ wire = <<>> /\ answers = <<>> /\ half = FALSE /\ result = NoResult
  /\ trouble = {}
  /\ count = [binds |-> 0, opens |-> 0, buffers |-> 0, handles |-> 0, slow |-> 0]

-----------------------------------------------------------------------------
(* The steps of a life.  Failing is the way back: what is there is undone  *)
(* in the opposite order, by the steps a close goes through as well.       *)

Maps == [map_ring |-> "ring", map_position |-> "position", map_oob |-> "oob"]
Unmaps == [unmap_ring |-> "ring", unmap_position |-> "position", unmap_oob |-> "oob"]
RegionOf ==
  [s \in DOMAIN Maps \cup DOMAIN Unmaps |->
     IF s \in DOMAIN Maps THEN Maps[s] ELSE Unmaps[s]]

Onward ==
  [map_ring |-> "bound", map_position |-> "graph_open", graph_open |-> "map_oob",
   map_oob |-> "calibrate", calibrate |-> "open", configure |-> "open",
   unmap_oob |-> "graph_close", graph_close |-> "unmap_position",
   unmap_position |-> "bound", unmap_ring |-> "unbound"]
Back ==
  [Onward EXCEPT !.map_ring = "unbound", !.map_position = "bound",
     !.graph_open = "unmap_position", !.map_oob = "graph_close",
     !.calibrate = "unmap_oob"]

Opcode(s) ==
  IF s \in DOMAIN Maps THEN "map" ELSE IF s \in DOMAIN Unmaps THEN "unmap" ELSE s

(* The buffer is freed when its mapping failed and after its unmapping.    *)
Freed(s, ok) ==
  IF s \in DOMAIN Unmaps \/ (s \in DOMAIN Maps /\ ~ok) THEN {RegionOf[s]} ELSE {}

Over(s, ok) ==
  /\ at' = IF ok THEN Onward[s] ELSE Back[s]
  /\ phase' = "call"
  /\ buffer' = [r \in Region |-> IF r \in Freed(s, ok) THEN 0 ELSE buffer[r]]

(* q6apm_dai_pcm_new.  The topology that holds the ring's handle has been  *)
(* loaded again, unless unloading it failed.                               *)
Bind ==
  /\ at = "unbound" /\ count.binds < MaxBinds
  /\ at' = "map_ring"
  /\ \E reloaded \in BOOLEAN :
       handle' = IF reloaded THEN [handle EXCEPT !.ring = 0] ELSE handle
  /\ buffer' = [buffer EXCEPT !.ring = count.buffers + 1]
  /\ count' = [count EXCEPT !.binds = @ + 1, !.buffers = @ + 1]
  /\ UNCHANGED <<phase, mapped, config, wire, answers, half, result, trouble>>

(* q6apm_get_audioreach_graph makes the object that holds the other two.   *)
OpenStream ==
  /\ at = "bound" /\ count.opens < MaxOpens
  /\ at' = "map_position"
  /\ handle' = [handle EXCEPT !.position = 0, !.oob = 0]
  /\ config' = NoConfig
  /\ count' = [count EXCEPT !.opens = @ + 1]
  /\ UNCHANGED <<phase, buffer, mapped, wire, answers, half, result, trouble>>

(* q6apm_graph_configure_pull refuses without both handles.                *)
Configure ==
  /\ at = "open" /\ phase = "call" /\ handle.ring # 0 /\ handle.position # 0
  /\ config = NoConfig
  /\ config' = [ring |-> handle.ring, position |-> handle.position]
  /\ UNCHANGED <<at, phase, buffer, handle, mapped, wire, answers, half, result,
                 trouble, count>>

CloseStream ==
  /\ at = "open" /\ at' = "unmap_oob" /\ config' = NoConfig
  /\ UNCHANGED <<phase, buffer, handle, mapped, wire, answers, half, result,
                 trouble, count>>

(* q6apm_dai_pcm_free.  The topology may have been unloaded before it, and *)
(* the ring's handle with it.                                              *)
Unbind ==
  /\ at = "bound" /\ at' = "unmap_ring"
  /\ \/ UNCHANGED <<handle, trouble>>
     \/ handle' = [handle EXCEPT !.ring = 0] /\ trouble' = trouble \cup {"ring"}
  /\ UNCHANGED <<phase, buffer, mapped, config, wire, answers, half, result, count>>

User == Bind \/ OpenStream \/ Configure \/ CloseStream \/ Unbind

-----------------------------------------------------------------------------
(* A step that needs no command, or cannot have one: the ring is on record *)
(* as mapped; there is no handle to unmap, or to send the calibration by.  *)
Quiet ==
  \/ at = "map_ring" /\ handle.ring # 0
  \/ at \in DOMAIN Unmaps /\ handle[RegionOf[at]] = 0
  \/ at = "calibrate" /\ handle.oob = 0

Skip ==
  /\ phase = "call" /\ at \in DOMAIN Onward /\ Quiet
  /\ Over(at, at # "calibrate")
  /\ UNCHANGED <<handle, mapped, config, wire, answers, half, result, trouble, count>>

(* audioreach_send_cmd_sync clears the result and sends; the page and the  *)
(* out-of-band buffer are allocated just before.                           *)
Send ==
  /\ phase = "call" /\ at \in DOMAIN Onward /\ ~Quiet
  /\ phase' = "wait" /\ result' = NoResult
  /\ LET new == at \in {"map_position", "map_oob"}
         n   == count.buffers + 1
     IN  /\ buffer' = IF new THEN [buffer EXCEPT ![RegionOf[at]] = n] ELSE buffer
         /\ count' = IF new THEN [count EXCEPT !.buffers = n] ELSE count
  /\ wire' = Append(wire, [step |-> at,
       buf |-> IF at \in DOMAIN Maps THEN buffer'[Maps[at]] ELSE 0,
       h |-> IF at \in DOMAIN Unmaps THEN handle[Unmaps[at]] ELSE 0])
  /\ UNCHANGED <<at, handle, mapped, config, answers, half, trouble>>

(* The waiter looks whenever it is woken or about to sleep, in the middle  *)
(* of the callback's stores as well.                                       *)
Return ==
  /\ phase = "wait" /\ result.op = Opcode(at)
  /\ Over(at, result.ok)
  /\ trouble' = IF half /\ at \in DOMAIN RegionOf THEN trouble \cup {RegionOf[at]} ELSE trouble
  /\ UNCHANGED <<handle, mapped, config, wire, answers, half, result, count>>

GiveUp ==
  /\ Late /\ phase = "wait" /\ result.op # Opcode(at)
  /\ count.slow < MaxSlow \/ (wire = <<>> /\ answers = <<>>)
  /\ Over(at, FALSE)
  /\ trouble' = trouble \cup {"late"}
  /\ count' = IF wire = <<>> /\ answers = <<>> THEN count ELSE [count EXCEPT !.slow = @ + 1]
  /\ UNCHANGED <<handle, mapped, config, wire, answers, half, result>>

-----------------------------------------------------------------------------
(* The DSP carries commands out one after another.                         *)

Answered(c, ok, h) ==
  answers' = Append(answers, [op |-> Opcode(c.step), step |-> c.step, ok |-> ok, h |-> h])

Accept ==
  /\ wire # <<>> /\ wire' = Tail(wire)
  /\ LET c == Head(wire)
         h == count.handles + 1
     IN  IF c.step \in DOMAIN Maps
         THEN /\ mapped' = mapped \cup {[h |-> h, region |-> Maps[c.step], buf |-> c.buf]}
              /\ count' = [count EXCEPT !.handles = h]
              /\ Answered(c, TRUE, h)
         ELSE /\ mapped' = IF c.step \in DOMAIN Unmaps
                           THEN {m \in mapped : m.h # c.h} ELSE mapped
              /\ UNCHANGED count
              /\ Answered(c, TRUE, 0)
  /\ UNCHANGED <<at, phase, buffer, handle, config, half, result, trouble>>

Refuse ==
  /\ Late /\ wire # <<>> /\ wire' = Tail(wire)
  /\ Answered(Head(wire), FALSE, 0)
  /\ trouble' = IF Head(wire).step \in DOMAIN Unmaps
                THEN trouble \cup {Unmaps[Head(wire).step]} ELSE trouble
  /\ UNCHANGED <<at, phase, buffer, handle, mapped, config, half, result, count>>

-----------------------------------------------------------------------------
(* apm_callback: the result first; an unmapping's answer is always good.   *)

Fill ==
  /\ answers # <<>> /\ ~half
  /\ LET a == Head(answers)
     IN  result' = [op |-> a.op, ok |-> a.ok \/ a.op = "unmap"]
  /\ half' = TRUE
  /\ UNCHANGED <<at, phase, buffer, handle, mapped, config, wire, answers, trouble, count>>

(* The DSP graph's object is found by its id while it exists.              *)
GraphLives == at \notin {"unbound", "map_ring", "bound", "unmap_ring"}

(* Mutant: any token without the out-of-band bit is taken for the ring's.  *)
Holder_OobOnly(r) == IF r = "oob" /\ GraphLives THEN {r} ELSE {"ring"}

(* Where the token of a region's command leads.                            *)
Holder(r) == IF r = "ring" \/ GraphLives THEN {r} ELSE {}

(* A mapping's handle is recorded, an unmapping's is cleared, refused or   *)
(* not; a refused mapping and the other commands leave the record alone.   *)
Record ==
  /\ half
  /\ LET a == Head(answers)
         kept == a.step \notin DOMAIN RegionOf \/ (a.op = "map" /\ ~a.ok)
     IN  handle' = [r \in Region |->
                      IF ~kept /\ r \in Holder(RegionOf[a.step]) THEN a.h ELSE handle[r]]
  /\ answers' = Tail(answers) /\ half' = FALSE
  /\ UNCHANGED <<at, phase, buffer, mapped, config, wire, result, trouble, count>>

-----------------------------------------------------------------------------
(* Every PCM of the model bound has been freed and nothing is left.        *)
Rest ==
  /\ at = "unbound" /\ count.binds = MaxBinds /\ wire = <<>> /\ answers = <<>>
  /\ UNCHANGED vars

Next ==
  \/ User \/ Skip \/ Send \/ Return \/ GiveUp
  \/ Accept \/ Refuse \/ Fill \/ Record \/ Rest

Spec == Init /\ [][Next]_vars

-----------------------------------------------------------------------------
(* No record names another region's mapping, however late its answer.      *)
RecordsAreOwn ==
  \A m \in mapped, r \in Region : handle[r] = m.h => m.region = r

Own(r, h) == [h |-> h, region |-> r, buf |-> buffer[r]] \in mapped

(* The DSP never keeps a mapping of a buffer the driver has freed, and the *)
(* buffers a stream's DSP was given to pull from are its own, mapped, as   *)
(* long as it plays: until a command has not been waited out, for every    *)
(* region but those whose unmapping was refused, whose answer the waiter   *)
(* saw between the callback's stores, or, of the ring, whose handle went   *)
(* with the topology.                                                      *)
MapsFollowBuffers ==
  /\ RecordsAreOwn
  /\ "late" \notin trouble =>
       /\ \A m \in mapped : m.region \in trouble \/ m.buf = buffer[m.region]
       /\ config # NoConfig =>
            \A r \in {"ring", "position"} : r \in trouble \/ Own(r, config[r])

(* The same of a stream whose commands were answered late.                 *)
MapsAlwaysFollow == \A m \in mapped : m.buf = buffer[m.region]
=============================================================================
