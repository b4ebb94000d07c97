------------------------------- MODULE CmdSync -------------------------------
(***************************************************************************)
(* One command channel to the DSP: audioreach_send_cmd_sync (audioreach.c) *)
(* with the callback that answers it (q6apm.c).  The driver has one such   *)
(* channel for the APM (apm->lock, apm->result, apm->wait, apm_callback)   *)
(* and one per q6apm_graph (graph->lock, graph->result, graph->cmd_wait,   *)
(* graph_callback).                                                        *)
(*                                                                         *)
(* The channel has one result slot and no sequence number: the answer to a *)
(* command is recognised by its opcode alone.  The callback fills the slot *)
(* with two plain stores and then wakes the waiter, which looks at the     *)
(* opcode first and the status afterwards without a lock of its own.       *)
(***************************************************************************)
EXTENDS Naturals, Sequences

CONSTANTS
  Caller,  \* threads that send commands on the channel
  Op,      \* command opcodes
  Silent,  \* opcodes whose callback case stores status 0 whatever the DSP said
  Data,    \* buffer completions arrive on this channel too (push-mode graph)
  Slow,    \* the DSP may answer after the five seconds, or never
  None,    \* nobody
  MaxCmd, MaxData  \* model bounds: commands sent, completions received

ASSUME ChannelAssumption ==
  /\ Silent \subseteq Op
  /\ Data \in BOOLEAN /\ Slow \in BOOLEAN
  /\ None \notin Caller
  /\ {"clear", "buffer"} \cap Op = {}
  /\ MaxCmd \in Nat /\ MaxData \in Nat

VARIABLES
  owner,   \* who holds the channel's mutex
  slot,    \* result->opcode and result->status
  pc,      \* where each caller is
  rxq,     \* packets the GPR core hands to the callback one at a time
  cb,      \* what the callback does with the head of rxq
  log,     \* history: every command sent, what the DSP and the caller said
  comps    \* completions so far

vars == <<owner, slot, pc, rxq, cb, log, comps>>

(* Opcodes in the slot that are no command's: cleared, and a completion.   *)
Clear  == "clear"
Buffer == "buffer"
Empty  == [op |-> Clear, st |-> "ok"]

Ids  == 1 .. Len(log)
Cur  == Len(log)          \* the command of the mutex holder
Goto(c, at) == pc' = [pc EXCEPT ![c] = at]

Init ==
  /\ owner = None
  /\ slot = Empty
  /\ pc = [c \in Caller |-> "idle"]
  /\ rxq = <<>>
  /\ cb = "idle"
  /\ log = <<>>
  /\ comps = 0

-----------------------------------------------------------------------------
(* audioreach_send_cmd_sync, by the thread that holds the mutex.           *)

(* Mutant: the status of the previous command is left in the slot.         *)
Call_KeepStatus(c, o) ==
  /\ pc[c] = "idle" /\ owner = None /\ Len(log) < MaxCmd
  /\ owner' = c
  /\ slot' = [slot EXCEPT !.op = Clear]
  /\ log' = Append(log, [op |-> o, rc |-> "pending", dsp |-> "unsent", seen |-> FALSE])
  /\ Goto(c, "send")
  /\ UNCHANGED <<rxq, cb, comps>>

Call(c, o) ==
  /\ pc[c] = "idle" /\ owner = None /\ Len(log) < MaxCmd
  /\ owner' = c
  /\ slot' = Empty
  /\ log' = Append(log, [op |-> o, rc |-> "pending", dsp |-> "unsent", seen |-> FALSE])
  /\ Goto(c, "send")
  /\ UNCHANGED <<rxq, cb, comps>>

Return(c, rc) ==
  /\ owner' = None
  /\ log' = [log EXCEPT ![Cur].rc = rc]
  /\ Goto(c, "idle")

(* gpr_send_pkt may refuse the packet: nothing was sent.                   *)
Send(c) ==
  /\ pc[c] = "send"
  /\ \/ /\ log' = [log EXCEPT ![Cur].dsp = "none"]
        /\ Goto(c, "check")
        /\ UNCHANGED owner
     \/ Return(c, "unsent")
  /\ UNCHANGED <<slot, rxq, cb, comps>>

(* wait_event_timeout's condition, on entry and after each wake-up.        *)
Evaluate(c) ==
  /\ pc[c] = "check"
  /\ Goto(c, IF slot.op = log[Cur].op THEN "read" ELSE "sleep")
  /\ UNCHANGED <<owner, slot, rxq, cb, log, comps>>

(* Mutants: the timer gives up without another look; the wait starts again *)
(* when it goes off.                                                       *)
Expire_Blind(c) ==
  /\ pc[c] = "sleep" /\ Slow
  /\ Return(c, "timeout")
  /\ UNCHANGED <<slot, rxq, cb, comps>>
Expire_Again(c) ==
  /\ pc[c] = "sleep"
  /\ Slow \/ (log[Cur].dsp # "none" /\ (cb = "lock" \/ log[Cur].seen))
  /\ Goto(c, IF slot.op = log[Cur].op THEN "read" ELSE "check")
  /\ UNCHANGED <<owner, log, slot, rxq, cb, comps>>

(* Five seconds have gone by: the condition is looked at once more.  When  *)
(* the DSP is prompt that only happens to a command whose answer is stuck  *)
(* behind a callback waiting for the mutex this caller holds, or has been  *)
(* overwritten in the slot by an earlier command's.                        *)
Expire(c) ==
  /\ pc[c] = "sleep"
  /\ Slow \/ (log[Cur].dsp # "none" /\ (cb = "lock" \/ log[Cur].seen))
  /\ IF slot.op = log[Cur].op
     THEN Goto(c, "read") /\ UNCHANGED <<owner, log>>
     ELSE Return(c, "timeout")
  /\ UNCHANGED <<slot, rxq, cb, comps>>

Read(c) ==
  /\ pc[c] = "read"
  /\ Return(c, IF slot.st = "error" THEN "error" ELSE "zero")
  /\ UNCHANGED <<slot, rxq, cb, comps>>

-----------------------------------------------------------------------------
(* The DSP answers a command at most once, and completes buffers.          *)

Answer(i, st) ==
  /\ log[i].dsp = "none"
  /\ log' = [log EXCEPT ![i].dsp = st]
  /\ rxq' = Append(rxq, [op |-> log[i].op, st |-> st, id |-> i])
  /\ UNCHANGED <<owner, slot, pc, cb, comps>>

Complete(st) ==
  /\ Data /\ comps < MaxData
  /\ comps' = comps + 1
  /\ rxq' = Append(rxq, [op |-> Buffer, st |-> st, id |-> 0])
  /\ UNCHANGED <<owner, slot, pc, cb, log>>

-----------------------------------------------------------------------------
(* graph_callback and apm_callback, called for one packet after another.   *)

Receive ==
  /\ cb = "idle" /\ rxq # <<>>
  /\ cb' = IF Head(rxq).op = Buffer THEN "lock" ELSE "opcode"
  /\ UNCHANGED <<owner, slot, pc, rxq, log, comps>>

(* A completion looks its buffer up under graph->lock, which a command in  *)
(* progress holds; the buffer may be gone.                                 *)
LookUp ==
  /\ cb = "lock" /\ owner = None
  /\ \/ cb' = "opcode" /\ UNCHANGED rxq
     \/ cb' = "idle" /\ rxq' = Tail(rxq)
  /\ UNCHANGED <<owner, slot, pc, log, comps>>

StoreOpcode ==
  /\ cb = "opcode"
  /\ slot' = [slot EXCEPT !.op = Head(rxq).op]
  /\ log' = IF Head(rxq).id = 0 THEN log
            ELSE [log EXCEPT ![Head(rxq).id].seen = TRUE]
  /\ cb' = "status"
  /\ UNCHANGED <<owner, pc, rxq, comps>>

(* A completion wakes nobody.                                              *)
StoreStatus ==
  /\ cb = "status"
  /\ slot' = [slot EXCEPT !.st = IF Head(rxq).op \in Silent THEN "ok"
                                 ELSE Head(rxq).st]
  /\ IF Head(rxq).op = Buffer
     THEN cb' = "idle" /\ rxq' = Tail(rxq)
     ELSE cb' = "wake" /\ UNCHANGED rxq
  /\ UNCHANGED <<owner, pc, log, comps>>

WakeUp ==
  /\ cb = "wake"
  /\ cb' = "idle"
  /\ rxq' = Tail(rxq)
  /\ pc' = [c \in Caller |-> IF pc[c] = "sleep" THEN "check" ELSE pc[c]]
  /\ UNCHANGED <<owner, slot, log, comps>>

-----------------------------------------------------------------------------
(* Every command of the model bound has been sent and nothing is left.     *)
Rest ==
  /\ Len(log) = MaxCmd /\ cb = "idle" /\ rxq = <<>>
  /\ \A c \in Caller : pc[c] = "idle"
  /\ UNCHANGED vars

Step(c) == Send(c) \/ Evaluate(c) \/ Read(c)
Callback == Receive \/ StoreOpcode \/ StoreStatus \/ WakeUp
Dsp == \/ \E i \in Ids, st \in {"ok", "error"} : Answer(i, st)
       \/ \E st \in {"ok", "error"} : Complete(st)

Next ==
  \/ \E c \in Caller, o \in Op : Call(c, o)
  \/ \E c \in Caller : Step(c) \/ Expire(c)
  \/ Dsp \/ Callback \/ LookUp \/ Rest

Spec == Init /\ [][Next]_vars

(* A caller in the middle of the function runs on and its timer goes off;  *)
(* the receive worker runs while packets are queued and gets the mutex in  *)
(* its turn; a prompt DSP answers.  Nobody has to send a command.          *)
Fairness ==
  /\ \A c \in Caller : WF_vars(Step(c)) /\ WF_vars(Expire(c))
  /\ WF_vars(Callback) /\ SF_vars(LookUp)
  /\ Slow \/ \A i \in 1 .. MaxCmd :
       WF_vars(i \in Ids /\ \E st \in {"ok", "error"} : Answer(i, st))

FairSpec == Spec /\ Fairness

-----------------------------------------------------------------------------
(* Type invariant of the channel, its callers and the history.             *)
TypeOK ==
  /\ owner \in Caller \cup {None}
  /\ slot \in [op : Op \cup {Clear, Buffer}, st : {"ok", "error"}]
  /\ pc \in [Caller -> {"idle", "send", "check", "sleep", "read"}]
  /\ rxq \in Seq([op : Op \cup {Buffer}, st : {"ok", "error"}, id : Nat])
  /\ cb \in {"idle", "lock", "opcode", "status", "wake"}
  /\ log \in Seq([op : Op, rc : {"pending", "zero", "error", "timeout", "unsent"},
                  dsp : {"unsent", "none", "ok", "error"}, seen : BOOLEAN])
  /\ comps \in 0 .. MaxData

(* A command of the channel timed out before command i was sent: its       *)
(* answer may still come.                                                  *)
Overdue(i) == \E j \in 1 .. i - 1 : log[j].rc = "timeout"

(* The status of an earlier rejected command was read before the callback  *)
(* had stored it; the store is still to come.                              *)
Misread(i) == \E j \in 1 .. i - 1 : log[j].rc = "zero" /\ log[j].dsp = "error"

(* "DSP returned error": an error code from the function was the DSP's     *)
(* answer to that very command, as long as no earlier command timed out or *)
(* had its own error missed, and no buffer completion left its status in   *)
(* the slot for a waiter that looks between the callback's two stores.     *)
ErrorIsReal ==
  comps = 0 => \A i \in Ids : log[i].rc = "error" /\ ~Overdue(i) /\ ~Misread(i)
    => log[i].dsp = "error"

(* A command the DSP never answered is only ever reported finished because *)
(* of the late answer to an earlier command with the same opcode.          *)
StaleOnlySameOp ==
  \A i \in Ids : log[i].rc \in {"zero", "error"} /\ log[i].dsp = "none"
    => \E j \in 1 .. i - 1 : log[j].rc = "timeout" /\ log[j].op = log[i].op

(* What the caller is told the DSP said, the DSP said, of this command or  *)
(* of an earlier one that timed out with the same opcode.                  *)
ResultIsReal == ErrorIsReal /\ StaleOnlySameOp

(* "CMD timeout": the function gives up only on a command whose answer has *)
(* not reached the slot, as long as no earlier command timed out; and what *)
(* it returns otherwise is real.                                           *)
TimeoutIsReal ==
  \A i \in Ids : log[i].rc = "pending" /\ log'[i].rc = "timeout" /\ ~Overdue(i) => ~log[i].seen

AnswersAreReal == [][ResultIsReal' /\ TimeoutIsReal]_vars

(* Every call returns, whatever the DSP does with the command: no caller   *)
(* sleeps past its timer with the mutex in its hands.                      *)
CallsReturn == \A c \in Caller : (pc[c] # "idle") ~> (pc[c] = "idle")

(* Neither a caller nor the receive worker waits for ever on the other:    *)
(* every call returns, and the worker, blocked in a completion on the      *)
(* mutex of a caller whose own answer is queued behind it, gets on.        *)
NobodyStuck == CallsReturn /\ ((cb = "lock") ~> (cb # "lock"))

(* audioreach.c:710: 0 means "DSP successfully finished the command".      *)
ZeroMeansDone == \A i \in Ids : log[i].rc = "zero" => log[i].dsp = "ok"

(* The same line, of a command the DSP has not even answered.              *)
ZeroIsAnswered == \A i \in Ids : log[i].rc = "zero" => log[i].dsp # "none"

=============================================================================
