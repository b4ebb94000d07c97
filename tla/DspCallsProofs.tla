---------------------------- MODULE DspCallsProofs ---------------------------
\* Theorems about DspCalls, for any callers, opcodes and bounds, and any
\* behaviour of the DSP: the command channel, where what a caller is told
\* the DSP said, the DSP said; the pause, where what the host believes is
\* so, and a stream that runs hears its watermarks; the maps, where the
\* DSP has mapped what the driver has; and the three in the whole.
EXTENDS DspCalls, SequenceTheorems, TLAPS

-----------------------------------------------------------------------------
\* The inductive invariant.

Answers == {"ok", "error"}
Busy == owner # None

\* The mutex is held from the first line of the function to the last, and
\* the command of its holder is the last one sent, the only one pending.
Exclusive ==
  /\ \A c \in Caller : pc[c] # "idle" <=> owner = c
  /\ Busy => log # <<>>
  /\ \A i \in Ids : log[i].rc = "pending" <=> i = Cur /\ Busy
  /\ \A i \in Ids : log[i].seen => log[i].dsp \in Answers
  /\ \A i \in Ids : log[i].rc = "unsent" => log[i].dsp = "unsent"
  /\ Busy => (log[Cur].dsp = "unsent" <=> pc[owner] = "send")

\* A packet is a completion or the answer to a command, each at most once;
\* the first one may be in the slot already, the others are not.
InSlot == cb \in {"status", "wake"}
Queued ==
  /\ cb # "idle" => rxq # <<>>
  /\ cb = "lock" => rxq[1].op = Buffer
  /\ \A p \in 1 .. Len(rxq) :
       /\ rxq[p].id = 0 <=> rxq[p].op = Buffer
       /\ rxq[p].id = 0 => comps > 0
       /\ rxq[p].id # 0 =>
            /\ rxq[p].id \in Ids
            /\ rxq[p].op = log[rxq[p].id].op /\ rxq[p].st = log[rxq[p].id].dsp
            /\ log[rxq[p].id].seen <=> p = 1 /\ InSlot
  /\ \A p, q \in 1 .. Len(rxq) : rxq[p].id = rxq[q].id => p = q \/ rxq[p].id = 0

\* The answer was, or may have been, an earlier command's.
LateTwin(i) == \E j \in 1 .. i - 1 : log[j].rc = "timeout" /\ log[j].op = log[i].op

\* What matches the opcode of a command is its own answer or that of an
\* earlier one that timed out.
Sourced ==
  /\ \A i \in Ids : log[i].rc \in {"zero", "error"} => log[i].seen \/ LateTwin(i)
  /\ Busy /\ (slot.op = log[Cur].op \/ pc[owner] = "read") => log[Cur].seen \/ LateTwin(Cur)

\* Once its answer is in, the opcode stays until the caller has looked: a
\* completion needs the mutex, and every earlier answer is past the slot.
Kept ==
  /\ Busy /\ log[Cur].seen /\ ~Overdue(Cur) => slot.op = log[Cur].op
  /\ Busy /\ log[Cur].seen /\ rxq # <<>> /\ rxq[1].id = 0 => cb \in {"idle", "lock"}

\* An error in the slot is the pending command's, stored in full, and so
\* was the one a finished command returned.
Clean(i) == comps = 0 /\ ~Overdue(i) /\ ~Misread(i)
Stored(i) ==
  log[i].dsp = "error" /\ log[i].seen /\ ~(cb = "status" /\ rxq[1].id = i)
Real ==
  /\ Busy /\ Clean(Cur) /\ slot.st = "error" => Stored(Cur)
  /\ \A i \in Ids : log[i].rc = "error" /\ Clean(i) => Stored(i)

CmdInv == TypeOK /\ Exclusive /\ Queued /\ Sourced /\ Kept /\ Real

-----------------------------------------------------------------------------
\* Types.

Codes == {"pending", "zero", "error", "timeout", "unsent"}
Commands == [op : Op, rc : Codes, dsp : {"unsent", "none"} \cup Answers, seen : BOOLEAN]
Arrivals == [op : Op \cup {Buffer}, st : Answers, id : Nat]

LEMMA Typed ==
  ASSUME TypeOK
  PROVE  /\ owner \in Caller \cup {None} /\ None \notin Caller
         /\ Clear \notin Op /\ Buffer \notin Op /\ Clear # Buffer
         /\ slot \in [op : Op \cup {Clear, Buffer}, st : Answers]
         /\ pc \in [Caller -> {"idle", "send", "check", "sleep", "read"}]
         /\ rxq \in Seq(Arrivals) /\ Len(rxq) \in Nat
         /\ cb \in {"idle", "lock", "opcode", "status", "wake"}
         /\ log \in Seq(Commands) /\ Len(log) \in Nat /\ comps \in Nat /\ comps \in 0 .. MaxData
         /\ \A i \in Ids : log[i] \in Commands /\ i \in Nat /\ i # 0
         /\ \A p \in 1 .. Len(rxq) : rxq[p] \in Arrivals
  <1>1. {"unsent", "none"} \cup Answers = {"unsent", "none", "ok", "error"}
    BY DEF Answers
  <1>2. rxq \in Seq(Arrivals) /\ log \in Seq(Commands)
    BY <1>1 DEF TypeOK, Arrivals, Commands, Codes, Answers
  <1>3. /\ None \notin Caller /\ Clear \notin Op /\ Buffer \notin Op /\ Clear # Buffer
        /\ MaxData \in Nat
    BY ChannelAssumption DEF Clear, Buffer
  <1>4. /\ owner \in Caller \cup {None}
        /\ slot \in [op : Op \cup {Clear, Buffer}, st : Answers]
        /\ pc \in [Caller -> {"idle", "send", "check", "sleep", "read"}]
        /\ cb \in {"idle", "lock", "opcode", "status", "wake"}
        /\ comps \in 0 .. MaxData
    BY DEF TypeOK, Answers
  <1>5. /\ Len(rxq) \in Nat /\ Len(log) \in Nat /\ comps \in Nat
        /\ \A i \in Ids : log[i] \in Commands /\ i \in Nat /\ i # 0
        /\ \A p \in 1 .. Len(rxq) : rxq[p] \in Arrivals
    BY <1>2, <1>3, <1>4 DEF Ids
  <1> QED BY <1>2, <1>3, <1>4, <1>5

\* One command of the history is written.
LEMMA Rewritten ==
  ASSUME NEW l \in Seq(Commands), NEW i \in 1 .. Len(l), NEW r \in Commands
  PROVE  LET m == [l EXCEPT ![i] = r] IN
         /\ m \in Seq(Commands) /\ Len(m) = Len(l) /\ m # <<>>
         /\ \A j \in 1 .. Len(l) : j # i => m[j] = l[j]
         /\ m[i] = r
  OBVIOUS

LEMMA Sent ==
  ASSUME NEW l \in Seq(Commands), NEW e \in Commands
  PROVE  /\ Append(l, e) \in Seq(Commands) /\ Len(l) \in Nat /\ Len(Append(l, e)) = Len(l) + 1
         /\ \A i \in 1 .. Len(l) : Append(l, e)[i] = l[i]
         /\ Append(l, e)[Len(l) + 1] = e
  BY AppendProperties

LEMMA Arrived ==
  ASSUME NEW q \in Seq(Arrivals), NEW e \in Arrivals
  PROVE  /\ Append(q, e) \in Seq(Arrivals) /\ Len(q) \in Nat /\ Len(Append(q, e)) = Len(q) + 1
         /\ \A i \in 1 .. Len(q) : Append(q, e)[i] = q[i]
         /\ Append(q, e)[Len(q) + 1] = e /\ Append(q, e) # <<>>
  BY AppendProperties

LEMMA Dealt ==
  ASSUME NEW q \in Seq(Arrivals), q # <<>>
  PROVE  /\ Tail(q) \in Seq(Arrivals) /\ Len(q) \in Nat \ {0} /\ Len(Tail(q)) = Len(q) - 1
         /\ Head(q) = q[1] /\ q[1] \in Arrivals /\ 1 \in 1 .. Len(q)
         /\ \A i \in 1 .. Len(Tail(q)) : i + 1 \in 1 .. Len(q) /\ Tail(q)[i] = q[i + 1]
  BY HeadTailProperties

-----------------------------------------------------------------------------
\* What each action does.

LEMMA HolderRuns ==
  ASSUME CmdInv, NEW c \in Caller, pc[c] # "idle"
  PROVE  /\ owner = c /\ Busy /\ Cur \in Ids /\ log[Cur] \in Commands
         /\ log[Cur].rc = "pending" /\ (log[Cur].dsp = "unsent" <=> pc[c] = "send")
  <1>1. owner = c /\ Busy
    BY Typed DEF CmdInv, Exclusive, Busy
  <1>2. Cur \in Ids
    BY <1>1, Typed DEF CmdInv, Exclusive, Ids, Cur
  <1> QED BY <1>1, <1>2, Typed DEF CmdInv, Exclusive

LEMMA CallDoes ==
  ASSUME CmdInv, NEW c \in Caller, NEW o \in Op, Call(c, o)
  PROVE  /\ ~Busy /\ owner' = c /\ Busy' /\ slot' = Empty /\ pc[c] = "idle"
         /\ log' \in Seq(Commands) /\ Cur' = Cur + 1 /\ Ids' = 1 .. Cur + 1
         /\ \A i \in Ids : log'[i] = log[i] /\ i # Cur + 1 /\ i \in Ids'
         /\ \A i \in Ids' : i \in Ids \/ i = Cur + 1
         /\ Cur' \in Ids' /\ log' # <<>>
         /\ log'[Cur + 1].op = o /\ log'[Cur + 1].rc = "pending"
         /\ log'[Cur + 1].dsp = "unsent" /\ ~log'[Cur + 1].seen
         /\ log'[Cur + 1] \in Commands
         /\ pc' = [pc EXCEPT ![c] = "send"]
         /\ UNCHANGED <<rxq, cb, comps>>
  <1> DEFINE e == [op |-> o, rc |-> "pending", dsp |-> "unsent", seen |-> FALSE]
  <1>1. e \in Commands
    BY DEF Commands, Codes
  <1>2. log' = Append(log, e) /\ owner' = c /\ owner = None /\ c # None /\ log \in Seq(Commands)
    BY Typed DEF Call, CmdInv
  <1> HIDE DEF e
  <1>3. /\ log' \in Seq(Commands) /\ Len(log') = Len(log) + 1 /\ Len(log) \in Nat
        /\ \A i \in 1 .. Len(log) : log'[i] = log[i]
        /\ log'[Len(log) + 1] = e
    BY <1>1, <1>2, Sent
  <1>4. log' # <<>>
    BY <1>3
  <1>5. Ids' = 1 .. Cur + 1 /\ Cur' = Cur + 1
    BY <1>3 DEF Ids, Cur
  <1>6. \A i \in Ids' : i \in Ids \/ i = Cur + 1
    BY <1>3, <1>5 DEF Ids, Cur
  <1>7. /\ \A i \in Ids : log'[i] = log[i] /\ i # Cur + 1 /\ i \in Ids'
        /\ Cur' \in Ids'
    BY <1>3, <1>5 DEF Ids, Cur
  <1>8. log'[Cur + 1] = e
    BY <1>3 DEF Cur
  <1>9. e.op = o /\ e.rc = "pending" /\ e.dsp = "unsent" /\ ~e.seen
    BY DEF e
  <1>10. owner' = c /\ slot' = Empty /\ pc[c] = "idle" /\ pc' = [pc EXCEPT ![c] = "send"]
         /\ UNCHANGED <<rxq, cb, comps>>
    BY DEF Call, Goto
  <1> QED BY <1>1, <1>2, <1>3, <1>4, <1>5, <1>6, <1>7, <1>8, <1>9, <1>10 DEF Busy

LEMMA ReturnDoes ==
  ASSUME CmdInv, NEW c \in Caller, pc[c] # "idle", NEW rc \in Codes \ {"pending"}, Return(c, rc)
  PROVE  /\ owner = c /\ Busy /\ Cur \in Ids /\ owner' = None /\ ~Busy'
         /\ log' \in Seq(Commands) /\ Cur' = Cur /\ Ids' = Ids /\ log' # <<>>
         /\ \A i \in Ids : /\ i # Cur => log'[i] = log[i]
                           /\ log'[i].op = log[i].op /\ log'[i].dsp = log[i].dsp
                           /\ log'[i].seen = log[i].seen
         /\ log'[Cur].rc = rc
         /\ pc' = [pc EXCEPT ![c] = "idle"]
  <1>1. owner = c /\ Busy /\ Cur \in Ids /\ log \in Seq(Commands)
    BY HolderRuns, Typed DEF CmdInv
  <1>2. log' = [log EXCEPT ![Cur].rc = rc] /\ Cur \in 1 .. Len(log)
    BY <1>1 DEF Return, Ids
  <1>3. /\ log' \in Seq(Commands) /\ Len(log') = Len(log)
        /\ \A j \in 1 .. Len(log) : j # Cur => log'[j] = log[j]
        /\ log'[Cur].op = log[Cur].op /\ log'[Cur].dsp = log[Cur].dsp
        /\ log'[Cur].seen = log[Cur].seen /\ log'[Cur].rc = rc
    <2> DEFINE r == [log[Cur] EXCEPT !.rc = rc]
    <2>0. log[Cur] \in Commands /\ rc \in Codes
      BY HolderRuns
    <2>1. r \in Commands /\ r.op = log[Cur].op /\ r.dsp = log[Cur].dsp /\ r.seen = log[Cur].seen /\ r.rc = rc
      BY <2>0 DEF Commands
    <2>2. log' = [log EXCEPT ![Cur] = r]
      BY <1>2
    <2> HIDE DEF r
    <2> QED BY <1>1, <1>2, <2>1, <2>2, Rewritten
  <1>4. log' # <<>>
    BY <1>1, <1>3 DEF Ids
  <1> QED BY <1>1, <1>3, <1>4 DEF Return, Busy, Goto, Ids, Cur

\* gpr_send_pkt took the packet.
SendGoes(c) ==
  /\ pc[c] = "send"
  /\ log' = [log EXCEPT ![Cur].dsp = "none"]
  /\ Goto(c, "check")
  /\ UNCHANGED <<owner, slot, rxq, cb, comps>>

LEMMA SendDoes ==
  ASSUME CmdInv, NEW c \in Caller, SendGoes(c)
  PROVE  /\ owner = c /\ Busy /\ Busy' /\ Cur \in Ids /\ pc[c] = "send"
         /\ log[Cur].dsp = "unsent" /\ log[Cur].rc = "pending"
         /\ log' \in Seq(Commands) /\ Cur' = Cur /\ Ids' = Ids /\ log' # <<>>
         /\ \A i \in Ids : /\ i # Cur => log'[i] = log[i]
                           /\ log'[i].op = log[i].op /\ log'[i].rc = log[i].rc
                           /\ log'[i].seen = log[i].seen
         /\ log'[Cur].dsp = "none"
         /\ pc' = [pc EXCEPT ![c] = "check"]
         /\ UNCHANGED <<owner, slot, rxq, cb, comps>>
  <1>1. /\ owner = c /\ Busy /\ Cur \in Ids /\ log \in Seq(Commands) /\ Cur \in 1 .. Len(log)
        /\ log[Cur].rc = "pending" /\ log[Cur].dsp = "unsent"
    BY HolderRuns, Typed DEF CmdInv, SendGoes, Ids
  <1>2. /\ log' \in Seq(Commands) /\ Len(log') = Len(log)
        /\ \A j \in 1 .. Len(log) : j # Cur => log'[j] = log[j]
        /\ log'[Cur].op = log[Cur].op /\ log'[Cur].rc = log[Cur].rc
        /\ log'[Cur].seen = log[Cur].seen /\ log'[Cur].dsp = "none"
    <2> DEFINE r == [log[Cur] EXCEPT !.dsp = "none"]
    <2>1. r \in Commands /\ r.op = log[Cur].op /\ r.rc = log[Cur].rc /\ r.seen = log[Cur].seen /\ r.dsp = "none"
      BY <1>1, Typed DEF Commands, CmdInv, Answers, Ids
    <2>2. log' = [log EXCEPT ![Cur] = r]
      BY DEF SendGoes
    <2> HIDE DEF r
    <2> QED BY <1>1, <2>1, <2>2, Rewritten
  <1>3. log' # <<>>
    BY <1>1, <1>2
  <1> QED BY <1>1, <1>2, <1>3 DEF SendGoes, Busy, Goto, Ids, Cur

LEMMA AnswerDoes ==
  ASSUME CmdInv, NEW k \in Ids, NEW st \in Answers, Answer(k, st)
  PROVE  /\ log[k].dsp = "none" /\ ~log[k].seen
         /\ log' \in Seq(Commands) /\ Cur' = Cur /\ Ids' = Ids /\ log' # <<>>
         /\ \A i \in Ids : /\ i # k => log'[i] = log[i]
                           /\ log'[i].op = log[i].op /\ log'[i].rc = log[i].rc
                           /\ log'[i].seen = log[i].seen
         /\ log'[k].dsp = st
         /\ rxq' \in Seq(Arrivals) /\ Len(rxq') = Len(rxq) + 1 /\ rxq' # <<>>
         /\ \A p \in 1 .. Len(rxq) : rxq'[p] = rxq[p]
         /\ rxq'[Len(rxq) + 1].op = log[k].op /\ rxq'[Len(rxq) + 1].st = st
         /\ rxq'[Len(rxq) + 1].id = k
         /\ UNCHANGED <<owner, slot, pc, cb, comps>>
  <1> DEFINE e == [op |-> log[k].op, st |-> st, id |-> k]
  <1>1. /\ log \in Seq(Commands) /\ k \in 1 .. Len(log) /\ log[k] \in Commands
        /\ rxq \in Seq(Arrivals) /\ Len(log) \in Nat /\ k \in Nat
    BY Typed DEF CmdInv, Ids
  <1>2. e \in Arrivals
    BY <1>1 DEF Arrivals, Commands
  <1>3. rxq' = Append(rxq, e) /\ log' = [log EXCEPT ![k].dsp = st]
    BY DEF Answer
  <1> HIDE DEF e
  <1>4. /\ rxq' \in Seq(Arrivals) /\ Len(rxq') = Len(rxq) + 1 /\ rxq' # <<>>
        /\ \A p \in 1 .. Len(rxq) : rxq'[p] = rxq[p]
        /\ rxq'[Len(rxq) + 1] = e
    BY <1>1, <1>2, <1>3, Arrived
  <1>5. /\ log' \in Seq(Commands) /\ Len(log') = Len(log)
        /\ \A j \in 1 .. Len(log) : j # k => log'[j] = log[j]
        /\ log'[k].op = log[k].op /\ log'[k].rc = log[k].rc
        /\ log'[k].seen = log[k].seen /\ log'[k].dsp = st
    <2> DEFINE r == [log[k] EXCEPT !.dsp = st]
    <2>1. r \in Commands /\ r.op = log[k].op /\ r.rc = log[k].rc /\ r.seen = log[k].seen /\ r.dsp = st
      BY <1>1, Typed DEF Commands, CmdInv, Answers, Ids
    <2>2. log' = [log EXCEPT ![k] = r]
      BY <1>3
    <2> HIDE DEF r
    <2> QED BY <1>1, <2>1, <2>2, Rewritten
  <1>6. log' # <<>>
    BY <1>1, <1>5
  <1>7. ~log[k].seen /\ log[k].dsp = "none"
    BY DEF Answer, CmdInv, Exclusive, Answers
  <1>8. e.op = log[k].op /\ e.st = st /\ e.id = k
    BY DEF e
  <1> QED BY <1>4, <1>5, <1>6, <1>7, <1>8 DEF Answer, Ids, Cur

LEMMA CompleteDoes ==
  ASSUME CmdInv, NEW st \in Answers, Complete(st)
  PROVE  /\ comps' = comps + 1 /\ comps' \in 0 .. MaxData /\ comps' > 0
         /\ rxq' \in Seq(Arrivals) /\ Len(rxq') = Len(rxq) + 1 /\ rxq' # <<>>
         /\ \A p \in 1 .. Len(rxq) : rxq'[p] = rxq[p]
         /\ rxq'[Len(rxq) + 1].op = Buffer /\ rxq'[Len(rxq) + 1].id = 0
         /\ UNCHANGED <<owner, slot, pc, cb, log>>
  <1> DEFINE e == [op |-> Buffer, st |-> st, id |-> 0]
  <1>1. e \in Arrivals /\ rxq \in Seq(Arrivals) /\ comps \in 0 .. MaxData /\ MaxData \in Nat
    BY Typed, ChannelAssumption DEF Arrivals, CmdInv
  <1>2. rxq' = Append(rxq, e)
    BY DEF Complete
  <1> HIDE DEF e
  <1>3. /\ rxq' \in Seq(Arrivals) /\ Len(rxq') = Len(rxq) + 1 /\ rxq' # <<>>
        /\ \A p \in 1 .. Len(rxq) : rxq'[p] = rxq[p]
        /\ rxq'[Len(rxq) + 1] = e
    BY <1>1, <1>2, Arrived
  <1>4. e.op = Buffer /\ e.id = 0
    BY DEF e
  <1> QED BY <1>1, <1>3, <1>4 DEF Complete

\* The head of the queue, and what is left without it.
Popped ==
  /\ rxq' = Tail(rxq) /\ rxq' \in Seq(Arrivals) /\ Len(rxq') = Len(rxq) - 1
  /\ \A p \in 1 .. Len(rxq') : p + 1 \in 1 .. Len(rxq) /\ rxq'[p] = rxq[p + 1]

LEMMA Pops ==
  ASSUME CmdInv, cb # "idle", rxq' = Tail(rxq)
  PROVE  Popped
  BY Typed, Dealt DEF CmdInv, Queued, Popped

LEMMA HeadIs ==
  ASSUME CmdInv, rxq # <<>>
  PROVE  /\ Head(rxq) = rxq[1] /\ rxq[1] \in Arrivals /\ 1 \in 1 .. Len(rxq)
         /\ rxq[1].id = 0 <=> rxq[1].op = Buffer
         /\ rxq[1].id = 0 => comps > 0
         /\ rxq[1].id # 0 =>
              /\ rxq[1].id \in Ids /\ rxq[1].op = log[rxq[1].id].op
              /\ rxq[1].st = log[rxq[1].id].dsp /\ (log[rxq[1].id].seen <=> InSlot)
  <1>1. Head(rxq) = rxq[1] /\ rxq[1] \in Arrivals /\ 1 \in 1 .. Len(rxq)
    BY Typed, Dealt DEF CmdInv
  <1> QED BY <1>1 DEF CmdInv, Queued

LEMMA StoreOpcodeDoes ==
  ASSUME CmdInv, StoreOpcode
  PROVE  /\ cb = "opcode" /\ cb' = "status" /\ rxq # <<>>
         /\ slot'.op = rxq[1].op /\ slot'.st = slot.st
         /\ slot' \in [op : Op \cup {Clear, Buffer}, st : Answers]
         /\ log' \in Seq(Commands) /\ Cur' = Cur /\ Ids' = Ids /\ (log' = <<>> <=> log = <<>>)
         /\ \A i \in Ids : /\ i # rxq[1].id => log'[i] = log[i]
                           /\ log'[i].op = log[i].op /\ log'[i].rc = log[i].rc
                           /\ log'[i].dsp = log[i].dsp
         /\ rxq[1].id # 0 => ~log[rxq[1].id].seen /\ log'[rxq[1].id].seen
         /\ UNCHANGED <<owner, pc, rxq, comps>>
  <1>1. rxq # <<>> /\ log \in Seq(Commands) /\ Len(log) \in Nat
    BY Typed DEF CmdInv, Queued, StoreOpcode
  <1>2. slot' = [slot EXCEPT !.op = rxq[1].op] /\ slot \in [op : Op \cup {Clear, Buffer}, st : Answers]
        /\ rxq[1].op \in Op \cup {Buffer}
    BY <1>1, HeadIs, Typed DEF StoreOpcode, CmdInv, Arrivals
  <1>3. CASE rxq[1].id = 0
    BY <1>1, <1>2, <1>3, HeadIs DEF StoreOpcode, Ids, Cur
  <1>4. CASE rxq[1].id # 0
    <2>1. rxq[1].id \in 1 .. Len(log) /\ ~log[rxq[1].id].seen
      BY <1>1, <1>4, HeadIs DEF Ids, InSlot, StoreOpcode
    <2>2. log' = [log EXCEPT ![rxq[1].id].seen = TRUE]
      BY <1>1, <1>4, HeadIs DEF StoreOpcode
    <2>3. /\ log' \in Seq(Commands) /\ Len(log') = Len(log)
          /\ \A j \in 1 .. Len(log) : j # rxq[1].id => log'[j] = log[j]
          /\ log'[rxq[1].id].op = log[rxq[1].id].op /\ log'[rxq[1].id].rc = log[rxq[1].id].rc
          /\ log'[rxq[1].id].dsp = log[rxq[1].id].dsp /\ log'[rxq[1].id].seen = TRUE
      <3> DEFINE r == [log[rxq[1].id] EXCEPT !.seen = TRUE]
      <3>1. log[rxq[1].id] \in Commands
        BY <1>1, <2>1
      <3>2. r \in Commands /\ r.op = log[rxq[1].id].op /\ r.rc = log[rxq[1].id].rc
            /\ r.dsp = log[rxq[1].id].dsp /\ r.seen = TRUE
        BY <3>1 DEF Commands
      <3>3. log' = [log EXCEPT ![rxq[1].id] = r]
        BY <2>2
      <3> HIDE DEF r
      <3> QED BY <1>1, <2>1, <3>2, <3>3, Rewritten
    <2>4. log' = <<>> <=> log = <<>>
      BY <1>1, <2>3
    <2> QED BY <1>1, <1>2, <1>4, <2>1, <2>3, <2>4 DEF StoreOpcode, Ids, Cur
  <1> QED BY <1>3, <1>4

LEMMA StoreStatusDoes ==
  ASSUME CmdInv, StoreStatus
  PROVE  /\ cb = "status" /\ rxq # <<>>
         /\ slot'.op = slot.op
         /\ slot'.st = IF rxq[1].op \in Silent THEN "ok" ELSE rxq[1].st
         /\ slot' \in [op : Op \cup {Clear, Buffer}, st : Answers]
         /\ \/ rxq[1].id = 0 /\ cb' = "idle" /\ Popped
            \/ rxq[1].id # 0 /\ cb' = "wake" /\ UNCHANGED rxq
         /\ UNCHANGED <<owner, pc, log, comps>>
  <1>1. rxq # <<>>
    BY DEF CmdInv, Queued, StoreStatus
  <1>2. /\ slot' = [slot EXCEPT !.st = IF rxq[1].op \in Silent THEN "ok" ELSE rxq[1].st]
        /\ slot \in [op : Op \cup {Clear, Buffer}, st : Answers]
        /\ (IF rxq[1].op \in Silent THEN "ok" ELSE rxq[1].st) \in Answers
    BY <1>1, HeadIs, Typed DEF StoreStatus, CmdInv, Arrivals, Answers
  <1>3. CASE rxq[1].id = 0
    BY <1>1, <1>2, <1>3, HeadIs, Pops DEF StoreStatus
  <1>4. CASE rxq[1].id # 0
    BY <1>1, <1>2, <1>4, HeadIs DEF StoreStatus
  <1> QED BY <1>3, <1>4

-----------------------------------------------------------------------------
\* The steps, by what they do.

\* The function returns: why, and with what.
Returns(c, rc) ==
  /\ pc[c] # "idle" /\ Return(c, rc) /\ UNCHANGED <<slot, rxq, cb, comps>>
  /\ \/ rc = "unsent" /\ pc[c] = "send"
     \/ rc = "timeout" /\ pc[c] = "sleep" /\ slot.op # log[Cur].op
     \/ rc \in {"zero", "error"} /\ pc[c] = "read" /\ (rc = "error" <=> slot.st = "error")

\* The waiter looks at the slot.
Looks(c, to) ==
  /\ pc[c] \in {"check", "sleep"} /\ to \in {"read", "sleep"}
  /\ to = "read" => slot.op = log[Cur].op
  /\ pc' = [pc EXCEPT ![c] = to]
  /\ UNCHANGED <<owner, slot, rxq, cb, log, comps>>

LEMMA StepCases ==
  ASSUME [Next]_vars
  PROVE  \/ \E c \in Caller, o \in Op : Call(c, o)
         \/ \E c \in Caller : SendGoes(c)
         \/ \E c \in Caller, rc \in Codes \ {"pending"} : Returns(c, rc)
         \/ \E c \in Caller, to \in {"read", "sleep"} : Looks(c, to)
         \/ \E k \in Ids, st \in Answers : Answer(k, st)
         \/ \E st \in Answers : Complete(st)
         \/ Receive \/ LookUp \/ StoreOpcode \/ StoreStatus \/ WakeUp
         \/ UNCHANGED vars
  <1>1. ASSUME NEW c \in Caller, Send(c)
        PROVE  SendGoes(c) \/ Returns(c, "unsent")
    BY <1>1 DEF Send, SendGoes, Returns
  <1>2. ASSUME NEW c \in Caller, Evaluate(c)
        PROVE  \E to \in {"read", "sleep"} : Looks(c, to)
    BY <1>2 DEF Evaluate, Looks, Goto
  <1>3. ASSUME NEW c \in Caller, Expire(c)
        PROVE  Looks(c, "read") \/ Returns(c, "timeout")
    BY <1>3 DEF Expire, Looks, Returns, Goto
  <1>4. ASSUME NEW c \in Caller, Read(c)
        PROVE  \E rc \in {"zero", "error"} : Returns(c, rc)
    BY <1>4 DEF Read, Returns
  <1>5. {"unsent", "timeout", "zero", "error"} \subseteq Codes \ {"pending"}
    BY DEF Codes
  <1> QED
    BY <1>1, <1>2, <1>3, <1>4, <1>5
    DEF Next, Step, Callback, Dsp, Rest, Answers

-----------------------------------------------------------------------------
\* Each part of the invariant, step by step.

LEMMA TypeKept ==
  ASSUME CmdInv, [Next]_vars
  PROVE  TypeOK'
  <1> SUFFICES /\ owner' \in Caller \cup {None}
               /\ slot' \in [op : Op \cup {Clear, Buffer}, st : Answers]
               /\ pc' \in [Caller -> {"idle", "send", "check", "sleep", "read"}]
               /\ rxq' \in Seq(Arrivals)
               /\ cb' \in {"idle", "lock", "opcode", "status", "wake"}
               /\ log' \in Seq(Commands) /\ comps' \in 0 .. MaxData
    <2>1. {"unsent", "none"} \cup Answers = {"unsent", "none", "ok", "error"}
      BY DEF Answers
    <2> QED BY <2>1 DEF TypeOK, Arrivals, Commands, Codes, Answers
  <1>1. /\ owner \in Caller \cup {None}
        /\ slot \in [op : Op \cup {Clear, Buffer}, st : Answers]
        /\ pc \in [Caller -> {"idle", "send", "check", "sleep", "read"}]
        /\ rxq \in Seq(Arrivals)
        /\ cb \in {"idle", "lock", "opcode", "status", "wake"}
        /\ log \in Seq(Commands) /\ comps \in 0 .. MaxData
    BY Typed DEF CmdInv
  <1>2. Empty \in [op : Op \cup {Clear, Buffer}, st : Answers]
    BY DEF Empty, Answers
  <1>3. CASE \E c \in Caller, o \in Op : Call(c, o)
    <2>1. PICK c \in Caller, o \in Op : Call(c, o)
      BY <1>3
    <2>2. pc' = [pc EXCEPT ![c] = "send"] /\ log' \in Seq(Commands) /\ owner' = c /\ slot' = Empty
          /\ UNCHANGED <<rxq, cb, comps>>
      BY <2>1, CallDoes
    <2> QED BY <1>1, <1>2, <2>2
  <1>4. CASE \E c \in Caller : SendGoes(c)
    <2>1. PICK c \in Caller : SendGoes(c)
      BY <1>4
    <2> QED BY <1>1, <2>1, SendDoes
  <1>5. CASE \E c \in Caller, rc \in Codes \ {"pending"} : Returns(c, rc)
    <2>1. PICK c \in Caller, rc \in Codes \ {"pending"} : Returns(c, rc)
      BY <1>5
    <2>2. pc[c] # "idle" /\ Return(c, rc) /\ UNCHANGED <<slot, rxq, cb, comps>>
      BY <2>1 DEF Returns
    <2> QED BY <1>1, <2>2, ReturnDoes
  <1>6. CASE \E c \in Caller, to \in {"read", "sleep"} : Looks(c, to)
    BY <1>1, <1>6 DEF Looks
  <1>7. CASE \E k \in Ids, st \in Answers : Answer(k, st)
    BY <1>1, <1>7, AnswerDoes
  <1>8. CASE \E st \in Answers : Complete(st)
    BY <1>1, <1>8, CompleteDoes
  <1>9. CASE Receive
    BY <1>1, <1>9 DEF Receive
  <1>10. CASE LookUp
    BY <1>1, <1>10, Pops DEF LookUp, Popped
  <1>11. CASE StoreOpcode
    BY <1>1, <1>11, StoreOpcodeDoes
  <1>12. CASE StoreStatus
    BY <1>1, <1>12, StoreStatusDoes DEF Popped
  <1>13. CASE WakeUp
    BY <1>1, <1>13, Pops DEF WakeUp, Popped
  <1>14. CASE UNCHANGED vars
    BY <1>1, <1>14 DEF vars
  <1> QED
    BY <1>3, <1>4, <1>5, <1>6, <1>7, <1>8, <1>9, <1>10, <1>11, <1>12, <1>13, <1>14, StepCases

LEMMA ExclusiveKept ==
  ASSUME CmdInv, [Next]_vars
  PROVE  Exclusive'
  <1>1. /\ pc \in [Caller -> {"idle", "send", "check", "sleep", "read"}] /\ None \notin Caller
        /\ owner \in Caller \cup {None} /\ Exclusive
        /\ \A i \in Ids : log[i] \in Commands /\ i # 0
        /\ Busy => Cur \in Ids
    BY Typed DEF CmdInv, Exclusive, Ids, Cur
  <1>3. CASE \E c \in Caller, o \in Op : Call(c, o)
    <2>1. PICK c \in Caller, o \in Op : Call(c, o)
      BY <1>3
    <2>2. /\ ~Busy /\ owner' = c /\ Busy' /\ pc' = [pc EXCEPT ![c] = "send"] /\ log' # <<>>
          /\ Cur' = Cur + 1 /\ Cur' \in Ids'
          /\ \A i \in Ids : log'[i] = log[i] /\ i # Cur + 1 /\ i \in Ids'
          /\ \A i \in Ids' : i \in Ids \/ i = Cur + 1
          /\ log'[Cur + 1].rc = "pending" /\ log'[Cur + 1].dsp = "unsent" /\ ~log'[Cur + 1].seen
      BY <2>1, CallDoes
    <2>3. \A x \in Caller : pc'[x] # "idle" <=> owner' = x
      BY <1>1, <2>2 DEF Exclusive, Busy
    <2>4. \A i \in Ids' : log'[i].rc = "pending" <=> i = Cur'
      BY <1>1, <2>2 DEF Exclusive
    <2>5. \A i \in Ids' : /\ log'[i].seen => log'[i].dsp \in Answers
                          /\ log'[i].rc = "unsent" => log'[i].dsp = "unsent"
      BY <1>1, <2>2 DEF Exclusive
    <2>6. log'[Cur'].dsp = "unsent" /\ pc'[owner'] = "send"
      BY <1>1, <2>2
    <2> QED BY <2>2, <2>3, <2>4, <2>5, <2>6 DEF Exclusive
  <1>4. CASE \E c \in Caller : SendGoes(c)
    <2>1. PICK c \in Caller : SendGoes(c)
      BY <1>4
    <2>2. pc'[c] = "check" /\ \A x \in Caller : x # c => pc'[x] = pc[x]
      BY <1>1, <2>1, SendDoes
    <2>3. \A i \in Ids' : /\ log'[i].rc = "pending" <=> i = Cur' /\ Busy'
                          /\ log'[i].seen => log'[i].dsp \in Answers
                          /\ log'[i].rc = "unsent" => log'[i].dsp = "unsent"
      BY <1>1, <2>1, SendDoes DEF Exclusive, Answers
    <2> QED BY <1>1, <2>1, <2>2, <2>3, SendDoes DEF Exclusive
  <1>5. CASE \E c \in Caller, rc \in Codes \ {"pending"} : Returns(c, rc)
    <2>1. PICK c \in Caller, rc \in Codes \ {"pending"} : Returns(c, rc)
      BY <1>5
    <2>2. pc[c] # "idle" /\ Return(c, rc)
          /\ (rc = "unsent" => pc[c] = "send")
      BY <2>1 DEF Returns
    <2>3. pc'[c] = "idle" /\ \A x \in Caller : x # c => pc'[x] = pc[x]
      BY <1>1, <2>2, ReturnDoes
    <2>4. \A i \in Ids' : /\ log'[i].rc # "pending"
                          /\ log'[i].seen => log'[i].dsp \in Answers
      BY <1>1, <2>2, ReturnDoes DEF Exclusive
    <2>5. \A i \in Ids' : log'[i].rc = "unsent" => log'[i].dsp = "unsent"
      BY <1>1, <2>2, ReturnDoes, HolderRuns DEF Exclusive
    <2> QED BY <1>1, <2>2, <2>3, <2>4, <2>5, ReturnDoes DEF Exclusive
  <1>6. CASE \E c \in Caller, to \in {"read", "sleep"} : Looks(c, to)
    <2>1. PICK c \in Caller, to \in {"read", "sleep"} : Looks(c, to)
      BY <1>6
    <2>2. /\ pc[c] \in {"check", "sleep"} /\ pc'[c] \in {"read", "sleep"}
          /\ \A x \in Caller : x # c => pc'[x] = pc[x]
          /\ UNCHANGED <<owner, log>>
      BY <1>1, <2>1 DEF Looks
    <2> QED BY <1>1, <2>2 DEF Exclusive, Busy, Ids, Cur
  <1>7. CASE \E k \in Ids, st \in Answers : Answer(k, st)
    <2>1. PICK k \in Ids, st \in Answers : Answer(k, st)
      BY <1>7
    <2>0. /\ log[k].dsp = "none" /\ log'[k].dsp = st /\ Cur' = Cur /\ Ids' = Ids /\ log' # <<>>
          /\ \A i \in Ids : /\ i # k => log'[i].dsp = log[i].dsp
                            /\ log'[i].rc = log[i].rc /\ (log'[i].seen <=> log[i].seen)
          /\ UNCHANGED <<owner, pc>> /\ (Busy' <=> Busy)
      BY <2>1, AnswerDoes DEF Busy
    <2>2. \A i \in Ids' : /\ log'[i].rc = "pending" <=> i = Cur' /\ Busy'
                          /\ log'[i].seen => log'[i].dsp \in Answers
      BY <1>1, <2>0, <2>1 DEF Exclusive
    <2>3. \A i \in Ids' : log'[i].rc = "unsent" => log'[i].dsp = "unsent"
      BY <1>1, <2>0, <2>1 DEF Exclusive
    <2>4. Busy' => (log'[Cur'].dsp = "unsent" <=> pc'[owner'] = "send")
      BY <1>1, <2>0, <2>1 DEF Exclusive, Answers
    <2> QED BY <1>1, <2>0, <2>2, <2>3, <2>4 DEF Exclusive
  <1>8. CASE (\E st \in Answers : Complete(st)) \/ Receive \/ LookUp \/ StoreStatus \/ UNCHANGED vars
    <2>1. UNCHANGED <<owner, pc, log>>
      BY <1>8, StoreStatusDoes, CompleteDoes DEF Receive, LookUp, vars
    <2> QED BY <1>1, <2>1 DEF Exclusive, Busy, Ids, Cur
  <1>9. CASE StoreOpcode
    <2>1. \A i \in Ids' : /\ log'[i].rc = "pending" <=> i = Cur' /\ Busy'
                          /\ log'[i].rc = "unsent" => log'[i].dsp = "unsent"
      BY <1>1, <1>9, StoreOpcodeDoes DEF Exclusive, Busy
    <2>2. \A i \in Ids' : log'[i].seen => log'[i].dsp \in Answers
      <3>1. rxq[1].id # 0 => log[rxq[1].id].dsp \in Answers
        BY <1>9, StoreOpcodeDoes, HeadIs DEF Arrivals
      <3>2. /\ Ids' = Ids
            /\ \A i \in Ids : log'[i].dsp = log[i].dsp /\ (i # rxq[1].id => log'[i] = log[i])
        BY <1>9, StoreOpcodeDoes
      <3> QED BY <1>1, <3>1, <3>2 DEF Exclusive
    <2> QED BY <1>1, <1>9, <2>1, <2>2, StoreOpcodeDoes DEF Exclusive, Busy
  <1>10. CASE WakeUp
    <2>1. /\ pc' = [x \in Caller |-> IF pc[x] = "sleep" THEN "check" ELSE pc[x]]
          /\ UNCHANGED <<owner, log>>
      BY <1>10 DEF WakeUp
    <2> QED BY <1>1, <2>1 DEF Exclusive, Busy, Ids, Cur
  <1> QED
    BY <1>3, <1>4, <1>5, <1>6, <1>7, <1>8, <1>9, <1>10, StepCases

\* The history only grows, and what is settled in it stays.
LEMMA Grows ==
  ASSUME CmdInv, [Next]_vars
  PROVE  /\ Cur \in Nat /\ Cur' \in Nat /\ Cur <= Cur' /\ comps \in Nat /\ comps' \in Nat /\ comps <= comps'
         /\ Ids = 1 .. Cur /\ Ids' = 1 .. Cur'
         /\ \A i \in Ids : /\ i \in Ids' /\ log'[i].op = log[i].op
                           /\ log[i].rc # "pending" => log'[i].rc = log[i].rc
                           /\ log[i].seen => log'[i].seen
                           /\ log[i].dsp \in Answers => log'[i].dsp = log[i].dsp
  <1>1. /\ Cur \in Nat /\ comps \in Nat /\ comps' \in Nat /\ log' \in Seq(Commands)
        /\ \A i \in Ids : log[i] \in Commands /\ i # 0
        /\ Exclusive
    <2>1. comps' \in 0 .. MaxData /\ log' \in Seq(Commands)
      <3>1. {"unsent", "none"} \cup Answers = {"unsent", "none", "ok", "error"}
        BY DEF Answers
      <3> QED BY <3>1, TypeKept DEF TypeOK, Commands, Codes, Answers
    <2> QED BY <2>1, Typed, ChannelAssumption DEF CmdInv, Cur
  <1>2. Ids = 1 .. Cur /\ Ids' = 1 .. Cur' /\ Cur' \in Nat
    BY <1>1 DEF Ids, Cur
  <1>3. CASE \E c \in Caller, o \in Op : Call(c, o)
    <2>1. /\ Cur' = Cur + 1 /\ \A i \in Ids : log'[i] = log[i]
          /\ UNCHANGED comps
      BY <1>3, CallDoes
    <2> QED BY <1>1, <1>2, <2>1
  <1>4. CASE \E c \in Caller : SendGoes(c)
    <2>1. /\ Cur' = Cur /\ log[Cur].dsp = "unsent" /\ UNCHANGED comps
          /\ \A i \in Ids : /\ i # Cur => log'[i] = log[i]
                            /\ log'[i].op = log[i].op /\ log'[i].rc = log[i].rc
                            /\ (log'[i].seen <=> log[i].seen)
      BY <1>4, SendDoes
    <2> QED BY <1>1, <1>2, <2>1 DEF Answers
  <1>5. CASE \E c \in Caller, rc \in Codes \ {"pending"} : Returns(c, rc)
    <2>1. PICK c \in Caller, rc \in Codes \ {"pending"} : Returns(c, rc)
      BY <1>5
    <2>2. pc[c] # "idle" /\ Return(c, rc) /\ UNCHANGED comps
      BY <2>1 DEF Returns
    <2>3. /\ Busy /\ Cur' = Cur
          /\ \A i \in Ids : /\ i # Cur => log'[i] = log[i]
                            /\ log'[i].op = log[i].op /\ log'[i].dsp = log[i].dsp
                            /\ (log'[i].seen <=> log[i].seen)
      BY <2>2, ReturnDoes
    <2>4. \A i \in Ids : log[i].rc # "pending" => i # Cur
      BY <1>1, <2>3 DEF Exclusive
    <2> QED BY <1>1, <1>2, <2>2, <2>3, <2>4
  <1>6. CASE \E k \in Ids, st \in Answers : Answer(k, st)
    <2>1. PICK k \in Ids, st \in Answers : Answer(k, st)
      BY <1>6
    <2>2. /\ log[k].dsp = "none" /\ Cur' = Cur /\ UNCHANGED comps
          /\ \A i \in Ids : /\ i # k => log'[i].dsp = log[i].dsp
                            /\ log'[i].op = log[i].op
                            /\ log'[i].rc = log[i].rc /\ (log'[i].seen <=> log[i].seen)
      BY <2>1, AnswerDoes
    <2> QED BY <1>1, <1>2, <2>2 DEF Answers
  <1>7. CASE StoreOpcode
    <2>1. /\ Cur' = Cur /\ UNCHANGED comps
          /\ \A i \in Ids : /\ log'[i].dsp = log[i].dsp
                            /\ log'[i].op = log[i].op /\ log'[i].rc = log[i].rc
                            /\ i # rxq[1].id => log'[i] = log[i]
          /\ rxq[1].id # 0 => log'[rxq[1].id].seen
      BY <1>7, StoreOpcodeDoes
    <2> QED BY <1>1, <1>2, <2>1
  <1>8. CASE \/ \E st \in Answers : Complete(st)
             \/ \E c \in Caller, to \in {"read", "sleep"} : Looks(c, to)
             \/ Receive \/ LookUp \/ StoreStatus \/ WakeUp \/ UNCHANGED vars
    <2>1. UNCHANGED log /\ (comps' = comps \/ comps' = comps + 1)
      BY <1>8, StoreStatusDoes, CompleteDoes DEF Receive, LookUp, WakeUp, Looks, vars
    <2> QED BY <1>1, <1>2, <2>1 DEF Cur
  <1> QED BY <1>3, <1>4, <1>5, <1>6, <1>7, <1>8, StepCases

\* What went wrong before a command stays so.
LEMMA Lasting ==
  ASSUME CmdInv, [Next]_vars, NEW i \in Ids
  PROVE  /\ Overdue(i) => Overdue(i)'
         /\ LateTwin(i) => LateTwin(i)'
         /\ Misread(i) => Misread(i)'
         /\ Clean(i)' => Clean(i)
  <1>1. \A j \in 1 .. i - 1 : j \in Ids
    BY Grows
  <1>2. \A j \in 1 .. i - 1 :
          /\ log[j].rc = "timeout" => log'[j].rc = "timeout"
          /\ log'[j].op = log[j].op /\ log'[i].op = log[i].op
          /\ log[j].rc = "zero" /\ log[j].dsp = "error" => log'[j].rc = "zero" /\ log'[j].dsp = "error"
    BY <1>1, Grows DEF Answers
  <1>3. comps' = 0 => comps = 0
    BY Grows
  <1>4. Overdue(i) => Overdue(i)'
    BY <1>2 DEF Overdue
  <1>5. LateTwin(i) => LateTwin(i)'
    BY <1>2 DEF LateTwin
  <1>6. Misread(i) => Misread(i)'
    BY <1>2 DEF Misread
  <1> QED BY <1>3, <1>4, <1>5, <1>6 DEF Clean

\* The queue without its first packet.
LEMMA PopsQueued ==
  ASSUME CmdInv, Popped, cb' = "idle", UNCHANGED <<log, comps>>
  PROVE  Queued'
  <1>1. /\ Len(rxq') = Len(rxq) - 1 /\ Len(rxq) \in Nat
        /\ \A p \in 1 .. Len(rxq') : p + 1 \in 1 .. Len(rxq) /\ rxq'[p] = rxq[p + 1] /\ p + 1 # 1
    BY Typed DEF Popped, CmdInv
  <1>2. \A p \in 1 .. Len(rxq') :
          /\ rxq'[p].id = 0 <=> rxq'[p].op = Buffer
          /\ rxq'[p].id = 0 => comps > 0
          /\ rxq'[p].id # 0 =>
               /\ rxq'[p].id \in Ids
               /\ rxq'[p].op = log[rxq'[p].id].op /\ rxq'[p].st = log[rxq'[p].id].dsp
               /\ ~log[rxq'[p].id].seen
    BY <1>1 DEF CmdInv, Queued
  <1>3. \A p, q \in 1 .. Len(rxq') : rxq'[p].id = rxq'[q].id => p = q \/ rxq'[p].id = 0
    <2> TAKE p, q \in 1 .. Len(rxq')
    <2> HAVE rxq'[p].id = rxq'[q].id
    <2>1. p + 1 = q + 1 \/ rxq[p + 1].id = 0
      BY <1>1 DEF CmdInv, Queued
    <2> QED BY <1>1, <2>1
  <1>4. ~InSlot' /\ Ids' = Ids
    BY DEF InSlot, Ids
  <1> QED BY <1>2, <1>3, <1>4 DEF Queued

LEMMA QueuedKept ==
  ASSUME CmdInv, [Next]_vars
  PROVE  Queued'
  <1>1. /\ Queued /\ Len(rxq) \in Nat
        /\ \A p \in 1 .. Len(rxq) : rxq[p] \in Arrivals
        /\ \A i \in Ids : log[i] \in Commands /\ i # 0
        /\ Clear \notin Op /\ Buffer \notin Op
    BY Typed DEF CmdInv
  <1>2. \A p \in 1 .. Len(rxq) : rxq[p].id # 0 => log[rxq[p].id].dsp \in Answers
    BY <1>1 DEF Queued, Arrivals
  <1>3. CASE \/ \E c \in Caller, o \in Op : Call(c, o)
             \/ \E c \in Caller : SendGoes(c)
             \/ \E c \in Caller, rc \in Codes \ {"pending"} : Returns(c, rc)
             \/ \E c \in Caller, to \in {"read", "sleep"} : Looks(c, to)
             \/ UNCHANGED vars
    <2>1. UNCHANGED <<rxq, cb, comps>>
      BY <1>3, CallDoes DEF SendGoes, Returns, Looks, vars
    <2>2. \A i \in Ids : log'[i].seen <=> log[i].seen
      BY <1>3, CallDoes, SendDoes, ReturnDoes DEF Returns, Looks, vars
    <2>3. \A p \in 1 .. Len(rxq) : rxq[p].id # 0 =>
            /\ rxq[p].id \in Ids' /\ log'[rxq[p].id].op = log[rxq[p].id].op
            /\ log'[rxq[p].id].dsp = log[rxq[p].id].dsp
      BY <1>1, <1>2, Grows DEF Queued
    <2> QED BY <1>1, <2>1, <2>2, <2>3 DEF Queued, InSlot
  <1>7. CASE \E k \in Ids, st \in Answers : Answer(k, st)
    <2>1. PICK k \in Ids, st \in Answers : Answer(k, st)
      BY <1>7
    <2>2. /\ log[k].dsp = "none" /\ ~log[k].seen /\ log'[k].dsp = st /\ Ids' = Ids
          /\ \A i \in Ids : /\ i # k => log'[i].dsp = log[i].dsp
                            /\ log'[i].op = log[i].op /\ (log'[i].seen <=> log[i].seen)
          /\ Len(rxq') = Len(rxq) + 1 /\ rxq' # <<>>
          /\ \A p \in 1 .. Len(rxq) : rxq'[p] = rxq[p]
          /\ rxq'[Len(rxq) + 1].op = log[k].op /\ rxq'[Len(rxq) + 1].st = st
          /\ rxq'[Len(rxq) + 1].id = k
          /\ UNCHANGED <<cb, comps>>
      BY <2>1, AnswerDoes
    <2>3. \A p \in 1 .. Len(rxq) : rxq[p].id # k
      BY <1>1, <1>2, <2>2 DEF Answers
    <2>4. \A p \in 1 .. Len(rxq') : p \in 1 .. Len(rxq) \/ p = Len(rxq) + 1
      BY <1>1, <2>2
    <2>5. ASSUME NEW p \in 1 .. Len(rxq), rxq[p].id # 0
          PROVE  /\ rxq[p].id \in Ids' /\ rxq[p].op = log'[rxq[p].id].op /\ rxq[p].st = log'[rxq[p].id].dsp
                 /\ log'[rxq[p].id].seen <=> p = 1 /\ InSlot'
      BY <1>1, <2>2, <2>3, <2>5 DEF Queued, InSlot
    <2>6. ~(Len(rxq) + 1 = 1 /\ InSlot')
      BY <1>1, <2>2 DEF Queued, InSlot
    <2>7. log[k].op # Buffer /\ k # 0 /\ log'[k].op = log[k].op /\ k \in Ids' /\ ~log'[k].seen
      BY <1>1, <2>2 DEF Commands
    <2>8. \A p \in 1 .. Len(rxq') :
       /\ rxq'[p].id = 0 <=> rxq'[p].op = Buffer
       /\ rxq'[p].id = 0 => comps' > 0
       /\ rxq'[p].id # 0 =>
            /\ rxq'[p].id \in Ids'
            /\ rxq'[p].op = log'[rxq'[p].id].op /\ rxq'[p].st = log'[rxq'[p].id].dsp
            /\ log'[rxq'[p].id].seen <=> p = 1 /\ InSlot'
      <3> TAKE p \in 1 .. Len(rxq')
      <3>1. CASE p \in 1 .. Len(rxq)
        BY <1>1, <2>2, <2>5, <3>1 DEF Queued
      <3>2. CASE p = Len(rxq) + 1
        BY <2>2, <2>6, <2>7, <3>2
      <3> QED BY <2>4, <3>1, <3>2
    <2>9. \A p, q \in 1 .. Len(rxq') : rxq'[p].id = rxq'[q].id => p = q \/ rxq'[p].id = 0
      BY <1>1, <2>2, <2>3, <2>4 DEF Queued
    <2>10. /\ cb' # "idle" => rxq' # <<>>
           /\ cb' = "lock" => rxq'[1].op = Buffer
      BY <1>1, <2>2 DEF Queued
    <2> QED BY <2>8, <2>9, <2>10 DEF Queued
  <1>8. CASE \E st \in Answers : Complete(st)
    <2>1. PICK st \in Answers : Complete(st)
      BY <1>8
    <2>2. /\ comps' > 0
          /\ Len(rxq') = Len(rxq) + 1 /\ rxq' # <<>>
          /\ \A p \in 1 .. Len(rxq) : rxq'[p] = rxq[p]
          /\ rxq'[Len(rxq) + 1].op = Buffer
          /\ rxq'[Len(rxq) + 1].id = 0
          /\ UNCHANGED <<cb, log>>
      BY <2>1, CompleteDoes
    <2>3. \A p \in 1 .. Len(rxq') : p \in 1 .. Len(rxq) \/ p = Len(rxq) + 1
      BY <1>1, <2>2
    <2>4. /\ cb' # "idle" => rxq' # <<>>
          /\ cb' = "lock" => rxq'[1].op = Buffer
      BY <1>1, <2>2 DEF Queued
    <2>5. Ids' = Ids /\ (InSlot' <=> InSlot)
      BY <2>2 DEF Ids, InSlot
    <2>6. \A p, q \in 1 .. Len(rxq') : rxq'[p].id = rxq'[q].id => p = q \/ rxq'[p].id = 0
      BY <1>1, <2>2, <2>3 DEF Queued
    <2>7. \A p \in 1 .. Len(rxq') :
       /\ rxq'[p].id = 0 <=> rxq'[p].op = Buffer
       /\ rxq'[p].id = 0 => comps' > 0
       /\ rxq'[p].id # 0 =>
            /\ rxq'[p].id \in Ids'
            /\ rxq'[p].op = log'[rxq'[p].id].op /\ rxq'[p].st = log'[rxq'[p].id].dsp
            /\ log'[rxq'[p].id].seen <=> p = 1 /\ InSlot'
      BY <1>1, <2>2, <2>3, <2>5 DEF Queued
    <2> QED BY <2>4, <2>6, <2>7 DEF Queued
  <1>9. CASE Receive
    <2>1. /\ cb' \in {"lock", "opcode"} /\ cb = "idle" /\ rxq # <<>>
          /\ cb' = "lock" => rxq[1].op = Buffer
          /\ UNCHANGED <<log, rxq, comps>>
      BY <1>9, HeadIs DEF Receive
    <2> QED BY <1>1, <2>1 DEF Queued, InSlot, Ids
  <1>10. CASE LookUp
    <2>1. CASE cb' = "opcode" /\ UNCHANGED rxq
      BY <1>1, <1>10, <2>1 DEF LookUp, Queued, InSlot, Ids
    <2>2. CASE cb' = "idle" /\ rxq' = Tail(rxq)
      BY <1>10, <2>2, Pops, PopsQueued DEF LookUp
    <2> QED BY <1>10, <2>1, <2>2 DEF LookUp
  <1>11. CASE StoreOpcode
    <2>1. /\ cb = "opcode" /\ cb' = "status" /\ rxq # <<>> /\ Ids' = Ids
          /\ \A i \in Ids : /\ i # rxq[1].id => log'[i] = log[i]
                            /\ log'[i].op = log[i].op /\ log'[i].dsp = log[i].dsp
          /\ rxq[1].id # 0 => log'[rxq[1].id].seen
          /\ UNCHANGED <<rxq, comps>> /\ InSlot' /\ ~InSlot
      BY <1>11, StoreOpcodeDoes DEF InSlot
    <2>2. ASSUME NEW p \in 1 .. Len(rxq), rxq[p].id # 0
          PROVE  log'[rxq[p].id].seen <=> p = 1
      <3>1. CASE p = 1
        BY <2>1, <2>2, <3>1
      <3>2. CASE p # 1
        <4>1. rxq[p].id # rxq[1].id
          BY <1>1, <2>2, <3>2 DEF Queued
        <4> QED BY <1>1, <2>1, <2>2, <3>2, <4>1 DEF Queued
      <3> QED BY <3>1, <3>2
    <2> QED BY <1>1, <2>1, <2>2 DEF Queued
  <1>12. CASE StoreStatus
    <2>1. CASE rxq[1].id = 0 /\ cb' = "idle" /\ Popped
      BY <1>12, <2>1, StoreStatusDoes, PopsQueued
    <2>2. CASE rxq[1].id # 0 /\ cb' = "wake" /\ UNCHANGED rxq
      <3>1. UNCHANGED <<rxq, log, comps>> /\ cb = "status" /\ InSlot /\ InSlot' /\ rxq # <<>> /\ Ids' = Ids
        BY <1>12, <2>2, StoreStatusDoes DEF InSlot, Ids
      <3> QED BY <1>1, <2>2, <3>1 DEF Queued
    <2> QED BY <1>12, <2>1, <2>2, StoreStatusDoes
  <1>13. CASE WakeUp
    BY <1>13, Pops, PopsQueued DEF WakeUp
  <1> QED
    BY <1>3, <1>7, <1>8, <1>9, <1>10, <1>11, <1>12, <1>13, StepCases

\* What matches a command's opcode is its answer or a late one.
LEMMA SourcedKept ==
  ASSUME CmdInv, [Next]_vars
  PROVE  Sourced'
  <1>1. /\ Sourced /\ Exclusive /\ Clear \notin Op /\ Buffer \notin Op /\ None \notin Caller
        /\ pc \in [Caller -> {"idle", "send", "check", "sleep", "read"}]
        /\ \A i \in Ids : log[i] \in Commands /\ i # 0 /\ i \in Nat
        /\ Busy => Cur \in Ids /\ owner \in Caller
        /\ Cur \in Nat /\ Ids = 1 .. Cur
    BY Typed DEF CmdInv, Exclusive, Busy, Ids, Cur
  <1>2. \A i \in Ids : log[i].seen \/ LateTwin(i) => log'[i].seen \/ LateTwin(i)'
    BY Grows, Lasting
  <1>3. CASE \E c \in Caller, o \in Op : Call(c, o)
    <2>1. PICK c \in Caller, o \in Op : Call(c, o)
      BY <1>3
    <2>2. /\ ~Busy /\ owner' = c /\ Cur' = Cur + 1 /\ slot' = Empty
          /\ \A i \in Ids : log'[i] = log[i] /\ i # Cur + 1 /\ i \in Ids'
          /\ \A i \in Ids' : i \in Ids \/ i = Cur + 1
          /\ log'[Cur + 1].rc = "pending" /\ log'[Cur + 1].op \in Op
          /\ pc' = [pc EXCEPT ![c] = "send"]
      BY <2>1, CallDoes
    <2>3. pc'[owner'] = "send" /\ slot'.op = Clear
      BY <1>1, <2>2 DEF Empty
    <2> QED BY <1>1, <1>2, <2>2, <2>3 DEF Sourced
  <1>4. CASE \E c \in Caller : SendGoes(c)
    <2>1. PICK c \in Caller : SendGoes(c)
      BY <1>4
    <2>2. /\ Cur' = Cur /\ Ids' = Ids /\ UNCHANGED <<owner, slot>> /\ owner = c /\ Busy
          /\ \A i \in Ids : log'[i].op = log[i].op /\ log'[i].rc = log[i].rc
          /\ pc' = [pc EXCEPT ![c] = "check"]
      BY <2>1, SendDoes
    <2>3. pc'[owner'] = "check"
      BY <1>1, <2>2
    <2> QED BY <1>1, <1>2, <2>2, <2>3 DEF Sourced, Busy
  <1>5. CASE \E c \in Caller, rc \in Codes \ {"pending"} : Returns(c, rc)
    <2>1. PICK c \in Caller, rc \in Codes \ {"pending"} : Returns(c, rc)
      BY <1>5
    <2>2. /\ pc[c] # "idle" /\ Return(c, rc)
          /\ rc \in {"zero", "error"} => pc[c] = "read"
      BY <2>1 DEF Returns
    <2>3. /\ owner = c /\ Busy /\ Cur \in Ids /\ ~Busy' /\ Cur' = Cur /\ Ids' = Ids
          /\ \A i \in Ids : i # Cur => log'[i] = log[i]
          /\ log'[Cur].rc = rc
      BY <2>2, ReturnDoes
    <2> QED BY <1>1, <1>2, <2>2, <2>3 DEF Sourced
  <1>6. CASE \E c \in Caller, to \in {"read", "sleep"} : Looks(c, to)
    <2>1. PICK c \in Caller, to \in {"read", "sleep"} : Looks(c, to)
      BY <1>6
    <2>2. /\ pc[c] # "idle" /\ (to = "read" => slot.op = log[Cur].op)
          /\ pc' = [pc EXCEPT ![c] = to] /\ UNCHANGED <<owner, slot, log>>
      BY <2>1 DEF Looks
    <2>3. owner = c /\ Busy /\ pc'[c] = to
      BY <1>1, <2>2, HolderRuns
    <2>4. Busy' /\ owner' = c /\ Ids' = Ids /\ Cur' = Cur
      BY <2>2, <2>3 DEF Busy, Ids, Cur
    <2> QED BY <1>1, <1>2, <2>2, <2>3, <2>4 DEF Sourced
  <1>7. CASE \E k \in Ids, st \in Answers : Answer(k, st)
    <2>1. /\ Cur' = Cur /\ Ids' = Ids /\ UNCHANGED <<owner, slot, pc>>
          /\ \A i \in Ids : log'[i].op = log[i].op /\ log'[i].rc = log[i].rc
      BY <1>7, AnswerDoes
    <2> QED BY <1>1, <1>2, <2>1 DEF Sourced, Busy
  <1>8. CASE (\E st \in Answers : Complete(st)) \/ Receive \/ LookUp \/ StoreStatus \/ UNCHANGED vars
    <2>1. UNCHANGED <<owner, pc, log>> /\ slot'.op = slot.op
      BY <1>8, StoreStatusDoes, CompleteDoes DEF Receive, LookUp, vars
    <2>2. Ids' = Ids /\ Cur' = Cur /\ (Busy' <=> Busy)
      BY <2>1 DEF Ids, Cur, Busy
    <2> QED BY <1>1, <1>2, <2>1, <2>2 DEF Sourced
  <1>9. CASE StoreOpcode
    <2>1. /\ rxq # <<>> /\ slot'.op = rxq[1].op /\ Cur' = Cur /\ Ids' = Ids
          /\ \A i \in Ids : log'[i].op = log[i].op /\ log'[i].rc = log[i].rc
          /\ rxq[1].id # 0 => ~log[rxq[1].id].seen /\ log'[rxq[1].id].seen
          /\ UNCHANGED <<owner, pc>>
      BY <1>9, StoreOpcodeDoes
    <2>2. ASSUME Busy, rxq[1].op = log[Cur].op
          PROVE  log'[Cur].seen \/ LateTwin(Cur)'
      <3> DEFINE k == rxq[1].id
      <3>1. log[Cur].op \in Op
        BY <1>1, <2>2 DEF Commands
      <3>2. k \in Ids /\ log[k].op = log[Cur].op /\ log[k].dsp \in Answers /\ ~log[k].seen /\ log'[k].seen
        BY <1>1, <2>1, <2>2, <3>1, HeadIs DEF Arrivals
      <3>3. CASE k = Cur
        BY <3>2, <3>3
      <3>4. CASE k # Cur
        <4>1. k \in 1 .. Cur - 1
          BY <1>1, <3>2, <3>4
        <4>2. log[k].rc \in {"zero", "error", "timeout"}
          BY <1>1, <3>2, <3>4 DEF Exclusive, Commands, Codes, Answers
        <4>3. CASE log[k].rc = "timeout"
          <5>1. LateTwin(Cur)
            BY <3>2, <4>1, <4>3 DEF LateTwin
          <5> QED BY <1>1, <1>2, <2>1, <2>2, <5>1
        <4>4. CASE log[k].rc # "timeout"
          <5>1. LateTwin(k)
            BY <3>2, <4>2, <4>4, <1>1 DEF Sourced
          <5>2. LateTwin(Cur)
            BY <1>1, <3>2, <4>1, <5>1 DEF LateTwin
          <5> QED BY <1>1, <1>2, <2>1, <2>2, <5>2
        <4> QED BY <4>3, <4>4
      <3> QED BY <3>3, <3>4
    <2> QED BY <1>1, <1>2, <2>1, <2>2 DEF Sourced, Busy
  <1>10. CASE WakeUp
    <2>1. /\ pc' = [x \in Caller |-> IF pc[x] = "sleep" THEN "check" ELSE pc[x]]
          /\ UNCHANGED <<owner, slot, log>>
      BY <1>10 DEF WakeUp
    <2>2. Ids' = Ids /\ Cur' = Cur /\ (Busy' <=> Busy)
          /\ (Busy => pc'[owner] = "read" <=> pc[owner] = "read")
      BY <1>1, <2>1 DEF Ids, Cur, Busy
    <2> QED BY <1>1, <1>2, <2>1, <2>2 DEF Sourced
  <1> QED
    BY <1>3, <1>4, <1>5, <1>6, <1>7, <1>8, <1>9, <1>10, StepCases

\* Every earlier command's answer is past the slot when none timed out.
LEMMA EarlierAreIn ==
  ASSUME CmdInv, NEW i \in Ids, ~Overdue(i), NEW j \in 1 .. i - 1, log[j].dsp \in Answers
  PROVE  log[j].seen /\ log[j].rc \in {"zero", "error"}
  <1>1. /\ j \in Ids /\ j # Cur /\ log[j] \in Commands /\ 1 .. j - 1 \subseteq 1 .. i - 1
    BY Typed DEF CmdInv, Ids, Cur
  <1>2. log[j].rc \in {"zero", "error"}
    BY <1>1 DEF CmdInv, Exclusive, Commands, Codes, Overdue, Answers
  <1>3. ~LateTwin(j)
    BY <1>1 DEF LateTwin, Overdue
  <1> QED BY <1>1, <1>2, <1>3 DEF CmdInv, Sourced

LEMMA KeptKept ==
  ASSUME CmdInv, [Next]_vars
  PROVE  Kept'
  <1>1. /\ Kept /\ Exclusive /\ Queued /\ None \notin Caller
        /\ \A i \in Ids : log[i] \in Commands /\ i # 0 /\ i \in Nat
        /\ Busy => Cur \in Ids
        /\ Cur \in Nat /\ Ids = 1 .. Cur
        /\ cb \in {"idle", "lock", "opcode", "status", "wake"}
    BY Typed DEF CmdInv, Exclusive, Busy, Ids, Cur
  <1>2. \A i \in Ids : ~Overdue(i)' => ~Overdue(i)
    BY Lasting
  <1>3. CASE \E c \in Caller, o \in Op : Call(c, o)
    <2>1. ~log'[Cur'].seen
      BY <1>3, CallDoes
    <2> QED BY <2>1 DEF Kept
  <1>4. CASE \E c \in Caller : SendGoes(c)
    <2>1. /\ Cur' = Cur /\ UNCHANGED <<slot, cb, rxq>> /\ Busy
          /\ log'[Cur].op = log[Cur].op /\ (log'[Cur].seen <=> log[Cur].seen)
      BY <1>4, SendDoes
    <2> QED BY <1>1, <1>2, <2>1 DEF Kept
  <1>5. CASE \E c \in Caller, rc \in Codes \ {"pending"} : Returns(c, rc)
    <2>1. ~Busy'
      BY <1>5, ReturnDoes DEF Returns
    <2> QED BY <2>1 DEF Kept
  <1>6. CASE \/ \E c \in Caller, to \in {"read", "sleep"} : Looks(c, to)
             \/ UNCHANGED vars
    <2>1. UNCHANGED <<owner, slot, rxq, cb, log>>
      BY <1>6 DEF Looks, vars
    <2>2. Cur' = Cur /\ (Busy' <=> Busy)
      BY <2>1 DEF Cur, Busy
    <2> QED BY <1>1, <1>2, <2>1, <2>2 DEF Kept
  <1>7. CASE \E k \in Ids, st \in Answers : Answer(k, st)
    <2>1. PICK k \in Ids, st \in Answers : Answer(k, st)
      BY <1>7
    <2>2. /\ Cur' = Cur /\ UNCHANGED <<owner, slot, cb>> /\ (Busy' <=> Busy)
          /\ \A i \in Ids : log'[i].op = log[i].op /\ (log'[i].seen <=> log[i].seen)
          /\ rxq # <<>> => rxq'[1].id = rxq[1].id
          /\ rxq = <<>> => cb = "idle"
      <3>1. rxq # <<>> => 1 \in 1 .. Len(rxq)
        BY HeadIs
      <3> QED BY <1>1, <2>1, <3>1, AnswerDoes DEF Busy, Queued
    <2> QED BY <1>1, <1>2, <2>2 DEF Kept
  <1>8. CASE \E st \in Answers : Complete(st)
    <2>1. PICK st \in Answers : Complete(st)
      BY <1>8
    <2>2. /\ UNCHANGED <<owner, slot, cb, log>>
          /\ rxq # <<>> => rxq'[1].id = rxq[1].id
          /\ rxq = <<>> => cb = "idle"
      <3>1. rxq # <<>> => 1 \in 1 .. Len(rxq)
        BY HeadIs
      <3> QED BY <1>1, <2>1, <3>1, CompleteDoes DEF Queued
    <2>3. Cur' = Cur /\ (Busy' <=> Busy)
      BY <2>2 DEF Cur, Busy
    <2> QED BY <1>1, <1>2, <2>2, <2>3 DEF Kept
  <1>9. CASE Receive
    <2>1. /\ UNCHANGED <<owner, slot, rxq, log>>
          /\ rxq[1].id = 0 => cb' = "lock"
      BY <1>9, HeadIs DEF Receive
    <2>2. Cur' = Cur /\ (Busy' <=> Busy)
      BY <2>1 DEF Cur, Busy
    <2> QED BY <1>1, <1>2, <2>1, <2>2 DEF Kept
  <1>10. CASE LookUp
    <2>1. ~Busy'
      BY <1>10 DEF LookUp, Busy
    <2> QED BY <2>1 DEF Kept
  <1>11. CASE StoreOpcode
    <2>1. /\ rxq # <<>> /\ cb = "opcode" /\ slot'.op = rxq[1].op /\ Cur' = Cur /\ Ids' = Ids
          /\ \A i \in Ids : /\ i # rxq[1].id => log'[i] = log[i]
                            /\ log'[i].op = log[i].op
          /\ rxq[1].id # 0 => ~log[rxq[1].id].seen
          /\ UNCHANGED <<owner, rxq>> /\ (Busy' <=> Busy)
      BY <1>11, StoreOpcodeDoes DEF Busy
    <2>2. ASSUME Busy, log'[Cur].seen, ~Overdue(Cur), rxq[1].id # Cur
          PROVE  FALSE
      <3>1. log[Cur].seen /\ Cur \in Ids
        BY <1>1, <2>1, <2>2
      <3>2. CASE rxq[1].id = 0
        BY <1>1, <2>1, <2>2, <3>1, <3>2 DEF Kept
      <3>3. CASE rxq[1].id # 0
        <4>1. rxq[1].id \in 1 .. Cur - 1 /\ log[rxq[1].id].dsp \in Answers
          BY <1>1, <2>1, <2>2, <3>3, HeadIs DEF Arrivals
        <4> QED BY <2>1, <2>2, <3>1, <3>3, <4>1, EarlierAreIn
      <3> QED BY <3>2, <3>3
    <2>3. rxq[1].id = Cur => rxq[1].op = log[Cur].op \/ Cur = 0
      BY <2>1, HeadIs
    <2>4. ASSUME Busy, log'[Cur].seen, rxq[1].id = 0
          PROVE  FALSE
      BY <1>1, <2>1, <2>4 DEF Kept
    <2> QED BY <1>1, <1>2, <2>1, <2>2, <2>3, <2>4 DEF Kept
  <1>12. CASE StoreStatus
    <2>1. UNCHANGED <<owner, log>> /\ slot'.op = slot.op
          /\ (cb' = "idle" \/ (rxq[1].id # 0 /\ UNCHANGED rxq))
      BY <1>12, StoreStatusDoes
    <2>2. Cur' = Cur /\ (Busy' <=> Busy)
      BY <2>1 DEF Cur, Busy
    <2> QED BY <1>1, <1>2, <2>1, <2>2 DEF Kept
  <1>13. CASE WakeUp
    <2>1. UNCHANGED <<owner, slot, log>> /\ cb' = "idle"
      BY <1>13 DEF WakeUp
    <2>2. Cur' = Cur /\ (Busy' <=> Busy)
      BY <2>1 DEF Cur, Busy
    <2> QED BY <1>1, <1>2, <2>1, <2>2 DEF Kept
  <1> QED
    BY <1>3, <1>4, <1>5, <1>6, <1>7, <1>8, <1>9, <1>10, <1>11, <1>12, <1>13, StepCases

\* The error in the slot, and those that were returned.
LEMMA RealKept ==
  ASSUME CmdInv, [Next]_vars
  PROVE  Real'
  <1>1. /\ Real /\ Exclusive /\ Queued /\ None \notin Caller
        /\ \A i \in Ids : log[i] \in Commands /\ i # 0 /\ i \in Nat
        /\ Busy => Cur \in Ids
        /\ Cur \in Nat /\ Ids = 1 .. Cur
    BY Typed DEF CmdInv, Exclusive, Busy, Ids, Cur
  <1>2. \A i \in Ids : Clean(i)' => Clean(i)
    BY Lasting
  <1>3. CASE \E c \in Caller, o \in Op : Call(c, o)
    <2>1. /\ slot'.st = "ok" /\ UNCHANGED <<cb, rxq>>
          /\ \A i \in Ids : log'[i] = log[i] /\ i # Cur + 1 /\ i \in Ids'
          /\ \A i \in Ids' : i \in Ids \/ i = Cur + 1
          /\ log'[Cur + 1].rc = "pending"
      BY <1>3, CallDoes DEF Empty
    <2> QED BY <1>1, <1>2, <2>1 DEF Real, Stored
  <1>4. CASE \E c \in Caller : SendGoes(c)
    <2>1. /\ Cur' = Cur /\ Ids' = Ids /\ UNCHANGED <<slot, cb, rxq>> /\ Busy
          /\ log[Cur].dsp = "unsent"
          /\ \A i \in Ids : /\ i # Cur => log'[i].dsp = log[i].dsp
                            /\ log'[i].rc = log[i].rc /\ (log'[i].seen <=> log[i].seen)
      BY <1>4, SendDoes
    <2> QED BY <1>1, <1>2, <2>1 DEF Real, Stored
  <1>5. CASE \E c \in Caller, rc \in Codes \ {"pending"} : Returns(c, rc)
    <2>1. PICK c \in Caller, rc \in Codes \ {"pending"} : Returns(c, rc)
      BY <1>5
    <2>2. /\ pc[c] # "idle" /\ Return(c, rc) /\ UNCHANGED <<cb, rxq>>
          /\ rc = "error" => slot.st = "error"
      BY <2>1 DEF Returns
    <2>3. /\ Busy /\ Cur \in Ids /\ ~Busy' /\ Cur' = Cur /\ Ids' = Ids
          /\ \A i \in Ids : /\ i # Cur => log'[i].rc = log[i].rc
                            /\ log'[i].dsp = log[i].dsp /\ (log'[i].seen <=> log[i].seen)
          /\ log'[Cur].rc = rc
      BY <2>2, ReturnDoes
    <2> QED BY <1>1, <1>2, <2>2, <2>3 DEF Real, Stored
  <1>6. CASE \/ \E c \in Caller, to \in {"read", "sleep"} : Looks(c, to)
             \/ UNCHANGED vars
    <2>1. UNCHANGED <<owner, slot, rxq, cb, log>>
      BY <1>6 DEF Looks, vars
    <2>2. Cur' = Cur /\ Ids' = Ids /\ (Busy' <=> Busy)
      BY <2>1 DEF Cur, Ids, Busy
    <2> QED BY <1>1, <1>2, <2>1, <2>2 DEF Real, Stored
  <1>7. CASE \E k \in Ids, st \in Answers : Answer(k, st)
    <2>1. PICK k \in Ids, st \in Answers : Answer(k, st)
      BY <1>7
    <2>2. /\ Cur' = Cur /\ Ids' = Ids /\ UNCHANGED <<owner, slot, cb>> /\ (Busy' <=> Busy)
          /\ log[k].dsp = "none"
          /\ \A i \in Ids : /\ i # k => log'[i].dsp = log[i].dsp
                            /\ log'[i].rc = log[i].rc /\ (log'[i].seen <=> log[i].seen)
          /\ cb = "status" => rxq'[1].id = rxq[1].id
      <3>1. rxq # <<>> => 1 \in 1 .. Len(rxq)
        BY HeadIs
      <3> QED BY <1>1, <2>1, <3>1, AnswerDoes DEF Busy, Queued
    <2> QED BY <1>1, <1>2, <2>2 DEF Real, Stored
  <1>8. CASE \E st \in Answers : Complete(st)
    <2>1. comps' > 0
      BY <1>8, CompleteDoes
    <2> QED BY <2>1 DEF Real, Clean
  <1>9. CASE Receive \/ LookUp
    <2>1. UNCHANGED <<owner, slot, log, comps>> /\ cb' # "status"
      BY <1>9 DEF Receive, LookUp
    <2>2. Cur' = Cur /\ Ids' = Ids /\ (Busy' <=> Busy)
      BY <2>1 DEF Cur, Ids, Busy
    <2> QED BY <1>1, <1>2, <2>1, <2>2 DEF Real, Stored
  <1>10. CASE StoreOpcode
    <2>1. /\ rxq # <<>> /\ slot'.st = slot.st /\ Cur' = Cur /\ Ids' = Ids
          /\ \A i \in Ids : log'[i].dsp = log[i].dsp /\ log'[i].rc = log[i].rc
          /\ rxq[1].id # 0 => ~log[rxq[1].id].seen
          /\ UNCHANGED <<owner, rxq>> /\ (Busy' <=> Busy)
      BY <1>10, StoreOpcodeDoes DEF Busy
    <2>2. \A i \in Ids : log[i].seen => log'[i].seen /\ i # rxq[1].id
      BY <1>1, <2>1, Grows
    <2> QED BY <1>1, <1>2, <2>1, <2>2 DEF Real, Stored
  <1>11. CASE StoreStatus
    <2>1. /\ cb = "status" /\ rxq # <<>>
          /\ slot'.st = "error" => rxq[1].st = "error"
          /\ cb' # "status" /\ UNCHANGED <<owner, log, comps>>
          /\ Cur' = Cur /\ Ids' = Ids /\ (Busy' <=> Busy)
      BY <1>11, StoreStatusDoes DEF Busy, Ids, Cur
    <2>2. ASSUME Busy, Clean(Cur), rxq[1].st = "error"
          PROVE  log[Cur].dsp = "error" /\ log[Cur].seen
      <3> DEFINE k == rxq[1].id
      <3>1. k # 0
        BY <2>1, <2>2, HeadIs DEF Clean
      <3>2. k \in Ids /\ log[k].dsp = "error" /\ log[k].seen
        BY <2>1, <2>2, <3>1, HeadIs DEF InSlot
      <3>3. ASSUME k # Cur  PROVE FALSE
        <4>1. k \in 1 .. Cur - 1 /\ Cur \in Ids /\ 1 .. k - 1 \subseteq 1 .. Cur - 1
          BY <1>1, <2>2, <3>2, <3>3
        <4>2. log[k].rc \in {"zero", "error"}
          BY <2>2, <3>2, <4>1, EarlierAreIn DEF Clean, Answers
        <4>3. log[k].rc = "error"
          BY <2>2, <3>2, <4>1, <4>2 DEF Clean, Misread
        <4>4. Clean(k)
          BY <2>2, <4>1 DEF Clean, Misread, Overdue
        <4> QED BY <1>1, <2>1, <3>2, <4>3, <4>4 DEF Real, Stored
      <3> QED BY <3>2, <3>3
    <2> QED BY <1>1, <1>2, <2>1, <2>2 DEF Real, Stored
  <1>12. CASE WakeUp
    <2>1. UNCHANGED <<owner, slot, log>> /\ cb' = "idle"
      BY <1>12 DEF WakeUp
    <2>2. Cur' = Cur /\ Ids' = Ids /\ (Busy' <=> Busy)
      BY <2>1 DEF Cur, Ids, Busy
    <2> QED BY <1>1, <1>2, <2>1, <2>2 DEF Real, Stored
  <1> QED
    BY <1>3, <1>4, <1>5, <1>6, <1>7, <1>8, <1>9, <1>10, <1>11, <1>12, StepCases

-----------------------------------------------------------------------------
\* The theorems.

LEMMA CmdInvInit ==
  ASSUME Init
  PROVE  CmdInv
  <1>1. /\ owner = None /\ slot = Empty /\ pc = [c \in Caller |-> "idle"] /\ rxq = <<>>
        /\ cb = "idle" /\ log = <<>> /\ comps = 0 /\ None \notin Caller /\ MaxData \in Nat
    BY ChannelAssumption DEF Init
  <1>2. TypeOK
    BY <1>1 DEF TypeOK, Empty
  <1>3. ~Busy /\ Ids = {} /\ Len(rxq) = 0
    BY <1>1 DEF Busy, Ids
  <1> QED
    BY <1>1, <1>2, <1>3 DEF CmdInv, Exclusive, Queued, Sourced, Kept, Real

LEMMA CmdInvNext ==
  ASSUME CmdInv, [Next]_vars
  PROVE  CmdInv'
  BY TypeKept, ExclusiveKept, QueuedKept, SourcedKept, KeptKept, RealKept DEF CmdInv

LEMMA CmdInvReal ==
  ASSUME CmdInv
  PROVE  ResultIsReal
  <1>1. \A i \in Ids : log[i].seen => log[i].dsp # "none"
    BY DEF CmdInv, Exclusive, Answers
  <1>2. ErrorIsReal
    BY DEF CmdInv, Real, Clean, Stored, ErrorIsReal
  <1>3. StaleOnlySameOp
    BY <1>1 DEF CmdInv, Sourced, LateTwin, StaleOnlySameOp
  <1> QED BY <1>2, <1>3 DEF ResultIsReal

\* Only the function's return with a timeout makes a pending command one
\* that timed out, and it does so on an opcode that is not the command's.
LEMMA TimeoutReal ==
  ASSUME CmdInv, [Next]_vars
  PROVE  TimeoutIsReal
  <1> SUFFICES ASSUME NEW i \in Ids, log[i].rc = "pending", log'[i].rc = "timeout", ~Overdue(i)
               PROVE  ~log[i].seen
    BY DEF TimeoutIsReal
  <1>1. i = Cur /\ Busy
    BY DEF CmdInv, Exclusive
  <1>2. CASE \E c \in Caller, rc \in Codes \ {"pending"} : Returns(c, rc)
    <2>1. PICK c \in Caller, rc \in Codes \ {"pending"} : Returns(c, rc)
      BY <1>2
    <2>2. log'[Cur].rc = rc
      BY <2>1, ReturnDoes DEF Returns
    <2>3. slot.op # log[Cur].op
      BY <1>1, <2>1, <2>2 DEF Returns
    <2> QED BY <1>1, <2>3 DEF CmdInv, Kept
  <1>3. CASE \/ \E c \in Caller, o \in Op : Call(c, o)
             \/ \E c \in Caller : SendGoes(c)
             \/ \E k \in Ids, st \in Answers : Answer(k, st)
             \/ StoreOpcode
    <2>1. log'[i].rc = log[i].rc
      BY <1>3, CallDoes, SendDoes, AnswerDoes, StoreOpcodeDoes
    <2> QED BY <2>1
  <1>4. CASE \/ \E c \in Caller, to \in {"read", "sleep"} : Looks(c, to)
             \/ \E st \in Answers : Complete(st)
             \/ Receive \/ LookUp \/ StoreStatus \/ WakeUp \/ UNCHANGED vars
    <2>1. log' = log
      BY <1>4, CompleteDoes, StoreStatusDoes DEF Looks, Receive, LookUp, WakeUp, vars
    <2> QED BY <2>1
  <1> QED BY <1>2, <1>3, <1>4, StepCases

\* The command channel keeps its inductive invariant: one command at a
\* time, packets that are answers, and a slot whose opcode and error come
\* from where a waiter thinks (audioreach_send_cmd_sync, graph_callback).
THEOREM ChannelInvCorrect == Spec => []CmdInv
  <1>1. CmdInv /\ [Next]_vars => CmdInv'
    BY CmdInvNext
  <1> QED BY <1>1, CmdInvInit, PTL DEF Spec

\* What audioreach_send_cmd_sync returns is real, for any threads, opcodes
\* and number of commands: an error is the DSP's answer to that command, a
\* result without an answer an earlier twin's that timed out, and a
\* timeout is a command's whose answer never reached the slot.
THEOREM AnswersRealCorrect == Spec => AnswersAreReal
  <1>1. CmdInv /\ CmdInv' /\ [Next]_vars => [ResultIsReal' /\ TimeoutIsReal]_vars
    <2>1. CmdInv' => ResultIsReal'
      BY CmdInvReal, PTL
    <2> QED BY <2>1, TimeoutReal
  <1> QED BY <1>1, ChannelInvCorrect, PTL DEF Spec, AnswersAreReal

-----------------------------------------------------------------------------
\* The pause.

\* What the host makes of a pause.  Left: a pause the host knows of has
\* made the stream deaf, unless a STOP failed to release it.  Settled:
\* between triggers, a stream that ALSA prepares or runs hears, and so
\* does one that could not be paused.  Called: in which ALSA state a
\* trigger runs, and what it has already done.
PauseLeft ==
  softPaused => supported
    /\ ("stop" \notin lost => alsa \in {"RUNNING", "PAUSED"} /\ state = "STOPPED")

PauseSettled ==
  /\ alsa = "PREPARED" => state = "RUNNING"
  /\ alsa = "RUNNING" /\ "undo" \notin lost => state = "RUNNING"
  /\ alsa = "PAUSED" /\ ~softPaused => state = "RUNNING"

PauseFrom(c) == CASE c = "push" -> {"RUNNING"} [] c = "release" -> {"PAUSED"}
             [] OTHER -> {"RUNNING", "PAUSED"}
PauseUndone(c) == CASE c = "push" -> {"PAUSED"} [] c = "release" -> {"RUNNING"} [] OTHER -> {}

PauseCalled ==
  /\ alsa \in IF undo THEN PauseUndone(order) ELSE PauseFrom(order)
  /\ undo \/ at \in {"answer", "wait"} => supported
  /\ at = "enter" => IF undo THEN alsa = "RUNNING" /\ ~softPaused => state = "RUNNING"
                             ELSE PauseSettled
  /\ at # "enter" => /\ (softPaused = Pause!Pausing) = (at = "wait")
                     /\ Pause!Pausing => state = "STOPPED"

PauseHost == PauseLeft /\ IF at = "idle" THEN PauseSettled ELSE PauseCalled

\* The model bound holds for the command and for the one that undoes it.
PauseRoom ==
  /\ at \in {"enter", "send"} => sent + (IF undo THEN 1 ELSE 2) <= MaxPauses
  /\ at \in {"answer", "wait"} => sent + (IF undo THEN 0 ELSE 1) <= MaxPauses

\* Commands, answers and events are of commands that were sent.
PauseNumbered ==
  /\ \A m \in pending \cup owed : m.id <= sent
  /\ \A i \in 1 .. Len(rx) : rx[i].id <= sent

\* Until an answer is late, the command the trigger waits for is the only
\* one under way, is answered once, and changes the DSP by being accepted.
PauseAnswer(p, n) == p.id = n /\ p.ev \in {"ok", "rejected"}
PauseUnanswered == \A i \in 1 .. Len(rx) : ~PauseAnswer(rx[i], sent)
PauseMode(p) == IF p THEN "paused" ELSE "run"
PauseTold(e, c, p) == PauseMode(IF e = "ok" THEN c = "push" ELSE p)

PauseFollowed ==
  IF at # "answer"
  THEN pending = {} /\ dsp = PauseMode(softPaused) /\ PauseUnanswered
  ELSE \/ /\ pending = {[id |-> sent, cmd |-> order]} /\ ans = "none"
          /\ PauseUnanswered /\ dsp = PauseMode(softPaused)
       \/ /\ pending = {} /\ ans = "none"
          /\ \E i \in 1 .. Len(rx) :
               /\ PauseAnswer(rx[i], sent) /\ dsp = PauseTold(rx[i].ev, order, softPaused)
               /\ \A j \in 1 .. Len(rx) : PauseAnswer(rx[j], sent) => j = i
       \/ /\ pending = {} /\ ans # "none"
          /\ PauseUnanswered /\ dsp = PauseTold(ans, order, softPaused)

PauseInv ==
  Pause!TypeOK /\ PauseRoom /\ PauseNumbered /\ PauseHost /\ ("answer" \notin lost => PauseFollowed)

-----------------------------------------------------------------------------
\* The queue of the worker.
PausePacket == [ev : {"mark", "ok", "rejected", "paused", "resumed"}, id : 0 .. MaxPauses]

LEMMA PauseQueued ==
  ASSUME NEW s \in Seq(PausePacket), NEW p \in PausePacket
  PROVE  /\ Append(s, p) \in Seq(PausePacket) /\ Len(s) \in Nat /\ Len(Append(s, p)) = Len(s) + 1
         /\ \A i \in 1 .. Len(s) : Append(s, p)[i] = s[i]
         /\ Append(s, p)[Len(s) + 1] = p
OBVIOUS

LEMMA PauseTaken ==
  ASSUME NEW s \in Seq(PausePacket), s # <<>>
  PROVE  /\ Tail(s) \in Seq(PausePacket) /\ Len(s) \in Nat \ {0} /\ Len(Tail(s)) = Len(s) - 1
         /\ \A i \in 1 .. Len(s) - 1 : Tail(s)[i] = s[i + 1]
         /\ Head(s) = s[1] /\ s[1] \in PausePacket
OBVIOUS

LEMMA PauseLengths ==
  ASSUME NEW s \in Seq(PausePacket)
  PROVE  Len(s) \in Nat /\ \A i \in 1 .. Len(s) : s[i] \in PausePacket
OBVIOUS

\* A trigger's end, without the CASEs.
LEMMA PauseReturned ==
  ASSUME NEW ok \in BOOLEAN, Pause!Return(ok), Pause!TypeOK
  PROVE  /\ ok \/ undo \/ order = "stop" =>
              /\ at' = "idle" /\ inWorker' = FALSE /\ UNCHANGED <<order, undo>>
         /\ undo => alsa' = alsa
         /\ ~undo /\ order = "stop" => alsa' = "SETUP"
         /\ ~undo /\ ok /\ order = "push" => alsa' = "PAUSED"
         /\ ~undo /\ ok /\ order = "release" => alsa' = "RUNNING"
         /\ ~ok /\ ~undo /\ order # "stop" =>
              /\ alsa' = alsa /\ at' = "enter" /\ undo' = TRUE /\ inWorker' = inWorker
              /\ order = "push" => order' = "release"
              /\ order = "release" => order' = "push"
BY DEF Pause!Return, Pause!Reached, Pause!TypeOK

-----------------------------------------------------------------------------
\* Typing.

LEMMA PauseReturnTyped ==
  ASSUME NEW ok \in BOOLEAN, Pause!Return(ok), Pause!TypeOK
  PROVE  /\ alsa' \in {"PREPARED", "RUNNING", "PAUSED", "SETUP"} /\ at' \in {"idle", "enter"}
         /\ order' \in {"push", "release", "stop"} /\ undo' \in BOOLEAN /\ inWorker' \in BOOLEAN
         /\ at' = "enter" => ~ok /\ ~undo /\ undo'
BY PauseReturned DEF Pause!TypeOK

LEMMA PauseTypedRoom ==
  ASSUME Pause!SoftPauseAssumption, Pause!TypeOK, PauseRoom, [Pause!Next]_Pause!vars
  PROVE  Pause!TypeOK' /\ PauseRoom'
  <1> USE DEF Pause!SoftPauseAssumption
  <1>0. sent \in Nat /\ MaxPauses \in Nat
    BY DEF Pause!TypeOK
  <1>1. CASE Pause!User
    <2>1. sent + 2 <= MaxPauses /\ at' = "enter" /\ undo' = FALSE /\ sent' = sent
      BY <1>1 DEF Pause!User, Pause!Pause, Pause!Release, Pause!Stop, Pause!Call
    <2>2. PauseRoom'
      BY <2>1 DEF PauseRoom
    <2>3. Pause!TypeOK'
      BY <1>1 DEF Pause!User, Pause!Pause, Pause!Release, Pause!Stop, Pause!Call, Pause!host,
         Pause!remote, Pause!TypeOK
    <2> QED BY <2>2, <2>3
  <1>2. CASE Pause!Start \/ Pause!Prepare
    <2>1. alsa' \in {"RUNNING", "PREPARED"} /\ state' \in {"RUNNING", state} /\ at = "idle"
      BY <1>2 DEF Pause!Start, Pause!Prepare
    <2>2. /\ UNCHANGED <<softPaused, done, at, order, undo, inWorker, worker, rx, sent>>
          /\ UNCHANGED <<pending, owed, dsp, ans, supported, lost>>
      BY <1>2 DEF Pause!Start, Pause!Prepare, Pause!call, Pause!remote
    <2>3. Pause!TypeOK'
      BY <2>1, <2>2 DEF Pause!TypeOK
    <2> QED BY <2>1, <2>2, <2>3 DEF PauseRoom
  <1>3. CASE Pause!Enter
    <2>1. CASE softPaused = Pause!Pausing
      <3>1. /\ Pause!Return(TRUE) /\ Pause!Stopped
            /\ UNCHANGED <<done, softPaused, worker, rx, sent, Pause!remote, ans, supported, lost>>
        BY <1>3, <2>1 DEF Pause!Enter
      <3>2. at' = "idle" /\ state' \in {"RUNNING", "STOPPED"}
        BY <3>1, PauseReturned DEF Pause!Stopped, Pause!TypeOK
      <3>3. Pause!TypeOK'
        BY <3>1, <3>2, PauseReturnTyped DEF Pause!TypeOK, Pause!remote
      <3> QED BY <3>2, <3>3 DEF PauseRoom
    <2>2. CASE softPaused # Pause!Pausing
      <3>1. /\ at = "enter" /\ at' = "send" /\ state' \in {"RUNNING", "STOPPED"}
            /\ done' \subseteq {"paused", "resumed"}
        BY <1>3, <2>2 DEF Pause!Enter, Pause!TypeOK
      <3>2. /\ UNCHANGED <<alsa, order, undo, inWorker, softPaused, worker, rx, sent>>
            /\ UNCHANGED <<pending, owed, dsp, ans, supported, lost>>
        BY <1>3, <2>2 DEF Pause!Enter, Pause!call, Pause!remote
      <3>3. Pause!TypeOK'
        BY <3>1, <3>2 DEF Pause!TypeOK
      <3> QED BY <3>1, <3>2, <3>3 DEF PauseRoom
    <2> QED BY <2>1, <2>2
  <1>4. CASE Pause!Send
    <2>1. /\ at = "send" /\ at' = "answer" /\ sent' = sent + 1 /\ ans' = "none"
          /\ pending' = pending \cup {[id |-> sent + 1, cmd |-> order]}
          /\ UNCHANGED <<Pause!host, done, Pause!call, worker, rx, owed, dsp, supported, lost>>
      BY <1>4 DEF Pause!Send
    <2>2. sent + (IF undo THEN 1 ELSE 2) <= MaxPauses
      BY <2>1 DEF PauseRoom
    <2>3. sent + 1 \in 1 .. MaxPauses
      BY <1>0, <2>2
    <2>4. [id |-> sent + 1, cmd |-> order] \in Pause!Command
      BY <2>3 DEF Pause!Command, Pause!TypeOK
    <2>5. PauseRoom'
      BY <1>0, <2>1, <2>2 DEF PauseRoom, Pause!call
    <2>6. Pause!TypeOK'
      BY <2>1, <2>3, <2>4 DEF Pause!TypeOK, Pause!host, Pause!call
    <2> QED BY <2>5, <2>6
  <1>5. CASE Pause!Unsupported
    <2>1. Pause!Return(TRUE) /\ UNCHANGED <<softPaused, done, worker, rx, sent, Pause!remote, ans, supported, lost>>
      BY <1>5 DEF Pause!Unsupported
    <2>2. state' \in {"RUNNING", "STOPPED"}
      BY <1>5 DEF Pause!Unsupported, Pause!TypeOK
    <2>3. at' = "idle"
      BY <2>1, PauseReturned
    <2>4. Pause!TypeOK'
      BY <2>1, <2>2, PauseReturnTyped DEF Pause!TypeOK, Pause!remote
    <2> QED BY <2>3, <2>4 DEF PauseRoom
  <1>6. CASE Pause!Accepted
    BY <1>6 DEF Pause!Accepted, Pause!Pausing, Pause!TypeOK, PauseRoom, Pause!call, Pause!remote
  <1>7. CASE Pause!Rejected \/ Pause!AnswerTimeout
    <2>1. /\ Pause!Return(FALSE) /\ at = "answer"
          /\ UNCHANGED <<softPaused, done, worker, rx, sent, Pause!remote, ans, supported>>
      BY <1>7 DEF Pause!Rejected, Pause!AnswerTimeout, Pause!Refused
    <2>2. state' \in {"RUNNING", "STOPPED"}
      BY <1>7 DEF Pause!Rejected, Pause!AnswerTimeout, Pause!Refused, Pause!TypeOK
    <2>3. lost' \subseteq {"answer", "undo", "stop"}
      BY <1>7 DEF Pause!Rejected, Pause!AnswerTimeout, Pause!Failed, Pause!TypeOK
    <2>4. PauseRoom'
      BY <1>0, <2>1, PauseReturnTyped DEF PauseRoom
    <2>5. Pause!TypeOK'
      BY <2>1, <2>2, <2>3, PauseReturnTyped DEF Pause!TypeOK, Pause!remote
    <2> QED BY <2>4, <2>5
  <1>8. CASE Pause!Completed
    <2>1. Pause!Return(TRUE) /\ UNCHANGED <<done, worker, rx, sent, Pause!remote, ans, supported, lost>>
      BY <1>8 DEF Pause!Completed
    <2>2. state' \in {"RUNNING", "STOPPED"} /\ softPaused' \in BOOLEAN
      BY <1>8 DEF Pause!Completed, Pause!Pausing
    <2>3. at' = "idle"
      BY <2>1, PauseReturned
    <2>4. Pause!TypeOK'
      BY <2>1, <2>2, PauseReturnTyped DEF Pause!TypeOK, Pause!remote
    <2> QED BY <2>3, <2>4 DEF PauseRoom
  <1>9. CASE Pause!DoneTimeout
    <2>1. /\ Pause!Return(FALSE) /\ at = "wait"
          /\ UNCHANGED <<softPaused, done, worker, rx, sent, Pause!remote, ans, supported>>
      BY <1>9 DEF Pause!DoneTimeout
    <2>2. state' \in {"RUNNING", "STOPPED"}
      BY <1>9 DEF Pause!DoneTimeout, Pause!Stopped, Pause!TypeOK
    <2>3. lost' \subseteq {"answer", "undo", "stop"}
      BY <1>9 DEF Pause!DoneTimeout, Pause!Failed, Pause!TypeOK
    <2>4. PauseRoom'
      BY <1>0, <2>1, PauseReturnTyped DEF PauseRoom
    <2>5. Pause!TypeOK'
      BY <2>1, <2>2, <2>3, PauseReturnTyped DEF Pause!TypeOK, Pause!remote
    <2> QED BY <2>4, <2>5
  <1>10. CASE Pause!Dsp
    <2>1. PICK m \in pending \cup owed :
            (m \in pending /\ (Pause!Accept(m) \/ Pause!Reject(m))) \/ (m \in owed /\ Pause!RampDone(m))
      BY <1>10 DEF Pause!Dsp
    <2>2. UNCHANGED <<Pause!host, done, at, Pause!call, worker, sent, ans, supported, lost>>
      BY <1>10 DEF Pause!Dsp
    <2>3. m \in Pause!Command
      BY DEF Pause!TypeOK
    <2>4. m.id \in 0 .. MaxPauses
      BY <2>3 DEF Pause!Command
    <2>5. \E p \in PausePacket : rx' = Append(rx, p)
      <3>1. \A e \in {"ok", "rejected", Pause!Event(m.cmd)} : [ev |-> e, id |-> m.id] \in PausePacket
        BY <2>4 DEF PausePacket, Pause!Event
      <3> QED BY <2>1, <3>1 DEF Pause!Accept, Pause!Reject, Pause!RampDone
    <2>6. rx' \in Seq(PausePacket)
      BY <2>5, PauseQueued DEF Pause!TypeOK, PausePacket
    <2>7. pending' \subseteq Pause!Command /\ owed' \subseteq Pause!Command /\ dsp' \in {"run", "paused"}
      BY <2>1, <2>3 DEF Pause!Accept, Pause!Reject, Pause!RampDone, Pause!TypeOK
    <2>8. Pause!TypeOK'
      BY <2>2, <2>6, <2>7 DEF Pause!TypeOK, PausePacket, Pause!host, Pause!call
    <2> QED BY <2>2, <2>8 DEF PauseRoom, Pause!call
  <1>11. CASE Pause!Watermark
    <2>1. rx' = Append(rx, [ev |-> "mark", id |-> 0])
      BY <1>11 DEF Pause!Watermark
    <2>2. [ev |-> "mark", id |-> 0] \in PausePacket
      BY DEF PausePacket
    <2>3. rx' \in Seq(PausePacket)
      BY <2>1, <2>2, PauseQueued DEF Pause!TypeOK, PausePacket
    <2> QED BY <1>11, <2>3 DEF Pause!Watermark, Pause!TypeOK, PausePacket, PauseRoom,
                Pause!host, Pause!call, Pause!remote
  <1>12. CASE Pause!Deliver
    <2>1. rx \in Seq(PausePacket) /\ rx # <<>> /\ rx' = Tail(rx)
      BY <1>12 DEF Pause!Deliver, Pause!TypeOK, PausePacket
    <2>2. rx' \in Seq(PausePacket) /\ Head(rx) \in PausePacket
      BY <2>1, PauseTaken
    <2>3. /\ worker' \in {"idle", "elapse"} /\ done' \subseteq {"paused", "resumed"}
          /\ ans' \in {"none", "ok", "rejected"}
      BY <1>12, <2>2 DEF Pause!Deliver, Pause!TypeOK
    <2> QED BY <1>12, <2>2, <2>3 DEF Pause!Deliver, Pause!TypeOK, PausePacket, PauseRoom,
                Pause!host, Pause!call, Pause!remote
  <1>13. CASE Pause!Elapse
    <2>1. \/ UNCHANGED <<at, Pause!call>>
          \/ /\ sent + 2 <= MaxPauses /\ at' = "enter" /\ undo' = FALSE /\ order' = "stop"
             /\ inWorker' = TRUE
      BY <1>13 DEF Pause!Elapse, Pause!Call
    <2>2. /\ UNCHANGED <<alsa, state, softPaused, done, rx, sent>> /\ worker' = "idle"
          /\ UNCHANGED <<pending, owed, dsp, ans, supported, lost>>
      BY <1>13 DEF Pause!Elapse, Pause!host, Pause!remote
    <2>3. PauseRoom'
      BY <2>1, <2>2 DEF PauseRoom, Pause!call
    <2>5. /\ at' \in {"idle", "enter", "send", "answer", "wait"}
          /\ order' \in {"push", "release", "stop"} /\ undo' \in BOOLEAN /\ inWorker' \in BOOLEAN
          /\ worker' \in {"idle", "elapse"}
      BY <2>1, <2>2 DEF Pause!call, Pause!TypeOK
    <2>4. Pause!TypeOK'
      BY <2>2, <2>5 DEF Pause!TypeOK
    <2> QED BY <2>3, <2>4
  <1>14. CASE UNCHANGED Pause!vars
    BY <1>14 DEF Pause!vars, Pause!TypeOK, PauseRoom
  <1> QED BY <1>1, <1>2, <1>3, <1>4, <1>5, <1>6, <1>7, <1>8, <1>9, <1>10, <1>11, <1>12,
              <1>13, <1>14 DEF Pause!Next, Pause!Trigger, Pause!Timeout

-----------------------------------------------------------------------------
\* What is under way was sent.
LEMMA PauseAppendNumbered ==
  ASSUME Pause!SoftPauseAssumption, Pause!TypeOK, PauseNumbered, NEW p \in PausePacket,
         rx' = Append(rx, p), p.id <= sent
  PROVE  \A i \in 1 .. Len(rx') : rx'[i].id <= sent
  <1>1. rx \in Seq(PausePacket)
    BY DEF Pause!TypeOK, PausePacket
  <1>2. /\ Len(rx) \in Nat /\ Len(rx') = Len(rx) + 1 /\ rx'[Len(rx) + 1] = p
        /\ \A i \in 1 .. Len(rx) : rx'[i] = rx[i]
    BY <1>1, PauseQueued
  <1> QED BY <1>2 DEF PauseNumbered

LEMMA PauseNumberedKept ==
  ASSUME Pause!SoftPauseAssumption, Pause!TypeOK, PauseNumbered, [Pause!Next]_Pause!vars
  PROVE  PauseNumbered'
  <1>0. sent \in Nat
    BY DEF Pause!TypeOK, Pause!SoftPauseAssumption
  <1>1. CASE Pause!Send
    <2>1. /\ sent' = sent + 1 /\ rx' = rx /\ owed' = owed
          /\ pending' = pending \cup {[id |-> sent + 1, cmd |-> order]}
      BY <1>1 DEF Pause!Send
    <2>2. \A m \in pending \cup owed : m.id \in Nat
      BY DEF Pause!TypeOK, Pause!Command, Pause!SoftPauseAssumption
    <2>3. \A i \in 1 .. Len(rx) : rx[i].id \in Nat
      <3>1. rx \in Seq(PausePacket)
        BY DEF Pause!TypeOK, PausePacket
      <3>2. \A i \in 1 .. Len(rx) : rx[i] \in PausePacket
        BY <3>1, PauseLengths
      <3> QED BY <3>2 DEF PausePacket, Pause!SoftPauseAssumption
    <2>4. \A m \in pending' \cup owed' : m.id <= sent'
      BY <1>0, <2>1, <2>2 DEF PauseNumbered
    <2>5. \A i \in 1 .. Len(rx') : rx'[i].id <= sent'
      BY <1>0, <2>1, <2>3 DEF PauseNumbered
    <2> QED BY <2>4, <2>5 DEF PauseNumbered
  <1>2. CASE Pause!Dsp
    <2>1. PICK m \in pending \cup owed :
            (m \in pending /\ (Pause!Accept(m) \/ Pause!Reject(m))) \/ (m \in owed /\ Pause!RampDone(m))
      BY <1>2 DEF Pause!Dsp
    <2>2. sent' = sent
      BY <1>2 DEF Pause!Dsp
    <2>3. m.id \in 0 .. MaxPauses /\ m.id <= sent
      BY DEF Pause!TypeOK, PauseNumbered, Pause!Command
    <2>4. PICK p \in PausePacket : rx' = Append(rx, p) /\ p.id = m.id
      <3>1. \A e \in {"ok", "rejected", Pause!Event(m.cmd)} : [ev |-> e, id |-> m.id] \in PausePacket
        BY <2>3 DEF PausePacket, Pause!Event
      <3> QED BY <2>1, <3>1 DEF Pause!Accept, Pause!Reject, Pause!RampDone
    <2>5. \A i \in 1 .. Len(rx') : rx'[i].id <= sent
      BY <2>3, <2>4, PauseAppendNumbered
    <2>6. pending' \cup owed' \subseteq pending \cup owed
      BY <2>1 DEF Pause!Accept, Pause!Reject, Pause!RampDone
    <2> QED BY <2>2, <2>5, <2>6 DEF PauseNumbered
  <1>3. CASE Pause!Watermark
    <2>1. rx' = Append(rx, [ev |-> "mark", id |-> 0]) /\ sent' = sent /\ UNCHANGED <<pending, owed>>
      BY <1>3 DEF Pause!Watermark, Pause!remote
    <2>2. [ev |-> "mark", id |-> 0] \in PausePacket
      BY DEF PausePacket, Pause!SoftPauseAssumption
    <2>3. \A i \in 1 .. Len(rx') : rx'[i].id <= sent
      BY <1>0, <2>1, <2>2, PauseAppendNumbered
    <2> QED BY <2>1, <2>3 DEF PauseNumbered
  <1>4. CASE Pause!Deliver
    <2>1. rx # <<>> /\ rx' = Tail(rx) /\ sent' = sent /\ UNCHANGED <<pending, owed>>
      BY <1>4 DEF Pause!Deliver, Pause!remote
    <2>2. rx \in Seq(PausePacket)
      BY DEF Pause!TypeOK, PausePacket
    <2>3. /\ Len(rx) \in Nat \ {0} /\ Len(rx') = Len(rx) - 1
          /\ \A i \in 1 .. Len(rx) - 1 : rx'[i] = rx[i + 1]
      BY <2>1, <2>2, PauseTaken
    <2>4. \A i \in 1 .. Len(rx') : i + 1 \in 1 .. Len(rx) /\ rx'[i] = rx[i + 1]
      BY <2>3
    <2> QED BY <2>1, <2>4 DEF PauseNumbered
  <1>5. CASE ~(Pause!Send \/ Pause!Dsp \/ Pause!Watermark \/ Pause!Deliver)
    <2>1. UNCHANGED <<rx, sent, pending, owed>>
      BY <1>5 DEF Pause!Next, Pause!User, Pause!Start, Pause!Prepare, Pause!Trigger,
         Pause!Timeout, Pause!Enter, Pause!Unsupported, Pause!Accepted,
         Pause!Rejected, Pause!Completed, Pause!AnswerTimeout, Pause!DoneTimeout,
         Pause!Refused, Pause!Elapse, Pause!remote, Pause!vars
    <2> QED BY <2>1 DEF PauseNumbered
  <1> QED BY <1>1, <1>2, <1>3, <1>4, <1>5

-----------------------------------------------------------------------------
\* The host.
LEMMA PauseHostKept ==
  ASSUME Pause!TypeOK, PauseHost, [Pause!Next]_Pause!vars
  PROVE  PauseHost'
  <1> USE DEF PauseHost, PauseLeft
  <1>0. /\ softPaused \in BOOLEAN /\ undo \in BOOLEAN /\ supported \in BOOLEAN
        /\ order \in {"push", "release", "stop"} /\ state \in {"RUNNING", "STOPPED"}
        /\ at \in {"idle", "enter", "send", "answer", "wait"}
    BY DEF Pause!TypeOK
  <1>1. CASE Pause!User
    <2>1. /\ at = "idle" /\ at' = "enter" /\ undo' = FALSE
          /\ UNCHANGED <<alsa, state, softPaused, supported, lost>>
          /\ alsa \in PauseFrom(order')
      BY <1>1 DEF Pause!User, Pause!Pause, Pause!Release, Pause!Stop, Pause!Call, Pause!host,
         PauseFrom
    <2> QED BY <2>1 DEF PauseCalled, PauseSettled, PauseFrom
  <1>2. CASE Pause!Start \/ Pause!Prepare
    <2>1. /\ at = "idle" /\ at' = "idle" /\ alsa \in {"PREPARED", "SETUP"}
          /\ alsa' \in {"PREPARED", "RUNNING"} /\ state' = "RUNNING"
          /\ UNCHANGED <<softPaused, supported, lost>>
      BY <1>2 DEF Pause!Start, Pause!Prepare, PauseSettled
    <2> QED BY <2>1 DEF PauseSettled
  <1>3. CASE Pause!Enter
    <2>1. /\ at = "enter" /\ PauseCalled /\ UNCHANGED <<softPaused, supported, lost>>
      BY <1>3 DEF Pause!Enter
    <2>2. CASE softPaused = Pause!Pausing
      <3>1. Pause!Return(TRUE) /\ Pause!Stopped
        BY <1>3, <2>2 DEF Pause!Enter
      <3>2. at' = "idle" /\ state' = IF order = "stop" THEN "STOPPED" ELSE state
        BY <3>1, PauseReturned DEF Pause!Stopped
      <3>3. CASE undo
        <4>1. alsa' = alsa /\ order # "stop"
          BY <2>1, <3>1, <3>3, PauseReturned DEF PauseCalled, PauseUndone
        <4> QED BY <1>0, <2>1, <2>2, <3>2, <3>3, <4>1 DEF PauseCalled, PauseUndone,
                    PauseSettled, Pause!Pausing
      <3>4. CASE ~undo
        <4>1. CASE order = "push"
          BY <2>1, <2>2, <3>1, <3>2, <3>4, <4>1, PauseReturned DEF PauseCalled, PauseFrom,
             PauseSettled, Pause!Pausing
        <4>2. CASE order = "release"
          BY <2>1, <2>2, <3>1, <3>2, <3>4, <4>2, PauseReturned DEF PauseCalled, PauseFrom,
             PauseSettled, Pause!Pausing
        <4>3. CASE order = "stop"
          BY <2>1, <2>2, <3>1, <3>2, <3>4, <4>3, PauseReturned DEF PauseCalled, PauseFrom,
             PauseSettled, Pause!Pausing
        <4> QED BY <1>0, <4>1, <4>2, <4>3
      <3> QED BY <3>3, <3>4
    <2>3. CASE softPaused # Pause!Pausing
      <3>1. /\ at' = "send" /\ UNCHANGED <<alsa, order, undo>>
            /\ state' = IF Pause!Pausing THEN "STOPPED" ELSE state
        BY <1>3, <2>3 DEF Pause!Enter, Pause!call
      <3> QED BY <1>0, <2>1, <2>3, <3>1 DEF PauseCalled, Pause!Pausing
    <2> QED BY <2>2, <2>3
  <1>4. CASE Pause!Send
    <2>1. /\ at = "send" /\ at' = "answer" /\ supported
          /\ UNCHANGED <<alsa, state, softPaused, order, undo, supported, lost>>
      BY <1>4 DEF Pause!Send, Pause!host, Pause!call
    <2> QED BY <1>0, <2>1 DEF PauseCalled, Pause!Pausing
  <1>5. CASE Pause!Unsupported
    <2>1. /\ at = "send" /\ ~supported /\ Pause!Return(TRUE) /\ UNCHANGED <<softPaused, supported, lost>>
          /\ order = "push" => state' = "RUNNING"
      BY <1>5 DEF Pause!Unsupported
    <2>2. PauseCalled /\ ~softPaused /\ order = "push" /\ ~undo
      BY <1>0, <2>1 DEF PauseCalled, Pause!Pausing
    <2> QED BY <2>1, <2>2, PauseReturned DEF PauseSettled
  <1>6. CASE Pause!Accepted
    <2>1. /\ at = "answer" /\ at' = "wait" /\ softPaused' = Pause!Pausing
          /\ UNCHANGED <<alsa, state, order, undo, supported, lost>>
      BY <1>6 DEF Pause!Accepted, Pause!call
    <2>2. PauseCalled /\ supported
      BY <2>1 DEF PauseCalled
    <2>3. Pause!Pausing => state = "STOPPED" /\ alsa \in {"RUNNING", "PAUSED"}
      BY <2>1, <2>2 DEF PauseCalled, Pause!Pausing, PauseFrom, PauseUndone
    <2> QED BY <1>0, <2>1, <2>2, <2>3 DEF PauseCalled, Pause!Pausing
  <1>7. CASE Pause!Rejected \/ Pause!AnswerTimeout
    <2>1. /\ at = "answer" /\ Pause!Return(FALSE) /\ UNCHANGED <<softPaused, supported>>
          /\ order = "push" => state' = "RUNNING"
          /\ order = "stop" => state' = "STOPPED"
          /\ order = "release" => state' = state
      BY <1>7 DEF Pause!Rejected, Pause!AnswerTimeout, Pause!Refused
    <2>2. lost \subseteq lost' /\ Pause!Failed \subseteq lost'
      BY <1>7 DEF Pause!Rejected, Pause!AnswerTimeout
    <2>3. PauseCalled /\ supported /\ softPaused # Pause!Pausing
      BY <1>0, <2>1 DEF PauseCalled, Pause!Pausing
    <2>4. CASE order = "stop"
      <3>1. "stop" \in lost' /\ at' = "idle" /\ alsa' = "SETUP"
        BY <2>1, <2>2, <2>3, <2>4, PauseReturned DEF Pause!Failed, PauseCalled, PauseUndone
      <3> QED BY <2>1, <2>3, <3>1 DEF PauseSettled
    <2>5. CASE order # "stop" /\ ~undo
      <3>1. /\ alsa' = alsa /\ at' = "enter" /\ undo' = TRUE
            /\ order = "push" => order' = "release"
            /\ order = "release" => order' = "push"
        BY <2>1, <2>5, PauseReturned
      <3> QED BY <1>0, <2>1, <2>2, <2>3, <2>5, <3>1 DEF PauseCalled, PauseFrom, PauseUndone,
                  Pause!Pausing
    <2>6. CASE order # "stop" /\ undo
      <3>1. alsa' = alsa /\ at' = "idle"
        BY <2>1, <2>6, PauseReturned
      <3>2. order = "release" => "undo" \in lost'
        BY <2>2, <2>6 DEF Pause!Failed
      <3> QED BY <1>0, <2>1, <2>2, <2>3, <2>6, <3>1, <3>2 DEF PauseCalled, PauseUndone,
                  PauseSettled, Pause!Pausing
    <2> QED BY <2>4, <2>5, <2>6
  <1>8. CASE Pause!Completed
    <2>1. /\ at = "wait" /\ Pause!Return(TRUE) /\ softPaused' = Pause!Pausing /\ UNCHANGED <<supported, lost>>
          /\ state' = IF order = "release" THEN "RUNNING" ELSE "STOPPED"
      BY <1>8 DEF Pause!Completed
    <2>2. PauseCalled /\ supported /\ at' = "idle"
      BY <2>1, PauseReturned DEF PauseCalled
    <2>3. order = "push" => alsa' = "PAUSED"
      BY <2>1, <2>2, PauseReturned DEF PauseCalled, PauseUndone
    <2>4. order = "release" => alsa' = "RUNNING"
      BY <2>1, <2>2, PauseReturned DEF PauseCalled, PauseUndone
    <2>5. order = "stop" => alsa' = "SETUP"
      BY <2>1, <2>2, PauseReturned DEF PauseCalled, PauseUndone
    <2> QED BY <1>0, <2>1, <2>2, <2>3, <2>4, <2>5 DEF PauseSettled, Pause!Pausing
  <1>9. CASE Pause!DoneTimeout
    <2>1. /\ at = "wait" /\ Pause!Return(FALSE) /\ UNCHANGED <<softPaused, supported>>
          /\ state' = IF order = "stop" THEN "STOPPED" ELSE state
      BY <1>9 DEF Pause!DoneTimeout, Pause!Stopped
    <2>2. lost \subseteq lost' /\ Pause!Failed \ {"stop"} \subseteq lost'
      BY <1>9 DEF Pause!DoneTimeout
    <2>3. PauseCalled /\ supported /\ softPaused = Pause!Pausing
      BY <1>0, <2>1 DEF PauseCalled, Pause!Pausing
    <2>4. CASE order = "stop"
      <3>1. at' = "idle" /\ alsa' = "SETUP" /\ ~softPaused
        BY <2>1, <2>3, <2>4, PauseReturned DEF PauseCalled, PauseUndone, Pause!Pausing
      <3> QED BY <2>1, <2>3, <3>1 DEF PauseSettled
    <2>5. CASE order # "stop" /\ ~undo
      <3>1. /\ alsa' = alsa /\ at' = "enter" /\ undo' = TRUE
            /\ order = "push" => order' = "release"
            /\ order = "release" => order' = "push"
        BY <2>1, <2>5, PauseReturned
      <3> QED BY <1>0, <2>1, <2>2, <2>3, <2>5, <3>1 DEF PauseCalled, PauseFrom, PauseUndone,
                  Pause!Pausing
    <2>6. CASE order # "stop" /\ undo
      <3>1. alsa' = alsa /\ at' = "idle"
        BY <2>1, <2>6, PauseReturned
      <3>2. order = "release" => "undo" \in lost'
        BY <2>2, <2>6 DEF Pause!Failed
      <3> QED BY <1>0, <2>1, <2>2, <2>3, <2>6, <3>1, <3>2 DEF PauseCalled, PauseUndone,
                  PauseSettled, Pause!Pausing
    <2> QED BY <2>4, <2>5, <2>6
  <1>10. CASE Pause!Dsp \/ Pause!Watermark \/ Pause!Deliver \/ UNCHANGED Pause!vars
    <2>1. UNCHANGED <<alsa, state, softPaused, at, order, undo, supported, lost>>
      BY <1>10 DEF Pause!Dsp, Pause!Watermark, Pause!Deliver, Pause!vars, Pause!host, Pause!call
    <2> QED BY <2>1 DEF PauseCalled, PauseSettled, Pause!Pausing
  <1>11. CASE Pause!Elapse
    <2>1. at = "idle" /\ UNCHANGED <<alsa, state, softPaused, supported, lost>>
      BY <1>11 DEF Pause!Elapse, Pause!host
    <2>2. CASE UNCHANGED <<at, Pause!call>>
      BY <2>1, <2>2 DEF PauseSettled
    <2>3. CASE alsa = "RUNNING" /\ Pause!Call("stop", TRUE)
      BY <2>1, <2>3 DEF Pause!Call, PauseCalled, PauseSettled, PauseFrom
    <2> QED BY <1>11, <2>2, <2>3 DEF Pause!Elapse
  <1> QED BY <1>1, <1>2, <1>3, <1>4, <1>5, <1>6, <1>7, <1>8, <1>9, <1>10, <1>11
              DEF Pause!Next, Pause!Trigger, Pause!Timeout

-----------------------------------------------------------------------------
\* The command under way.

\* A trigger that moves no packets and keeps or ends the wait.
LEMMA PauseFollowedRest ==
  ASSUME PauseFollowed, at # "answer", at' # "answer",
         UNCHANGED <<pending, dsp, rx, sent, softPaused>>
  PROVE  PauseFollowed'
BY DEF PauseFollowed, PauseUnanswered

LEMMA PauseFollowedKept ==
  ASSUME Pause!SoftPauseAssumption, Pause!TypeOK, PauseNumbered, PauseHost, PauseFollowed,
         "answer" \notin lost', [Pause!Next]_Pause!vars
  PROVE  PauseFollowed'
  <1>0. /\ softPaused \in BOOLEAN /\ sent \in Nat /\ sent + 1 # sent
        /\ order \in {"push", "release", "stop"} /\ ans \in {"none", "ok", "rejected"}
        /\ rx \in Seq(PausePacket) /\ Len(rx) \in Nat
        /\ \A i \in 1 .. Len(rx) : rx[i] \in PausePacket
    <2>1. sent \in Nat
      BY DEF Pause!TypeOK, Pause!SoftPauseAssumption
    <2>2. rx \in Seq(PausePacket)
      BY DEF Pause!TypeOK, PausePacket
    <2> QED BY <2>1, <2>2, PauseLengths DEF Pause!TypeOK
  <1>1. CASE Pause!User \/ Pause!Start \/ Pause!Prepare \/ Pause!Elapse \/ UNCHANGED Pause!vars
    <2>1. /\ UNCHANGED <<pending, dsp, rx, sent, softPaused>>
          /\ \/ at # "answer" /\ at' # "answer"
             \/ UNCHANGED <<at, order, ans>>
      BY <1>1 DEF Pause!User, Pause!Pause, Pause!Release, Pause!Stop, Pause!Call, Pause!Start,
         Pause!Prepare, Pause!Elapse, Pause!vars, Pause!host, Pause!remote, Pause!call
    <2>2. CASE at # "answer" /\ at' # "answer"
      BY <2>1, <2>2, PauseFollowedRest
    <2>3. CASE UNCHANGED <<at, order, ans>>
      BY <2>1, <2>3 DEF PauseFollowed, PauseUnanswered
    <2> QED BY <2>1, <2>2, <2>3
  <1>2. CASE Pause!Enter \/ Pause!Unsupported
    <2>1. /\ UNCHANGED <<pending, dsp, rx, sent, softPaused>> /\ at # "answer"
          /\ at' = "send" \/ Pause!Return(TRUE)
      BY <1>2 DEF Pause!Enter, Pause!Unsupported, Pause!remote
    <2>2. at' # "answer"
      BY <2>1, PauseReturnTyped
    <2> QED BY <2>1, <2>2, PauseFollowedRest
  <1>3. CASE Pause!Send
    <2>1. /\ at = "send" /\ at' = "answer" /\ sent' = sent + 1 /\ ans' = "none"
          /\ pending' = pending \cup {[id |-> sent + 1, cmd |-> order]}
          /\ UNCHANGED <<rx, dsp, softPaused, order>>
      BY <1>3 DEF Pause!Send, Pause!host, Pause!call
    <2>2. pending' = {[id |-> sent', cmd |-> order']} /\ dsp' = PauseMode(softPaused')
      BY <2>1 DEF PauseFollowed
    <2>3. \A i \in 1 .. Len(rx) : rx[i].id # sent + 1
      <3>1. \A i \in 1 .. Len(rx) : rx[i].id \in Nat /\ rx[i].id <= sent
        BY <1>0 DEF PausePacket, PauseNumbered, Pause!SoftPauseAssumption
      <3> QED BY <1>0, <3>1
    <2>4. PauseUnanswered'
      BY <2>1, <2>3 DEF PauseUnanswered, PauseAnswer
    <2> QED BY <2>1, <2>2, <2>4 DEF PauseFollowed
  <1>4. CASE Pause!Accepted
    <2>1. /\ at = "answer" /\ ans = "ok" /\ softPaused' = Pause!Pausing /\ at' = "wait"
          /\ UNCHANGED <<pending, dsp, rx, sent>>
      BY <1>4 DEF Pause!Accepted, Pause!remote
    <2>2. pending = {} /\ PauseUnanswered /\ dsp = PauseMode(Pause!Pausing)
      BY <2>1 DEF PauseFollowed, PauseTold, Pause!Pausing, PauseUnanswered
    <2> QED BY <2>1, <2>2 DEF PauseFollowed, PauseUnanswered
  <1>5. CASE Pause!Rejected
    <2>1. /\ at = "answer" /\ ans = "rejected" /\ Pause!Return(FALSE)
          /\ UNCHANGED <<pending, dsp, rx, sent, softPaused>>
      BY <1>5 DEF Pause!Rejected, Pause!Refused, Pause!remote
    <2>2. pending = {} /\ PauseUnanswered /\ dsp = PauseMode(softPaused)
      BY <2>1 DEF PauseFollowed, PauseTold
    <2>3. at' # "answer"
      BY <2>1, PauseReturnTyped
    <2> QED BY <2>1, <2>2, <2>3 DEF PauseFollowed, PauseUnanswered
  <1>6. CASE Pause!Completed
    <2>1. /\ at = "wait" /\ softPaused' = Pause!Pausing /\ Pause!Return(TRUE)
          /\ UNCHANGED <<pending, dsp, rx, sent>>
      BY <1>6 DEF Pause!Completed, Pause!remote
    <2>2. softPaused = Pause!Pausing
      BY <1>0, <2>1 DEF PauseHost, PauseCalled, Pause!Pausing
    <2>3. at' # "answer"
      BY <2>1, PauseReturnTyped
    <2> QED BY <2>1, <2>2, <2>3, PauseFollowedRest
  <1>7. CASE Pause!AnswerTimeout
    BY <1>7 DEF Pause!AnswerTimeout
  <1>8. CASE Pause!DoneTimeout
    <2>1. /\ at = "wait" /\ Pause!Return(FALSE)
          /\ UNCHANGED <<pending, dsp, rx, sent, softPaused>>
      BY <1>8 DEF Pause!DoneTimeout, Pause!remote
    <2>2. at' # "answer"
      BY <2>1, PauseReturnTyped
    <2> QED BY <2>1, <2>2, PauseFollowedRest
  <1>9. CASE Pause!Dsp \/ Pause!Watermark
    <2>1. /\ UNCHANGED <<at, order, ans, sent, softPaused>>
      BY <1>9 DEF Pause!Dsp, Pause!Watermark, Pause!host, Pause!call
    <2>2. PICK p \in PausePacket : rx' = Append(rx, p) /\
            \/ UNCHANGED <<pending, dsp>> /\ p.ev \notin {"ok", "rejected"}
            \/ \E m \in pending :
                 /\ p.id = m.id /\ p.ev \in {"ok", "rejected"} /\ pending' = pending \ {m}
                 /\ dsp' = IF p.ev = "rejected" THEN dsp
                           ELSE IF m.cmd = "push" THEN "paused" ELSE "run"
      <3>1. CASE Pause!Watermark
        <4>1. [ev |-> "mark", id |-> 0] \in PausePacket
          BY DEF PausePacket, Pause!SoftPauseAssumption
        <4> QED BY <3>1, <4>1 DEF Pause!Watermark, Pause!remote
      <3>2. ASSUME NEW m \in pending, Pause!Accept(m) \/ Pause!Reject(m)
            PROVE  \E p \in PausePacket : rx' = Append(rx, p) /\
                     /\ p.id = m.id /\ p.ev \in {"ok", "rejected"} /\ pending' = pending \ {m}
                     /\ dsp' = IF p.ev = "rejected" THEN dsp
                               ELSE IF m.cmd = "push" THEN "paused" ELSE "run"
        <4>1. m.id \in 0 .. MaxPauses
          BY DEF Pause!TypeOK, Pause!Command
        <4>2. [ev |-> "ok", id |-> m.id] \in PausePacket /\ [ev |-> "rejected", id |-> m.id] \in PausePacket
          BY <4>1 DEF PausePacket
        <4> QED BY <3>2, <4>2 DEF Pause!Accept, Pause!Reject
      <3>3. ASSUME NEW m \in owed, Pause!RampDone(m)
            PROVE  \E p \in PausePacket : rx' = Append(rx, p) /\
                     UNCHANGED <<pending, dsp>> /\ p.ev \notin {"ok", "rejected"}
        <4>1. m.id \in 0 .. MaxPauses
          BY DEF Pause!TypeOK, Pause!Command
        <4>2. Pause!Event(m.cmd) \in {"paused", "resumed"}
          BY DEF Pause!Event
        <4>3. [ev |-> Pause!Event(m.cmd), id |-> m.id] \in PausePacket
          BY <4>1, <4>2 DEF PausePacket
        <4> QED BY <3>3, <4>2, <4>3 DEF Pause!RampDone
      <3> QED BY <1>9, <3>1, <3>2, <3>3 DEF Pause!Dsp
    <2>3. /\ Len(rx') = Len(rx) + 1 /\ rx'[Len(rx) + 1] = p
          /\ \A i \in 1 .. Len(rx) : rx'[i] = rx[i]
      BY <1>0, <2>2, PauseQueued
    <2>4. \A i \in 1 .. Len(rx) : i \in 1 .. Len(rx')
      BY <1>0, <2>3
    <2>5. CASE UNCHANGED <<pending, dsp>> /\ p.ev \notin {"ok", "rejected"}
      <3>1. ~PauseAnswer(rx'[Len(rx) + 1], sent)
        BY <2>3, <2>5 DEF PauseAnswer
      <3>2. \A j \in 1 .. Len(rx') : PauseAnswer(rx'[j], sent) => j \in 1 .. Len(rx) /\ PauseAnswer(rx[j], sent)
        <4>1. \A j \in 1 .. Len(rx') : j \in 1 .. Len(rx) \/ j = Len(rx) + 1
          BY <1>0, <2>3
        <4> QED BY <2>3, <3>1, <4>1
      <3>4. PauseUnanswered => PauseUnanswered'
        BY <2>1, <3>2 DEF PauseUnanswered
      <3>6. CASE at = "answer" /\ pending = {} /\ ans = "none"
        <4>1. PICK i \in 1 .. Len(rx) :
                /\ PauseAnswer(rx[i], sent) /\ dsp = PauseTold(rx[i].ev, order, softPaused)
                /\ \A j \in 1 .. Len(rx) : PauseAnswer(rx[j], sent) => j = i
          BY <3>6 DEF PauseFollowed
        <4>2. i \in 1 .. Len(rx') /\ PauseAnswer(rx'[i], sent) /\ dsp' = PauseTold(rx'[i].ev, order, softPaused)
          BY <2>3, <2>4, <2>5, <4>1
        <4>3. \A j \in 1 .. Len(rx') : PauseAnswer(rx'[j], sent) => j = i
          BY <3>2, <4>1
        <4> QED BY <2>1, <2>5, <3>6, <4>2, <4>3 DEF PauseFollowed
      <3>7. CASE at = "answer" /\ ~(pending = {} /\ ans = "none")
        BY <2>1, <2>5, <3>4, <3>7 DEF PauseFollowed
      <3>8. CASE at # "answer"
        BY <2>1, <2>5, <3>4, <3>8 DEF PauseFollowed
      <3> QED BY <3>6, <3>7, <3>8
    <2>6. CASE \E m \in pending :
                 /\ p.id = m.id /\ p.ev \in {"ok", "rejected"} /\ pending' = pending \ {m}
                 /\ dsp' = IF p.ev = "rejected" THEN dsp
                           ELSE IF m.cmd = "push" THEN "paused" ELSE "run"
      <3>1. /\ at = "answer" /\ pending = {[id |-> sent, cmd |-> order]} /\ ans = "none"
            /\ PauseUnanswered /\ dsp = PauseMode(softPaused)
        BY <2>6 DEF PauseFollowed
      <3>2. PICK m \in pending :
                 /\ p.id = m.id /\ p.ev \in {"ok", "rejected"} /\ pending' = pending \ {m}
                 /\ dsp' = IF p.ev = "rejected" THEN dsp
                           ELSE IF m.cmd = "push" THEN "paused" ELSE "run"
        BY <2>6
      <3>3. m = [id |-> sent, cmd |-> order] /\ pending' = {}
        BY <3>1, <3>2
      <3>4. PauseAnswer(p, sent) /\ dsp' = PauseTold(p.ev, order, softPaused)
        BY <3>1, <3>2, <3>3 DEF PauseAnswer, PauseTold, PauseMode
      <3>5. Len(rx) + 1 \in 1 .. Len(rx') /\ rx'[Len(rx) + 1] = p
        BY <1>0, <2>3
      <3>6. \A j \in 1 .. Len(rx') : PauseAnswer(rx'[j], sent) => j = Len(rx) + 1
        <4>1. \A j \in 1 .. Len(rx') : j \in 1 .. Len(rx) \/ j = Len(rx) + 1
          BY <1>0, <2>3
        <4> QED BY <2>3, <3>1, <4>1 DEF PauseUnanswered
      <3>7. \E i \in 1 .. Len(rx') :
              /\ PauseAnswer(rx'[i], sent) /\ dsp' = PauseTold(rx'[i].ev, order, softPaused)
              /\ \A j \in 1 .. Len(rx') : PauseAnswer(rx'[j], sent) => j = i
        BY <3>4, <3>5, <3>6
      <3> QED BY <2>1, <3>1, <3>3, <3>7 DEF PauseFollowed
    <2> QED BY <2>2, <2>5, <2>6
  <1>10. CASE Pause!Deliver
    <2>1. /\ rx # <<>> /\ rx' = Tail(rx) /\ UNCHANGED <<at, order, sent, pending, dsp, softPaused>>
          /\ ans' = IF Head(rx).ev \in {"ok", "rejected"} /\ Head(rx).id = sent
                    THEN Head(rx).ev ELSE ans
      BY <1>10 DEF Pause!Deliver, Pause!host, Pause!call, Pause!remote
    <2>2. /\ Len(rx) \in Nat \ {0} /\ Len(rx') = Len(rx) - 1 /\ Head(rx) = rx[1]
          /\ \A i \in 1 .. Len(rx) - 1 : rx'[i] = rx[i + 1]
      BY <1>0, <2>1, PauseTaken
    <2>3. /\ \A i \in 1 .. Len(rx') : i + 1 \in 1 .. Len(rx) /\ rx'[i] = rx[i + 1]
          /\ 1 \in 1 .. Len(rx)
      BY <2>2
    <2>4. ans' = IF PauseAnswer(rx[1], sent) THEN rx[1].ev ELSE ans
      BY <2>1, <2>2 DEF PauseAnswer
    <2>5. PauseUnanswered => PauseUnanswered' /\ ans' = ans
      BY <2>1, <2>3, <2>4 DEF PauseUnanswered
    <2>6. CASE PauseUnanswered
      <3>1. ~(at = "answer" /\ pending = {} /\ ans = "none")
        BY <2>6 DEF PauseFollowed, PauseUnanswered
      <3> QED BY <2>1, <2>5, <2>6, <3>1 DEF PauseFollowed
    <2>7. CASE ~PauseUnanswered
      <3>1. at = "answer" /\ pending = {} /\ ans = "none"
        BY <2>7 DEF PauseFollowed
      <3>2. PICK i \in 1 .. Len(rx) :
              /\ PauseAnswer(rx[i], sent) /\ dsp = PauseTold(rx[i].ev, order, softPaused)
              /\ \A j \in 1 .. Len(rx) : PauseAnswer(rx[j], sent) => j = i
        BY <2>7 DEF PauseFollowed
      <3>3. CASE i = 1
        <4>1. \A j \in 1 .. Len(rx') : j + 1 # 1
          BY <2>3
        <4>2. PauseUnanswered'
          BY <2>1, <2>3, <3>2, <3>3, <4>1 DEF PauseUnanswered
        <4>3. ans' = rx[1].ev /\ ans' # "none"
          BY <2>4, <3>2, <3>3 DEF PauseAnswer
        <4>4. dsp' = PauseTold(ans', order, softPaused)
          BY <2>1, <3>2, <3>3, <4>3
        <4> QED BY <2>1, <3>1, <4>2, <4>3, <4>4 DEF PauseFollowed
      <3>4. CASE i # 1
        <4>1. ans' = ans
          BY <2>3, <2>4, <3>2, <3>4
        <4>2. i - 1 \in 1 .. Len(rx') /\ (i - 1) + 1 = i
          BY <2>2, <3>4
        <4>3. rx'[i - 1] = rx[i]
          BY <2>3, <4>2
        <4>4. \A j \in 1 .. Len(rx') : PauseAnswer(rx'[j], sent) => j + 1 = i
          BY <2>3, <3>2
        <4>5. \A j \in 1 .. Len(rx') : PauseAnswer(rx'[j], sent) => j = i - 1
          BY <2>2, <4>4
        <4>6. \E k \in 1 .. Len(rx') :
                /\ PauseAnswer(rx'[k], sent) /\ dsp' = PauseTold(rx'[k].ev, order, softPaused)
                /\ \A j \in 1 .. Len(rx') : PauseAnswer(rx'[j], sent) => j = k
          BY <2>1, <3>2, <4>2, <4>3, <4>5
        <4> QED BY <2>1, <3>1, <4>1, <4>6 DEF PauseFollowed
      <3> QED BY <3>3, <3>4
    <2> QED BY <2>6, <2>7
  <1> QED BY <1>1, <1>2, <1>3, <1>4, <1>5, <1>6, <1>7, <1>8, <1>9, <1>10
              DEF Pause!Next, Pause!Trigger, Pause!Timeout

-----------------------------------------------------------------------------
LEMMA PauseInvInit ==
  ASSUME Pause!SoftPauseAssumption, Pause!Init
  PROVE  PauseInv
  <1>1. <<>> \in Seq(PausePacket) /\ Len(<<>>) = 0
    OBVIOUS
  <1>2. Pause!TypeOK
    <2>1. rx \in Seq(PausePacket) /\ sent \in 0 .. MaxPauses
      BY <1>1 DEF Pause!Init, Pause!SoftPauseAssumption
    <2> QED BY <2>1 DEF Pause!Init, Pause!TypeOK, PausePacket
  <1>3. PauseNumbered /\ PauseUnanswered
    BY <1>1 DEF Pause!Init, PauseNumbered, PauseUnanswered
  <1> QED BY <1>2, <1>3 DEF Pause!Init, PauseInv, PauseRoom, PauseHost, PauseLeft,
              PauseSettled, PauseFollowed, PauseMode

\* The inductive invariant, for any numbers of commands and watermarks and
\* any delays, refusals and losses: in which ALSA state a trigger runs and
\* what it has done, and, until an answer is late, that the command it
\* waits for is the only one under way (q6apm_dai_sp11_soft_pause).
THEOREM PauseInvCorrect ==
  ASSUME Pause!SoftPauseAssumption
  PROVE  Pause!Spec => []PauseInv
  <1>1. PauseInv /\ [Pause!Next]_Pause!vars => PauseInv'
    <2> SUFFICES ASSUME PauseInv, [Pause!Next]_Pause!vars PROVE PauseInv'
      OBVIOUS
    <2>1. lost \subseteq lost'
      BY DEF Pause!Next, Pause!vars, Pause!User, Pause!Start, Pause!Prepare, Pause!Trigger,
             Pause!Timeout, Pause!Enter, Pause!Send, Pause!Unsupported,
         Pause!Accepted, Pause!Rejected, Pause!Completed, Pause!AnswerTimeout,
         Pause!DoneTimeout, Pause!Dsp, Pause!Watermark, Pause!Deliver, Pause!Elapse
    <2> QED BY <2>1, PauseTypedRoom, PauseNumberedKept, PauseHostKept,
                PauseFollowedKept DEF PauseInv
  <1>2. Pause!Init => PauseInv
    BY PauseInvInit
  <1> QED BY <1>1, <1>2, PTL DEF Pause!Spec

\* What the host believes about a pause is so and it acts on it, and a
\* stream ALSA takes for running reacts to watermarks, whatever is
\* refused, late or lost, up to what PauseIsAgreed names
\* (q6apm_dai_sp11_soft_pause, q6apm_dai_trigger).
THEOREM PauseIsAgreedCorrect ==
  ASSUME Pause!SoftPauseAssumption
  PROVE  Pause!Spec => []Pause!PauseIsAgreed
  <1>1. PauseInv => Pause!PauseIsAgreed
    BY DEF PauseInv, Pause!TypeOK, PauseHost, PauseLeft, PauseSettled, PauseFollowed,
           PauseMode, Pause!PauseIsAgreed, Pause!PauseIsKnown,
       Pause!PauseTracked, Pause!PausedIsQuiet, Pause!RunningHearsWatermarks, Pause!AtRest
  <1> QED BY <1>1, PauseInvCorrect, PTL

-----------------------------------------------------------------------------
\* The maps.

\* The tables of a life, step by step.
MapsMapSteps == {"map_ring", "map_position", "map_oob"}
MapsUnmapSteps == {"unmap_ring", "unmap_position", "unmap_oob"}
MapsGraphSteps == {"graph_open", "calibrate", "graph_close"}
MapsSteps == MapsMapSteps \cup MapsUnmapSteps \cup MapsGraphSteps
MapsPlaces == MapsSteps \cup {"unbound", "bound", "open"}
MapsOpcodes == {"map", "unmap"} \cup MapsGraphSteps

LEMMA MapsDomains ==
  /\ DOMAIN Maps!Maps = MapsMapSteps /\ DOMAIN Maps!Unmaps = MapsUnmapSteps
  /\ DOMAIN Maps!RegionOf = MapsMapSteps \cup MapsUnmapSteps
  /\ DOMAIN Maps!Onward = MapsSteps \cup {"configure"}
  <1>1. DOMAIN Maps!Maps = MapsMapSteps /\ DOMAIN Maps!Unmaps = MapsUnmapSteps
    BY DEF Maps!Maps, Maps!Unmaps, MapsMapSteps, MapsUnmapSteps
  <1>2. DOMAIN Maps!RegionOf = MapsMapSteps \cup MapsUnmapSteps
    BY <1>1 DEF Maps!RegionOf
  <1>3. DOMAIN Maps!Onward = MapsSteps \cup {"configure"}
    BY DEF Maps!Onward, MapsMapSteps, MapsUnmapSteps, MapsSteps, MapsGraphSteps
  <1> QED BY <1>1, <1>2, <1>3

LEMMA MapsRegions ==
  /\ Maps!Maps["map_ring"] = "ring" /\ Maps!Maps["map_position"] = "position" /\ Maps!Maps["map_oob"] = "oob"
  /\ Maps!Unmaps["unmap_ring"] = "ring" /\ Maps!Unmaps["unmap_position"] = "position"
  /\ Maps!Unmaps["unmap_oob"] = "oob"
  /\ \A s \in MapsMapSteps : Maps!RegionOf[s] = Maps!Maps[s] /\ Maps!RegionOf[s] \in Maps!Region
  /\ \A s \in MapsUnmapSteps : Maps!RegionOf[s] = Maps!Unmaps[s] /\ Maps!RegionOf[s] \in Maps!Region
  <1>1. \A s \in MapsMapSteps : Maps!RegionOf[s] = Maps!Maps[s]
    BY MapsDomains DEF Maps!RegionOf
  <1>2. \A s \in MapsUnmapSteps : Maps!RegionOf[s] = Maps!Unmaps[s]
    BY MapsDomains DEF Maps!RegionOf, MapsMapSteps, MapsUnmapSteps
  <1> QED BY <1>1, <1>2 DEF Maps!Maps, Maps!Unmaps, MapsMapSteps, MapsUnmapSteps, Maps!Region

LEMMA MapsWays ==
  /\ Maps!Onward["map_ring"] = "bound" /\ Maps!Back["map_ring"] = "unbound"
  /\ Maps!Onward["map_position"] = "graph_open" /\ Maps!Back["map_position"] = "bound"
  /\ Maps!Onward["graph_open"] = "map_oob" /\ Maps!Back["graph_open"] = "unmap_position"
  /\ Maps!Onward["map_oob"] = "calibrate" /\ Maps!Back["map_oob"] = "graph_close"
  /\ Maps!Onward["calibrate"] = "open" /\ Maps!Back["calibrate"] = "unmap_oob"
  /\ Maps!Onward["unmap_oob"] = "graph_close" /\ Maps!Back["unmap_oob"] = "graph_close"
  /\ Maps!Onward["graph_close"] = "unmap_position" /\ Maps!Back["graph_close"] = "unmap_position"
  /\ Maps!Onward["unmap_position"] = "bound" /\ Maps!Back["unmap_position"] = "bound"
  /\ Maps!Onward["unmap_ring"] = "unbound" /\ Maps!Back["unmap_ring"] = "unbound"
BY DEF Maps!Onward, Maps!Back

LEMMA MapsOpcodeIs ==
  /\ \A s \in MapsMapSteps : Maps!Opcode(s) = "map"
  /\ \A s \in MapsUnmapSteps : Maps!Opcode(s) = "unmap"
  /\ \A s \in MapsGraphSteps : Maps!Opcode(s) = s
BY MapsDomains DEF Maps!Opcode, MapsMapSteps, MapsUnmapSteps, MapsGraphSteps

-----------------------------------------------------------------------------
\* Queues.

LEMMA MapsAppendIs ==
  ASSUME NEW S, NEW s \in Seq(S), NEW x \in S
  PROVE  /\ Append(s, x) \in Seq(S) /\ Len(Append(s, x)) = Len(s) + 1
         /\ \A i \in 1 .. Len(s) : Append(s, x)[i] = s[i]
         /\ Append(s, x)[Len(s) + 1] = x
         /\ Append(s, x) # <<>>
OBVIOUS

LEMMA MapsTailIs ==
  ASSUME NEW S, NEW s \in Seq(S), s # <<>>
  PROVE  /\ Tail(s) \in Seq(S) /\ Len(s) \in Nat \ {0} /\ Len(Tail(s)) = Len(s) - 1
         /\ \A i \in 1 .. Len(s) - 1 : Tail(s)[i] = s[i + 1]
         /\ Head(s) = s[1] /\ s[1] \in S
OBVIOUS

LEMMA MapsEmptyIs ==
  ASSUME NEW S, NEW s \in Seq(S)
  PROVE  /\ Len(s) \in Nat /\ (s = <<>> <=> Len(s) = 0)
         /\ \A i \in 1 .. Len(s) : s[i] \in S
OBVIOUS

-----------------------------------------------------------------------------
\* The inductive invariant.

MapsCommand == [step : MapsSteps, buf : Nat, h : Nat]
MapsReply == [op : MapsOpcodes, step : MapsSteps, ok : BOOLEAN, h : Nat]

MapsCounts == [binds : Nat, opens : Nat, buffers : Nat, handles : Nat, slow : Nat]

MapsTyped ==
  /\ step \in MapsPlaces /\ phase \in {"call", "wait"} /\ (phase = "wait" => step \in MapsSteps)
  /\ buffer \in [Maps!Region -> Nat] /\ handle \in [Maps!Region -> Nat]
  /\ mapped \subseteq [h : Nat, region : Maps!Region, buf : Nat]
  /\ wire \in Seq(MapsCommand)
  /\ answers \in Seq(MapsReply) /\ half \in BOOLEAN /\ (half => answers # <<>>)
  /\ result \in [op : MapsOpcodes \cup {"clear"}, ok : BOOLEAN]
  /\ count \in MapsCounts

\* The DSP gives out each handle once.
MapsFresh ==
  /\ \A m \in mapped : m.h \in 1 .. count.handles
  /\ \A r \in Maps!Region : handle[r] <= count.handles
  /\ \A i \in 1 .. Len(answers) : answers[i].h <= count.handles
  /\ \A i \in 1 .. Len(wire) : wire[i].h <= count.handles

\* A handle the driver has, is told or sends leads to nothing but the
\* region it has it for.
MapsNames(h, r) == \A m \in mapped : m.h = h => m.region = r
MapsNamed ==
  /\ \A r \in Maps!Region : MapsNames(handle[r], r)
  /\ \A i \in 1 .. Len(answers) :
       /\ answers[i].op = Maps!Opcode(answers[i].step)
       /\ answers[i].step \in MapsUnmapSteps => answers[i].h = 0
       /\ answers[i].step \in MapsMapSteps \cup MapsUnmapSteps =>
            MapsNames(answers[i].h, Maps!RegionOf[answers[i].step])
  /\ \A i \in 1 .. Len(wire) :
       wire[i].step \in MapsUnmapSteps => MapsNames(wire[i].h, Maps!RegionOf[wire[i].step])

MapsBase == MapsTyped /\ MapsFresh /\ MapsNamed

LEMMA MapsOverIs ==
  ASSUME MapsTyped, NEW ok \in BOOLEAN, step \in MapsSteps, Maps!Over(step, ok)
  PROVE  step' \in MapsPlaces /\ phase' = "call" /\ buffer' \in [Maps!Region -> Nat]
  <1>1. step' \in MapsPlaces
    BY MapsWays DEF Maps!Over, MapsPlaces, MapsSteps, MapsMapSteps, MapsUnmapSteps,
       MapsGraphSteps
  <1> QED BY <1>1 DEF Maps!Over, MapsTyped

LEMMA MapsCountsIs ==
  ASSUME NEW c \in MapsCounts
  PROVE  /\ c.handles \in Nat /\ c.buffers \in Nat /\ c.opens \in Nat /\ c.slow \in Nat /\ c.binds \in Nat
         /\ c.handles + 1 \in Nat /\ c.buffers + 1 \in Nat /\ c.opens + 1 \in Nat /\ c.slow + 1 \in Nat
         /\ c.binds + 1 \in Nat
BY DEF MapsCounts

LEMMA MapsCounted ==
  ASSUME NEW c \in MapsCounts, NEW m \in Nat, NEW n \in Nat
  PROVE  /\ [c EXCEPT !.opens = n] \in MapsCounts /\ [c EXCEPT !.opens = n].handles = c.handles
         /\ [c EXCEPT !.slow = n] \in MapsCounts /\ [c EXCEPT !.slow = n].handles = c.handles
         /\ [c EXCEPT !.buffers = n] \in MapsCounts /\ [c EXCEPT !.buffers = n].handles = c.handles
         /\ [c EXCEPT !.handles = n] \in MapsCounts /\ [c EXCEPT !.handles = n].handles = n
         /\ [c EXCEPT !.binds = m, !.buffers = n] \in MapsCounts
         /\ [c EXCEPT !.binds = m, !.buffers = n].handles = c.handles
BY DEF MapsCounts

\* The steps of the host, which leave the DSP and what is under way alone.
MapsRemote == <<mapped, wire, answers, half, result>>
MapsForgets == handle' \in [Maps!Region -> Nat] /\ \A r \in Maps!Region : handle'[r] \in {0, handle[r]}

LEMMA MapsBindIs ==
  ASSUME MapsTyped, Maps!Bind
  PROVE  /\ UNCHANGED <<MapsRemote, phase, config, trouble>> /\ MapsForgets
         /\ step = "unbound" /\ step' = "map_ring"
         /\ \A r \in {"position", "oob"} : handle'[r] = handle[r] /\ buffer'[r] = buffer[r]
         /\ count' \in MapsCounts /\ count'.handles = count.handles
         /\ buffer' \in [Maps!Region -> Nat]
  <1>0. count \in MapsCounts /\ buffer \in [Maps!Region -> Nat] /\ handle \in [Maps!Region -> Nat]
    BY DEF MapsTyped
  <1>1. count' = [count EXCEPT !.binds = count.binds + 1, !.buffers = count.buffers + 1]
    BY DEF Maps!Bind
  <1>2. count' \in MapsCounts /\ count'.handles = count.handles
    <2>1. count.binds + 1 \in Nat /\ count.buffers + 1 \in Nat
      BY <1>0, MapsCountsIs
    <2>2. count' \in MapsCounts
      BY <1>0, <1>1, <2>1, MapsCounted
    <2>3. count'.handles = count.handles
      BY <1>0, <1>1 DEF MapsCounts
    <2> QED BY <2>2, <2>3
  <1>3. buffer' \in [Maps!Region -> Nat] /\ \A r \in {"position", "oob"} : buffer'[r] = buffer[r]
    <2>1. buffer' = [buffer EXCEPT !["ring"] = count.buffers + 1]
      BY DEF Maps!Bind
    <2>2. count.buffers + 1 \in Nat
      BY <1>0, MapsCountsIs
    <2> QED BY <1>0, <2>1, <2>2 DEF Maps!Region
  <1>4. MapsForgets /\ \A r \in {"position", "oob"} : handle'[r] = handle[r]
    <2>1. handle' = handle \/ handle' = [handle EXCEPT !["ring"] = 0]
      BY DEF Maps!Bind
    <2> QED BY <1>0, <2>1 DEF Maps!Region, MapsForgets
  <1>5. /\ UNCHANGED <<MapsRemote, phase, config, trouble>>
        /\ step = "unbound" /\ step' = "map_ring"
    BY DEF Maps!Bind, MapsRemote
  <1> QED BY <1>2, <1>3, <1>4, <1>5

LEMMA MapsOpenStreamIs ==
  ASSUME MapsTyped, Maps!OpenStream
  PROVE  /\ UNCHANGED <<MapsRemote, phase, buffer, trouble>> /\ MapsForgets
         /\ step = "bound" /\ step' = "map_position" /\ handle'["ring"] = handle["ring"]
         /\ handle'["position"] = 0 /\ handle'["oob"] = 0 /\ config' = Maps!NoConfig
         /\ count' \in MapsCounts /\ count'.handles = count.handles
  <1>1. count' = [count EXCEPT !.opens = count.opens + 1]
    BY DEF Maps!OpenStream
  <1>2. count' \in MapsCounts /\ count'.handles = count.handles
    <2>1. count \in MapsCounts
      BY DEF MapsTyped
    <2>2. count.opens + 1 \in Nat /\ count.slow + 1 \in Nat
      BY <2>1, MapsCountsIs
    <2>3. count' \in MapsCounts
      BY <1>1, <2>1, <2>2, MapsCounted
    <2>4. count'.handles = count.handles
      BY <1>1, <2>1 DEF MapsCounts
    <2> QED BY <2>3, <2>4
  <1>3. MapsForgets /\ handle'["ring"] = handle["ring"] /\ handle'["position"] = 0 /\ handle'["oob"] = 0
    BY DEF Maps!OpenStream, MapsTyped, Maps!Region, MapsForgets
  <1>4. /\ UNCHANGED <<MapsRemote, phase, buffer, trouble>>
        /\ step = "bound" /\ step' = "map_position" /\ config' = Maps!NoConfig
    BY DEF Maps!OpenStream, MapsRemote
  <1> QED BY <1>2, <1>3, <1>4

LEMMA MapsUnbindIs ==
  ASSUME MapsTyped, Maps!Unbind
  PROVE  /\ UNCHANGED <<MapsRemote, phase, buffer, config, count>> /\ MapsForgets
         /\ step = "bound" /\ step' = "unmap_ring"
         /\ \A r \in {"position", "oob"} : handle'[r] = handle[r]
         /\ \/ handle' = handle /\ trouble' = trouble
            \/ trouble' = trouble \cup {"ring"}
  <1>1. CASE UNCHANGED <<handle, trouble>>
    BY <1>1 DEF Maps!Unbind, MapsTyped, MapsForgets, MapsRemote
  <1>2. CASE handle' = [handle EXCEPT !.ring = 0] /\ trouble' = trouble \cup {"ring"}
    <2>1. MapsForgets /\ \A r \in {"position", "oob"} : handle'[r] = handle[r]
      BY <1>2 DEF MapsTyped, MapsForgets, Maps!Region
    <2> QED BY <1>2, <2>1 DEF Maps!Unbind, MapsRemote
  <1> QED BY <1>1, <1>2 DEF Maps!Unbind

LEMMA MapsGiveUpIs ==
  ASSUME MapsTyped, Maps!GiveUp
  PROVE  /\ UNCHANGED <<MapsRemote, handle, config>> /\ step \in MapsSteps /\ Maps!Over(step, FALSE)
         /\ "late" \in trouble'
         /\ count' \in MapsCounts /\ count'.handles = count.handles
  <1>1. count' = count \/ count' = [count EXCEPT !.slow = count.slow + 1]
    BY DEF Maps!GiveUp
  <1>2. count' \in MapsCounts /\ count'.handles = count.handles
    <2>1. count \in MapsCounts
      BY DEF MapsTyped
    <2>2. count.opens + 1 \in Nat /\ count.slow + 1 \in Nat
      BY <2>1, MapsCountsIs
    <2>3. count' \in MapsCounts
      BY ZenonT(60), <1>1, <2>1, <2>2, MapsCounted
    <2>4. count'.handles = count.handles
      BY <1>1, <2>1 DEF MapsCounts
    <2> QED BY <2>3, <2>4
  <1>3. /\ UNCHANGED <<MapsRemote, handle, config>> /\ step \in MapsSteps /\ Maps!Over(step, FALSE)
        /\ "late" \in trouble'
    BY DEF Maps!GiveUp, MapsRemote, MapsTyped
  <1> QED BY <1>2, <1>3

LEMMA MapsSkipIs ==
  ASSUME MapsTyped, Maps!Skip
  PROVE  /\ UNCHANGED <<MapsRemote, handle, config, trouble, count>> /\ step \in MapsSteps /\ Maps!Quiet
         /\ phase = "call" /\ Maps!Over(step, step # "calibrate")
  <1>1. step \in MapsSteps
    BY MapsDomains DEF Maps!Skip, MapsTyped, MapsPlaces, MapsSteps, MapsMapSteps,
       MapsUnmapSteps, MapsGraphSteps
  <1> QED BY <1>1 DEF Maps!Skip, MapsRemote

LEMMA MapsReturnIs ==
  ASSUME MapsTyped, Maps!Return
  PROVE  /\ UNCHANGED <<MapsRemote, handle, config, count>> /\ step \in MapsSteps
         /\ phase = "wait" /\ result.op = Maps!Opcode(step) /\ Maps!Over(step, result.ok) /\ result.ok \in BOOLEAN
         /\ IF half /\ step \in MapsMapSteps \cup MapsUnmapSteps
            THEN trouble' = trouble \cup {Maps!RegionOf[step]} ELSE trouble' = trouble
BY MapsDomains DEF Maps!Return, MapsTyped, MapsRemote

LEMMA MapsBaseForgets ==
  ASSUME MapsBase, UNCHANGED MapsRemote, MapsForgets, count' \in MapsCounts,
         count'.handles = count.handles,
         step' \in MapsPlaces, phase' \in {"call", "wait"}, phase' = "wait" => step' \in MapsSteps,
         buffer' \in [Maps!Region -> Nat]
  PROVE  MapsBase'
  <1> USE DEF MapsBase
  <1>1. /\ mapped' = mapped /\ wire' = wire /\ answers' = answers /\ half' = half
        /\ result' = result
    BY DEF MapsRemote
  <1>2. MapsTyped'
    BY <1>1 DEF MapsTyped, MapsForgets
  <1>3. MapsFresh'
    <2>1. count.handles \in Nat
      BY MapsCountsIs DEF MapsTyped
    <2>2. \A r \in Maps!Region : handle'[r] <= count'.handles
      BY <2>1 DEF MapsForgets, MapsFresh
    <2> QED BY <1>1, <2>2 DEF MapsFresh
  <1>4. MapsNamed'
    <2>1. ASSUME NEW r \in Maps!Region
          PROVE  MapsNames(handle[r], r)'
      <3>1. CASE handle'[r] = handle[r]
        BY <1>1, <3>1 DEF MapsNamed, MapsNames
      <3>2. CASE handle'[r] = 0
        <4>1. \A m \in mapped : m.h # 0
          BY SMTT(60) DEF MapsFresh, MapsTyped, MapsCounts
        <4> QED BY <1>1, <3>2, <4>1 DEF MapsNames
      <3> QED BY <3>1, <3>2 DEF MapsForgets
    <2> QED BY <1>1, <2>1 DEF MapsNamed, MapsNames
  <1> QED BY <1>2, <1>3, <1>4

LEMMA MapsBaseHost ==
  ASSUME MapsBase,
         Maps!Bind \/ Maps!OpenStream \/ Maps!Configure \/ Maps!CloseStream \/ Maps!Unbind
               \/ Maps!Skip \/ Maps!Return \/ Maps!GiveUp
  PROVE  MapsBase'
  <1> DEFINE Same == handle' = handle
  <1>0. MapsTyped
    BY DEF MapsBase
  <1>1. Same => MapsForgets
    BY <1>0 DEF MapsForgets, MapsTyped
  <1>2. {"unbound", "map_ring", "bound", "map_position", "unmap_ring", "open", "unmap_oob"} \subseteq MapsPlaces
    BY DEF MapsPlaces, MapsSteps, MapsMapSteps, MapsUnmapSteps
  <1>3. CASE Maps!Bind
    <2>1. phase' = "call" \/ (phase' = phase /\ step' \in MapsSteps)
      BY <1>0, <1>3, MapsBindIs DEF MapsSteps, MapsMapSteps
    <2> QED BY <1>0, <1>2, <1>3, <2>1, MapsBindIs, MapsBaseForgets DEF MapsTyped
  <1>4. CASE Maps!OpenStream
    <2>1. step' \in MapsSteps
      BY <1>0, <1>4, MapsOpenStreamIs DEF MapsSteps, MapsMapSteps
    <2> QED BY <1>0, <1>2, <1>4, <2>1, MapsOpenStreamIs, MapsBaseForgets DEF MapsTyped
  <1>5. CASE Maps!Unbind
    <2>1. step' \in MapsSteps
      BY <1>0, <1>5, MapsUnbindIs DEF MapsSteps, MapsUnmapSteps
    <2> QED BY <1>0, <1>2, <1>5, <2>1, MapsUnbindIs, MapsBaseForgets DEF MapsTyped
  <1>6. CASE Maps!Configure
    BY <1>0, <1>1, <1>2, <1>6, MapsBaseForgets DEF MapsTyped, Maps!Configure, MapsRemote
  <1>7. CASE Maps!CloseStream
    <2>1. "unmap_oob" \in MapsSteps
      BY DEF MapsSteps, MapsUnmapSteps
    <2> QED BY <1>0, <1>1, <1>2, <1>7, <2>1, MapsBaseForgets DEF MapsTyped, Maps!CloseStream,
                MapsRemote
  <1>8. CASE Maps!Skip
    <2>1. PICK ok \in BOOLEAN : Maps!Over(step, ok)
      BY <1>0, <1>8, MapsSkipIs
    <2>2. step' \in MapsPlaces /\ phase' = "call" /\ buffer' \in [Maps!Region -> Nat]
      BY <1>0, <1>8, <2>1, MapsSkipIs, MapsOverIs
    <2>3. UNCHANGED MapsRemote /\ MapsForgets /\ count' \in MapsCounts /\ count'.handles = count.handles
      BY <1>0, <1>1, <1>8, MapsSkipIs DEF MapsTyped
    <2> QED BY <2>2, <2>3, MapsBaseForgets
  <1>9. CASE Maps!Return
    <2>1. step' \in MapsPlaces /\ phase' = "call" /\ buffer' \in [Maps!Region -> Nat]
      BY <1>0, <1>9, MapsReturnIs, MapsOverIs
    <2>2. UNCHANGED MapsRemote /\ MapsForgets /\ count' \in MapsCounts /\ count'.handles = count.handles
      BY <1>0, <1>1, <1>9, MapsReturnIs DEF MapsTyped
    <2> QED BY <2>1, <2>2, MapsBaseForgets
  <1>10. CASE Maps!GiveUp
    BY <1>0, <1>1, <1>10, MapsGiveUpIs, MapsOverIs, MapsBaseForgets
  <1> QED BY <1>3, <1>4, <1>5, <1>6, <1>7, <1>8, <1>9, <1>10

LEMMA MapsSendIs ==
  ASSUME MapsTyped, Maps!Send
  PROVE  /\ step \in MapsSteps /\ phase = "call" /\ ~Maps!Quiet /\ phase' = "wait" /\ result' = Maps!NoResult
         /\ UNCHANGED <<step, handle, mapped, config, answers, half, trouble>>
         /\ buffer' \in [Maps!Region -> Nat]
         /\ \A r \in Maps!Region : ~(step \in MapsMapSteps /\ Maps!RegionOf[step] = r) => buffer'[r] = buffer[r]
         /\ count' \in MapsCounts
         /\ count'.handles = count.handles
         /\ \E c \in MapsCommand :
              /\ wire' = Append(wire, c) /\ c.step = step
              /\ step \in MapsMapSteps => c.buf = buffer'[Maps!RegionOf[step]] /\ c.h = 0
              /\ step \in MapsUnmapSteps => c.h = handle[Maps!RegionOf[step]]
              /\ step \notin MapsUnmapSteps => c.h = 0
  <1>1. step \in MapsSteps
    BY MapsDomains DEF Maps!Send, MapsTyped, MapsPlaces, MapsSteps, MapsMapSteps,
       MapsUnmapSteps, MapsGraphSteps
  <1>2. /\ buffer' \in [Maps!Region -> Nat]
        /\ \A r \in Maps!Region : ~(step \in MapsMapSteps /\ Maps!RegionOf[step] = r) => buffer'[r] = buffer[r]
    <2>1. CASE step \in {"map_position", "map_oob"}
      <3>1. buffer' = [buffer EXCEPT ![Maps!RegionOf[step]] = count.buffers + 1]
        BY <2>1 DEF Maps!Send
      <3>0. count \in MapsCounts
        BY DEF MapsTyped
      <3>2. count.buffers + 1 \in Nat /\ buffer \in [Maps!Region -> Nat]
        BY <3>0, MapsCountsIs DEF MapsTyped
      <3>3. step \in MapsMapSteps
        BY <2>1 DEF MapsMapSteps
      <3> QED BY <3>1, <3>2, <3>3, MapsRegions
    <2>2. CASE step \notin {"map_position", "map_oob"}
      BY <2>2 DEF Maps!Send, MapsTyped
    <2> QED BY <2>1, <2>2
  <1>3. /\ count' \in MapsCounts
        /\ count'.handles = count.handles
    <2>1. count' = count \/ count' = [count EXCEPT !.buffers = count.buffers + 1]
      BY DEF Maps!Send
    <2>2. count \in MapsCounts
      BY DEF MapsTyped
    <2>3. count.buffers + 1 \in Nat
      BY <2>2, MapsCountsIs
    <2>4. count' \in MapsCounts
      BY ZenonT(60), <2>1, <2>2, <2>3, MapsCounted
    <2>5. count'.handles = count.handles
      BY <2>1, <2>2 DEF MapsCounts
    <2> QED BY <2>4, <2>5
  <1> DEFINE c == [step |-> step,
       buf |-> IF step \in DOMAIN Maps!Maps THEN buffer'[Maps!Maps[step]] ELSE 0,
       h |-> IF step \in DOMAIN Maps!Unmaps THEN handle[Maps!Unmaps[step]] ELSE 0]
  <1>4. wire' = Append(wire, c)
    BY DEF Maps!Send
  <1>5. c \in MapsCommand /\ (step \in MapsMapSteps => c.buf = buffer'[Maps!RegionOf[step]] /\ c.h = 0)
        /\ (step \in MapsUnmapSteps => c.h = handle[Maps!RegionOf[step]]) /\ (step \notin MapsUnmapSteps => c.h = 0)
    BY <1>1, <1>2, MapsDomains, MapsRegions DEF MapsCommand, MapsTyped, MapsMapSteps,
       MapsUnmapSteps
  <1>6. c.step = step
    OBVIOUS
  <1> HIDE DEF c
  <1>7. /\ phase = "call" /\ ~Maps!Quiet /\ phase' = "wait" /\ result' = Maps!NoResult
        /\ UNCHANGED <<step, handle, mapped, config, answers, half, trouble>>
    BY DEF Maps!Send
  <1> QED BY <1>1, <1>2, <1>3, <1>4, <1>5, <1>6, <1>7

LEMMA MapsBaseSend ==
  ASSUME MapsBase, Maps!Send
  PROVE  MapsBase'
  <1> USE DEF MapsBase
  <1>1. PICK c \in MapsCommand :
              /\ wire' = Append(wire, c) /\ c.step = step
              /\ step \in MapsUnmapSteps => c.h = handle[Maps!RegionOf[step]]
              /\ step \notin MapsUnmapSteps => c.h = 0
    BY MapsSendIs
  <1>2. wire' \in Seq(MapsCommand) /\ Len(wire') = Len(wire) + 1
        /\ (\A i \in 1 .. Len(wire) : wire'[i] = wire[i]) /\ wire'[Len(wire) + 1] = c
    BY <1>1, MapsAppendIs DEF MapsTyped
  <1>3. Len(wire) \in Nat
    BY MapsEmptyIs DEF MapsTyped
  <1>4. MapsTyped'
    <2>1. Maps!NoResult \in [op : MapsOpcodes \cup {"clear"}, ok : BOOLEAN]
      BY DEF Maps!NoResult
    <2> QED BY SMTT(60), <1>2, <2>1, MapsSendIs DEF MapsTyped
  <1>5. MapsFresh'
    <2>1. c.h <= count.handles
      <3>1. count.handles \in Nat
        <4>1. count \in MapsCounts
          BY DEF MapsTyped
        <4> QED BY <4>1, MapsCountsIs
      <3> QED BY <1>1, <3>1, MapsRegions, MapsSendIs DEF MapsFresh, MapsSteps
    <2>2. \A i \in 1 .. Len(wire') : wire'[i].h <= count.handles
      BY <1>2, <1>3, <2>1 DEF MapsFresh
    <2>3. UNCHANGED <<handle, mapped, answers>> /\ count'.handles = count.handles
      BY MapsSendIs
    <2> QED BY <2>2, <2>3 DEF MapsFresh
  <1>6. MapsNamed'
    <2>1. c.step \in MapsUnmapSteps => MapsNames(c.h, Maps!RegionOf[c.step])
      BY <1>1, MapsRegions DEF MapsNamed
    <2>2. \A i \in 1 .. Len(wire') :
            wire'[i].step \in MapsUnmapSteps => MapsNames(wire'[i].h, Maps!RegionOf[wire'[i].step])
      BY <1>2, <1>3, <2>1 DEF MapsNamed
    <2> QED BY <2>2, MapsSendIs DEF MapsNamed, MapsNames
  <1> QED BY <1>4, <1>5, <1>6

\* The DSP's steps: the first command becomes the last answer.
LEMMA MapsCarryIs ==
  ASSUME MapsBase, Maps!Accept \/ Maps!Refuse
  PROVE  /\ wire # <<>> /\ wire[1] \in MapsCommand /\ wire' = Tail(wire)
         /\ UNCHANGED <<step, phase, buffer, handle, config, half, result>>
         /\ \E a \in MapsReply :
              /\ answers' = Append(answers, a)
              /\ a.step = wire[1].step /\ a.op = Maps!Opcode(a.step)
              /\ \/ /\ a.ok /\ a.step \in MapsMapSteps /\ a.h = count.handles + 1
                    /\ mapped' = mapped \cup
                         {[h |-> a.h, region |-> Maps!RegionOf[a.step], buf |-> wire[1].buf]}
                    /\ count'.handles = a.h /\ trouble' = trouble
                 \/ /\ a.ok /\ a.step \in MapsUnmapSteps /\ a.h = 0 /\ UNCHANGED <<count, trouble>>
                    /\ mapped' = {m \in mapped : m.h # wire[1].h}
                 \/ /\ a.ok /\ a.step \in MapsGraphSteps /\ a.h = 0
                    /\ UNCHANGED <<mapped, count, trouble>>
                 \/ /\ ~a.ok /\ a.h = 0 /\ UNCHANGED <<mapped, count>>
                    /\ trouble' = trouble \cup
                         (IF a.step \in MapsUnmapSteps THEN {Maps!RegionOf[a.step]} ELSE {})
         /\ count' \in MapsCounts
  <1> DEFINE c == Head(wire)
             h == count.handles + 1
  <1>1. wire # <<>> /\ wire' = Tail(wire) /\ UNCHANGED <<step, phase, buffer, handle, config, half, result>>
    BY DEF Maps!Accept, Maps!Refuse
  <1>2. c = wire[1] /\ c \in MapsCommand
    BY <1>1, MapsTailIs DEF MapsBase, MapsTyped
  <1>3. c.step \in MapsSteps /\ c.step \in MapsMapSteps \cup MapsUnmapSteps \cup MapsGraphSteps
    BY <1>2 DEF MapsCommand, MapsSteps
  <1>4. Maps!Opcode(c.step) \in MapsOpcodes
    BY <1>3, MapsOpcodeIs DEF MapsOpcodes
  <1>5. count \in MapsCounts
    BY DEF MapsBase, MapsTyped
  <1>6. count.handles \in Nat /\ h \in Nat
    BY <1>5, MapsCountsIs
  <1>7. CASE Maps!Accept
    <2>1. CASE c.step \in MapsMapSteps
      <3> DEFINE a == [op |-> Maps!Opcode(c.step), step |-> c.step, ok |-> TRUE, h |-> h]
      <3>1. a \in MapsReply
        BY <1>3, <1>4, <1>6 DEF MapsReply
      <3>2. /\ answers' = Append(answers, a) /\ count' = [count EXCEPT !.handles = h]
            /\ mapped' = mapped \cup {[h |-> h, region |-> Maps!Maps[c.step], buf |-> c.buf]}
            /\ trouble' = trouble
        BY <1>7, <2>1, MapsDomains DEF Maps!Accept, Maps!Answered
      <3>3. count' \in MapsCounts
        BY <1>5, <1>6, <3>2, MapsCounted
      <3>4. count'.handles = h
        BY <1>5, <3>2 DEF MapsCounts
      <3>5. a.step = c.step /\ a.op = Maps!Opcode(c.step) /\ a.ok /\ a.h = h
        OBVIOUS
      <3> HIDE DEF a, h, c
      <3> QED BY <1>1, <1>2, <2>1, <3>1, <3>2, <3>3, <3>4, <3>5, MapsRegions DEF h
    <2>2. CASE c.step \notin MapsMapSteps
      <3> DEFINE a == [op |-> Maps!Opcode(c.step), step |-> c.step, ok |-> TRUE, h |-> 0]
      <3>1. a \in MapsReply
        BY <1>3, <1>4 DEF MapsReply
      <3>2. /\ answers' = Append(answers, a) /\ count' = count
            /\ mapped' = IF c.step \in MapsUnmapSteps THEN {m \in mapped : m.h # c.h} ELSE mapped
            /\ trouble' = trouble
        BY <1>7, <2>2, MapsDomains DEF Maps!Accept, Maps!Answered
      <3>3. a.step = c.step /\ a.op = Maps!Opcode(c.step) /\ a.ok /\ a.h = 0
        OBVIOUS
      <3> HIDE DEF a, h, c
      <3> QED BY <1>1, <1>2, <1>3, <1>5, <2>2, <3>1, <3>2, <3>3
    <2> QED BY <2>1, <2>2
  <1>8. CASE Maps!Refuse
    <2> DEFINE a == [op |-> Maps!Opcode(c.step), step |-> c.step, ok |-> FALSE, h |-> 0]
    <2>1. a \in MapsReply
      BY <1>3, <1>4 DEF MapsReply
    <2>2. answers' = Append(answers, a) /\ count' = count /\ mapped' = mapped
      BY <1>8 DEF Maps!Refuse, Maps!Answered
    <2>3. trouble' = trouble \cup (IF c.step \in MapsUnmapSteps THEN {Maps!RegionOf[c.step]} ELSE {})
      BY <1>8, MapsDomains, MapsRegions DEF Maps!Refuse
    <2>4. a.step = c.step /\ a.op = Maps!Opcode(c.step) /\ ~a.ok /\ a.h = 0
      OBVIOUS
    <2> HIDE DEF a, h, c
    <2> QED BY <1>1, <1>2, <1>5, <2>1, <2>2, <2>3, <2>4
  <1> QED BY <1>7, <1>8

LEMMA MapsBaseCarry ==
  ASSUME MapsBase, Maps!Accept \/ Maps!Refuse
  PROVE  MapsBase'
  <1>0. MapsTyped /\ MapsFresh /\ MapsNamed
    BY DEF MapsBase
  <1>1. PICK a \in MapsReply :
              /\ answers' = Append(answers, a)
              /\ a.step = wire[1].step /\ a.op = Maps!Opcode(a.step)
              /\ \/ /\ a.ok /\ a.step \in MapsMapSteps /\ a.h = count.handles + 1
                    /\ mapped' = mapped \cup
                         {[h |-> a.h, region |-> Maps!RegionOf[a.step], buf |-> wire[1].buf]}
                    /\ count'.handles = a.h /\ trouble' = trouble
                 \/ /\ a.ok /\ a.step \in MapsUnmapSteps /\ a.h = 0 /\ UNCHANGED <<count, trouble>>
                    /\ mapped' = {m \in mapped : m.h # wire[1].h}
                 \/ /\ a.ok /\ a.step \in MapsGraphSteps /\ a.h = 0
                    /\ UNCHANGED <<mapped, count, trouble>>
                 \/ /\ ~a.ok /\ a.h = 0 /\ UNCHANGED <<mapped, count>>
                    /\ trouble' = trouble \cup
                         (IF a.step \in MapsUnmapSteps THEN {Maps!RegionOf[a.step]} ELSE {})
    BY MapsCarryIs
  <1>2. /\ wire # <<>> /\ wire[1] \in MapsCommand /\ wire' = Tail(wire)
        /\ UNCHANGED <<step, phase, buffer, handle, config, half, result>> /\ count' \in MapsCounts
    BY MapsCarryIs
  <1>3. /\ wire' \in Seq(MapsCommand) /\ Len(wire) \in Nat \ {0} /\ Len(wire') = Len(wire) - 1
        /\ \A i \in 1 .. Len(wire') : i + 1 \in 1 .. Len(wire) /\ wire'[i] = wire[i + 1]
    BY <1>0, <1>2, MapsTailIs DEF MapsTyped
  <1>4. /\ answers' \in Seq(MapsReply) /\ Len(answers') = Len(answers) + 1 /\ Len(answers) \in Nat
        /\ \A i \in 1 .. Len(answers) : answers'[i] = answers[i]
        /\ answers'[Len(answers) + 1] = a /\ answers' # <<>>
    <2>1. answers \in Seq(MapsReply) /\ answers' = Append(answers, a)
      BY <1>0, <1>1 DEF MapsTyped
    <2>2. Len(answers) \in Nat
      BY <2>1, MapsEmptyIs
    <2> QED BY <2>1, <2>2, MapsAppendIs
  <1>13. /\ \A i \in 1 .. Len(answers) : answers[i] \in MapsReply
         /\ \A i \in 1 .. Len(wire) : wire[i] \in MapsCommand
    <2>1. answers \in Seq(MapsReply) /\ wire \in Seq(MapsCommand)
      BY <1>0 DEF MapsTyped
    <2> QED BY <2>1, MapsEmptyIs
  <1>5. count \in MapsCounts /\ count.handles \in Nat /\ count'.handles \in Nat
    BY <1>0, <1>2, MapsCountsIs DEF MapsTyped
  <1>6. count.handles <= count'.handles
    BY <1>1, <1>5
  <1>7. a.h <= count'.handles /\ a.h \in Nat
    BY <1>1, <1>5
  <1>8. mapped' \subseteq [h : Nat, region : Maps!Region, buf : Nat]
    <2>1. wire[1].buf \in Nat
      BY <1>2 DEF MapsCommand
    <2>2. mapped \subseteq [h : Nat, region : Maps!Region, buf : Nat]
      BY <1>0 DEF MapsTyped
    <2>3. a.step \in MapsMapSteps => Maps!RegionOf[a.step] \in Maps!Region
      BY MapsRegions
    <2> QED BY <1>1, <1>7, <2>1, <2>2, <2>3
  <1>9. MapsTyped'
    BY <1>0, <1>2, <1>3, <1>4, <1>8 DEF MapsTyped
  <1>10. MapsFresh'
    <2>1. \A m \in mapped' : m.h \in 1 .. count'.handles
      <3>1. \A m \in mapped : m.h \in 1 .. count'.handles
        BY <1>0, <1>5, <1>6 DEF MapsFresh
      <3> QED BY <1>1, <1>5, <3>1
    <2>2. \A r \in Maps!Region : handle'[r] <= count'.handles
      BY <1>0, <1>2, <1>5, <1>6 DEF MapsFresh, MapsTyped
    <2>3. \A i \in 1 .. Len(answers') : answers'[i].h <= count'.handles
      <3>1. \A i \in 1 .. Len(answers) : answers[i].h \in Nat
        BY <1>13 DEF MapsReply
      <3> QED BY <1>0, <1>4, <1>5, <1>6, <1>7, <3>1 DEF MapsFresh
    <2>4. \A i \in 1 .. Len(wire') : wire'[i].h <= count'.handles
      <3>1. \A i \in 1 .. Len(wire) : wire[i].h \in Nat
        BY <1>13 DEF MapsCommand
      <3>2. \A i \in 1 .. Len(wire) : wire[i].h <= count.handles
        BY <1>0 DEF MapsFresh
      <3>3. \A i \in 1 .. Len(wire) : wire[i].h <= count'.handles
        BY <1>5, <1>6, <3>1, <3>2
      <3> QED BY <1>3, <3>3
    <2> QED BY <2>1, <2>2, <2>3, <2>4 DEF MapsFresh
  <1>11. ASSUME NEW k \in Nat, NEW r \in Maps!Region, k <= count.handles, MapsNames(k, r)
         PROVE  MapsNames(k, r)'
    <2>1. \A m \in mapped' : m \in mapped \/ m.h = count.handles + 1
      BY <1>1
    <2> QED BY <1>5, <1>11, <2>1 DEF MapsNames
  <1>12. MapsNamed'
    <2>1. \A r \in Maps!Region : MapsNames(handle[r], r)'
      <3>1. \A r \in Maps!Region : handle[r] \in Nat /\ handle[r] <= count.handles /\ MapsNames(handle[r], r)
        BY <1>0 DEF MapsTyped, MapsFresh, MapsNamed
      <3> QED BY <1>2, <1>11, <3>1 DEF MapsNames
    <2>2. ASSUME NEW i \in 1 .. Len(answers')
          PROVE  /\ answers'[i].op = Maps!Opcode(answers'[i].step)
                 /\ answers'[i].step \in MapsUnmapSteps => answers'[i].h = 0
                 /\ answers'[i].step \in MapsMapSteps \cup MapsUnmapSteps =>
                      MapsNames(answers[i].h, Maps!RegionOf[answers[i].step])'
      <3>1. CASE i \in 1 .. Len(answers)
        <4>1. answers'[i] = answers[i] /\ answers[i].h \in Nat /\ answers[i].h <= count.handles
          BY <1>0, <1>4, <1>13, <3>1 DEF MapsFresh, MapsReply
        <4>2. /\ answers[i].op = Maps!Opcode(answers[i].step)
              /\ answers[i].step \in MapsUnmapSteps => answers[i].h = 0
              /\ answers[i].step \in MapsMapSteps \cup MapsUnmapSteps =>
                      MapsNames(answers[i].h, Maps!RegionOf[answers[i].step])
          BY <1>0, <3>1 DEF MapsNamed
        <4>3. answers[i].step \in MapsMapSteps \cup MapsUnmapSteps => Maps!RegionOf[answers[i].step] \in Maps!Region
          BY MapsRegions
        <4> QED BY <1>11, <4>1, <4>2, <4>3 DEF MapsNames
      <3>2. CASE i = Len(answers) + 1
        <4>1. answers'[i] = a
          BY <1>4, <3>2
        <4>2. a.step \in MapsUnmapSteps => a.h = 0
          BY <1>1 DEF MapsMapSteps, MapsUnmapSteps, MapsGraphSteps
        <4>3. a.step \in MapsMapSteps \cup MapsUnmapSteps => \A m \in mapped' : m.h = a.h => m.region = Maps!RegionOf[a.step]
          <5>1. \A m \in mapped : m.h \in 1 .. count.handles
            BY <1>0 DEF MapsFresh
          <5>2. CASE a.h = 0
            BY <1>1, <1>5, <5>1, <5>2
          <5>3. CASE a.h # 0
            <6>1. a.h = count.handles + 1 /\ mapped' = mapped \cup
                         {[h |-> a.h, region |-> Maps!RegionOf[a.step], buf |-> wire[1].buf]}
              BY <1>1, <5>3
            <6> QED BY <1>5, <5>1, <6>1
          <5> QED BY <5>2, <5>3
        <4> QED BY <1>1, <4>1, <4>2, <4>3 DEF MapsNames
      <3> QED BY <1>4, <3>1, <3>2
    <2>3. ASSUME NEW i \in 1 .. Len(wire'), wire'[i].step \in MapsUnmapSteps
          PROVE  MapsNames(wire[i].h, Maps!RegionOf[wire[i].step])'
      <3>1. /\ i + 1 \in 1 .. Len(wire) /\ wire'[i] = wire[i + 1]
        BY <1>3, <2>3
      <3>2. wire[i + 1].h \in Nat /\ wire[i + 1].h <= count.handles
        BY <1>0, <1>13, <3>1 DEF MapsFresh, MapsCommand
      <3>3. MapsNames(wire[i + 1].h, Maps!RegionOf[wire[i + 1].step]) /\ Maps!RegionOf[wire[i + 1].step] \in Maps!Region
        BY <1>0, <2>3, <3>1, MapsRegions DEF MapsNamed
      <3> QED BY <1>11, <3>1, <3>2, <3>3 DEF MapsNames
    <2> QED BY <2>1, <2>2, <2>3 DEF MapsNamed, MapsNames
  <1> QED BY <1>9, <1>10, <1>12 DEF MapsBase

LEMMA MapsFillIs ==
  ASSUME MapsBase, Maps!Fill
  PROVE  /\ UNCHANGED <<step, phase, buffer, handle, mapped, config, wire, answers, trouble, count>>
         /\ answers # <<>> /\ ~half /\ half' /\ result'.op = answers[1].op
         /\ result'.ok = (answers[1].ok \/ answers[1].op = "unmap")
         /\ result' \in [op : MapsOpcodes \cup {"clear"}, ok : BOOLEAN]
  <1>1. answers # <<>> /\ answers \in Seq(MapsReply)
    BY DEF MapsBase, MapsTyped, Maps!Fill
  <1>2. Head(answers) = answers[1] /\ answers[1] \in MapsReply
    BY <1>1, MapsTailIs
  <1>3. result' = [op |-> answers[1].op, ok |-> answers[1].ok \/ answers[1].op = "unmap"]
    BY <1>2 DEF Maps!Fill
  <1>4. answers[1].op \in MapsOpcodes /\ answers[1].ok \in BOOLEAN
    BY <1>2 DEF MapsReply
  <1>5. /\ UNCHANGED <<step, phase, buffer, handle, mapped, config, wire, answers, trouble, count>>
        /\ ~half /\ half'
    BY DEF Maps!Fill
  <1> QED BY <1>1, <1>3, <1>4, <1>5

LEMMA MapsRecordIs ==
  ASSUME MapsBase, Maps!Record
  PROVE  /\ UNCHANGED <<step, phase, buffer, mapped, config, wire, result, trouble, count>>
         /\ half /\ answers # <<>> /\ answers' = Tail(answers) /\ ~half' /\ answers[1] \in MapsReply
         /\ handle' = [r \in Maps!Region |->
              IF /\ answers[1].step \in MapsMapSteps \cup MapsUnmapSteps
                 /\ ~(answers[1].op = "map" /\ ~answers[1].ok)
                 /\ r = Maps!RegionOf[answers[1].step] /\ (r = "ring" \/ Maps!GraphLives)
              THEN answers[1].h ELSE handle[r]]
  <1>1. answers # <<>> /\ answers \in Seq(MapsReply) /\ half
    BY DEF MapsBase, MapsTyped, Maps!Record
  <1>2. Head(answers) = answers[1] /\ answers[1] \in MapsReply
    BY <1>1, MapsTailIs
  <1>3. /\ UNCHANGED <<step, phase, buffer, mapped, config, wire, result, trouble, count>>
        /\ answers' = Tail(answers) /\ ~half'
    BY DEF Maps!Record
  <1> DEFINE a == answers[1]
             kept == a.step \notin DOMAIN Maps!RegionOf \/ (a.op = "map" /\ ~a.ok)
  <1>4. handle' = [r \in Maps!Region |->
            IF ~kept /\ r \in Maps!Holder(Maps!RegionOf[a.step]) THEN a.h ELSE handle[r]]
    BY <1>2 DEF Maps!Record
  <1>5. ASSUME NEW r \in Maps!Region
        PROVE  (~kept /\ r \in Maps!Holder(Maps!RegionOf[a.step])) =
                 (/\ a.step \in MapsMapSteps \cup MapsUnmapSteps
                  /\ ~(a.op = "map" /\ ~a.ok)
                  /\ r = Maps!RegionOf[a.step] /\ (r = "ring" \/ Maps!GraphLives))
    BY MapsDomains DEF Maps!Holder
  <1> HIDE DEF kept, a
  <1>6. handle' = [r \in Maps!Region |->
              IF /\ a.step \in MapsMapSteps \cup MapsUnmapSteps
                 /\ ~(a.op = "map" /\ ~a.ok)
                 /\ r = Maps!RegionOf[a.step] /\ (r = "ring" \/ Maps!GraphLives)
              THEN a.h ELSE handle[r]]
    BY <1>4, <1>5
  <1> QED BY <1>1, <1>2, <1>3, <1>6 DEF a

LEMMA MapsBaseFill ==
  ASSUME MapsBase, Maps!Fill
  PROVE  MapsBase'
  <1>1. MapsTyped'
    BY MapsFillIs DEF MapsBase, MapsTyped
  <1>2. MapsFresh' /\ MapsNamed'
    BY MapsFillIs DEF MapsBase, MapsFresh, MapsNamed, MapsNames
  <1> QED BY <1>1, <1>2 DEF MapsBase

LEMMA MapsBaseRecord ==
  ASSUME MapsBase, Maps!Record
  PROVE  MapsBase'
  <1>0. MapsTyped /\ MapsFresh /\ MapsNamed
    BY DEF MapsBase
  <1>1. /\ UNCHANGED <<step, phase, buffer, mapped, config, wire, result, trouble, count>>
        /\ answers # <<>> /\ answers' = Tail(answers) /\ ~half' /\ half' \in BOOLEAN
    BY MapsRecordIs DEF Maps!Record
  <1>2. /\ answers \in Seq(MapsReply) /\ answers[1] \in MapsReply
    BY <1>0, <1>1, MapsRecordIs DEF MapsTyped
  <1>3. /\ answers' \in Seq(MapsReply) /\ Len(answers) \in Nat \ {0} /\ Len(answers') = Len(answers) - 1
        /\ \A i \in 1 .. Len(answers) - 1 : answers'[i] = answers[i + 1]
    BY <1>1, <1>2, MapsTailIs
  <1>4. \A i \in 1 .. Len(answers') : i + 1 \in 1 .. Len(answers) /\ answers'[i] = answers[i + 1]
    BY <1>3
  <1>5. \A r \in Maps!Region : handle'[r] = handle[r]
           \/ (handle'[r] = answers[1].h /\ answers[1].step \in MapsMapSteps \cup MapsUnmapSteps
               /\ r = Maps!RegionOf[answers[1].step])
    BY MapsRecordIs
  <1>6. handle' \in [Maps!Region -> Nat]
    <2>1. answers[1].h \in Nat /\ handle \in [Maps!Region -> Nat]
      BY <1>0, <1>2 DEF MapsReply, MapsTyped
    <2> QED BY <2>1, MapsRecordIs
  <1>7. MapsTyped'
    BY <1>0, <1>1, <1>3, <1>6 DEF MapsTyped
  <1>8. MapsFresh'
    <2>1. \A r \in Maps!Region : handle'[r] <= count.handles
      BY <1>0, <1>3, <1>5 DEF MapsFresh
    <2> QED BY <1>0, <1>1, <1>4, <2>1 DEF MapsFresh
  <1>9. MapsNamed'
    <2>1. \A r \in Maps!Region : MapsNames(handle[r], r)'
      BY <1>0, <1>1, <1>3, <1>5 DEF MapsNamed, MapsNames
    <2>2. ASSUME NEW i \in 1 .. Len(answers')
          PROVE  /\ answers'[i].op = Maps!Opcode(answers'[i].step)
                 /\ answers'[i].step \in MapsUnmapSteps => answers'[i].h = 0
                 /\ answers'[i].step \in MapsMapSteps \cup MapsUnmapSteps =>
                      MapsNames(answers[i].h, Maps!RegionOf[answers[i].step])'
      <3>1. i + 1 \in 1 .. Len(answers) /\ answers'[i] = answers[i + 1]
        BY <1>4
      <3> QED BY <1>0, <1>1, <3>1 DEF MapsNamed, MapsNames
    <2> QED BY <1>0, <1>1, <2>1, <2>2 DEF MapsNamed, MapsNames
  <1> QED BY <1>7, <1>8, <1>9 DEF MapsBase

LEMMA MapsBaseInit == Maps!Init => MapsBase
  <1> SUFFICES ASSUME Maps!Init PROVE MapsBase
    OBVIOUS
  <1>1. MapsTyped
    <2>1. <<>> \in Seq(MapsCommand) /\ <<>> \in Seq(MapsReply)
      OBVIOUS
    <2>2. count \in MapsCounts
      BY DEF Maps!Init, MapsCounts
    <2>3. result \in [op : MapsOpcodes \cup {"clear"}, ok : BOOLEAN]
      BY DEF Maps!Init, Maps!NoResult
    <2> QED BY <2>1, <2>2, <2>3 DEF Maps!Init, MapsTyped, MapsPlaces
  <1>2. Len(<<>>) = 0
    OBVIOUS
  <1>3. count.handles = 0 /\ \A r \in Maps!Region : handle[r] = 0
    BY DEF Maps!Init
  <1>4. MapsFresh /\ MapsNamed
    BY <1>2, <1>3 DEF Maps!Init, MapsFresh, MapsNamed, MapsNames
  <1> QED BY <1>1, <1>4 DEF MapsBase

LEMMA MapsBaseNext ==
  ASSUME MapsBase, [Maps!Next]_Maps!vars
  PROVE  MapsBase'
  <1>1. CASE UNCHANGED Maps!vars
    BY <1>1 DEF Maps!vars, MapsBase, MapsTyped, MapsFresh, MapsNamed, MapsNames
  <1>2. CASE Maps!Rest
    BY <1>2 DEF Maps!Rest, Maps!vars, MapsBase, MapsTyped, MapsFresh, MapsNamed, MapsNames
  <1> QED BY <1>1, <1>2, MapsBaseHost, MapsBaseSend, MapsBaseCarry, MapsBaseFill,
              MapsBaseRecord DEF Maps!Next, Maps!User

-----------------------------------------------------------------------------
\* While every command has been waited out, at most one is under way; what
\* its caller waits for is in the wire, in an answer, filled into the
\* result, or dealt with.  A caller that looked between the callback's two
\* stores leaves the second half of an answer behind.

MapsRegional(s) == s \in MapsMapSteps \cup MapsUnmapSteps

MapsBefore ==
  half => ~MapsRegional(answers[1].step) \/ Maps!RegionOf[answers[1].step] \in trouble
MapsBehind == IF half THEN 1 ELSE 0
MapsAnswer == answers[Len(answers)]

MapsIdle == Len(wire) = 0 /\ Len(answers) = MapsBehind /\ MapsBefore
MapsInWire ==
  /\ Len(wire) = 1 /\ wire[1].step = step /\ result.op = "clear"
  /\ Len(answers) = MapsBehind /\ MapsBefore
MapsInAnswer ==
  /\ Len(wire) = 0 /\ result.op = "clear"
  /\ Len(answers) = MapsBehind + 1 /\ MapsBefore /\ MapsAnswer.step = step
MapsFilled ==
  /\ Len(wire) = 0 /\ result.op = Maps!Opcode(step) /\ half
  /\ Len(answers) = 1 /\ MapsAnswer.step = step
  /\ result.ok = (MapsAnswer.ok \/ MapsAnswer.op = "unmap")
MapsNoted ==
  /\ Len(wire) = 0 /\ result.op = Maps!Opcode(step) /\ ~half /\ Len(answers) = 0

MapsOneAtATime == IF phase = "call" THEN MapsIdle ELSE MapsInWire \/ MapsInAnswer \/ MapsFilled \/ MapsNoted

\* A region outside those steps of the life is mapped, with the handle on
\* record and with its buffer, and only once.
MapsOutside(r) ==
  IF r = "ring" THEN {"unbound", "map_ring"}
  ELSE IF r = "position" THEN {"unbound", "map_ring", "bound", "map_position", "unmap_ring"}
  ELSE MapsPlaces \ {"calibrate", "open", "unmap_oob"}

MapsMine(r) == {m \in mapped : m.region = r}
MapsJust(r, h) == MapsMine(r) = {[h |-> h, region |-> r, buf |-> buffer[r]]}
MapsNothing(r) == MapsMine(r) = {}

MapsSettled(r) ==
  IF step \in MapsOutside(r) THEN handle[r] = 0 /\ MapsNothing(r)
                       ELSE handle[r] # 0 /\ MapsJust(r, handle[r])

\* A region while it is mapped and unmapped: what the DSP has done, and
\* what of it the driver knows.
MapsMapping(r) ==
  /\ MapsInWire => handle[r] = 0 /\ MapsNothing(r) /\ wire[1].buf = buffer[r]
  /\ MapsInAnswer \/ MapsFilled =>
       /\ handle[r] = 0
       /\ IF MapsAnswer.ok THEN MapsAnswer.h # 0 /\ MapsJust(r, MapsAnswer.h) ELSE MapsNothing(r)
  /\ MapsNoted => IF result.ok THEN handle[r] # 0 /\ MapsJust(r, handle[r])
                           ELSE handle[r] = 0 /\ MapsNothing(r)
MapsUnmapping(r) ==
  /\ MapsInWire => wire[1].h = handle[r] /\ MapsJust(r, handle[r])
  /\ MapsInAnswer \/ MapsFilled => MapsNothing(r)
  /\ MapsNoted => handle[r] = 0 /\ MapsNothing(r)

MapsMoving(r) == phase = "wait" /\ MapsRegional(step) /\ Maps!RegionOf[step] = r

MapsRegionKept(r) ==
  IF ~MapsMoving(r) THEN MapsSettled(r)
  ELSE IF step \in MapsMapSteps THEN MapsMapping(r) ELSE MapsUnmapping(r)

MapsConfigured ==
  config # Maps!NoConfig =>
    /\ step = "open"
    /\ \A r \in {"ring", "position"} : r \in trouble \/ config[r] = handle[r]

MapsFollowed ==
  /\ MapsOneAtATime /\ MapsConfigured
  /\ \A r \in Maps!Region : r \in trouble \/ MapsRegionKept(r)

MapsInv == MapsBase /\ ("late" \notin trouble => MapsFollowed)

LEMMA MapsStepsApart ==
  /\ \A s \in MapsMapSteps : s \notin MapsUnmapSteps /\ s \notin MapsGraphSteps /\ s \in MapsOutside(Maps!RegionOf[s])
  /\ \A s \in MapsUnmapSteps : s \notin MapsGraphSteps /\ s \notin MapsOutside(Maps!RegionOf[s])
  <1>1. \A s \in MapsMapSteps : s \notin MapsUnmapSteps /\ s \notin MapsGraphSteps
    BY DEF MapsMapSteps, MapsUnmapSteps, MapsGraphSteps
  <1>2. \A s \in MapsUnmapSteps : s \notin MapsGraphSteps
    BY DEF MapsUnmapSteps, MapsGraphSteps
  <1>3. \A s \in MapsMapSteps : s \in MapsPlaces
    BY DEF MapsPlaces, MapsSteps
  <1>4. \A s \in MapsMapSteps : s \in MapsOutside(Maps!RegionOf[s])
    BY <1>3, MapsRegions DEF MapsOutside, MapsMapSteps
  <1>5. \A s \in MapsUnmapSteps : s \notin MapsOutside(Maps!RegionOf[s])
    BY MapsRegions DEF MapsOutside, MapsUnmapSteps
  <1> QED BY <1>1, <1>2, <1>4, <1>5

LEMMA MapsOpcodeClear == \A s \in MapsSteps : Maps!Opcode(s) # "clear"
BY MapsOpcodeIs DEF MapsSteps, MapsGraphSteps

LEMMA MapsSettledSame ==
  ASSUME NEW r \in Maps!Region, MapsSettled(r), handle'[r] = handle[r], mapped' = mapped,
         buffer'[r] = buffer[r], step' \in MapsOutside(r) <=> step \in MapsOutside(r)
  PROVE  MapsSettled(r)'
BY DEF MapsSettled, MapsJust, MapsNothing, MapsMine, MapsOutside

\* How a step that is over moves each region.
LEMMA MapsOverRegion ==
  ASSUME MapsTyped, step \in MapsSteps, NEW ok \in BOOLEAN, Maps!Over(step, ok),
         NEW r \in Maps!Region
  PROVE  /\ MapsRegional(step) /\ Maps!RegionOf[step] = r =>
              /\ step' \in MapsOutside(r) <=> (step \in MapsUnmapSteps \/ ~ok)
              /\ ok /\ step \in MapsMapSteps => buffer'[r] = buffer[r]
         /\ ~(MapsRegional(step) /\ Maps!RegionOf[step] = r) =>
              /\ step' \in MapsOutside(r) <=> step \in MapsOutside(r)
              /\ buffer'[r] = buffer[r]
  <1>1. step' = (IF ok THEN Maps!Onward[step] ELSE Maps!Back[step])
    BY DEF Maps!Over
  <1>2. buffer'[r] = IF r \in Maps!Freed(step, ok) THEN 0 ELSE buffer[r]
    BY DEF Maps!Over
  <1>3. Maps!Freed(step, ok) = IF step \in MapsUnmapSteps \/ (step \in MapsMapSteps /\ ~ok) THEN {Maps!RegionOf[step]} ELSE {}
    BY MapsDomains DEF Maps!Freed
  <1>4. MapsRegional(step) /\ Maps!RegionOf[step] = r =>
              /\ step' \in MapsOutside(r) <=> (step \in MapsUnmapSteps \/ ~ok)
              /\ ok /\ step \in MapsMapSteps => buffer'[r] = buffer[r]
    <2>1. CASE step \in MapsMapSteps
      <3>1. step \notin MapsUnmapSteps
        BY <2>1, MapsStepsApart
      <3>2. step' \in MapsOutside(Maps!RegionOf[step]) <=> ~ok
        BY <1>1, <2>1, MapsWays, MapsRegions DEF MapsMapSteps, MapsOutside, MapsPlaces,
           MapsSteps, MapsUnmapSteps, MapsGraphSteps
      <3> QED BY <1>2, <1>3, <2>1, <3>1, <3>2
    <2>2. CASE step \in MapsUnmapSteps
      <3>1. step \notin MapsMapSteps
        BY <2>2, MapsStepsApart
      <3>2. step' \in MapsOutside(Maps!RegionOf[step])
        BY <1>1, <2>2, MapsWays, MapsRegions DEF MapsUnmapSteps, MapsOutside, MapsPlaces,
           MapsSteps, MapsMapSteps, MapsGraphSteps
      <3> QED BY <2>2, <3>1, <3>2
    <2> QED BY <2>1, <2>2 DEF MapsRegional
  <1>5. ~(MapsRegional(step) /\ Maps!RegionOf[step] = r) =>
              /\ step' \in MapsOutside(r) <=> step \in MapsOutside(r)
              /\ buffer'[r] = buffer[r]
    <2> SUFFICES ASSUME ~(MapsRegional(step) /\ Maps!RegionOf[step] = r)
                 PROVE  (step' \in MapsOutside(r) <=> step \in MapsOutside(r)) /\ buffer'[r] = buffer[r]
      OBVIOUS
    <2>1. buffer'[r] = buffer[r]
      BY <1>2, <1>3 DEF MapsRegional
    <2>2. \A s \in MapsPlaces : s \in MapsOutside("oob") <=> s \notin {"calibrate", "open", "unmap_oob"}
      BY DEF MapsOutside
    <2>3. step' \in MapsPlaces /\ step \in MapsPlaces
      BY MapsOverIs DEF MapsTyped
    <2>4. CASE r = "ring"
      <3>1. step' \in MapsOutside(r) <=> step \in MapsOutside(r)
        BY <1>1, <2>2, <2>3, <2>4, MapsWays, MapsRegions
           DEF MapsOutside, MapsSteps, MapsMapSteps, MapsUnmapSteps, MapsGraphSteps,
               MapsRegional
      <3> QED BY <2>1, <3>1
    <2>5. CASE r = "position"
      <3>1. step' \in MapsOutside(r) <=> step \in MapsOutside(r)
        BY <1>1, <2>2, <2>3, <2>5, MapsWays, MapsRegions
           DEF MapsOutside, MapsSteps, MapsMapSteps, MapsUnmapSteps, MapsGraphSteps,
               MapsRegional
      <3> QED BY <2>1, <3>1
    <2>6. CASE r = "oob"
      <3>1. step' \in MapsOutside(r) <=> step \in MapsOutside(r)
        BY <1>1, <2>2, <2>3, <2>6, MapsWays, MapsRegions
           DEF MapsOutside, MapsSteps, MapsMapSteps, MapsUnmapSteps, MapsGraphSteps,
               MapsRegional
      <3> QED BY <2>1, <3>1
    <2> QED BY <2>4, <2>5, <2>6 DEF Maps!Region
  <1> QED BY <1>4, <1>5

\* Steps that send and are told nothing leave the channel alone.
LEMMA MapsOneSame ==
  ASSUME MapsOneAtATime, UNCHANGED <<wire, answers, half>>, trouble \subseteq trouble',
         phase = "call", phase' = "call"
  PROVE  MapsOneAtATime'
BY DEF MapsOneAtATime, MapsIdle, MapsBehind, MapsBefore, MapsRegional

LEMMA MapsNotMoving ==
  ASSUME NEW r \in Maps!Region, phase' = "call"
  PROVE  MapsRegionKept(r)' <=> MapsSettled(r)'
BY DEF MapsRegionKept, MapsMoving

LEMMA MapsUserKept ==
  ASSUME MapsBase, MapsFollowed, Maps!User
  PROVE  MapsFollowed'
  <1>0. MapsTyped /\ MapsOneAtATime /\ MapsConfigured
    BY DEF MapsBase, MapsFollowed
  <1>1. phase = "call" /\ phase' = "call" /\ UNCHANGED <<mapped, wire, answers, half>>
        /\ trouble \subseteq trouble'
    <2>1. step \notin MapsSteps
      BY DEF Maps!User, Maps!Bind, Maps!OpenStream, Maps!Configure, Maps!CloseStream,
             Maps!Unbind, MapsSteps, MapsMapSteps, MapsUnmapSteps, MapsGraphSteps
    <2>2. phase = "call"
      BY <1>0, <2>1 DEF MapsTyped
    <2> QED BY <2>2 DEF Maps!User, Maps!Bind, Maps!OpenStream, Maps!Configure,
                Maps!CloseStream, Maps!Unbind
  <1>2. MapsOneAtATime'
    BY <1>0, <1>1, MapsOneSame
  <1>3. \A r \in Maps!Region : r \in trouble \/ MapsSettled(r)
    BY <1>1 DEF MapsFollowed, MapsRegionKept, MapsMoving
  <1>4. SUFFICES MapsConfigured' /\ \A r \in Maps!Region : r \in trouble' \/ MapsSettled(r)'
    BY <1>1, <1>2, MapsNotMoving DEF MapsFollowed
  <1>5. {"ring", "position"} \subseteq Maps!Region /\ Maps!Region = {"ring", "position", "oob"}
    BY DEF Maps!Region
  <1>6. CASE Maps!Bind
    <2>1. /\ step = "unbound" /\ step' = "map_ring" /\ config' = config /\ MapsForgets /\ trouble' = trouble
          /\ \A r \in {"position", "oob"} : handle'[r] = handle[r] /\ buffer'[r] = buffer[r]
      BY <1>0, <1>6, MapsBindIs
    <2>2. MapsConfigured'
      BY <1>0, <2>1 DEF MapsConfigured
    <2>3. step \in MapsPlaces /\ step' \in MapsPlaces
      BY <2>1 DEF MapsPlaces, MapsSteps, MapsMapSteps
    <2>4. ASSUME NEW r \in Maps!Region
          PROVE  step \in MapsOutside(r) /\ step' \in MapsOutside(r)
      BY <2>1, <2>3 DEF MapsOutside
    <2>5. ASSUME NEW r \in Maps!Region, r \notin trouble
          PROVE  MapsSettled(r)'
      <3>1. handle[r] = 0 /\ MapsNothing(r)
        BY <1>3, <2>4, <2>5 DEF MapsSettled
      <3>2. handle'[r] = 0
        BY <2>1, <3>1 DEF MapsForgets
      <3> QED BY <1>1, <2>4, <3>1, <3>2 DEF MapsSettled, MapsNothing, MapsMine, MapsOutside
    <2> QED BY <2>1, <2>2, <2>5
  <1>7. CASE Maps!OpenStream
    <2>1. /\ step = "bound" /\ step' = "map_position" /\ config' = Maps!NoConfig /\ UNCHANGED <<buffer, trouble>>
          /\ handle'["ring"] = handle["ring"] /\ handle'["position"] = 0 /\ handle'["oob"] = 0
      BY <1>0, <1>7, MapsOpenStreamIs
    <2>2. MapsConfigured'
      BY <2>1 DEF MapsConfigured
    <2>3. step \in MapsPlaces /\ step' \in MapsPlaces
      BY <2>1 DEF MapsPlaces, MapsSteps, MapsMapSteps
    <2>4. ASSUME NEW r \in Maps!Region
          PROVE  step' \in MapsOutside(r) <=> step \in MapsOutside(r)
      BY <2>1, <2>3 DEF MapsOutside
    <2>5. step \in MapsOutside("position") /\ step \in MapsOutside("oob")
      BY <2>1, <2>3 DEF MapsOutside
    <2>6. ASSUME NEW r \in Maps!Region, r \notin trouble
          PROVE  MapsSettled(r)'
      <3>1. handle'[r] = handle[r]
        BY <1>3, <1>5, <2>1, <2>5, <2>6 DEF MapsSettled
      <3> QED BY <1>1, <1>3, <2>1, <2>4, <2>6, <3>1, MapsSettledSame
    <2> QED BY <2>1, <2>2, <2>6
  <1>8. CASE Maps!Configure
    <2>1. /\ step = "open" /\ UNCHANGED <<step, handle, buffer, trouble>>
          /\ config' = [ring |-> handle["ring"], position |-> handle["position"]]
      BY <1>8 DEF Maps!Configure
    <2>2. config'["ring"] = handle'["ring"] /\ config'["position"] = handle'["position"]
      BY <2>1
    <2>3. MapsConfigured'
      BY <2>1, <2>2 DEF MapsConfigured
    <2> QED BY <1>1, <1>3, <2>1, <2>3, MapsSettledSame
  <1>9. CASE Maps!CloseStream
    <2>1. step = "open" /\ step' = "unmap_oob" /\ config' = Maps!NoConfig /\ UNCHANGED <<handle, buffer, trouble>>
      BY <1>9 DEF Maps!CloseStream
    <2>2. MapsConfigured'
      BY <2>1 DEF MapsConfigured
    <2>4. ASSUME NEW r \in Maps!Region
          PROVE  step' \in MapsOutside(r) <=> step \in MapsOutside(r)
      BY <2>1 DEF MapsOutside
    <2> QED BY <1>1, <1>3, <2>1, <2>2, <2>4, MapsSettledSame
  <1>10. CASE Maps!Unbind
    <2>1. /\ step = "bound" /\ step' = "unmap_ring" /\ UNCHANGED <<buffer, config>>
          /\ \A r \in {"position", "oob"} : handle'[r] = handle[r]
          /\ \/ handle' = handle /\ trouble' = trouble
             \/ trouble' = trouble \cup {"ring"}
      BY <1>0, <1>10, MapsUnbindIs
    <2>2. MapsConfigured'
      BY <1>0, <2>1 DEF MapsConfigured
    <2>3. step \in MapsPlaces /\ step' \in MapsPlaces
      BY <2>1 DEF MapsPlaces, MapsSteps, MapsUnmapSteps
    <2>4. ASSUME NEW r \in Maps!Region
          PROVE  step' \in MapsOutside(r) <=> step \in MapsOutside(r)
      BY <2>1, <2>3 DEF MapsOutside
    <2>5. ASSUME NEW r \in Maps!Region, r \notin trouble'
          PROVE  handle'[r] = handle[r]
      BY <1>5, <2>1, <2>5
    <2> QED BY <1>1, <1>3, <2>1, <2>2, <2>4, <2>5, MapsSettledSame
  <1> QED BY <1>6, <1>7, <1>8, <1>9, <1>10 DEF Maps!User

LEMMA MapsSkipKept ==
  ASSUME MapsBase, MapsFollowed, Maps!Skip
  PROVE  MapsFollowed'
  <1>0. MapsTyped /\ MapsOneAtATime /\ MapsConfigured
    BY DEF MapsBase, MapsFollowed
  <1>1. /\ UNCHANGED <<mapped, wire, answers, half, handle, config, trouble>>
        /\ step \in MapsSteps /\ Maps!Quiet /\ phase = "call"
    BY <1>0, MapsSkipIs DEF MapsRemote
  <1>2. PICK ok \in BOOLEAN : Maps!Over(step, ok)
    BY <1>0, MapsSkipIs
  <1>3. phase' = "call"
    BY <1>0, <1>1, <1>2, MapsOverIs
  <1>4. MapsOneAtATime'
    BY <1>0, <1>1, <1>3, MapsOneSame
  <1>5. MapsConfigured'
    BY <1>0, <1>1 DEF MapsConfigured, MapsSteps, MapsMapSteps, MapsUnmapSteps, MapsGraphSteps
  <1>6. ASSUME NEW r \in Maps!Region, r \notin trouble
        PROVE  MapsSettled(r)'
    <2>1. MapsSettled(r)
      BY <1>1, <1>6 DEF MapsFollowed, MapsRegionKept, MapsMoving
    <2>2. ~(MapsRegional(step) /\ Maps!RegionOf[step] = r)
      <3> SUFFICES ASSUME MapsRegional(step), Maps!RegionOf[step] = r
                   PROVE  FALSE
        OBVIOUS
      <3>1. CASE step \in MapsMapSteps
        <4>1. handle[r] = 0
          BY <2>1, <3>1, MapsStepsApart DEF MapsSettled
        <4>2. step = "map_ring" /\ handle["ring"] # 0
          BY <1>1, <3>1, MapsStepsApart, MapsDomains DEF Maps!Quiet, MapsMapSteps,
             MapsUnmapSteps
        <4> QED BY <4>1, <4>2, MapsRegions DEF MapsMapSteps
      <3>2. CASE step \in MapsUnmapSteps
        <4>1. handle[r] # 0
          BY <2>1, <3>2, MapsStepsApart DEF MapsSettled
        <4> QED BY <1>1, <3>2, <4>1, MapsDomains DEF Maps!Quiet, MapsUnmapSteps
      <3> QED BY <3>1, <3>2 DEF MapsRegional
    <2>3. buffer'[r] = buffer[r] /\ (step' \in MapsOutside(r) <=> step \in MapsOutside(r))
      BY <1>0, <1>1, <1>2, <2>2, MapsOverRegion
    <2> QED BY <1>1, <2>1, <2>3, MapsSettledSame
  <1> QED BY <1>1, <1>3, <1>4, <1>5, <1>6, MapsNotMoving DEF MapsFollowed

LEMMA MapsSendKept ==
  ASSUME MapsBase, MapsFollowed, Maps!Send
  PROVE  MapsFollowed'
  <1>0. MapsTyped /\ MapsOneAtATime /\ MapsConfigured
    BY DEF MapsBase, MapsFollowed
  <1>1. /\ step \in MapsSteps /\ phase = "call" /\ ~Maps!Quiet /\ phase' = "wait" /\ result' = Maps!NoResult
        /\ UNCHANGED <<step, handle, mapped, config, answers, half, trouble>>
        /\ \A r \in Maps!Region : ~(step \in MapsMapSteps /\ Maps!RegionOf[step] = r) => buffer'[r] = buffer[r]
    BY <1>0, MapsSendIs
  <1>2. PICK c \in MapsCommand :
              /\ wire' = Append(wire, c) /\ c.step = step
              /\ step \in MapsMapSteps => c.buf = buffer'[Maps!RegionOf[step]] /\ c.h = 0
              /\ step \in MapsUnmapSteps => c.h = handle[Maps!RegionOf[step]]
    BY <1>0, MapsSendIs
  <1>3. MapsIdle
    BY <1>0, <1>1 DEF MapsOneAtATime
  <1>4. Len(wire') = 1 /\ wire'[1] = c
    <2>1. wire \in Seq(MapsCommand) /\ Len(wire) = 0
      BY <1>0, <1>3 DEF MapsTyped, MapsIdle
    <2>2. Len(wire') = Len(wire) + 1 /\ wire'[Len(wire) + 1] = c
      BY <1>2, <2>1, MapsAppendIs
    <2> QED BY <2>1, <2>2
  <1>5. MapsInWire'
    BY <1>1, <1>2, <1>3, <1>4 DEF MapsInWire, MapsIdle, Maps!NoResult, MapsBehind, MapsBefore,
       MapsRegional
  <1>6. MapsOneAtATime'
    BY <1>1, <1>5 DEF MapsOneAtATime
  <1>7. ~MapsInAnswer' /\ ~MapsFilled' /\ ~MapsNoted'
    BY <1>4 DEF MapsInAnswer, MapsFilled, MapsNoted
  <1>8. MapsConfigured'
    BY <1>0, <1>1 DEF MapsConfigured
  <1>9. ASSUME NEW r \in Maps!Region, r \notin trouble
        PROVE  MapsRegionKept(r)'
    <2>1. MapsSettled(r)
      BY <1>1, <1>9 DEF MapsFollowed, MapsRegionKept, MapsMoving
    <2>2. CASE MapsRegional(step) /\ Maps!RegionOf[step] = r /\ step \in MapsMapSteps
      <3>1. step \in MapsOutside(r)
        BY <2>2, MapsStepsApart
      <3>2. handle[r] = 0 /\ MapsNothing(r)
        BY <2>1, <3>1 DEF MapsSettled
      <3>3. MapsMapping(r)'
        BY <1>1, <1>2, <1>4, <1>7, <2>2, <3>2 DEF MapsMapping, MapsNothing, MapsMine
      <3> QED BY <1>1, <2>2, <3>3 DEF MapsRegionKept, MapsMoving, MapsRegional
    <2>3. CASE MapsRegional(step) /\ Maps!RegionOf[step] = r /\ step \in MapsUnmapSteps
      <3>1. step \notin MapsOutside(r) /\ step \notin MapsMapSteps
        BY <2>3, MapsStepsApart
      <3>2. MapsJust(r, handle[r])
        BY <2>1, <3>1 DEF MapsSettled
      <3>3. buffer'[r] = buffer[r]
        BY <1>1, <3>1
      <3>4. MapsUnmapping(r)'
        BY <1>1, <1>2, <1>4, <1>7, <2>3, <3>2, <3>3 DEF MapsUnmapping, MapsJust, MapsMine
      <3> QED BY <1>1, <2>3, <3>1, <3>4 DEF MapsRegionKept, MapsMoving, MapsRegional
    <2>4. CASE ~(MapsRegional(step) /\ Maps!RegionOf[step] = r)
      <3>1. buffer'[r] = buffer[r]
        BY <1>1, <2>4 DEF MapsRegional
      <3>2. MapsSettled(r)'
        BY <1>1, <2>1, <3>1, MapsSettledSame
      <3> QED BY <1>1, <2>4, <3>2 DEF MapsRegionKept, MapsMoving, MapsRegional
    <2> QED BY <2>2, <2>3, <2>4 DEF MapsRegional
  <1> QED BY <1>1, <1>6, <1>8, <1>9 DEF MapsFollowed

LEMMA MapsReturnKept ==
  ASSUME MapsBase, MapsFollowed, Maps!Return
  PROVE  MapsFollowed'
  <1>0. MapsTyped /\ MapsOneAtATime /\ MapsConfigured
    BY DEF MapsBase, MapsFollowed
  <1>1. /\ UNCHANGED <<mapped, wire, answers, half, result, handle, config>> /\ step \in MapsSteps
        /\ phase = "wait" /\ result.op = Maps!Opcode(step) /\ Maps!Over(step, result.ok) /\ result.ok \in BOOLEAN
        /\ IF half /\ MapsRegional(step)
           THEN trouble' = trouble \cup {Maps!RegionOf[step]} ELSE trouble' = trouble
    BY <1>0, MapsReturnIs DEF MapsRemote, MapsRegional
  <1>2. phase' = "call"
    BY <1>0, <1>1, MapsOverIs
  <1>3. MapsFilled \/ MapsNoted
    BY <1>0, <1>1, MapsOpcodeClear DEF MapsOneAtATime, MapsInWire, MapsInAnswer
  <1>4. MapsIdle'
    <2>1. CASE MapsFilled
      <3>1. answers[1].step = step
        BY <2>1 DEF MapsFilled, MapsAnswer
      <3> QED BY <1>1, <2>1, <3>1 DEF MapsFilled, MapsIdle, MapsBehind, MapsBefore,
                  MapsRegional
    <2>2. CASE MapsNoted
      BY <1>1, <2>2 DEF MapsNoted, MapsIdle, MapsBehind, MapsBefore
    <2> QED BY <1>3, <2>1, <2>2
  <1>5. MapsOneAtATime'
    BY <1>2, <1>4 DEF MapsOneAtATime
  <1>6. MapsConfigured'
    BY <1>0, <1>1 DEF MapsConfigured, MapsSteps, MapsMapSteps, MapsUnmapSteps, MapsGraphSteps
  <1>7. ASSUME NEW r \in Maps!Region, r \notin trouble'
        PROVE  MapsSettled(r)'
    <2>1. r \notin trouble
      BY <1>1, <1>7
    <2>2. CASE MapsRegional(step) /\ Maps!RegionOf[step] = r
      <3>1. ~half /\ MapsNoted
        BY <1>1, <1>3, <1>7, <2>2 DEF MapsFilled
      <3>2. CASE step \in MapsMapSteps
        <4>1. IF result.ok THEN handle[r] # 0 /\ MapsJust(r, handle[r])
                           ELSE handle[r] = 0 /\ MapsNothing(r)
          BY <1>1, <2>1, <2>2, <3>1, <3>2 DEF MapsFollowed, MapsRegionKept, MapsMoving,
             MapsMapping
        <4>2. step \notin MapsUnmapSteps
          BY <3>2, MapsStepsApart
        <4>3. /\ step' \in MapsOutside(r) <=> ~result.ok
              /\ result.ok => buffer'[r] = buffer[r]
          BY <1>0, <1>1, <2>2, <3>2, <4>2, MapsOverRegion
        <4> QED BY <1>1, <4>1, <4>3 DEF MapsSettled, MapsJust, MapsNothing, MapsMine,
                    MapsOutside
      <3>3. CASE step \in MapsUnmapSteps
        <4>0. step \notin MapsMapSteps
          BY <3>3, MapsStepsApart
        <4>1. handle[r] = 0 /\ MapsNothing(r)
          BY <1>1, <2>1, <2>2, <3>1, <4>0 DEF MapsFollowed, MapsRegionKept, MapsMoving,
             MapsUnmapping
        <4>2. step' \in MapsOutside(r)
          BY <1>0, <1>1, <2>2, <3>3, MapsOverRegion
        <4> QED BY <1>1, <4>1, <4>2 DEF MapsSettled, MapsNothing, MapsMine, MapsOutside
      <3> QED BY <2>2, <3>2, <3>3 DEF MapsRegional
    <2>3. CASE ~(MapsRegional(step) /\ Maps!RegionOf[step] = r)
      <3>1. MapsSettled(r)
        BY <2>1, <2>3 DEF MapsFollowed, MapsRegionKept, MapsMoving
      <3>2. buffer'[r] = buffer[r] /\ (step' \in MapsOutside(r) <=> step \in MapsOutside(r))
        BY <1>0, <1>1, <2>3, MapsOverRegion
      <3> QED BY <1>1, <3>1, <3>2, MapsSettledSame
    <2> QED BY <2>2, <2>3
  <1> QED BY <1>2, <1>5, <1>6, <1>7, MapsNotMoving DEF MapsFollowed

\* The DSP carries out or refuses the one command under way.
LEMMA MapsCarryKept ==
  ASSUME MapsBase, MapsFollowed, Maps!Accept \/ Maps!Refuse
  PROVE  MapsFollowed'
  <1>0. MapsTyped /\ MapsFresh /\ MapsNamed /\ MapsOneAtATime /\ MapsConfigured
    BY DEF MapsBase, MapsFollowed
  <1>1. PICK a \in MapsReply :
              /\ answers' = Append(answers, a)
              /\ a.step = wire[1].step /\ a.op = Maps!Opcode(a.step)
              /\ \/ /\ a.ok /\ a.step \in MapsMapSteps /\ a.h = count.handles + 1
                    /\ mapped' = mapped \cup
                         {[h |-> a.h, region |-> Maps!RegionOf[a.step], buf |-> wire[1].buf]}
                    /\ count'.handles = a.h /\ trouble' = trouble
                 \/ /\ a.ok /\ a.step \in MapsUnmapSteps /\ a.h = 0 /\ UNCHANGED <<count, trouble>>
                    /\ mapped' = {m \in mapped : m.h # wire[1].h}
                 \/ /\ a.ok /\ a.step \in MapsGraphSteps /\ a.h = 0
                    /\ UNCHANGED <<mapped, count, trouble>>
                 \/ /\ ~a.ok /\ a.h = 0 /\ UNCHANGED <<mapped, count>>
                    /\ trouble' = trouble \cup
                         (IF a.step \in MapsUnmapSteps THEN {Maps!RegionOf[a.step]} ELSE {})
    BY MapsCarryIs
  <1>2. /\ wire # <<>> /\ wire' = Tail(wire)
        /\ UNCHANGED <<step, phase, buffer, handle, config, half, result>>
    BY MapsCarryIs
  <1>3. /\ wire \in Seq(MapsCommand) /\ answers \in Seq(MapsReply) /\ half \in BOOLEAN
        /\ step \in MapsPlaces /\ (phase = "wait" => step \in MapsSteps) /\ count \in MapsCounts
        /\ phase \in {"call", "wait"}
    BY <1>0 DEF MapsTyped
  <1>4. Len(wire) # 0
    BY <1>2, <1>3, MapsEmptyIs
  <1>5. phase = "wait" /\ MapsInWire
    BY <1>0, <1>3, <1>4 DEF MapsOneAtATime, MapsIdle, MapsInAnswer, MapsFilled, MapsNoted
  <1>6. Len(wire') = 0
    <2>1. Len(wire') = Len(wire) - 1
      BY <1>2, <1>3, MapsTailIs
    <2> QED BY <1>5, <2>1 DEF MapsInWire
  <1>7. /\ Len(answers) \in Nat /\ Len(answers') = Len(answers) + 1 /\ answers'[Len(answers')] = a
        /\ \A i \in 1 .. Len(answers) : answers'[i] = answers[i]
    <2>1. Len(answers) \in Nat
      BY <1>3, MapsEmptyIs
    <2>2. /\ Len(answers') = Len(answers) + 1 /\ answers'[Len(answers) + 1] = a
          /\ \A i \in 1 .. Len(answers) : answers'[i] = answers[i]
      BY <1>1, <1>3, MapsAppendIs
    <2> QED BY <2>1, <2>2
  <1>8. a.step = step /\ MapsAnswer' = a
    BY <1>1, <1>5, <1>7 DEF MapsInWire, MapsAnswer
  <1>9. trouble \subseteq trouble'
    BY <1>1
  <1>10. MapsBefore'
    <2>1. half => 1 \in 1 .. Len(answers)
      BY <1>5 DEF MapsInWire, MapsBehind
    <2> QED BY <1>2, <1>5, <1>7, <1>9, <2>1 DEF MapsInWire, MapsBefore, MapsRegional
  <1>11. MapsInAnswer'
    <2>1. Len(answers') = MapsBehind' + 1
      BY <1>2, <1>5, <1>7 DEF MapsInWire, MapsBehind
    <2> QED BY <1>2, <1>5, <1>6, <1>8, <1>10, <2>1 DEF MapsInAnswer, MapsInWire
  <1>12. MapsOneAtATime'
    BY <1>2, <1>5, <1>11 DEF MapsOneAtATime
  <1>13. ~MapsInWire' /\ ~MapsNoted'
    <2>1. result'.op = "clear" /\ Maps!Opcode(step') # "clear"
      BY <1>2, <1>3, <1>5, MapsOpcodeClear DEF MapsInWire
    <2> QED BY <1>6, <2>1 DEF MapsInWire, MapsNoted
  <1>14. MapsConfigured'
    BY <1>0, <1>2, <1>9 DEF MapsConfigured
  <1>15. ASSUME NEW r \in Maps!Region, r \notin trouble'
         PROVE  MapsRegionKept(r)'
    <2>1. MapsRegionKept(r)
      BY <1>9, <1>15 DEF MapsFollowed
    <2>2. CASE MapsMoving(r) /\ step \in MapsMapSteps
      <3>1. handle[r] = 0 /\ MapsNothing(r) /\ wire[1].buf = buffer[r]
        BY <1>5, <2>1, <2>2 DEF MapsRegionKept, MapsMapping
      <3>2. step \notin MapsUnmapSteps /\ step \notin MapsGraphSteps
        BY <2>2, MapsStepsApart
      <3>3. CASE a.ok
        <4>1. a.h # 0 /\ mapped' = mapped \cup {[h |-> a.h, region |-> r, buf |-> buffer[r]]}
          <5>1. a.h = count.handles + 1 /\ mapped' = mapped \cup {[h |-> a.h, region |-> r, buf |-> buffer[r]]}
            BY <1>1, <1>8, <2>2, <3>1, <3>2, <3>3 DEF MapsMoving
          <5>2. count.handles \in Nat
            BY <1>3, MapsCountsIs
          <5> QED BY <5>1, <5>2
        <4>2. MapsJust(r, a.h)'
          BY <1>2, <3>1, <4>1 DEF MapsJust, MapsNothing, MapsMine
        <4>3. MapsMapping(r)'
          BY <1>2, <1>8, <1>13, <3>1, <3>3, <4>1, <4>2 DEF MapsMapping, MapsJust, MapsMine
        <4> QED BY <1>2, <2>2, <4>3 DEF MapsRegionKept, MapsMoving, MapsRegional
      <3>4. CASE ~a.ok
        <4>1. mapped' = mapped
          BY <1>1, <3>4
        <4>2. MapsMapping(r)'
          BY <1>2, <1>8, <1>13, <3>1, <3>4, <4>1 DEF MapsMapping, MapsNothing, MapsMine
        <4> QED BY <1>2, <2>2, <4>2 DEF MapsRegionKept, MapsMoving, MapsRegional
      <3> QED BY <3>3, <3>4
    <2>3. CASE MapsMoving(r) /\ step \notin MapsMapSteps
      <3>1. step \in MapsUnmapSteps /\ step \notin MapsGraphSteps
        BY <2>3, MapsStepsApart DEF MapsMoving, MapsRegional
      <3>2. wire[1].h = handle[r] /\ MapsJust(r, handle[r])
        BY <1>5, <2>1, <2>3 DEF MapsRegionKept, MapsUnmapping
      <3>3. a.ok
        BY <1>1, <1>8, <1>15, <2>3, <3>1 DEF MapsMoving
      <3>4. mapped' = {m \in mapped : m.h # wire[1].h}
        BY <1>1, <1>8, <2>3, <3>1, <3>3
      <3>5. MapsNothing(r)'
        BY <3>2, <3>4 DEF MapsNothing, MapsJust, MapsMine
      <3>6. MapsUnmapping(r)'
        BY <1>13, <3>5 DEF MapsUnmapping
      <3> QED BY <1>2, <2>3, <3>6 DEF MapsRegionKept, MapsMoving, MapsRegional
    <2>4. CASE ~MapsMoving(r)
      <3>1. MapsSettled(r)
        BY <2>1, <2>4 DEF MapsRegionKept
      <3>2. ~(MapsRegional(step) /\ Maps!RegionOf[step] = r)
        BY <1>5, <2>4 DEF MapsMoving
      <3>3. MapsMine(r)' = MapsMine(r)
        <4>1. CASE mapped' = mapped
          BY <4>1 DEF MapsMine
        <4>2. CASE /\ a.ok /\ a.step \in MapsMapSteps
                   /\ mapped' = mapped \cup
                         {[h |-> a.h, region |-> Maps!RegionOf[a.step], buf |-> wire[1].buf]}
          <5>1. Maps!RegionOf[a.step] # r
            BY <1>8, <3>2, <4>2 DEF MapsRegional
          <5> QED BY <4>2, <5>1 DEF MapsMine
        <4>3. CASE a.step \in MapsUnmapSteps /\ mapped' = {m \in mapped : m.h # wire[1].h}
          <5>1. Maps!RegionOf[step] # r
            BY <1>8, <3>2, <4>3 DEF MapsRegional
          <5>2. MapsNames(wire[1].h, Maps!RegionOf[step])
            <6>1. 1 \in 1 .. Len(wire) /\ wire[1].step = step
              BY <1>5 DEF MapsInWire
            <6> QED BY <1>0, <1>8, <4>3, <6>1 DEF MapsNamed
          <5> QED BY <4>3, <5>1, <5>2 DEF MapsMine, MapsNames
        <4> QED BY <1>1, <4>1, <4>2, <4>3
      <3>4. MapsSettled(r)'
        BY <1>2, <3>1, <3>3 DEF MapsSettled, MapsJust, MapsNothing, MapsOutside
      <3> QED BY <1>2, <2>4, <3>4 DEF MapsRegionKept, MapsMoving, MapsRegional
    <2> QED BY <2>2, <2>3, <2>4
  <1> QED BY <1>12, <1>14, <1>15 DEF MapsFollowed

LEMMA MapsFillKept ==
  ASSUME MapsBase, MapsFollowed, Maps!Fill
  PROVE  MapsFollowed'
  <1>0. MapsTyped /\ MapsNamed /\ MapsOneAtATime /\ MapsConfigured
    BY DEF MapsBase, MapsFollowed
  <1>1. /\ UNCHANGED <<step, phase, buffer, handle, mapped, config, wire, answers, trouble, count>>
        /\ answers # <<>> /\ ~half /\ half' /\ result'.op = answers[1].op
        /\ result'.ok = (answers[1].ok \/ answers[1].op = "unmap")
    BY MapsFillIs
  <1>2. answers \in Seq(MapsReply) /\ phase \in {"call", "wait"} /\ (phase = "wait" => step \in MapsSteps)
    BY <1>0 DEF MapsTyped
  <1>3. Len(answers) # 0
    BY <1>1, <1>2, MapsEmptyIs
  <1>4. phase = "wait" /\ MapsInAnswer /\ Len(answers) = 1
    BY <1>0, <1>1, <1>2, <1>3 DEF MapsOneAtATime, MapsIdle, MapsInWire, MapsInAnswer,
       MapsFilled, MapsNoted, MapsBehind
  <1>5. MapsAnswer = answers[1] /\ MapsAnswer' = MapsAnswer /\ MapsAnswer.step = step
    BY <1>1, <1>4 DEF MapsAnswer, MapsInAnswer
  <1>6. MapsAnswer.op = Maps!Opcode(step)
    <2>1. 1 \in 1 .. Len(answers)
      BY <1>4
    <2> QED BY <1>0, <1>5, <2>1 DEF MapsNamed
  <1>7. MapsFilled'
    BY <1>1, <1>4, <1>5, <1>6 DEF MapsFilled, MapsInAnswer
  <1>8. MapsOneAtATime'
    BY <1>1, <1>4, <1>7 DEF MapsOneAtATime
  <1>9. ~MapsInWire' /\ ~MapsNoted'
    BY <1>1, <1>4 DEF MapsInWire, MapsNoted, MapsInAnswer
  <1>10. MapsConfigured'
    BY <1>0, <1>1 DEF MapsConfigured
  <1>11. ASSUME NEW r \in Maps!Region, r \notin trouble
         PROVE  MapsRegionKept(r)'
    <2>1. MapsRegionKept(r)
      BY <1>11 DEF MapsFollowed
    <2>2. CASE MapsMoving(r) /\ step \in MapsMapSteps
      <3>1. MapsMapping(r)
        BY <2>1, <2>2 DEF MapsRegionKept
      <3>2. MapsMapping(r)'
        BY <1>1, <1>4, <1>5, <1>9, <3>1 DEF MapsMapping, MapsJust, MapsNothing, MapsMine
      <3> QED BY <1>1, <2>2, <3>2 DEF MapsRegionKept, MapsMoving, MapsRegional
    <2>3. CASE MapsMoving(r) /\ step \notin MapsMapSteps
      <3>1. MapsUnmapping(r)
        BY <2>1, <2>3 DEF MapsRegionKept
      <3>2. MapsUnmapping(r)'
        BY <1>1, <1>4, <1>9, <3>1 DEF MapsUnmapping, MapsNothing, MapsMine
      <3> QED BY <1>1, <2>3, <3>2 DEF MapsRegionKept, MapsMoving, MapsRegional
    <2>4. CASE ~MapsMoving(r)
      <3>1. MapsSettled(r)'
        BY <1>1, <2>1, <2>4, MapsSettledSame DEF MapsRegionKept
      <3> QED BY <1>1, <2>4, <3>1 DEF MapsRegionKept, MapsMoving, MapsRegional
    <2> QED BY <2>2, <2>3, <2>4
  <1> QED BY <1>1, <1>8, <1>10, <1>11 DEF MapsFollowed

LEMMA MapsRecordKept ==
  ASSUME MapsBase, MapsFollowed, Maps!Record
  PROVE  MapsFollowed'
  <1>0. MapsTyped /\ MapsNamed /\ MapsOneAtATime /\ MapsConfigured
    BY DEF MapsBase, MapsFollowed
  <1>1. /\ UNCHANGED <<step, phase, buffer, mapped, config, wire, result, trouble, count>>
        /\ half /\ answers # <<>> /\ answers' = Tail(answers) /\ ~half'
    BY MapsRecordIs
  <1>2. \A r \in Maps!Region : handle'[r] =
              IF /\ answers[1].step \in MapsMapSteps \cup MapsUnmapSteps
                 /\ ~(answers[1].op = "map" /\ ~answers[1].ok)
                 /\ r = Maps!RegionOf[answers[1].step] /\ (r = "ring" \/ Maps!GraphLives)
              THEN answers[1].h ELSE handle[r]
    BY MapsRecordIs
  <1>3. answers \in Seq(MapsReply) /\ phase \in {"call", "wait"} /\ (phase = "wait" => step \in MapsSteps)
    BY <1>0 DEF MapsTyped
  <1>4. /\ Len(answers) \in Nat \ {0} /\ Len(answers') = Len(answers) - 1
        /\ \A i \in 1 .. Len(answers) - 1 : answers'[i] = answers[i + 1]
    BY <1>1, <1>3, MapsTailIs
  <1>5. config = Maps!NoConfig \/ step = "open"
    BY <1>0 DEF MapsConfigured
  <1>6. CASE MapsFilled /\ phase = "wait"
    <2>1. answers[1] = MapsAnswer /\ MapsAnswer.step = step /\ Len(answers') = 0 /\ step \in MapsSteps
      BY <1>3, <1>4, <1>6 DEF MapsFilled, MapsAnswer
    <2>2. MapsNoted'
      BY <1>1, <1>6, <2>1 DEF MapsNoted, MapsFilled
    <2>3. MapsOneAtATime'
      BY <1>1, <1>6, <2>2 DEF MapsOneAtATime
    <2>4. MapsConfigured'
      BY <1>1, <1>5, <2>1 DEF MapsConfigured, MapsSteps, MapsMapSteps, MapsUnmapSteps,
         MapsGraphSteps
    <2>5. ~MapsInWire' /\ ~MapsInAnswer' /\ ~MapsFilled'
      <3>1. result.op = Maps!Opcode(step) /\ Maps!Opcode(step) # "clear" /\ Len(wire) = 0
        BY <1>6, <2>1, MapsOpcodeClear DEF MapsFilled
      <3>2. result'.op # "clear" /\ ~half'
        BY <1>1, <3>1
      <3> QED BY <3>2 DEF MapsInWire, MapsInAnswer, MapsFilled
    <2>6. 1 \in 1 .. Len(answers)
      BY <1>4
    <2>7. /\ MapsAnswer.op = Maps!Opcode(step) /\ (step \in MapsUnmapSteps => MapsAnswer.h = 0)
          /\ result.ok = (MapsAnswer.ok \/ MapsAnswer.op = "unmap")
      BY <1>0, <1>6, <2>1, <2>6 DEF MapsNamed, MapsFilled
    <2>8. ASSUME NEW r \in Maps!Region, r \notin trouble
          PROVE  MapsRegionKept(r)'
      <3>1. MapsRegionKept(r)
        BY <2>8 DEF MapsFollowed
      <3>2. CASE MapsMoving(r) /\ step \in MapsMapSteps
        <4>1. /\ handle[r] = 0
              /\ IF MapsAnswer.ok THEN MapsAnswer.h # 0 /\ MapsJust(r, MapsAnswer.h) ELSE MapsNothing(r)
          BY <1>6, <3>1, <3>2 DEF MapsRegionKept, MapsMapping
        <4>2. MapsAnswer.op = "map"
          BY <2>7, <3>2, MapsOpcodeIs
        <4>3. MapsAnswer.ok \in BOOLEAN /\ result.ok \in BOOLEAN
          <5>1. MapsAnswer \in MapsReply
            BY <2>1, MapsRecordIs
          <5>2. result.ok \in BOOLEAN
            BY <1>0 DEF MapsTyped
          <5> QED BY <5>1, <5>2 DEF MapsReply
        <4>7. result.ok = MapsAnswer.ok
          BY <2>7, <4>2, <4>3
        <4>4. r = "ring" \/ Maps!GraphLives
          BY <3>2, MapsRegions DEF MapsMoving, MapsMapSteps, Maps!GraphLives
        <4>5. handle'[r] = IF MapsAnswer.ok THEN MapsAnswer.h ELSE 0
          BY <1>2, <2>1, <3>2, <4>1, <4>2, <4>4 DEF MapsMoving, MapsRegional
        <4>6. MapsMapping(r)'
          BY <1>1, <2>5, <4>1, <4>5, <4>7 DEF MapsMapping, MapsJust, MapsNothing, MapsMine
        <4> QED BY <1>1, <3>2, <4>6 DEF MapsRegionKept, MapsMoving, MapsRegional
      <3>3. CASE MapsMoving(r) /\ step \notin MapsMapSteps
        <4>0. step \in MapsUnmapSteps
          BY <3>3 DEF MapsMoving, MapsRegional
        <4>1. MapsNothing(r)
          BY <1>6, <3>1, <3>3 DEF MapsRegionKept, MapsUnmapping
        <4>2. MapsAnswer.op # "map" /\ MapsAnswer.h = 0
          BY <2>7, <4>0, MapsOpcodeIs
        <4>4. r = "ring" \/ Maps!GraphLives
          BY <3>3, <4>0, MapsRegions DEF MapsMoving, MapsUnmapSteps, Maps!GraphLives
        <4>5. handle'[r] = 0
          BY <1>2, <2>1, <3>3, <4>0, <4>2, <4>4 DEF MapsMoving, MapsRegional
        <4>6. MapsUnmapping(r)'
          BY <1>1, <2>5, <4>1, <4>5 DEF MapsUnmapping, MapsNothing, MapsMine
        <4> QED BY <1>1, <3>3, <4>6 DEF MapsRegionKept, MapsMoving, MapsRegional
      <3>4. CASE ~MapsMoving(r)
        <4>1. ~(MapsRegional(step) /\ Maps!RegionOf[step] = r)
          BY <1>6, <3>4 DEF MapsMoving
        <4>2. handle'[r] = handle[r]
          BY <1>2, <2>1, <4>1 DEF MapsRegional
        <4>3. MapsSettled(r)'
          BY <1>1, <3>1, <3>4, <4>2, MapsSettledSame DEF MapsRegionKept
        <4> QED BY <1>1, <3>4, <4>3 DEF MapsRegionKept, MapsMoving, MapsRegional
      <3> QED BY <3>2, <3>3, <3>4
    <2> QED BY <1>1, <2>3, <2>4, <2>8 DEF MapsFollowed
  <1>7. CASE ~(MapsFilled /\ phase = "wait")
    <2>1. /\ MapsBefore
          /\ \/ phase = "call" /\ MapsIdle
             \/ phase = "wait" /\ MapsInWire
             \/ phase = "wait" /\ MapsInAnswer
      BY <1>0, <1>1, <1>3, <1>7 DEF MapsOneAtATime, MapsIdle, MapsInWire, MapsInAnswer,
         MapsNoted
    <2>2. ASSUME NEW r \in Maps!Region, r \notin trouble
          PROVE  handle'[r] = handle[r]
      BY <1>1, <1>2, <2>1, <2>2 DEF MapsBefore, MapsRegional
    <2>3. Len(answers) = (IF MapsInAnswer THEN 2 ELSE 1)
      BY <1>1, <2>1 DEF MapsIdle, MapsInWire, MapsInAnswer, MapsBehind
    <2>4. MapsInAnswer => MapsAnswer' = MapsAnswer
      <3> SUFFICES ASSUME MapsInAnswer PROVE MapsAnswer' = MapsAnswer
        OBVIOUS
      <3>1. Len(answers) = 2 /\ Len(answers') = 1 /\ answers'[1] = answers[2]
        BY <1>4, <2>3
      <3> QED BY <3>1 DEF MapsAnswer
    <2>5. MapsBefore' /\ MapsBehind' = 0
      BY <1>1 DEF MapsBefore, MapsBehind
    <2>6. /\ (phase = "call" /\ MapsIdle => MapsIdle') /\ (MapsInWire => MapsInWire')
          /\ (MapsInAnswer => MapsInAnswer')
      <3>1. Len(answers') = IF MapsInAnswer THEN 1 ELSE 0
        BY <1>4, <2>3
      <3>2. MapsInWire => ~MapsInAnswer
        BY DEF MapsInWire, MapsInAnswer
      <3>3. MapsIdle => ~MapsInAnswer
        BY <1>1 DEF MapsIdle, MapsInAnswer, MapsBehind
      <3> QED BY <1>1, <2>4, <2>5, <3>1, <3>2, <3>3 DEF MapsIdle, MapsInWire, MapsInAnswer
    <2>7. MapsOneAtATime'
      BY <1>1, <2>1, <2>6 DEF MapsOneAtATime
    <2>8. MapsConfigured'
      BY <1>0, <1>1, <2>2 DEF MapsConfigured, Maps!Region
    <2>9. phase = "wait" => ~MapsFilled' /\ ~MapsNoted' /\ (MapsInWire \/ MapsInAnswer)
                            /\ (MapsInWire' => MapsInWire) /\ (MapsInAnswer' => MapsInAnswer)
      <3> SUFFICES ASSUME phase = "wait"
                   PROVE  ~MapsFilled' /\ ~MapsNoted' /\ (MapsInWire \/ MapsInAnswer)
                            /\ (MapsInWire' => MapsInWire) /\ (MapsInAnswer' => MapsInAnswer)
        OBVIOUS
      <3>1. MapsInWire \/ MapsInAnswer
        BY <2>1
      <3>2. ~MapsFilled'
        BY <1>1 DEF MapsFilled
      <3>3. result.op = "clear" /\ Maps!Opcode(step) # "clear"
        BY <1>3, <3>1, MapsOpcodeClear DEF MapsInWire, MapsInAnswer
      <3>4. ~MapsNoted'
        BY <1>1, <3>3 DEF MapsNoted
      <3>5. MapsInWire' => ~MapsInAnswer'
        BY DEF MapsInWire, MapsInAnswer
      <3> QED BY <2>6, <3>1, <3>2, <3>4, <3>5
    <2>10. ASSUME NEW r \in Maps!Region, r \notin trouble
           PROVE  MapsRegionKept(r)'
      <3>1. MapsRegionKept(r) /\ handle'[r] = handle[r]
        BY <2>2, <2>10 DEF MapsFollowed
      <3>2. CASE MapsMoving(r) /\ step \in MapsMapSteps
        <4>1. MapsMapping(r)
          BY <3>1, <3>2 DEF MapsRegionKept
        <4>2. MapsMapping(r)'
          BY <1>1, <2>4, <2>9, <3>1, <3>2, <4>1 DEF MapsMapping, MapsJust, MapsNothing,
             MapsMine, MapsMoving
        <4> QED BY <1>1, <3>2, <4>2 DEF MapsRegionKept, MapsMoving, MapsRegional
      <3>3. CASE MapsMoving(r) /\ step \notin MapsMapSteps
        <4>1. MapsUnmapping(r)
          BY <3>1, <3>3 DEF MapsRegionKept
        <4>2. MapsUnmapping(r)'
          BY <1>1, <2>9, <3>1, <3>3, <4>1 DEF MapsUnmapping, MapsJust, MapsNothing, MapsMine,
             MapsMoving
        <4> QED BY <1>1, <3>3, <4>2 DEF MapsRegionKept, MapsMoving, MapsRegional
      <3>4. CASE ~MapsMoving(r)
        <4>1. MapsSettled(r)'
          BY <1>1, <3>1, <3>4, MapsSettledSame DEF MapsRegionKept
        <4> QED BY <1>1, <3>4, <4>1 DEF MapsRegionKept, MapsMoving, MapsRegional
      <3> QED BY <3>2, <3>3, <3>4
    <2> QED BY <1>1, <2>7, <2>8, <2>10 DEF MapsFollowed
  <1> QED BY <1>6, <1>7

-----------------------------------------------------------------------------
LEMMA MapsInvInit == Maps!Init => MapsInv
  <1> SUFFICES ASSUME Maps!Init PROVE MapsInv
    OBVIOUS
  <1>1. MapsBase
    BY MapsBaseInit
  <1>2. Len(wire) = 0 /\ Len(answers) = 0
    BY DEF Maps!Init
  <1>3. MapsOneAtATime
    BY <1>2 DEF Maps!Init, MapsOneAtATime, MapsIdle, MapsBehind, MapsBefore
  <1>4. \A r \in Maps!Region : step \in MapsOutside(r)
    BY DEF Maps!Init, MapsOutside, MapsPlaces
  <1>5. \A r \in Maps!Region : MapsRegionKept(r)
    BY <1>4 DEF Maps!Init, MapsRegionKept, MapsMoving, MapsSettled, MapsNothing, MapsMine
  <1> QED BY <1>1, <1>3, <1>5 DEF MapsInv, MapsFollowed, MapsConfigured, Maps!Init

LEMMA MapsInvNext ==
  ASSUME MapsInv, [Maps!Next]_Maps!vars
  PROVE  MapsInv'
  <1>1. MapsBase /\ MapsBase'
    BY MapsBaseNext DEF MapsInv
  <1>2. SUFFICES ASSUME "late" \notin trouble'
                 PROVE  MapsFollowed'
    BY <1>1 DEF MapsInv
  <1>3. CASE UNCHANGED Maps!vars \/ Maps!Rest
    BY <1>2, <1>3 DEF MapsInv, Maps!Rest, Maps!vars, MapsFollowed, MapsOneAtATime, MapsIdle,
       MapsInWire, MapsInAnswer, MapsFilled, MapsNoted,
       MapsBefore, MapsBehind, MapsAnswer, MapsConfigured, MapsRegionKept, MapsMoving,
       MapsSettled, MapsMapping, MapsUnmapping, MapsJust,
       MapsNothing, MapsMine, MapsRegional, MapsOutside
  <1>4. ASSUME "late" \notin trouble
        PROVE  MapsFollowed
    BY <1>4 DEF MapsInv
  <1>5. CASE Maps!User
    <2>1. trouble \subseteq trouble'
      BY <1>5 DEF Maps!User, Maps!Bind, Maps!OpenStream, Maps!Configure, Maps!CloseStream,
         Maps!Unbind
    <2> QED BY <1>1, <1>2, <1>4, <1>5, <2>1, MapsUserKept
  <1>6. CASE Maps!Skip
    BY <1>1, <1>2, <1>4, <1>6, MapsSkipKept DEF Maps!Skip
  <1>7. CASE Maps!Send
    BY <1>1, <1>2, <1>4, <1>7, MapsSendKept DEF Maps!Send
  <1>8. CASE Maps!Return
    <2>1. trouble \subseteq trouble'
      BY <1>8 DEF Maps!Return
    <2> QED BY <1>1, <1>2, <1>4, <1>8, <2>1, MapsReturnKept
  <1>9. CASE Maps!GiveUp
    BY <1>2, <1>9 DEF Maps!GiveUp
  <1>10. CASE Maps!Accept \/ Maps!Refuse
    <2>1. trouble \subseteq trouble'
      BY <1>10 DEF Maps!Accept, Maps!Refuse
    <2> QED BY <1>1, <1>2, <1>4, <1>10, <2>1, MapsCarryKept
  <1>11. CASE Maps!Fill
    BY <1>1, <1>2, <1>4, <1>11, MapsFillKept DEF Maps!Fill
  <1>12. CASE Maps!Record
    BY <1>1, <1>2, <1>4, <1>12, MapsRecordKept DEF Maps!Record
  <1> QED BY <1>3, <1>5, <1>6, <1>7, <1>8, <1>9, <1>10, <1>11, <1>12 DEF Maps!Next

\* The inductive invariant, for any numbers of PCMs, streams and late
\* answers: until one is late, at most one command is under way, and what
\* the DSP has mapped of an untroubled region is what the driver thinks
\* (q6apm_map_memory_fixed_region, apm_callback).
THEOREM MapsInvCorrect == Maps!Spec => []MapsInv
  <1>1. MapsInv /\ UNCHANGED Maps!vars => MapsInv'
    BY MapsInvNext
  <1> QED BY MapsInvInit, MapsInvNext, PTL DEF Maps!Spec

LEMMA MapsFollowFromInv == MapsInv => Maps!MapsFollowBuffers
  <1> SUFFICES ASSUME MapsInv PROVE Maps!MapsFollowBuffers
    OBVIOUS
  <1>1. Maps!RecordsAreOwn
    BY DEF MapsInv, MapsBase, MapsNamed, MapsNames, Maps!RecordsAreOwn
  <1>2. SUFFICES ASSUME "late" \notin trouble
                 PROVE  /\ \A m \in mapped : m.region \in trouble \/ m.buf = buffer[m.region]
                        /\ config # Maps!NoConfig =>
                             \A r \in {"ring", "position"} : r \in trouble \/ Maps!Own(r, config[r])
    BY <1>1 DEF Maps!MapsFollowBuffers
  <1>3. MapsFollowed /\ MapsOneAtATime /\ MapsTyped
    BY <1>2 DEF MapsInv, MapsFollowed, MapsBase
  <1>4. ASSUME NEW r \in Maps!Region, r \notin trouble
        PROVE  \A m \in mapped : m.region = r => m.buf = buffer[r]
    <2>1. MapsRegionKept(r)
      BY <1>3, <1>4 DEF MapsFollowed
    <2>2. (\E h : MapsJust(r, h)) \/ MapsNothing(r)
      <3>1. CASE ~MapsMoving(r)
        BY <2>1, <3>1 DEF MapsRegionKept, MapsSettled
      <3>2. CASE MapsMoving(r) /\ step \in MapsMapSteps
        BY <1>3, <2>1, <3>2 DEF MapsRegionKept, MapsMoving, MapsOneAtATime, MapsMapping
      <3>3. CASE MapsMoving(r) /\ step \notin MapsMapSteps
        BY <1>3, <2>1, <3>3 DEF MapsRegionKept, MapsMoving, MapsOneAtATime, MapsUnmapping
      <3> QED BY <3>1, <3>2, <3>3
    <2> QED BY <2>2 DEF MapsJust, MapsNothing, MapsMine
  <1>5. \A m \in mapped : m.region \in Maps!Region
    BY <1>3 DEF MapsTyped
  <1>6. ASSUME config # Maps!NoConfig, NEW r \in {"ring", "position"}, r \notin trouble
        PROVE  Maps!Own(r, config[r])
    <2>1. step = "open" /\ config[r] = handle[r] /\ r \in Maps!Region
      BY <1>3, <1>6 DEF MapsFollowed, MapsConfigured, Maps!Region
    <2>2. ~MapsMoving(r)
      BY <2>1 DEF MapsMoving, MapsRegional, MapsMapSteps, MapsUnmapSteps
    <2>3. step \notin MapsOutside(r)
      BY <2>1 DEF MapsOutside
    <2>4. MapsJust(r, handle[r])
      BY <1>3, <1>6, <2>1, <2>2, <2>3 DEF MapsFollowed, MapsRegionKept, MapsSettled
    <2> QED BY <2>1, <2>4 DEF MapsJust, MapsMine, Maps!Own
  <1> QED BY <1>4, <1>5, <1>6

\* No buffer is freed while the DSP has it mapped, and a stream's DSP
\* pulls from the stream's own buffers, for any numbers of PCMs and
\* streams, up to the histories that MapsFollowBuffers names
\* (q6apm_unmap_memory_fixed_region, q6apm_dai_pcm_free).
THEOREM MapsFollowCorrect == Maps!Spec => []Maps!MapsFollowBuffers
BY MapsInvCorrect, MapsFollowFromInv, PTL

-----------------------------------------------------------------------------
\* The parts in the whole.

\* A part stands still while another goes on.
LEMMA PartsGoOn ==
  /\ CallsSpec => Spec
  /\ CallsSpec => Pause!Init /\ [][Pause!Next]_pauseVars
  /\ CallsSpec => Maps!Init /\ [][Maps!Next]_mapsVars
  <1>1. CallsInit => Init /\ Pause!Init /\ Maps!Init
    BY DEF CallsInit
  <1>2. [CallsNext]_callsVars => [Next]_vars
    BY DEF CallsNext, callsVars
  <1>3. [CallsNext]_callsVars => [Pause!Next]_pauseVars
    BY DEF CallsNext, callsVars
  <1>4. [CallsNext]_callsVars => [Maps!Next]_mapsVars
    BY DEF CallsNext, callsVars
  <1> QED BY <1>1, <1>2, <1>3, <1>4, PTL DEF CallsSpec, Spec

\* What a caller is told is real in the whole, too (CmdSync).
THEOREM CallsAnswersCorrect == CallsSpec => AnswersAreReal
BY PartsGoOn, AnswersRealCorrect

\* What the host believes about a pause is so and it acts on it, and a
\* stream ALSA takes for running reacts to watermarks, whatever is
\* refused, late or lost, up to what PauseIsAgreed names
\* (q6apm_dai_sp11_soft_pause, q6apm_dai_trigger).
THEOREM CallsPauseCorrect == CallsSpec => []PauseIsAgreed
  <1>1. [Pause!Next]_pauseVars => [Pause!Next]_Pause!vars
    BY DEF Pause!vars, pauseVars
  <1>2. CallsSpec => Pause!Spec
    BY <1>1, PartsGoOn, PTL DEF Pause!Spec
  <1>3. Pause!Spec => []Pause!PauseIsAgreed
    BY CallsAssumption, PauseIsAgreedCorrect
  <1>4. Pause!PauseIsAgreed => PauseIsAgreed
    BY DEF PauseIsAgreed
  <1> QED BY <1>2, <1>3, <1>4, PTL

\* No buffer is freed while the DSP has it mapped, and a stream's DSP
\* pulls from the stream's own buffers, for any numbers of PCMs and
\* streams, up to the histories that MapsFollowBuffers names
\* (q6apm_unmap_memory_fixed_region, q6apm_dai_pcm_free).
THEOREM CallsMapsCorrect == CallsSpec => []MapsFollowBuffers
  <1>1. [Maps!Next]_mapsVars => [Maps!Next]_Maps!vars
    BY DEF Maps!vars, mapsVars
  <1>2. CallsSpec => Maps!Spec
    BY <1>1, PartsGoOn, PTL DEF Maps!Spec
  <1>3. Maps!MapsFollowBuffers => MapsFollowBuffers
    BY DEF MapsFollowBuffers
  <1> QED BY <1>2, <1>3, MapsFollowCorrect, PTL
=============================================================================
