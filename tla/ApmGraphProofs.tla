--------------------------- MODULE ApmGraphProofs ---------------------------
\* Theorems about ApmGraph, for any set of graphs, graph ids and mixer-
\* control threads: the types; the reference count of q6apm_graph_open and
\* q6apm_graph_close; and what rests on it: what the DSP was given is
\* taken back, what was started is stopped, and with one graph id the
\* lookups, counts, unwinding and puts implement SharedGraph.
EXTENDS ApmGraph, FiniteSetTheorems, TLAPS

\* A command to the DSP leaves it with a graph in one of its three states.
LEMMA DspTypes ==
  ASSUME TypeOK, NEW i \in Ids
  PROVE  /\ DspOpen(i) \/ DspClose(i) \/ DspStart(i) \/ DspStop(i)
              => dsp' \in [Ids -> {"closed", "open", "started"}]
         /\ DspOpen(i) \/ DspClose(i) => ring' \in [Ids -> BOOLEAN]
  <1>1. DspOpen(i) => dsp' \in [Ids -> {"closed", "open", "started"}]
    BY DEF TypeOK, DspOpen
  <1>2. DspClose(i) => dsp' \in [Ids -> {"closed", "open", "started"}]
    BY DEF TypeOK, DspClose
  <1>3. DspStart(i) => dsp' \in [Ids -> {"closed", "open", "started"}]
    BY DEF TypeOK, DspStart
  <1>4. DspStop(i) => dsp' \in [Ids -> {"closed", "open", "started"}]
    BY DEF TypeOK, DspStop
  <1>5. DspOpen(i) \/ DspClose(i) => ring' \in [Ids -> BOOLEAN]
    BY DEF TypeOK, DspOpen, DspClose
  <1> QED BY <1>1, <1>2, <1>3, <1>4, <1>5

LEMMA IdType == ASSUME NEW t PROVE Id(t) \in Ids
  BY DEF Id, Ids

LEMMA StartTypes ==
  ASSUME TypeOK, NEW t \in Stream, NEW r, StartOk(t, r)
  PROVE  /\ starts' \in [Graph -> Int]
         /\ dsp' \in [Ids -> {"closed", "open", "started"}]
  BY DspTypes, IdType DEF TypeOK, StartOk, Thread

LEMMA StopTypes ==
  ASSUME TypeOK, NEW t \in Stream, NEW a \in Pc, NEW b \in Pc, StopDec(t, a, b)
  PROVE  starts' \in [Graph -> Int] /\ pc' \in [Thread -> Pc]
  <1>1. starts' \in [Graph -> Int]
    <2>1. \A o \in Graph : starts[o] - 1 \in Int
      BY DEF TypeOK
    <2> QED BY <2>1 DEF TypeOK, StopDec
  <1>2. pc' \in [Thread -> Pc]
    BY DEF TypeOK, StopDec, Goto
  <1> QED BY <1>1, <1>2

LEMMA SendTypes ==
  ASSUME TypeOK, NEW t \in Stream, NEW a, NEW b \in Pc, SendStop(t, a, b)
  PROVE  TypeOK'
  <1>1. dsp' \in [Ids -> {"closed", "open", "started"}]
    BY DspTypes, IdType DEF TypeOK, SendStop, Thread
  <1> QED BY <1>1 DEF TypeOK, SendStop, Goto, objVars, strVars

LEMMA LeaveTypes ==
  ASSUME TypeOK, NEW t \in Thread, Leave(t)
  PROVE  /\ ptr' \in [Thread -> Graph \cup {None}]
         /\ pc' \in [Thread -> Pc]
         /\ pcm' \in {"closed", "opening", "open", "preparing", "prepared",
                      "starting", "running", "closing"}
  BY DEF TypeOK, Leave, Thread, Stream, Pc

LEMMA KrefGetTypes ==
  ASSUME TypeOK, NEW o, KrefGet(o)
  PROVE  ref' \in [Graph -> Nat \cup {Saturated}] /\ raced' \in BOOLEAN
  <1>1. ref' \in [Graph -> Nat \cup {Saturated}]
    <2>1. \A g \in Graph : ref[g] <= 0 \/ ref[g] + 1 \in Nat
      BY DEF TypeOK, Saturated
    <2> QED BY <2>1 DEF TypeOK, KrefGet
  <1>2. raced' \in BOOLEAN
    BY DEF TypeOK, KrefGet
  <1> QED BY <1>1, <1>2

LEMMA GetTypes ==
  ASSUME TypeOK, NEW t \in Stream, Get(t)
  PROVE  TypeOK'
  <1> t \in Thread  BY DEF Thread
  <1> Id(t) \in Ids  BY IdType
  <1>1. CASE Find(t)
    BY <1>1 DEF TypeOK, Find, Goto, objVars, strVars, Pc, GetPc
  <1>2. CASE GetFound(t)
    <2>1. ref' \in [Graph -> Nat \cup {Saturated}] /\ raced' \in BOOLEAN
      BY <1>2, KrefGetTypes DEF GetFound
    <2> QED BY <1>2, <2>1 DEF TypeOK, GetFound, Goto, strVars, Pc, GetPc
  <1>3. CASE Alloc(t)
    BY <1>3, LeaveTypes DEF TypeOK, Alloc, Goto, objVars, Pc, GetPc
  <1>4. CASE KrefInit(t)
    BY <1>4 DEF TypeOK, KrefInit, Goto, strVars, Pc, GetPc
  <1>5. CASE MapPosition(t)
    BY <1>5 DEF TypeOK, MapPosition, Goto, strVars, Pc, GetPc, UnwindPc
  <1>6. CASE GraphOpen(t)
    BY <1>6, DspTypes DEF TypeOK, GraphOpen, Goto, strVars, Pc, GetPc, UnwindPc
  <1>7. CASE MapOob(t)
    BY <1>7 DEF TypeOK, MapOob, Goto, strVars, Pc, GetPc, UnwindPc
  <1>8. CASE Calibrate(t)
    BY <1>8 DEF TypeOK, Calibrate, Goto, objVars, strVars, Pc, GetPc, UnwindPc
  <1>9. CASE AllocPort(t)
    BY <1>9 DEF TypeOK, AllocPort, Goto, objVars, Pc, GetPc
  <1> QED
    BY <1>1, <1>2, <1>3, <1>4, <1>5, <1>6, <1>7, <1>8, <1>9 DEF Get

LEMMA ReleaseTypes ==
  ASSUME TypeOK, NEW t \in Thread, Release(t)
  PROVE  TypeOK'
  <1> Id(t) \in Ids  BY IdType
  <1>1. CASE Put(t)
    <2>1. ref' \in [Graph -> Nat \cup {Saturated}]
      <3>1. \A g \in Graph : ref[g] > 0 => ref[g] - 1 \in Nat
        BY DEF TypeOK, Saturated
      <3> QED BY <1>1, <3>1 DEF TypeOK, Put
    <2> QED BY <1>1, <2>1, LeaveTypes DEF TypeOK, Put, Goto, Pc, UnwindPc
  <1>2. CASE UnmapOob(t)
    BY <1>2 DEF TypeOK, UnmapOob, Goto, strVars, Pc, UnwindPc
  <1>3. CASE GraphClose(t)
    BY <1>3, DspTypes DEF TypeOK, GraphClose, Goto, strVars, Pc, UnwindPc
  <1>4. CASE UnmapPosition(t)
    BY <1>4 DEF TypeOK, UnmapPosition, Goto, strVars, Pc, UnwindPc
  <1>5. CASE IdrRemove(t)
    BY <1>5, LeaveTypes DEF TypeOK, IdrRemove, Pc
  <1> QED BY <1>1, <1>2, <1>3, <1>4, <1>5 DEF Release

\* The back end's handlers.
BackEnd == \/ BePrepare \/ BeStop \/ BeConfigure \/ BeStart \/ BeShutdown
           \/ BeShutdownStop
FrontEnd == \/ FePrepare \/ FeStop \/ FeShmem \/ FeFormat \/ GraphPrepare
            \/ FeStart \/ FeClose \/ FeCloseStop

LEMMA BackEndTypes ==
  ASSUME TypeOK, BackEnd
  PROVE  TypeOK'
  <1> "be" \in Stream /\ "be" \in Thread /\ "fe" \in Thread
    BY DEF Stream, Thread
  <1> BeAfterStop \in Pc  BY DEF BeAfterStop, Pc, GetPc
  <1>1. CASE BePrepare
    <2>1. starts' \in [Graph -> Int] /\ pc' \in [Thread -> Pc]
      <3>1. "bstop" \in Pc  BY DEF Pc
      <3>2. CASE beStarted
        BY <1>1, <3>1, <3>2, StopTypes DEF BePrepare
      <3>3. CASE ~beStarted
        BY <1>1, <3>3 DEF BePrepare, TypeOK, Goto
      <3> QED BY <3>2, <3>3
    <2> QED BY <1>1, <2>1 DEF TypeOK, BePrepare
  <1>2. CASE BeStop
    BY <1>2, SendTypes DEF BeStop
  <1>3. CASE BeConfigure
    BY <1>3 DEF TypeOK, BeConfigure, Goto, objVars, strVars, Pc
  <1>4. CASE BeStart
    <2>1. starts' \in [Graph -> Int] /\ dsp' \in [Ids -> {"closed", "open", "started"}]
      BY <1>4, StartTypes DEF BeStart, TypeOK
    <2>2. pc' \in [Thread -> Pc]
      BY <1>4 DEF TypeOK, BeStart, Goto, Pc
    <2> QED BY <1>4, <2>1, <2>2 DEF TypeOK, BeStart
  <1>5. CASE BeShutdown
    <2>1. starts' \in [Graph -> Int] /\ pc' \in [Thread -> Pc]
      BY <1>5, StopTypes DEF BeShutdown, TypeOK, Goto, Pc
    <2> QED BY <1>5, <2>1 DEF TypeOK, BeShutdown
  <1>6. CASE BeShutdownStop
    <2> "put" \in Pc  BY DEF Pc
    <2> QED BY <1>6, SendTypes DEF BeShutdownStop
  <1> QED BY <1>1, <1>2, <1>3, <1>4, <1>5, <1>6 DEF BackEnd

LEMMA FrontEndTypes ==
  ASSUME TypeOK, FrontEnd
  PROVE  TypeOK'
  <1> "fe" \in Stream /\ "fe" \in Thread
    BY DEF Stream, Thread
  <1> "ring" \in Pc /\ "put" \in Pc /\ "fstop" \in Pc /\ "fclosestop" \in Pc
    BY DEF Pc
  <1>1. CASE FePrepare
    <2>1. starts' \in [Graph -> Int] /\ pc' \in [Thread -> Pc]
      BY <1>1, StopTypes DEF FePrepare, TypeOK, Goto, Pc
    <2> QED BY <1>1, <2>1 DEF TypeOK, FePrepare
  <1>2. CASE FeStop
    BY <1>2, SendTypes DEF FeStop
  <1>3. CASE FeShmem
    <2>1. GraphAssumption  BY GraphAssumption DEF GraphAssumption
    <2>2. FeId \in Ids /\ Pull \in BOOLEAN  BY <2>1 DEF Ids, GraphAssumption
    <2>3. ring' \in [Ids -> BOOLEAN]
      BY <1>3, <2>2 DEF TypeOK, FeShmem
    <2> QED BY <1>3, <2>3 DEF TypeOK, FeShmem, PrepareFails, Goto, objVars, Pc
  <1>4. CASE FeFormat
    BY <1>4 DEF TypeOK, FeFormat, PrepareFails, Goto, objVars, Pc
  <1>5. CASE GraphPrepare
    BY <1>5 DEF TypeOK, GraphPrepare, PrepareFails, Goto, objVars, Pc
  <1>6. CASE FeStart
    <2>1. starts' \in [Graph -> Int] /\ dsp' \in [Ids -> {"closed", "open", "started"}]
      BY <1>6, StartTypes DEF FeStart
    <2>2. pc' \in [Thread -> Pc] /\ feState' \in {"IDLE", "STOPPED", "RUNNING"}
          /\ pcm' \in {"prepared", "open"}
      BY <1>6 DEF TypeOK, FeStart, PrepareFails, Goto, Pc
    <2> QED BY <1>6, <2>1, <2>2 DEF TypeOK, FeStart
  <1>7. CASE FeClose
    <2>1. starts' \in [Graph -> Int] /\ pc' \in [Thread -> Pc]
      BY <1>7, StopTypes DEF FeClose, TypeOK, Goto
    <2> QED BY <1>7, <2>1 DEF TypeOK, FeClose
  <1>8. CASE FeCloseStop
    BY <1>8, SendTypes DEF FeCloseStop
  <1> QED
    BY <1>1, <1>2, <1>3, <1>4, <1>5, <1>6, <1>7, <1>8 DEF FrontEnd

\* What applications and mixer controls begin.
LEMMA CallTypes ==
  ASSUME TypeOK, User \/ \E c \in Ctl : CtlGet(c) \/ CtlSend(c)
  PROVE  TypeOK'
  <1> "be" \in Thread /\ "fe" \in Thread /\ Ctl \subseteq Thread
    BY DEF Stream, Thread
  <1>1. CASE FeOpen
    BY <1>1 DEF TypeOK, FeOpen, Goto, objVars, Pc, GetPc
  <1>2. CASE Prepare
    BY <1>2 DEF TypeOK, Prepare, Goto, objVars, Pc
  <1>3. CASE TriggerStart
    BY <1>3 DEF TypeOK, TriggerStart, Goto, objVars, Pc
  <1>4. CASE TriggerStop
    BY <1>4 DEF TypeOK, TriggerStop, objVars
  <1>5. CASE Close
    BY <1>5 DEF TypeOK, Close, Goto, objVars, Pc
  <1>6. ASSUME NEW c \in Ctl, CtlGet(c)  PROVE TypeOK'
    <2>1. ref' \in [Graph -> Nat \cup {Saturated}] /\ raced' \in BOOLEAN
      BY <1>6, KrefGetTypes DEF CtlGet
    <2>2. idr[FeId] \in Graph
      BY <1>6 DEF TypeOK, CtlGet, Ids
    <2>3. pc' \in [Thread -> Pc] /\ ptr' \in [Thread -> Graph \cup {None}]
      BY <1>6, <2>2 DEF TypeOK, CtlGet, Goto, Pc
    <2> QED BY <1>6, <2>1, <2>3 DEF TypeOK, CtlGet, strVars
  <1>7. ASSUME NEW c \in Ctl, CtlSend(c)  PROVE TypeOK'
    BY <1>7 DEF TypeOK, CtlSend, Goto, objVars, strVars, Pc
  <1> QED
    BY <1>1, <1>2, <1>3, <1>4, <1>5, <1>6, <1>7 DEF User

LEMMA NextCases ==
  ASSUME Next
  PROVE  \/ \E t \in Stream : Get(t)
         \/ \E t \in Thread : Release(t)
         \/ BackEnd \/ FrontEnd \/ User
         \/ \E c \in Ctl : CtlGet(c) \/ CtlSend(c)
  BY DEF Next, Driver, BackEnd, FrontEnd

\* Every step keeps every variable's type.
THEOREM TypeCorrect == Spec => []TypeOK
  <1>1. Init => TypeOK
    <2>1. "idle" \in Pc  BY DEF Pc
    <2>2. Init => /\ ref \in [Graph -> Nat \cup {Saturated}]
                  /\ starts \in [Graph -> Int]
                  /\ pc \in [Thread -> Pc]
      BY <2>1 DEF Init
    <2>3. Init => ring \in [Ids -> BOOLEAN]
      BY DEF Init
    <2>4. Init => beStarted \in BOOLEAN /\ raced \in BOOLEAN
      BY DEF Init
    <2>5. Init => res \in [Graph -> SUBSET {"pos", "dsp", "oob"}]
      BY DEF Init
    <2>6. Init => /\ idr \in [Ids -> Graph \cup {None}]
                  /\ mem \in [Graph -> {"free", "live"}]
                  /\ dsp \in [Ids -> {"closed", "open", "started"}]
                  /\ ptr \in [Thread -> Graph \cup {None}]
      BY DEF Init
    <2> QED BY <2>2, <2>3, <2>4, <2>5, <2>6 DEF Init, TypeOK
  <1>2. TypeOK /\ [Next]_vars => TypeOK'
    <2>1. TypeOK /\ UNCHANGED vars => TypeOK'
      BY DEF TypeOK, vars
    <2>2. TypeOK /\ Next => TypeOK'
      BY NextCases, GetTypes, ReleaseTypes, BackEndTypes, FrontEndTypes, CallTypes
    <2> QED BY <2>1, <2>2
  <1> QED BY <1>1, <1>2, PTL DEF Spec

-----------------------------------------------------------------------------
\* One stream call at a time, and the graphs it has in hand.

LEMMA Threads ==
  /\ "fe" \in Stream /\ "be" \in Stream /\ Stream \subseteq Thread
  /\ Ctl \subseteq Thread /\ Thread = Stream \cup Ctl
  /\ \A t \in Stream : t = "fe" \/ t = "be"
  /\ \A c \in Ctl : c # "fe" /\ c # "be"
  BY GraphAssumption DEF GraphAssumption, Stream, Thread

LEMMA OneCallGet ==
  ASSUME TypeOK, OneCall, NEW t \in Stream, Get(t)
  PROVE  OneCall'
  <1> USE Threads DEF TypeOK, OneCall, Goto, GetPc, UnwindPc, BeGetPc, BeClosePc,
                      FeClosePc, FePrepPc
  <1>0. pc[t] \in GetPc /\ t \notin Ctl
    BY DEF Get, Find, GetFound, Alloc, KrefInit, MapPosition, GraphOpen, MapOob,
           Calibrate, AllocPort
  <1>1. CASE Find(t)
    BY <1>0, <1>1 DEF Find, strVars
  <1>2. CASE GetFound(t)
    BY <1>0, <1>2 DEF GetFound, strVars
  <1>3. CASE Alloc(t)
    BY <1>0, <1>3 DEF Alloc, Leave
  <1>4. CASE KrefInit(t)
    BY <1>0, <1>4 DEF KrefInit, strVars
  <1>5. CASE MapPosition(t)
    BY <1>0, <1>5 DEF MapPosition, strVars
  <1>6. CASE GraphOpen(t)
    BY <1>0, <1>6 DEF GraphOpen, strVars
  <1>7. CASE MapOob(t)
    BY <1>0, <1>7 DEF MapOob, strVars
  <1>8. CASE Calibrate(t)
    BY <1>0, <1>8 DEF Calibrate, strVars
  <1>9. CASE AllocPort(t)
    BY <1>0, <1>9 DEF AllocPort
  <1> QED
    BY <1>1, <1>2, <1>3, <1>4, <1>5, <1>6, <1>7, <1>8, <1>9 DEF Get

LEMMA OneCallRelease ==
  ASSUME TypeOK, OneCall, NEW t \in Thread, Release(t)
  PROVE  OneCall'
  <1> USE Threads DEF TypeOK, OneCall, Goto, GetPc, UnwindPc, BeGetPc, BeClosePc,
                      FeClosePc, FePrepPc
  <1>1. CASE Put(t)
    BY <1>1 DEF Put, Leave
  <1>2. CASE UnmapOob(t)
    BY <1>2 DEF UnmapOob, strVars
  <1>3. CASE GraphClose(t)
    BY <1>3 DEF GraphClose, strVars
  <1>4. CASE UnmapPosition(t)
    BY <1>4 DEF UnmapPosition, strVars
  <1>5. CASE IdrRemove(t)
    BY <1>5 DEF IdrRemove, Leave
  <1> QED BY <1>1, <1>2, <1>3, <1>4, <1>5 DEF Release

LEMMA OneCallHandlers ==
  ASSUME TypeOK, OneCall, BackEnd \/ FrontEnd
  PROVE  OneCall'
  <1> USE Threads DEF TypeOK, OneCall, Goto, GetPc, UnwindPc, BeGetPc, BeClosePc,
                      FeClosePc, FePrepPc
  <1>1. CASE BePrepare
    BY <1>1 DEF BePrepare, StopDec, BeAfterStop
  <1>2. CASE BeStop
    BY <1>2 DEF BeStop, SendStop, BeAfterStop, strVars
  <1>3. CASE BeConfigure
    BY <1>3 DEF BeConfigure, strVars
  <1>4. CASE BeStart
    BY <1>4 DEF BeStart
  <1>5. CASE BeShutdown
    BY <1>5 DEF BeShutdown, StopDec
  <1>6. CASE BeShutdownStop
    BY <1>6 DEF BeShutdownStop, SendStop, strVars
  <1>7. CASE FePrepare
    BY <1>7 DEF FePrepare, StopDec
  <1>8. CASE FeStop
    BY <1>8 DEF FeStop, SendStop, strVars
  <1>9. CASE FeShmem
    BY <1>9 DEF FeShmem, PrepareFails
  <1>10. CASE FeFormat
    BY <1>10 DEF FeFormat, PrepareFails
  <1>11. CASE GraphPrepare
    BY <1>11 DEF GraphPrepare, PrepareFails
  <1>12. CASE FeStart
    BY <1>12 DEF FeStart, PrepareFails
  <1>13. CASE FeClose
    BY <1>13 DEF FeClose, StopDec
  <1>14. CASE FeCloseStop
    BY <1>14 DEF FeCloseStop, SendStop, strVars
  <1> QED
    BY <1>1, <1>2, <1>3, <1>4, <1>5, <1>6, <1>7, <1>8, <1>9, <1>10, <1>11, <1>12,
       <1>13, <1>14 DEF BackEnd, FrontEnd

LEMMA OneCallCalls ==
  ASSUME TypeOK, OneCall, User \/ \E c \in Ctl : CtlGet(c) \/ CtlSend(c)
  PROVE  OneCall'
  <1> USE Threads DEF TypeOK, OneCall, Goto, GetPc, UnwindPc, BeGetPc, BeClosePc,
                      FeClosePc, FePrepPc
  <1>1. CASE FeOpen
    BY <1>1 DEF FeOpen
  <1>2. CASE Prepare
    BY <1>2 DEF Prepare
  <1>3. CASE TriggerStart
    BY <1>3 DEF TriggerStart
  <1>4. CASE TriggerStop
    BY <1>4 DEF TriggerStop
  <1>5. CASE Close
    BY <1>5 DEF Close
  <1>6. ASSUME NEW c \in Ctl, CtlGet(c) \/ CtlSend(c)  PROVE OneCall'
    BY <1>6 DEF CtlGet, CtlSend, strVars
  <1> QED BY <1>1, <1>2, <1>3, <1>4, <1>5, <1>6 DEF User

LEMMA OneCallStep ==
  ASSUME TypeOK, OneCall, Next
  PROVE  OneCall'
  BY NextCases, OneCallGet, OneCallRelease, OneCallHandlers, OneCallCalls

LEMMA PointersGet ==
  ASSUME TypeOK, OneCall, Pointers, NEW t \in Stream, Get(t)
  PROVE  Pointers'
  <1> USE Threads DEF TypeOK, OneCall, Pointers, InHand, Goto, GetPc, UnwindPc, BeGetPc, BeClosePc,
                      FeClosePc, FePrepPc
  <1>0. pc[t] \in GetPc /\ t \notin Ctl
    BY DEF Get, Find, GetFound, Alloc, KrefInit, MapPosition, GraphOpen, MapOob,
           Calibrate, AllocPort
  <1>1. CASE Find(t)
    BY <1>0, <1>1 DEF Find, strVars
  <1>2. CASE GetFound(t)
    BY <1>0, <1>2 DEF GetFound, strVars
  <1>3. CASE Alloc(t)
    BY <1>0, <1>3, GraphAssumption DEF Alloc, Leave, GraphAssumption
  <1>4. CASE KrefInit(t)
    BY <1>0, <1>4 DEF KrefInit, strVars
  <1>5. CASE MapPosition(t)
    BY <1>0, <1>5 DEF MapPosition, strVars
  <1>6. CASE GraphOpen(t)
    BY <1>0, <1>6 DEF GraphOpen, strVars
  <1>7. CASE MapOob(t)
    BY <1>0, <1>7 DEF MapOob, strVars
  <1>8. CASE Calibrate(t)
    BY <1>0, <1>8 DEF Calibrate, strVars
  <1>9. CASE AllocPort(t)
    BY <1>0, <1>9 DEF AllocPort
  <1> QED
    BY <1>1, <1>2, <1>3, <1>4, <1>5, <1>6, <1>7, <1>8, <1>9 DEF Get

LEMMA PointersRelease ==
  ASSUME TypeOK, OneCall, Pointers, NEW t \in Thread, Release(t)
  PROVE  Pointers'
  <1> USE Threads DEF TypeOK, OneCall, Pointers, InHand, Goto, GetPc, UnwindPc, BeGetPc, BeClosePc,
                      FeClosePc, FePrepPc
  <1>1. CASE Put(t)
    BY <1>1 DEF Put, Leave
  <1>2. CASE UnmapOob(t)
    BY <1>2 DEF UnmapOob, strVars
  <1>3. CASE GraphClose(t)
    BY <1>3 DEF GraphClose, strVars
  <1>4. CASE UnmapPosition(t)
    BY <1>4 DEF UnmapPosition, strVars
  <1>5. CASE IdrRemove(t)
    BY <1>5 DEF IdrRemove, Leave
  <1> QED BY <1>1, <1>2, <1>3, <1>4, <1>5 DEF Release

LEMMA PointersHandlers ==
  ASSUME TypeOK, OneCall, Pointers, BackEnd \/ FrontEnd
  PROVE  Pointers'
  <1> USE Threads DEF TypeOK, OneCall, Pointers, InHand, Goto, GetPc, UnwindPc, BeGetPc, BeClosePc,
                      FeClosePc, FePrepPc
  <1>1. CASE BePrepare
    BY <1>1 DEF BePrepare, StopDec, BeAfterStop
  <1>2. CASE BeStop
    BY <1>2 DEF BeStop, SendStop, BeAfterStop, strVars
  <1>3. CASE BeConfigure
    BY <1>3 DEF BeConfigure, strVars
  <1>4. CASE BeStart
    BY <1>4 DEF BeStart
  <1>5. CASE BeShutdown
    BY <1>5 DEF BeShutdown, StopDec
  <1>6. CASE BeShutdownStop
    BY <1>6 DEF BeShutdownStop, SendStop, strVars
  <1>7. CASE FePrepare
    BY <1>7 DEF FePrepare, StopDec
  <1>8. CASE FeStop
    BY <1>8 DEF FeStop, SendStop, strVars
  <1>9. CASE FeShmem
    BY <1>9 DEF FeShmem, PrepareFails
  <1>10. CASE FeFormat
    BY <1>10 DEF FeFormat, PrepareFails
  <1>11. CASE GraphPrepare
    BY <1>11 DEF GraphPrepare, PrepareFails
  <1>12. CASE FeStart
    BY <1>12 DEF FeStart, PrepareFails
  <1>13. CASE FeClose
    BY <1>13 DEF FeClose, StopDec
  <1>14. CASE FeCloseStop
    BY <1>14 DEF FeCloseStop, SendStop, strVars
  <1> QED
    BY <1>1, <1>2, <1>3, <1>4, <1>5, <1>6, <1>7, <1>8, <1>9, <1>10, <1>11, <1>12,
       <1>13, <1>14 DEF BackEnd, FrontEnd

LEMMA PointersCalls ==
  ASSUME TypeOK, OneCall, Pointers, User \/ \E c \in Ctl : CtlGet(c) \/ CtlSend(c)
  PROVE  Pointers'
  <1> USE Threads DEF TypeOK, OneCall, Pointers, InHand, Goto, GetPc, UnwindPc, BeGetPc, BeClosePc,
                      FeClosePc, FePrepPc
  <1>1. CASE FeOpen
    BY <1>1 DEF FeOpen
  <1>2. CASE Prepare
    BY <1>2 DEF Prepare
  <1>3. CASE TriggerStart
    BY <1>3 DEF TriggerStart
  <1>4. CASE TriggerStop
    BY <1>4 DEF TriggerStop
  <1>5. CASE Close
    BY <1>5 DEF Close
  <1>6. ASSUME NEW c \in Ctl, CtlGet(c) \/ CtlSend(c)  PROVE Pointers'
    BY <1>6 DEF CtlGet, CtlSend, strVars, KrefGet
  <1> QED BY <1>1, <1>2, <1>3, <1>4, <1>5, <1>6 DEF User

LEMMA PointersStep ==
  ASSUME TypeOK, OneCall, Pointers, Next
  PROVE  Pointers'
  BY NextCases, PointersGet, PointersRelease, PointersHandlers, PointersCalls

-----------------------------------------------------------------------------
\* The reference count.  A step that moves nobody into or out of a
\* reference leaves the counts sound.

LEMMA StreamAlone ==
  ASSUME OneCall, NEW t \in Stream, NEW u \in Stream,
         pc[t] # "idle", pc[u] # "idle", pcm \in {"closed", "opening", "open",
           "preparing", "prepared", "starting", "running", "closing"}
  PROVE  t = u
  BY Threads DEF OneCall

LEMMA Frame ==
  ASSUME Sound, UNCHANGED <<idr, mem, ref, ptr>>,
         \A t \in Thread : /\ Counted(t)' <=> Counted(t)
                           /\ Dying(t)' <=> Dying(t)
                           /\ pc'[t] \in UnwindPc => pc[t] \in UnwindPc
                           /\ pc'[t] \in OpeningPc => pc[t] \in OpeningPc
                           /\ pc'[t] = "kref" => pc[t] = "kref"
                           /\ pc[t] \in OpeningPc => starts'[ptr[t]] = starts[ptr[t]]
                           /\ pc[t] \in UnwindPc /\ t \in Stream
                                => starts'[ptr[t]] = starts[ptr[t]]
  PROVE  Sound'
  <1>1. \A o : Holders(o)' = Holders(o)
    BY DEF Holders
  <1>2. \A o : Releasing(o)' <=> Releasing(o)
    BY DEF Releasing, Dying
  <1>3. Named'
    BY DEF Sound, Named
  <1>4. Owned'
    BY DEF Sound, Owned, OwnedBy
  <1>5. Alone'
    BY <1>1 DEF Sound, Alone, AloneAt, Apart
  <1>6. RefIsUsers'
    BY <1>1, <1>2 DEF Sound, RefIsUsers
  <1> QED BY <1>3, <1>4, <1>5, <1>6 DEF Sound

\* Stages outside an open and a release.
Settled == Pc \ ({"kref"} \cup OpeningPc \cup UnwindPc)

LEMMA Calm ==
  ASSUME TypeOK, OneCall, Sound, UNCHANGED <<idr, mem, ref, ptr>>,
         \A t \in Thread : pc'[t] = pc[t] \/ (pc[t] \in Settled /\ pc'[t] \in Settled),
         \A t \in Stream : pc[t] \in OpeningPc \cup UnwindPc
                             => starts'[ptr[t]] = starts[ptr[t]]
  PROVE  Sound'
  <1>1. \A t \in Thread : (Counted(t)' <=> Counted(t)) /\ (Dying(t)' <=> Dying(t))
    BY DEF Counted, Dying, Settled, OpeningPc
  <1>2. \A t \in Thread : pc[t] \in OpeningPc => t \in Stream
    BY Threads DEF OneCall, OpeningPc, UnwindPc
  <1>3. \A t \in Thread : /\ pc'[t] \in UnwindPc => pc[t] \in UnwindPc
                          /\ pc'[t] \in OpeningPc => pc[t] \in OpeningPc
                          /\ pc'[t] = "kref" => pc[t] = "kref"
    BY DEF Settled
  <1> QED BY <1>1, <1>2, <1>3, Frame

\* The handlers and the calls that begin only walk through settled stages.
SettledWalk ==
  /\ UNCHANGED <<idr, mem, ref, ptr>>
  /\ \A t \in Thread : pc'[t] = pc[t] \/ (pc[t] \in Settled /\ pc'[t] \in Settled)
  /\ \A t \in Stream : pc[t] \in Settled

LEMMA HandlersWalk ==
  ASSUME TypeOK, OneCall, BackEnd \/ FrontEnd
  PROVE  SettledWalk
  <1> USE Threads DEF TypeOK, OneCall, Goto, GetPc, UnwindPc, OpeningPc, Settled, Pc,
                      SettledWalk
  <1>1. CASE BePrepare
    BY <1>1 DEF BePrepare, StopDec, BeAfterStop
  <1>2. CASE BeStop
    BY <1>2 DEF BeStop, SendStop, BeAfterStop, objVars, strVars
  <1>3. CASE BeConfigure
    BY <1>3 DEF BeConfigure, objVars, strVars
  <1>4. CASE BeStart
    BY <1>4 DEF BeStart
  <1>5. CASE BeShutdown
    BY <1>5 DEF BeShutdown, StopDec
  <1>6. CASE BeShutdownStop
    BY <1>6 DEF BeShutdownStop, SendStop, objVars, strVars
  <1>7. CASE FePrepare
    BY <1>7 DEF FePrepare, StopDec
  <1>8. CASE FeStop
    BY <1>8 DEF FeStop, SendStop, objVars, strVars
  <1>9. CASE FeShmem
    BY <1>9 DEF FeShmem, PrepareFails, objVars
  <1>10. CASE FeFormat
    BY <1>10 DEF FeFormat, PrepareFails, objVars
  <1>11. CASE GraphPrepare
    BY <1>11 DEF GraphPrepare, PrepareFails, objVars
  <1>12. CASE FeStart
    BY <1>12 DEF FeStart, PrepareFails
  <1>13. CASE FeClose
    BY <1>13 DEF FeClose, StopDec
  <1>14. CASE FeCloseStop
    BY <1>14 DEF FeCloseStop, SendStop, objVars, strVars
  <1> QED
    BY <1>1, <1>2, <1>3, <1>4, <1>5, <1>6, <1>7, <1>8, <1>9, <1>10, <1>11, <1>12,
       <1>13, <1>14 DEF BackEnd, FrontEnd

LEMMA CallsWalk ==
  ASSUME TypeOK, OneCall, User
  PROVE  SettledWalk
  <1> USE Threads DEF TypeOK, OneCall, Goto, GetPc, UnwindPc, OpeningPc, Settled, Pc,
                      SettledWalk, objVars
  <1>1. CASE FeOpen
    BY <1>1 DEF FeOpen
  <1>2. CASE Prepare
    BY <1>2 DEF Prepare
  <1>3. CASE TriggerStart
    BY <1>3 DEF TriggerStart
  <1>4. CASE TriggerStop
    BY <1>4 DEF TriggerStop
  <1>5. CASE Close
    BY <1>5 DEF Close
  <1> QED BY <1>1, <1>2, <1>3, <1>4, <1>5 DEF User

LEMMA SoundWalk ==
  ASSUME TypeOK, OneCall, Sound, SettledWalk
  PROVE  Sound'
  <1>1. \A t \in Stream : pc[t] \notin OpeningPc \cup UnwindPc
    BY DEF SettledWalk, Settled
  <1> QED BY <1>1, Calm DEF SettledWalk

LEMMA SoundCtlSend ==
  ASSUME TypeOK, OneCall, Sound, NEW c \in Ctl, CtlSend(c)
  PROVE  Sound'
  <1>1. \A t \in Thread : pc'[t] = pc[t] \/ (pc[t] \in Settled /\ pc'[t] \in Settled)
    BY Threads DEF TypeOK, CtlSend, Goto, Settled, Pc, OpeningPc, UnwindPc
  <1> QED BY <1>1, Calm DEF CtlSend, objVars

\* The only holder of a graph becomes its undertaker.
LEMMA Undertake ==
  ASSUME TypeOK, Pointers, Sound, NEW t \in Thread,
         Counted(t), Holders(ptr[t]) = {t}, UNCHANGED <<idr, mem, starts, ptr>>,
         \A g \in Graph \ {ptr[t]} : ref'[g] = ref[g],
         \A u \in Thread \ {t} : pc'[u] = pc[u],
         pc'[t] \in UnwindPc, ref'[ptr[t]] = 0 \/ (t \in Stream /\ starts[ptr[t]] = 0)
  PROVE  Sound'
  <1>1. idr' = idr /\ mem' = mem /\ starts' = starts /\ ptr' = ptr
    OBVIOUS
  <1>2. Named /\ Owned /\ Alone /\ RefIsUsers
    BY DEF Sound
  <1>3. Dying(t)' /\ ~Counted(t)' /\ pc'[t] \notin OpeningPc \cup {"kref"}
    BY DEF Counted, Dying, UnwindPc, OpeningPc
  <1>4. \A u \in Thread \ {t} : Apart(t, u)
    <2>1. \A u \in Thread \ {t} : Counted(u) => ptr[u] # ptr[t]
      BY DEF Holders
    <2>2. \A u \in Thread \ {t} : Dying(u) => ptr[u] # ptr[t]
      BY <1>2 DEF Alone, AloneAt, Apart
    <2> QED BY <2>1, <2>2 DEF Apart
  <1>5. ASSUME NEW o, o # ptr[t]
        PROVE  Holders(o)' = Holders(o) /\ (Releasing(o)' <=> Releasing(o))
    <2>1. \A u \in Thread : Counted(u)' /\ ptr'[u] = o <=> Counted(u) /\ ptr[u] = o
      BY <1>1, <1>5 DEF Counted
    <2>2. \A u \in Thread : ptr'[u] = o => pc'[u] = pc[u]
      BY <1>1, <1>5
    <2> QED BY <2>1, <2>2, <1>1 DEF Holders, Releasing
  <1>6. Named'
    BY <1>1, <1>2 DEF Named
  <1>7. Owned'
    <2>1. OwnedBy(t)'
      BY <1>1, <1>2, <1>3 DEF Owned, OwnedBy
    <2>2. \A u \in Thread \ {t} : OwnedBy(u)'
      BY <1>1, <1>2 DEF Owned, OwnedBy, Counted, Dying
    <2> QED BY <2>1, <2>2 DEF Owned
  <1>8. Alone'
    <2>1. AloneAt(t)'
      BY <1>1, <1>3, <1>4 DEF AloneAt, Apart, Counted, Dying
    <2>2. ASSUME NEW u \in Thread \ {t}  PROVE AloneAt(u)'
      <3>1. AloneAt(u)  BY <1>2 DEF Alone
      <3>2. Dying(u) => ptr[u] # ptr[t]
        BY <1>4 DEF Apart
      <3>3. pc[u] \in OpeningPc => ptr[u] # ptr[t]
        BY <3>1 DEF AloneAt
      <3>4. Dying(u)' => \A v \in Thread \ {u} : Apart(u, v)'
        <4> SUFFICES ASSUME Dying(u), NEW v \in Thread \ {u}  PROVE Apart(u, v)'
          BY DEF Dying
        <4> QED BY <1>1, <3>1, <3>2 DEF AloneAt, Apart, Counted, Dying
      <3>5. Dying(u) \/ pc[u] \in OpeningPc => ptr[u] \in Graph \ {ptr[t]}
        BY <3>2, <3>3 DEF Pointers, OpeningPc, InHand, GetPc, Dying, TypeOK
      <3>6. pc[u] \in OpeningPc => Holders(ptr[u])' = Holders(ptr[u])
        BY <1>5, <3>3
      <3> QED BY <1>1, <3>1, <3>4, <3>5, <3>6 DEF AloneAt, Dying
    <2> QED BY <2>1, <2>2 DEF Alone
  <1>9. RefIsUsers'
    <2>1. Releasing(ptr[t])'
      BY <1>1 DEF Releasing
    <2>2. ASSUME NEW g \in Graph, mem[g] = "live", ~Releasing(g)'
          PROVE  Holders(g)' # {} /\ ref'[g] = Cardinality(Holders(g)')
      <3>1. g # ptr[t]  BY <2>1, <2>2
      <3>2. Holders(g)' = Holders(g) /\ ~Releasing(g) /\ ref'[g] = ref[g]
        BY <1>5, <2>2, <3>1
      <3> QED BY <1>2, <2>2, <3>2 DEF RefIsUsers
    <2> QED BY <1>1, <2>2 DEF RefIsUsers
  <1> QED BY <1>6, <1>7, <1>8, <1>9 DEF Sound

\* Opening: each stage that succeeds keeps the opener alone with its new
\* graph; each that fails makes it the graph's undertaker.
LEMMA SoundOpening ==
  ASSUME TypeOK, Pointers, Sound, NEW t \in Stream,
         pc[t] \in OpeningPc \ {"init"}, UNCHANGED <<idr, mem, ref, starts, ptr>>,
         NEW at \in (OpeningPc \ {"init"}) \cup UnwindPc \cup {"port"}, Goto(t, at)
  PROVE  Sound'
  <1> t \in Thread  BY Threads
  <1>1. pc'[t] = at /\ \A u \in Thread : u # t => pc'[u] = pc[u]
    BY DEF Goto, TypeOK
  <1>2. Counted(t)
    BY DEF Pointers, Counted, InHand, OpeningPc, UnwindPc, GetPc
  <1>3. starts[ptr[t]] = 0 /\ Holders(ptr[t]) \subseteq {t}
    BY DEF Sound, Alone, AloneAt
  <1>4. Holders(ptr[t]) = {t}
    BY <1>2, <1>3 DEF Holders
  <1>5. CASE at \notin UnwindPc
    BY <1>1, <1>2, <1>5, Frame DEF Counted, Dying, OpeningPc, UnwindPc
  <1>6. CASE at \in UnwindPc
    BY <1>1, <1>2, <1>3, <1>4, <1>6, Undertake
  <1> QED BY <1>5, <1>6

LEMMA ThreadsFinite == \A o : IsFiniteSet(Holders(o))
  <1>1. IsFiniteSet(Stream)
    <2>1. Stream = ({} \cup {"fe"}) \cup {"be"}
      BY DEF Stream
    <2> QED BY <2>1, FS_EmptySet, FS_AddElement
  <1>2. IsFiniteSet(Thread)
    BY <1>1, GraphAssumption, FS_Union DEF GraphAssumption, Thread
  <1>3. \A o : Holders(o) \subseteq Thread
    BY DEF Holders
  <1> QED BY <1>2, <1>3, FS_Subset

\* One thread joins the holders of a graph, or one that is not the last
\* leaves them, and the count follows.
LEMMA Recount ==
  ASSUME TypeOK, Pointers, Sound, NEW t \in Thread, NEW o \in Graph,
         UNCHANGED <<idr, mem, starts>>, mem[o] = "live", ~Releasing(o),
         \A u \in Thread : pc[u] \in OpeningPc => ptr[u] # o,
         \A u \in Thread \ {t} :
            ptr'[u] = ptr[u] /\ (pc'[u] = pc[u] \/ (pc[u] \in Settled /\ pc'[u] \in Settled)),
         pc[t] \notin OpeningPc \cup UnwindPc, pc'[t] \in Settled,
         \A g \in Graph \ {o} : ref'[g] = ref[g],
         \/ ~Counted(t) /\ ptr[t] \in {None, o} /\ ptr'[t] = o /\ idr[Id(t)] = o /\ ref'[o] = ref[o] + 1
         \/ Counted(t) /\ ptr[t] = o /\ ptr'[t] = None /\ ref[o] # 1 /\ ref'[o] = ref[o] - 1
  PROVE  Sound'
  <1>1. Named /\ Owned /\ Alone /\ RefIsUsers
    BY DEF Sound
  <1>2. idr' = idr /\ mem' = mem /\ starts' = starts
    OBVIOUS
  <1>3. o # None
    BY GraphAssumption DEF GraphAssumption
  <1>4. \A u \in Thread \ {t} : /\ ptr'[u] = ptr[u]
                                /\ pc'[u] \in UnwindPc <=> pc[u] \in UnwindPc
                                /\ pc'[u] = "init" <=> pc[u] = "init"
                                /\ pc'[u] = "kref" <=> pc[u] = "kref"
                                /\ pc'[u] \in OpeningPc => pc[u] \in OpeningPc
    BY DEF Settled, OpeningPc
  <1>5. pc'[t] \notin UnwindPc \cup OpeningPc \cup {"init", "kref"}
    BY DEF Settled, OpeningPc
  <1>6. pc[t] \notin UnwindPc \cup OpeningPc \cup {"init"}
    BY DEF OpeningPc
  <1>7. ASSUME NEW g  PROVE Releasing(g)' <=> Releasing(g)
    <2>1. \A u \in Thread : ptr'[u] = g /\ pc'[u] \in UnwindPc \cup {"init"}
                           <=> ptr[u] = g /\ pc[u] \in UnwindPc \cup {"init"}
      BY <1>4, <1>5, <1>6
    <2> QED BY <2>1 DEF Releasing
  <1>8. ASSUME NEW g \in Graph \ {o}  PROVE Holders(g)' = Holders(g)
    <2>1. \A u \in Thread : Counted(u)' /\ ptr'[u] = g <=> Counted(u) /\ ptr[u] = g
      BY <1>3, <1>4, <1>5 DEF Counted
    <2> QED BY <2>1 DEF Holders
  <1>9. \/ /\ Holders(o)' = Holders(o) \cup {t} /\ t \notin Holders(o)
           /\ ref'[o] = ref[o] + 1
        \/ /\ Holders(o)' = Holders(o) \ {t} /\ t \in Holders(o)
           /\ ref[o] # 1 /\ ref'[o] = ref[o] - 1
    <2>1. \A u \in Thread \ {t} : Counted(u)' /\ ptr'[u] = o <=> Counted(u) /\ ptr[u] = o
      BY <1>4 DEF Counted
    <2>2. Counted(t)' <=> ptr'[t] # None
      BY <1>5 DEF Counted
    <2> QED BY <1>3, <2>1, <2>2 DEF Holders
  <1>10. Named'
    BY <1>1, <1>2 DEF Named
  <1>11. Owned'
    <2>1. OwnedBy(t)'
      BY <1>1, <1>2, <1>5 DEF OwnedBy, Counted, Dying
    <2>2. \A u \in Thread \ {t} : OwnedBy(u)'
      BY <1>1, <1>2, <1>4 DEF Owned, OwnedBy, Counted, Dying
    <2> QED BY <2>1, <2>2 DEF Owned
  <1>12. Alone'
    <2>1. AloneAt(t)'
      BY <1>5 DEF AloneAt, Dying
    <2>2. ASSUME NEW u \in Thread \ {t}  PROVE AloneAt(u)'
      <3>1. AloneAt(u)  BY <1>1 DEF Alone
      <3>2. Dying(u) => ptr[u] # o
        BY DEF Releasing, Dying
      <3>3. Dying(u)' => \A v \in Thread \ {u} : Apart(u, v)'
        <4> SUFFICES ASSUME Dying(u), NEW v \in Thread \ {u}  PROVE Apart(u, v)'
          BY <1>4 DEF Dying
        <4>1. CASE v = t
          BY <3>2, <4>1, <1>3, <1>4, <1>5 DEF Apart, Counted, Dying
        <4>2. CASE v # t
          BY <3>1, <4>2, <1>4 DEF AloneAt, Apart, Counted, Dying
        <4> QED BY <4>1, <4>2
      <3>4. Dying(u) \/ pc[u] \in OpeningPc => ptr[u] \in Graph \ {o}
        BY <3>2 DEF Pointers, OpeningPc, InHand, GetPc, Dying, TypeOK
      <3> QED BY <1>2, <1>4, <1>8, <3>1, <3>3, <3>4 DEF AloneAt, Dying
    <2> QED BY <2>1, <2>2 DEF Alone
  <1>13. RefIsUsers'
    <2> SUFFICES ASSUME NEW g \in Graph, mem[g] = "live", ~Releasing(g)
                 PROVE  Holders(g)' # {} /\ ref'[g] = Cardinality(Holders(g)')
      BY <1>2, <1>3, <1>7 DEF RefIsUsers
    <2>1. Holders(g) # {} /\ ref[g] = Cardinality(Holders(g))
      BY <1>1 DEF RefIsUsers
    <2>2. CASE g # o
      BY <1>8, <2>1, <2>2
    <2>3. CASE g = o
      <3> DEFINE H == Holders(o)
      <3>1. IsFiniteSet(H) /\ Cardinality(H) \in Nat /\ ref[o] = Cardinality(H)
        BY <2>1, <2>3, ThreadsFinite, FS_CardinalityType
      <3>2. t \notin H => Cardinality(H \cup {t}) = Cardinality(H) + 1
        BY <3>1, FS_AddElement
      <3>3. t \in H => Cardinality(H \ {t}) = Cardinality(H) - 1 /\ IsFiniteSet(H \ {t})
        BY <3>1, FS_RemoveElement
      <3>4. IsFiniteSet(H \ {t}) /\ H \ {t} = {} => Cardinality(H \ {t}) = 0
        BY FS_EmptySet
      <3> HIDE DEF H
      <3>5. \/ /\ Holders(o)' = H \cup {t} /\ t \notin H /\ ref'[o] = ref[o] + 1
            \/ /\ Holders(o)' = H \ {t} /\ t \in H /\ ref[o] # 1 /\ ref'[o] = ref[o] - 1
        BY <1>9 DEF H
      <3>6. (Holders(o)' = H \cup {t} /\ t \notin H /\ ref'[o] = ref[o] + 1)
            => Holders(o)' # {} /\ ref'[o] = Cardinality(Holders(o)')
        BY <3>1, <3>2
      <3>7. (Holders(o)' = H \ {t} /\ t \in H /\ ref[o] # 1 /\ ref'[o] = ref[o] - 1)
            => Holders(o)' # {} /\ ref'[o] = Cardinality(Holders(o)')
        BY <3>1, <3>3, <3>4
      <3>8. Holders(o)' # {} /\ ref'[o] = Cardinality(Holders(o)')
        BY <3>5, <3>6, <3>7
      <3> QED BY <2>3, <3>8
    <2> QED BY <2>2, <2>3
  <1> QED BY <1>10, <1>11, <1>12, <1>13 DEF Sound

LEMMA SoundGetFound ==
  ASSUME TypeOK, OneCall, Pointers, Sound, NEW t \in Stream, GetFound(t), ~raced'
  PROVE  Sound'
  <1> DEFINE o == ptr[t]
  <1>1. t \in Thread /\ o \in Graph /\ pc[t] = "kref"
    BY Threads DEF GetFound, TypeOK, Pointers, InHand, GetPc
  <1>2. ref[o] > 0 /\ mem[o] = "live" /\ ref'[o] = ref[o] + 1
        /\ \A g \in Graph \ {o} : ref'[g] = ref[g]
    <2>1. ~(ref[o] <= 0 \/ mem[o] = "free") /\ KrefGet(o)
      BY <1>1 DEF GetFound, KrefGet, TypeOK
    <2>2. ref[o] \in Int /\ mem[o] \in {"free", "live"}
      BY <1>1 DEF TypeOK, Saturated
    <2> QED BY <1>1, <2>1, <2>2 DEF KrefGet, TypeOK
  <1>3. idr[Id(t)] = o
    <2>1. CASE Pull
      <3>1. \A i \in Ids : i = Id(t)
        BY <2>1, GraphAssumption DEF GraphAssumption, Ids, Id
      <3> QED BY <1>1, <1>2, <3>1 DEF Sound, Named
    <2>2. CASE ~Pull
      BY <1>1, <2>2 DEF Sound, Owned, OwnedBy
    <2> QED BY <2>1, <2>2
  <1>4. \A u \in Thread : pc[u] \in OpeningPc \cup UnwindPc => u \in Ctl /\ pc[u] \in UnwindPc
    <2>1. \A u \in Stream : pc[u] # "idle" => u = t
      BY <1>1, StreamAlone DEF TypeOK
    <2> QED BY <1>1, <2>1, Threads DEF OneCall, OpeningPc, UnwindPc
  <1>5. \A u \in Ctl : pc[u] \in UnwindPc => ref[ptr[u]] = 0
    BY Threads DEF Sound, Alone, AloneAt
  <1>6. ~Releasing(o)
    BY <1>2, <1>4, <1>5 DEF Releasing, OpeningPc
  <1>7. \A u \in Thread : pc[u] \in OpeningPc => ptr[u] # o
    BY <1>4 DEF OpeningPc, UnwindPc
  <1>8. pc'[t] = "port" /\ \A u \in Thread \ {t} : pc'[u] = pc[u]
    BY <1>1 DEF GetFound, Goto, TypeOK
  <1>9. UNCHANGED <<idr, mem, starts, ptr>> /\ ~Counted(t)
    BY <1>1 DEF GetFound, Counted
  <1>10. "port" \in Settled /\ pc[t] \notin OpeningPc \cup UnwindPc
    BY <1>1 DEF Settled, Pc, GetPc, OpeningPc, UnwindPc
  <1> QED
    BY <1>1, <1>2, <1>3, <1>6, <1>7, <1>8, <1>9, <1>10, Recount

LEMMA SoundCtlGet ==
  ASSUME TypeOK, OneCall, Pointers, Sound, NEW c \in Ctl, CtlGet(c), ~raced'
  PROVE  Sound'
  <1> DEFINE o == idr[FeId]
  <1>1. c \in Thread /\ o \in Graph /\ pc[c] = "idle" /\ starts[o] > 0 /\ Id(c) = FeId
    BY Threads DEF CtlGet, TypeOK, Ids, Id
  <1>2. ref[o] > 0 /\ mem[o] = "live" /\ ref'[o] = ref[o] + 1
        /\ \A g \in Graph \ {o} : ref'[g] = ref[g]
    <2>1. ~(ref[o] <= 0 \/ mem[o] = "free") /\ KrefGet(o)
      BY <1>1 DEF CtlGet, KrefGet, TypeOK
    <2>2. ref[o] \in Int /\ mem[o] \in {"free", "live"}
      BY <1>1 DEF TypeOK, Saturated
    <2> QED BY <1>1, <2>1, <2>2 DEF KrefGet, TypeOK
  <1>3. \A u \in Thread : /\ pc[u] \in OpeningPc => starts[ptr[u]] = 0
                          /\ pc[u] \in UnwindPc => ref[ptr[u]] = 0 \/ starts[ptr[u]] = 0
    BY DEF Sound, Alone, AloneAt
  <1>4. ~Releasing(o)
    BY <1>1, <1>2, <1>3 DEF Releasing, OpeningPc
  <1>5. \A u \in Thread : pc[u] \in OpeningPc => ptr[u] # o
    BY <1>1, <1>3
  <1>6. pc'[c] = "cmd" /\ \A u \in Thread \ {c} : pc'[u] = pc[u]
    BY <1>1 DEF CtlGet, Goto, TypeOK
  <1>7. /\ UNCHANGED <<idr, mem, starts>> /\ ptr[c] = None /\ ptr'[c] = o
        /\ \A u \in Thread \ {c} : ptr'[u] = ptr[u]
    BY <1>1 DEF CtlGet, Pointers, TypeOK
  <1>8. "cmd" \in Settled /\ pc[c] \notin OpeningPc \cup UnwindPc /\ ~Counted(c)
    BY <1>1, <1>7 DEF Settled, Pc, GetPc, OpeningPc, UnwindPc, Counted
  <1> QED
    BY <1>1, <1>2, <1>4, <1>5, <1>6, <1>7, <1>8, Recount

LEMMA SoundPut ==
  ASSUME TypeOK, OneCall, Pointers, Sound, NEW t \in Thread, Put(t)
  PROVE  Sound'
  <1> DEFINE o == ptr[t]
  <1>1. o \in Graph /\ pc[t] = "put"
    BY DEF Put, TypeOK, Pointers, InHand
  <1>2. Counted(t) /\ t \in Holders(o)
    BY <1>1, GraphAssumption DEF GraphAssumption, Counted, UnwindPc, Holders
  <1>3. mem[o] = "live"
    BY <1>2 DEF Sound, Owned, OwnedBy
  <1>4. ~Releasing(o)
    <2>1. \A u \in Thread : Dying(u) => u # t
      BY <1>1 DEF Dying, UnwindPc
    <2> QED BY <1>2, <2>1 DEF Sound, Alone, AloneAt, Apart, Releasing, Dying
  <1>5. \A u \in Thread : pc[u] \in OpeningPc => ptr[u] # o
    <2>1. \A u \in Thread : pc[u] \in OpeningPc => u # t
      BY <1>1 DEF OpeningPc
    <2> QED BY <1>2, <2>1 DEF Sound, Alone, AloneAt
  <1>6. ref[o] = Cardinality(Holders(o)) /\ ref[o] \in Nat \ {0}
    <2>1. ref[o] = Cardinality(Holders(o)) /\ Holders(o) # {}
      BY <1>1, <1>3, <1>4 DEF Sound, RefIsUsers
    <2> QED BY <2>1, ThreadsFinite, FS_CardinalityType, FS_EmptySet
  <1>7. UNCHANGED <<idr, mem, starts>>
    BY DEF Put
  <1>8. ref'[o] = ref[o] - 1 /\ \A g \in Graph \ {o} : ref'[g] = ref[g]
    BY <1>1, <1>6 DEF Put, TypeOK
  <1>9. CASE ref[o] = 1
    <2>1. Holders(o) = {t}
      <3>1. \E x : Holders(o) = {x}
        BY <1>6, <1>9, ThreadsFinite, FS_Singleton
      <3> QED BY <1>2, <3>1
    <2>2. pc'[t] = "unoob" /\ UNCHANGED ptr /\ \A u \in Thread \ {t} : pc'[u] = pc[u]
      BY <1>9 DEF Put, Goto, TypeOK
    <2>3. "unoob" \in UnwindPc  BY DEF UnwindPc
    <2> QED BY <1>2, <1>7, <1>8, <1>9, <2>1, <2>2, <2>3, Undertake
  <1>10. CASE ref[o] # 1
    <2>1. Leave(t)
      BY <1>10 DEF Put
    <2>2. ptr'[t] = None /\ \A u \in Thread \ {t} : ptr'[u] = ptr[u]
      BY <2>1 DEF Leave, TypeOK
    <2>3. "idle" \in Settled /\ "fclose" \in Settled
      BY DEF Settled, Pc, OpeningPc, UnwindPc
    <2>4. \A u \in Thread \ {t} : pc'[u] = pc[u] \/ (pc[u] \in Settled /\ pc'[u] \in Settled)
      BY <1>1, <2>1, <2>3 DEF Leave, TypeOK, OneCall
    <2>5. pc'[t] = "idle"
      BY <2>1, Threads DEF Leave, TypeOK
    <2>6. pc[t] \notin OpeningPc \cup UnwindPc
      BY <1>1 DEF OpeningPc, UnwindPc
    <2> QED
      BY <1>1, <1>2, <1>3, <1>4, <1>5, <1>7, <1>8, <1>10, <2>2, <2>3, <2>4, <2>5, <2>6, Recount
  <1> QED BY <1>9, <1>10

LEMMA SoundUnwind ==
  ASSUME TypeOK, Sound, NEW t \in Thread,
         UnmapOob(t) \/ GraphClose(t) \/ UnmapPosition(t)
  PROVE  Sound'
  <1>1. UNCHANGED <<idr, mem, ref, starts, ptr>>
    BY DEF UnmapOob, GraphClose, UnmapPosition
  <1>2. pc[t] \in UnwindPc /\ pc'[t] \in UnwindPc /\ \A u \in Thread \ {t} : pc'[u] = pc[u]
    BY DEF UnmapOob, GraphClose, UnmapPosition, Goto, TypeOK, UnwindPc
  <1>3. \A x \in UnwindPc : x \notin OpeningPc \cup {"kref", "init"}
    BY DEF UnwindPc, OpeningPc
  <1> QED BY <1>1, <1>2, <1>3, Frame DEF Counted, Dying

\* A thread without a graph learns the address the table holds.
LEMMA SoundFind ==
  ASSUME TypeOK, Pointers, Sound, NEW t \in Stream, Find(t)
  PROVE  Sound'
  <1>1. t \in Thread /\ pc[t] = "find" /\ ptr[t] = None
    BY Threads DEF Find, Pointers
  <1>2. /\ idr' = idr /\ mem' = mem /\ ref' = ref /\ starts' = starts
        /\ \A u \in Thread \ {t} : pc'[u] = pc[u] /\ ptr'[u] = ptr[u]
    BY DEF Find, objVars, Goto, TypeOK
  <1>3. \/ pc'[t] = "kref" /\ ptr'[t] = idr[Id(t)]
        \/ pc'[t] = "alloc" /\ ptr'[t] = None
    BY <1>1 DEF Find, Goto, TypeOK
  <1>4. ~Counted(t) /\ ~Counted(t)' /\ ~Dying(t) /\ ~Dying(t)' /\ pc'[t] \notin UnwindPc \cup OpeningPc
    BY <1>1, <1>3 DEF Counted, Dying, UnwindPc, OpeningPc
  <1>5. Named /\ Owned /\ Alone /\ RefIsUsers
    BY DEF Sound
  <1>6. Named'
    BY <1>2, <1>5 DEF Named
  <1>7. Owned'
    <2>1. OwnedBy(t)'
      BY <1>2, <1>3, <1>4 DEF OwnedBy
    <2>2. \A u \in Thread \ {t} : OwnedBy(u)'
      BY <1>2, <1>5 DEF Owned, OwnedBy, Counted, Dying
    <2> QED BY <2>1, <2>2 DEF Owned
  <1>8. ASSUME NEW o  PROVE Holders(o)' = Holders(o) /\ (Releasing(o)' <=> Releasing(o))
    <2>1. \A u \in Thread : Counted(u)' /\ ptr'[u] = o <=> Counted(u) /\ ptr[u] = o
      BY <1>2, <1>4 DEF Counted
    <2>2. \A u \in Thread : /\ pc[u] \in UnwindPc \cup {"init"} => u # t
                            /\ pc'[u] \in UnwindPc \cup {"init"} => u # t
      BY <1>4 DEF Dying
    <2> QED BY <1>2, <2>1, <2>2 DEF Holders, Releasing
  <1>9. Alone'
    <2>1. AloneAt(t)'
      BY <1>4 DEF AloneAt
    <2>2. ASSUME NEW u \in Thread \ {t}  PROVE AloneAt(u)'
      <3>1. AloneAt(u)  BY <1>5 DEF Alone
      <3>2. Dying(u)' => \A v \in Thread \ {u} : Apart(u, v)'
        <4> SUFFICES ASSUME Dying(u), NEW v \in Thread \ {u}  PROVE Apart(u, v)'
          BY <1>2 DEF Dying
        <4>1. CASE v = t
          BY <1>4, <4>1 DEF Apart
        <4>2. CASE v # t
          BY <1>2, <3>1, <4>2 DEF AloneAt, Apart, Counted, Dying
        <4> QED BY <4>1, <4>2
      <3> QED BY <1>2, <1>8, <3>1, <3>2 DEF AloneAt, Dying
    <2> QED BY <2>1, <2>2 DEF Alone
  <1>10. RefIsUsers'
    BY <1>2, <1>5, <1>8 DEF RefIsUsers
  <1> QED BY <1>6, <1>7, <1>9, <1>10 DEF Sound

\* Fresh memory is nobody's, and its first count is its opener.
LEMMA SoundAlloc ==
  ASSUME TypeOK, OneCall, Pointers, Sound, NEW t \in Stream, Alloc(t)
  PROVE  Sound'
  <1>1. t \in Thread /\ pc[t] = "alloc" /\ ptr[t] = None
    BY Threads DEF Alloc, Pointers
  <1>2. CASE UNCHANGED <<idr, mem, ref, starts>> /\ Leave(t)
    <2>1. UNCHANGED ptr
      BY <1>1, <1>2 DEF Leave, TypeOK
    <2>2. "alloc" \in Settled /\ "idle" \in Settled /\ "fclose" \in Settled
      BY DEF Settled, Pc, GetPc, OpeningPc, UnwindPc
    <2>3. \A u \in Thread : pc'[u] = pc[u] \/ (pc[u] \in Settled /\ pc'[u] \in Settled)
      BY <1>1, <1>2, <2>2, Threads DEF Leave, TypeOK, OneCall
    <2> QED BY <1>2, <2>1, <2>3, Calm
  <1>3. ASSUME NEW o \in Graph, mem[o] = "free", idr[Id(t)] = None,
               mem' = [mem EXCEPT ![o] = "live"], ref' = [ref EXCEPT ![o] = 0],
               starts' = [starts EXCEPT ![o] = 0], idr' = [idr EXCEPT ![Id(t)] = o],
               ptr' = [ptr EXCEPT ![t] = o], Goto(t, "init")
        PROVE  Sound'
    <2>1. /\ idr'[Id(t)] = o /\ \A i \in Ids \ {Id(t)} : idr'[i] = idr[i]
          /\ mem'[o] = "live" /\ starts'[o] = 0
          /\ \A g \in Graph \ {o} : mem'[g] = mem[g] /\ ref'[g] = ref[g] /\ starts'[g] = starts[g]
          /\ ptr'[t] = o /\ pc'[t] = "init" /\ Id(t) \in Ids
          /\ \A u \in Thread \ {t} : ptr'[u] = ptr[u] /\ pc'[u] = pc[u]
      BY <1>1, <1>3, IdType DEF TypeOK, Goto
    <2>2. Named /\ Owned /\ Alone /\ RefIsUsers
      BY DEF Sound
    <2>3. \A u \in Thread : Counted(u) \/ Dying(u) => u # t /\ ptr[u] \in Graph \ {o}
      <3>1. \A u \in Thread : Counted(u) \/ Dying(u) => u # t /\ mem[ptr[u]] = "live" /\ ptr[u] # None
        BY <1>1, <2>2 DEF Owned, OwnedBy, Counted, Dying, UnwindPc, Pointers, InHand, GetPc
      <3> QED BY <3>1, <1>3 DEF TypeOK
    <2>4. \A u \in Thread : pc[u] \in OpeningPc => u # t /\ ptr[u] \in Graph \ {o}
      <3>1. \A u \in Thread : pc[u] \in OpeningPc => Counted(u) \/ Dying(u)
        BY DEF Counted, Dying, OpeningPc, UnwindPc, Pointers, InHand, GetPc
      <3> QED BY <3>1, <2>3
    <2>5. ~Counted(t)' /\ Dying(t)' /\ ~Counted(t) /\ ~Dying(t)
      BY <1>1, <2>1 DEF Counted, Dying, UnwindPc
    <2>6. Named'
      <3>1. o # None  BY GraphAssumption DEF GraphAssumption
      <3>2. \A i \in Ids : idr[i] # o
        BY <1>3, <3>1, <2>2 DEF Named
      <3>3. \A i \in Ids : idr'[i] # None => mem'[idr'[i]] = "live"
        BY <1>3, <2>1, <2>2, <3>2 DEF Named, TypeOK
      <3>4. \A i, j \in Ids : idr'[i] # None /\ idr'[i] = idr'[j] => i = j
        BY <2>1, <2>2, <3>1, <3>2 DEF Named
      <3>5. ASSUME NEW g \in Graph, mem'[g] = "live"  PROVE \E i \in Ids : idr'[i] = g
        <4>1. CASE g = o
          BY <2>1, <4>1
        <4>2. CASE g # o
          <5>1. PICK i \in Ids : idr[i] = g
            BY <2>1, <2>2, <3>5, <4>2 DEF Named
          <5>2. i # Id(t)
            BY <1>3, <5>1, GraphAssumption DEF GraphAssumption
          <5> QED BY <2>1, <5>1, <5>2
        <4> QED BY <4>1, <4>2
      <3> QED BY <3>3, <3>4, <3>5 DEF Named
    <2>7. Owned'
      <3>1. OwnedBy(t)'
        BY <2>1 DEF OwnedBy
      <3>2. ASSUME NEW u \in Thread \ {t}  PROVE OwnedBy(u)'
        <4>1. OwnedBy(u)  BY <2>2 DEF Owned
        <4>2. Counted(u) \/ Dying(u) => Id(u) # Id(t)
          BY <1>3, <2>3, <4>1, GraphAssumption DEF OwnedBy, GraphAssumption
        <4>3. pc[u] = "kref" => Pull
          <5>1. pc[u] = "kref" => u \in Ctl
            BY <1>1, <3>2, StreamAlone, Threads DEF TypeOK
          <5> QED BY <5>1 DEF OneCall, UnwindPc
        <4> QED BY <2>1, <2>3, <4>1, <4>2, <4>3, IdType DEF OwnedBy, Counted, Dying
      <3> QED BY <3>1, <3>2 DEF Owned
    <2>8. ASSUME NEW g \in Graph \ {o}
          PROVE  Holders(g)' = Holders(g) /\ (Releasing(g)' <=> Releasing(g))
      <3>1. \A u \in Thread : Counted(u)' /\ ptr'[u] = g <=> Counted(u) /\ ptr[u] = g
        BY <2>1, <2>5 DEF Counted
      <3>2. \A u \in Thread : ptr'[u] = g /\ pc'[u] \in UnwindPc \cup {"init"}
                              <=> ptr[u] = g /\ pc[u] \in UnwindPc \cup {"init"}
        BY <1>1, <2>1, <2>5 DEF Dying
      <3> QED BY <3>1, <3>2 DEF Holders, Releasing
    <2>9. \A u \in Thread \ {t} : Apart(t, u)'
      BY <2>1, <2>3 DEF Apart, Counted, Dying
    <2>10. Alone'
      <3>1. AloneAt(t)'
        <4>1. Holders(o)' = {}
          BY <2>1, <2>5, <2>9 DEF Holders, Apart
        <4>2. "init" \notin UnwindPc
          BY DEF UnwindPc
        <4> QED BY <2>1, <2>9, <4>1, <4>2 DEF AloneAt
      <3>2. ASSUME NEW u \in Thread \ {t}  PROVE AloneAt(u)'
        <4>1. AloneAt(u)  BY <2>2 DEF Alone
        <4>2. Dying(u)' => \A v \in Thread \ {u} : Apart(u, v)'
          <5> SUFFICES ASSUME Dying(u), NEW v \in Thread \ {u}  PROVE Apart(u, v)'
            BY <2>1 DEF Dying
          <5>1. CASE v = t
            BY <2>1, <2>3, <5>1 DEF Apart
          <5>2. CASE v # t
            BY <2>1, <4>1, <5>2 DEF AloneAt, Apart, Counted, Dying
          <5> QED BY <5>1, <5>2
        <4>3. pc[u] \in OpeningPc => Holders(ptr[u])' = Holders(ptr[u])
          BY <2>1, <2>4, <2>8
        <4>4. Dying(u) => ptr[u] \in Graph \ {o}
          BY <2>3
        <4> QED BY <2>1, <2>4, <4>1, <4>2, <4>3, <4>4 DEF AloneAt, Dying
      <3> QED BY <3>1, <3>2 DEF Alone
    <2>11. RefIsUsers'
      <3>1. Releasing(o)'
        BY <1>1, <2>1 DEF Releasing
      <3>2. ASSUME NEW g \in Graph, mem'[g] = "live", ~Releasing(g)'
            PROVE  Holders(g)' # {} /\ ref'[g] = Cardinality(Holders(g)')
        <4>1. g # o  BY <3>1, <3>2
        <4>2. /\ Holders(g)' = Holders(g) /\ ~Releasing(g)
              /\ ref'[g] = ref[g] /\ mem[g] = "live"
          BY <2>1, <2>8, <3>2, <4>1
        <4> QED BY <2>2, <4>2 DEF RefIsUsers
      <3> QED BY <3>2 DEF RefIsUsers
    <2> QED BY <2>6, <2>7, <2>10, <2>11 DEF Sound
  <1> QED BY <1>2, <1>3 DEF Alloc, objVars

LEMMA SoundKrefInit ==
  ASSUME TypeOK, Pointers, Sound, NEW t \in Stream, KrefInit(t)
  PROVE  Sound'
  <1> DEFINE o == ptr[t]
  <1>1. t \in Thread /\ o \in Graph /\ pc[t] = "init"
    BY Threads DEF KrefInit, TypeOK, Pointers, InHand, GetPc
  <1>2. /\ idr' = idr /\ mem' = mem /\ starts' = starts /\ ptr' = ptr
        /\ ref'[o] = 1 /\ \A g \in Graph \ {o} : ref'[g] = ref[g]
        /\ pc'[t] \in {"mappos", "gopen"} /\ \A u \in Thread \ {t} : pc'[u] = pc[u]
    BY <1>1 DEF KrefInit, Goto, TypeOK
  <1>3. Named /\ Owned /\ Alone /\ RefIsUsers
    BY DEF Sound
  <1>4. /\ pc'[t] \in OpeningPc /\ pc'[t] \notin UnwindPc \cup {"init", "kref"}
        /\ pc[t] \in OpeningPc /\ Dying(t) /\ ~Counted(t)
    BY <1>1, <1>2 DEF OpeningPc, UnwindPc, Dying, Counted
  <1>5. o # None  BY <1>1, GraphAssumption DEF GraphAssumption
  <1>6. ~Dying(t)' /\ Counted(t)'
    BY <1>2, <1>4, <1>5 DEF Dying, Counted
  <1>7. \A u \in Thread \ {t} : Apart(t, u) /\ Apart(t, u)'
    <2>1. \A u \in Thread \ {t} : Apart(t, u)
      BY <1>1, <1>3, <1>4 DEF Alone, AloneAt
    <2> QED BY <2>1, <1>2 DEF Apart, Counted, Dying
  <1>8. Holders(o)' = {t} /\ starts[o] = 0
    <2>1. \A u \in Thread : Counted(u)' /\ ptr'[u] = o <=> u = t
      BY <1>1, <1>2, <1>6, <1>7 DEF Apart
    <2>2. Holders(o)' = {t}
      BY <1>1, <2>1 DEF Holders
    <2> QED BY <1>1, <1>3, <1>4, <2>2 DEF Alone, AloneAt
  <1>9. ASSUME NEW g \in Graph \ {o}
        PROVE  Holders(g)' = Holders(g) /\ (Releasing(g)' <=> Releasing(g))
    <2>1. \A u \in Thread : Counted(u)' /\ ptr'[u] = g <=> Counted(u) /\ ptr[u] = g
      BY <1>2 DEF Counted
    <2>2. \A u \in Thread : ptr'[u] = g => pc'[u] = pc[u]
      BY <1>2
    <2> QED BY <1>2, <2>1, <2>2 DEF Holders, Releasing
  <1>10. ~Releasing(o)'
    BY <1>2, <1>4, <1>7 DEF Releasing, Apart, Dying
  <1>11. Named'
    BY <1>2, <1>3 DEF Named
  <1>12. Owned'
    <2>1. OwnedBy(t)'
      BY <1>1, <1>2, <1>3, <1>4 DEF Owned, OwnedBy
    <2>2. \A u \in Thread \ {t} : OwnedBy(u)'
      BY <1>2, <1>3 DEF Owned, OwnedBy, Counted, Dying
    <2> QED BY <2>1, <2>2 DEF Owned
  <1>13. Alone'
    <2>1. AloneAt(t)'
      BY <1>2, <1>4, <1>6, <1>8 DEF AloneAt
    <2>2. ASSUME NEW u \in Thread \ {t}  PROVE AloneAt(u)'
      <3>1. AloneAt(u)  BY <1>3 DEF Alone
      <3>2. Dying(u) \/ pc[u] \in OpeningPc => ptr[u] \in Graph \ {o}
        BY <1>7 DEF Apart, Pointers, OpeningPc, InHand, GetPc, Dying, Counted, UnwindPc, TypeOK
      <3>3. Dying(u)' => \A v \in Thread \ {u} : Apart(u, v)'
        <4> SUFFICES ASSUME Dying(u), NEW v \in Thread \ {u}  PROVE Apart(u, v)'
          BY <1>2 DEF Dying
        <4>1. CASE v = t
          BY <1>2, <3>2, <4>1 DEF Apart
        <4>2. CASE v # t
          BY <1>2, <3>1, <4>2 DEF AloneAt, Apart, Counted, Dying
        <4> QED BY <4>1, <4>2
      <3>4. pc[u] \in OpeningPc => Holders(ptr[u])' = Holders(ptr[u])
        BY <1>2, <1>9, <3>2
      <3> QED BY <1>2, <3>1, <3>2, <3>3, <3>4 DEF AloneAt, Dying
    <2> QED BY <2>1, <2>2 DEF Alone
  <1>14. RefIsUsers'
    <2>1. Holders(o)' # {} /\ ref'[o] = Cardinality(Holders(o)')
      <3>1. Cardinality({t}) = 1  BY FS_Singleton
      <3> QED BY <1>2, <1>8, <3>1
    <2>2. ASSUME NEW g \in Graph \ {o}, mem[g] = "live", ~Releasing(g)'
          PROVE  Holders(g)' # {} /\ ref'[g] = Cardinality(Holders(g)')
      <3>1. Holders(g)' = Holders(g) /\ ~Releasing(g) /\ ref'[g] = ref[g]
        BY <1>2, <1>9, <2>2
      <3> QED BY <1>3, <2>2, <3>1 DEF RefIsUsers
    <2> QED BY <1>2, <2>1, <2>2 DEF RefIsUsers, Holders
  <1> QED BY <1>11, <1>12, <1>13, <1>14 DEF Sound

\* The undertaker takes the graph out of the table and frees it.
LEMMA SoundIdrRemove ==
  ASSUME TypeOK, OneCall, Pointers, Sound, NEW t \in Thread, IdrRemove(t)
  PROVE  Sound'
  <1> DEFINE o == ptr[t]
  <1>1. o \in Graph /\ pc[t] = "unidr" /\ Id(t) \in Ids
    BY IdType DEF IdrRemove, TypeOK, Pointers, InHand, UnwindPc
  <1>2. /\ idr'[Id(t)] = None /\ \A i \in Ids \ {Id(t)} : idr'[i] = idr[i]
        /\ mem'[o] = "free" /\ \A g \in Graph \ {o} : mem'[g] = mem[g]
        /\ ref' = ref /\ starts' = starts
    BY <1>1 DEF IdrRemove, TypeOK
  <1>3. ptr'[t] = None /\ pc'[t] = "idle" /\ \A u \in Thread \ {t} : ptr'[u] = ptr[u]
    BY Threads DEF IdrRemove, Leave, TypeOK
  <1>4. \A u \in Thread \ {t} : pc'[u] = pc[u] \/ (pc[u] = "idle" /\ pc'[u] = "fclose")
    BY <1>1 DEF IdrRemove, Leave, TypeOK, OneCall
  <1>5. "idle" \notin UnwindPc \cup OpeningPc /\ "fclose" \notin UnwindPc \cup OpeningPc
    BY DEF UnwindPc, OpeningPc
  <1>6. \A u \in Thread \ {t} : /\ pc'[u] \in UnwindPc <=> pc[u] \in UnwindPc
                                /\ pc'[u] \in OpeningPc <=> pc[u] \in OpeningPc
                                /\ pc'[u] = "init" <=> pc[u] = "init"
                                /\ pc'[u] = "kref" <=> pc[u] = "kref"
    BY <1>4, <1>5
  <1>7. Named /\ Owned /\ Alone /\ RefIsUsers
    BY DEF Sound
  <1>8. Dying(t) /\ ~Counted(t)' /\ ~Dying(t)'
    BY <1>1, <1>3, <1>5 DEF Dying, Counted, UnwindPc
  <1>9. \A u \in Thread \ {t} : Counted(u) \/ Dying(u) => ptr[u] \in Graph \ {o}
    BY <1>7, <1>8 DEF Alone, AloneAt, Apart, Counted, Dying, Pointers, InHand, GetPc, TypeOK
  <1>10. idr[Id(t)] = o
    BY <1>7, <1>8 DEF Owned, OwnedBy
  <1>11. ASSUME NEW g \in Graph \ {o}
         PROVE  Holders(g)' = Holders(g) /\ (Releasing(g)' <=> Releasing(g))
    <2>1. g # None  BY GraphAssumption DEF GraphAssumption
    <2>2. \A u \in Thread : Counted(u)' /\ ptr'[u] = g <=> Counted(u) /\ ptr[u] = g
      BY <1>3, <1>6, <2>1 DEF Counted
    <2>3. \A u \in Thread : ptr'[u] = g /\ pc'[u] \in UnwindPc \cup {"init"}
                            <=> ptr[u] = g /\ pc[u] \in UnwindPc \cup {"init"}
      BY <1>3, <1>6, <2>1
    <2> QED BY <2>2, <2>3 DEF Holders, Releasing
  <1>12. Named'
    <2>1. \A i \in Ids \ {Id(t)} : idr[i] # o
      BY <1>1, <1>7, <1>10, GraphAssumption DEF GraphAssumption, Named
    <2>2. \A i \in Ids : idr'[i] # None => mem'[idr'[i]] = "live"
      BY <1>2, <1>7, <2>1 DEF Named, TypeOK
    <2>3. \A i, j \in Ids : idr'[i] # None /\ idr'[i] = idr'[j] => i = j
      BY <1>2, <1>7 DEF Named
    <2>4. \A g \in Graph : mem'[g] = "live" => \E i \in Ids : idr'[i] = g
      BY <1>2, <1>7, <1>10 DEF Named
    <2> QED BY <2>2, <2>3, <2>4 DEF Named
  <1>13. Owned'
    <2>1. OwnedBy(t)'
      BY <1>3, <1>8 DEF OwnedBy
    <2>2. ASSUME NEW u \in Thread \ {t}  PROVE OwnedBy(u)'
      <3>1. OwnedBy(u)  BY <1>7 DEF Owned
      <3>2. Counted(u) \/ Dying(u) => Id(u) # Id(t)
        BY <1>9, <1>10, <3>1 DEF OwnedBy
      <3>3. pc[u] = "kref" => Pull \/ Id(u) # Id(t)
        <4>1. CASE t \in Ctl
          BY <1>1, <4>1 DEF Pointers
        <4>2. CASE t \in Stream
          <5>1. pc[u] = "kref" => u \in Ctl
            BY <1>1, <4>2, StreamAlone, Threads DEF TypeOK
          <5> QED BY <5>1 DEF OneCall, UnwindPc
        <4> QED BY <4>1, <4>2, Threads
      <3> QED BY <1>2, <1>3, <1>6, <1>9, <3>1, <3>2, <3>3, IdType DEF OwnedBy, Counted, Dying
    <2> QED BY <2>1, <2>2 DEF Owned
  <1>14. Alone'
    <2>1. AloneAt(t)'
      BY <1>3, <1>5, <1>8 DEF AloneAt
    <2>2. ASSUME NEW u \in Thread \ {t}  PROVE AloneAt(u)'
      <3>1. AloneAt(u)  BY <1>7 DEF Alone
      <3>2. Dying(u)' => \A v \in Thread \ {u} : Apart(u, v)'
        <4> SUFFICES ASSUME Dying(u), NEW v \in Thread \ {u}  PROVE Apart(u, v)'
          BY <1>6 DEF Dying
        <4>1. CASE v = t
          BY <1>8, <4>1 DEF Apart
        <4>2. CASE v # t
          BY <1>3, <1>6, <3>1, <4>2 DEF AloneAt, Apart, Counted, Dying
        <4> QED BY <4>1, <4>2
      <3>3. pc[u] \in OpeningPc => Counted(u) \/ Dying(u)
        BY DEF Counted, Dying, OpeningPc, UnwindPc, Pointers, InHand, GetPc
      <3>4. pc[u] \in OpeningPc => Holders(ptr[u])' = Holders(ptr[u])
        BY <1>3, <1>9, <1>11, <3>3
      <3> QED BY <1>2, <1>3, <1>6, <3>1, <3>2, <3>4 DEF AloneAt, Dying
    <2> QED BY <2>1, <2>2 DEF Alone
  <1>15. RefIsUsers'
    <2>1. ASSUME NEW g \in Graph, mem'[g] = "live", ~Releasing(g)'
          PROVE  Holders(g)' # {} /\ ref'[g] = Cardinality(Holders(g)')
      <3>1. g # o  BY <1>2, <2>1
      <3>2. Holders(g)' = Holders(g) /\ ~Releasing(g) /\ mem[g] = "live"
        BY <1>2, <1>11, <2>1, <3>1
      <3> QED BY <1>2, <1>7, <3>2 DEF RefIsUsers
    <2> QED BY <2>1 DEF RefIsUsers
  <1> QED BY <1>12, <1>13, <1>14, <1>15 DEF Sound

-----------------------------------------------------------------------------
\* The invariant and what it gives.

LEMMA SoundNext ==
  ASSUME TypeOK, OneCall, Pointers, Sound, Next, ~raced'
  PROVE  Sound'
  <1>1. ASSUME NEW t \in Stream, Get(t)  PROVE Sound'
    <2> t \in Thread  BY Threads
    <2>1. CASE Find(t)       BY <2>1, SoundFind
    <2>2. CASE GetFound(t)   BY <2>2, SoundGetFound
    <2>3. CASE Alloc(t)      BY <2>3, SoundAlloc
    <2>4. CASE KrefInit(t)   BY <2>4, SoundKrefInit
    <2>5. CASE MapPosition(t) \/ GraphOpen(t) \/ MapOob(t) \/ Calibrate(t)
      BY <2>5, SoundOpening
      DEF MapPosition, GraphOpen, MapOob, Calibrate, OpeningPc, UnwindPc, objVars
    <2>6. CASE AllocPort(t)
      <3>1. \A u \in Thread : pc'[u] = pc[u] \/ (pc[u] \in Settled /\ pc'[u] \in Settled)
        BY <2>6 DEF AllocPort, Goto, TypeOK, Settled, Pc, GetPc, OpeningPc, UnwindPc
      <3> QED BY <2>6, <3>1, Calm DEF AllocPort, objVars
    <2> QED BY <1>1, <2>1, <2>2, <2>3, <2>4, <2>5, <2>6 DEF Get
  <1>2. ASSUME NEW t \in Thread, Release(t)  PROVE Sound'
    BY <1>2, SoundPut, SoundUnwind, SoundIdrRemove DEF Release
  <1>3. CASE BackEnd \/ FrontEnd \/ User
    BY <1>3, HandlersWalk, CallsWalk, SoundWalk
  <1>4. ASSUME NEW c \in Ctl, CtlGet(c) \/ CtlSend(c)  PROVE Sound'
    BY <1>4, SoundCtlGet, SoundCtlSend
  <1> QED BY <1>1, <1>2, <1>3, <1>4, NextCases

\* Only an open that found the graph, or a control, can meet a dying one;
\* an ordinary stream's open is alone with its ids.
LEMMA RacedNext ==
  ASSUME TypeOK, OneCall, Pointers, ~raced => Sound, raced => Pull, Next
  PROVE  raced' => raced \/ Pull
  <1>1. ASSUME NEW t \in Stream, GetFound(t), ~raced, ~Pull  PROVE ~raced'
    <2> DEFINE o == ptr[t]
    <2>1. t \in Thread /\ o \in Graph /\ pc[t] = "kref"
      BY <1>1, Threads DEF GetFound, TypeOK, Pointers, InHand, GetPc
    <2>2. o # None  BY <2>1, GraphAssumption DEF GraphAssumption
    <2>3. mem[o] = "live"
      BY <1>1, <2>1, <2>2, IdType DEF Sound, Owned, OwnedBy, Named
    <2>4. ~Releasing(o)
      <3>1. \A u \in Thread : pc[u] \in UnwindPc \cup {"init"} => u \in Stream
        BY <1>1, Threads DEF Pointers, UnwindPc
      <3>2. \A u \in Stream : pc[u] # "idle" => pc[u] = "kref"
        BY <2>1, StreamAlone DEF TypeOK
      <3> QED BY <3>1, <3>2 DEF Releasing, UnwindPc
    <2>5. ref[o] = Cardinality(Holders(o)) /\ Holders(o) # {}
      BY <1>1, <2>1, <2>3, <2>4 DEF Sound, RefIsUsers
    <2>6. ref[o] \in Nat \ {0}
      BY <2>5, ThreadsFinite, FS_CardinalityType, FS_EmptySet
    <2>7. raced' = (raced \/ ref[o] <= 0 \/ mem[o] = "free")
      BY <1>1 DEF GetFound, KrefGet
    <2>8. ~(ref[o] <= 0)
      BY <2>6
    <2> QED BY <1>1, <2>3, <2>7, <2>8
  <1>2. ASSUME NEW c \in Ctl, CtlGet(c)  PROVE Pull
    BY <1>2 DEF CtlGet
  <1>3. ASSUME NEW t \in Stream, Get(t), ~GetFound(t)  PROVE raced' = raced
    BY <1>3 DEF Get, Find, Alloc, KrefInit, MapPosition, GraphOpen, MapOob, Calibrate,
                AllocPort
  <1>4. ASSUME NEW t \in Thread, Release(t)  PROVE raced' = raced
    BY <1>4 DEF Release, Put, UnmapOob, GraphClose, UnmapPosition, IdrRemove
  <1>5. CASE BackEnd
    BY <1>5 DEF BackEnd, BePrepare, BeStop, BeConfigure, BeStart, BeShutdown,
                BeShutdownStop, SendStop
  <1>6. CASE FrontEnd
    BY <1>6 DEF FrontEnd, FePrepare, FeStop, FeShmem, FeFormat, GraphPrepare, FeStart,
                FeClose, FeCloseStop, SendStop
  <1>7. CASE User
    BY <1>7 DEF User, FeOpen, Prepare, TriggerStart, TriggerStop, Close
  <1>8. ASSUME NEW c \in Ctl, CtlSend(c)  PROVE raced' = raced
    BY <1>8 DEF CtlSend
  <1> QED
    BY <1>1, <1>2, <1>3, <1>4, <1>5, <1>6, <1>7, <1>8, NextCases

LEMMA RacedStays ==
  ASSUME TypeOK, Next, raced
  PROVE  raced'
  BY NextCases DEF Get, Find, GetFound, KrefGet, Alloc, KrefInit, MapPosition, GraphOpen,
     MapOob, Calibrate, AllocPort, Release, Put, UnmapOob, GraphClose, UnmapPosition,
     IdrRemove, BackEnd, BePrepare, BeStop, BeConfigure, BeStart, BeShutdown,
     BeShutdownStop, SendStop, FrontEnd, FePrepare, FeStop, FeShmem, FeFormat,
     GraphPrepare, FeStart, FeClose, FeCloseStop, User, FeOpen, Prepare, TriggerStart,
     TriggerStop, Close, CtlGet, CtlSend

LEMMA InitIInv ==
  ASSUME Init
  PROVE  OneCall /\ Pointers /\ Sound /\ ~raced
  <1>1. OneCall
    BY Threads DEF Init, OneCall, Thread
  <1>2. Pointers
    BY Threads DEF Init, Pointers, InHand, GetPc, UnwindPc, FePrepPc
  <1>3. \A t \in Thread : /\ ~Counted(t) /\ ~Dying(t)
                          /\ pc[t] \notin OpeningPc \cup UnwindPc \cup {"kref"}
    BY DEF Init, Counted, Dying, OpeningPc, UnwindPc
  <1>4. Named
    BY DEF Init, Named
  <1>5. Owned /\ Alone
    BY <1>3 DEF Owned, OwnedBy, Alone, AloneAt
  <1>6. RefIsUsers
    BY DEF Init, RefIsUsers
  <1> QED BY <1>1, <1>2, <1>4, <1>5, <1>6 DEF Init, Sound

\* The inductive invariant: as long as no open took a reference on a dying
\* graph, names, owners and counts agree, whatever the DSP refuses.
THEOREM IInvCorrect == Spec => []IInv
  <1>1. Init /\ TypeOK => IInv
    BY InitIInv DEF IInv
  <1>2. IInv /\ TypeOK' /\ [Next]_vars => IInv'
    <2> SUFFICES ASSUME IInv, TypeOK', [Next]_vars  PROVE IInv'
      OBVIOUS
    <2>1. CASE Next
      <3>1. OneCall' /\ Pointers'
        BY <2>1, OneCallStep, PointersStep DEF IInv
      <3>2. ~raced' => Sound'
        BY <2>1, SoundNext, RacedStays DEF IInv
      <3>3. raced' => Pull
        BY <2>1, RacedNext DEF IInv
      <3> QED BY <3>1, <3>2, <3>3 DEF IInv
    <2>2. CASE UNCHANGED vars
      <3>1. OneCall' /\ Pointers' /\ raced' = raced
        BY <2>2 DEF IInv, OneCall, Pointers, vars
      <3>2. Sound => Sound'
        BY <2>2 DEF vars, Sound, Named, Owned, OwnedBy, Alone, AloneAt, Apart, RefIsUsers,
                    Holders, Releasing, Counted, Dying
      <3> QED BY <3>1, <3>2 DEF IInv
    <2> QED BY <2>1, <2>2
  <1> QED BY <1>1, <1>2, TypeCorrect, PTL DEF Spec

\* The count is the number of users, for any number of mixer controls.
THEOREM CountCorrect == Spec => []CountIsUsers
  <1>1. IInv => CountIsUsers
    BY DEF IInv, Sound, RefIsUsers, CountIsUsers
  <1> QED BY <1>1, IInvCorrect, PTL

\* Nobody uses freed memory or a graph the table no longer names.
THEOREM NoUseAfterFree == Spec => []UsersHaveLiveGraph
  <1>1. IInv => UsersHaveLiveGraph
    BY DEF IInv, Sound, Owned, OwnedBy, UsersHaveLiveGraph
  <1> QED BY <1>1, IInvCorrect, PTL

\* Without the protected graph's mixer controls no open ever meets a dying
\* graph: the two theorems above then hold without condition.
THEOREM PushNeverRaces == Spec => [](~Pull => ~raced)
  <1>1. IInv => (~Pull => ~raced)
    BY DEF IInv
  <1> QED BY <1>1, IInvCorrect, PTL

-----------------------------------------------------------------------------
\* The stages of the stream's calls, the front end's state and the back
\* end's graph.
LEMMA StreamBooksGet ==
  ASSUME TypeOK, OneCall, Pointers, StreamBooks, NEW t \in Stream, Get(t)
  PROVE  StreamBooks'
  <1> USE Threads DEF TypeOK, OneCall, StreamBooks, Goto, GetPc, UnwindPc, FePrepPc, OwingNothing
  <1>0. pc[t] \in GetPc /\ t \notin Ctl /\ pcm \in {"opening", "preparing"}
    BY DEF Get, Find, GetFound, Alloc, KrefInit, MapPosition, GraphOpen, MapOob,
           Calibrate, AllocPort, BeClosePc, FeClosePc
  <1>1. CASE Find(t)
    BY <1>0, <1>1 DEF Find, strVars
  <1>2. CASE GetFound(t)
    BY <1>0, <1>2 DEF GetFound, strVars
  <1>3. CASE Alloc(t)
    BY <1>0, <1>3 DEF Alloc, Leave
  <1>4. CASE KrefInit(t)
    BY <1>0, <1>4 DEF KrefInit, strVars
  <1>5. CASE MapPosition(t)
    BY <1>0, <1>5 DEF MapPosition, strVars
  <1>6. CASE GraphOpen(t)
    BY <1>0, <1>6 DEF GraphOpen, strVars
  <1>7. CASE MapOob(t)
    BY <1>0, <1>7 DEF MapOob, strVars
  <1>8. CASE Calibrate(t)
    BY <1>0, <1>8 DEF Calibrate, strVars
  <1>9. CASE AllocPort(t)
    BY <1>0, <1>9 DEF AllocPort
  <1> QED
    BY <1>1, <1>2, <1>3, <1>4, <1>5, <1>6, <1>7, <1>8, <1>9 DEF Get

LEMMA StreamBooksRelease ==
  ASSUME TypeOK, OneCall, Pointers, StreamBooks, NEW t \in Thread, Release(t)
  PROVE  StreamBooks'
  <1> USE Threads DEF TypeOK, OneCall, StreamBooks, Goto, UnwindPc, FePrepPc, OwingNothing
  <1>0. pc[t] \in {"put"} \cup UnwindPc /\ (t \in Stream => pcm \in {"opening", "preparing", "closing"})
    BY DEF Release, Put, UnmapOob, GraphClose, UnmapPosition, IdrRemove
  <1>1. CASE Put(t)
    BY <1>0, <1>1 DEF Put, Leave
  <1>2. CASE UnmapOob(t)
    BY <1>0, <1>2 DEF UnmapOob, strVars
  <1>3. CASE GraphClose(t)
    BY <1>0, <1>3 DEF GraphClose, strVars
  <1>4. CASE UnmapPosition(t)
    BY <1>0, <1>4 DEF UnmapPosition, strVars
  <1>5. CASE IdrRemove(t)
    BY <1>0, <1>5 DEF IdrRemove, Leave
  <1> QED BY <1>1, <1>2, <1>3, <1>4, <1>5 DEF Release

LEMMA StreamBooksHandlers ==
  ASSUME TypeOK, OneCall, Pointers, StreamBooks, BackEnd \/ FrontEnd \/ User
  PROVE  StreamBooks'
  <1> USE Threads DEF TypeOK, OneCall, StreamBooks, Goto, UnwindPc, FePrepPc, OwingNothing, GetPc,
                      BeGetPc, BeClosePc
  <1>1. CASE BePrepare
    BY <1>1 DEF BePrepare, StopDec, BeAfterStop
  <1>2. CASE BeStop
    BY <1>2 DEF BeStop, SendStop, BeAfterStop, objVars, strVars
  <1>3. CASE BeConfigure
    BY <1>3 DEF BeConfigure, objVars, strVars
  <1>4. CASE BeStart
    BY <1>4 DEF BeStart
  <1>5. CASE BeShutdown
    BY <1>5 DEF BeShutdown, StopDec
  <1>6. CASE BeShutdownStop
    BY <1>6 DEF BeShutdownStop, SendStop, objVars, strVars
  <1>7. CASE FePrepare
    BY <1>7 DEF FePrepare, StopDec
  <1>8. CASE FeStop
    BY <1>8 DEF FeStop, SendStop, objVars, strVars
  <1>9. CASE FeShmem
    BY <1>9 DEF FeShmem, PrepareFails, objVars
  <1>10. CASE FeFormat
    BY <1>10 DEF FeFormat, PrepareFails, objVars
  <1>11. CASE GraphPrepare
    BY <1>11 DEF GraphPrepare, PrepareFails, objVars
  <1>12. CASE FeStart
    BY <1>12 DEF FeStart, PrepareFails
  <1>13. CASE FeClose
    BY <1>13 DEF FeClose, StopDec
  <1>14. CASE FeCloseStop
    BY <1>14 DEF FeCloseStop, SendStop, objVars, strVars
  <1>15. CASE FeOpen
    BY <1>15 DEF FeOpen, objVars
  <1>16. CASE Prepare
    BY <1>16 DEF Prepare, objVars
  <1>17. CASE TriggerStart
    BY <1>17 DEF TriggerStart, objVars
  <1>18. CASE TriggerStop
    BY <1>18 DEF TriggerStop, objVars
  <1>19. CASE Close
    BY <1>19 DEF Close, objVars
  <1> QED
    BY <1>1, <1>2, <1>3, <1>4, <1>5, <1>6, <1>7, <1>8, <1>9, <1>10, <1>11, <1>12,
       <1>13, <1>14, <1>15, <1>16, <1>17, <1>18, <1>19 DEF BackEnd, FrontEnd, User

LEMMA StreamBooksNext ==
  ASSUME TypeOK, OneCall, Pointers, StreamBooks, Next
  PROVE  StreamBooks'
  <1>1. ASSUME NEW c \in Ctl, CtlGet(c) \/ CtlSend(c)  PROVE StreamBooks'
    <2>1. /\ UNCHANGED strVars /\ pc'["fe"] = pc["fe"] /\ ptr'["be"] = ptr["be"]
      BY <1>1, Threads DEF CtlGet, CtlSend, Goto, TypeOK
    <2> QED BY <2>1 DEF StreamBooks, strVars
  <1> QED BY <1>1, NextCases, StreamBooksGet, StreamBooksRelease, StreamBooksHandlers

-----------------------------------------------------------------------------
\* start_count is what its two users owe.

Owes(s) == IF s = "fe" THEN FeOwesStop ELSE BeOwesStop

LEMMA OwedIs ==
  /\ \A s \in Stream : Owes(s) \in {0, 1} /\ Owes(s)' \in {0, 1}
  /\ \A o \in Graph :
       /\ Owed(o) = (IF ptr["fe"] = o THEN Owes("fe") ELSE 0)
                    + (IF ptr["be"] = o THEN Owes("be") ELSE 0)
       /\ Owed(o)' = (IF ptr'["fe"] = o THEN Owes("fe")' ELSE 0)
                     + (IF ptr'["be"] = o THEN Owes("be")' ELSE 0)
       /\ Owed(o) \in Nat /\ Owed(o)' \in Nat
  BY DEF Owes, Owed, FeOwesStop, BeOwesStop

\* A step that leaves start_count alone, and the streams owe no less, and
\* of the pull graph no more: one that owes nothing may change its graph.
LEMMA BalancedFrame ==
  ASSUME TypeOK, Balanced, starts' = starts,
         \A o \in Graph : mem'[o] = "live" => mem[o] = "live",
         \A s \in Stream : /\ ptr'[s] = ptr[s] \/ Owes(s) = 0
                           /\ Owes(s)' = Owes(s) \/ (~Pull /\ Owes(s) = 0),
         \A s \in Stream : ptr'[s] = ptr[s] \/ Owes(s)' = 0
  PROVE  Balanced'
  <1>1. ASSUME NEW o \in Graph
        PROVE  Owed(o)' >= Owed(o) /\ (Pull => Owed(o)' = Owed(o))
    <2>1. ASSUME NEW s \in Stream
          PROVE  LET was == IF ptr[s] = o THEN Owes(s) ELSE 0
                     is == IF ptr'[s] = o THEN Owes(s)' ELSE 0
                 IN  was \in Nat /\ is \in Nat /\ is >= was /\ (Pull => is = was)
      BY OwedIs
    <2> QED BY <2>1, OwedIs, Threads
  <1>2. \A o \in Graph : starts[o] \in Int /\ Owed(o) \in Nat /\ Owed(o)' \in Nat
    BY OwedIs DEF TypeOK
  <1>3. ASSUME NEW o \in Graph, mem'[o] = "live"
        PROVE  starts'[o] <= Owed(o)' /\ (Pull => starts'[o] = Owed(o)')
    <2>1. starts[o] <= Owed(o) /\ (Pull => starts[o] = Owed(o))
      BY <1>3 DEF Balanced
    <2> QED BY <1>1, <1>2, <2>1
  <1> QED BY <1>3 DEF Balanced

\* A start_count that moves with what one stream owes its graph.
LEMMA StartsMove ==
  ASSUME TypeOK, Balanced, NEW s \in Stream, NEW d \in Int, ptr' = ptr, mem' = mem,
         ptr[s] \in Graph,
         starts' = [starts EXCEPT ![ptr[s]] = starts[ptr[s]] + d],
         Owes(s)' = Owes(s) + d, \A u \in Stream \ {s} : Owes(u)' = Owes(u)
  PROVE  Balanced'
  <1>1. ASSUME NEW o \in Graph
        PROVE  Owed(o)' = Owed(o) + (IF o = ptr[s] THEN d ELSE 0)
    BY OwedIs, Threads
  <1>2. \A o \in Graph : starts[o] \in Int /\ Owed(o) \in Nat
                         /\ starts'[o] = starts[o] + (IF o = ptr[s] THEN d ELSE 0)
    BY OwedIs DEF TypeOK
  <1>3. ASSUME NEW o \in Graph, mem'[o] = "live"
        PROVE  starts'[o] <= Owed(o)' /\ (Pull => starts'[o] = Owed(o)')
    <2>1. starts[o] <= Owed(o) /\ (Pull => starts[o] = Owed(o))
      BY <1>3 DEF Balanced
    <2> QED BY <1>1, <1>2, <2>1
  <1> QED BY <1>3 DEF Balanced

\* The start of a stream's graph: one more if it returned 0.
LEMMA StartOkMoves ==
  ASSUME TypeOK, NEW t \in Thread, ptr[t] \in Graph, NEW r, StartOk(t, r)
  PROVE  /\ r = "ok" => starts' = [starts EXCEPT ![ptr[t]] = starts[ptr[t]] + 1]
         /\ r # "ok" => starts' = starts
  <1>0. starts \in [Graph -> Int]
    BY DEF TypeOK
  <1>1. CASE starts[ptr[t]] = 0 /\ r = "ok"
    BY <1>0, <1>1 DEF StartOk
  <1>2. CASE starts[ptr[t]] = 0 /\ r # "ok"
    <2>1. starts' = [starts EXCEPT ![ptr[t]] = starts[ptr[t]]]
      BY <1>2 DEF StartOk
    <2>2. starts' = starts
      BY <1>0, <2>1
    <2> QED BY <1>2, <2>2
  <1>3. CASE starts[ptr[t]] # 0
    BY <1>0, <1>3 DEF StartOk
  <1> QED BY <1>1, <1>2, <1>3

LEMMA StopDecMoves ==
  ASSUME TypeOK, NEW t \in Thread, ptr[t] \in Graph, NEW a, NEW b, StopDec(t, a, b)
  PROVE  /\ -1 \in Int
         /\ starts' = [starts EXCEPT ![ptr[t]] = starts[ptr[t]] + (-1)]
  <1>1. starts[ptr[t]] - 1 = starts[ptr[t]] + (-1)
    BY DEF TypeOK
  <1>2. -1 \in Int
    OBVIOUS
  <1>3. starts' = [starts EXCEPT ![ptr[t]] = starts[ptr[t]] - 1]
    BY DEF StopDec
  <1> QED BY <1>1, <1>2, <1>3

LEMMA BalancedBackEnd ==
  ASSUME TypeOK, OneCall, Pointers, StreamBooks, Balanced, BackEnd
  PROVE  Balanced'
  <1>0. /\ "fe" \in Thread /\ "be" \in Thread /\ beStarted \in BOOLEAN
        /\ \A t \in Thread : Counted(t) => ptr[t] \in Graph
    BY Threads DEF TypeOK, Counted
  <1>m. mem' = mem /\ ptr' = ptr
    BY HandlersWalk DEF SettledWalk
  <1>r. ~Restarting /\ ~Restarting'
    <2>1. pc["be"] # "idle" /\ pc'["fe"] \in {pc["fe"], "fprep", "fclose"}
      BY Threads DEF BackEnd, BePrepare, BeStop, BeConfigure, BeStart, BeShutdown, BeShutdownStop,
                     SendStop, StopDec, Goto, TypeOK
    <2>2. pc["fe"] = "idle"
      BY <2>1 DEF OneCall, TypeOK
    <2> QED BY <2>1, <2>2 DEF Restarting
  <1>f. ASSUME (feState' = "IDLE") = (feState = "IDLE")  PROVE Owes("fe")' = Owes("fe")
    BY <1>r, <1>f DEF Owes, FeOwesStop
  <1>b. ASSUME beStarted' = beStarted  PROVE Owes("be")' = Owes("be")
    BY <1>b DEF Owes, BeOwesStop
  <1>1. CASE BePrepare \/ BeShutdown
    <2>1. pc["be"] \in {"bprep", "bclose"} /\ beStarted' = FALSE /\ feState' = feState
      BY <1>1 DEF BePrepare, BeShutdown
    <2>2. CASE ~beStarted
      <3>1. starts' = starts /\ beStarted' = beStarted
        BY <1>0, <1>1, <2>1, <2>2 DEF BePrepare, BeShutdown
      <3> QED BY <1>m, <1>f, <1>b, <2>1, <3>1, BalancedFrame, Threads
    <2>3. CASE beStarted
      <3>1. Counted("be")
        BY <2>1, <2>3 DEF Pointers, Counted, UnwindPc
      <3>2. -1 \in Int /\ starts' = [starts EXCEPT ![ptr["be"]] = starts[ptr["be"]] + (-1)]
        BY <1>0, <1>1, <2>3, <3>1, StopDecMoves DEF BePrepare, BeShutdown
      <3>3. Owes("be")' = Owes("be") + (-1) /\ Owes("fe")' = Owes("fe")
        BY <1>f, <2>1, <2>3 DEF Owes, BeOwesStop
      <3> QED BY <1>0, <1>m, <3>1, <3>2, <3>3, StartsMove, Threads
    <2> QED BY <2>2, <2>3
  <1>2. CASE BeStart
    <2>1. pc["be"] = "bstart" /\ pcm = "starting" /\ feState # "IDLE" /\ Counted("be")
      BY <1>2 DEF BeStart, OneCall, BeGetPc, BeClosePc, GetPc, UnwindPc, StreamBooks, Pointers, Counted, TypeOK
    <2>2. CASE beStarted
      <3>1. UNCHANGED <<starts, feState, beStarted>>
        BY <1>2, <2>2 DEF BeStart
      <3> QED BY <1>m, <1>f, <1>b, <3>1, BalancedFrame, Threads
    <2>3. CASE ~beStarted
      <3>1. PICK r \in Outcome : /\ StartOk("be", r) /\ beStarted' = (r = "ok")
                                 /\ feState' = IF r = "ok" THEN feState ELSE "STOPPED"
        BY <1>2, <2>3 DEF BeStart
      <3>2. /\ r = "ok" => starts' = [starts EXCEPT ![ptr["be"]] = starts[ptr["be"]] + 1]
            /\ r # "ok" => starts' = starts
        BY <1>0, <2>1, <3>1, StartOkMoves
      <3>3. Owes("fe")' = Owes("fe") /\ Owes("be") = 0
        BY <1>r, <2>1, <2>3, <3>1 DEF Owes, FeOwesStop, BeOwesStop
      <3>4. CASE r = "ok"
        <4>1. Owes("be")' = Owes("be") + 1
          <5>1. BeOwesStop' = 1
            BY <3>1, <3>4 DEF BeOwesStop
          <5>2. Owes("be")' = 1
            BY <5>1 DEF Owes
          <5> QED BY <3>3, <5>2
        <4> QED BY <1>0, <1>m, <2>1, <3>2, <3>3, <3>4, <4>1, StartsMove, Threads
      <3>5. CASE r # "ok"
        <4>1. Owes("be")' = 0
          BY <3>1, <3>5 DEF Owes, BeOwesStop
        <4> QED BY <1>m, <3>2, <3>3, <3>5, <4>1, BalancedFrame, Threads
      <3> QED BY <3>4, <3>5
    <2> QED BY <2>2, <2>3
  <1>3. CASE BeStop \/ BeConfigure \/ BeShutdownStop
    <2>1. UNCHANGED <<starts, feState, beStarted>>
      BY <1>3 DEF BeStop, BeConfigure, BeShutdownStop, SendStop, objVars, strVars
    <2> QED BY <1>m, <1>f, <1>b, <2>1, BalancedFrame, Threads
  <1> QED BY <1>1, <1>2, <1>3 DEF BackEnd

LEMMA BalancedFrontEnd ==
  ASSUME TypeOK, OneCall, Pointers, StreamBooks, Balanced, FrontEnd
  PROVE  Balanced'
  <1>0. /\ "fe" \in Thread
        /\ \A t \in Thread : Counted(t) => ptr[t] \in Graph
    BY Threads DEF TypeOK, Counted
  <1>m. mem' = mem /\ ptr' = ptr
    BY HandlersWalk DEF SettledWalk
  <1>b. Owes("be")' = Owes("be")
    <2>1. beStarted' = beStarted
      BY DEF FrontEnd, FePrepare, FeStop, FeShmem, FeFormat, GraphPrepare, FeStart, FeClose, FeCloseStop,
             SendStop, strVars
    <2> QED BY <2>1 DEF Owes, BeOwesStop
  <1>c. Counted("fe")
    <2>1. pc["fe"] \in {"fprep", "fstop", "ring", "fmt", "gprep", "fstart", "fclose", "fclosestop"}
      BY DEF FrontEnd, FePrepare, FeStop, FeShmem, FeFormat, GraphPrepare, FeStart, FeClose, FeCloseStop,
             SendStop
    <2>2. pcm \notin {"closed", "opening"}
      BY <2>1 DEF OneCall, GetPc, UnwindPc
    <2> QED BY <2>1, <2>2 DEF Pointers, Counted, UnwindPc
  <1>1. CASE FePrepare
    <2>0. pc["fe"] = "fprep"
      BY <1>1 DEF FePrepare
    <2>1. CASE feState = "IDLE" \/ Pull
      <3>1. starts' = starts /\ (feState' = "IDLE" <=> feState = "IDLE")
            /\ (feState # "IDLE" => pc'["fe"] = "idle")
        BY <1>1, <2>1, Threads DEF FePrepare, Goto, TypeOK
      <3>2. Owes("fe")' = Owes("fe")
        BY <2>0, <3>1 DEF Owes, FeOwesStop, Restarting
      <3> QED BY <1>m, <1>b, <3>1, <3>2, BalancedFrame, Threads
    <2>2. CASE feState # "IDLE" /\ ~Pull
      <3>1. StopDec("fe", "fstop", "ring") /\ feState' = feState
        BY <1>1, <2>2 DEF FePrepare
      <3>2. pc'["fe"] \in {"fstop", "ring"}
        BY <3>1, Threads DEF StopDec, Goto, TypeOK
      <3>3. Owes("fe")' = Owes("fe") + (-1)
        BY <2>0, <2>2, <3>1, <3>2 DEF Owes, FeOwesStop, Restarting
      <3>4. -1 \in Int /\ starts' = [starts EXCEPT ![ptr["fe"]] = starts[ptr["fe"]] + (-1)]
        BY <1>0, <1>c, <3>1, StopDecMoves
      <3> QED BY <1>0, <1>m, <1>b, <1>c, <3>3, <3>4, StartsMove, Threads
    <2> QED BY <2>1, <2>2
  <1>2. CASE FeStop \/ FeShmem \/ FeFormat \/ GraphPrepare
    <2>1. UNCHANGED <<starts, feState>> /\ Restarting
      BY <1>2 DEF FeStop, FeShmem, FeFormat, GraphPrepare, SendStop, objVars, strVars, Restarting
    <2>2. Owes("fe") = 0 /\ (Pull => Owes("fe")' = 0)
      <3>1. Pull => feState = "IDLE"
        BY <2>1 DEF StreamBooks, Restarting, FePrepPc
      <3> QED BY <2>1, <3>1 DEF Owes, FeOwesStop
    <2> QED BY <1>m, <1>b, <2>1, <2>2, BalancedFrame, Threads
  <1>3. CASE FeStart
    <2>1. Restarting /\ (Pull => feState = "IDLE")
      BY <1>3 DEF FeStart, Restarting, StreamBooks, FePrepPc
    <2>2. PICK r \in Outcome :
            /\ StartOk("fe", r)
            /\ feState' = IF r = "ok" THEN "RUNNING" ELSE feState
            /\ pc'["fe"] = "idle"
      BY <1>3, Threads DEF FeStart, PrepareFails, Goto, TypeOK
    <2>3. /\ r = "ok" => starts' = [starts EXCEPT ![ptr["fe"]] = starts[ptr["fe"]] + 1]
          /\ r # "ok" => starts' = starts
      BY <1>0, <1>c, <2>2, StartOkMoves
    <2>4. Owes("fe") = 0
      BY <2>1 DEF Owes, FeOwesStop
    <2>5. CASE r = "ok"
      <3>1. Owes("fe")' = Owes("fe") + 1
        BY <2>2, <2>4, <2>5 DEF Owes, FeOwesStop, Restarting
      <3> QED BY <1>0, <1>m, <1>b, <1>c, <2>3, <2>5, <3>1, StartsMove, Threads
    <2>6. CASE r # "ok"
      <3>1. Pull => Owes("fe")' = 0
        BY <2>1, <2>2, <2>6 DEF Owes, FeOwesStop
      <3> QED BY <1>m, <1>b, <2>3, <2>4, <2>6, <3>1, BalancedFrame, Threads
    <2> QED BY <2>5, <2>6
  <1>4. CASE FeClose
    <2>1. pc["fe"] = "fclose" /\ feState' = "IDLE"
      BY <1>4 DEF FeClose
    <2>2. Owes("fe")' = 0
      BY <2>1 DEF Owes, FeOwesStop
    <2>3. CASE feState = "IDLE"
      <3>1. starts' = starts /\ Owes("fe") = 0
        BY <1>4, <2>3 DEF FeClose, Owes, FeOwesStop
      <3> QED BY <1>m, <1>b, <2>2, <3>1, BalancedFrame, Threads
    <2>4. CASE feState # "IDLE"
      <3>1. -1 \in Int /\ starts' = [starts EXCEPT ![ptr["fe"]] = starts[ptr["fe"]] + (-1)]
        BY <1>0, <1>4, <1>c, <2>4, StopDecMoves DEF FeClose
      <3>2. Owes("fe")' = Owes("fe") + (-1)
        BY <2>1, <2>2, <2>4 DEF Owes, FeOwesStop, Restarting
      <3> QED BY <1>0, <1>m, <1>b, <1>c, <3>1, <3>2, StartsMove, Threads
    <2> QED BY <2>3, <2>4
  <1>5. CASE FeCloseStop
    <2>1. /\ UNCHANGED <<starts, feState>> /\ ~Restarting /\ ~Restarting'
      BY <1>5, Threads DEF FeCloseStop, SendStop, objVars, strVars, Restarting, Goto, TypeOK
    <2>2. Owes("fe")' = Owes("fe")
      BY <2>1 DEF Owes, FeOwesStop
    <2> QED BY <1>m, <1>b, <2>1, <2>2, BalancedFrame, Threads
  <1> QED BY <1>1, <1>2, <1>3, <1>4, <1>5 DEF FrontEnd

\* A stream that is opening or releasing its graph owes it nothing.
LEMMA NothingOwed ==
  ASSUME TypeOK, OneCall, Pointers, StreamBooks, NEW t \in Stream,
         pc[t] \in GetPc \cup UnwindPc \cup {"put"}
  PROVE  Owes(t) = 0
  <1>1. CASE t = "fe"
    <2>1. \/ pcm \in {"closed", "opening"}
          \/ pcm = "closing" /\ pc["fe"] \in OwingNothing
      BY <1>1 DEF OneCall, TypeOK, FePrepPc, FeClosePc, GetPc, UnwindPc, OwingNothing
    <2> QED BY <1>1, <2>1 DEF StreamBooks, Owes, FeOwesStop
  <1>2. CASE t = "be"
    <2>1. ~beStarted
      BY <1>2 DEF Pointers, GetPc, UnwindPc
    <2> QED BY <1>2, <2>1 DEF Owes, BeOwesStop
  <1> QED BY <1>1, <1>2, Threads

\* Of the pull graph, the other stream owes nothing either while one finds
\* no graph in the table.
LEMMA NoGraphNothingOwed ==
  ASSUME TypeOK, OneCall, Pointers, Sound, StreamBooks, Pull, NEW t \in Stream,
         pc[t] = "alloc", idr[Id(t)] = None
  PROVE  \A s \in Stream : Owes(s) = 0
  <1>1. FeId = BeId /\ \A u \in Thread : Id(u) = FeId
    BY GraphAssumption DEF Id, GraphAssumption
  <1>2. \A u \in Thread : ~Counted(u)
    BY <1>1, Threads DEF Sound, Owned, OwnedBy, Counted
  <1>3. pcm \in {"opening", "preparing"}
    BY Threads DEF OneCall, TypeOK, BeClosePc, FeClosePc, UnwindPc
  <1>4. pcm = "preparing" => pc["fe"] = "idle" /\ ptr["fe"] # None
    BY Threads DEF OneCall, Pointers, FePrepPc
  <1>5. pcm = "opening"
    BY <1>2, <1>3, <1>4, Threads DEF Counted, UnwindPc
  <1>6. feState = "IDLE" /\ ptr["be"] = None
    BY <1>5 DEF StreamBooks
  <1>7. ~beStarted
    BY <1>6 DEF Pointers
  <1> QED BY <1>6, <1>7 DEF Owes, FeOwesStop, BeOwesStop

\* A thread that opens or releases a graph changes nobody else's pointer,
\* nor what anyone owes.
LEMMA OwesKept ==
  ASSUME TypeOK, OneCall, Pointers, StreamBooks, NEW t \in Thread,
         (t \in Stream /\ Get(t)) \/ Release(t)
  PROVE  /\ \A s \in Stream : Owes(s)' = Owes(s)
         /\ \A s \in Stream : ptr'[s] = ptr[s] \/ (Owes(s) = 0 /\ Owes(s)' = 0)
  <1>1. /\ UNCHANGED <<feState, beStarted>> /\ (Restarting' <=> Restarting)
        /\ pc[t] \in GetPc \cup UnwindPc \cup {"put"}
        /\ \A s \in Stream \ {t} : ptr'[s] = ptr[s]
    <2>1. CASE t \in Stream /\ Get(t)
      <3>1. /\ UNCHANGED <<feState, beStarted>> /\ pc[t] \in GetPc
            /\ \A s \in Stream \ {t} : ptr'[s] = ptr[s]
        BY <2>1, Threads
           DEF Get, Find, GetFound, KrefInit, MapPosition, GraphOpen, MapOob, Calibrate, AllocPort,
               Alloc, Leave, objVars, strVars, GetPc, TypeOK
      <3>2. pc'["fe"] \in {pc["fe"], "fclose", "idle", "put"} \cup GetPc \cup UnwindPc
        BY <2>1, Threads
           DEF Get, Find, GetFound, KrefInit, MapPosition, GraphOpen, MapOob, Calibrate, AllocPort,
               Alloc, Leave, Goto, GetPc, UnwindPc, TypeOK
      <3>3. ~Restarting
        BY <2>1, <3>1, Threads DEF OneCall, Restarting, GetPc, UnwindPc, BeGetPc, FePrepPc, BeClosePc,
                                   FeClosePc, TypeOK
      <3> QED BY <3>1, <3>2, <3>3 DEF Restarting, GetPc, UnwindPc
    <2>2. CASE Release(t)
      <3>1. /\ UNCHANGED <<feState, beStarted>> /\ pc[t] \in UnwindPc \cup {"put"}
            /\ \A s \in Stream \ {t} : ptr'[s] = ptr[s]
        BY <2>2, Threads
           DEF Release, Put, UnmapOob, GraphClose, UnmapPosition, IdrRemove, Leave, strVars, UnwindPc,
               TypeOK
      <3>2. \/ pc'["fe"] = pc["fe"]
            \/ t \in Stream /\ pc'["fe"] \in {"fclose", "idle"} \cup UnwindPc
        BY <2>2, Threads
           DEF Release, Put, UnmapOob, GraphClose, UnmapPosition, IdrRemove, Leave, Goto, UnwindPc,
               TypeOK
      <3>3. t \in Stream => ~Restarting
        BY <2>2, <3>1, Threads DEF OneCall, Restarting, GetPc, UnwindPc, BeGetPc, FePrepPc, BeClosePc,
                                   FeClosePc, TypeOK
      <3> QED BY <3>1, <3>2, <3>3 DEF Restarting, GetPc, UnwindPc
    <2> QED BY <2>1, <2>2
  <1>2. \A s \in Stream : Owes(s)' = Owes(s)
    BY <1>1 DEF Owes, FeOwesStop, BeOwesStop
  <1>3. t \in Stream => Owes(t) = 0
    BY <1>1, NothingOwed
  <1> QED BY <1>1, <1>2, <1>3

LEMMA BalancedNext ==
  ASSUME TypeOK, OneCall, Pointers, Sound, StreamBooks, Balanced, Next
  PROVE  Balanced'
  <1>1. ASSUME NEW t \in Stream, Get(t)  PROVE Balanced'
    <2>0. t \in Thread
      BY Threads
    <2>1. CASE ~Alloc(t) \/ UNCHANGED objVars
      <3>1. starts' = starts /\ mem' = mem
        BY <1>1, <2>1
           DEF Get, Find, GetFound, KrefInit, MapPosition, GraphOpen, MapOob, Calibrate, AllocPort,
               objVars, strVars
      <3> QED BY <1>1, <2>0, <3>1, OwesKept, BalancedFrame
    <2>2. CASE Alloc(t) /\ ~UNCHANGED objVars
      <3>1. /\ idr[Id(t)] = None /\ pc[t] = "alloc"
        BY <2>2 DEF Alloc
      <3>2. PICK o \in Graph : /\ mem' = [mem EXCEPT ![o] = "live"]
                               /\ starts' = [starts EXCEPT ![o] = 0]
        BY <2>2 DEF Alloc
      <3>3. /\ \A s \in Stream : Owes(s)' = Owes(s)
            /\ \A s \in Stream : ptr'[s] = ptr[s] \/ (Owes(s) = 0 /\ Owes(s)' = 0)
        BY <1>1, <2>0, OwesKept
      <3>4. Pull => \A s \in Stream : Owes(s) = 0
        BY <1>1, <3>1, NoGraphNothingOwed
      <3>5. ASSUME NEW g \in Graph, mem'[g] = "live"
            PROVE  starts'[g] <= Owed(g)' /\ (Pull => starts'[g] = Owed(g)')
        <4>1. Owed(g)' \in Nat /\ (Pull => Owed(g)' = 0)
          BY <3>3, <3>4, OwedIs, Threads
        <4>2. CASE g = o
          <5>1. starts'[g] = 0
            BY <3>2, <4>2 DEF TypeOK
          <5> QED BY <4>1, <5>1
        <4>3. CASE g # o
          <5>1. mem[g] = "live" /\ starts'[g] = starts[g] /\ starts[g] \in Int
            BY <3>2, <3>5, <4>3 DEF TypeOK
          <5>2. starts[g] <= Owed(g) /\ (Pull => starts[g] = Owed(g))
            BY <5>1 DEF Balanced
          <5>3. Owed(g)' = Owed(g)
            BY <3>3, OwedIs, Threads
          <5> QED BY <5>1, <5>2, <5>3
        <4> QED BY <4>2, <4>3
      <3> QED BY <3>5 DEF Balanced
    <2> QED BY <2>1, <2>2
  <1>2. ASSUME NEW t \in Thread, Release(t)  PROVE Balanced'
    <2>1. starts' = starts
      BY <1>2 DEF Release, Put, UnmapOob, GraphClose, UnmapPosition, IdrRemove
    <2>2. mem' = mem \/ mem' = [mem EXCEPT ![ptr[t]] = "free"]
      BY <1>2 DEF Release, Put, UnmapOob, GraphClose, UnmapPosition, IdrRemove
    <2>3. \A o \in Graph : mem'[o] = "live" => mem[o] = "live"
      BY <2>2 DEF TypeOK
    <2> QED BY <1>2, <2>1, <2>3, OwesKept, BalancedFrame
  <1>3. CASE User
    <2>1. UNCHANGED <<mem, starts, ptr>>
      BY <1>3 DEF User, FeOpen, Prepare, TriggerStart, TriggerStop, Close, objVars
    <2>2. /\ beStarted' = beStarted /\ (feState' = "IDLE" <=> feState = "IDLE")
          /\ ~Restarting /\ ~Restarting'
      <3>1. pcm \in {"closed", "open", "prepared", "running"}
        BY <1>3 DEF User, FeOpen, Prepare, TriggerStart, TriggerStop, Close
      <3>2. pc["fe"] = "idle"
        BY <3>1 DEF OneCall
      <3>3. pc'["fe"] \in {"idle", "find", "fprep"}
        BY <1>3, <3>2, Threads
           DEF User, FeOpen, Prepare, TriggerStart, TriggerStop, Close, Goto, TypeOK
      <3>4. beStarted' = beStarted /\ (feState' = "IDLE" <=> feState = "IDLE")
        BY <1>3 DEF User, FeOpen, Prepare, TriggerStart, TriggerStop, Close, StreamBooks
      <3> QED BY <3>2, <3>3, <3>4 DEF Restarting
    <2>3. \A s \in Stream : Owes(s)' = Owes(s)
      BY <2>2 DEF Owes, FeOwesStop, BeOwesStop
    <2> QED BY <2>1, <2>3, BalancedFrame
  <1>4. ASSUME NEW c \in Ctl, CtlGet(c) \/ CtlSend(c)  PROVE Balanced'
    <2>1. /\ UNCHANGED <<mem, starts, feState, beStarted>>
          /\ \A s \in Stream : ptr'[s] = ptr[s] /\ pc'[s] = pc[s]
      BY <1>4, Threads DEF CtlGet, CtlSend, Goto, objVars, strVars, TypeOK
    <2>2. \A s \in Stream : Owes(s)' = Owes(s)
      BY <2>1, Threads DEF Owes, FeOwesStop, BeOwesStop, Restarting
    <2> QED BY <2>1, <2>2, BalancedFrame
  <1> QED BY <1>1, <1>2, <1>3, <1>4, BalancedBackEnd, BalancedFrontEnd, NextCases

-----------------------------------------------------------------------------
\* What the DSP holds for a graph follows the stages of its opening and of
\* its release.

\* Only the graph in a thread's own hand changes, and no other thread is
\* opening or releasing that one.
LEMMA StagesMove ==
  ASSUME TypeOK, OneCall, Pointers, Sound, Stages, NEW t \in Thread,
         pc[t] \in OpeningPc \cup UnwindPc,
         \A u \in Thread \ {t} : pc'[u] = pc[u] /\ ptr'[u] = ptr[u],
         \A o \in Graph \ {ptr[t]} : mem'[o] = mem[o] /\ res'[o] = res[o],
         OwesAt(t)', mem'[ptr[t]] = "free" => res'[ptr[t]] = {}
  PROVE  Stages'
  <1>1. ptr[t] \in Graph
    BY DEF Pointers, InHand, OpeningPc, GetPc, TypeOK
  <1>2. ASSUME NEW u \in Thread \ {t}, pc[u] \in OpeningPc \cup UnwindPc
        PROVE  ptr[u] # ptr[t] /\ ptr[u] \in Graph
    <2>1. ptr[u] \in Graph /\ ptr[u] # None /\ ptr[t] # None
      BY <1>2 DEF Pointers, InHand, OpeningPc, GetPc, TypeOK
    <2>2. CASE Dying(u) \/ Dying(t)
      <3>1. \A v \in Thread : pc[v] \in OpeningPc => Dying(v) \/ Counted(v)
        BY DEF Pointers, InHand, OpeningPc, UnwindPc, GetPc, Dying, Counted
      <3>2. \A v \in {t, u} : Dying(v) \/ Counted(v)
        BY <1>2, <3>1 DEF Dying
      <3> QED BY <1>2, <2>1, <2>2, <3>2 DEF Sound, Alone, AloneAt, Apart
    <2>3. CASE ~Dying(u) /\ ~Dying(t)
      <3>1. t \in Stream /\ u \in Stream /\ pc[t] # "idle" /\ pc[u] # "idle"
        BY <1>2, <2>3, Threads DEF OneCall, Dying, OpeningPc, UnwindPc
      <3> QED BY <1>2, <3>1, StreamAlone DEF TypeOK
    <2> QED BY <2>1, <2>2, <2>3
  <1>3. \A u \in Thread \ {t} : OwesAt(u)'
    <2> SUFFICES ASSUME NEW u \in Thread \ {t}  PROVE OwesAt(u)'
      OBVIOUS
    <2>1. OwesAt(u) /\ pc'[u] = pc[u] /\ ptr'[u] = ptr[u]
      BY DEF Stages
    <2>2. CASE pc[u] \in OpeningPc \cup UnwindPc
      <3>1. res'[ptr[u]] = res[ptr[u]]
        BY <1>2, <2>2
      <3> QED BY <2>1, <3>1 DEF OwesAt
    <2>3. CASE pc[u] \notin OpeningPc \cup UnwindPc
      BY <2>1, <2>3 DEF OwesAt, OpeningPc, UnwindPc
    <2> QED BY <2>2, <2>3
  <1>4. \A o \in Graph : mem'[o] = "free" => res'[o] = {}
    BY DEF Stages
  <1> QED BY <1>3, <1>4 DEF Stages

\* A step that leaves what the DSP holds alone and starts no stage.
LEMMA StagesRest ==
  ASSUME Stages, res' = res,
         \A o \in Graph : mem'[o] = "free" => mem[o] = "free",
         \A t \in Thread : \/ pc'[t] = pc[t] /\ ptr'[t] = ptr[t]
                           \/ pc'[t] \notin OpeningPc \cup UnwindPc
                           \/ pc'[t] = "unoob"
  PROVE  Stages'
  <1>1. ASSUME NEW t \in Thread  PROVE OwesAt(t)'
    <2>1. CASE pc'[t] = pc[t] /\ ptr'[t] = ptr[t]
      BY <2>1 DEF Stages, OwesAt
    <2>2. CASE pc'[t] \notin OpeningPc \cup UnwindPc \/ pc'[t] = "unoob"
      BY <2>2 DEF OwesAt, OpeningPc, UnwindPc
    <2> QED BY <2>1, <2>2
  <1> QED BY <1>1 DEF Stages

\* A stage that ends: the thread keeps its graph, and holds what it gained
\* or gave back.
LEMMA StageEnds ==
  ASSUME TypeOK, OneCall, Pointers, Sound, Stages, NEW t \in Thread,
         pc[t] \in OpeningPc \cup UnwindPc, NEW at, Goto(t, at),
         mem' = mem, ptr' = ptr,
         \A o \in Graph \ {ptr[t]} : res'[o] = res[o],
         at \in {"init", "mappos", "unidr"} => res'[ptr[t]] = {},
         at \in {"gopen", "unpos"} => res'[ptr[t]] \subseteq {"pos"},
         at \in {"mapoob", "undsp"} => res'[ptr[t]] \subseteq {"pos", "dsp"}
  PROVE  Stages'
  <1>1. ptr[t] \in Graph /\ ptr[t] # None
    BY DEF Pointers, InHand, OpeningPc, GetPc, TypeOK
  <1>2. pc'[t] = at /\ \A u \in Thread \ {t} : pc'[u] = pc[u]
    BY DEF Goto, TypeOK
  <1>4. mem[ptr[t]] # "free"
    <2>1. Counted(t) \/ Dying(t)
      BY <1>1 DEF Counted, Dying, OpeningPc, UnwindPc
    <2>2. OwnedBy(t)
      BY DEF Sound, Owned
    <2> QED BY <2>1, <2>2 DEF OwnedBy
  <1>5. OwesAt(t)'
    BY <1>2 DEF OwesAt
  <1> QED BY <1>1, <1>2, <1>4, <1>5, StagesMove

LEMMA StagesNext ==
  ASSUME TypeOK, OneCall, Pointers, Sound, Stages, Next
  PROVE  Stages'
  <1>r. \A o \in Graph : res[o] \in SUBSET {"pos", "dsp", "oob"}
    BY DEF TypeOK
  <1>e. \A o \in Graph : res = [res EXCEPT ![o] = res[o]]
    BY DEF TypeOK
  <1>o. \A t \in Thread : OwesAt(t)
    BY DEF Stages
  <1>g. \A t \in Thread : pc[t] \in OpeningPc \cup UnwindPc => ptr[t] \in Graph
    BY DEF Pointers, InHand, OpeningPc, GetPc, TypeOK
  <1>1. ASSUME NEW t \in Stream, Get(t)  PROVE Stages'
    <2> t \in Thread  BY Threads
    <2>1. CASE Find(t) \/ GetFound(t) \/ AllocPort(t)
      <3>1. \A u \in Thread : u # t => pc'[u] = pc[u] /\ ptr'[u] = ptr[u]
        BY <2>1 DEF Find, GetFound, AllocPort, Goto, TypeOK
      <3>2. pc'[t] \notin OpeningPc \cup UnwindPc
        BY <2>1 DEF Find, GetFound, AllocPort, Goto, TypeOK, OpeningPc, UnwindPc
      <3>3. res' = res /\ mem' = mem
        BY <2>1 DEF Find, GetFound, AllocPort, objVars
      <3> QED BY <3>1, <3>2, <3>3, StagesRest
    <2>2. CASE Alloc(t) /\ UNCHANGED objVars
      <3>1. /\ pc[t] = "alloc" /\ res' = res /\ mem' = mem
            /\ \/ Leave(t)
               \/ \E o \in Graph : mem[o] = "free" /\ mem' = [mem EXCEPT ![o] = "live"]
        BY <2>2 DEF Alloc, objVars
      <3>2. Leave(t)
        BY <3>1 DEF TypeOK
      <3>3. pc["be"] = "alloc" => pcm # "closing"
        BY Threads DEF OneCall, BeClosePc, UnwindPc
      <3>4. \A u \in Thread : u # t => pc'[u] = pc[u] /\ ptr'[u] = ptr[u]
        BY <3>1, <3>2, <3>3 DEF Leave, TypeOK
      <3>5. pc'[t] = "idle"
        BY <3>1, <3>2, <3>3 DEF Leave, TypeOK
      <3> QED BY <3>1, <3>4, <3>5, StagesRest DEF OpeningPc, UnwindPc
    <2>3. CASE Alloc(t) /\ ~UNCHANGED objVars
      <3>1. PICK o \in Graph :
              /\ mem[o] = "free" /\ mem' = [mem EXCEPT ![o] = "live"]
              /\ res' = [res EXCEPT ![o] = {}] /\ ptr' = [ptr EXCEPT ![t] = o]
        BY <2>3 DEF Alloc
      <3>2. Goto(t, "init") /\ pc[t] = "alloc"
        BY <2>3 DEF Alloc
      <3>3. res[o] = {}
        BY <3>1 DEF Stages
      <3>4. res' = res
        BY <1>e, <3>1, <3>3
      <3>5. \A g \in Graph : mem'[g] = "free" => mem[g] = "free"
        BY <3>1 DEF TypeOK
      <3>6. /\ pc'[t] = "init" /\ ptr'[t] = o
            /\ \A u \in Thread : u # t => pc'[u] = pc[u] /\ ptr'[u] = ptr[u]
        BY <3>1, <3>2 DEF Goto, TypeOK
      <3>7. \A u \in Thread : OwesAt(u)'
        <4>1. OwesAt(t)'
          BY <3>3, <3>4, <3>6 DEF OwesAt
        <4>2. \A u \in Thread : u # t => OwesAt(u)'
          BY <1>o, <3>4, <3>6 DEF OwesAt
        <4> QED BY <4>1, <4>2
      <3> QED BY <3>4, <3>5, <3>7 DEF Stages
    <2>4. CASE KrefInit(t)
      <3>1. pc[t] = "init" /\ mem' = mem /\ ptr' = ptr
        BY <2>4 DEF KrefInit
      <3>2. ptr[t] \in Graph /\ res[ptr[t]] = {}
        BY <1>g, <1>o, <1>r, <3>1 DEF OwesAt, OpeningPc
      <3>3. CASE res' = res /\ Goto(t, "mappos")
        <4>1. res'[ptr[t]] = {} /\ \A o \in Graph \ {ptr[t]} : res'[o] = res[o]
          BY <3>2, <3>3 DEF TypeOK
        <4> QED BY <3>1, <3>3, <4>1, StageEnds DEF OpeningPc
      <3>4. CASE res' = res /\ Goto(t, "gopen")
        <4>1. res'[ptr[t]] = {} /\ \A o \in Graph \ {ptr[t]} : res'[o] = res[o]
          BY <3>2, <3>4 DEF TypeOK
        <4> QED BY <3>1, <3>4, <4>1, StageEnds DEF OpeningPc
      <3> QED BY <2>4, <3>3, <3>4 DEF KrefInit
    <2>5. CASE MapPosition(t)
      <3>1. pc[t] = "mappos" /\ mem' = mem /\ ptr' = ptr
        BY <2>5 DEF MapPosition
      <3>2. ptr[t] \in Graph /\ res[ptr[t]] = {}
        BY <1>g, <1>o, <1>r, <3>1 DEF OwesAt, OpeningPc
      <3>3. CASE res' = [res EXCEPT ![ptr[t]] = @ \cup {"pos"}] /\ Goto(t, "gopen")
        <4>1. res'[ptr[t]] = {"pos"} /\ \A o \in Graph \ {ptr[t]} : res'[o] = res[o]
          BY <3>2, <3>3 DEF TypeOK
        <4> QED BY <3>1, <3>3, <4>1, StageEnds DEF OpeningPc
      <3>4. CASE res' = res /\ Goto(t, "unidr")
        <4>1. res'[ptr[t]] = {} /\ \A o \in Graph \ {ptr[t]} : res'[o] = res[o]
          BY <3>2, <3>4 DEF TypeOK
        <4> QED BY <3>1, <3>4, <4>1, StageEnds DEF OpeningPc
      <3> QED BY <2>5, <3>3, <3>4 DEF MapPosition
    <2>6. CASE GraphOpen(t)
      <3>1. pc[t] = "gopen" /\ mem' = mem /\ ptr' = ptr
        BY <2>6 DEF GraphOpen
      <3>2. ptr[t] \in Graph /\ res[ptr[t]] \subseteq {"pos"}
        BY <1>g, <1>o, <1>r, <3>1 DEF OwesAt, OpeningPc
      <3>3. CASE res' = [res EXCEPT ![ptr[t]] = @ \cup {"dsp"}] /\ Goto(t, "mapoob")
        <4>1. res'[ptr[t]] \subseteq {"pos", "dsp"} /\ \A o \in Graph \ {ptr[t]} : res'[o] = res[o]
          BY <3>2, <3>3 DEF TypeOK
        <4> QED BY <3>1, <3>3, <4>1, StageEnds DEF OpeningPc
      <3>4. CASE res' = [res EXCEPT ![ptr[t]] = @ \cup {"dsp"}] /\ Goto(t, "port")
        <4>1. res'[ptr[t]] \subseteq {"pos", "dsp"} /\ \A o \in Graph \ {ptr[t]} : res'[o] = res[o]
          BY <3>2, <3>4 DEF TypeOK
        <4> QED BY <3>1, <3>4, <4>1, StageEnds DEF OpeningPc
      <3>5. CASE res' = res /\ Goto(t, "unpos")
        <4>1. res'[ptr[t]] \subseteq {"pos"} /\ \A o \in Graph \ {ptr[t]} : res'[o] = res[o]
          BY <3>2, <3>5 DEF TypeOK
        <4> QED BY <3>1, <3>5, <4>1, StageEnds DEF OpeningPc
      <3> QED BY <2>6, <3>3, <3>4, <3>5 DEF GraphOpen
    <2>7. CASE MapOob(t)
      <3>1. pc[t] = "mapoob" /\ mem' = mem /\ ptr' = ptr
        BY <2>7 DEF MapOob
      <3>2. ptr[t] \in Graph /\ res[ptr[t]] \subseteq {"pos", "dsp"}
        BY <1>g, <1>o, <1>r, <3>1 DEF OwesAt, OpeningPc
      <3>3. CASE res' = [res EXCEPT ![ptr[t]] = @ \cup {"oob"}] /\ Goto(t, "cal")
        <4>1. \A o \in Graph \ {ptr[t]} : res'[o] = res[o]
          BY <3>2, <3>3 DEF TypeOK
        <4> QED BY <3>1, <3>3, <4>1, StageEnds DEF OpeningPc
      <3>4. CASE res' = res /\ Goto(t, "undsp")
        <4>1. res'[ptr[t]] \subseteq {"pos", "dsp"} /\ \A o \in Graph \ {ptr[t]} : res'[o] = res[o]
          BY <3>2, <3>4 DEF TypeOK
        <4> QED BY <3>1, <3>4, <4>1, StageEnds DEF OpeningPc
      <3> QED BY <2>7, <3>3, <3>4 DEF MapOob
    <2>8. CASE Calibrate(t)
      <3>1. pc[t] = "cal" /\ mem' = mem /\ ptr' = ptr
        BY <2>8 DEF Calibrate, objVars
      <3>2. ptr[t] \in Graph
        BY <1>g, <1>o, <1>r, <3>1 DEF OwesAt, OpeningPc
      <3>3. CASE res' = res /\ Goto(t, "port")
        <4>1. \A o \in Graph \ {ptr[t]} : res'[o] = res[o]
          BY <3>2, <3>3 DEF TypeOK
        <4> QED BY <3>1, <3>3, <4>1, StageEnds DEF OpeningPc
      <3>4. CASE res' = res /\ Goto(t, "unoob")
        <4>1. \A o \in Graph \ {ptr[t]} : res'[o] = res[o]
          BY <3>2, <3>4 DEF TypeOK
        <4> QED BY <3>1, <3>4, <4>1, StageEnds DEF OpeningPc
      <3> QED BY <2>8, <3>3, <3>4 DEF Calibrate, objVars
    <2> QED BY <1>1, <2>1, <2>2, <2>3, <2>4, <2>5, <2>6, <2>7, <2>8 DEF Get
  <1>2. ASSUME NEW t \in Thread, Release(t)  PROVE Stages'
    <2>1. CASE Put(t)
      <3>1. /\ res' = res /\ mem' = mem /\ pc[t] = "put"
            /\ Leave(t) \/ (Goto(t, "unoob") /\ ptr' = ptr)
        BY <2>1 DEF Put
      <3>2. \A u \in Thread : \/ pc'[u] = pc[u] /\ ptr'[u] = ptr[u]
                             \/ pc'[u] \in {"idle", "fclose", "unoob"}
        BY <3>1 DEF Leave, Goto, TypeOK
      <3> QED BY <3>1, <3>2, StagesRest DEF OpeningPc, UnwindPc
    <2>2. CASE UnmapOob(t)
      <3>1. pc[t] = "unoob" /\ mem' = mem /\ ptr' = ptr
        BY <2>2 DEF UnmapOob
      <3>2. ptr[t] \in Graph /\ res[ptr[t]] \subseteq {"pos", "dsp", "oob"}
        BY <1>g, <1>o, <1>r, <3>1 DEF OwesAt, UnwindPc
      <3>3. CASE res' = [res EXCEPT ![ptr[t]] = @ \ {"oob"}] /\ Goto(t, "undsp")
        <4>1. res'[ptr[t]] \subseteq {"pos", "dsp"} /\ \A o \in Graph \ {ptr[t]} : res'[o] = res[o]
          BY <3>2, <3>3 DEF TypeOK
        <4> QED BY <3>1, <3>3, <4>1, StageEnds DEF UnwindPc
      <3> QED BY <2>2, <3>3 DEF UnmapOob
    <2>3. CASE GraphClose(t)
      <3>1. pc[t] = "undsp" /\ mem' = mem /\ ptr' = ptr
        BY <2>3 DEF GraphClose
      <3>2. ptr[t] \in Graph /\ res[ptr[t]] \subseteq {"pos", "dsp"}
        BY <1>g, <1>o, <1>r, <3>1 DEF OwesAt, UnwindPc
      <3>3. CASE res' = [res EXCEPT ![ptr[t]] = @ \ {"dsp"}] /\ Goto(t, "unpos")
        <4>1. res'[ptr[t]] \subseteq {"pos"} /\ \A o \in Graph \ {ptr[t]} : res'[o] = res[o]
          BY <3>2, <3>3 DEF TypeOK
        <4> QED BY <3>1, <3>3, <4>1, StageEnds DEF UnwindPc
      <3> QED BY <2>3, <3>3 DEF GraphClose
    <2>4. CASE UnmapPosition(t)
      <3>1. pc[t] = "unpos" /\ mem' = mem /\ ptr' = ptr
        BY <2>4 DEF UnmapPosition
      <3>2. ptr[t] \in Graph /\ res[ptr[t]] \subseteq {"pos"}
        BY <1>g, <1>o, <1>r, <3>1 DEF OwesAt, UnwindPc
      <3>3. CASE res' = [res EXCEPT ![ptr[t]] = @ \ {"pos"}] /\ Goto(t, "unidr")
        <4>1. res'[ptr[t]] = {} /\ \A o \in Graph \ {ptr[t]} : res'[o] = res[o]
          BY <3>2, <3>3 DEF TypeOK
        <4> QED BY <3>1, <3>3, <4>1, StageEnds DEF UnwindPc
      <3> QED BY <2>4, <3>3 DEF UnmapPosition
    <2>5. CASE IdrRemove(t)
      <3>1. pc[t] = "unidr" /\ Leave(t) /\ res' = res /\ mem' = [mem EXCEPT ![ptr[t]] = "free"]
        BY <2>5 DEF IdrRemove
      <3>2. ptr[t] \in Graph /\ res[ptr[t]] = {}
        BY <1>g, <1>o, <3>1 DEF OwesAt, UnwindPc
      <3>3. \A u \in Thread : \/ pc'[u] = pc[u] /\ ptr'[u] = ptr[u]
                             \/ pc'[u] \in {"idle", "fclose"}
        BY <3>1 DEF Leave, TypeOK
      <3>4. \A u \in Thread : OwesAt(u)'
        BY <1>o, <3>1, <3>3 DEF OwesAt
      <3>5. \A o \in Graph : mem'[o] = "free" => res'[o] = {}
        BY <3>1, <3>2 DEF Stages, TypeOK
      <3> QED BY <3>4, <3>5 DEF Stages
    <2> QED BY <1>2, <2>1, <2>2, <2>3, <2>4, <2>5 DEF Release
  <1>3. CASE BackEnd \/ FrontEnd \/ User
    <2>1. SettledWalk
      BY <1>3, HandlersWalk, CallsWalk
    <2>2. res' = res
      BY <1>3 DEF BackEnd, BePrepare, BeStop, BeConfigure, BeStart, BeShutdown,
         BeShutdownStop, SendStop, FrontEnd, FePrepare, FeStop, FeShmem, FeFormat,
         GraphPrepare, FeStart, FeClose, FeCloseStop, User, FeOpen, Prepare, TriggerStart,
         TriggerStop, Close, objVars
    <2> QED BY <2>1, <2>2, StagesRest DEF SettledWalk, Settled
  <1>4. ASSUME NEW c \in Ctl, CtlGet(c) \/ CtlSend(c)  PROVE Stages'
    <2>1. res' = res /\ mem' = mem
      BY <1>4 DEF CtlGet, CtlSend, objVars
    <2>2. \A u \in Thread : \/ pc'[u] = pc[u] /\ ptr'[u] = ptr[u]
                           \/ pc'[u] \in {"cmd", "put"}
      BY <1>4, Threads DEF CtlGet, CtlSend, Goto, TypeOK
    <2> QED BY <2>1, <2>2, StagesRest DEF OpeningPc, UnwindPc
  <1> QED BY <1>1, <1>2, <1>3, <1>4, NextCases

-----------------------------------------------------------------------------
\* A graph found is the one the table names, or the table names none.
LEMMA FoundStaysNext ==
  ASSUME TypeOK, OneCall, Pointers, FoundStays, Next
  PROVE  FoundStays'
  <1>0. idr \in [Ids -> Graph \cup {None}] /\ \A t : Id(t) \in Ids
    BY IdType DEF TypeOK
  <1>1. ASSUME idr' = idr,
               \A t \in Thread : pc'[t] = "kref" => pc[t] = "kref" /\ ptr'[t] = ptr[t]
        PROVE  FoundStays'
    BY <1>1 DEF FoundStays, Id
  <1>2. ASSUME NEW t \in Stream, Get(t)  PROVE FoundStays'
    <2> t \in Thread  BY Threads
    <2>0. pc[t] \in GetPc /\ \A u \in Thread \ {t} : pc[u] # "kref"
      <3>1. pc[t] \in GetPc
        BY <1>2 DEF Get, Find, GetFound, Alloc, KrefInit, MapPosition, GraphOpen, MapOob,
                    Calibrate, AllocPort, GetPc
      <3>2. ASSUME NEW u \in Thread \ {t}, pc[u] = "kref"  PROVE FALSE
        <4>1. u \in Stream /\ pc[t] # "idle"
          BY <3>1, <3>2, Threads DEF OneCall, UnwindPc, GetPc
        <4> QED BY <3>2, <4>1, StreamAlone DEF TypeOK
      <3> QED BY <3>1, <3>2
    <2>1. CASE Find(t)
      <3>1. /\ idr' = idr /\ \A u \in Thread \ {t} : pc'[u] = pc[u]
            /\ pc'[t] = "kref" => ptr'[t] = idr[Id(t)]
        BY <2>1 DEF Find, Goto, TypeOK
      <3> QED BY <2>0, <3>1 DEF FoundStays, Id
    <2>2. CASE ~Find(t)
      <3>1. \A u \in Thread : pc'[u] # "kref"
        BY <1>2, <2>0, <2>2, Threads
           DEF Get, GetFound, Alloc, Leave, KrefInit, MapPosition, GraphOpen, MapOob, Calibrate,
               AllocPort, Goto, TypeOK
      <3> QED BY <3>1 DEF FoundStays
    <2> QED BY <2>1, <2>2
  <1>3. ASSUME NEW t \in Thread, Release(t)  PROVE FoundStays'
    <2>1. CASE IdrRemove(t)
      <3>1. idr' = [idr EXCEPT ![Id(t)] = None] /\ pc[t] = "unidr" /\ Leave(t)
        BY <2>1 DEF IdrRemove
      <3>2. \A u \in Thread : pc'[u] = "kref" => pc[u] = "kref" /\ ptr'[u] = ptr[u]
        BY <3>1 DEF Leave, TypeOK
      <3>3. \A i \in Ids : idr'[i] \in {None, idr[i]}
        BY <1>0, <3>1
      <3> QED BY <1>0, <3>2, <3>3 DEF FoundStays, Id
    <2>2. CASE ~IdrRemove(t)
      <3>1. idr' = idr
        BY <1>3, <2>2 DEF Release, Put, UnmapOob, GraphClose, UnmapPosition
      <3>2. \A u \in Thread : pc'[u] = "kref" => pc[u] = "kref" /\ ptr'[u] = ptr[u]
        BY <1>3, <2>2 DEF Release, Put, UnmapOob, GraphClose, UnmapPosition, Leave, Goto, TypeOK
      <3> QED BY <1>1, <3>1, <3>2
    <2> QED BY <2>1, <2>2
  <1>4. CASE BackEnd \/ FrontEnd \/ User
    BY <1>1, <1>4, HandlersWalk, CallsWalk DEF SettledWalk, Settled
  <1>5. ASSUME NEW c \in Ctl, CtlGet(c) \/ CtlSend(c)  PROVE FoundStays'
    <2>1. idr' = idr /\ \A u \in Thread : pc'[u] = "kref" => pc[u] = "kref" /\ ptr'[u] = ptr[u]
      BY <1>5, Threads DEF CtlGet, CtlSend, Goto, TypeOK
    <2> QED BY <1>1, <2>1
  <1> QED BY <1>2, <1>3, <1>4, <1>5, NextCases

\* Until an open meets a dying graph: the DSP holds what the stages say,
\* and the graph is owed the stops of the streams that started it.
THEOREM BooksInvCorrect == Spec => []BooksInv
  <1>1. Init => BooksInv
    <2> SUFFICES ASSUME Init  PROVE BooksInv
      OBVIOUS
    <2>1. \A t \in Thread : pc[t] = "idle" /\ ptr[t] = None
      BY DEF Init
    <2>2. StreamBooks
      BY <2>1, Threads DEF Init, StreamBooks, FePrepPc
    <2>3. Balanced /\ Stages /\ FoundStays
      BY <2>1 DEF Init, Balanced, Stages, OwesAt, FoundStays
    <2> QED BY <2>2, <2>3 DEF BooksInv
  <1>2. IInv /\ BooksInv /\ [Next]_vars => BooksInv'
    <2> SUFFICES ASSUME IInv, BooksInv, [Next]_vars  PROVE BooksInv'
      OBVIOUS
    <2>0. TypeOK /\ OneCall /\ Pointers /\ StreamBooks
      BY DEF IInv, BooksInv
    <2>1. CASE Next
      <3>1. StreamBooks'
        BY <2>0, <2>1, StreamBooksNext
      <3>2. ~raced' => ~raced
        BY <2>0, <2>1, RacedStays
      <3>3. ~raced => Sound /\ Balanced /\ Stages /\ FoundStays
        BY DEF IInv, BooksInv
      <3> QED
        BY <2>0, <2>1, <3>1, <3>2, <3>3, BalancedNext, StagesNext, FoundStaysNext DEF BooksInv
    <2>2. CASE UNCHANGED vars
      <3>1. StreamBooks' /\ raced' = raced
        BY <2>0, <2>2 DEF vars, StreamBooks
      <3>2. Balanced => Balanced'
        BY <2>2 DEF vars, Balanced, Owed, FeOwesStop, BeOwesStop, Restarting
      <3>3. Stages => Stages'
        BY <2>2 DEF vars, Stages, OwesAt
      <3>4. FoundStays => FoundStays'
        BY <2>2 DEF vars, FoundStays, Id
      <3> QED BY <3>1, <3>2, <3>3, <3>4 DEF BooksInv
    <2> QED BY <2>1, <2>2
  <1> QED BY <1>1, <1>2, IInvCorrect, PTL DEF Spec

\* Whichever stage of an open fails, whichever command the DSP refuses and
\* however many mixer controls hold the graph: a freed graph owes the DSP
\* nothing, a closed stream with no control leaves no graph behind, and
\* start_count is never above what the graph's two users owe, and of the
\* pull graph exactly that.
THEOREM BooksBalanceCorrect == Spec => []BooksBalance
  <1>1. IInv /\ BooksInv => BooksBalance
    <2> SUFFICES ASSUME IInv, BooksInv, ~raced  PROVE BooksBalance
      BY DEF BooksBalance, NothingLeaks, StartsBalanced
    <2>0. TypeOK /\ Pointers /\ Named /\ Owned /\ RefIsUsers /\ StreamBooks /\ Balanced /\ Stages
      BY DEF IInv, BooksInv, Sound
    <2>1. \A o \in Graph : mem[o] = "free" => res[o] = {}
      BY <2>0 DEF Stages
    <2>2. ASSUME \A t \in Thread : pc[t] = "idle", pcm = "closed", NEW o \in Graph
          PROVE  mem[o] = "free"
      <3>1. ptr["fe"] = None /\ ptr["be"] = None /\ \A c \in Ctl : ptr[c] = None
        BY <2>0, <2>2, Threads DEF Pointers, StreamBooks
      <3>2. Holders(o) = {}
        BY <3>1, Threads DEF Holders, Counted
      <3>3. ~Releasing(o)
        BY <2>2 DEF Releasing, UnwindPc
      <3> QED BY <2>0, <3>2, <3>3 DEF RefIsUsers, TypeOK
    <2>3. StartsBalanced
      BY <2>0 DEF StartsBalanced
    <2> QED BY <2>1, <2>2, <2>3 DEF BooksBalance, NothingLeaks
  <1> QED BY <1>1, IInvCorrect, BooksInvCorrect, PTL

-----------------------------------------------------------------------------
\* With one graph id, every step is a step of SharedGraph or leaves what
\* its clients see unchanged.

SharedUsers == IF raced THEN {} ELSE Users
InUse(t) == ptr[t] # None /\ pc[t] \notin {"kref"} \cup UnwindPc

LEMMA UsersAre == Users = {t \in Thread : InUse(t)}
  BY DEF Users, InUse

LEMMA OneId ==
  ASSUME Pull
  PROVE  FeId = BeId /\ Ids = {FeId} /\ \A t : Id(t) = FeId
  BY GraphAssumption DEF Ids, Id, GraphAssumption

\* Who uses, opens or releases a graph has the one in the table.
LEMMA InHands ==
  ASSUME IInv, Pull, ~raced, NEW t \in Thread, InUse(t) \/ pc[t] \in UnwindPc
  PROVE  /\ ptr[t] = idr[FeId] /\ ptr[t] \in Graph /\ ptr[t] # None /\ mem[ptr[t]] = "live"
         /\ Counted(t) \/ Dying(t)
  <1>1. TypeOK /\ Pointers /\ Sound
    BY DEF IInv
  <1>2. ptr[t] # None
    BY <1>1 DEF InUse, Pointers, InHand
  <1>3. ptr[t] \in Graph
    BY <1>1, <1>2 DEF TypeOK
  <1>4. Counted(t) \/ Dying(t)
    BY <1>2 DEF InUse, Counted, Dying
  <1>5. mem[ptr[t]] = "live" /\ idr[Id(t)] = ptr[t]
    BY <1>1, <1>4 DEF Sound, Owned, OwnedBy
  <1> QED BY <1>2, <1>3, <1>4, <1>5, OneId

\* A graph that is released has no user and one undertaker.
LEMMA Undertaker ==
  ASSUME IInv, Pull, ~raced, NEW t \in Thread, pc[t] \in UnwindPc
  PROVE  /\ Users = {}
         /\ \A u \in Thread : pc[u] \in UnwindPc => u = t
         /\ \A u \in Stream : pc[u] \notin OpeningPc
  <1>1. \A u \in Thread \ {t} : Counted(u) \/ Dying(u) => ptr[u] # ptr[t]
    BY DEF IInv, Sound, Alone, AloneAt, Apart, Dying
  <1>2. ptr[t] = idr[FeId]
    BY InHands
  <1>3. \A u \in Thread \ {t} : ~(InUse(u) \/ pc[u] \in UnwindPc)
    BY <1>1, <1>2, InHands
  <1>4. \A u \in Stream : pc[u] \in OpeningPc => InUse(u)
    BY Threads DEF IInv, Pointers, InHand, OpeningPc, UnwindPc, GetPc, InUse
  <1>5. ~InUse(t)
    BY DEF InUse
  <1> QED BY <1>3, <1>4, <1>5, UsersAre, Threads DEF Dying

\* A graph that is opened has its opener for only user.
LEMMA Opener ==
  ASSUME IInv, Pull, ~raced, NEW t \in Stream, pc[t] \in OpeningPc
  PROVE  Users = {t} /\ \A u \in Thread : pc[u] \notin UnwindPc
  <1>0. t \in Thread
    BY Threads
  <1>1. InUse(t)
    BY <1>0 DEF IInv, Pointers, InHand, OpeningPc, UnwindPc, GetPc, InUse
  <1>2. \A u \in Thread : pc[u] \notin UnwindPc
    BY Undertaker
  <1>3. ASSUME NEW u \in Thread, InUse(u)  PROVE u = t
    <2>1. ptr[u] = ptr[t] /\ (Counted(u) \/ Dying(u)) /\ ptr[u] \in Graph
      BY <1>0, <1>1, <1>3, InHands
    <2>2. Holders(ptr[t]) \subseteq {t} /\ (Dying(t) => \A v \in Thread \ {t} : Apart(t, v))
      BY <1>0 DEF IInv, Sound, Alone, AloneAt
    <2>3. Counted(u) => u = t
      BY <2>1, <2>2 DEF Holders
    <2>4. Dying(u) => u = t
      <3>1. Dying(u) => u \in Stream /\ pc[u] = "init"
        BY <1>2, Threads DEF Dying, IInv, OneCall, UnwindPc
      <3>2. pc[t] # "idle"
        BY DEF OpeningPc
      <3> QED BY <3>1, <3>2, StreamAlone DEF IInv, TypeOK
    <2> QED BY <2>1, <2>3, <2>4
  <1> QED BY <1>0, <1>1, <1>2, <1>3, UsersAre

\* A graph that is neither has the users its count says.
LEMMA PresentUsers ==
  ASSUME IInv, Pull, ~raced, idr[FeId] # None,
         \A u \in Thread : pc[u] \notin UnwindPc, \A u \in Stream : pc[u] \notin OpeningPc
  PROVE  /\ idr[FeId] \in Graph /\ mem[idr[FeId]] = "live" /\ Users = Holders(idr[FeId])
         /\ Users # {} /\ ref[idr[FeId]] = Cardinality(Users)
         /\ ref[idr[FeId]] \in Nat \ {0}
  <1> DEFINE g == idr[FeId]
  <1>0. TypeOK /\ OneCall /\ Named /\ Owned /\ RefIsUsers
    BY DEF IInv, Sound
  <1>1. g \in Graph /\ mem[g] = "live"
    BY <1>0 DEF TypeOK, Named, Ids
  <1>2. \A u \in Thread : pc[u] # "init"
    BY <1>0, Threads DEF OneCall, OpeningPc, UnwindPc
  <1>3. ~Releasing(g)
    BY <1>2 DEF Releasing
  <1>4. \A u \in Thread : InUse(u) <=> Counted(u) /\ ptr[u] = g
    BY <1>2, InHands DEF InUse, Counted
  <1>5. Users = Holders(g)
    BY <1>4, UsersAre DEF Holders
  <1>6. Holders(g) # {} /\ ref[g] = Cardinality(Holders(g))
    BY <1>0, <1>1, <1>3 DEF RefIsUsers
  <1>7. Cardinality(Holders(g)) \in Nat \ {0}
    BY <1>6, ThreadsFinite, FS_CardinalityType, FS_EmptySet
  <1> QED BY <1>1, <1>5, <1>6, <1>7

\* Steps the clients do not see.
LEMMA Unseen ==
  ASSUME raced' = raced, idr' = idr,
         \A t \in Thread : /\ (pc'[t] \in UnwindPc <=> pc[t] \in UnwindPc)
                           /\ (InUse(t)' <=> InUse(t)),
         \A t \in Stream : (pc'[t] \in OpeningPc <=> pc[t] \in OpeningPc)
  PROVE  Phase' = Phase /\ SharedUsers' = SharedUsers
  <1>1. Users' = Users
    BY DEF Users, InUse
  <1>2. (\E t \in Thread : pc'[t] \in UnwindPc) <=> \E t \in Thread : pc[t] \in UnwindPc
    OBVIOUS
  <1>3. (\E t \in Stream : pc'[t] \in OpeningPc) <=> \E t \in Stream : pc[t] \in OpeningPc
    OBVIOUS
  <1> QED BY <1>1, <1>2, <1>3 DEF Phase, SharedUsers

\* A reference taken on a dying graph.
LEMMA TakesDying ==
  ASSUME IInv, FoundStays, Pull, ~raced, raced', NEW t \in Thread,
         NEW o \in Graph, o # None, ref[o] <= 0 \/ mem[o] = "free",
         (t \in Stream /\ pc[t] = "kref" /\ ptr[t] = o) \/ (idr[FeId] = o /\ starts[o] > 0)
  PROVE  Shared!TakeDying
  <1>0. idr[FeId] \in {None, o}
    BY OneId DEF FoundStays
  <1>1. \A u \in Stream : pc[u] \notin OpeningPc \/ idr[FeId] = None
    <2>1. CASE t \in Stream /\ pc[t] = "kref"
      <3>1. \A u \in Stream : pc[u] # "idle" => u = t
        BY <2>1, StreamAlone DEF IInv, TypeOK
      <3> QED BY <2>1, <3>1 DEF OpeningPc
    <2>2. CASE idr[FeId] = o /\ starts[o] > 0
      <3> SUFFICES ASSUME NEW u \in Stream, pc[u] \in OpeningPc  PROVE FALSE
        OBVIOUS
      <3>1. u \in Thread /\ InUse(u)
        BY Threads DEF IInv, Pointers, InHand, OpeningPc, UnwindPc, GetPc, InUse
      <3>2. ptr[u] = o
        BY <2>2, <3>1, InHands
      <3>3. starts[ptr[u]] = 0
        BY <3>1 DEF IInv, Sound, Alone, AloneAt
      <3> QED BY <2>2, <3>2, <3>3
    <2> QED BY <2>1, <2>2
  <1>2. Phase \in {"closing", "absent"}
    <2>1. ASSUME idr[FeId] # None, \A u \in Thread : pc[u] \notin UnwindPc  PROVE FALSE
      <3>1. mem[o] = "live" /\ ref[o] \in Nat \ {0}
        BY <1>0, <1>1, <2>1, PresentUsers
      <3>2. ~(ref[o] <= 0)
        BY <3>1
      <3> QED BY <3>1, <3>2
    <2> QED BY <2>1 DEF Phase
  <1>3. Phase' = "broken" /\ SharedUsers' = {}
    BY DEF Phase, SharedUsers
  <1> QED BY <1>2, <1>3 DEF Shared!TakeDying, SharedUsers

\* A client joins a graph that is there.
LEMMA Joins ==
  ASSUME IInv, Pull, ~raced, ~raced', NEW t \in Thread, idr' = idr, idr[FeId] # None,
         ref[idr[FeId]] > 0, ~InUse(t), InUse(t)', pc[t] \notin UnwindPc, pc'[t] \notin UnwindPc,
         pc[t] \notin OpeningPc, pc'[t] \notin OpeningPc,
         \A u \in Stream : pc[u] \notin OpeningPc,
         \A u \in Thread \ {t} : pc'[u] = pc[u] /\ ptr'[u] = ptr[u],
         \A u \in Thread : pc[u] \in UnwindPc => ref[idr[FeId]] = 0
  PROVE  \E c \in Thread : Shared!Join(c)
  <1>1. \A u \in Thread : pc[u] \notin UnwindPc /\ pc'[u] \notin UnwindPc
    BY DEF IInv, TypeOK
  <1>2. \A u \in Stream : pc'[u] \notin OpeningPc
    BY Threads
  <1>3. Phase = "present" /\ Phase' = "present"
    BY <1>1, <1>2 DEF Phase
  <1>4. \A u \in Thread : InUse(u)' <=> InUse(u) \/ u = t
    BY DEF InUse
  <1>5. SharedUsers' = SharedUsers \cup {t} /\ t \notin SharedUsers
    BY <1>4 DEF SharedUsers, Users, InUse
  <1> QED BY <1>3, <1>5 DEF Shared!Join, SharedUsers

\* An open under way: one opener, the graph in the table, nobody leaving.
LEMMA OpenerSteps ==
  ASSUME IInv, Pull, ~raced, ~raced', NEW t \in Stream, pc[t] \in OpeningPc,
         idr' = idr, ptr' = ptr, \A u \in Thread \ {t} : pc'[u] = pc[u],
         pc'[t] \in OpeningPc \cup UnwindPc \cup {"port"}
  PROVE  Shared!Next \/ UNCHANGED <<Phase, SharedUsers>>
  <1>0. t \in Thread
    BY Threads
  <1>1. Users = {t} /\ InUse(t) /\ \A u \in Thread : pc[u] \notin UnwindPc
    BY <1>0, Opener, UsersAre
  <1>2. ptr[t] = idr[FeId] /\ ptr[t] # None
    BY <1>0, <1>1, InHands
  <1>3. Phase = "opening" /\ SharedUsers = {t}
    BY <1>1, <1>2 DEF Phase, SharedUsers
  <1>4. \A u \in Stream : pc[u] \in OpeningPc => u = t
    BY StreamAlone DEF IInv, TypeOK, OpeningPc
  <1>5. \A u \in Thread \ {t} : ~InUse(u)'
    BY <1>1, UsersAre DEF InUse
  <1>6. CASE pc'[t] \in OpeningPc
    <2>1. InUse(t)'
      BY <1>2, <1>6 DEF InUse, OpeningPc, UnwindPc
    <2>2. Users' = {t}
      BY <1>0, <1>5, <2>1 DEF Users, InUse
    <2>3. \A u \in Thread : pc'[u] \notin UnwindPc
      BY <1>1, <1>6 DEF OpeningPc, UnwindPc
    <2>4. Phase' = "opening" /\ SharedUsers' = {t}
      BY <1>2, <1>6, <2>2, <2>3 DEF Phase, SharedUsers
    <2> QED BY <1>3, <2>4
  <1>7. CASE pc'[t] \in UnwindPc
    <2>1. Users' = {}
      BY <1>5, <1>7 DEF Users, InUse
    <2>2. Phase' = "closing" /\ SharedUsers' = {}
      BY <1>0, <1>2, <1>7, <2>1 DEF Phase, SharedUsers
    <2>3. Shared!OpenFails
      BY <1>3, <2>2 DEF Shared!OpenFails, SharedUsers
    <2> QED BY <2>3 DEF Shared!Next
  <1>8. CASE pc'[t] = "port"
    <2>1. InUse(t)'
      BY <1>2, <1>8 DEF InUse, UnwindPc
    <2>2. Users' = {t}
      BY <1>0, <1>5, <2>1 DEF Users, InUse
    <2>3. \A u \in Thread : pc'[u] \notin UnwindPc
      BY <1>1, <1>8 DEF UnwindPc
    <2>4. \A u \in Stream : pc'[u] \notin OpeningPc
      BY <1>4, <1>8, Threads DEF OpeningPc
    <2>5. Phase' = "present" /\ SharedUsers' = {t}
      BY <1>2, <2>2, <2>3, <2>4 DEF Phase, SharedUsers
    <2>6. Shared!Opened
      BY <1>3, <2>5 DEF Shared!Opened, SharedUsers
    <2> QED BY <2>6 DEF Shared!Next
  <1> QED BY <1>6, <1>7, <1>8

LEMMA GetShares ==
  ASSUME IInv, FoundStays, Pull, ~raced, ~raced', NEW t \in Stream, Get(t)
  PROVE  Shared!Next \/ UNCHANGED <<Phase, SharedUsers>>
  <1>0. t \in Thread /\ TypeOK /\ OneCall /\ Pointers /\ Sound
    BY Threads DEF IInv
  <1>a. \A u \in Stream : pc[u] # "idle" /\ pc[t] # "idle" => u = t
    BY <1>0, StreamAlone DEF TypeOK
  <1>1. CASE Find(t) \/ AllocPort(t)
    <2>1. /\ raced' = raced /\ idr' = idr
          /\ \A u \in Thread \ {t} : pc'[u] = pc[u] /\ ptr'[u] = ptr[u]
          /\ pc[t] \in {"find", "port"} /\ pc'[t] \in {"kref", "alloc", "put", "idle", "bcfg"}
      BY <1>0, <1>1 DEF Find, AllocPort, Goto, TypeOK
    <2>2. (InUse(t)' <=> InUse(t))
      <3>1. CASE Find(t)
        <4>1. ptr[t] = None
          BY <1>0, <3>1 DEF Find, Pointers
        <4>2. pc'[t] = "kref" \/ ptr'[t] = None
          BY <1>0, <3>1, <4>1 DEF Find, Goto, TypeOK
        <4> QED BY <4>1, <4>2 DEF InUse
      <3>2. CASE AllocPort(t)
        <4>1. ptr' = ptr /\ pc[t] = "port" /\ pc'[t] \in {"put", "idle", "bcfg"}
          BY <1>0, <3>2 DEF AllocPort, Goto, TypeOK
        <4> QED BY <4>1 DEF InUse, UnwindPc
      <3> QED BY <1>1, <3>1, <3>2
    <2>3. Phase' = Phase /\ SharedUsers' = SharedUsers
      <3>1. \A u \in Thread : /\ (pc'[u] \in UnwindPc <=> pc[u] \in UnwindPc)
                             /\ (InUse(u)' <=> InUse(u))
        BY <2>1, <2>2 DEF InUse, UnwindPc
      <3>2. \A u \in Stream : (pc'[u] \in OpeningPc <=> pc[u] \in OpeningPc)
        BY <2>1, Threads DEF OpeningPc
      <3> QED BY <2>1, <3>1, <3>2, Unseen
    <2> QED BY <2>3
  <1>2. CASE GetFound(t)
    <2>1. pc[t] = "kref" /\ KrefGet(ptr[t]) /\ ptr' = ptr /\ idr' = idr /\ Goto(t, "port")
      BY <1>2 DEF GetFound
    <2>2. ptr[t] \in Graph /\ ptr[t] # None
      BY <1>0, <2>1 DEF Pointers, InHand, GetPc, TypeOK
    <2>3. mem[ptr[t]] = "live" /\ ref[ptr[t]] > 0
      <3>1. ~(ref[ptr[t]] <= 0) /\ mem[ptr[t]] # "free"
        BY <2>1 DEF KrefGet
      <3>2. ref[ptr[t]] \in Nat \cup {-1} /\ mem[ptr[t]] \in {"free", "live"}
        BY <1>0, <2>2 DEF TypeOK, Saturated
      <3> QED BY <3>1, <3>2
    <2>4. idr[FeId] = ptr[t]
      BY <1>0, <2>2, <2>3, OneId DEF Sound, Named
    <2>5. \A u \in Thread : pc[u] \in UnwindPc => ref[idr[FeId]] = 0
      <3> SUFFICES ASSUME NEW u \in Thread, pc[u] \in UnwindPc  PROVE ref[idr[FeId]] = 0
        OBVIOUS
      <3>1. ptr[u] = idr[FeId]
        BY InHands
      <3>2. u \notin Stream
        BY <1>a, <2>1 DEF UnwindPc
      <3> QED BY <1>0, <3>1, <3>2 DEF Sound, Alone, AloneAt
    <2>6. pc'[t] = "port" /\ \A u \in Thread \ {t} : pc'[u] = pc[u] /\ ptr'[u] = ptr[u]
      BY <1>0, <2>1 DEF Goto, TypeOK
    <2>7. ~InUse(t) /\ InUse(t)'
      BY <2>1, <2>2, <2>6 DEF InUse, UnwindPc
    <2>8. \A u \in Stream : pc[u] \notin OpeningPc
      BY <1>a, <2>1 DEF OpeningPc
    <2>9. \E c \in Thread : Shared!Join(c)
      BY <1>0, <2>1, <2>2, <2>3, <2>4, <2>5, <2>6, <2>7, <2>8, Joins DEF UnwindPc, OpeningPc
    <2> QED BY <2>9 DEF Shared!Next
  <1>3. CASE Alloc(t) /\ ptr'[t] = None
    <2>0. pc[t] = "alloc" /\ raced' = raced
      BY <1>3 DEF Alloc
    <2>1. idr' = idr /\ Leave(t)
      <3>1. \A o \in Graph : ptr' # [ptr EXCEPT ![t] = o]
        BY <1>0, <1>3, GraphAssumption DEF TypeOK, GraphAssumption
      <3> QED BY <1>3, <3>1 DEF Alloc
    <2>2. pc["be"] = "alloc" => pcm # "closing"
      BY <1>0, Threads DEF OneCall, BeClosePc, UnwindPc
    <2>3. pc'[t] = "idle" /\ \A u \in Thread \ {t} : pc'[u] = pc[u] /\ ptr'[u] = ptr[u]
      BY <1>0, <2>0, <2>1, <2>2 DEF Leave, TypeOK
    <2>4. ptr[t] = None
      BY <1>0, <2>0 DEF Pointers
    <2>5. \A u \in Thread : /\ (pc'[u] \in UnwindPc <=> pc[u] \in UnwindPc)
                           /\ (InUse(u)' <=> InUse(u))
      BY <1>3, <2>0, <2>3, <2>4 DEF InUse, UnwindPc
    <2>6. \A u \in Stream : (pc'[u] \in OpeningPc <=> pc[u] \in OpeningPc)
      BY <2>0, <2>3, Threads DEF OpeningPc
    <2> QED BY <2>0, <2>1, <2>5, <2>6, Unseen
  <1>4. CASE Alloc(t) /\ ptr'[t] # None
    <2>0. pc[t] = "alloc" /\ raced' = raced
      BY <1>4 DEF Alloc
    <2>1. PICK o \in Graph : /\ idr[Id(t)] = None /\ Goto(t, "init")
                             /\ idr' = [idr EXCEPT ![Id(t)] = o]
                             /\ ptr' = [ptr EXCEPT ![t] = o]
      BY <1>0, <1>4 DEF Alloc, Leave, TypeOK
    <2>2. /\ idr[FeId] = None /\ idr'[FeId] = o /\ o # None
          /\ pc'[t] = "init" /\ ptr'[t] = o
          /\ \A u \in Thread \ {t} : pc'[u] = pc[u] /\ ptr'[u] = ptr[u]
      BY <1>0, <2>1, OneId, GraphAssumption DEF TypeOK, Goto, GraphAssumption
    <2>3. \A u \in Thread : ~InUse(u) /\ pc[u] \notin UnwindPc
      BY <2>2, InHands
    <2>4. \A u \in Thread : /\ InUse(u)' <=> u = t
                           /\ pc'[u] \notin UnwindPc
      BY <2>2, <2>3 DEF InUse, UnwindPc
    <2>5. Users' = {t}
      BY <1>0, <2>4 DEF Users, InUse
    <2>6. Phase = "absent" /\ Phase' = "opening" /\ SharedUsers' = {t}
      BY <2>2, <2>4, <2>5 DEF Phase, SharedUsers, OpeningPc
    <2>7. Shared!FirstUser(t)
      BY <2>6 DEF Shared!FirstUser, SharedUsers
    <2> QED BY <1>0, <2>7 DEF Shared!Next
  <1>5. CASE KrefInit(t) \/ MapPosition(t) \/ GraphOpen(t) \/ MapOob(t) \/ Calibrate(t)
    <2>1. /\ pc[t] \in OpeningPc /\ idr' = idr /\ ptr' = ptr
          /\ \A u \in Thread \ {t} : pc'[u] = pc[u]
          /\ pc'[t] \in {"mappos", "gopen", "unidr", "mapoob", "unpos", "cal", "undsp",
                        "port", "unoob"}
      BY <1>0, <1>5 DEF KrefInit, MapPosition, GraphOpen, MapOob, Calibrate, Goto, TypeOK,
                        OpeningPc
    <2> QED BY <2>1, OpenerSteps DEF OpeningPc, UnwindPc
  <1> QED BY <1>1, <1>2, <1>3, <1>4, <1>5 DEF Get

LEMMA ReleaseShares ==
  ASSUME IInv, Pull, ~raced, ~raced', NEW t \in Thread, Release(t)
  PROVE  Shared!Next \/ UNCHANGED <<Phase, SharedUsers>>
  <1>0. TypeOK /\ OneCall /\ Pointers
    BY DEF IInv
  <1>1. CASE Put(t)
    <2>0. /\ pc[t] = "put" /\ idr' = idr
          /\ IF ref[ptr[t]] = 1 THEN Goto(t, "unoob") /\ ptr' = ptr ELSE Leave(t)
      BY <1>1 DEF Put
    <2>1. InUse(t) /\ t \in Users
      BY <1>0, <2>0, UsersAre DEF Pointers, InHand, InUse, UnwindPc
    <2>2. idr[FeId] = ptr[t] /\ ptr[t] # None
      BY <2>1, InHands
    <2>3. \A u \in Thread : pc[u] \notin UnwindPc
      BY <2>1, Undertaker
    <2>4. \A u \in Stream : pc[u] \notin OpeningPc
      BY <2>0, <2>1, Opener DEF OpeningPc
    <2>5. ref[ptr[t]] = Cardinality(Users) /\ Users = Holders(ptr[t])
      BY <2>2, <2>3, <2>4, PresentUsers
    <2>6. Phase = "present" /\ SharedUsers = Users
      BY <2>2, <2>3, <2>4 DEF Phase, SharedUsers
    <2>7. CASE ref[ptr[t]] = 1
      <3>1. Users = {t}
        BY <2>1, <2>5, <2>7, ThreadsFinite, FS_Singleton
      <3>2. pc'[t] = "unoob" /\ \A u \in Thread \ {t} : pc'[u] = pc[u]
        BY <1>0, <2>0, <2>7 DEF Goto, TypeOK
      <3>3. \A u \in Thread : ~InUse(u)'
        BY <2>0, <2>7, <3>1, <3>2, UsersAre DEF InUse, UnwindPc
      <3>4. Users' = {}
        BY <3>3 DEF Users, InUse
      <3>5. Phase' = "closing" /\ SharedUsers' = {}
        BY <2>0, <2>2, <3>2, <3>4 DEF Phase, SharedUsers, UnwindPc
      <3>6. Shared!Drop(t)
        BY <2>6, <3>1, <3>5 DEF Shared!Drop, SharedUsers
      <3> QED BY <3>6 DEF Shared!Next
    <2>8. CASE ref[ptr[t]] # 1
      <3>1. Users # {t}
        BY <2>5, <2>8, FS_Singleton
      <3>2. /\ Leave(t) /\ ptr'[t] = None
            /\ \A u \in Thread \ {t} : ptr'[u] = ptr[u]
            /\ \A u \in Thread : \/ (pc'[u] = pc[u] /\ u # t)
                                 \/ (pc'[u] = "idle" /\ u = t)
                                 \/ (pc'[u] = "fclose" /\ pc[u] = "idle" /\ u # t)
        <4>1. Leave(t)
          BY <2>0, <2>8
        <4>2. ptr'[t] = None /\ \A u \in Thread \ {t} : ptr'[u] = ptr[u]
          BY <1>0, <4>1 DEF Leave, TypeOK
        <4>3. t = "be" /\ pcm = "closing" => pc["fe"] = "idle"
          BY <1>0, <2>0 DEF OneCall
        <4>4. \A u \in Thread : \/ (pc'[u] = pc[u] /\ u # t)
                               \/ (pc'[u] = "idle" /\ u = t)
                               \/ (pc'[u] = "fclose" /\ pc[u] = "idle" /\ u # t)
          BY <1>0, <4>1, <4>3, Threads DEF Leave, TypeOK
        <4> QED BY <4>1, <4>2, <4>4
      <3>4. \A u \in Thread : pc'[u] \notin UnwindPc
        BY <2>3, <3>2 DEF UnwindPc
      <3>5. \A u \in Thread : InUse(u)' <=> InUse(u) /\ u # t
        BY <3>2 DEF InUse, UnwindPc
      <3>6. Users' = Users \ {t}
        BY <3>5 DEF Users, InUse
      <3>7. \A u \in Stream : pc'[u] \notin OpeningPc
        BY <2>4, <3>2, Threads DEF OpeningPc
      <3>8. Phase' = "present" /\ SharedUsers' = Users \ {t}
        BY <2>0, <2>2, <3>4, <3>6, <3>7 DEF Phase, SharedUsers
      <3>9. Shared!Drop(t)
        BY <2>1, <2>6, <3>1, <3>8 DEF Shared!Drop, SharedUsers
      <3> QED BY <3>9 DEF Shared!Next
    <2> QED BY <2>7, <2>8
  <1>2. CASE UnmapOob(t) \/ GraphClose(t) \/ UnmapPosition(t)
    <2>1. /\ raced' = raced /\ idr' = idr /\ ptr' = ptr
          /\ pc[t] \in UnwindPc /\ pc'[t] \in UnwindPc
          /\ \A u \in Thread \ {t} : pc'[u] = pc[u]
      BY <1>0, <1>2 DEF UnmapOob, GraphClose, UnmapPosition, Goto, TypeOK, UnwindPc
    <2>2. \A u \in Thread : /\ (pc'[u] \in UnwindPc <=> pc[u] \in UnwindPc)
                           /\ (InUse(u)' <=> InUse(u))
      BY <2>1 DEF InUse
    <2>3. \A u \in Stream : (pc'[u] \in OpeningPc <=> pc[u] \in OpeningPc)
      BY <2>1, Threads DEF OpeningPc, UnwindPc
    <2> QED BY <2>1, <2>2, <2>3, Unseen
  <1>3. CASE IdrRemove(t)
    <2>1. pc[t] = "unidr" /\ idr' = [idr EXCEPT ![Id(t)] = None] /\ Leave(t)
      BY <1>3 DEF IdrRemove
    <2>2. Users = {} /\ idr[FeId] # None
      BY <2>1, Undertaker, InHands DEF UnwindPc
    <2>3. Phase = "closing" /\ SharedUsers = {}
      BY <2>1, <2>2 DEF Phase, SharedUsers, UnwindPc
    <2>4. idr'[FeId] = None
      BY <1>0, <2>1, OneId DEF TypeOK
    <2>5. ptr'[t] = None /\ \A u \in Thread \ {t} : /\ ptr'[u] = ptr[u]
                                                    /\ (pc'[u] = pc[u] \/ pc[u] = "idle")
      <3>1. ptr'[t] = None /\ \A u \in Thread \ {t} : ptr'[u] = ptr[u]
        BY <1>0, <2>1 DEF Leave, TypeOK
      <3>2. t = "be" /\ pcm = "closing" => pc["fe"] = "idle"
        BY <1>0, <2>1 DEF OneCall
      <3>3. \A u \in Thread \ {t} : pc'[u] = pc[u] \/ pc[u] = "idle"
        BY <1>0, <2>1, <3>2, Threads DEF Leave, TypeOK
      <3> QED BY <3>1, <3>3
    <2>6. \A u \in Thread : ~InUse(u)'
      BY <2>2, <2>5, UsersAre DEF InUse, UnwindPc
    <2>7. Phase' = "absent" /\ SharedUsers' = {}
      BY <2>4, <2>6 DEF Phase, SharedUsers, Users, InUse
    <2>8. Shared!Gone
      BY <2>3, <2>7 DEF Shared!Gone, SharedUsers
    <2> QED BY <2>8 DEF Shared!Next
  <1> QED BY <1>1, <1>2, <1>3 DEF Release

LEMMA ControlShares ==
  ASSUME IInv, Pull, ~raced, ~raced', NEW c \in Ctl, CtlGet(c) \/ CtlSend(c)
  PROVE  Shared!Next \/ UNCHANGED <<Phase, SharedUsers>>
  <1>0. c \in Thread /\ c \notin Stream /\ TypeOK /\ Pointers /\ Sound
    BY Threads DEF IInv
  <1>1. CASE CtlSend(c)
    <2>1. /\ raced' = raced /\ idr' = idr /\ ptr' = ptr
          /\ pc[c] = "cmd" /\ pc'[c] = "put" /\ \A u \in Thread \ {c} : pc'[u] = pc[u]
      BY <1>0, <1>1 DEF CtlSend, Goto, TypeOK
    <2>2. \A u \in Thread : /\ (pc'[u] \in UnwindPc <=> pc[u] \in UnwindPc)
                           /\ (InUse(u)' <=> InUse(u))
      BY <2>1 DEF InUse, UnwindPc
    <2>3. \A u \in Stream : (pc'[u] \in OpeningPc <=> pc[u] \in OpeningPc)
      BY <1>0, <2>1, Threads
    <2> QED BY <2>1, <2>2, <2>3, Unseen
  <1>2. CASE CtlGet(c)
    <2>1. /\ pc[c] = "idle" /\ idr[FeId] # None /\ starts[idr[FeId]] > 0 /\ idr' = idr
          /\ KrefGet(idr[FeId]) /\ ptr' = [ptr EXCEPT ![c] = idr[FeId]] /\ Goto(c, "cmd")
      BY <1>2 DEF CtlGet
    <2>2. idr[FeId] \in Graph
      BY <1>0, <2>1 DEF TypeOK, Ids
    <2>3. ref[idr[FeId]] > 0
      <3>1. ~(ref[idr[FeId]] <= 0)
        BY <2>1 DEF KrefGet
      <3>2. ref[idr[FeId]] \in Nat \cup {-1}
        BY <1>0, <2>2 DEF TypeOK, Saturated
      <3> QED BY <3>1, <3>2
    <2>4. /\ pc'[c] = "cmd" /\ ptr'[c] = idr[FeId]
          /\ \A u \in Thread \ {c} : pc'[u] = pc[u] /\ ptr'[u] = ptr[u]
      BY <1>0, <2>1 DEF Goto, TypeOK
    <2>5. ~InUse(c) /\ InUse(c)'
      BY <1>0, <2>1, <2>4 DEF InUse, UnwindPc, Pointers
    <2>6. \A u \in Thread : pc[u] \in UnwindPc => ref[idr[FeId]] = 0
      <3> SUFFICES ASSUME NEW u \in Thread, pc[u] \in UnwindPc  PROVE ref[idr[FeId]] = 0
        OBVIOUS
      <3>1. ptr[u] = idr[FeId]
        BY InHands
      <3>2. ref[ptr[u]] = 0 \/ starts[ptr[u]] = 0
        BY <1>0 DEF Sound, Alone, AloneAt
      <3> QED BY <2>1, <3>1, <3>2
    <2>7. \A u \in Stream : pc[u] \notin OpeningPc
      <3> SUFFICES ASSUME NEW u \in Stream, pc[u] \in OpeningPc  PROVE FALSE
        OBVIOUS
      <3>1. u \in Thread /\ InUse(u)
        BY <1>0, Threads DEF Pointers, InHand, OpeningPc, UnwindPc, GetPc, InUse
      <3>2. ptr[u] = idr[FeId]
        BY <3>1, InHands
      <3>3. starts[ptr[u]] = 0
        BY <1>0, <3>1 DEF Sound, Alone, AloneAt
      <3> QED BY <2>1, <3>2, <3>3
    <2>8. \E d \in Thread : Shared!Join(d)
      BY <1>0, <2>1, <2>3, <2>4, <2>5, <2>6, <2>7, Joins DEF UnwindPc, OpeningPc
    <2> QED BY <2>8 DEF Shared!Next
  <1> QED BY <1>1, <1>2

LEMMA StepShares ==
  ASSUME IInv, FoundStays, Pull, ~raced, Next
  PROVE  Shared!Next \/ UNCHANGED <<Phase, SharedUsers>>
  <1>0. TypeOK /\ OneCall /\ Pointers
    BY DEF IInv
  <1>1. ASSUME NEW t \in Stream, Get(t)  PROVE Shared!Next \/ UNCHANGED <<Phase, SharedUsers>>
    <2>0. t \in Thread
      BY Threads
    <2>1. CASE raced'
      <3>1. GetFound(t)
        BY <1>1, <2>1 DEF Get, Find, Alloc, KrefInit, MapPosition, GraphOpen, MapOob, Calibrate,
                          AllocPort
      <3>2. pc[t] = "kref" /\ (ref[ptr[t]] <= 0 \/ mem[ptr[t]] = "free")
        BY <2>1, <3>1 DEF GetFound, KrefGet
      <3>3. ptr[t] \in Graph /\ ptr[t] # None
        BY <1>0, <2>0, <3>2 DEF Pointers, InHand, GetPc, TypeOK
      <3>4. Shared!TakeDying
        BY <2>0, <2>1, <3>2, <3>3, TakesDying
      <3> QED BY <3>4 DEF Shared!Next
    <2> QED BY <1>1, <2>1, GetShares
  <1>2. ASSUME NEW t \in Thread, Release(t)  PROVE Shared!Next \/ UNCHANGED <<Phase, SharedUsers>>
    <2>1. raced' = raced
      BY <1>2 DEF Release, Put, UnmapOob, GraphClose, UnmapPosition, IdrRemove
    <2> QED BY <1>2, <2>1, ReleaseShares
  <1>3. CASE BackEnd \/ FrontEnd \/ User
    <2>1. SettledWalk
      BY <1>0, <1>3, HandlersWalk, CallsWalk
    <2>2. raced' = raced
      BY <1>3 DEF BackEnd, BePrepare, BeStop, BeConfigure, BeStart, BeShutdown,
         BeShutdownStop, SendStop, FrontEnd, FePrepare, FeStop, FeShmem, FeFormat,
         GraphPrepare, FeStart, FeClose, FeCloseStop, User, FeOpen, Prepare, TriggerStart,
         TriggerStop, Close
    <2>3. \A u \in Thread : /\ (pc'[u] \in UnwindPc <=> pc[u] \in UnwindPc)
                           /\ (pc'[u] \in OpeningPc <=> pc[u] \in OpeningPc)
                           /\ (InUse(u)' <=> InUse(u))
      BY <2>1 DEF SettledWalk, Settled, InUse
    <2>4. idr' = idr
      BY <2>1 DEF SettledWalk
    <2> QED BY <2>2, <2>3, <2>4, Unseen, Threads
  <1>4. ASSUME NEW c \in Ctl, CtlGet(c) \/ CtlSend(c)
        PROVE  Shared!Next \/ UNCHANGED <<Phase, SharedUsers>>
    <2>1. CASE raced'
      <3>1. CtlGet(c)
        BY <1>4, <2>1 DEF CtlSend
      <3>2. /\ idr[FeId] # None /\ starts[idr[FeId]] > 0
            /\ ref[idr[FeId]] <= 0 \/ mem[idr[FeId]] = "free"
        BY <2>1, <3>1 DEF CtlGet, KrefGet
      <3>3. idr[FeId] \in Graph
        BY <1>0, <3>2 DEF TypeOK, Ids
      <3>4. Shared!TakeDying
        BY <2>1, <3>2, <3>3, TakesDying, Threads
      <3> QED BY <3>4 DEF Shared!Next
    <2> QED BY <1>4, <2>1, ControlShares
  <1> QED BY <1>1, <1>2, <1>3, <1>4, NextCases

\* The shared pull graph keeps the promise of SharedGraph to its clients,
\* with any number of mixer controls: it comes up with its first user,
\* goes down with its last, and the one way out is a reference taken on a
\* graph that is going or gone.
THEOREM SharedGraphImplemented ==
  ASSUME Pull
  PROVE  Spec => ImplementsSharedGraph
  <1>1. Init => Shared!Init
    <2> SUFFICES ASSUME Init  PROVE Shared!Init
      OBVIOUS
    <2>1. idr[FeId] = None /\ ~raced /\ \A t \in Thread : ptr[t] = None
      BY DEF Init, Ids
    <2> QED BY <2>1 DEF Shared!Init, Phase, Users
  <1>2. IInv /\ BooksInv /\ [Next]_vars => [Shared!Next]_(Shared!vars)
    <2> SUFFICES ASSUME IInv, BooksInv, [Next]_vars
                 PROVE  Shared!Next \/ UNCHANGED <<Phase, SharedUsers>>
      BY DEF Shared!vars, SharedUsers
    <2>1. CASE Next /\ ~raced
      BY <2>1, StepShares DEF BooksInv
    <2>2. CASE Next /\ raced
      BY <2>2, RacedStays DEF IInv, Phase, SharedUsers
    <2>3. CASE UNCHANGED vars
      BY <2>3 DEF vars, Phase, SharedUsers, Users
    <2> QED BY <2>1, <2>2, <2>3
  <1> QED BY <1>1, <1>2, IInvCorrect, BooksInvCorrect, PTL
           DEF Spec, ImplementsSharedGraph, Shared!Spec
=============================================================================
