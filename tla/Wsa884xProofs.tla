---------------------------- MODULE Wsa884xProofs ----------------------------
\* Theorems about one WSA884x amplifier, for any number of retries, failed
\* recoveries and mishaps.
EXTENDS Wsa884x, SequenceTheorems, TLAPS

-----------------------------------------------------------------------------
\* The register cache and the chip.

\* Until something has been lost, what the chip does not have is marked to be
\* written, and no value is left out when it is: only the detachment of a chip
\* without its Windows settings asks for that, and it is a loss.
CacheHeld ==
    /\ DOMAIN chip = Cached \cup {"wo"} /\ DOMAIN cache = Cached
    /\ ~torn => /\ ~noDefaults
                /\ dirty \/ \A r \in Cached : chip[r] = cache[r]

LEMMA Registers == Cached = {"conf", "pa", "gain", "byp"}
  BY DEF Cached, Defaults

LEMMA CacheHeldInit ==
  ASSUME Init
  PROVE  CacheHeld
  BY Registers DEF Init, CacheHeld, Defaults

\* What a write, an update and a sync do to them.
LEMMA WriteHolds ==
  ASSUME CacheHeld, NEW r, NEW v, regmap_write(r, v)
  PROVE  CacheHeld'
  <1>2. CASE r \in Cached
    <2>1. cache' = [cache EXCEPT ![r] = v] /\ dirty' = (dirty \/ cacheOnly)
          /\ torn' = (torn \/ (~cacheOnly /\ ~Reaches)) /\ noDefaults' = noDefaults
          /\ chip' = IF ~cacheOnly /\ Reaches THEN [chip EXCEPT ![r] = v] ELSE chip
      BY <1>2 DEF regmap_write
    <2>2. CASE ~cacheOnly /\ Reaches
      BY <1>2, <2>1, <2>2 DEF CacheHeld
    <2>3. CASE cacheOnly \/ ~Reaches
      BY <1>2, <2>1, <2>3 DEF CacheHeld
    <2> QED BY <2>2, <2>3
  <1>3. CASE r \notin Cached
    <2>1. /\ UNCHANGED <<cache, dirty, torn, noDefaults>>
          /\ chip' = chip \/ chip' = [chip EXCEPT ![r] = v]
      BY <1>3 DEF regmap_write
    <2> QED BY <1>3, <2>1, Registers DEF CacheHeld
  <1> QED BY <1>2, <1>3

LEMMA SyncHolds ==
  ASSUME CacheHeld, NEW reached \in BOOLEAN, regcache_sync(reached), UNCHANGED <<cache, torn>>
  PROVE  CacheHeld'
  <1>1. CASE dirty /\ reached
    <2>1. /\ chip' = [r \in DOMAIN chip |->
                IF r \in Cached /\ ~(noDefaults /\ cache[r] = Defaults[r])
                THEN cache[r] ELSE chip[r]]
          /\ ~noDefaults'
      BY <1>1 DEF regcache_sync
    <2> QED BY <2>1 DEF CacheHeld
  <1>2. CASE ~(dirty /\ reached)
    BY <1>2 DEF regcache_sync, CacheHeld
  <1> QED BY <1>1, <1>2

LEMMA CacheHeldNext ==
  ASSUME CacheHeld, [Next]_vars
  PROVE  CacheHeld'
  <1>1. ASSUME NEW p \in Threads, Access(p)
        PROVE  CacheHeld'
    <2>1. CASE Here(p, "write")
      BY <1>1, <2>1, WriteHolds DEF Access, Here
    <2>2. CASE Here(p, "update")
      <3>1. regmap_update_bits(Head(job[p]).reg, Head(job[p]).val)
        BY <1>1, <2>2 DEF Access, Here
      <3> QED BY <3>1, WriteHolds DEF regmap_update_bits, CacheHeld, regmapVars
    <2> QED BY <1>1, <2>1, <2>2 DEF Access
  <1>2. ASSUME NEW p \in Threads, Reset(p)
        PROVE  CacheHeld'
    BY <1>2 DEF Reset, CacheHeld
  <1>3. ASSUME NEW p \in Threads, Get(p)
        PROVE  CacheHeld'
    <2>1. CASE pm = "suspended"
      <3>1. regcache_sync(link = "here") /\ UNCHANGED <<cache, torn>> /\ (link = "here") \in BOOLEAN
        BY <1>3, <2>1 DEF Get
      <3> QED BY <3>1, SyncHolds
    <2>2. CASE pm # "suspended"
      BY <1>3, <2>2 DEF Get, NoRegs, CacheHeld, regmapVars
    <2> QED BY <2>1, <2>2
  <1>4. ASSUME NEW p \in Threads, NoRegs
        PROVE  CacheHeld'
    BY <1>4 DEF NoRegs, CacheHeld, regmapVars
  <1>5. ASSUME NEW p \in Threads, Step(p)
        PROVE  CacheHeld'
    <2>1. CASE Lock(p) \/ Unlock(p) \/ LookAt(p) \/ Try(p) \/ Failed(p) \/ Power(p) \/ Arm(p)
      BY <1>4, <2>1 DEF Lock, Unlock, LookAt, Try, Failed, Power, Arm
    <2>2. CASE cancel_delayed_work_sync(p) \/ GetFails(p) \/ Put(p) \/ Rearm(p) \/ Strap(p) \/ Inited(p)
      BY <1>4, <2>2 DEF cancel_delayed_work_sync, GetFails, Put, Rearm, Strap, Inited
    <2> QED BY <1>1, <1>2, <1>3, <1>5, <2>1, <2>2 DEF Step
  <1>6. CASE SetVolume
    <2>1. regmap_update_bits("gain", 1)
      BY <1>6 DEF SetVolume
    <2> QED BY <2>1, WriteHolds DEF regmap_update_bits, CacheHeld, regmapVars
  <1>7. CASE Open \/ Prepare \/ Start \/ Stop \/ Close \/ Expire \/ ReadTemp \/ Fault \/ Detach
    <2>1. NoRegs
      BY <1>7 DEF Open, Prepare, Start, Stop, Close, Call, Expire, ReadTemp, Fault, Detach
    <2> QED BY <2>1 DEF NoRegs, CacheHeld, regmapVars
  <1>8. CASE wsa884x_runtime_suspend
    BY <1>8 DEF wsa884x_runtime_suspend, CacheHeld
  <1>9. CASE update_status_unattached
    BY <1>9 DEF update_status_unattached, Retained, CacheHeld
  <1>10. CASE update_status_attached
    <2>1. CASE hwInit /\ ~Retained
      BY <1>10, <2>1 DEF update_status_attached, CacheHeld
    <2>2. CASE ~(hwInit /\ ~Retained)
      <3>1. regcache_sync(TRUE) /\ UNCHANGED <<cache, torn>>
        BY <1>10, <2>2 DEF update_status_attached
      <3> QED BY <3>1, SyncHolds
    <2> QED BY <2>1, <2>2
  <1>11. CASE UNCHANGED vars
    BY <1>11 DEF vars, CacheHeld
  <1> QED BY <1>5, <1>6, <1>7, <1>8, <1>9, <1>10, <1>11 DEF Next

\* The cache of an initialised amplifier never claims a value that the chip
\* does not have, whoever wrote it while the link was away or the device
\* suspended, for any number of mishaps (wsa884x_update_status,
\* wsa884x_runtime_resume).
THEOREM CacheIsChipCorrect == Spec => []CacheIsChip
  <1>1. CacheHeld => CacheIsChip
    BY DEF CacheHeld, CacheIsChip, Whole
  <1>2. Init => CacheHeld
    BY CacheHeldInit
  <1>3. CacheHeld /\ [Next]_vars => CacheHeld'
    BY CacheHeldNext
  <1> QED BY <1>1, <1>2, <1>3, PTL DEF Spec

-----------------------------------------------------------------------------
\* Where each thread can be in its program.

Wr(r, v) == [op |-> "write", reg |-> r, val |-> v]
Up(r, v) == [op |-> "update", reg |-> r, val |-> v]
Op(o) == [op |-> o]
Lk(again) == [op |-> "look", again |-> again]
Tr(n) == [op |-> "try", n |-> n]

\* A recovery, from anywhere in it: in the worker and after the stream's start
\* with attempts, before the start without.
Recovery ==
    {<<>>, <<Op("failed")>>, <<Op("reset"), Op("failed")>>,
     <<Up("pa", 0), Op("reset"), Op("failed")>>}
    \cup {<<Tr(n)>> : n \in 1..Retries}
    \cup {<<Up("pa", 1), Tr(n)>> : n \in 1..Retries}
    \cup {<<Op("reset"), Up("pa", 1), Tr(n)>> : n \in 1..Retries}
    \cup {<<Up("pa", 0), Op("reset"), Up("pa", 1), Tr(n)>> : n \in 1..Retries}
Clearing == {<<>>, <<Op("reset")>>, <<Up("pa", 0), Op("reset")>>}

StartOps == {Wr("pa", 1), Up("pa", 1)}
StopOps == {Wr("pa", 0), Up("pa", 0)}

\* The stream, waiting for the lock or holding it.
MuteWaits == {<<Op("lock"), o, Op("unlock")>> : o \in StopOps}
Mutes == {<<o, Op("unlock")>> : o \in StopOps}
UnmuteWaits == {<<Op("lock"), Lk(FALSE), o, Lk(TRUE), Op("unlock")>> : o \in StartOps}
\* Unmuting: the first look, the recovery and start, the second look, the recovery.
UnmuteLooks == {<<Lk(FALSE), o, Lk(TRUE), Op("unlock")>> : o \in StartOps}
Cleared(o) == {r \o <<o, Lk(TRUE), Op("unlock")>> : r \in Clearing}
Ends == <<Op("unlock")>>
UnmuteStarts == UNION {Cleared(o) : o \in StartOps}
UnmuteAgain == {<<Lk(TRUE), Op("unlock")>>}
UnmuteRecovers == {r \o Ends : r \in Recovery}
Unmutes == UnmuteLooks \cup UnmuteStarts \cup UnmuteAgain \cup UnmuteRecovers
Powers == <<Op("power"), Op("arm")>>
Unpowers == <<Op("unpower"), Op("cancel")>>

\* The worker and the reader, the same.
WorkerEnd == <<Op("unlock"), Op("put"), Op("rearm")>>
WorkerGets ==
    <<Op("get"), Op("lockIfOn"), Lk(TRUE), Op("unlock"), Op("put"), Op("rearm")>>
WorkerWaits == <<Op("lockIfOn"), Lk(TRUE), Op("unlock"), Op("put"), Op("rearm")>>
WorkerLooks == <<Lk(TRUE), Op("unlock"), Op("put"), Op("rearm")>>
WorkerHolds == {WorkerLooks} \cup {r \o WorkerEnd : r \in Recovery}
WorkerLeaves == {<<Op("put"), Op("rearm")>>, <<Op("rearm")>>}

ReaderGets == <<Op("get"), Up("byp", 1), Up("byp", 0), Op("put"), Op("unlock")>>
Bypasses == <<Up("byp", 1), Up("byp", 0), Op("put"), Op("unlock")>>
Restores == <<Up("byp", 0), Op("put"), Op("unlock")>>
ReaderPuts == <<Op("put"), Op("unlock")>>
ReaderHolds == {ReaderGets, Bypasses, Restores, ReaderPuts, Ends}
ReaderWaits ==
    <<Op("lockIfOff"), Op("get"), Up("byp", 1), Up("byp", 0), Op("put"), Op("unlock")>>

BusJobs ==
    {<<>>, <<Op("strap")>>,
     <<Wr("conf", "cold"), Wr("gain", 0), Wr("wo", 1), Op("inited")>>,
     <<Wr("gain", 0), Wr("wo", 1), Op("inited")>>,
     <<Wr("conf", "generic"), Wr("wo", 1), Op("inited")>>,
     <<Wr("wo", 1), Op("inited")>>, <<Op("inited")>>}

StreamHolds == Mutes \cup Unmutes

\* A thread is where its program, and the stream's phase, allow it to be; the
\* worker has a program while its work is running.
StreamPlaced ==
    /\ phase \in {"closed", "open", "prepared", "running", "stopped"}
    /\ phase = "closed" => job["stream"] \in {<<>>, Unpowers, <<Op("cancel")>>}
    /\ phase = "open" => job["stream"] \in {<<>>, <<Op("get")>>}
    /\ phase = "prepared" => job["stream"] \in {<<>>, Powers, <<Op("arm")>>}
    /\ phase = "running" => job["stream"] \in {<<>>} \cup UnmuteWaits \cup Unmutes
    /\ phase = "stopped" => job["stream"] \in {<<>>, Ends} \cup MuteWaits \cup Mutes
WorkerPlaced ==
    /\ job["worker"] \in {<<>>, WorkerGets, WorkerWaits} \cup WorkerHolds \cup WorkerLeaves
    /\ work = "running" <=> job["worker"] # <<>>
Placed ==
    /\ DOMAIN job = Threads
    /\ StreamPlaced /\ WorkerPlaced
    /\ job["reader"] \in {<<>>, ReaderWaits} \cup ReaderHolds
    /\ job["bus"] \in BusJobs

\* The lock's owner is between its lock and its unlock, and nobody else is.
Locked ==
    /\ lock \in {"none", "stream", "worker", "reader"}
    /\ lock = "stream" <=> job["stream"] \in StreamHolds
    /\ lock = "worker" <=> job["worker"] \in WorkerHolds
    /\ lock = "reader" <=> job["reader"] \in ReaderHolds
    /\ paOn <=> \/ phase \in {"prepared", "running", "stopped"} /\ job["stream"] # Powers
                \/ job["stream"] = Unpowers
    /\ lock = "reader" /\ job["reader"] # Ends => ~paOn

Recovering ==
    /\ job["worker"] # <<>>
    /\ Head(job["worker"]).op \in {"update", "reset", "try", "failed"}
Muting == job["stream"] \in MuteWaits \cup Mutes

\* Out of a running stream and with no error since it stopped, the PA is off
\* once the stream is through with muting it, and nobody is about to recover
\* it; the measuring circuit is bypassed by the reader in the middle of it.
Quiet ==
    /\ phase # "running" /\ ~hot => ~err /\ (Muting \/ (cache.pa = 0 /\ ~Recovering))
    /\ cache.byp = 1 => job["reader"] = Restores

-----------------------------------------------------------------------------
\* The programs, written out.

LEMMA Join11 ==
  ASSUME NEW a, NEW b
  PROVE  <<a>> \o <<b>> = <<a, b>>
  <1> DEFINE S == {a, b}
             l == <<a>>
             r == <<b>>
             t == <<a, b>>
  <1>1. /\ l \in Seq(S) /\ Len(l) = 1 /\ l[1] = a
        /\ r \in Seq(S) /\ Len(r) = 1 /\ r[1] = b
        /\ t \in Seq(S) /\ Len(t) = 2 /\ t[1] = a /\ t[2] = b
    OBVIOUS
  <1> HIDE DEF S, l, r, t
  <1>2. /\ l \o r \in Seq(S) /\ Len(l \o r) = Len(l) + Len(r)
        /\ \A i \in 1..Len(l) + Len(r) :
              (l \o r)[i] = IF i <= Len(l) THEN l[i] ELSE r[i - Len(l)]
    BY <1>1, ConcatProperties, Zenon
  <1>3. Len(l \o r) = 2 /\ \A i \in 1..2 : (l \o r)[i] = t[i]
    BY <1>1, <1>2
  <1>4. l \o r = t
    BY <1>1, <1>2, <1>3, SeqEqual
  <1> QED BY <1>4 DEF l, r, t

LEMMA Join21 ==
  ASSUME NEW a, NEW b, NEW c
  PROVE  <<a, b>> \o <<c>> = <<a, b, c>>
  <1> DEFINE S == {a, b, c}
             l == <<a, b>>
             r == <<c>>
             t == <<a, b, c>>
  <1>1. /\ l \in Seq(S) /\ Len(l) = 2 /\ l[1] = a /\ l[2] = b
        /\ r \in Seq(S) /\ Len(r) = 1 /\ r[1] = c
        /\ t \in Seq(S) /\ Len(t) = 3 /\ t[1] = a /\ t[2] = b /\ t[3] = c
    OBVIOUS
  <1> HIDE DEF S, l, r, t
  <1>2. /\ l \o r \in Seq(S) /\ Len(l \o r) = Len(l) + Len(r)
        /\ \A i \in 1..Len(l) + Len(r) :
              (l \o r)[i] = IF i <= Len(l) THEN l[i] ELSE r[i - Len(l)]
    BY <1>1, ConcatProperties, Zenon
  <1>3. Len(l \o r) = 3 /\ \A i \in 1..3 : (l \o r)[i] = t[i]
    BY <1>1, <1>2
  <1>4. l \o r = t
    BY <1>1, <1>2, <1>3, SeqEqual
  <1> QED BY <1>4 DEF l, r, t

LEMMA Join31 ==
  ASSUME NEW a, NEW b, NEW c, NEW d
  PROVE  <<a, b, c>> \o <<d>> = <<a, b, c, d>>
  <1> DEFINE S == {a, b, c, d}
             l == <<a, b, c>>
             r == <<d>>
             t == <<a, b, c, d>>
  <1>1. /\ l \in Seq(S) /\ Len(l) = 3 /\ l[1] = a /\ l[2] = b /\ l[3] = c
        /\ r \in Seq(S) /\ Len(r) = 1 /\ r[1] = d
        /\ t \in Seq(S) /\ Len(t) = 4 /\ t[1] = a /\ t[2] = b /\ t[3] = c /\ t[4] = d
    OBVIOUS
  <1> HIDE DEF S, l, r, t
  <1>2. /\ l \o r \in Seq(S) /\ Len(l \o r) = Len(l) + Len(r)
        /\ \A i \in 1..Len(l) + Len(r) :
              (l \o r)[i] = IF i <= Len(l) THEN l[i] ELSE r[i - Len(l)]
    BY <1>1, ConcatProperties, Zenon
  <1>3. Len(l \o r) = 4 /\ \A i \in 1..4 : (l \o r)[i] = t[i]
    BY <1>1, <1>2
  <1>4. l \o r = t
    BY <1>1, <1>2, <1>3, SeqEqual
  <1> QED BY <1>4 DEF l, r, t

LEMMA Join41 ==
  ASSUME NEW a, NEW b, NEW c, NEW d, NEW e
  PROVE  <<a, b, c, d>> \o <<e>> = <<a, b, c, d, e>>
  <1> DEFINE S == {a, b, c, d, e}
             l == <<a, b, c, d>>
             r == <<e>>
             t == <<a, b, c, d, e>>
  <1>1. /\ l \in Seq(S) /\ Len(l) = 4 /\ l[1] = a /\ l[2] = b /\ l[3] = c /\ l[4] = d
        /\ r \in Seq(S) /\ Len(r) = 1 /\ r[1] = e
        /\ t \in Seq(S) /\ Len(t) = 5 /\ t[1] = a /\ t[2] = b /\ t[3] = c /\ t[4] = d /\ t[5] = e
    OBVIOUS
  <1> HIDE DEF S, l, r, t
  <1>2. /\ l \o r \in Seq(S) /\ Len(l \o r) = Len(l) + Len(r)
        /\ \A i \in 1..Len(l) + Len(r) :
              (l \o r)[i] = IF i <= Len(l) THEN l[i] ELSE r[i - Len(l)]
    BY <1>1, ConcatProperties, Zenon
  <1>3. Len(l \o r) = 5 /\ \A i \in 1..5 : (l \o r)[i] = t[i]
    BY <1>1, <1>2
  <1>4. l \o r = t
    BY <1>1, <1>2, <1>3, SeqEqual
  <1> QED BY <1>4 DEF l, r, t

LEMMA Join51 ==
  ASSUME NEW a, NEW b, NEW c, NEW d, NEW e, NEW f
  PROVE  <<a, b, c, d, e>> \o <<f>> = <<a, b, c, d, e, f>>
  <1> DEFINE S == {a, b, c, d, e, f}
             l == <<a, b, c, d, e>>
             r == <<f>>
             t == <<a, b, c, d, e, f>>
  <1>1. /\ l \in Seq(S) /\ Len(l) = 5 /\ l[1] = a /\ l[2] = b /\ l[3] = c /\ l[4] = d /\ l[5] = e
        /\ r \in Seq(S) /\ Len(r) = 1 /\ r[1] = f
        /\ t \in Seq(S) /\ Len(t) = 6 /\ t[1] = a /\ t[2] = b /\ t[3] = c /\ t[4] = d /\ t[5] = e /\ t[6] = f
    OBVIOUS
  <1> HIDE DEF S, l, r, t
  <1>2. /\ l \o r \in Seq(S) /\ Len(l \o r) = Len(l) + Len(r)
        /\ \A i \in 1..Len(l) + Len(r) :
              (l \o r)[i] = IF i <= Len(l) THEN l[i] ELSE r[i - Len(l)]
    BY <1>1, ConcatProperties, Zenon
  <1>3. Len(l \o r) = 6 /\ \A i \in 1..6 : (l \o r)[i] = t[i]
    BY <1>1, <1>2
  <1>4. l \o r = t
    BY <1>1, <1>2, <1>3, SeqEqual
  <1> QED BY <1>4 DEF l, r, t

LEMMA Join22 ==
  ASSUME NEW a, NEW b, NEW c, NEW d
  PROVE  <<a, b>> \o <<c, d>> = <<a, b, c, d>>
  <1> DEFINE S == {a, b, c, d}
             l == <<a, b>>
             r == <<c, d>>
             t == <<a, b, c, d>>
  <1>1. /\ l \in Seq(S) /\ Len(l) = 2 /\ l[1] = a /\ l[2] = b
        /\ r \in Seq(S) /\ Len(r) = 2 /\ r[1] = c /\ r[2] = d
        /\ t \in Seq(S) /\ Len(t) = 4 /\ t[1] = a /\ t[2] = b /\ t[3] = c /\ t[4] = d
    OBVIOUS
  <1> HIDE DEF S, l, r, t
  <1>2. /\ l \o r \in Seq(S) /\ Len(l \o r) = Len(l) + Len(r)
        /\ \A i \in 1..Len(l) + Len(r) :
              (l \o r)[i] = IF i <= Len(l) THEN l[i] ELSE r[i - Len(l)]
    BY <1>1, ConcatProperties, Zenon
  <1>3. Len(l \o r) = 4 /\ \A i \in 1..4 : (l \o r)[i] = t[i]
    BY <1>1, <1>2
  <1>4. l \o r = t
    BY <1>1, <1>2, <1>3, SeqEqual
  <1> QED BY <1>4 DEF l, r, t

\* Single operations, one after the other.
LEMMA Chain3 ==
  ASSUME NEW a, NEW b, NEW c
  PROVE  <<a>> \o <<b>> \o <<c>> = <<a, b, c>>
  <1>1. <<a>> \o <<b>> = <<a, b>>
    BY Join11
  <1>2. <<a, b>> \o <<c>> = <<a, b, c>>
    BY Join21
  <1> QED BY <1>1, <1>2, Zenon

LEMMA Chain4 ==
  ASSUME NEW a, NEW b, NEW c, NEW d
  PROVE  <<a>> \o <<b>> \o <<c>> \o <<d>> = <<a, b, c, d>>
  <1>1. <<a>> \o <<b>> \o <<c>> = <<a, b, c>>
    BY Chain3
  <1>2. <<a, b, c>> \o <<d>> = <<a, b, c, d>>
    BY Join31
  <1> QED BY <1>1, <1>2, Zenon

LEMMA Chain5 ==
  ASSUME NEW a, NEW b, NEW c, NEW d, NEW e
  PROVE  <<a>> \o <<b>> \o <<c>> \o <<d>> \o <<e>> = <<a, b, c, d, e>>
  <1>1. <<a>> \o <<b>> \o <<c>> \o <<d>> = <<a, b, c, d>>
    BY Chain4
  <1>2. <<a, b, c, d>> \o <<e>> = <<a, b, c, d, e>>
    BY Join41
  <1> QED BY <1>1, <1>2, Zenon

\* The first operation of a program, and the rest, with something after it.
LEMMA HeadTailFirst ==
  ASSUME NEW S, NEW q \in Seq(S), q # <<>>, NEW s \in Seq(S)
  PROVE  Head(q \o s) = Head(q) /\ Tail(q \o s) = Tail(q) \o s /\ q \o s # <<>>
  <1> DEFINE c == q \o s
             d == Tail(q) \o s
  <1>1. /\ c \in Seq(S) /\ Len(c) = Len(q) + Len(s)
        /\ \A i \in 1..Len(q) + Len(s) : c[i] = IF i <= Len(q) THEN q[i] ELSE s[i - Len(q)]
    BY ConcatProperties, Zenon
  <1>2. /\ Tail(q) \in Seq(S) /\ Len(q) \in Nat \ {0} /\ Len(s) \in Nat /\ Len(Tail(q)) = Len(q) - 1
        /\ Head(q) = q[1] /\ \A i \in 1..Len(q) - 1 : Tail(q)[i] = q[i + 1]
    BY HeadTailProperties
  <1>3. /\ d \in Seq(S) /\ Len(d) = Len(Tail(q)) + Len(s)
        /\ \A i \in 1..Len(Tail(q)) + Len(s) :
              d[i] = IF i <= Len(Tail(q)) THEN Tail(q)[i] ELSE s[i - Len(Tail(q))]
    BY <1>2, ConcatProperties, Zenon
  <1> HIDE DEF c, d
  <1>4. c # <<>> /\ Head(c) = c[1] /\ c[1] = q[1]
    BY <1>1, <1>2
  <1>5. /\ Tail(c) \in Seq(S) /\ Len(Tail(c)) = Len(q) + Len(s) - 1
        /\ \A i \in 1..Len(q) + Len(s) - 1 : Tail(c)[i] = c[i + 1]
    BY <1>1, <1>2, <1>4, HeadTailProperties
  <1>6. \A i \in 1..Len(d) : Tail(c)[i] = d[i]
    <2> TAKE i \in 1..Len(d)
    <2>1. i \in 1..Len(q) + Len(s) - 1 /\ i + 1 \in 1..Len(q) + Len(s) /\ Len(d) = Len(q) + Len(s) - 1
      BY <1>2, <1>3
    <2>2. Tail(c)[i] = c[i + 1]
      BY <1>5, <2>1
    <2>3. CASE i <= Len(q) - 1
      BY <1>1, <1>2, <1>3, <2>1, <2>2, <2>3
    <2>4. CASE i > Len(q) - 1
      <3>1. c[i + 1] = s[i + 1 - Len(q)] /\ d[i] = s[i - (Len(q) - 1)] /\ i + 1 - Len(q) = i - (Len(q) - 1)
        BY <1>1, <1>2, <1>3, <2>1, <2>4
      <3> QED BY <2>2, <3>1
    <2>5. i <= Len(q) - 1 \/ i > Len(q) - 1
      BY <1>2, <2>1
    <2> QED BY <2>3, <2>4, <2>5, Zenon
  <1>7. Tail(c) = d
    BY <1>2, <1>3, <1>5, <1>6, SeqEqual
  <1> QED BY <1>2, <1>4, <1>7 DEF c, d

LEMMA Programs ==
  /\ \A n \in 1..Retries : Attempt(n) = <<Up("pa", 1), Tr(n)>>
  /\ \A n \in 1..Retries : Retry(n) \in Recovery
  /\ wsa884x_recover_pa(TRUE) \in Recovery /\ wsa884x_recover_pa(FALSE) \in Clearing
  /\ wsa884x_mute_stream \in MuteWaits /\ wsa884x_unmute_stream \in UnmuteWaits
  /\ PostPmu = Powers /\ PrePmd = Unpowers
  /\ wsa884x_pa_health_work = WorkerGets /\ wsa884x_get_temp = ReaderWaits
  /\ sp11_windows_cold_init \o Do("inited") \in BusJobs
  /\ wsa884x_generic_init \o Do("inited") \in BusJobs
  <1>0. /\ \A r, v : W(r, v) = <<Wr(r, v)>> /\ U(r, v) = <<Up(r, v)>>
        /\ \A o : Do(o) = <<Op(o)>>
        /\ \A again : Look(again) = <<Lk(again)>>
        /\ 1 \in 1..Retries /\ Retries \in Nat
    BY ConstantsAssumption DEF W, U, Do, Look, Wr, Up, Op, Lk
  <1>1. \A n \in 1..Retries : Attempt(n) = <<Up("pa", 1), Tr(n)>>
    BY <1>0, Join11 DEF Attempt, Tr
  <1>2. U("pa", 0) \o wsa884x_reset_pa_fsm = <<Up("pa", 0), Op("reset")>>
    BY <1>0, Join11 DEF wsa884x_reset_pa_fsm
  <1>3. \A n \in 1..Retries :
          <<Up("pa", 0), Op("reset")>> \o Attempt(n) = <<Up("pa", 0), Op("reset"), Up("pa", 1), Tr(n)>>
    BY <1>1, Join22
  <1>4. ASSUME NEW n \in 1..Retries
        PROVE  Retry(n) \in Recovery
    <2>1. CASE n < Retries
      <3>1. n + 1 \in 1..Retries
        BY <1>0, <2>1
      <3> QED BY <1>2, <1>3, <2>1, <3>1 DEF Retry, Recovery
    <2>2. CASE ~(n < Retries)
      <3>1. Retry(n) = <<Up("pa", 0), Op("reset"), Op("failed")>>
        BY <1>0, <1>2, <2>2, Join21 DEF Retry
      <3> QED BY <3>1 DEF Recovery
    <2> QED BY <2>1, <2>2
  <1>5. wsa884x_recover_pa(TRUE) \in Recovery
    BY <1>0, <1>2, <1>3 DEF wsa884x_recover_pa, Recovery
  <1>6. wsa884x_recover_pa(FALSE) \in Clearing
    <2>1. <<Up("pa", 0), Op("reset")>> \o <<>> = <<Up("pa", 0), Op("reset")>>
      <3>1. <<Up("pa", 0), Op("reset")>> \in Seq({Up("pa", 0), Op("reset")})
        OBVIOUS
      <3> QED BY <3>1, ConcatEmptySeq
    <2> QED BY <1>2, <2>1 DEF wsa884x_recover_pa, Clearing
  <1>7. wsa884x_mute_stream \in MuteWaits
    <2>1. PICK o \in StopOps : wsa884x_mute_stream = <<Op("lock")>> \o <<o>> \o <<Op("unlock")>>
      BY <1>0 DEF wsa884x_mute_stream, sp11_windows_stop, StopOps
    <2>2. wsa884x_mute_stream = <<Op("lock"), o, Op("unlock")>>
      BY <2>1, Chain3
    <2> QED BY <2>2 DEF MuteWaits
  <1>8. wsa884x_unmute_stream \in UnmuteWaits
    <2>1. PICK o \in StartOps : wsa884x_unmute_stream =
            <<Op("lock")>> \o <<Lk(FALSE)>> \o <<o>> \o <<Lk(TRUE)>> \o <<Op("unlock")>>
      BY <1>0 DEF wsa884x_unmute_stream, sp11_windows_start, StartOps
    <2>2. wsa884x_unmute_stream = <<Op("lock"), Lk(FALSE), o, Lk(TRUE), Op("unlock")>>
      BY ZenonT(60), <2>1, Chain5
    <2> QED BY <2>2 DEF UnmuteWaits
  <1>9. PostPmu = Powers /\ PrePmd = Unpowers
    BY <1>0, Join11 DEF PostPmu, PrePmd, Powers, Unpowers
  <1>10. wsa884x_pa_health_work = WorkerGets
    <2>1. wsa884x_pa_health_work =
            <<Op("get")>> \o <<Op("lockIfOn")>> \o <<Lk(TRUE)>> \o <<Op("unlock")>>
            \o <<Op("put")>> \o <<Op("rearm")>>
      BY DEF wsa884x_pa_health_work, Do, Look, Op, Lk
    <2>2. <<Op("get")>> \o <<Op("lockIfOn")>> \o <<Lk(TRUE)>> \o <<Op("unlock")>> \o <<Op("put")>>
          = <<Op("get"), Op("lockIfOn"), Lk(TRUE), Op("unlock"), Op("put")>>
      BY ZenonT(60), Chain5, Zenon
    <2>3. <<Op("get"), Op("lockIfOn"), Lk(TRUE), Op("unlock"), Op("put")>> \o <<Op("rearm")>>
          = <<Op("get"), Op("lockIfOn"), Lk(TRUE), Op("unlock"), Op("put"), Op("rearm")>>
      BY Join51, Zenon
    <2> QED BY <2>1, <2>2, <2>3, Zenon DEF WorkerGets
  <1>11. wsa884x_get_temp = ReaderWaits
    <2>1. wsa884x_get_temp =
            <<Op("lockIfOff")>> \o <<Op("get")>> \o <<Up("byp", 1)>> \o <<Up("byp", 0)>>
            \o <<Op("put")>> \o <<Op("unlock")>>
      BY DEF wsa884x_get_temp, Do, U, Op, Up
    <2>2. <<Op("lockIfOff")>> \o <<Op("get")>> \o <<Up("byp", 1)>> \o <<Up("byp", 0)>> \o <<Op("put")>>
          = <<Op("lockIfOff"), Op("get"), Up("byp", 1), Up("byp", 0), Op("put")>>
      BY ZenonT(60), Chain5, Zenon
    <2>3. <<Op("lockIfOff"), Op("get"), Up("byp", 1), Up("byp", 0), Op("put")>> \o <<Op("unlock")>>
          = <<Op("lockIfOff"), Op("get"), Up("byp", 1), Up("byp", 0), Op("put"), Op("unlock")>>
      BY Join51, Zenon
    <2> QED BY <2>1, <2>2, <2>3, Zenon DEF ReaderWaits
  <1>12. sp11_windows_cold_init \o Do("inited") \in BusJobs
    <2>1. sp11_windows_cold_init \o Do("inited") =
            <<Wr("conf", "cold")>> \o <<Wr("gain", 0)>> \o <<Wr("wo", 1)>> \o <<Op("inited")>>
      BY DEF sp11_windows_cold_init, Do, W, Op, Wr
    <2>2. sp11_windows_cold_init \o Do("inited") =
            <<Wr("conf", "cold"), Wr("gain", 0), Wr("wo", 1), Op("inited")>>
      BY <2>1, Chain4
    <2> QED BY <2>2 DEF BusJobs
  <1>13. wsa884x_generic_init \o Do("inited") \in BusJobs
    <2>1. wsa884x_generic_init \o Do("inited") =
            <<Wr("conf", "generic")>> \o <<Wr("wo", 1)>> \o <<Op("inited")>>
      BY DEF wsa884x_generic_init, Do, W, Op, Wr
    <2>2. wsa884x_generic_init \o Do("inited") =
            <<Wr("conf", "generic"), Wr("wo", 1), Op("inited")>>
      BY <2>1, Chain3
    <2> QED BY <2>2 DEF BusJobs
  <1> QED
    BY <1>1, <1>4, <1>5, <1>6, <1>7, <1>8, <1>9, <1>10, <1>11, <1>12, <1>13

\* A program after its first operation, and programs written out.
LEMMA RestOf ==
  ASSUME NEW S, NEW t \in Seq(S), NEW r \in Seq(S), t # <<>>, Len(t) = Len(r) + 1,
         \A i \in 1..Len(r) : r[i] = t[i + 1]
  PROVE  Head(t) = t[1] /\ Tail(t) = r
  <1>1. /\ Tail(t) \in Seq(S) /\ Len(Tail(t)) = Len(t) - 1
        /\ \A i \in 1..Len(Tail(t)) : Tail(t)[i] = t[i + 1]
    BY HeadTailProperties, Zenon
  <1>2. Len(Tail(t)) = Len(r) /\ Head(t) = t[1]
    BY <1>1
  <1>3. \A i \in 1..Len(r) : Tail(t)[i] = r[i]
    BY <1>1, <1>2
  <1> QED BY <1>1, <1>2, <1>3, SeqEqual

LEMMA TuplesAreSeqs ==
  ASSUME NEW S, NEW a \in S, NEW b \in S, NEW c \in S, NEW d \in S
  PROVE  /\ <<>> \in Seq(S) /\ <<a>> \in Seq(S) /\ <<a, b>> \in Seq(S)
         /\ <<a, b, c>> \in Seq(S) /\ <<a, b, c, d>> \in Seq(S)
  OBVIOUS

LEMMA Rest1 ==
  ASSUME NEW a
  PROVE  <<a>> # <<>> /\ Head(<<a>>) = a /\ Tail(<<a>>) = <<>>
  OBVIOUS

LEMMA Rest2 ==
  ASSUME NEW a, NEW b
  PROVE  <<a, b>> # <<>> /\ Head(<<a, b>>) = a /\ Tail(<<a, b>>) = <<b>>
  <1> DEFINE S == {a, b}
             t == <<a, b>>
             r == <<b>>
  <1>1. /\ t \in Seq(S) /\ Len(t) = 2 /\ t # <<>>
        /\ t[1] = a /\ t[2] = b
    OBVIOUS
  <1>2. /\ r \in Seq(S) /\ Len(r) = 1
        /\ r[1] = b
    OBVIOUS
  <1> HIDE DEF S, t, r
  <1>3. Len(t) = Len(r) + 1 /\ \A i \in 1..Len(r) : r[i] = t[i + 1]
    BY <1>1, <1>2
  <1>4. Head(t) = t[1] /\ Tail(t) = r
    BY <1>1, <1>2, <1>3, RestOf, Zenon
  <1> QED BY <1>1, <1>4 DEF t, r

LEMMA Rest3 ==
  ASSUME NEW a, NEW b, NEW c
  PROVE  <<a, b, c>> # <<>> /\ Head(<<a, b, c>>) = a /\ Tail(<<a, b, c>>) = <<b, c>>
  <1> DEFINE S == {a, b, c}
             t == <<a, b, c>>
             r == <<b, c>>
  <1>1. /\ t \in Seq(S) /\ Len(t) = 3 /\ t # <<>>
        /\ t[1] = a /\ t[2] = b /\ t[3] = c
    OBVIOUS
  <1>2. /\ r \in Seq(S) /\ Len(r) = 2
        /\ r[1] = b /\ r[2] = c
    OBVIOUS
  <1> HIDE DEF S, t, r
  <1>3. Len(t) = Len(r) + 1 /\ \A i \in 1..Len(r) : r[i] = t[i + 1]
    BY <1>1, <1>2
  <1>4. Head(t) = t[1] /\ Tail(t) = r
    BY <1>1, <1>2, <1>3, RestOf, Zenon
  <1> QED BY <1>1, <1>4 DEF t, r

LEMMA Rest4 ==
  ASSUME NEW a, NEW b, NEW c, NEW d
  PROVE  <<a, b, c, d>> # <<>> /\ Head(<<a, b, c, d>>) = a /\ Tail(<<a, b, c, d>>) = <<b, c, d>>
  <1> DEFINE S == {a, b, c, d}
             t == <<a, b, c, d>>
             r == <<b, c, d>>
  <1>1. /\ t \in Seq(S) /\ Len(t) = 4 /\ t # <<>>
        /\ t[1] = a /\ t[2] = b /\ t[3] = c /\ t[4] = d
    OBVIOUS
  <1>2. /\ r \in Seq(S) /\ Len(r) = 3
        /\ r[1] = b /\ r[2] = c /\ r[3] = d
    OBVIOUS
  <1> HIDE DEF S, t, r
  <1>3. Len(t) = Len(r) + 1 /\ \A i \in 1..Len(r) : r[i] = t[i + 1]
    BY <1>1, <1>2
  <1>4. Head(t) = t[1] /\ Tail(t) = r
    BY <1>1, <1>2, <1>3, RestOf, Zenon
  <1> QED BY <1>1, <1>4 DEF t, r

LEMMA Rest5 ==
  ASSUME NEW a, NEW b, NEW c, NEW d, NEW e
  PROVE  <<a, b, c, d, e>> # <<>> /\ Head(<<a, b, c, d, e>>) = a /\ Tail(<<a, b, c, d, e>>) = <<b, c, d, e>>
  <1> DEFINE S == {a, b, c, d, e}
             t == <<a, b, c, d, e>>
             r == <<b, c, d, e>>
  <1>1. /\ t \in Seq(S) /\ Len(t) = 5 /\ t # <<>>
        /\ t[1] = a /\ t[2] = b /\ t[3] = c /\ t[4] = d /\ t[5] = e
    OBVIOUS
  <1>2. /\ r \in Seq(S) /\ Len(r) = 4
        /\ r[1] = b /\ r[2] = c /\ r[3] = d /\ r[4] = e
    OBVIOUS
  <1> HIDE DEF S, t, r
  <1>3. Len(t) = Len(r) + 1 /\ \A i \in 1..Len(r) : r[i] = t[i + 1]
    BY <1>1, <1>2
  <1>4. Head(t) = t[1] /\ Tail(t) = r
    BY <1>1, <1>2, <1>3, RestOf, Zenon
  <1> QED BY <1>1, <1>4 DEF t, r

LEMMA Rest6 ==
  ASSUME NEW a, NEW b, NEW c, NEW d, NEW e, NEW f
  PROVE  <<a, b, c, d, e, f>> # <<>> /\ Head(<<a, b, c, d, e, f>>) = a /\ Tail(<<a, b, c, d, e, f>>) = <<b, c, d, e, f>>
  <1> DEFINE S == {a, b, c, d, e, f}
             t == <<a, b, c, d, e, f>>
             r == <<b, c, d, e, f>>
  <1>1. /\ t \in Seq(S) /\ Len(t) = 6 /\ t # <<>>
        /\ t[1] = a /\ t[2] = b /\ t[3] = c /\ t[4] = d /\ t[5] = e /\ t[6] = f
    OBVIOUS
  <1>2. /\ r \in Seq(S) /\ Len(r) = 5
        /\ r[1] = b /\ r[2] = c /\ r[3] = d /\ r[4] = e /\ r[5] = f
    OBVIOUS
  <1> HIDE DEF S, t, r
  <1>3. Len(t) = Len(r) + 1 /\ \A i \in 1..Len(r) : r[i] = t[i + 1]
    BY <1>1, <1>2
  <1>4. Head(t) = t[1] /\ Tail(t) = r
    BY <1>1, <1>2, <1>3, RestOf, Zenon
  <1> QED BY <1>1, <1>4 DEF t, r

\* A recovery is some operations on the PA; what follows each is a recovery.
LEMMA RecoveryHeads ==
  ASSUME NEW r \in Recovery, r # <<>>
  PROVE  /\ Tail(r) \in Recovery
         /\ \/ Head(r).op \in {"failed", "reset"}
            \/ Head(r).op = "update" /\ Head(r).reg = "pa"
            \/ \E n \in 1..Retries : Head(r) = Tr(n) /\ Tail(r) = <<>>
  <1>1. CASE r = <<Op("failed")>>
    BY <1>1, Rest1 DEF Recovery, Op
  <1>2. CASE r = <<Op("reset"), Op("failed")>>
    <2>1. Head(r) = Op("reset") /\ Tail(r) = <<Op("failed")>>
      BY <1>2, Rest2
    <2> QED BY <2>1 DEF Recovery, Op
  <1>3. CASE r = <<Up("pa", 0), Op("reset"), Op("failed")>>
    <2>1. Head(r) = Up("pa", 0) /\ Tail(r) = <<Op("reset"), Op("failed")>>
      BY <1>3, Rest3
    <2> QED BY <2>1 DEF Recovery, Up
  <1>4. ASSUME NEW n \in 1..Retries, r = <<Tr(n)>>
        PROVE  /\ Tail(r) \in Recovery
               /\ \E m \in 1..Retries : Head(r) = Tr(m) /\ Tail(r) = <<>>
    BY <1>4, Rest1 DEF Recovery
  <1>5. ASSUME NEW n \in 1..Retries, r = <<Up("pa", 1), Tr(n)>>
        PROVE  Tail(r) \in Recovery /\ Head(r).op = "update" /\ Head(r).reg = "pa"
    <2>1. Head(r) = Up("pa", 1) /\ Tail(r) = <<Tr(n)>>
      BY <1>5, Rest2
    <2> QED BY <2>1 DEF Recovery, Up
  <1>6. ASSUME NEW n \in 1..Retries, r = <<Op("reset"), Up("pa", 1), Tr(n)>>
        PROVE  Tail(r) \in Recovery /\ Head(r).op = "reset"
    <2>1. Head(r) = Op("reset") /\ Tail(r) = <<Up("pa", 1), Tr(n)>>
      BY <1>6, Rest3
    <2> QED BY <2>1 DEF Recovery, Op
  <1>7. ASSUME NEW n \in 1..Retries, r = <<Up("pa", 0), Op("reset"), Up("pa", 1), Tr(n)>>
        PROVE  Tail(r) \in Recovery /\ Head(r).op = "update" /\ Head(r).reg = "pa"
    <2>1. Head(r) = Up("pa", 0) /\ Tail(r) = <<Op("reset"), Up("pa", 1), Tr(n)>>
      BY <1>7, Rest4
    <2> QED BY <2>1 DEF Recovery, Up
  <1> QED BY <1>1, <1>2, <1>3, <1>4, <1>5, <1>6, <1>7 DEF Recovery

LEMMA ClearingHeads ==
  ASSUME NEW r \in Clearing, r # <<>>
  PROVE  /\ Tail(r) \in Clearing
         /\ \/ Head(r).op = "reset"
            \/ Head(r).op = "update" /\ Head(r).reg = "pa"
  <1>1. CASE r = <<Op("reset")>>
    BY <1>1, Rest1 DEF Clearing, Op
  <1>2. CASE r = <<Up("pa", 0), Op("reset")>>
    <2>1. Head(r) = Up("pa", 0) /\ Tail(r) = <<Op("reset")>>
      BY <1>2, Rest2
    <2> QED BY <2>1 DEF Clearing, Up
  <1> QED BY <1>1, <1>2 DEF Clearing

\* Programs are sequences of operations.
LEMMA Sequences ==
  ASSUME NEW o \in StartOps
  PROVE  \E S :
           /\ \A r \in Recovery \cup Clearing : r \in Seq(S)
           /\ WorkerEnd \in Seq(S) /\ Ends \in Seq(S) /\ <<o, Lk(TRUE), Op("unlock")>> \in Seq(S)
  <1> DEFINE S == {Op("failed"), Op("reset"), Up("pa", 0), Up("pa", 1), Op("unlock"), Op("put"),
                   Op("rearm"), Lk(TRUE), o} \cup {Tr(n) : n \in 1..Retries}
  <1>1. /\ Op("failed") \in S /\ Op("reset") \in S /\ Up("pa", 0) \in S /\ Up("pa", 1) \in S
        /\ Op("unlock") \in S /\ Op("put") \in S /\ Op("rearm") \in S /\ Lk(TRUE) \in S /\ o \in S
        /\ \A n \in 1..Retries : Tr(n) \in S
    OBVIOUS
  <1> HIDE DEF S
  <1>2. \A r \in Recovery : r \in Seq(S)
    <2>1. /\ <<>> \in Seq(S) /\ <<Op("failed")>> \in Seq(S) /\ <<Op("reset"), Op("failed")>> \in Seq(S)
          /\ <<Up("pa", 0), Op("reset"), Op("failed")>> \in Seq(S)
      BY <1>1, TuplesAreSeqs
    <2>2. ASSUME NEW n \in 1..Retries
          PROVE  /\ <<Tr(n)>> \in Seq(S) /\ <<Up("pa", 1), Tr(n)>> \in Seq(S)
                 /\ <<Op("reset"), Up("pa", 1), Tr(n)>> \in Seq(S)
                 /\ <<Up("pa", 0), Op("reset"), Up("pa", 1), Tr(n)>> \in Seq(S)
      BY <1>1, TuplesAreSeqs
    <2> QED BY <2>1, <2>2 DEF Recovery
  <1>3. \A r \in Clearing : r \in Seq(S)
    BY <1>1, TuplesAreSeqs DEF Clearing
  <1>4. WorkerEnd \in Seq(S) /\ Ends \in Seq(S) /\ <<o, Lk(TRUE), Op("unlock")>> \in Seq(S)
    BY <1>1, TuplesAreSeqs DEF WorkerEnd, Ends
  <1> QED BY <1>2, <1>3, <1>4

-----------------------------------------------------------------------------
\* What each thread does next, and where that leaves it.

\* The operations that are done with the lock held, T the places they lead to:
\* at a look and after an attempt a recovery may come first.
Continues(s, T) ==
    /\ s # <<>>
    /\ \/ Head(s).op = "look" /\ wsa884x_recover_pa(Head(s).again) \o Tail(s) \in T
                              /\ <<>> \o Tail(s) \in T
       \/ Head(s).op \in {"write", "update"} /\ Head(s).reg = "pa" /\ Tail(s) \in T
       \/ Head(s).op \in {"reset", "failed"} /\ Tail(s) \in T
       \/ Head(s).op = "try" /\ Retry(Head(s).n) \o Tail(s) \in T /\ <<>> \o Tail(s) \in T

\* A recovery with something after it.
LEMMA RecoveryContinues ==
  ASSUME NEW S, NEW e \in Seq(S), \A q \in Recovery : q \in Seq(S),
         NEW r \in Recovery, r # <<>>
  PROVE  /\ Continues(r \o e, {q \o e : q \in Recovery})
         /\ Head(r \o e).op \in {"update", "reset", "try", "failed"}
  <1>1. r \o e # <<>> /\ Head(r \o e) = Head(r) /\ Tail(r \o e) = Tail(r) \o e
    BY HeadTailFirst
  <1>2. Tail(r) \o e \in {q \o e : q \in Recovery}
    BY RecoveryHeads
  <1>3. CASE Head(r).op \in {"failed", "reset"} \/ (Head(r).op = "update" /\ Head(r).reg = "pa")
    BY <1>1, <1>2, <1>3 DEF Continues
  <1>4. ASSUME NEW n \in 1..Retries, Head(r) = Tr(n), Tail(r) = <<>>
        PROVE  /\ Continues(r \o e, {q \o e : q \in Recovery})
               /\ Head(r \o e).op \in {"update", "reset", "try", "failed"}
    <2>1. <<>> \o e = e
      BY ConcatEmptySeq
    <2>2. <<>> \in Recovery
      BY DEF Recovery
    <2>3. Tail(r \o e) = e
      BY <1>1, <1>4, <2>1
    <2>4. Retry(n) \o e \in {q \o e : q \in Recovery} /\ <<>> \o e \in {q \o e : q \in Recovery}
      BY <2>2, Programs
    <2>5. Head(r \o e).op = "try" /\ Head(r \o e).n = n
      BY <1>1, <1>4 DEF Tr
    <2> QED BY <1>1, <2>3, <2>4, <2>5 DEF Continues
  <1> QED BY <1>3, <1>4, RecoveryHeads

LEMMA WorkerHeads ==
  /\ WorkerGets # <<>> /\ Head(WorkerGets).op = "get" /\ Tail(WorkerGets) = WorkerWaits
  /\ WorkerWaits # <<>> /\ Head(WorkerWaits).op = "lockIfOn" /\ Tail(WorkerWaits) = WorkerLooks
  /\ WorkerEnd # <<>> /\ Head(WorkerEnd).op = "unlock"
  /\ Tail(WorkerEnd) = <<Op("put"), Op("rearm")>>
  /\ WorkerEnd \in WorkerHolds
  /\ <<Op("put"), Op("rearm")>> # <<>> /\ Head(<<Op("put"), Op("rearm")>>).op = "put"
  /\ Tail(<<Op("put"), Op("rearm")>>) = <<Op("rearm")>>
  /\ <<Op("rearm")>> # <<>> /\ Head(<<Op("rearm")>>).op = "rearm" /\ Tail(<<Op("rearm")>>) = <<>>
  /\ WorkerLooks # <<>> /\ Head(WorkerLooks).op = "look" /\ Tail(WorkerLooks) = WorkerEnd
  /\ <<>> \o WorkerEnd = WorkerEnd
  /\ \A s \in WorkerHolds :
       \/ s = WorkerEnd
       \/ Continues(s, WorkerHolds) /\ s = WorkerLooks
       \/ Continues(s, WorkerHolds) /\ Head(s).op \in {"update", "reset", "try", "failed"}
  <1>1. PICK o : o \in StartOps
    BY DEF StartOps
  <1>2. PICK S : /\ \A r \in Recovery \cup Clearing : r \in Seq(S)
                 /\ WorkerEnd \in Seq(S)
    BY <1>1, Sequences
  <1>3. /\ WorkerGets # <<>> /\ Head(WorkerGets) = Op("get") /\ Tail(WorkerGets) = WorkerWaits
    <2> DEFINE a == Op("get")
               b == Op("lockIfOn")
               c == Lk(TRUE)
               d == Op("unlock")
               e == Op("put")
               f == Op("rearm")
    <2>1. WorkerGets = <<a, b, c, d, e, f>> /\ WorkerWaits = <<b, c, d, e, f>> /\ a = Op("get")
      BY DEF WorkerGets, WorkerWaits
    <2> HIDE DEF a, b, c, d, e, f
    <2> QED BY <2>1, Rest6
  <1>4. /\ WorkerWaits # <<>> /\ Head(WorkerWaits) = Op("lockIfOn") /\ Tail(WorkerWaits) = WorkerLooks
    <2> DEFINE a == Op("lockIfOn")
               b == Lk(TRUE)
               c == Op("unlock")
               d == Op("put")
               e == Op("rearm")
    <2>1. WorkerWaits = <<a, b, c, d, e>> /\ WorkerLooks = <<b, c, d, e>> /\ a = Op("lockIfOn")
      BY DEF WorkerWaits, WorkerLooks
    <2> HIDE DEF a, b, c, d, e
    <2> QED BY <2>1, Rest5
  <1>5. /\ WorkerLooks # <<>> /\ Head(WorkerLooks) = Lk(TRUE) /\ Tail(WorkerLooks) = WorkerEnd
    BY Rest4 DEF WorkerLooks, WorkerEnd
  <1>6. /\ WorkerEnd # <<>> /\ Head(WorkerEnd) = Op("unlock")
        /\ Tail(WorkerEnd) = <<Op("put"), Op("rearm")>>
    BY Rest3 DEF WorkerEnd
  <1>7. /\ <<Op("put"), Op("rearm")>> # <<>> /\ Head(<<Op("put"), Op("rearm")>>) = Op("put")
        /\ Tail(<<Op("put"), Op("rearm")>>) = <<Op("rearm")>>
    BY Rest2
  <1>8. /\ <<Op("rearm")>> # <<>> /\ Head(<<Op("rearm")>>) = Op("rearm") /\ Tail(<<Op("rearm")>>) = <<>>
    BY Rest1
  <1>9. <<>> \o WorkerEnd = WorkerEnd /\ <<>> \in Recovery
    BY <1>2, ConcatEmptySeq DEF Recovery
  <1>10. WorkerEnd \in WorkerHolds /\ \A r \in Recovery : r \o WorkerEnd \in WorkerHolds
    BY <1>9 DEF WorkerHolds
  <1>11. Continues(WorkerLooks, WorkerHolds)
    <2>1. wsa884x_recover_pa(TRUE) \o WorkerEnd \in WorkerHolds /\ <<>> \o WorkerEnd \in WorkerHolds
      BY <1>9, <1>10, Programs
    <2>2. Head(WorkerLooks).op = "look" /\ Head(WorkerLooks).again = TRUE
      BY <1>5 DEF Lk
    <2> QED BY <1>5, <2>1, <2>2 DEF Continues
  <1>12. ASSUME NEW r \in Recovery, r # <<>>
         PROVE  /\ Continues(r \o WorkerEnd, WorkerHolds)
                /\ Head(r \o WorkerEnd).op \in {"update", "reset", "try", "failed"}
    <2>1. /\ Continues(r \o WorkerEnd, {q \o WorkerEnd : q \in Recovery})
          /\ Head(r \o WorkerEnd).op \in {"update", "reset", "try", "failed"}
      BY <1>2, <1>12, RecoveryContinues
    <2>2. {q \o WorkerEnd : q \in Recovery} \subseteq WorkerHolds
      BY <1>10
    <2> QED BY <2>1, <2>2 DEF Continues
  <1>13. \A s \in WorkerHolds :
            \/ s = WorkerEnd
            \/ Continues(s, WorkerHolds) /\ s = WorkerLooks
            \/ Continues(s, WorkerHolds) /\ Head(s).op \in {"update", "reset", "try", "failed"}
    <2> SUFFICES ASSUME NEW s \in WorkerHolds
                 PROVE  \/ s = WorkerEnd
                        \/ Continues(s, WorkerHolds) /\ s = WorkerLooks
                        \/ /\ Continues(s, WorkerHolds)
                           /\ Head(s).op \in {"update", "reset", "try", "failed"}
      OBVIOUS
    <2>1. CASE s = WorkerLooks
      BY <1>11, <2>1
    <2>2. ASSUME NEW r \in Recovery, s = r \o WorkerEnd
          PROVE  \/ s = WorkerEnd
                 \/ /\ Continues(s, WorkerHolds)
                    /\ Head(s).op \in {"update", "reset", "try", "failed"}
      BY <1>9, <1>12, <2>2
    <2> QED BY <2>1, <2>2 DEF WorkerHolds
  <1> QED
    BY <1>3, <1>4, <1>5, <1>6, <1>7, <1>8, <1>9, <1>10, <1>13 DEF Op, Lk

LEMMA ReaderHeads ==
  /\ ReaderWaits # <<>> /\ Head(ReaderWaits).op = "lockIfOff" /\ Tail(ReaderWaits) = ReaderGets
  /\ ReaderGets # <<>> /\ Head(ReaderGets).op = "get" /\ Tail(ReaderGets) = Bypasses
  /\ Bypasses # <<>> /\ Head(Bypasses) = Up("byp", 1) /\ Tail(Bypasses) = Restores
  /\ Restores # <<>> /\ Head(Restores) = Up("byp", 0) /\ Tail(Restores) = ReaderPuts
  /\ ReaderPuts # <<>> /\ Head(ReaderPuts).op = "put" /\ Tail(ReaderPuts) = Ends
  /\ Ends # <<>> /\ Head(Ends).op = "unlock" /\ Tail(Ends) = <<>>
  <1>1. ReaderWaits # <<>> /\ Head(ReaderWaits) = Op("lockIfOff") /\ Tail(ReaderWaits) = ReaderGets
    <2> DEFINE a == Op("lockIfOff")
               b == Op("get")
               c == Up("byp", 1)
               d == Up("byp", 0)
               e == Op("put")
               f == Op("unlock")
    <2>1. ReaderWaits = <<a, b, c, d, e, f>> /\ ReaderGets = <<b, c, d, e, f>> /\ a = Op("lockIfOff")
      BY DEF ReaderWaits, ReaderGets
    <2> HIDE DEF a, b, c, d, e, f
    <2> QED BY <2>1, Rest6
  <1>2. ReaderGets # <<>> /\ Head(ReaderGets) = Op("get") /\ Tail(ReaderGets) = Bypasses
    <2> DEFINE a == Op("get")
               b == Up("byp", 1)
               c == Up("byp", 0)
               d == Op("put")
               e == Op("unlock")
    <2>1. ReaderGets = <<a, b, c, d, e>> /\ Bypasses = <<b, c, d, e>> /\ a = Op("get")
      BY DEF ReaderGets, Bypasses
    <2> HIDE DEF a, b, c, d, e
    <2> QED BY <2>1, Rest5
  <1>3. Bypasses # <<>> /\ Head(Bypasses) = Up("byp", 1) /\ Tail(Bypasses) = Restores
    BY Rest4 DEF Bypasses, Restores
  <1>4. Restores # <<>> /\ Head(Restores) = Up("byp", 0) /\ Tail(Restores) = ReaderPuts
    BY Rest3 DEF Restores, ReaderPuts
  <1>5. ReaderPuts # <<>> /\ Head(ReaderPuts) = Op("put") /\ Tail(ReaderPuts) = Ends
    BY Rest2 DEF ReaderPuts, Ends
  <1>6. Ends # <<>> /\ Head(Ends) = Op("unlock") /\ Tail(Ends) = <<>>
    BY Rest1 DEF Ends
  <1> QED BY <1>1, <1>2, <1>3, <1>4, <1>5, <1>6 DEF Op

\* The bus thread writes no PA, no bypass, and takes no lock.
BusOp(o) ==
    \/ o.op = "write" /\ o.reg \in {"conf", "gain", "wo"}
    \/ o.op \in {"strap", "inited"}

LEMMA BusHeads ==
  ASSUME NEW s \in BusJobs, s # <<>>
  PROVE  /\ BusOp(Head(s)) /\ Tail(s) \in BusJobs
  <1>1. CASE s = <<Op("strap")>>
    <2>1. Head(s) = Op("strap") /\ Tail(s) = <<>>
      BY <1>1, Rest1
    <2> QED BY <2>1 DEF BusOp, BusJobs, Op
  <1>2. CASE s = <<Wr("conf", "cold"), Wr("gain", 0), Wr("wo", 1), Op("inited")>>
    <2>1. Head(s) = Wr("conf", "cold") /\ Tail(s) = <<Wr("gain", 0), Wr("wo", 1), Op("inited")>>
      BY <1>2, Rest4
    <2> QED BY <2>1 DEF BusOp, BusJobs, Wr
  <1>3. CASE s = <<Wr("gain", 0), Wr("wo", 1), Op("inited")>>
    <2>1. Head(s) = Wr("gain", 0) /\ Tail(s) = <<Wr("wo", 1), Op("inited")>>
      BY <1>3, Rest3
    <2> QED BY <2>1 DEF BusOp, BusJobs, Wr
  <1>4. CASE s = <<Wr("conf", "generic"), Wr("wo", 1), Op("inited")>>
    <2>1. Head(s) = Wr("conf", "generic") /\ Tail(s) = <<Wr("wo", 1), Op("inited")>>
      BY <1>4, Rest3
    <2> QED BY <2>1 DEF BusOp, BusJobs, Wr
  <1>5. CASE s = <<Wr("wo", 1), Op("inited")>>
    <2>1. Head(s) = Wr("wo", 1) /\ Tail(s) = <<Op("inited")>>
      BY <1>5, Rest2
    <2> QED BY <2>1 DEF BusOp, BusJobs, Wr
  <1>6. CASE s = <<Op("inited")>>
    <2>1. Head(s) = Op("inited") /\ Tail(s) = <<>>
      BY <1>6, Rest1
    <2> QED BY <2>1 DEF BusOp, BusJobs, Op
  <1> QED BY <1>1, <1>2, <1>3, <1>4, <1>5, <1>6 DEF BusJobs

LEMMA StreamHeads ==
  /\ \A s \in MuteWaits : s # <<>> /\ Head(s).op = "lock" /\ Tail(s) \in Mutes
  /\ \A s \in Mutes : s # <<>> /\ Head(s) \in StopOps /\ Tail(s) = Ends
  /\ \A s \in UnmuteWaits : s # <<>> /\ Head(s).op = "lock" /\ Tail(s) \in Unmutes
  /\ \A s \in Unmutes : s = Ends \/ Continues(s, Unmutes)
  /\ Ends # <<>> /\ Head(Ends).op = "unlock" /\ Tail(Ends) = <<>> /\ Ends \in Unmutes
  /\ Powers # <<>> /\ Head(Powers).op = "power" /\ Tail(Powers) = <<Op("arm")>>
  /\ <<Op("arm")>> # <<>> /\ Head(<<Op("arm")>>).op = "arm" /\ Tail(<<Op("arm")>>) = <<>>
  /\ Unpowers # <<>> /\ Head(Unpowers).op = "unpower" /\ Tail(Unpowers) = <<Op("cancel")>>
  /\ <<Op("cancel")>> # <<>> /\ Head(<<Op("cancel")>>).op = "cancel" /\ Tail(<<Op("cancel")>>) = <<>>
  /\ <<Op("get")>> # <<>> /\ Head(<<Op("get")>>).op = "get" /\ Tail(<<Op("get")>>) = <<>>
  <1>0. ASSUME NEW o
        PROVE  LET t == <<Op("lock"), Lk(FALSE), o, Lk(TRUE), Op("unlock")>>
                   u == <<Lk(FALSE), o, Lk(TRUE), Op("unlock")>>
               IN  /\ t # <<>> /\ Head(t) = Op("lock") /\ Tail(t) = u
                   /\ u # <<>> /\ Head(u) = Lk(FALSE) /\ Tail(u) = <<o, Lk(TRUE), Op("unlock")>>
    <2> DEFINE a == Op("lock")
               b == Lk(FALSE)
               d == Lk(TRUE)
               e == Op("unlock")
    <2> SUFFICES /\ <<a, b, o, d, e>> # <<>> /\ Head(<<a, b, o, d, e>>) = a
                 /\ Tail(<<a, b, o, d, e>>) = <<b, o, d, e>>
                 /\ <<b, o, d, e>> # <<>> /\ Head(<<b, o, d, e>>) = b
                 /\ Tail(<<b, o, d, e>>) = <<o, d, e>>
      OBVIOUS
    <2> HIDE DEF a, b, d, e
    <2> QED BY Rest4, Rest5
  <1>1. \A s \in MuteWaits : s # <<>> /\ Head(s).op = "lock" /\ Tail(s) \in Mutes
    <2> SUFFICES ASSUME NEW o \in StopOps, NEW s, s = <<Op("lock"), o, Op("unlock")>>
                 PROVE  s # <<>> /\ Head(s).op = "lock" /\ Tail(s) \in Mutes
      BY DEF MuteWaits
    <2>1. s # <<>> /\ Head(s) = Op("lock") /\ Tail(s) = <<o, Op("unlock")>>
      BY Rest3
    <2> QED BY <2>1 DEF Op, Mutes
  <1>2. \A s \in Mutes : s # <<>> /\ Head(s) \in StopOps /\ Tail(s) = Ends
    <2> SUFFICES ASSUME NEW o \in StopOps, NEW s, s = <<o, Op("unlock")>>
                 PROVE  s # <<>> /\ Head(s) \in StopOps /\ Tail(s) = Ends
      BY DEF Mutes
    <2>1. s # <<>> /\ Head(s) = o /\ Tail(s) = <<Op("unlock")>>
      BY Rest2
    <2> QED BY <2>1 DEF Ends
  <1>3. \A s \in UnmuteWaits : s # <<>> /\ Head(s).op = "lock" /\ Tail(s) \in Unmutes
    <2> SUFFICES ASSUME NEW o \in StartOps, NEW s,
                        s = <<Op("lock"), Lk(FALSE), o, Lk(TRUE), Op("unlock")>>
                 PROVE  s # <<>> /\ Head(s).op = "lock" /\ Tail(s) \in Unmutes
      BY DEF UnmuteWaits
    <2>1. s # <<>> /\ Head(s) = Op("lock") /\ Tail(s) = <<Lk(FALSE), o, Lk(TRUE), Op("unlock")>>
      BY <1>0
    <2>2. Tail(s) \in UnmuteLooks
      BY <2>1 DEF UnmuteLooks
    <2>3. Tail(s) \in Unmutes
      BY <2>2 DEF Unmutes
    <2>4. Head(s).op = "lock"
      <3>1. Head(s) = Op("lock") /\ Op("lock").op = "lock"
        BY <2>1, Zenon DEF Op
      <3> QED BY <3>1, Zenon
    <2> QED BY <2>1, <2>3, <2>4, Zenon
  <1>4. \A s \in Unmutes : s = Ends \/ Continues(s, Unmutes)
    <2>1. /\ \A r \in Recovery : r \o Ends \in Unmutes
          /\ \A r \in Clearing, o \in StartOps : r \o <<o, Lk(TRUE), Op("unlock")>> \in Unmutes
          /\ <<Lk(TRUE), Op("unlock")>> \in Unmutes
      <3>1. \A r \in Recovery : r \o Ends \in UnmuteRecovers
        BY DEF UnmuteRecovers
      <3>2. \A o \in StartOps : \A r \in Clearing : r \o <<o, Lk(TRUE), Op("unlock")>> \in Cleared(o)
        BY DEF Cleared
      <3>3. \A o \in StartOps : Cleared(o) \subseteq UnmuteStarts
        BY DEF UnmuteStarts
      <3>4. <<Lk(TRUE), Op("unlock")>> \in UnmuteAgain
        BY DEF UnmuteAgain
      <3> QED BY <3>1, <3>2, <3>3, <3>4 DEF Unmutes
    <2>2. ASSUME NEW o \in StartOps, NEW s, s = <<Lk(FALSE), o, Lk(TRUE), Op("unlock")>>
          PROVE  Continues(s, Unmutes)
      <3>1. s # <<>> /\ Head(s) = Lk(FALSE) /\ Tail(s) = <<o, Lk(TRUE), Op("unlock")>>
        BY <1>0, <2>2
      <3>2. /\ wsa884x_recover_pa(FALSE) \o <<o, Lk(TRUE), Op("unlock")>> \in Unmutes
            /\ <<>> \o <<o, Lk(TRUE), Op("unlock")>> \in Unmutes
        BY <2>1, Programs DEF Clearing
      <3>3. Head(s).op = "look" /\ Head(s).again = FALSE
        BY <3>1 DEF Lk
      <3> QED BY <3>1, <3>2, <3>3 DEF Continues
    <2>3. ASSUME NEW o \in StartOps, NEW r \in Clearing, NEW s,
                 s = r \o <<o, Lk(TRUE), Op("unlock")>>
          PROVE  Continues(s, Unmutes)
      <3>1. PICK S : /\ \A q \in Recovery \cup Clearing : q \in Seq(S)
                     /\ <<o, Lk(TRUE), Op("unlock")>> \in Seq(S)
        BY Sequences
      <3>2. CASE r = <<>>
        <4>1. s = <<o, Lk(TRUE), Op("unlock")>>
          BY <2>3, <3>1, <3>2, ConcatEmptySeq
        <4>2. s # <<>> /\ Head(s) = o /\ Tail(s) = <<Lk(TRUE), Op("unlock")>>
          BY <4>1, Rest3
        <4>3. o.op \in {"write", "update"} /\ o.reg = "pa"
          BY DEF StartOps, Wr, Up
        <4> QED BY <2>1, <4>2, <4>3 DEF Continues
      <3>3. CASE r # <<>>
        <4> DEFINE e == <<o, Lk(TRUE), Op("unlock")>>
        <4>1. e \in Seq(S) /\ r \in Seq(S)
          BY <3>1
        <4>2. s # <<>> /\ Head(s) = Head(r) /\ Tail(s) = Tail(r) \o e
          <5> HIDE DEF e
          <5> QED BY <2>3, <3>3, <4>1, HeadTailFirst DEF e
        <4>3. Tail(s) \in Unmutes
          BY <2>1, <3>3, <4>2, ClearingHeads
        <4> QED BY <3>3, <4>2, <4>3, ClearingHeads DEF Continues
      <3> QED BY <3>2, <3>3
    <2>4. ASSUME NEW s, s = <<Lk(TRUE), Op("unlock")>>
          PROVE  Continues(s, Unmutes)
      <3>1. s # <<>> /\ Head(s) = Lk(TRUE) /\ Tail(s) = Ends
        BY <2>4, Rest2 DEF Ends
      <3>2. wsa884x_recover_pa(TRUE) \o Ends \in Unmutes /\ <<>> \o Ends \in Unmutes
        BY <2>1, Programs DEF Recovery
      <3>3. Head(s).op = "look" /\ Head(s).again = TRUE
        BY <3>1 DEF Lk
      <3> QED BY <3>1, <3>2, <3>3 DEF Continues
    <2>5. ASSUME NEW r \in Recovery, NEW s, s = r \o Ends
          PROVE  s = Ends \/ Continues(s, Unmutes)
      <3>1. PICK o : o \in StartOps
        BY DEF StartOps
      <3>2. PICK S : /\ \A q \in Recovery \cup Clearing : q \in Seq(S)
                     /\ Ends \in Seq(S)
        BY <3>1, Sequences
      <3>4. CASE r = <<>>
        BY <2>5, <3>2, <3>4, ConcatEmptySeq
      <3>5. CASE r # <<>>
        <4>1. Continues(s, {q \o Ends : q \in Recovery})
          BY <2>5, <3>2, <3>5, RecoveryContinues
        <4>2. {q \o Ends : q \in Recovery} \subseteq Unmutes
          BY <2>1
        <4> QED BY <4>1, <4>2 DEF Continues
      <3> QED BY <3>4, <3>5
    <2>6. \A s \in UnmuteLooks \cup UnmuteAgain : Continues(s, Unmutes)
      BY <2>2, <2>4 DEF UnmuteLooks, UnmuteAgain
    <2>7. \A s \in UnmuteStarts : Continues(s, Unmutes)
      BY <2>3 DEF UnmuteStarts, Cleared
    <2>8. \A s \in UnmuteRecovers : s = Ends \/ Continues(s, Unmutes)
      BY <2>5 DEF UnmuteRecovers
    <2> QED BY <2>6, <2>7, <2>8 DEF Unmutes
  <1>5. Ends # <<>> /\ Head(Ends).op = "unlock" /\ Tail(Ends) = <<>>
    BY ReaderHeads
  <1>6. Ends \in Unmutes
    <2>1. PICK o : o \in StartOps
      BY DEF StartOps
    <2>2. PICK S : Ends \in Seq(S)
      BY <2>1, Sequences
    <2>3. Ends = <<>> \o Ends /\ <<>> \in Recovery
      BY <2>2, ConcatEmptySeq DEF Recovery
    <2> QED BY <2>3 DEF Unmutes, UnmuteRecovers
  <1>7. Powers # <<>> /\ Head(Powers) = Op("power") /\ Tail(Powers) = <<Op("arm")>>
    BY Rest2 DEF Powers
  <1>8. <<Op("arm")>> # <<>> /\ Head(<<Op("arm")>>) = Op("arm") /\ Tail(<<Op("arm")>>) = <<>>
    BY Rest1
  <1>9. Unpowers # <<>> /\ Head(Unpowers) = Op("unpower") /\ Tail(Unpowers) = <<Op("cancel")>>
    BY Rest2 DEF Unpowers
  <1>10. <<Op("cancel")>> # <<>> /\ Head(<<Op("cancel")>>) = Op("cancel") /\ Tail(<<Op("cancel")>>) = <<>>
    BY Rest1
  <1>11. <<Op("get")>> # <<>> /\ Head(<<Op("get")>>) = Op("get") /\ Tail(<<Op("get")>>) = <<>>
    BY Rest1
  <1> QED
    BY <1>1, <1>2, <1>3, <1>4, <1>5, <1>6, <1>7, <1>8, <1>9, <1>10, <1>11 DEF Op

-----------------------------------------------------------------------------
\* What a step does, by its operation.

Now(p) == Head(job[p]).op

\* The lock is taken for something.
Keeps(p) ==
    \/ Now(p) = "lock"
    \/ Now(p) = "lockIfOn" /\ paOn
    \/ Now(p) = "lockIfOff" /\ ~paOn

LEMMA StepIs ==
  ASSUME NEW p, Step(p)
  PROVE  /\ job[p] # <<>>
         /\ Now(p) \in {"write", "update"} => Access(p)
         /\ Now(p) \in {"lock", "lockIfOn", "lockIfOff"} => Lock(p)
         /\ Now(p) = "unlock" => Unlock(p)
         /\ Now(p) = "look" => LookAt(p)
         /\ Now(p) = "reset" => Reset(p)
         /\ Now(p) = "try" => Try(p)
         /\ Now(p) = "failed" => Failed(p)
         /\ Now(p) \in {"power", "unpower"} => Power(p)
         /\ Now(p) = "arm" => Arm(p)
         /\ Now(p) = "cancel" => cancel_delayed_work_sync(p)
         /\ Now(p) = "get" => Get(p) \/ GetFails(p)
         /\ Now(p) = "put" => Put(p)
         /\ Now(p) = "rearm" => Rearm(p)
         /\ Now(p) = "strap" => Strap(p)
         /\ Now(p) = "inited" => Inited(p)
  <1>1. /\ Access(p) => job[p] # <<>> /\ Now(p) \in {"write", "update"}
        /\ Lock(p) => job[p] # <<>> /\ Now(p) \in {"lock", "lockIfOn", "lockIfOff"}
        /\ Unlock(p) => job[p] # <<>> /\ Now(p) = "unlock"
        /\ LookAt(p) => job[p] # <<>> /\ Now(p) = "look"
    BY DEF Access, Lock, Unlock, LookAt, Here, Now
  <1>2. /\ Reset(p) => job[p] # <<>> /\ Now(p) = "reset"
        /\ Try(p) => job[p] # <<>> /\ Now(p) = "try"
        /\ Failed(p) => job[p] # <<>> /\ Now(p) = "failed"
        /\ Power(p) => job[p] # <<>> /\ Now(p) \in {"power", "unpower"}
    BY DEF Reset, Try, Failed, Power, Here, Now
  <1>3. /\ Arm(p) => job[p] # <<>> /\ Now(p) = "arm"
        /\ cancel_delayed_work_sync(p) => job[p] # <<>> /\ Now(p) = "cancel"
        /\ Get(p) => job[p] # <<>> /\ Now(p) = "get"
        /\ GetFails(p) => job[p] # <<>> /\ Now(p) = "get"
    BY DEF Arm, cancel_delayed_work_sync, Get, GetFails, Here, Now
  <1>4. /\ Put(p) => job[p] # <<>> /\ Now(p) = "put"
        /\ Rearm(p) => job[p] # <<>> /\ Now(p) = "rearm"
        /\ Strap(p) => job[p] # <<>> /\ Now(p) = "strap"
        /\ Inited(p) => job[p] # <<>> /\ Now(p) = "inited"
    BY DEF Put, Rearm, Strap, Inited, Here, Now
  <1>5. Step(p)
    OBVIOUS
  <1> HIDE DEF Now
  <1> QED BY <1>1, <1>2, <1>3, <1>4, <1>5 DEF Step

LEMMA WriteDoes ==
  ASSUME CacheHeld, NEW r, NEW v, regmap_write(r, v) \/ regmap_update_bits(r, v)
  PROVE  \A q \in Cached : cache'[q] = IF q = r THEN v ELSE cache[q]
  <1>1. CASE regmap_write(r, v)
    BY <1>1 DEF regmap_write, CacheHeld
  <1>2. CASE regmap_update_bits(r, v)
    BY <1>1, <1>2 DEF regmap_update_bits, regmapVars
  <1> QED BY <1>1, <1>2

\* Only the thread's own program changes, and never phase or hot.
LEMMA StepDoes ==
  ASSUME NEW p \in Threads, Step(p), CacheHeld, DOMAIN job = Threads
  PROVE  /\ job[p] # <<>>
         /\ UNCHANGED <<phase, hot>>
         /\ \A q \in Threads \ {p} : job'[q] = job[q]
         /\ DOMAIN job' = Threads
         /\ Now(p) \in {"write", "update"} =>
              /\ job'[p] = Tail(job[p]) /\ UNCHANGED <<lock, paOn, err, work>>
              /\ \A q \in Cached : cache'[q] =
                    IF q = Head(job[p]).reg THEN Head(job[p]).val ELSE cache[q]
         /\ Now(p) \notin {"write", "update"} => cache' = cache
         /\ Now(p) \in {"lock", "lockIfOn", "lockIfOff"} =>
              /\ lock = "none" /\ lock' = p /\ UNCHANGED <<paOn, err, work>>
              /\ job'[p] = IF Keeps(p)
                           THEN Tail(job[p]) ELSE From(p, "unlock")
         /\ Now(p) = "unlock" =>
              lock' = "none" /\ job'[p] = Tail(job[p]) /\ UNCHANGED <<paOn, err, work>>
         /\ Now(p) = "look" =>
              /\ \/ err /\ job'[p] = wsa884x_recover_pa(Head(job[p]).again) \o Tail(job[p])
                 \/ job'[p] = <<>> \o Tail(job[p])
              /\ UNCHANGED <<lock, paOn, err, work>>
         /\ Now(p) \in {"reset", "failed"} =>
              job'[p] = Tail(job[p]) /\ (~err => ~err') /\ UNCHANGED <<lock, paOn, work>>
         /\ Now(p) = "try" =>
              /\ \/ job'[p] = Retry(Head(job[p]).n) \o Tail(job[p])
                 \/ job'[p] = <<>> \o Tail(job[p])
              /\ UNCHANGED <<lock, paOn, err, work>>
         /\ Now(p) \in {"power", "unpower"} =>
              /\ lock = "none" /\ job'[p] = Tail(job[p]) /\ UNCHANGED <<lock, err, work>>
              /\ paOn' = (Now(p) = "power")
         /\ Now(p) = "arm" =>
              /\ job'[p] = Tail(job[p]) /\ UNCHANGED <<lock, paOn, err>>
              /\ work' = IF work = "idle" THEN "pending" ELSE work
         /\ Now(p) = "cancel" =>
              /\ job'[p] = Tail(job[p]) /\ UNCHANGED <<lock, paOn, err>>
              /\ work # "running" /\ work' = "idle"
         /\ Now(p) = "get" =>
              /\ \/ job'[p] = Tail(job[p])
                 \/ p # "stream" /\ job'[p] = From(p, IF p = "worker" THEN "rearm" ELSE "unlock")
              /\ UNCHANGED <<lock, paOn, err, work>>
         /\ Now(p) = "put" => job'[p] = Tail(job[p]) /\ UNCHANGED <<lock, paOn, err, work>>
         /\ Now(p) = "rearm" =>
              /\ job'[p] = Tail(job[p]) /\ work' \in {"pending", "idle"}
              /\ UNCHANGED <<lock, paOn, err>>
         /\ Now(p) = "strap" =>
              /\ job'[p] \in {sp11_windows_cold_init \o Do("inited"), wsa884x_generic_init \o Do("inited")}
              /\ UNCHANGED <<lock, paOn, err, work>>
         /\ Now(p) = "inited" => job'[p] = Tail(job[p]) /\ UNCHANGED <<lock, paOn, err, work>>
         /\ Now(p) \in {"write", "update", "lock", "lockIfOn", "lockIfOff", "unlock", "look", "reset",
                        "failed", "try", "power", "unpower", "arm", "cancel", "get", "put", "rearm",
                        "strap", "inited"}
  <1> DEFINE Rest(rest) == job' = [job EXCEPT ![p] = rest]
             Frame == UNCHANGED <<phase, hot>>
  <1>1. ASSUME Access(p)
        PROVE  /\ Frame /\ Rest(Tail(job[p])) /\ UNCHANGED <<lock, paOn, err, work>>
               /\ \A q \in Cached : cache'[q] =
                     IF q = Head(job[p]).reg THEN Head(job[p]).val ELSE cache[q]
    <2>1. regmap_write(Head(job[p]).reg, Head(job[p]).val)
          \/ regmap_update_bits(Head(job[p]).reg, Head(job[p]).val)
      BY <1>1 DEF Access
    <2>2. \A q \in Cached : cache'[q] =
            IF q = Head(job[p]).reg THEN Head(job[p]).val ELSE cache[q]
      BY <2>1, WriteDoes, Zenon
    <2> QED BY <1>1, <2>2 DEF Access, Advance, Jump, NoPower
  <1>2. ASSUME Lock(p)
        PROVE  /\ Frame /\ lock = "none" /\ lock' = p /\ UNCHANGED <<paOn, err, work, cache>>
               /\ Rest(IF Keeps(p)
                       THEN Tail(job[p]) ELSE From(p, "unlock"))
    BY <1>2 DEF Lock, Advance, Jump, NoRegs, NoPower, Here, Now, Keeps, regmapVars
  <1>3. ASSUME Unlock(p)
        PROVE  /\ Frame /\ Rest(Tail(job[p])) /\ lock' = "none" /\ UNCHANGED <<paOn, err, work, cache>>
    BY <1>3 DEF Unlock, Advance, Jump, NoRegs, NoPower, regmapVars
  <1>4. ASSUME LookAt(p)
        PROVE  /\ Frame /\ UNCHANGED <<lock, paOn, err, work, cache>>
               /\ \/ err /\ Rest(wsa884x_recover_pa(Head(job[p]).again) \o Tail(job[p]))
                  \/ Rest(<<>> \o Tail(job[p]))
    BY <1>4 DEF LookAt, Jump, NoRegs, NoPower, regmapVars
  <1>5. ASSUME Reset(p) \/ Failed(p)
        PROVE  /\ Frame /\ Rest(Tail(job[p])) /\ (~err => ~err') /\ UNCHANGED <<lock, paOn, work, cache>>
    <2>1. CASE Reset(p)
      <3>1. err' = (err /\ ~Readable)
        BY <2>1 DEF Reset
      <3>2. Frame /\ Rest(Tail(job[p])) /\ UNCHANGED <<lock, paOn, work, cache>>
        BY <2>1 DEF Reset, Advance, Jump, NoPower
      <3> HIDE DEF Frame, Rest
      <3> QED BY <3>1, <3>2
    <2>2. CASE Failed(p)
      BY <2>2 DEF Failed, Advance, Jump, NoRegs, regmapVars
    <2> QED BY <1>5, <2>1, <2>2
  <1>6. ASSUME Try(p)
        PROVE  /\ Frame /\ UNCHANGED <<lock, paOn, err, work, cache>>
               /\ \/ Rest(Retry(Head(job[p]).n) \o Tail(job[p])) \/ Rest(<<>> \o Tail(job[p]))
    BY <1>6 DEF Try, Jump, NoRegs, regmapVars
  <1>7. ASSUME Power(p)
        PROVE  /\ Frame /\ Rest(Tail(job[p])) /\ lock = "none" /\ UNCHANGED <<lock, err, work, cache>>
               /\ paOn' = (Now(p) = "power")
    BY <1>7 DEF Power, Advance, Jump, NoRegs, Here, Now, regmapVars
  <1>8. ASSUME Arm(p)
        PROVE  /\ Frame /\ Rest(Tail(job[p])) /\ UNCHANGED <<lock, paOn, err, cache>>
               /\ work' = IF work = "idle" THEN "pending" ELSE work
    BY <1>8 DEF Arm, Advance, Jump, NoRegs, regmapVars
  <1>9. ASSUME cancel_delayed_work_sync(p)
        PROVE  /\ Frame /\ Rest(Tail(job[p])) /\ UNCHANGED <<lock, paOn, err, cache>>
               /\ work # "running" /\ work' = "idle"
    BY <1>9 DEF cancel_delayed_work_sync, Advance, Jump, NoRegs, regmapVars
  <1>10. ASSUME Get(p)
         PROVE  Frame /\ Rest(Tail(job[p])) /\ UNCHANGED <<lock, paOn, err, work, cache>>
    BY <1>10 DEF Get, Advance, Jump, NoRegs, NoPower, regmapVars
  <1>11. ASSUME GetFails(p)
         PROVE  /\ Frame /\ p # "stream" /\ UNCHANGED <<lock, paOn, err, work, cache>>
                /\ Rest(From(p, IF p = "worker" THEN "rearm" ELSE "unlock"))
    BY <1>11 DEF GetFails, Jump, NoRegs, NoPower, regmapVars
  <1>12. ASSUME Put(p)
         PROVE  Frame /\ Rest(Tail(job[p])) /\ UNCHANGED <<lock, paOn, err, work, cache>>
    BY <1>12 DEF Put, Advance, Jump, NoRegs, NoPower, regmapVars
  <1>13. ASSUME Rearm(p)
         PROVE  /\ Frame /\ Rest(Tail(job[p])) /\ UNCHANGED <<lock, paOn, err, cache>>
                /\ work' \in {"pending", "idle"}
    BY <1>13 DEF Rearm, Advance, Jump, NoRegs, regmapVars
  <1>14. ASSUME Strap(p)
         PROVE  /\ Frame /\ UNCHANGED <<lock, paOn, err, work, cache>>
                /\ \/ Rest(sp11_windows_cold_init \o Do("inited"))
                   \/ Rest(wsa884x_generic_init \o Do("inited"))
    BY <1>14 DEF Strap, Jump, NoRegs, NoPower, regmapVars
  <1>15. ASSUME Inited(p)
         PROVE  Frame /\ Rest(Tail(job[p])) /\ UNCHANGED <<lock, paOn, err, work, cache>>
    BY <1>15 DEF Inited, Advance, Jump, NoRegs, NoPower, regmapVars
  <1>16. \A rest : Rest(rest) => /\ job'[p] = rest /\ DOMAIN job' = Threads
                                 /\ \A q \in Threads \ {p} : job'[q] = job[q]
    OBVIOUS
  <1> HIDE DEF Rest, Frame
  <1>17. Frame /\ \E rest : Rest(rest)
    <2>1. CASE Access(p) \/ Lock(p) \/ Unlock(p) \/ LookAt(p) \/ Reset(p) \/ Try(p) \/ Failed(p)
      BY <1>1, <1>2, <1>3, <1>4, <1>5, <1>6, <2>1
    <2>2. CASE Power(p) \/ Arm(p) \/ cancel_delayed_work_sync(p) \/ Get(p) \/ GetFails(p)
      BY <1>7, <1>8, <1>9, <1>10, <1>11, <2>2
    <2>3. CASE Put(p) \/ Rearm(p) \/ Strap(p) \/ Inited(p)
      BY <1>12, <1>13, <1>14, <1>15, <2>3
    <2> QED BY <2>1, <2>2, <2>3 DEF Step
  <1>18. /\ job[p] # <<>> /\ UNCHANGED <<phase, hot>> /\ DOMAIN job' = Threads
         /\ \A q \in Threads \ {p} : job'[q] = job[q]
    BY <1>16, <1>17, StepIs DEF Frame
  <1>19. Now(p) \in {"write", "update", "lock", "lockIfOn", "lockIfOff", "unlock", "look", "reset",
                     "failed", "try", "power", "unpower", "arm", "cancel", "get", "put", "rearm",
                     "strap", "inited"}
         /\ (Now(p) \notin {"write", "update"} => cache' = cache)
    <2>1. CASE Access(p)
      BY <2>1 DEF Access, Here, Now
    <2>2. CASE Lock(p) \/ Unlock(p) \/ LookAt(p) \/ Reset(p) \/ Try(p) \/ Failed(p)
      <3>1. cache' = cache
        BY <1>2, <1>3, <1>4, <1>5, <1>6, <2>2
      <3> QED BY <2>2, <3>1 DEF Lock, Unlock, LookAt, Reset, Try, Failed, Here, Now
    <2>3. CASE Power(p) \/ Arm(p) \/ cancel_delayed_work_sync(p) \/ Get(p) \/ GetFails(p)
      <3>1. cache' = cache
        BY <1>7, <1>8, <1>9, <1>10, <1>11, <2>3
      <3> QED BY <2>3, <3>1 DEF Power, Arm, cancel_delayed_work_sync, Get, GetFails, Here, Now
    <2>4. CASE Put(p) \/ Rearm(p) \/ Strap(p) \/ Inited(p)
      <3>1. cache' = cache
        BY <1>12, <1>13, <1>14, <1>15, <2>4
      <3> QED BY <2>4, <3>1 DEF Put, Rearm, Strap, Inited, Here, Now
    <2> QED BY <2>1, <2>2, <2>3, <2>4 DEF Step
  <1>20. Now(p) \in {"write", "update"} =>
              /\ job'[p] = Tail(job[p]) /\ UNCHANGED <<lock, paOn, err, work>>
              /\ \A q \in Cached : cache'[q] =
                    IF q = Head(job[p]).reg THEN Head(job[p]).val ELSE cache[q]
    BY <1>1, <1>16, StepIs
  <1>21. Now(p) \in {"lock", "lockIfOn", "lockIfOff"} =>
              /\ lock = "none" /\ lock' = p /\ UNCHANGED <<paOn, err, work>>
              /\ job'[p] = IF Keeps(p)
                           THEN Tail(job[p]) ELSE From(p, "unlock")
    BY <1>2, <1>16, StepIs
  <1>22. Now(p) = "unlock" =>
              lock' = "none" /\ job'[p] = Tail(job[p]) /\ UNCHANGED <<paOn, err, work>>
    BY <1>3, <1>16, StepIs
  <1>23. Now(p) = "look" =>
              /\ \/ err /\ job'[p] = wsa884x_recover_pa(Head(job[p]).again) \o Tail(job[p])
                 \/ job'[p] = <<>> \o Tail(job[p])
              /\ UNCHANGED <<lock, paOn, err, work>>
    BY <1>4, <1>16, StepIs
  <1>24. Now(p) \in {"reset", "failed"} =>
              job'[p] = Tail(job[p]) /\ (~err => ~err') /\ UNCHANGED <<lock, paOn, work>>
    BY <1>5, <1>16, StepIs
  <1>25. Now(p) = "try" =>
              /\ \/ job'[p] = Retry(Head(job[p]).n) \o Tail(job[p])
                 \/ job'[p] = <<>> \o Tail(job[p])
              /\ UNCHANGED <<lock, paOn, err, work>>
    BY <1>6, <1>16, StepIs
  <1>26. Now(p) \in {"power", "unpower"} =>
              /\ lock = "none" /\ job'[p] = Tail(job[p]) /\ UNCHANGED <<lock, err, work>>
              /\ paOn' = (Now(p) = "power")
    BY <1>7, <1>16, StepIs
  <1>27. Now(p) = "arm" =>
              /\ job'[p] = Tail(job[p]) /\ UNCHANGED <<lock, paOn, err>>
              /\ work' = IF work = "idle" THEN "pending" ELSE work
    BY <1>8, <1>16, StepIs
  <1>28. Now(p) = "cancel" =>
              /\ job'[p] = Tail(job[p]) /\ UNCHANGED <<lock, paOn, err>>
              /\ work # "running" /\ work' = "idle"
    BY <1>9, <1>16, StepIs
  <1>29. Now(p) = "get" =>
              /\ \/ job'[p] = Tail(job[p])
                 \/ p # "stream" /\ job'[p] = From(p, IF p = "worker" THEN "rearm" ELSE "unlock")
              /\ UNCHANGED <<lock, paOn, err, work>>
    BY <1>10, <1>11, <1>16, StepIs
  <1>30. Now(p) = "put" => job'[p] = Tail(job[p]) /\ UNCHANGED <<lock, paOn, err, work>>
    BY <1>12, <1>16, StepIs
  <1>31. Now(p) = "rearm" =>
              /\ job'[p] = Tail(job[p]) /\ work' \in {"pending", "idle"}
              /\ UNCHANGED <<lock, paOn, err>>
    BY <1>13, <1>16, StepIs
  <1>32. Now(p) = "strap" =>
              /\ job'[p] \in {sp11_windows_cold_init \o Do("inited"), wsa884x_generic_init \o Do("inited")}
              /\ UNCHANGED <<lock, paOn, err, work>>
    BY <1>14, <1>16, StepIs
  <1>33. Now(p) = "inited" => job'[p] = Tail(job[p]) /\ UNCHANGED <<lock, paOn, err, work>>
    BY <1>15, <1>16, StepIs
  <1> QED
    BY <1>18, <1>19, <1>20, <1>21, <1>22, <1>23, <1>24, <1>25, <1>26, <1>27, <1>28, <1>29, <1>30,
       <1>31, <1>32, <1>33

\* Where a program goes on after a lock that found nothing to do, and after a
\* resume that failed.
LEMMA FromIs ==
  ASSUME NEW p, NEW o, NEW k \in Nat, {i \in 1..Len(job[p]) : job[p][i].op = o} = {k}
  PROVE  From(p, o) = SubSeq(job[p], k, Len(job[p]))
  <1>1. SelectInSeq(job[p], LAMBDA x : x.op = o) = k
    BY DEF SelectInSeq, Min
  <1> QED BY <1>1 DEF From

\* The end of a program, by its position.
LEMMA EndsAt ==
  ASSUME NEW S, NEW s \in Seq(S), NEW k \in 1..Len(s), NEW t \in Seq(S), Len(t) = Len(s) - k + 1,
         \A i \in 1..Len(t) : t[i] = s[k + i - 1]
  PROVE  SubSeq(s, k, Len(s)) = t
  <1> DEFINE q == SubSeq(s, k, Len(s))
  <1>1. q \in Seq(S) /\ Len(q) = Len(t) /\ \A i \in 1..Len(t) : q[i] = s[k + i - 1]
    OBVIOUS
  <1> HIDE DEF q
  <1>2. \A i \in 1..Len(q) : q[i] = t[i]
    BY <1>1
  <1>3. q = t
    BY <1>1, <1>2, SeqEqual
  <1> QED BY <1>3 DEF q

LEMMA WorkerFrom ==
  /\ job["worker"] = WorkerGets => From("worker", "rearm") = <<Op("rearm")>>
  /\ job["worker"] = WorkerWaits => From("worker", "unlock") = WorkerEnd
  <1> DEFINE S == {Op("get"), Op("lockIfOn"), Lk(TRUE), Op("unlock"), Op("put"), Op("rearm")}
  <1>1. ASSUME job["worker"] = WorkerGets
        PROVE  From("worker", "rearm") = <<Op("rearm")>>
    <2> DEFINE s == WorkerGets
               t == <<Op("rearm")>>
    <2>1. /\ s \in Seq(S) /\ Len(s) = 6 /\ s[1] = Op("get") /\ s[2] = Op("lockIfOn")
          /\ s[3] = Lk(TRUE) /\ s[4] = Op("unlock") /\ s[5] = Op("put") /\ s[6] = Op("rearm")
          /\ t \in Seq(S) /\ Len(t) = 1 /\ t[1] = Op("rearm")
      BY DEF WorkerGets
    <2> HIDE DEF S, s, t
    <2>2. {i \in 1..Len(s) : s[i].op = "rearm"} = {6}
      BY <2>1 DEF Op, Lk
    <2>3. From("worker", "rearm") = SubSeq(s, 6, Len(s))
      <3>1. s = job["worker"]
        BY <1>1 DEF s
      <3>2. 6 \in Nat
        OBVIOUS
      <3>3. {i \in 1..Len(job["worker"]) : job["worker"][i].op = "rearm"} = {6}
        BY <2>2, <3>1
      <3>4. From("worker", "rearm") = SubSeq(job["worker"], 6, Len(job["worker"]))
        BY <3>3, <3>2, FromIs, Zenon
      <3> QED BY <3>1, <3>4
    <2>4. SubSeq(s, 6, Len(s)) = t
      BY <2>1, EndsAt
    <2> QED BY <2>3, <2>4 DEF t
  <1>2. ASSUME job["worker"] = WorkerWaits
        PROVE  From("worker", "unlock") = WorkerEnd
    <2> DEFINE s == WorkerWaits
               t == WorkerEnd
    <2>1. /\ s \in Seq(S) /\ Len(s) = 5 /\ s[1] = Op("lockIfOn")
          /\ s[2] = Lk(TRUE) /\ s[3] = Op("unlock") /\ s[4] = Op("put") /\ s[5] = Op("rearm")
      BY DEF WorkerWaits
    <2>2. /\ t \in Seq(S) /\ Len(t) = 3 /\ t[1] = Op("unlock") /\ t[2] = Op("put")
          /\ t[3] = Op("rearm")
      BY DEF WorkerEnd
    <2> HIDE DEF S, s, t
    <2>3. {i \in 1..Len(s) : s[i].op = "unlock"} = {3}
      BY <2>1 DEF Op, Lk
    <2>4. From("worker", "unlock") = SubSeq(s, 3, Len(s))
      <3>1. s = job["worker"]
        BY <1>2 DEF s
      <3>2. 3 \in Nat
        OBVIOUS
      <3>3. {i \in 1..Len(job["worker"]) : job["worker"][i].op = "unlock"} = {3}
        BY <2>3, <3>1
      <3>4. From("worker", "unlock") = SubSeq(job["worker"], 3, Len(job["worker"]))
        BY <3>3, <3>2, FromIs, Zenon
      <3> QED BY <3>1, <3>4
    <2>5. SubSeq(s, 3, Len(s)) = t
      BY <2>1, <2>2, EndsAt
    <2> QED BY <2>4, <2>5 DEF t
  <1> QED BY <1>1, <1>2

LEMMA ReaderFrom ==
  job["reader"] \in {ReaderWaits, ReaderGets} => From("reader", "unlock") = Ends
  <1> DEFINE S == {Op("lockIfOff"), Op("get"), Up("byp", 1), Up("byp", 0), Op("put"), Op("unlock")}
             t == Ends
  <1>0. t \in Seq(S) /\ Len(t) = 1 /\ t[1] = Op("unlock")
    BY DEF Ends
  <1>1. ASSUME job["reader"] = ReaderWaits
        PROVE  From("reader", "unlock") = Ends
    <2> DEFINE s == ReaderWaits
    <2>1. /\ s \in Seq(S) /\ Len(s) = 6 /\ s[1] = Op("lockIfOff") /\ s[2] = Op("get")
          /\ s[3] = Up("byp", 1) /\ s[4] = Up("byp", 0) /\ s[5] = Op("put") /\ s[6] = Op("unlock")
      BY DEF ReaderWaits
    <2> HIDE DEF S, s, t
    <2>2. {i \in 1..Len(s) : s[i].op = "unlock"} = {6}
      BY <2>1 DEF Op, Up
    <2>3. From("reader", "unlock") = SubSeq(s, 6, Len(s))
      <3>1. s = job["reader"]
        BY <1>1 DEF s
      <3>2. 6 \in Nat
        OBVIOUS
      <3>3. {i \in 1..Len(job["reader"]) : job["reader"][i].op = "unlock"} = {6}
        BY <2>2, <3>1
      <3>4. From("reader", "unlock") = SubSeq(job["reader"], 6, Len(job["reader"]))
        BY <3>3, <3>2, FromIs, Zenon
      <3> QED BY <3>1, <3>4
    <2>4. SubSeq(s, 6, Len(s)) = t
      BY <1>0, <2>1, EndsAt
    <2> QED BY <2>3, <2>4 DEF t
  <1>2. ASSUME job["reader"] = ReaderGets
        PROVE  From("reader", "unlock") = Ends
    <2> DEFINE s == ReaderGets
    <2>1. /\ s \in Seq(S) /\ Len(s) = 5 /\ s[1] = Op("get")
          /\ s[2] = Up("byp", 1) /\ s[3] = Up("byp", 0) /\ s[4] = Op("put") /\ s[5] = Op("unlock")
      BY DEF ReaderGets
    <2> HIDE DEF S, s, t
    <2>2. {i \in 1..Len(s) : s[i].op = "unlock"} = {5}
      BY <2>1 DEF Op, Up
    <2>3. From("reader", "unlock") = SubSeq(s, 5, Len(s))
      <3>1. s = job["reader"]
        BY <1>2 DEF s
      <3>2. 5 \in Nat
        OBVIOUS
      <3>3. {i \in 1..Len(job["reader"]) : job["reader"][i].op = "unlock"} = {5}
        BY <2>2, <3>1
      <3>4. From("reader", "unlock") = SubSeq(job["reader"], 5, Len(job["reader"]))
        BY <3>3, <3>2, FromIs
      <3> QED BY <3>1, <3>4
    <2>4. SubSeq(s, 5, Len(s)) = t
      BY <1>0, <2>1, EndsAt
    <2> QED BY <2>3, <2>4 DEF t
  <1> QED BY <1>1, <1>2

-----------------------------------------------------------------------------
\* The steps of each thread.

\* The heads of the places where the worker holds the lock set them apart.
LEMMA WorkerApart ==
  /\ \A s \in WorkerHolds :
        s # <<>> /\ Head(s).op \in {"unlock", "look", "update", "reset", "try", "failed"}
  /\ <<>> \notin WorkerHolds /\ WorkerGets \notin WorkerHolds /\ WorkerWaits \notin WorkerHolds
  /\ <<Op("put"), Op("rearm")>> \notin WorkerHolds /\ <<Op("rearm")>> \notin WorkerHolds
  <1>1. \A s \in WorkerHolds :
          s # <<>> /\ Head(s).op \in {"unlock", "look", "update", "reset", "try", "failed"}
    <2> TAKE s \in WorkerHolds
    <2>1. /\ WorkerEnd # <<>> /\ Head(WorkerEnd).op = "unlock"
          /\ WorkerLooks # <<>> /\ Head(WorkerLooks).op = "look"
      BY WorkerHeads
    <2>2. \/ s = WorkerEnd
          \/ Continues(s, WorkerHolds) /\ s = WorkerLooks
          \/ Continues(s, WorkerHolds) /\ Head(s).op \in {"update", "reset", "try", "failed"}
      BY WorkerHeads
    <2>3. Continues(s, WorkerHolds) => s # <<>>
      BY DEF Continues
    <2> QED BY <2>1, <2>2, <2>3
  <1>2. /\ Head(WorkerGets).op = "get" /\ Head(WorkerWaits).op = "lockIfOn"
        /\ Head(<<Op("put"), Op("rearm")>>).op = "put" /\ Head(<<Op("rearm")>>).op = "rearm"
    BY WorkerHeads
  <1> QED BY <1>1, <1>2

\* What the worker's step does.
LEMMA WorkerStep ==
  ASSUME Step("worker"), CacheHeld, Placed
  PROVE  /\ UNCHANGED <<phase, hot, paOn>> /\ DOMAIN job' = Threads
         /\ \A q \in Threads \ {"worker"} : job'[q] = job[q]
         /\ \/ /\ job["worker"] = WorkerGets
               /\ job'["worker"] \in {WorkerWaits, <<Op("rearm")>>}
               /\ UNCHANGED <<lock, err, cache, work>>
            \/ /\ job["worker"] = WorkerWaits /\ lock = "none" /\ lock' = "worker"
               /\ job'["worker"] \in {WorkerLooks, WorkerEnd}
               /\ UNCHANGED <<err, cache, work>>
            \/ /\ job["worker"] \in WorkerHolds /\ job'["worker"] \in WorkerHolds
               /\ UNCHANGED <<lock, work>> /\ (~err => ~err')
               /\ Recovering \/ (cache' = cache /\ (err \/ job'["worker"] = WorkerEnd))
               /\ \A q \in Cached \ {"pa"} : cache'[q] = cache[q]
            \/ /\ job["worker"] = WorkerEnd /\ job'["worker"] = <<Op("put"), Op("rearm")>>
               /\ lock' = "none" /\ UNCHANGED <<err, cache, work>>
            \/ /\ job["worker"] = <<Op("put"), Op("rearm")>> /\ job'["worker"] = <<Op("rearm")>>
               /\ UNCHANGED <<lock, err, cache, work>>
            \/ /\ job["worker"] = <<Op("rearm")>> /\ job'["worker"] = <<>>
               /\ work' # "running" /\ UNCHANGED <<lock, err, cache>>
  <1>0. /\ job["worker"] # <<>> /\ UNCHANGED <<phase, hot>> /\ DOMAIN job' = Threads
        /\ \A q \in Threads \ {"worker"} : job'[q] = job[q]
        /\ DOMAIN job = Threads
    BY StepDoes DEF Placed, Threads
  <1>1. CASE job["worker"] = WorkerGets
    <2>1. Now("worker") = "get" /\ Tail(job["worker"]) = WorkerWaits
      BY <1>1, WorkerHeads DEF Now
    <2>2. /\ job'["worker"] \in {Tail(job["worker"]), From("worker", "rearm")}
          /\ UNCHANGED <<lock, paOn, err, work, cache>>
      BY <1>0, <2>1, StepDoes DEF Threads
    <2> QED BY <1>0, <1>1, <2>1, <2>2, WorkerFrom
  <1>2. CASE job["worker"] = WorkerWaits
    <2>1. Now("worker") = "lockIfOn" /\ Tail(job["worker"]) = WorkerLooks
      BY <1>2, WorkerHeads DEF Now
    <2>2. /\ job'["worker"] \in {Tail(job["worker"]), From("worker", "unlock")}
          /\ lock = "none" /\ lock' = "worker" /\ UNCHANGED <<paOn, err, work, cache>>
      BY <1>0, <2>1, StepDoes DEF Threads
    <2> QED BY <1>0, <1>2, <2>1, <2>2, WorkerFrom
  <1>3. CASE job["worker"] \in WorkerHolds /\ job["worker"] # WorkerEnd
    <2>1. CASE job["worker"] = WorkerLooks
      <3>1. /\ Now("worker") = "look" /\ Tail(job["worker"]) = WorkerEnd
            /\ <<>> \o WorkerEnd = WorkerEnd /\ WorkerEnd \in WorkerHolds
        BY <2>1, WorkerHeads DEF Now
      <3>2. Continues(job["worker"], WorkerHolds)
        BY <1>3, <2>1, WorkerHeads
      <3>3. wsa884x_recover_pa(Head(job["worker"]).again) \o Tail(job["worker"]) \in WorkerHolds
        BY <3>1, <3>2 DEF Continues, Now
      <3>4. /\ \/ err /\ job'["worker"] = wsa884x_recover_pa(Head(job["worker"]).again) \o Tail(job["worker"])
               \/ job'["worker"] = <<>> \o Tail(job["worker"])
            /\ UNCHANGED <<lock, paOn, err, work, cache>>
        BY <1>0, <3>1, StepDoes DEF Threads
      <3> QED BY <1>0, <1>3, <3>1, <3>3, <3>4
    <2>2. CASE job["worker"] # WorkerLooks
      <3>1. /\ Continues(job["worker"], WorkerHolds)
            /\ Now("worker") \in {"update", "reset", "try", "failed"}
        BY <1>3, <2>2, WorkerHeads DEF Now
      <3>2. Recovering
        BY <1>0, <3>1 DEF Recovering, Now
      <3>3. CASE Now("worker") = "update"
        <4>1. Head(job["worker"]).reg = "pa" /\ Tail(job["worker"]) \in WorkerHolds
          BY <3>1, <3>3 DEF Continues, Now
        <4>2. /\ job'["worker"] = Tail(job["worker"]) /\ UNCHANGED <<lock, paOn, err, work>>
              /\ \A q \in Cached : cache'[q] = IF q = Head(job["worker"]).reg
                                             THEN Head(job["worker"]).val ELSE cache[q]
          BY <1>0, <3>3, StepDoes DEF Threads
        <4> QED BY <1>0, <1>3, <3>2, <4>1, <4>2
      <3>4. CASE Now("worker") \in {"reset", "failed"}
        <4>1. Tail(job["worker"]) \in WorkerHolds
          BY <3>1, <3>4 DEF Continues, Now
        <4>2. /\ job'["worker"] = Tail(job["worker"]) /\ UNCHANGED <<lock, paOn, work, cache>>
              /\ (~err => ~err')
          BY <1>0, <3>4, StepDoes DEF Threads
        <4> QED BY <1>0, <1>3, <3>2, <4>1, <4>2
      <3>5. CASE Now("worker") = "try"
        <4>1. /\ Retry(Head(job["worker"]).n) \o Tail(job["worker"]) \in WorkerHolds
              /\ <<>> \o Tail(job["worker"]) \in WorkerHolds
          BY <3>1, <3>5 DEF Continues, Now
        <4>2. /\ \/ job'["worker"] = Retry(Head(job["worker"]).n) \o Tail(job["worker"])
                 \/ job'["worker"] = <<>> \o Tail(job["worker"])
              /\ UNCHANGED <<lock, paOn, err, work, cache>>
          BY <1>0, <3>5, StepDoes DEF Threads
        <4> QED BY <1>0, <1>3, <3>2, <4>1, <4>2
      <3> QED BY <3>1, <3>3, <3>4, <3>5
    <2> QED BY <2>1, <2>2
  <1>4. CASE job["worker"] = WorkerEnd
    <2>1. Now("worker") = "unlock" /\ Tail(job["worker"]) = <<Op("put"), Op("rearm")>>
      BY <1>4, WorkerHeads DEF Now
    <2>2. /\ job'["worker"] = Tail(job["worker"]) /\ lock' = "none"
          /\ UNCHANGED <<paOn, err, work, cache>>
      BY <1>0, <2>1, StepDoes DEF Threads
    <2> QED BY <1>0, <1>4, <2>1, <2>2
  <1>5. CASE job["worker"] = <<Op("put"), Op("rearm")>>
    <2>1. Now("worker") = "put" /\ Tail(job["worker"]) = <<Op("rearm")>>
      BY <1>5, WorkerHeads DEF Now
    <2>2. job'["worker"] = Tail(job["worker"]) /\ UNCHANGED <<lock, paOn, err, work, cache>>
      BY <1>0, <2>1, StepDoes DEF Threads
    <2> QED BY <1>0, <1>5, <2>1, <2>2
  <1>6. CASE job["worker"] = <<Op("rearm")>>
    <2>1. Now("worker") = "rearm" /\ Tail(job["worker"]) = <<>>
      BY <1>6, WorkerHeads DEF Now
    <2>2. /\ job'["worker"] = Tail(job["worker"]) /\ work' \in {"pending", "idle"}
          /\ UNCHANGED <<lock, paOn, err, cache>>
      BY <1>0, <2>1, StepDoes DEF Threads
    <2> QED BY <1>0, <1>6, <2>1, <2>2
  <1>7. job["worker"] \in {WorkerGets, WorkerWaits} \cup WorkerHolds \cup WorkerLeaves
    BY <1>0 DEF Placed, WorkerPlaced
  <1> QED BY <1>1, <1>2, <1>3, <1>4, <1>5, <1>6, <1>7 DEF WorkerLeaves

\* What the reader's step does.
LEMMA ReaderStep ==
  ASSUME Step("reader"), CacheHeld, Placed
  PROVE  /\ UNCHANGED <<phase, hot, paOn, err, work>> /\ DOMAIN job' = Threads
         /\ \A q \in Threads \ {"reader"} : job'[q] = job[q]
         /\ \/ /\ job["reader"] = ReaderWaits /\ lock = "none" /\ lock' = "reader"
               /\ job'["reader"] = IF paOn THEN Ends ELSE ReaderGets
               /\ cache' = cache
            \/ /\ job["reader"] = ReaderGets /\ job'["reader"] \in {Bypasses, Ends}
               /\ UNCHANGED <<lock, cache>>
            \/ /\ job["reader"] = Bypasses /\ job'["reader"] = Restores /\ lock' = lock
               /\ cache'.pa = cache.pa
            \/ /\ job["reader"] = Restores /\ job'["reader"] = ReaderPuts /\ lock' = lock
               /\ cache'.pa = cache.pa /\ cache'.byp = 0
            \/ /\ job["reader"] = ReaderPuts /\ job'["reader"] = Ends
               /\ UNCHANGED <<lock, cache>>
            \/ /\ job["reader"] = Ends /\ job'["reader"] = <<>> /\ lock' = "none"
               /\ cache' = cache
  <1>0. /\ job["reader"] # <<>> /\ UNCHANGED <<phase, hot>> /\ DOMAIN job' = Threads
        /\ \A q \in Threads \ {"reader"} : job'[q] = job[q]
        /\ DOMAIN job = Threads
    BY StepDoes DEF Placed, Threads
  <1>1. CASE job["reader"] = ReaderWaits
    <2>1. Now("reader") = "lockIfOff" /\ Tail(job["reader"]) = ReaderGets
      BY <1>1, ReaderHeads DEF Now
    <2>2. /\ job'["reader"] = IF paOn THEN From("reader", "unlock") ELSE Tail(job["reader"])
          /\ lock = "none" /\ lock' = "reader" /\ UNCHANGED <<paOn, err, work, cache>>
      BY <1>0, <2>1, StepDoes DEF Threads, Keeps
    <2> QED BY <1>0, <1>1, <2>1, <2>2, ReaderFrom
  <1>2. CASE job["reader"] = ReaderGets
    <2>1. Now("reader") = "get" /\ Tail(job["reader"]) = Bypasses
      BY <1>2, ReaderHeads DEF Now
    <2>2. /\ job'["reader"] \in {Tail(job["reader"]), From("reader", "unlock")}
          /\ UNCHANGED <<lock, paOn, err, work, cache>>
      BY <1>0, <2>1, StepDoes DEF Threads
    <2> QED BY <1>0, <1>2, <2>1, <2>2, ReaderFrom
  <1>3. ASSUME NEW v, Head(job["reader"]) = Up("byp", v)
        PROVE  /\ job'["reader"] = Tail(job["reader"]) /\ UNCHANGED <<lock, paOn, err, work>>
               /\ cache'.pa = cache.pa /\ cache'.byp = v
    <2>1. /\ Now("reader") = "update" /\ Head(job["reader"]).reg = "byp"
          /\ Head(job["reader"]).val = v
      BY <1>3 DEF Now, Up
    <2>2. /\ job'["reader"] = Tail(job["reader"]) /\ UNCHANGED <<lock, paOn, err, work>>
          /\ \A q \in Cached : cache'[q] = IF q = Head(job["reader"]).reg
                                         THEN Head(job["reader"]).val ELSE cache[q]
      BY <1>0, <2>1, StepDoes DEF Threads
    <2> QED BY <2>1, <2>2, Registers
  <1>4. CASE job["reader"] = Bypasses
    <2>1. Head(job["reader"]) = Up("byp", 1) /\ Tail(job["reader"]) = Restores
      BY <1>4, ReaderHeads
    <2> QED BY <1>0, <1>3, <1>4, <2>1
  <1>5. CASE job["reader"] = Restores
    <2>1. Head(job["reader"]) = Up("byp", 0) /\ Tail(job["reader"]) = ReaderPuts
      BY <1>5, ReaderHeads
    <2> QED BY <1>0, <1>3, <1>5, <2>1
  <1>6. CASE job["reader"] = ReaderPuts
    <2>1. Now("reader") = "put" /\ Tail(job["reader"]) = Ends
      BY <1>6, ReaderHeads DEF Now
    <2>2. job'["reader"] = Tail(job["reader"]) /\ UNCHANGED <<lock, paOn, err, work, cache>>
      BY <1>0, <2>1, StepDoes DEF Threads
    <2> QED BY <1>0, <1>6, <2>1, <2>2
  <1>7. CASE job["reader"] = Ends
    <2>1. Now("reader") = "unlock" /\ Tail(job["reader"]) = <<>>
      BY <1>7, ReaderHeads DEF Now
    <2>2. /\ job'["reader"] = Tail(job["reader"]) /\ lock' = "none"
          /\ UNCHANGED <<paOn, err, work, cache>>
      BY <1>0, <2>1, StepDoes DEF Threads
    <2> QED BY <1>0, <1>7, <2>1, <2>2
  <1>8. job["reader"] \in {ReaderWaits} \cup ReaderHolds
    BY <1>0 DEF Placed
  <1> QED BY <1>1, <1>2, <1>4, <1>5, <1>6, <1>7, <1>8 DEF ReaderHolds

\* What the bus thread's step does.
LEMMA BusStep ==
  ASSUME Step("bus"), CacheHeld, Placed
  PROVE  /\ UNCHANGED <<phase, hot, paOn, err, work, lock>> /\ DOMAIN job' = Threads
         /\ \A q \in Threads \ {"bus"} : job'[q] = job[q]
         /\ job'["bus"] \in BusJobs
         /\ cache'.pa = cache.pa /\ cache'.byp = cache.byp
  <1>0. /\ job["bus"] # <<>> /\ UNCHANGED <<phase, hot>> /\ DOMAIN job' = Threads
        /\ \A q \in Threads \ {"bus"} : job'[q] = job[q]
        /\ DOMAIN job = Threads
    BY StepDoes DEF Placed, Threads
  <1>1. BusOp(Head(job["bus"])) /\ Tail(job["bus"]) \in BusJobs
    BY <1>0, BusHeads DEF Placed
  <1>2. CASE Now("bus") = "write" /\ Head(job["bus"]).reg \in {"conf", "gain", "wo"}
    <2>1. /\ job'["bus"] = Tail(job["bus"]) /\ UNCHANGED <<lock, paOn, err, work>>
          /\ \A q \in Cached : cache'[q] = IF q = Head(job["bus"]).reg
                                         THEN Head(job["bus"]).val ELSE cache[q]
      BY <1>0, <1>2, StepDoes DEF Threads
    <2> QED BY <1>0, <1>1, <1>2, <2>1, Registers
  <1>3. CASE Now("bus") = "strap"
    <2>1. /\ job'["bus"] \in {sp11_windows_cold_init \o Do("inited"), wsa884x_generic_init \o Do("inited")}
          /\ UNCHANGED <<lock, paOn, err, work, cache>>
      BY <1>0, <1>3, StepDoes DEF Threads
    <2> QED BY <1>0, <2>1, Programs
  <1>4. CASE Now("bus") = "inited"
    <2>1. job'["bus"] = Tail(job["bus"]) /\ UNCHANGED <<lock, paOn, err, work, cache>>
      BY <1>0, <1>4, StepDoes DEF Threads
    <2> QED BY <1>0, <1>1, <2>1
  <1> QED BY <1>1, <1>2, <1>3, <1>4 DEF BusOp, Now

\* What the stream's step does.
LEMMA StreamStep ==
  ASSUME Step("stream"), CacheHeld, Placed
  PROVE  /\ UNCHANGED <<phase, hot>> /\ DOMAIN job' = Threads
         /\ \A q \in Threads \ {"stream"} : job'[q] = job[q]
         /\ \A q \in Cached \ {"pa"} : cache'[q] = cache[q]
         /\ work' = "running" <=> work = "running"
         /\ \/ /\ job["stream"] \in MuteWaits /\ job'["stream"] \in Mutes /\ phase = "stopped"
               /\ lock = "none" /\ lock' = "stream" /\ UNCHANGED <<paOn, err, cache>>
            \/ /\ job["stream"] \in Mutes /\ job'["stream"] = Ends /\ phase = "stopped"
               /\ cache'.pa = 0 /\ UNCHANGED <<lock, paOn, err>>
            \/ /\ job["stream"] \in UnmuteWaits /\ job'["stream"] \in Unmutes /\ phase = "running"
               /\ lock = "none" /\ lock' = "stream" /\ UNCHANGED paOn
            \/ /\ job["stream"] \in Unmutes /\ job'["stream"] \in Unmutes /\ phase = "running"
               /\ UNCHANGED <<lock, paOn>>
            \/ /\ job["stream"] = Ends /\ job'["stream"] = <<>> /\ phase \in {"running", "stopped"}
               /\ lock' = "none" /\ UNCHANGED <<paOn, err, cache>>
            \/ /\ job["stream"] = Powers /\ job'["stream"] = <<Op("arm")>> /\ phase = "prepared"
               /\ lock = "none" /\ UNCHANGED <<lock, err, cache>> /\ paOn' = TRUE
            \/ /\ job["stream"] = <<Op("arm")>> /\ job'["stream"] = <<>> /\ phase = "prepared"
               /\ UNCHANGED <<lock, paOn, err, cache>>
            \/ /\ job["stream"] = Unpowers /\ job'["stream"] = <<Op("cancel")>> /\ phase = "closed"
               /\ lock = "none" /\ UNCHANGED <<lock, err, cache>> /\ paOn' = FALSE
            \/ /\ job["stream"] \in {<<Op("cancel")>>, <<Op("get")>>} /\ job'["stream"] = <<>>
               /\ phase \in {"closed", "open"} /\ UNCHANGED <<lock, paOn, err, cache>>
  <1>0. /\ job["stream"] # <<>> /\ UNCHANGED <<phase, hot>> /\ DOMAIN job' = Threads
        /\ \A q \in Threads \ {"stream"} : job'[q] = job[q]
        /\ DOMAIN job = Threads /\ StreamPlaced
    BY StepDoes DEF Placed, Threads
  <1>1. CASE job["stream"] \in MuteWaits /\ phase = "stopped"
    <2>1. Now("stream") = "lock" /\ Tail(job["stream"]) \in Mutes
      BY <1>1, StreamHeads DEF Now
    <2>2. /\ job'["stream"] = Tail(job["stream"]) /\ lock = "none" /\ lock' = "stream"
          /\ UNCHANGED <<paOn, err, work, cache>>
      BY <1>0, <2>1, StepDoes DEF Threads, Keeps
    <2> QED BY <1>0, <1>1, <2>1, <2>2
  <1>2. CASE job["stream"] \in Mutes /\ phase = "stopped"
    <2>1. Head(job["stream"]) \in StopOps /\ Tail(job["stream"]) = Ends
      BY <1>2, StreamHeads
    <2>2. /\ Now("stream") \in {"write", "update"} /\ Head(job["stream"]).reg = "pa"
          /\ Head(job["stream"]).val = 0
      BY <2>1 DEF StopOps, Wr, Up, Now
    <2>3. /\ job'["stream"] = Tail(job["stream"]) /\ UNCHANGED <<lock, paOn, err, work>>
          /\ \A q \in Cached : cache'[q] = IF q = Head(job["stream"]).reg
                                         THEN Head(job["stream"]).val ELSE cache[q]
      BY <1>0, <2>2, StepDoes DEF Threads
    <2>4. cache'.pa = 0 /\ \A q \in Cached \ {"pa"} : cache'[q] = cache[q]
      BY <2>2, <2>3, Registers
    <2> QED BY <1>0, <1>2, <2>1, <2>3, <2>4
  <1>3. CASE job["stream"] \in UnmuteWaits /\ phase = "running"
    <2>1. Now("stream") = "lock" /\ Tail(job["stream"]) \in Unmutes
      BY <1>3, StreamHeads DEF Now
    <2>2. /\ job'["stream"] = Tail(job["stream"]) /\ lock = "none" /\ lock' = "stream"
          /\ UNCHANGED <<paOn, err, work, cache>>
      BY <1>0, <2>1, StepDoes DEF Threads, Keeps
    <2> QED BY <1>0, <1>3, <2>1, <2>2
  <1>4. CASE job["stream"] \in Unmutes /\ job["stream"] # Ends /\ phase = "running"
    <2>1. Continues(job["stream"], Unmutes)
      BY <1>4, StreamHeads
    <2>2. CASE Now("stream") = "look"
      <3>1. /\ wsa884x_recover_pa(Head(job["stream"]).again) \o Tail(job["stream"]) \in Unmutes
            /\ <<>> \o Tail(job["stream"]) \in Unmutes
        BY <2>1, <2>2 DEF Continues, Now
      <3>2. /\ \/ job'["stream"] = wsa884x_recover_pa(Head(job["stream"]).again) \o Tail(job["stream"])
               \/ job'["stream"] = <<>> \o Tail(job["stream"])
            /\ UNCHANGED <<lock, paOn, err, work, cache>>
        BY <1>0, <2>2, StepDoes DEF Threads
      <3> QED BY <1>0, <1>4, <3>1, <3>2
    <2>3. CASE Now("stream") \in {"write", "update"}
      <3>1. Head(job["stream"]).reg = "pa" /\ Tail(job["stream"]) \in Unmutes
        BY <2>1, <2>3 DEF Continues, Now
      <3>2. /\ job'["stream"] = Tail(job["stream"]) /\ UNCHANGED <<lock, paOn, err, work>>
            /\ \A q \in Cached : cache'[q] = IF q = Head(job["stream"]).reg
                                           THEN Head(job["stream"]).val ELSE cache[q]
        BY <1>0, <2>3, StepDoes DEF Threads
      <3> QED BY <1>0, <1>4, <3>1, <3>2
    <2>4. CASE Now("stream") \in {"reset", "failed"}
      <3>1. Tail(job["stream"]) \in Unmutes
        BY <2>1, <2>4 DEF Continues, Now
      <3>2. /\ job'["stream"] = Tail(job["stream"]) /\ UNCHANGED <<lock, paOn, work, cache>>
        BY <1>0, <2>4, StepDoes DEF Threads
      <3> QED BY <1>0, <1>4, <3>1, <3>2
    <2>5. CASE Now("stream") = "try"
      <3>1. /\ Retry(Head(job["stream"]).n) \o Tail(job["stream"]) \in Unmutes
            /\ <<>> \o Tail(job["stream"]) \in Unmutes
        BY <2>1, <2>5 DEF Continues, Now
      <3>2. /\ \/ job'["stream"] = Retry(Head(job["stream"]).n) \o Tail(job["stream"])
               \/ job'["stream"] = <<>> \o Tail(job["stream"])
            /\ UNCHANGED <<lock, paOn, err, work, cache>>
        BY <1>0, <2>5, StepDoes DEF Threads
      <3> QED BY <1>0, <1>4, <3>1, <3>2
    <2>6. Now("stream") \in {"look", "write", "update", "reset", "failed", "try"}
      BY <2>1 DEF Continues, Now
    <2> QED BY <2>2, <2>3, <2>4, <2>5, <2>6
  <1>5. CASE job["stream"] = Ends /\ phase \in {"running", "stopped"}
    <2>1. Now("stream") = "unlock" /\ Tail(job["stream"]) = <<>>
      BY <1>5, StreamHeads DEF Now
    <2>2. /\ job'["stream"] = Tail(job["stream"]) /\ lock' = "none"
          /\ UNCHANGED <<paOn, err, work, cache>>
      BY <1>0, <2>1, StepDoes DEF Threads
    <2> QED BY <1>0, <1>5, <2>1, <2>2
  <1>6. CASE job["stream"] = Powers /\ phase = "prepared"
    <2>1. Now("stream") = "power" /\ Tail(job["stream"]) = <<Op("arm")>>
      BY <1>6, StreamHeads DEF Now
    <2>2. /\ job'["stream"] = Tail(job["stream"]) /\ lock = "none" /\ paOn' = TRUE
          /\ UNCHANGED <<lock, err, work, cache>>
      BY <1>0, <2>1, StepDoes DEF Threads
    <2> QED BY <1>0, <1>6, <2>1, <2>2
  <1>7. CASE job["stream"] = <<Op("arm")>> /\ phase = "prepared"
    <2>1. Now("stream") = "arm" /\ Tail(job["stream"]) = <<>>
      BY <1>7, StreamHeads DEF Now
    <2>2. /\ job'["stream"] = Tail(job["stream"]) /\ UNCHANGED <<lock, paOn, err, cache>>
          /\ work' = IF work = "idle" THEN "pending" ELSE work
      BY <1>0, <2>1, StepDoes DEF Threads
    <2> QED BY <1>0, <1>7, <2>1, <2>2
  <1>8. CASE job["stream"] = Unpowers /\ phase = "closed"
    <2>1. Now("stream") = "unpower" /\ Tail(job["stream"]) = <<Op("cancel")>>
      BY <1>8, StreamHeads DEF Now
    <2>2. /\ job'["stream"] = Tail(job["stream"]) /\ lock = "none" /\ paOn' = FALSE
          /\ UNCHANGED <<lock, err, work, cache>>
      BY <1>0, <2>1, StepDoes DEF Threads
    <2> QED BY <1>0, <1>8, <2>1, <2>2
  <1>9. CASE job["stream"] = <<Op("cancel")>> /\ phase = "closed"
    <2>1. Now("stream") = "cancel" /\ Tail(job["stream"]) = <<>>
      BY <1>9, StreamHeads DEF Now
    <2>2. /\ job'["stream"] = Tail(job["stream"]) /\ UNCHANGED <<lock, paOn, err, cache>>
          /\ work # "running" /\ work' = "idle"
      BY <1>0, <2>1, StepDoes DEF Threads
    <2> QED BY <1>0, <1>9, <2>1, <2>2
  <1>10. CASE job["stream"] = <<Op("get")>> /\ phase = "open"
    <2>1. Now("stream") = "get" /\ Tail(job["stream"]) = <<>>
      BY <1>10, StreamHeads DEF Now
    <2>2. job'["stream"] = Tail(job["stream"]) /\ UNCHANGED <<lock, paOn, err, work, cache>>
      BY <1>0, <2>1, StepDoes DEF Threads
    <2> QED BY <1>0, <1>10, <2>1, <2>2
  <1> QED
    BY <1>0, <1>1, <1>2, <1>3, <1>4, <1>5, <1>6, <1>7, <1>8, <1>9, <1>10 DEF StreamPlaced

\* The stream's places, told apart by what comes next.
LEMMA StreamApart ==
  /\ \A s \in StreamHolds : /\ s # <<>>
                           /\ Head(s).op \in {"unlock", "look", "write", "update", "reset", "try", "failed"}
  /\ <<>> \notin StreamHolds /\ Powers \notin StreamHolds /\ <<Op("arm")>> \notin StreamHolds
  /\ Unpowers \notin StreamHolds /\ <<Op("cancel")>> \notin StreamHolds /\ <<Op("get")>> \notin StreamHolds
  /\ Ends \in StreamHolds /\ Mutes \subseteq StreamHolds /\ Unmutes \subseteq StreamHolds
  /\ \A s \in MuteWaits \cup UnmuteWaits : s # <<>> /\ Head(s).op = "lock" /\ s \notin StreamHolds
  /\ Powers # Unpowers /\ Powers # <<Op("arm")>> /\ Powers # <<>>
  /\ Unpowers # <<Op("cancel")>> /\ Unpowers # <<>>
  /\ \A s \in StreamHolds \cup MuteWaits \cup UnmuteWaits : s # Powers /\ s # Unpowers
  /\ \A s \in {<<>>, Powers, <<Op("arm")>>, Unpowers, <<Op("cancel")>>, <<Op("get")>>} :
        s \notin MuteWaits \cup Mutes
  /\ Ends \notin MuteWaits \cup Mutes
  <1>1. ASSUME NEW s \in Mutes
        PROVE  s # <<>> /\ Head(s).op \in {"write", "update"}
    BY StreamHeads DEF StopOps, Wr, Up
  <1>2. ASSUME NEW s \in Unmutes
        PROVE  s # <<>> /\ Head(s).op \in {"unlock", "look", "write", "update", "reset", "try", "failed"}
    <2>1. s = Ends \/ Continues(s, Unmutes)
      BY StreamHeads
    <2>2. Ends # <<>> /\ Head(Ends).op = "unlock"
      BY StreamHeads
    <2> QED BY <2>1, <2>2 DEF Continues
  <1>3. \A s \in StreamHolds : /\ s # <<>>
                             /\ Head(s).op \in {"unlock", "look", "write", "update", "reset", "try", "failed"}
    BY <1>1, <1>2 DEF StreamHolds
  <1>4. /\ Head(Powers).op = "power" /\ Head(<<Op("arm")>>).op = "arm" /\ Head(Unpowers).op = "unpower"
        /\ Head(<<Op("cancel")>>).op = "cancel" /\ Head(<<Op("get")>>).op = "get"
        /\ Powers # <<>> /\ Unpowers # <<>> /\ Ends \in Unmutes /\ Head(Ends).op = "unlock"
    BY StreamHeads
  <1>5. \A s \in MuteWaits \cup UnmuteWaits : s # <<>> /\ Head(s).op = "lock"
    BY StreamHeads
  <1>6. Mutes \subseteq StreamHolds /\ Unmutes \subseteq StreamHolds /\ Ends \in StreamHolds
    BY <1>4 DEF StreamHolds
  <1>7. /\ <<>> \notin StreamHolds /\ Powers \notin StreamHolds /\ <<Op("arm")>> \notin StreamHolds
        /\ Unpowers \notin StreamHolds /\ <<Op("cancel")>> \notin StreamHolds /\ <<Op("get")>> \notin StreamHolds
    BY <1>3, <1>4
  <1>8. \A s \in MuteWaits \cup UnmuteWaits : s \notin StreamHolds
    BY <1>3, <1>5
  <1>9. /\ Powers # Unpowers /\ Powers # <<Op("arm")>> /\ Powers # <<>>
        /\ Unpowers # <<Op("cancel")>> /\ Unpowers # <<>>
    BY <1>4
  <1>10. \A s \in StreamHolds \cup MuteWaits \cup UnmuteWaits : s # Powers /\ s # Unpowers
    BY <1>3, <1>4, <1>5
  <1>11. \A s \in MuteWaits \cup Mutes : s # <<>> /\ Head(s).op \in {"lock", "write", "update"}
    BY <1>1, <1>5
  <1>12. \A s \in {<<>>, Powers, <<Op("arm")>>, Unpowers, <<Op("cancel")>>, <<Op("get")>>} :
            s \notin MuteWaits \cup Mutes
    BY <1>4, <1>11
  <1>13. Ends \notin MuteWaits \cup Mutes
    BY <1>4, <1>11
  <1> QED BY <1>3, <1>5, <1>6, <1>7, <1>8, <1>9, <1>10, <1>12, <1>13

\* The reader's places, told apart by what comes next.
LEMMA ReaderApart ==
  /\ \A s \in ReaderHolds : s # <<>> /\ Head(s).op \in {"get", "update", "put", "unlock"}
  /\ <<>> \notin ReaderHolds /\ ReaderWaits \notin ReaderHolds
  /\ ReaderGets # Restores /\ ReaderGets # Ends /\ Bypasses # Ends /\ Restores # Ends /\ ReaderPuts # Ends
  /\ Restores # <<>> /\ Restores # ReaderWaits /\ Restores # ReaderPuts /\ Restores # Bypasses
  <1>1. /\ Head(ReaderWaits).op = "lockIfOff" /\ ReaderGets # <<>> /\ Head(ReaderGets).op = "get"
        /\ Bypasses # <<>> /\ Head(Bypasses) = Up("byp", 1) /\ Restores # <<>> /\ Head(Restores) = Up("byp", 0)
        /\ ReaderPuts # <<>> /\ Head(ReaderPuts).op = "put" /\ Ends # <<>> /\ Head(Ends).op = "unlock"
    BY ReaderHeads
  <1>2. /\ Head(Bypasses).op = "update" /\ Head(Restores).op = "update"
        /\ Head(Bypasses).val = 1 /\ Head(Restores).val = 0
    BY <1>1 DEF Up
  <1>3. \A s \in ReaderHolds : s # <<>> /\ Head(s).op \in {"get", "update", "put", "unlock"}
    BY <1>1, <1>2 DEF ReaderHolds
  <1> QED BY <1>1, <1>2, <1>3

-----------------------------------------------------------------------------
\* Everybody stays in place, the lock where it belongs, and the PA quiet.

WsaInv == CacheHeld /\ Placed /\ Locked /\ Quiet

LEMMA WorkerKept ==
  ASSUME WsaInv, Step("worker")
  PROVE  Placed' /\ Locked' /\ Quiet'
  <1>0. CacheHeld /\ Placed /\ Locked /\ Quiet
    BY DEF WsaInv
  <1>1. /\ UNCHANGED <<phase, hot, paOn>> /\ DOMAIN job' = Threads
        /\ job'["stream"] = job["stream"] /\ job'["reader"] = job["reader"] /\ job'["bus"] = job["bus"]
    BY <1>0, WorkerStep DEF Threads
  <1>2. ASSUME /\ job'["worker"] \in {<<>>, WorkerGets, WorkerWaits} \cup WorkerHolds \cup WorkerLeaves
               /\ work' = "running" <=> job'["worker"] # <<>>
        PROVE  Placed'
    BY <1>0, <1>1, <1>2 DEF Placed, StreamPlaced, WorkerPlaced
  <1>3. ASSUME \/ lock' = lock /\ (job'["worker"] \in WorkerHolds <=> job["worker"] \in WorkerHolds)
               \/ lock = "none" /\ lock' = "worker" /\ job'["worker"] \in WorkerHolds
               \/ lock = "worker" /\ lock' = "none" /\ job'["worker"] \notin WorkerHolds
        PROVE  Locked'
    BY <1>0, <1>1, <1>3 DEF Locked
  <1>4. ASSUME ~err => ~err', cache'.byp = cache.byp,
               Recovering \/ (cache'.pa = cache.pa /\ (err \/ ~Recovering'))
        PROVE  Quiet'
    <2>1. Muting' = Muting
      BY <1>1 DEF Muting
    <2> HIDE DEF Muting, Recovering
    <2> QED BY <1>0, <1>1, <1>4, <2>1 DEF Quiet
  <1>5. /\ WorkerGets # <<>> /\ WorkerWaits # <<>> /\ <<Op("put"), Op("rearm")>> # <<>>
        /\ <<Op("rearm")>> # <<>> /\ WorkerEnd \in WorkerHolds /\ WorkerEnd # <<>>
        /\ WorkerLooks \in WorkerHolds
    BY WorkerHeads DEF WorkerHolds
  <1>6. /\ \A s \in WorkerHolds : s # <<>>
        /\ <<>> \notin WorkerHolds /\ WorkerGets \notin WorkerHolds /\ WorkerWaits \notin WorkerHolds
        /\ <<Op("put"), Op("rearm")>> \notin WorkerHolds /\ <<Op("rearm")>> \notin WorkerHolds
    BY WorkerApart
  <1>7. ASSUME job'["worker"] \in {WorkerWaits, WorkerLooks, WorkerEnd} \cup WorkerLeaves
                                  \cup {<<>>}
        PROVE  ~Recovering'
    <2>1. /\ Head(WorkerWaits).op = "lockIfOn" /\ Head(WorkerLooks).op = "look"
          /\ Head(WorkerEnd).op = "unlock" /\ Head(<<Op("put"), Op("rearm")>>).op = "put"
          /\ Head(<<Op("rearm")>>).op = "rearm"
      BY WorkerHeads
    <2> QED BY <1>7, <2>1 DEF Recovering, WorkerLeaves
  <1>8. work = "running"
    BY <1>0, StepDoes DEF Placed, WorkerPlaced, Threads
  <1>9. "byp" \in Cached \ {"pa"}
    BY Registers
  <1>10. <<Op("put"), Op("rearm")>> \in WorkerLeaves /\ <<Op("rearm")>> \in WorkerLeaves
    BY DEF WorkerLeaves
  <1>11. (lock = "worker") <=> job["worker"] \in WorkerHolds
    BY <1>0 DEF Locked
  <1>12. CASE /\ job["worker"] = WorkerGets
              /\ job'["worker"] \in {WorkerWaits, <<Op("rearm")>>}
              /\ UNCHANGED <<lock, err, cache, work>>
    <2>1. Placed'
      BY <1>2, <1>5, <1>8, <1>10, <1>12
    <2>2. Locked'
      BY <1>3, <1>6, <1>12
    <2>3. Quiet'
      BY <1>4, <1>7, <1>10, <1>12
    <2> QED BY <2>1, <2>2, <2>3
  <1>13. CASE /\ job["worker"] = WorkerWaits /\ lock = "none" /\ lock' = "worker"
              /\ job'["worker"] \in {WorkerLooks, WorkerEnd}
              /\ UNCHANGED <<err, cache, work>>
    <2>1. Placed'
      BY <1>2, <1>5, <1>6, <1>8, <1>13
    <2>2. Locked'
      BY <1>3, <1>5, <1>13
    <2>3. Quiet'
      BY <1>4, <1>7, <1>13
    <2> QED BY <2>1, <2>2, <2>3
  <1>14. CASE /\ job["worker"] \in WorkerHolds /\ job'["worker"] \in WorkerHolds
              /\ UNCHANGED <<lock, work>> /\ (~err => ~err')
              /\ Recovering \/ (cache' = cache /\ (err \/ job'["worker"] = WorkerEnd))
              /\ \A q \in Cached \ {"pa"} : cache'[q] = cache[q]
    <2>1. Placed'
      BY <1>2, <1>6, <1>8, <1>14
    <2>2. Locked'
      BY <1>3, <1>14
    <2>3. Quiet'
      BY <1>4, <1>7, <1>9, <1>14
    <2> QED BY <2>1, <2>2, <2>3
  <1>15. CASE /\ job["worker"] = WorkerEnd /\ job'["worker"] = <<Op("put"), Op("rearm")>>
              /\ lock' = "none" /\ UNCHANGED <<err, cache, work>>
    <2>1. Placed'
      BY <1>2, <1>5, <1>8, <1>10, <1>15
    <2>2. Locked'
      BY <1>3, <1>5, <1>6, <1>11, <1>15
    <2>3. Quiet'
      BY <1>4, <1>7, <1>10, <1>15
    <2> QED BY <2>1, <2>2, <2>3
  <1>16. CASE /\ job["worker"] = <<Op("put"), Op("rearm")>> /\ job'["worker"] = <<Op("rearm")>>
              /\ UNCHANGED <<lock, err, cache, work>>
    <2>1. Placed'
      BY <1>2, <1>5, <1>8, <1>10, <1>16
    <2>2. Locked'
      BY <1>3, <1>6, <1>16
    <2>3. Quiet'
      BY <1>4, <1>7, <1>10, <1>16
    <2> QED BY <2>1, <2>2, <2>3
  <1>17. CASE /\ job["worker"] = <<Op("rearm")>> /\ job'["worker"] = <<>>
              /\ work' # "running" /\ UNCHANGED <<lock, err, cache>>
    <2>1. Placed'
      BY <1>2, <1>17
    <2>2. Locked'
      BY <1>3, <1>6, <1>17
    <2>3. Quiet'
      BY <1>4, <1>7, <1>17
    <2> QED BY <2>1, <2>2, <2>3
  <1> QED BY <1>0, <1>12, <1>13, <1>14, <1>15, <1>16, <1>17, WorkerStep

LEMMA ReaderKept ==
  ASSUME WsaInv, Step("reader")
  PROVE  Placed' /\ Locked' /\ Quiet'
  <1>0. CacheHeld /\ Placed /\ Locked /\ Quiet
    BY DEF WsaInv
  <1>1. /\ UNCHANGED <<phase, hot, paOn, err, work>> /\ DOMAIN job' = Threads
        /\ job'["stream"] = job["stream"] /\ job'["worker"] = job["worker"] /\ job'["bus"] = job["bus"]
    BY <1>0, ReaderStep DEF Threads
  <1>2. ASSUME job'["reader"] \in {<<>>} \cup ReaderHolds
        PROVE  Placed'
    BY <1>0, <1>1, <1>2 DEF Placed, StreamPlaced, WorkerPlaced
  <1>3. ASSUME \/ /\ lock' = lock /\ job["reader"] \in ReaderHolds /\ job["reader"] # Ends
                  /\ job'["reader"] \in ReaderHolds
               \/ /\ lock = "none" /\ lock' = "reader" /\ job'["reader"] \in ReaderHolds
                  /\ (job'["reader"] # Ends => ~paOn)
               \/ lock = "reader" /\ lock' = "none" /\ job'["reader"] \notin ReaderHolds
        PROVE  Locked'
    BY <1>0, <1>1, <1>3 DEF Locked
  <1>4. ASSUME cache'.pa = cache.pa, cache'.byp = 1 => job'["reader"] = Restores
        PROVE  Quiet'
    <2>1. Muting' = Muting /\ Recovering' = Recovering
      BY <1>1 DEF Muting, Recovering
    <2> HIDE DEF Muting, Recovering
    <2> QED BY <1>0, <1>1, <1>4, <2>1 DEF Quiet
  <1>5. /\ \A s \in ReaderHolds : s # <<>>
        /\ <<>> \notin ReaderHolds /\ ReaderWaits \notin ReaderHolds
        /\ ReaderGets # Restores /\ ReaderGets # Ends /\ Bypasses # Ends /\ Restores # Ends
        /\ ReaderPuts # Ends /\ Restores # <<>> /\ Restores # ReaderWaits /\ Restores # ReaderPuts
    BY ReaderApart
  <1>6. /\ ReaderGets \in ReaderHolds /\ Bypasses \in ReaderHolds /\ Restores \in ReaderHolds
        /\ ReaderPuts \in ReaderHolds /\ Ends \in ReaderHolds
    BY DEF ReaderHolds
  <1>7. (lock = "reader" <=> job["reader"] \in ReaderHolds) /\ (cache.byp = 1 => job["reader"] = Restores)
    BY <1>0 DEF Locked, Quiet
  <1>8. CASE /\ job["reader"] = ReaderWaits /\ lock = "none" /\ lock' = "reader"
             /\ job'["reader"] = IF paOn THEN Ends ELSE ReaderGets
             /\ cache' = cache
    <2>1. Placed'
      BY <1>2, <1>6, <1>8
    <2>2. Locked'
      BY <1>3, <1>6, <1>8
    <2>3. Quiet'
      BY <1>4, <1>5, <1>7, <1>8
    <2> QED BY <2>1, <2>2, <2>3
  <1>9. CASE /\ job["reader"] = ReaderGets /\ job'["reader"] \in {Bypasses, Ends}
             /\ UNCHANGED <<lock, cache>>
    <2>1. Placed'
      BY <1>2, <1>6, <1>9
    <2>2. Locked'
      BY <1>3, <1>5, <1>6, <1>9
    <2>3. Quiet'
      BY <1>4, <1>5, <1>7, <1>9
    <2> QED BY <2>1, <2>2, <2>3
  <1>10. CASE /\ job["reader"] = Bypasses /\ job'["reader"] = Restores /\ lock' = lock
              /\ cache'.pa = cache.pa
    <2>1. Placed'
      BY <1>2, <1>6, <1>10
    <2>2. Locked'
      BY <1>3, <1>5, <1>6, <1>10
    <2>3. Quiet'
      BY <1>4, <1>10
    <2> QED BY <2>1, <2>2, <2>3
  <1>11. CASE /\ job["reader"] = Restores /\ job'["reader"] = ReaderPuts /\ lock' = lock
              /\ cache'.pa = cache.pa /\ cache'.byp = 0
    <2>1. Placed'
      BY <1>2, <1>6, <1>11
    <2>2. Locked'
      BY <1>3, <1>5, <1>6, <1>11
    <2>3. Quiet'
      BY <1>4, <1>11
    <2> QED BY <2>1, <2>2, <2>3
  <1>12. CASE /\ job["reader"] = ReaderPuts /\ job'["reader"] = Ends
              /\ UNCHANGED <<lock, cache>>
    <2>1. Placed'
      BY <1>2, <1>6, <1>12
    <2>2. Locked'
      BY <1>3, <1>5, <1>6, <1>12
    <2>3. Quiet'
      BY <1>4, <1>5, <1>7, <1>12
    <2> QED BY <2>1, <2>2, <2>3
  <1>13. CASE /\ job["reader"] = Ends /\ job'["reader"] = <<>> /\ lock' = "none"
              /\ cache' = cache
    <2>1. Placed'
      BY <1>2, <1>13
    <2>2. Locked'
      BY <1>3, <1>5, <1>6, <1>7, <1>13
    <2>3. Quiet'
      BY <1>4, <1>5, <1>7, <1>13
    <2> QED BY <2>1, <2>2, <2>3
  <1> QED BY <1>0, <1>8, <1>9, <1>10, <1>11, <1>12, <1>13, ReaderStep

LEMMA BusKept ==
  ASSUME WsaInv, Step("bus")
  PROVE  Placed' /\ Locked' /\ Quiet'
  <1>0. CacheHeld /\ Placed /\ Locked /\ Quiet
    BY DEF WsaInv
  <1>1. /\ UNCHANGED <<phase, hot, paOn, err, work, lock>> /\ DOMAIN job' = Threads
        /\ job'["stream"] = job["stream"] /\ job'["worker"] = job["worker"]
        /\ job'["reader"] = job["reader"] /\ job'["bus"] \in BusJobs
        /\ cache'.pa = cache.pa /\ cache'.byp = cache.byp
    BY <1>0, BusStep DEF Threads
  <1>2. Placed'
    BY <1>0, <1>1 DEF Placed, StreamPlaced, WorkerPlaced
  <1>3. Locked'
    BY <1>0, <1>1 DEF Locked
  <1>4. Muting' = Muting /\ Recovering' = Recovering
    BY <1>1 DEF Muting, Recovering
  <1> HIDE DEF Muting, Recovering
  <1>5. Quiet'
    BY <1>0, <1>1, <1>4 DEF Quiet
  <1> QED BY <1>2, <1>3, <1>5

LEMMA StreamKept ==
  ASSUME WsaInv, Step("stream")
  PROVE  Placed' /\ Locked' /\ Quiet'
  <1>0. CacheHeld /\ Placed /\ Locked /\ Quiet
    BY DEF WsaInv
  <1>1. /\ UNCHANGED <<phase, hot>> /\ DOMAIN job' = Threads
        /\ job'["worker"] = job["worker"] /\ job'["reader"] = job["reader"] /\ job'["bus"] = job["bus"]
        /\ work' = "running" <=> work = "running"
        /\ \A q \in Cached \ {"pa"} : cache'[q] = cache[q]
    BY <1>0, StreamStep DEF Threads
  <1>2. cache'.byp = cache.byp
    BY <1>1, Registers
  <1>3. ASSUME StreamPlaced'
        PROVE  Placed'
    BY <1>0, <1>1, <1>3 DEF Placed, WorkerPlaced
  <1>4. ASSUME paOn' = paOn, job["stream"] \notin {Powers, Unpowers}, job'["stream"] \notin {Powers, Unpowers},
               \/ lock' = lock /\ (job'["stream"] \in StreamHolds <=> job["stream"] \in StreamHolds)
               \/ lock = "none" /\ lock' = "stream" /\ job'["stream"] \in StreamHolds
               \/ lock = "stream" /\ lock' = "none" /\ job'["stream"] \notin StreamHolds
        PROVE  Locked'
    BY <1>0, <1>1, <1>4 DEF Locked
  <1>5. ASSUME \/ phase = "running"
               \/ err' = err /\ cache'.pa = cache.pa /\ (Muting => Muting')
               \/ err' = err /\ cache'.pa = 0 /\ ~Recovering
        PROVE  Quiet'
    <2>1. Recovering' = Recovering
      BY <1>1 DEF Recovering
    <2> HIDE DEF Muting, Recovering
    <2> QED BY <1>0, <1>1, <1>2, <1>5, <2>1 DEF Quiet
  <1>6. (lock = "stream") <=> job["stream"] \in StreamHolds
    BY <1>0 DEF Locked
  <1>7. CASE /\ job["stream"] \in MuteWaits /\ job'["stream"] \in Mutes /\ phase = "stopped"
             /\ lock = "none" /\ lock' = "stream" /\ UNCHANGED <<paOn, err, cache>>
    <2>1. Placed'
      BY <1>1, <1>3, <1>7 DEF StreamPlaced
    <2>2. Locked'
      BY <1>4, <1>7, StreamApart
    <2>3. Quiet'
      BY <1>5, <1>7 DEF Muting
    <2> QED BY <2>1, <2>2, <2>3
  <1>8. CASE /\ job["stream"] \in Mutes /\ job'["stream"] = Ends /\ phase = "stopped"
             /\ cache'.pa = 0 /\ UNCHANGED <<lock, paOn, err>>
    <2>1. Placed'
      BY <1>1, <1>3, <1>8 DEF StreamPlaced
    <2>2. job["stream"] \in StreamHolds /\ job'["stream"] \in StreamHolds
      BY <1>8, StreamApart
    <2>3. Locked'
      BY <1>4, <1>8, <2>2, StreamApart
    <2>4. ~Recovering
      <3>1. job["worker"] \notin WorkerHolds
        BY <1>0, <1>6, <2>2 DEF Locked
      <3>2. job["worker"] \in {<<>>, WorkerGets, WorkerWaits} \cup WorkerLeaves
        BY <1>0, <3>1 DEF Placed, WorkerPlaced
      <3>3. /\ Head(WorkerGets).op = "get" /\ Head(WorkerWaits).op = "lockIfOn"
            /\ Head(<<Op("put"), Op("rearm")>>).op = "put" /\ Head(<<Op("rearm")>>).op = "rearm"
        BY WorkerHeads
      <3> QED BY <3>2, <3>3 DEF Recovering, WorkerLeaves
    <2>5. Quiet'
      BY <1>5, <1>8, <2>4
    <2> QED BY <2>1, <2>3, <2>5
  <1>9. CASE /\ job["stream"] \in UnmuteWaits /\ job'["stream"] \in Unmutes /\ phase = "running"
             /\ lock = "none" /\ lock' = "stream" /\ UNCHANGED paOn
    <2>1. Placed'
      BY <1>1, <1>3, <1>9 DEF StreamPlaced
    <2>2. job'["stream"] \in StreamHolds
      BY <1>9, StreamApart
    <2>3. Locked'
      BY <1>4, <1>9, <2>2, StreamApart
    <2>4. Quiet'
      BY <1>5, <1>9
    <2> QED BY <2>1, <2>3, <2>4
  <1>10. CASE /\ job["stream"] \in Unmutes /\ job'["stream"] \in Unmutes /\ phase = "running"
              /\ UNCHANGED <<lock, paOn>>
    <2>1. Placed'
      BY <1>1, <1>3, <1>10 DEF StreamPlaced
    <2>2. job["stream"] \in StreamHolds /\ job'["stream"] \in StreamHolds
      BY <1>10, StreamApart
    <2>3. Locked'
      BY <1>4, <1>10, <2>2, StreamApart
    <2>4. Quiet'
      BY <1>5, <1>10
    <2> QED BY <2>1, <2>3, <2>4
  <1>11. CASE /\ job["stream"] = Ends /\ job'["stream"] = <<>> /\ phase \in {"running", "stopped"}
              /\ lock' = "none" /\ UNCHANGED <<paOn, err, cache>>
    <2>1. Placed'
      BY <1>1, <1>3, <1>11 DEF StreamPlaced
    <2>2. /\ Ends \in StreamHolds /\ <<>> \notin StreamHolds /\ Ends \notin {Powers, Unpowers}
          /\ <<>> \notin {Powers, Unpowers} /\ Ends \notin MuteWaits \cup Mutes
      BY StreamApart
    <2>3. Locked'
      BY <1>4, <1>6, <1>11, <2>2
    <2>4. Quiet'
      BY <1>5, <1>11, <2>2 DEF Muting
    <2> QED BY <2>1, <2>3, <2>4
  <1>12. CASE /\ job["stream"] = Powers /\ job'["stream"] = <<Op("arm")>> /\ phase = "prepared"
              /\ lock = "none" /\ UNCHANGED <<lock, err, cache>> /\ paOn' = TRUE
    <2>1. Placed'
      BY <1>1, <1>3, <1>12 DEF StreamPlaced
    <2>2. /\ <<Op("arm")>> \notin StreamHolds /\ <<Op("arm")>> # Powers
          /\ Powers \notin MuteWaits \cup Mutes
      BY StreamApart
    <2>3. Locked'
      BY <1>0, <1>1, <1>12, <2>2 DEF Locked
    <2>4. Quiet'
      BY <1>5, <1>12, <2>2 DEF Muting
    <2> QED BY <2>1, <2>3, <2>4
  <1>13. CASE /\ job["stream"] = <<Op("arm")>> /\ job'["stream"] = <<>> /\ phase = "prepared"
              /\ UNCHANGED <<lock, paOn, err, cache>>
    <2>1. Placed'
      BY <1>1, <1>3, <1>13 DEF StreamPlaced
    <2>2. /\ <<Op("arm")>> \notin StreamHolds /\ <<>> \notin StreamHolds /\ <<Op("arm")>> # Powers
          /\ <<>> # Powers /\ <<>> # Unpowers /\ <<Op("arm")>> \notin MuteWaits \cup Mutes
      BY StreamApart
    <2>3. <<Op("arm")>> # Unpowers
      <3>1. Head(<<Op("arm")>>).op = "arm" /\ Head(Unpowers).op = "unpower"
        BY StreamHeads
      <3> QED BY <3>1
    <2>4. Locked'
      BY <1>4, <1>13, <2>2, <2>3
    <2>5. Quiet'
      BY <1>5, <1>13, <2>2 DEF Muting
    <2> QED BY <2>1, <2>4, <2>5
  <1>14. CASE /\ job["stream"] = Unpowers /\ job'["stream"] = <<Op("cancel")>> /\ phase = "closed"
              /\ lock = "none" /\ UNCHANGED <<lock, err, cache>> /\ paOn' = FALSE
    <2>1. Placed'
      BY <1>1, <1>3, <1>14 DEF StreamPlaced
    <2>2. /\ <<Op("cancel")>> \notin StreamHolds /\ Unpowers # <<Op("cancel")>>
          /\ Unpowers \notin MuteWaits \cup Mutes
      BY StreamApart
    <2>3. Locked'
      BY <1>0, <1>1, <1>14, <2>2 DEF Locked
    <2>4. Quiet'
      BY <1>5, <1>14, <2>2 DEF Muting
    <2> QED BY <2>1, <2>3, <2>4
  <1>15. CASE /\ job["stream"] \in {<<Op("cancel")>>, <<Op("get")>>} /\ job'["stream"] = <<>>
              /\ phase \in {"closed", "open"} /\ UNCHANGED <<lock, paOn, err, cache>>
    <2>1. Placed'
      BY <1>1, <1>3, <1>15 DEF StreamPlaced
    <2>2. /\ <<Op("cancel")>> \notin StreamHolds /\ <<Op("get")>> \notin StreamHolds
          /\ <<>> \notin StreamHolds /\ <<>> # Powers /\ <<>> # Unpowers
          /\ <<Op("cancel")>> \notin MuteWaits \cup Mutes /\ <<Op("get")>> \notin MuteWaits \cup Mutes
      BY StreamApart
    <2>3. job["stream"] \notin {Powers, Unpowers}
      <3>1. /\ Head(<<Op("cancel")>>).op = "cancel" /\ Head(Unpowers).op = "unpower"
            /\ Head(<<Op("get")>>).op = "get" /\ Head(Powers).op = "power"
        BY StreamHeads
      <3> QED BY <1>15, <3>1
    <2>4. Locked'
      BY <1>4, <1>15, <2>2, <2>3
    <2>5. Quiet'
      BY <1>5, <1>15, <2>2 DEF Muting
    <2> QED BY <2>1, <2>4, <2>5
  <1>16. \/ /\ job["stream"] \in MuteWaits /\ job'["stream"] \in Mutes /\ phase = "stopped"
            /\ lock = "none" /\ lock' = "stream" /\ UNCHANGED <<paOn, err, cache>>
         \/ /\ job["stream"] \in Mutes /\ job'["stream"] = Ends /\ phase = "stopped"
            /\ cache'.pa = 0 /\ UNCHANGED <<lock, paOn, err>>
         \/ /\ job["stream"] \in UnmuteWaits /\ job'["stream"] \in Unmutes /\ phase = "running"
            /\ lock = "none" /\ lock' = "stream" /\ UNCHANGED paOn
         \/ /\ job["stream"] \in Unmutes /\ job'["stream"] \in Unmutes /\ phase = "running"
            /\ UNCHANGED <<lock, paOn>>
         \/ /\ job["stream"] = Ends /\ job'["stream"] = <<>> /\ phase \in {"running", "stopped"}
            /\ lock' = "none" /\ UNCHANGED <<paOn, err, cache>>
         \/ /\ job["stream"] = Powers /\ job'["stream"] = <<Op("arm")>> /\ phase = "prepared"
            /\ lock = "none" /\ UNCHANGED <<lock, err, cache>> /\ paOn' = TRUE
         \/ /\ job["stream"] = <<Op("arm")>> /\ job'["stream"] = <<>> /\ phase = "prepared"
            /\ UNCHANGED <<lock, paOn, err, cache>>
         \/ /\ job["stream"] = Unpowers /\ job'["stream"] = <<Op("cancel")>> /\ phase = "closed"
            /\ lock = "none" /\ UNCHANGED <<lock, err, cache>> /\ paOn' = FALSE
         \/ /\ job["stream"] \in {<<Op("cancel")>>, <<Op("get")>>} /\ job'["stream"] = <<>>
            /\ phase \in {"closed", "open"} /\ UNCHANGED <<lock, paOn, err, cache>>
    BY <1>0, StreamStep
  <1>17. CASE phase = "stopped" \/ phase = "running"
    BY <1>7, <1>8, <1>9, <1>10, <1>11, <1>16, <1>17
  <1>18. CASE phase = "prepared"
    BY <1>12, <1>13, <1>16, <1>18
  <1>19. CASE phase = "closed" \/ phase = "open"
    BY <1>14, <1>15, <1>16, <1>19
  <1> QED BY <1>16, <1>17, <1>18, <1>19

\* The calls of the stream.
LEMMA CallKept ==
  ASSUME WsaInv, Open \/ Prepare \/ Start \/ Stop \/ Close
  PROVE  Placed' /\ Locked' /\ Quiet'
  <1>0. CacheHeld /\ Placed /\ Locked /\ Quiet
    BY DEF WsaInv
  <1>1. ASSUME NEW from, NEW to, NEW program, Call(from, to, program)
        PROVE  /\ job["stream"] = <<>> /\ phase \in from /\ phase' = to
               /\ job'["stream"] = program /\ DOMAIN job' = Threads
               /\ job'["worker"] = job["worker"] /\ job'["reader"] = job["reader"]
               /\ job'["bus"] = job["bus"] /\ UNCHANGED <<paOn, err, work, lock, cache>>
    BY <1>0, <1>1 DEF Call, Jump, NoRegs, NoPower, regmapVars, Placed, Threads
  <1>2. /\ job["stream"] = <<>> /\ DOMAIN job' = Threads
        /\ job'["worker"] = job["worker"] /\ job'["reader"] = job["reader"]
        /\ job'["bus"] = job["bus"] /\ UNCHANGED <<paOn, err, work, lock, cache>>
    BY <1>1 DEF Open, Prepare, Start, Stop, Close
  <1>3. \/ /\ phase = "closed" /\ phase' = "open" /\ job'["stream"] = <<Op("get")>> /\ hot' = hot
        \/ /\ phase = "open" /\ phase' = "prepared" /\ job'["stream"] = Powers /\ hot' = hot
        \/ /\ phase \in {"prepared", "stopped"} /\ phase' = "running" /\ job'["stream"] \in UnmuteWaits
        \/ /\ phase = "running" /\ phase' = "stopped" /\ job'["stream"] \in MuteWaits /\ hot' = err
        \/ /\ phase \in {"prepared", "stopped"} /\ phase' = "closed" /\ job'["stream"] = Unpowers /\ hot' = hot
        \/ /\ phase = "open" /\ phase' = "closed" /\ job'["stream"] = <<>> /\ hot' = hot
    <2>1. CASE Open
      BY <1>1, <2>1 DEF Open, Do, Op
    <2>2. CASE Prepare
      BY <1>1, <2>2, Programs DEF Prepare
    <2>3. CASE Start
      BY <1>1, <2>3, Programs DEF Start
    <2>4. CASE Stop
      BY <1>1, <2>4, Programs DEF Stop
    <2>5. CASE Close
      <3>1. CASE Call({"prepared", "stopped"}, "closed", PrePmd) /\ UNCHANGED hot
        BY <1>1, <3>1, Programs
      <3>2. CASE Call({"open"}, "closed", <<>>) /\ UNCHANGED hot
        BY <1>1, <3>2
      <3> QED BY <2>5, <3>1, <3>2 DEF Close
    <2> QED BY <2>1, <2>2, <2>3, <2>4, <2>5
  <1>4. /\ <<>> \notin StreamHolds /\ Powers \notin StreamHolds /\ Unpowers \notin StreamHolds
        /\ <<Op("get")>> \notin StreamHolds
        /\ \A s \in MuteWaits \cup UnmuteWaits : s \notin StreamHolds /\ s # Powers /\ s # Unpowers
        /\ Powers # Unpowers /\ <<>> # Powers /\ <<>> # Unpowers
        /\ <<>> \notin MuteWaits \cup Mutes
    BY StreamApart
  <1>5. Placed'
    <2>1. StreamPlaced'
      BY <1>3 DEF StreamPlaced
    <2> QED BY <1>0, <1>2, <2>1 DEF Placed, WorkerPlaced
  <1>6. <<Op("get")>> # Powers /\ <<Op("get")>> # Unpowers
    <2>1. Head(<<Op("get")>>).op = "get" /\ Head(Powers).op = "power" /\ Head(Unpowers).op = "unpower"
      BY StreamHeads
    <2> QED BY <2>1
  <1>7. Locked'
    <2>1. lock # "stream" /\ job'["stream"] \notin StreamHolds
      BY <1>0, <1>2, <1>3, <1>4 DEF Locked
    <2>2. paOn <=> phase \in {"prepared", "running", "stopped"}
      BY <1>0, <1>2, <1>4 DEF Locked
    <2>3. paOn' <=> \/ phase' \in {"prepared", "running", "stopped"} /\ job'["stream"] # Powers
                    \/ job'["stream"] = Unpowers
      BY <1>2, <1>3, <1>4, <1>6, <2>2
    <2> QED BY <1>0, <1>2, <2>1, <2>3 DEF Locked
  <1>8. Quiet'
    <2>1. Recovering' = Recovering /\ ~Muting
      BY <1>2, <1>4 DEF Recovering, Muting
    <2>2. job'["stream"] \in MuteWaits => Muting'
      BY DEF Muting
    <2> HIDE DEF Recovering, Muting
    <2>3. cache'.byp = 1 => job'["reader"] = Restores
      BY <1>0, <1>2 DEF Quiet
    <2>4. phase' # "running" /\ ~hot' => ~err' /\ (Muting' \/ (cache'.pa = 0 /\ ~Recovering'))
      BY <1>0, <1>2, <1>3, <2>1, <2>2 DEF Quiet
    <2> QED BY <2>3, <2>4 DEF Quiet
  <1> QED BY <1>5, <1>7, <1>8

\* The worker and the reader begin, and the bus has the chip initialised.
LEMMA BeginKept ==
  ASSUME WsaInv, Expire \/ ReadTemp \/ update_status_attached
  PROVE  Placed' /\ Locked' /\ Quiet'
  <1>0. CacheHeld /\ Placed /\ Locked /\ Quiet
    BY DEF WsaInv
  <1>1. /\ DOMAIN job' = Threads /\ job'["stream"] = job["stream"]
        /\ UNCHANGED <<phase, hot, paOn, err, lock, cache>>
        /\ \/ /\ job["worker"] = <<>> /\ job'["worker"] = WorkerGets /\ work' = "running"
              /\ job'["reader"] = job["reader"] /\ job'["bus"] = job["bus"]
           \/ /\ job["reader"] = <<>> /\ job'["reader"] = ReaderWaits
              /\ job'["worker"] = job["worker"] /\ job'["bus"] = job["bus"] /\ work' = work
           \/ /\ job'["bus"] \in BusJobs
              /\ job'["worker"] = job["worker"] /\ job'["reader"] = job["reader"] /\ work' = work
    <2>1. CASE Expire
      <3>1. job["worker"] = <<>>
        BY <1>0, <2>1 DEF Expire, Placed, WorkerPlaced
      <3> QED BY <1>0, <2>1, <3>1, Programs DEF Expire, Jump, NoRegs, regmapVars, Placed, Threads
    <2>2. CASE ReadTemp
      BY <1>0, <2>2, Programs DEF ReadTemp, Jump, NoRegs, NoPower, regmapVars, Placed, Threads
    <2>3. CASE update_status_attached
      <3>1. <<>> \in BusJobs /\ Do("strap") \in BusJobs
        BY DEF BusJobs, Do, Op
      <3> QED
        BY <1>0, <2>3, <3>1 DEF update_status_attached, Jump, NoPower, Placed, Threads
    <2> QED BY <2>1, <2>2, <2>3
  <1>2. /\ <<>> \notin WorkerHolds /\ WorkerGets \notin WorkerHolds
        /\ <<>> \notin ReaderHolds /\ ReaderWaits \notin ReaderHolds
        /\ WorkerGets # <<>> /\ Head(WorkerGets).op = "get" /\ Restores # <<>>
    BY WorkerApart, ReaderApart, WorkerHeads
  <1>3. Placed'
    BY <1>0, <1>1, <1>2 DEF Placed, StreamPlaced, WorkerPlaced
  <1>4. Locked'
    BY <1>0, <1>1, <1>2 DEF Locked
  <1>5. Muting' = Muting /\ (~Recovering => ~Recovering')
    BY <1>1, <1>2 DEF Muting, Recovering
  <1> HIDE DEF Muting, Recovering
  <1>6. Quiet'
    BY <1>0, <1>1, <1>2, <1>5 DEF Quiet
  <1> QED BY <1>3, <1>4, <1>6

\* What leaves the threads alone.
LEMMA RestKept ==
  ASSUME WsaInv,
         \/ SetVolume \/ Fault \/ wsa884x_runtime_suspend \/ Detach
         \/ update_status_unattached \/ UNCHANGED vars
  PROVE  Placed' /\ Locked' /\ Quiet'
  <1>0. CacheHeld /\ Placed /\ Locked /\ Quiet
    BY DEF WsaInv
  <1>1. /\ UNCHANGED <<phase, job, lock, paOn, work>>
        /\ cache'.pa = cache.pa /\ cache'.byp = cache.byp
        /\ (phase # "running" /\ ~hot' => ~hot /\ (~err => ~err'))
    <2>1. CASE SetVolume
      <3>1. \A q \in Cached : cache'[q] = IF q = "gain" THEN 1 ELSE cache[q]
        BY <1>0, <2>1, WriteDoes DEF SetVolume
      <3> QED BY <2>1, <3>1, Registers DEF SetVolume, NoPower
    <2>2. CASE Fault
      BY <2>2 DEF Fault, NoRegs, NoPower, regmapVars
    <2>3. CASE wsa884x_runtime_suspend \/ Detach
      BY <2>3 DEF wsa884x_runtime_suspend, Detach, NoRegs, NoPower, regmapVars
    <2>4. CASE update_status_unattached
      BY <2>4 DEF update_status_unattached, NoPower
    <2>5. CASE UNCHANGED vars
      BY <2>5 DEF vars
    <2> QED BY <2>1, <2>2, <2>3, <2>4, <2>5
  <1>2. Placed'
    BY <1>0, <1>1 DEF Placed, StreamPlaced, WorkerPlaced
  <1>3. Locked'
    BY <1>0, <1>1 DEF Locked
  <1>4. Muting' = Muting /\ Recovering' = Recovering
    BY <1>1 DEF Muting, Recovering
  <1> HIDE DEF Muting, Recovering
  <1>5. Quiet'
    BY <1>0, <1>1, <1>4 DEF Quiet
  <1> QED BY <1>2, <1>3, <1>5

LEMMA WsaInvNext ==
  ASSUME WsaInv, [Next]_vars
  PROVE  WsaInv'
  <1>1. CacheHeld'
    BY CacheHeldNext DEF WsaInv
  <1>2. CASE \E p \in Threads : Step(p)
    <2>1. Step("stream") \/ Step("worker") \/ Step("reader") \/ Step("bus")
      BY <1>2 DEF Threads
    <2>2. Placed' /\ Locked' /\ Quiet'
      BY <2>1, StreamKept, WorkerKept, ReaderKept, BusKept
    <2> QED BY <1>1, <2>2 DEF WsaInv
  <1>3. CASE Open \/ Prepare \/ Start \/ Stop \/ Close
    BY <1>1, <1>3, CallKept DEF WsaInv
  <1>4. CASE Expire \/ ReadTemp \/ update_status_attached
    BY <1>1, <1>4, BeginKept DEF WsaInv
  <1>5. CASE \/ SetVolume \/ Fault \/ wsa884x_runtime_suspend \/ Detach
             \/ update_status_unattached \/ UNCHANGED vars
    BY <1>1, <1>5, RestKept DEF WsaInv
  <1> QED BY <1>2, <1>3, <1>4, <1>5 DEF Next

LEMMA WsaInvInit ==
  ASSUME Init
  PROVE  WsaInv
  <1>1. /\ phase = "closed" /\ DOMAIN job = Threads /\ job["stream"] = <<>> /\ job["worker"] = <<>>
        /\ job["reader"] = <<>> /\ job["bus"] = <<>> /\ work = "idle" /\ lock = "none"
        /\ paOn = FALSE /\ ~err /\ cache.pa = 0 /\ cache.byp = 0
    BY DEF Init, Threads, Defaults
  <1>2. <<>> \notin StreamHolds /\ <<>> \notin WorkerHolds /\ <<>> \notin ReaderHolds /\ <<>> # Unpowers
    BY StreamApart, WorkerApart, ReaderApart
  <1>3. Placed
    BY <1>1 DEF Placed, StreamPlaced, WorkerPlaced, BusJobs
  <1>4. Locked
    BY <1>1, <1>2 DEF Locked
  <1>5. Quiet
    BY <1>1 DEF Quiet, Recovering
  <1> QED BY <1>3, <1>4, <1>5, CacheHeldInit DEF WsaInv

\* The inductive invariant holds, for any number of retries, failed recoveries
\* and mishaps.
THEOREM WsaInvCorrect == Spec => []WsaInv
  <1>1. Init => WsaInv
    BY WsaInvInit
  <1>2. WsaInv /\ [Next]_vars => WsaInv'
    BY WsaInvNext
  <1> QED BY <1>1, <1>2, PTL DEF Spec

-----------------------------------------------------------------------------
\* What follows.

LEMMA DrivenFromInv ==
  ASSUME WsaInv
  PROVE  OnlyDriven
  <1>0. CacheHeld /\ Placed /\ Locked /\ Quiet
    BY DEF WsaInv
  <1>1. ASSUME Whole
        PROVE  chip.pa = cache.pa /\ chip.byp = cache.byp
    BY <1>0, <1>1, Registers DEF CacheHeld, Whole
  <1>2. StoppedIsQuiet
    <2> SUFFICES ASSUME Whole, ~hot, job["stream"] = <<>>, phase # "running"
                 PROVE  chip.pa = 0
      BY DEF StoppedIsQuiet
    <2>1. ~Muting
      BY StreamApart DEF Muting
    <2> HIDE DEF Muting, Recovering
    <2> QED BY <1>0, <1>1, <2>1 DEF Quiet
  <1>3. MeasuredOff
    <2> SUFFICES ASSUME Whole, ~hot, chip.byp = 1
                 PROVE  chip.pa = 0
      BY DEF MeasuredOff
    <2>1. job["reader"] = Restores
      BY <1>0, <1>1 DEF Quiet
    <2>2. Restores \in ReaderHolds /\ Restores # Ends
      BY ReaderApart DEF ReaderHolds
    <2>3. ~paOn
      BY <1>0, <2>1, <2>2 DEF Locked
    <2>4. phase \notin {"prepared", "running", "stopped"} \/ job["stream"] = Powers
      BY <1>0, <2>3 DEF Locked
    <2>5. /\ Powers # <<>> /\ Powers # Ends
          /\ \A s \in StreamHolds \cup MuteWaits \cup UnmuteWaits : s # Powers
          /\ Mutes \subseteq StreamHolds /\ Unmutes \subseteq StreamHolds /\ Ends \in StreamHolds
          /\ \A s \in {<<>>, Powers, <<Op("arm")>>, Unpowers, <<Op("cancel")>>, <<Op("get")>>} :
                s \notin MuteWaits \cup Mutes
      BY StreamApart
    <2>6. phase # "running" /\ ~Muting
      BY <1>0, <2>4, <2>5 DEF Placed, StreamPlaced, Muting
    <2> HIDE DEF Muting, Recovering
    <2> QED BY <1>0, <1>1, <2>6 DEF Quiet
  <1> QED BY <1>2, <1>3 DEF OnlyDriven

\* The PA is on only while its stream runs, and the measuring circuit is never
\* bypassed into a PA that is on, unless an error was latched when or after the
\* stream stopped: for any number of retries and mishaps (wsa884x_mute_stream,
\* wsa884x_pa_health_work, wsa884x_get_temp under sp_lock).
THEOREM OnlyDrivenCorrect == Spec => []OnlyDriven
  <1>1. WsaInv => OnlyDriven
    BY DrivenFromInv
  <1> QED BY <1>1, WsaInvCorrect, PTL

LEMMA DeadlockFromInv ==
  ASSUME WsaInv
  PROVE  NoDeadlock
  <1> DEFINE Asks == {"lock", "lockIfOn", "lockIfOff", "power", "unpower"}
  <1>0. Placed /\ Locked
    BY DEF WsaInv
  <1>1. /\ \A s \in StreamHolds : Head(s).op \notin Asks \cup {"cancel"}
        /\ \A s \in WorkerHolds : Head(s).op \notin Asks \cup {"cancel"}
        /\ \A s \in ReaderHolds : Head(s).op \notin Asks \cup {"cancel"}
    BY StreamApart, WorkerApart, ReaderApart
  <1>2. ASSUME NEW q \in Threads, lock = q
        PROVE  Head(job[q]).op \notin Asks \cup {"cancel"}
    BY <1>0, <1>1, <1>2 DEF Locked, Threads
  <1>3. ASSUME NEW q \in Threads, NEW r \in Threads, lock = q
        PROVE  ~Waits(q, r)
    BY <1>2, <1>3 DEF Waits, Here
  <1>4. ~Here("worker", "cancel")
    <2>1. /\ Head(WorkerGets).op = "get" /\ Head(WorkerWaits).op = "lockIfOn"
          /\ Head(<<Op("put"), Op("rearm")>>).op = "put" /\ Head(<<Op("rearm")>>).op = "rearm"
      BY WorkerHeads
    <2> QED BY <1>0, <1>1, <2>1 DEF Placed, WorkerPlaced, WorkerLeaves, Here
  <1>5. ASSUME NEW p \in Threads, NEW q \in Threads, Waits(p, q), lock # q
        PROVE  q = "worker" /\ Here(p, "cancel") /\ lock # p
    <2>1. q = "worker" /\ Here(p, "cancel")
      BY <1>5 DEF Waits
    <2> QED BY <1>2, <2>1 DEF Here
  <1>6. ASSUME NEW p \in Threads, NEW q \in Threads, NEW r \in Threads, Waits(p, q), Waits(q, r), Waits(r, p)
        PROVE  FALSE
    <2>1. q = "worker" /\ Here(p, "cancel") /\ lock # p
      BY <1>3, <1>5, <1>6
    <2>2. lock # r => Here("worker", "cancel")
      BY <1>5, <1>6, <2>1
    <2> QED BY <1>3, <1>4, <1>6, <2>2
  <1>7. ASSUME NEW p \in Threads, NEW q \in Threads, Waits(p, q), Waits(q, p)
        PROVE  FALSE
    <2>1. q = "worker" /\ Here(p, "cancel") /\ lock # p
      BY <1>3, <1>5, <1>7
    <2>2. Here("worker", "cancel")
      BY <1>5, <1>7, <2>1
    <2> QED BY <1>4, <2>2
  <1> QED BY <1>6, <1>7 DEF NoDeadlock

\* The stream, the worker, the reader and the bus never wait for each other in
\* a circle: whoever holds sp_lock neither asks for it again nor waits for the
\* worker, and the worker is waited for without it (wsa884x_spkr_event).
THEOREM NoDeadlockCorrect == Spec => []NoDeadlock
  <1>1. WsaInv => NoDeadlock
    BY DeadlockFromInv
  <1> QED BY <1>1, WsaInvCorrect, PTL

=============================================================================
