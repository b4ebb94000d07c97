------------------------------ MODULE UbigProofs ------------------------------
\* Theorems about UbiG, for any value of the constants.  About ControlPage
\* and how the plugin and its writers share the page: what the engine has
\* applied is what was asked for, although it reads the page without the
\* writers' lock and writers may die; and no generation of the page goes
\* back.  About UbigEngine and the plugin's signal processing: an event
\* of the leveler clears the stages it resets, Stage A joins its windows
\* from what belongs to them, neither limiter lets anything over its
\* ceiling, a block of Stage B runs with the whole of its settings, and
\* Stage B decides and compares by the rows it means to.
EXTENDS ControlPage, UbigEngine, FiniteSetTheorems, SequenceTheorems, WellFoundedInduction,
        TLAPS



\* The stores of the bands reach every band.
LEMMA BandsAreStored ==
  /\ Cardinality(Bands) \in Nat
  /\ BandStores \in [1..Cardinality(Bands) -> Bands]
  /\ \A b \in Bands : \E i \in 1..Cardinality(Bands) : BandStores[i] = b
  <1> DEFINE n == Cardinality(Bands)
  <1>1. n \in Nat /\ ExistsBijection(1..n, Bands)
    BY FS_CardinalityType, ControlAssumption
  <1>2. PICK f \in Bijection(1..n, Bands) : TRUE
    BY <1>1 DEF ExistsBijection
  <1>3. f \in [1..n -> Bands] /\ \A b \in Bands : \E i \in 1..n : f[i] = b
    BY <1>2 DEF Bijection, Injection, Surjection
  <1>4. \E s \in [1..n -> Bands] : \A b \in Bands : \E i \in DOMAIN s : s[i] = b
    BY <1>3
  <1>5. /\ BandStores \in [1..n -> Bands]
        /\ \A b \in Bands : \E i \in DOMAIN BandStores : BandStores[i] = b
    BY <1>4 DEF BandStores
  <1> QED BY <1>1, <1>5

\* A request's stores are words of the page, all it touches, and then its
\* generation.
GenWord(r) == IF r.kind = "pg" THEN "pgGen" ELSE "gen"
Main(r) == r.kind = "main"
LEMMA StoresShape ==
  ASSUME NEW r \in Requests
  PROVE  LET S == StoresOf(r)
             n == Len(S) IN
         /\ n \in Nat /\ n > 1 /\ S \in Seq(Words \cup {"gen", "pgGen"})
         /\ S[n] = GenWord(r)
         /\ \A i \in 1..n - 1 :
              /\ S[i] \in Words
              /\ S[i] \in Bands \cup {"flag"} => Main(r) /\ r.value # Flat
              /\ S[i] = "prof" => Main(r)
              /\ S[i] = "pg" => ~Main(r)
         /\ Main(r) => \E i \in 1..n - 1 : S[i] = "prof"
         /\ ~Main(r) => \E i \in 1..n - 1 : S[i] = "pg"
         /\ Main(r) /\ r.value # Flat =>
              \A b \in Bands : \E i \in 1..n - 1 : S[i] = b
  <1>0. {"flag", "prof", "pg"} \subseteq Words /\ Bands \subseteq Words
        /\ \A b \in Bands : b \notin {"flag", "prof", "pg", "gen", "pgGen"}
    BY ControlAssumption DEF Words
  <1>1. CASE r.kind = "pg"
    BY <1>0, <1>1 DEF StoresOf, PgStores, GenWord, Main
  <1>2. CASE r.kind # "pg" /\ r.value = Flat
    BY <1>0, <1>2 DEF StoresOf, GenWord, Main, Requests
  <1>3. CASE r.kind # "pg" /\ r.value # Flat
    <2> DEFINE k == Cardinality(Bands)
               rest == <<"flag", "prof", "gen">>
               Names == Words \cup {"gen", "pgGen"}
    <2>1. BandStores \in Seq(Names) /\ Len(BandStores) = k /\ k \in Nat
      BY BandsAreStored, <1>0
    <2>2. rest \in Seq(Names) /\ Len(rest) = 3
      BY <1>0
    <2>3. StoresOf(r) = BandStores \o rest
      BY <1>3 DEF StoresOf, EqStores
    <2>4. /\ StoresOf(r) \in Seq(Names) /\ Len(StoresOf(r)) = k + 3
          /\ \A i \in 1..k : StoresOf(r)[i] = BandStores[i]
          /\ StoresOf(r)[k + 1] = "flag" /\ StoresOf(r)[k + 2] = "prof" /\ StoresOf(r)[k + 3] = "gen"
      <3> HIDE DEF rest, Names, k
      <3>1. /\ StoresOf(r) \in Seq(Names) /\ Len(StoresOf(r)) = k + 3
            /\ \A i \in 1..k + 3 : StoresOf(r)[i] = IF i <= k THEN BandStores[i] ELSE rest[i - k]
        <4>1. /\ BandStores \o rest \in Seq(Names)
              /\ Len(BandStores \o rest) = Len(BandStores) + Len(rest)
              /\ \A i \in 1..Len(BandStores) + Len(rest) :
                   (BandStores \o rest)[i] =
                     IF i <= Len(BandStores) THEN BandStores[i] ELSE rest[i - Len(BandStores)]
          BY <2>1, <2>2, ConcatProperties, Zenon
        <4> QED BY <2>1, <2>2, <2>3, <4>1
      <3>3. rest[1] = "flag" /\ rest[2] = "prof" /\ rest[3] = "gen"
        BY DEF rest
      <3> QED BY <2>1, <3>1, <3>3
    <2>5. \A i \in 1..k : StoresOf(r)[i] \in Bands
      BY <2>4, BandsAreStored
    <2>6. \A b \in Bands : \E i \in 1..k : StoresOf(r)[i] = b
      BY <2>4, BandsAreStored
    <2>7. Main(r)
      BY <1>3 DEF Requests, Main
    <2>8. \A i \in 1..k + 2 : i \in 1..k \/ i = k + 1 \/ i = k + 2
      BY <2>1
    <2> HIDE DEF k, rest, Names
    <2>9. k + 3 - 1 = k + 2 /\ k + 2 \in 1..k + 2 /\ 1..k \subseteq 1..k + 2
      BY <2>1
    <2> QED
      BY <1>0, <1>3, <2>1, <2>4, <2>5, <2>6, <2>7, <2>8, <2>9 DEF GenWord, Main, Names
  <1> QED BY <1>1, <1>2, <1>3

-----------------------------------------------------------------------------
\* The engine's steps.

LEMMA Bounds ==
  /\ MaxRetry \in Nat /\ 1 \in 0..MaxRetry /\ 0 \in 0..MaxRetry /\ MaxReq \in Nat /\ MaxPg \in Nat /\ MaxStarts \in Nat
  /\ Words = Bands \cup {"flag", "prof", "pg"}
  BY ControlAssumption DEF Words

LEMMA FreshTypes ==
  /\ Curve(Flat) \in Curves /\ NoSnap \in Copies /\ NoEngine \in Engines /\ FreshPage \in Pages
  <1>1. Curve(Flat) \in Curves
    BY DEF Curve, Curves, Band
  <1>2. NoSnap \in Copies
    BY <1>1, Bounds DEF NoSnap, Copies, PageProfiles, Gain
  <1>3. NoEngine \in Engines
    BY <1>1, Bounds DEF NoEngine, Engines, PageProfiles, Gain
  <1>4. FreshPage \in Pages
    BY <1>1, Bounds DEF FreshPage, Pages, PageProfiles, Gain
  <1> QED BY <1>1, <1>2, <1>3, <1>4

\* Without a step of a writer the writers' part of the invariant stands.
LEMMA WritersRest ==
  ASSUME UNCHANGED <<todo, request>>
  PROVE  /\ InOrder => InOrder'
         /\ \A x : Writing(x)' <=> Writing(x)
         /\ Stores' = Stores /\ StoredTo' = StoredTo
         /\ \A which : InFlight(which)' = InFlight(which)
  BY DEF InOrder, Writing, Touched, Stores, StoredTo, InFlight

LEMMA Rest ==
  ASSUME IInv, UNCHANGED vars
  PROVE  IInv'
  <1> USE WritersRest DEF IInv, vars
  <1>1. TypeOK'
    BY DEF TypeOK
  <1>2. InOrder' /\ Stored'
    BY DEF Stored
  <1>3. PageIsWanted'
    BY DEF PageIsWanted, Settled
  <1>4. Generations'
    BY DEF Generations, Copying
  <1>5. CopyIsWanted'
    BY DEF CopyIsWanted, Copying, Settled
  <1>6. EngineIsWanted'
    BY DEF EngineIsWanted, Settled
  <1> QED BY <1>1, <1>2, <1>3, <1>4, <1>5, <1>6

LEMMA BlockKeeps ==
  ASSUME IInv, BeginBlock
  PROVE  IInv'
  <1> USE DEF BeginBlock, Sample
  <1>0. TypeOK /\ InOrder /\ Stored /\ PageIsWanted /\ Generations /\ EngineIsWanted
    BY DEF IInv
  <1>a. page \in Pages /\ eng \in Engines /\ snap \in Copies
    BY <1>0 DEF TypeOK
  <1>b. eng' \in Engines
    BY <1>a, Bounds DEF Engines
  <1>c. snap' \in Copies
    BY <1>a DEF Copies, Pages
  <1>2. TypeOK'
    BY <1>0, <1>b, <1>c DEF TypeOK
  <1>3. InOrder' /\ Stored' /\ PageIsWanted'
    BY <1>0, WritersRest DEF Stored, PageIsWanted, Settled
  <1>4. Generations'
    BY <1>0, <1>a, WritersRest DEF Generations, Copying, TypeOK, Engines, Copies, Pages
  <1>5. CopyIsWanted'
    BY <1>0, <1>a, Bounds DEF CopyIsWanted, Copying, Engines, Copies
  <1>6. EngineIsWanted'
    BY <1>0, <1>a, WritersRest DEF EngineIsWanted, Settled, Engines
  <1> QED BY <1>2, <1>3, <1>4, <1>5, <1>6 DEF IInv

LEMMA CopyKeeps ==
  ASSUME IInv, Copy
  PROVE  IInv'
  <1>0. TypeOK /\ InOrder /\ Stored /\ PageIsWanted /\ Generations /\ CopyIsWanted /\ EngineIsWanted
    BY DEF IInv
  <1>a. page \in Pages /\ eng \in Engines /\ snap \in Copies
    BY <1>0 DEF TypeOK
  <1>w. UNCHANGED <<page, todo, request, eng, want, served, spoiled, counts>>
    BY DEF Copy
  <1>s. PICK w \in snap.left :
          snap' = LET s == [snap EXCEPT !.left = @ \ {w}]
                  IN  CASE w = "flag" -> [s EXCEPT !.flag = page.flag]
                        [] w = "prof" -> [s EXCEPT !.prof = page.prof]
                        [] w = "pg" -> [s EXCEPT !.pg = page.pg]
                        [] OTHER -> [s EXCEPT !.eq[w] = page.eq[w]]
    BY DEF Copy
  <1>b. w \in Bands \cup {"flag", "prof", "pg"}
    BY <1>a, Bounds DEF Copies
  <1>n. Bands \cap {"flag", "prof", "pg"} = {}
    BY ControlAssumption
  <1>c. /\ snap'.left = snap.left \ {w} /\ snap'.req = snap.req /\ snap'.pgReq = snap.pgReq
        /\ snap'.flag = IF w = "flag" THEN page.flag ELSE snap.flag
        /\ snap'.prof = IF w = "prof" THEN page.prof ELSE snap.prof
        /\ snap'.pg = IF w = "pg" THEN page.pg ELSE snap.pg
        /\ \A b \in Bands : snap'.eq[b] = IF b = w THEN page.eq[b] ELSE snap.eq[b]
        /\ snap'.eq \in Curves /\ snap' \in Copies
    <2>1. snap.eq \in Curves /\ page.eq \in Curves
      BY <1>a DEF Copies, Pages
    <2>2. CASE w \in Bands
      <3>1. snap' = [snap EXCEPT !.left = @ \ {w}, !.eq = [@ EXCEPT ![w] = page.eq[w]]]
        BY <1>a, <1>s, <1>n, <2>2 DEF Copies
      <3>2. [snap.eq EXCEPT ![w] = page.eq[w]] \in Curves
        BY <2>1, <2>2 DEF Curves
      <3>3. \A b \in Bands : [snap.eq EXCEPT ![w] = page.eq[w]][b] = IF b = w THEN page.eq[b] ELSE snap.eq[b]
        BY <2>1 DEF Curves
      <3> QED BY <1>a, <1>n, <2>2, <3>1, <3>2, <3>3 DEF Copies
    <2>3. CASE w = "flag"
      BY <1>a, <1>s, <1>n, <2>1, <2>3 DEF Copies, Pages
    <2>4. CASE w = "prof"
      BY <1>a, <1>s, <1>n, <2>1, <2>4 DEF Copies, Pages
    <2>5. CASE w = "pg"
      BY <1>a, <1>s, <1>n, <2>1, <2>5 DEF Copies, Pages
    <2> QED BY <1>b, <2>2, <2>3, <2>4, <2>5
  <1>2. TypeOK'
    BY <1>0, <1>w, <1>c DEF TypeOK
  <1>3. InOrder' /\ Stored' /\ PageIsWanted'
    BY <1>0, <1>w, WritersRest DEF Stored, PageIsWanted, Settled
  <1>4. Generations'
    BY <1>0, <1>w, <1>c, WritersRest DEF Generations, Copying
  <1>5. CopyIsWanted'
    BY <1>0, <1>w, <1>c, <1>n, WritersRest DEF CopyIsWanted, PageIsWanted, Copying, Settled, Copy
  <1>6. EngineIsWanted'
    BY <1>0, <1>w, WritersRest DEF EngineIsWanted, Settled
  <1> QED BY <1>2, <1>3, <1>4, <1>5, <1>6 DEF IInv

\* A sample again, a copy given up, or a stable one.
LEMMA ResampleKeeps ==
  ASSUME IInv, Resample
  PROVE  IInv'
  <1>0. TypeOK /\ InOrder /\ Stored /\ PageIsWanted /\ Generations /\ CopyIsWanted /\ EngineIsWanted
    BY DEF IInv
  <1>a. page \in Pages /\ eng \in Engines /\ snap \in Copies
    BY <1>0 DEF TypeOK
  <1>w. UNCHANGED <<page, todo, request, want, served, spoiled, counts>> /\ eng.pc = "copy" /\ snap.left = {}
    BY DEF Resample
  <1>c. /\ eng' \in Engines /\ snap' \in Copies
        /\ eng'.prof = eng.prof /\ eng'.eq = eng.eq /\ eng'.geq = eng.geq /\ eng'.pg = eng.pg
        /\ \/ eng'.pc = "postgain" /\ snap' = snap
           \/ eng'.pc = "copy" /\ snap'.req = page.req /\ snap'.pgReq = page.pgReq /\ snap'.left = Words
           \/ eng'.pc = "idle"
    <2>1. CASE Stable
      BY <1>a, <2>1 DEF Resample, Engines
    <2>2. CASE ~Stable /\ Again
      <3>1. eng.tries + 1 \in 0..MaxRetry
        BY <1>a, <2>2, Bounds DEF Again, Engines
      <3>2. eng' = [eng EXCEPT !.pc = "copy", !.tries = eng.tries + 1]
            /\ snap' = [snap EXCEPT !.req = page.req, !.pgReq = page.pgReq, !.left = Words]
        BY <2>2 DEF Resample, Sample
      <3>3. eng' \in Engines
        BY <1>a, <3>1, <3>2 DEF Engines
      <3>4. snap' \in Copies
        BY <1>a, <3>2 DEF Copies, Pages
      <3> QED BY <1>a, <3>2, <3>3, <3>4 DEF Engines, Copies
    <2>3. CASE ~Stable /\ ~Again
      <3>1. eng' = [eng EXCEPT !.pc = "idle", !.tries = 0] /\ snap' = NoSnap
        BY <2>3 DEF Resample, BlockEnds
      <3>2. eng' \in Engines
        BY <1>a, <3>1, Bounds DEF Engines
      <3> QED BY <1>a, <3>1, <3>2, FreshTypes DEF Engines
    <2> QED BY <2>1, <2>2, <2>3
  <1>2. TypeOK'
    BY <1>0, <1>w, <1>c DEF TypeOK
  <1>3. InOrder' /\ Stored' /\ PageIsWanted'
    BY <1>0, <1>w, WritersRest DEF Stored, PageIsWanted, Settled
  <1>4. Generations'
    BY <1>0, <1>a, <1>w, <1>c, WritersRest DEF Generations, Copying, TypeOK, Pages
  <1>5. CopyIsWanted'
    BY <1>0, <1>w, <1>c, Bounds, WritersRest DEF CopyIsWanted, Copying, Settled
  <1>6. EngineIsWanted'
    BY <1>0, <1>w, <1>c, WritersRest DEF EngineIsWanted, Settled
  <1> QED BY <1>2, <1>3, <1>4, <1>5, <1>6 DEF IInv

\* A pending postgain is taken from a stable copy; a generation that is
\* acknowledged already is left alone.
LEMMA ApplyPostgainKeeps ==
  ASSUME IInv, ApplyPostgain
  PROVE  IInv'
  <1>0. TypeOK /\ InOrder /\ Stored /\ PageIsWanted /\ Generations /\ CopyIsWanted /\ EngineIsWanted
    BY DEF IInv
  <1>a. page \in Pages /\ eng \in Engines /\ snap \in Copies /\ served \in [req : 0..MaxReq, pg : 0..MaxPg]
    BY <1>0 DEF TypeOK
  <1>w. UNCHANGED <<todo, request, snap, want, spoiled, counts>> /\ eng.pc = "postgain"
    BY DEF ApplyPostgain
  <1>g. /\ snap.pgReq \in page.pgAck..page.pgReq /\ snap.left = {}
        /\ served.pg \in 0..page.pgAck /\ served.req \in 0..page.ack
        /\ page.pgAck \in Nat /\ page.pgReq \in Nat /\ page.pgAck <= page.pgReq /\ page.ack <= page.req
    BY <1>0, <1>a, <1>w DEF Generations, Copying, CopyIsWanted, TypeOK, Pages
  <1>c. /\ eng' \in Engines /\ page' \in Pages /\ served' \in [req : 0..MaxReq, pg : 0..MaxPg]
        /\ eng'.pc = "main" /\ eng'.prof = eng.prof /\ eng'.eq = eng.eq /\ eng'.geq = eng.geq
        /\ page'.req = page.req /\ page'.ack = page.ack /\ page'.pgReq = page.pgReq
        /\ page'.prof = page.prof /\ page'.flag = page.flag /\ page'.eq = page.eq /\ page'.pg = page.pg
        /\ served'.req = served.req
        /\ \/ eng'.pg = eng.pg /\ page'.pgAck = page.pgAck /\ served'.pg = served.pg
           \/ eng'.pg = snap.pg /\ page'.pgAck = snap.pgReq /\ served'.pg = snap.pgReq
    <2>1. CASE snap.pgReq = page.pgAck
      <3>1. eng' = [eng EXCEPT !.pc = "main"] /\ UNCHANGED <<page, served>>
        BY <2>1 DEF ApplyPostgain
      <3> QED BY <1>a, <3>1 DEF Engines
    <2>2. CASE snap.pgReq # page.pgAck
      <3>1. /\ eng' = [eng EXCEPT !.pc = "main", !.pg = snap.pg]
            /\ page' = [page EXCEPT !.activePg = snap.pg, !.err = FALSE, !.pgAck = snap.pgReq]
            /\ served' = [served EXCEPT !.pg = snap.pgReq]
        BY <2>2 DEF ApplyPostgain
      <3>2. eng' \in Engines
        BY <1>a, <3>1 DEF Engines, Copies
      <3>3. page' \in Pages
        BY <1>a, <3>1 DEF Pages, Copies
      <3>4. served' \in [req : 0..MaxReq, pg : 0..MaxPg]
        BY <1>a, <3>1 DEF Copies
      <3> QED BY <1>a, <3>1, <3>2, <3>3, <3>4 DEF Engines, Pages
    <2> QED BY <2>1, <2>2
  <1>2. TypeOK'
    BY <1>0, <1>a, <1>w, <1>c, <1>g DEF TypeOK
  <1>3. InOrder' /\ Stored' /\ PageIsWanted'
    BY <1>0, <1>w, <1>c, WritersRest DEF Stored, PageIsWanted, Settled
  <1>4. Generations'
    BY <1>0, <1>g, <1>w, <1>c, WritersRest DEF Generations, Copying
  <1>5. CopyIsWanted'
    BY <1>0, <1>w, <1>c, WritersRest DEF CopyIsWanted, Copying, Settled
  <1>6. EngineIsWanted'
    BY <1>0, <1>g, <1>w, <1>c, WritersRest DEF EngineIsWanted, Settled, CopyIsWanted, Copying
  <1> QED BY <1>2, <1>3, <1>4, <1>5, <1>6 DEF IInv

LEMMA SkipKeeps ==
  ASSUME IInv, Skip
  PROVE  IInv'
  <1>0. TypeOK /\ InOrder /\ Stored /\ PageIsWanted /\ Generations /\ CopyIsWanted /\ EngineIsWanted
    BY DEF IInv
  <1>a. page \in Pages /\ eng \in Engines
    BY <1>0 DEF TypeOK
  <1>w. UNCHANGED <<page, todo, request, want, served, spoiled, counts>> /\ eng.pc = "main"
    BY DEF Skip, NoPending
  <1>c. eng' = [eng EXCEPT !.pc = "idle", !.tries = 0] /\ snap' = NoSnap
    BY DEF Skip, BlockEnds
  <1>d. eng' \in Engines /\ snap' \in Copies
    BY <1>a, <1>c, FreshTypes, Bounds DEF Engines
  <1>2. TypeOK'
    BY <1>0, <1>w, <1>d DEF TypeOK
  <1>3. InOrder' /\ Stored' /\ PageIsWanted'
    BY <1>0, <1>w, WritersRest DEF Stored, PageIsWanted, Settled
  <1>4. Generations'
    BY <1>0, <1>a, <1>w, <1>c, WritersRest DEF Generations, Copying, Engines
  <1>5. CopyIsWanted'
    BY <1>a, <1>c DEF CopyIsWanted, Copying, Engines
  <1>6. EngineIsWanted'
    BY <1>0, <1>a, <1>w, <1>c, WritersRest DEF EngineIsWanted, Settled, Engines
  <1> QED BY <1>2, <1>3, <1>4, <1>5, <1>6 DEF IInv

\* A main request is acknowledged, applied or refused.
LEMMA MainKeeps ==
  ASSUME IInv, ApplyMain \/ RejectMain
  PROVE  IInv'
  <1>0. TypeOK /\ InOrder /\ Stored /\ PageIsWanted /\ Generations /\ CopyIsWanted /\ EngineIsWanted
    BY DEF IInv
  <1>a. page \in Pages /\ eng \in Engines /\ snap \in Copies /\ served \in [req : 0..MaxReq, pg : 0..MaxPg]
    BY <1>0 DEF TypeOK
  <1>w. UNCHANGED <<todo, request, want, spoiled, counts>> /\ eng.pc = "main" /\ snap.req # page.ack
    BY <1>a DEF ApplyMain, RejectMain, NoPending
  <1>g. /\ snap.req \in page.ack..page.req /\ snap.left = {}
        /\ served.pg \in 0..page.pgAck /\ served.req \in 0..page.ack
        /\ page.ack \in Nat /\ page.req \in Nat /\ page.ack <= page.req /\ page.pgAck <= page.pgReq
        /\ snap.req > page.ack
    BY <1>0, <1>a, <1>w DEF Generations, Copying, CopyIsWanted, TypeOK, Pages
  <1>e. Eq \in Curves /\ GeqAfter(snap.prof, Eq) \in Curves
    <2>1. Eq \in Curves
      BY <1>a DEF Eq, Engines, Copies
    <2> QED BY <1>a, <2>1, FreshTypes DEF GeqAfter, Engines
  <1>i. eng'.pc = "idle" /\ snap' = NoSnap /\ eng'.eq = Eq /\ eng' \in Engines /\ eng'.pg = eng.pg
    <2>1. CASE ApplyMain
      <3>1. /\ eng' = [eng EXCEPT !.prof = snap.prof, !.eq = Eq, !.geq = GeqAfter(snap.prof, Eq),
                                  !.pc = "idle", !.tries = 0]
            /\ snap' = NoSnap
        BY <1>a, <2>1 DEF ApplyMain, BlockEnds, Engines
      <3> QED BY <1>a, <1>e, <3>1, Bounds DEF Engines, Copies
    <2>2. CASE RejectMain
      <3>1. eng' = [eng EXCEPT !.eq = Eq, !.pc = "idle", !.tries = 0] /\ snap' = NoSnap
        BY <1>a, <2>2 DEF RejectMain, BlockEnds, Engines
      <3> QED BY <1>a, <1>e, <3>1, Bounds DEF Engines
    <2> QED BY <2>1, <2>2
  <1>p. /\ page' \in Pages /\ page'.ack = snap.req /\ page'.req = page.req
        /\ page'.pgReq = page.pgReq /\ page'.pgAck = page.pgAck
        /\ page'.prof = page.prof /\ page'.flag = page.flag /\ page'.eq = page.eq /\ page'.pg = page.pg
    <2>1. \A prof, err : Acked(prof, err) =
            [page EXCEPT !.active = prof, !.err = err, !.ack = snap.req]
      BY DEF Acked
    <2>2. PICK prof \in PageProfiles, err \in BOOLEAN :
            page' = [page EXCEPT !.active = prof, !.err = err, !.ack = snap.req]
      BY <1>a, <2>1 DEF ApplyMain, RejectMain, Engines, Copies
    <2> QED BY <1>a, <2>2 DEF Pages, Copies
  <1>s. /\ served' \in [req : 0..MaxReq, pg : 0..MaxPg] /\ served'.pg = served.pg
        /\ \/ served'.req = served.req
           \/ /\ served'.req = snap.req /\ eng'.prof = snap.prof
              /\ eng'.geq = GeqAfter(snap.prof, Eq)
    <2>1. CASE ApplyMain
      <3>1. /\ eng'.prof = snap.prof /\ eng'.geq = GeqAfter(snap.prof, Eq)
        BY <1>a, <2>1 DEF ApplyMain, BlockEnds, Engines
      <3> QED BY <1>a, <2>1, <3>1 DEF ApplyMain, Copies
    <2>2. CASE RejectMain
      BY <1>a, <2>2 DEF RejectMain
    <2> QED BY <2>1, <2>2
  <1>2. TypeOK'
    BY <1>0, <1>g, <1>w, <1>i, <1>p, <1>s, FreshTypes DEF TypeOK
  <1>3. InOrder' /\ Stored' /\ PageIsWanted'
    BY <1>0, <1>w, <1>p, WritersRest DEF Stored, PageIsWanted, Settled
  <1>4. Generations'
    BY <1>0, <1>g, <1>w, <1>i, <1>p, <1>s, WritersRest DEF Generations, Copying
  <1>5. CopyIsWanted'
    BY <1>i DEF CopyIsWanted, Copying
  <1>6. EngineIsWanted'
    <2>1. eng.pc # "off" /\ eng'.pc # "off"
      BY <1>w, <1>i
    <2>2. CASE served'.req = served.req
      BY <1>0, <1>g, <1>w, <1>i, <1>p, <1>s, <2>1, <2>2, WritersRest DEF EngineIsWanted, Settled
    <2>3. CASE /\ served'.req = snap.req /\ eng'.prof = snap.prof
               /\ eng'.geq = GeqAfter(snap.prof, Eq)
      <3>1. CASE snap.req # page.req
        BY <1>0, <1>g, <1>w, <1>i, <1>p, <1>s, <2>1, <2>3, <3>1, WritersRest DEF EngineIsWanted, Settled
      <3>2. CASE snap.req = page.req
        <4>1. Settled("eq") /\ page.flag => snap.flag /\ snap.eq = want.eq
          <5>1. snap.eq \in Curves /\ want.eq \in Curves
            BY <1>0, <1>a DEF Copies, TypeOK
          <5>2. ASSUME Settled("eq"), page.flag
                PROVE  snap.flag /\ \A b \in Bands : snap.eq[b] = want.eq[b]
            BY <1>0, <1>g, <1>w, <3>2, <5>2 DEF CopyIsWanted, Copying
          <5>3. (\A b \in Bands : snap.eq[b] = want.eq[b]) => snap.eq = want.eq
            BY <5>1 DEF Curves
          <5> QED BY <5>2, <5>3
        <4>2. Settled("prof") => snap.prof = want.prof
          BY <1>0, <1>g, <1>w, <3>2 DEF CopyIsWanted, Copying
        <4> QED
          BY <1>0, <1>w, <1>i, <1>p, <1>s, <2>1, <2>3, <4>1, <4>2, WritersRest
             DEF EngineIsWanted, Settled, Eq, GeqAfter
      <3> QED BY <3>1, <3>2
    <2> QED BY <1>s, <2>2, <2>3
  <1> QED BY <1>2, <1>3, <1>4, <1>5, <1>6 DEF IInv

-----------------------------------------------------------------------------
\* The engine comes and goes.

LEMMA TestKeeps ==
  ASSUME IInv, Test
  PROVE  IInv'
  <1>0. TypeOK /\ InOrder /\ Stored /\ PageIsWanted /\ Generations /\ CopyIsWanted /\ EngineIsWanted
    BY DEF IInv
  <1>a. eng \in Engines
    BY <1>0 DEF TypeOK
  <1>w. UNCHANGED <<page, todo, request, snap, want, served, spoiled, counts>> /\ eng.pc = "opened"
    BY DEF Test
  <1>c. /\ eng' \in Engines /\ eng'.pc \in {"seed", "publish"} /\ eng'.prof = eng.prof
        /\ eng'.eq = eng.eq /\ eng'.geq = eng.geq /\ eng'.pg = eng.pg
    <2>1. PICK pc \in {"seed", "publish"} : eng' = [eng EXCEPT !.pc = pc]
      BY DEF Test
    <2> QED BY <1>a, <2>1 DEF Engines
  <1>2. TypeOK'
    BY <1>0, <1>w, <1>c DEF TypeOK
  <1>3. InOrder' /\ Stored' /\ PageIsWanted'
    BY <1>0, <1>w, WritersRest DEF Stored, PageIsWanted, Settled
  <1>4. Generations'
    BY <1>0, <1>w, <1>c, WritersRest DEF Generations, Copying
  <1>5. CopyIsWanted'
    BY <1>c DEF CopyIsWanted, Copying
  <1>6. EngineIsWanted'
    BY <1>0, <1>w, <1>c, WritersRest DEF EngineIsWanted, Settled
  <1> QED BY <1>2, <1>3, <1>4, <1>5, <1>6 DEF IInv

\* A cold start stores its profile without the lock: what it overwrites is
\* spoiled, unless nobody has asked for a profile.
LEMMA SeedKeeps ==
  ASSUME IInv, Seed
  PROVE  IInv'
  <1>0. TypeOK /\ InOrder /\ Stored /\ PageIsWanted /\ Generations /\ CopyIsWanted /\ EngineIsWanted
    BY DEF IInv
  <1>a. /\ eng \in Engines /\ page \in Pages /\ want \in [prof : PageProfiles, eq : Curves, pg : Gain]
        /\ request \in Requests \cup {NoRequest} /\ (request = NoRequest <=> todo = <<>>)
        /\ todo \in Seq(Words \cup {"gen", "pgGen"}) /\ page.req \in Nat
    BY <1>0, Bounds DEF TypeOK, Pages
  <1>w. UNCHANGED <<todo, request, snap, served, counts>> /\ eng.pc = "seed"
    BY DEF Seed
  <1>e. /\ eng' \in Engines /\ eng'.pc = "publish" /\ eng'.prof = eng.prof
        /\ eng'.eq = eng.eq /\ eng'.geq = eng.geq /\ eng'.pg = eng.pg
    BY <1>a DEF Seed, Engines
  <1>p. /\ page' \in Pages /\ page'.prof = eng.prof /\ page'.req = page.req /\ page'.ack = page.ack
        /\ page'.pgReq = page.pgReq /\ page'.pgAck = page.pgAck
        /\ page'.flag = page.flag /\ page'.eq = page.eq /\ page'.pg = page.pg
    <2>1. page' = [page EXCEPT !.prof = eng.prof]
      BY DEF Seed
    <2> QED BY <1>a, <2>1 DEF Engines, Pages
  <1>h. /\ want' \in [prof : PageProfiles, eq : Curves, pg : Gain]
        /\ want'.eq = want.eq /\ want'.pg = want.pg
        /\ page.req = 0 => want'.prof = eng.prof
        /\ page.req # 0 => want'.prof = want.prof
    BY <1>a DEF Seed, Engines
  <1>s. /\ spoiled \subseteq spoiled' /\ spoiled' \subseteq spoiled \cup {"prof"}
        /\ page.req # 0 \/ (todo # <<>> /\ request.kind = "main") => "prof" \in spoiled'
    BY DEF Seed
  <1>2. TypeOK'
    <2>1. spoiled' \subseteq {"prof", "eq", "pg"}
      BY <1>0, <1>s DEF TypeOK
    <2> QED BY <1>0, <1>w, <1>e, <1>p, <1>h, <2>1 DEF TypeOK
  <1>3. InOrder'
    BY <1>0, <1>w, WritersRest
  <1>4. Stored'
    <2> SUFFICES ASSUME todo # <<>>, NEW i \in 1..StoredTo
                 PROVE  /\ Stores[i] = "prof" => page'.prof = request.prof \/ "prof" \in spoiled'
                        /\ Stores[i] = "pg" => page'.pg = request.value
                        /\ Stores[i] \in Bands => page'.eq[Stores[i]] = request.value
      BY <1>w, WritersRest DEF Stored
    <2>1. Len(todo) \in Nat /\ Len(todo) > 0
      BY <1>a
    <2>2. i \in 1..Len(Stores) - 1
      BY <1>a, <2>1, StoresShape DEF StoredTo, Stores
    <2>3. Stores[i] = "prof" => Main(request)
      BY <1>a, <2>2, StoresShape DEF Stores
    <2> QED BY <1>0, <1>p, <1>s, <2>3 DEF Stored, Main
  <1>5. PageIsWanted'
    <2>1. \A x \in {"prof", "eq", "pg"} : Settled(x)' => Settled(x)
      BY <1>w, <1>s, WritersRest DEF Settled
    <2>2. Settled("prof")' => page'.prof = want'.prof
      BY <1>w, <1>p, <1>h, <1>s DEF Settled
    <2> QED BY <1>0, <1>p, <1>h, <2>1, <2>2 DEF PageIsWanted
  <1>6. Generations'
    BY <1>0, <1>w, <1>e, <1>p, WritersRest DEF Generations, Copying
  <1>7. CopyIsWanted'
    BY <1>e DEF CopyIsWanted, Copying
  <1>8. EngineIsWanted'
    <2>1. \A x \in {"prof", "eq", "pg"} : Settled(x)' => Settled(x)
      BY <1>w, <1>s, WritersRest DEF Settled
    <2> QED BY <1>0, <1>a, <1>w, <1>e, <1>p, <1>h, <2>1 DEF EngineIsWanted
  <1> QED BY <1>2, <1>3, <1>4, <1>5, <1>6, <1>7, <1>8 DEF IInv

LEMMA PublishKeeps ==
  ASSUME IInv, Publish
  PROVE  IInv'
  <1>0. TypeOK /\ InOrder /\ Stored /\ PageIsWanted /\ Generations /\ CopyIsWanted /\ EngineIsWanted
    BY DEF IInv
  <1>a. eng \in Engines /\ page \in Pages
    BY <1>0 DEF TypeOK
  <1>w. UNCHANGED <<todo, request, snap, want, served, spoiled, counts>> /\ eng.pc = "publish"
    BY DEF Publish
  <1>e. /\ eng' \in Engines /\ eng'.pc = "idle" /\ eng'.prof = eng.prof
        /\ eng'.eq = eng.eq /\ eng'.geq = eng.geq /\ eng'.pg = eng.pg
    BY <1>a DEF Publish, Engines
  <1>p. /\ page' \in Pages /\ page'.prof = page.prof /\ page'.req = page.req /\ page'.ack = page.ack
        /\ page'.pgReq = page.pgReq /\ page'.pgAck = page.pgAck
        /\ page'.flag = page.flag /\ page'.eq = page.eq /\ page'.pg = page.pg
    <2>1. page' = [page EXCEPT !.active = eng.prof, !.activePg = eng.pg]
      BY DEF Publish
    <2> QED BY <1>a, <2>1 DEF Engines, Pages
  <1>2. TypeOK'
    BY <1>0, <1>w, <1>e, <1>p DEF TypeOK
  <1>3. InOrder' /\ Stored' /\ PageIsWanted'
    BY <1>0, <1>w, <1>p, WritersRest DEF Stored, PageIsWanted, Settled
  <1>4. Generations'
    BY <1>0, <1>w, <1>e, <1>p, WritersRest DEF Generations, Copying
  <1>5. CopyIsWanted'
    BY <1>e DEF CopyIsWanted, Copying
  <1>6. EngineIsWanted'
    BY <1>0, <1>w, <1>e, <1>p, WritersRest DEF EngineIsWanted, Settled
  <1> QED BY <1>2, <1>3, <1>4, <1>5, <1>6 DEF IInv

\* A new instance has applied nothing yet.
LEMMA StartKeeps ==
  ASSUME IInv, Start
  PROVE  IInv'
  <1>0. TypeOK /\ InOrder /\ Stored /\ PageIsWanted /\ Generations /\ CopyIsWanted /\ EngineIsWanted
    BY DEF IInv
  <1>a. page \in Pages /\ counts \in [req : 0..MaxReq, pg : 0..MaxPg, starts : 0..MaxStarts]
        /\ page.ack \in Nat /\ page.pgAck \in Nat /\ page.req \in Nat /\ page.pgReq \in Nat
    BY <1>0, Bounds DEF TypeOK, Pages
  <1>w. UNCHANGED <<todo, request, snap, want, spoiled>>
    BY DEF Start
  <1>e. eng' \in Engines /\ eng'.pc = "opened"
    <2>1. PICK p \in PageProfiles : eng' = [NoEngine EXCEPT !.pc = "opened", !.prof = p]
      BY DEF Start
    <2> QED BY <2>1, FreshTypes DEF Engines
  <1>p. /\ page' \in Pages /\ page'.prof = page.prof /\ page'.req = page.req /\ page'.ack = page.ack
        /\ page'.pgReq = page.pgReq /\ page'.pgAck = page.pgAck
        /\ page'.flag = page.flag /\ page'.eq = page.eq /\ page'.pg = page.pg
    <2>1. page' = [page EXCEPT !.live = TRUE]
      BY DEF Start, Opened
    <2> QED BY <1>a, <2>1 DEF Pages
  <1>c. /\ counts' \in [req : 0..MaxReq, pg : 0..MaxPg, starts : 0..MaxStarts]
        /\ counts'.req = counts.req /\ counts'.pg = counts.pg
    <2>1. counts' = [counts EXCEPT !.starts = @ + 1] /\ counts.starts < MaxStarts
      BY DEF Start
    <2>2. counts.starts + 1 \in 0..MaxStarts
      BY <1>a, <2>1, Bounds
    <2> QED BY <1>a, <2>1, <2>2
  <1>s. served' = [req |-> 0, pg |-> 0]
    BY DEF Start
  <1>2. TypeOK'
    BY <1>0, <1>w, <1>e, <1>p, <1>c, <1>s, Bounds DEF TypeOK
  <1>3. InOrder' /\ Stored' /\ PageIsWanted'
    BY <1>0, <1>w, <1>p, WritersRest DEF Stored, PageIsWanted, Settled
  <1>4. Generations'
    BY <1>0, <1>a, <1>w, <1>e, <1>p, <1>c, <1>s, WritersRest DEF Generations, Copying
  <1>5. CopyIsWanted'
    BY <1>e DEF CopyIsWanted, Copying
  <1>6. EngineIsWanted'
    BY <1>a, <1>p, <1>s DEF EngineIsWanted
  <1> QED BY <1>2, <1>3, <1>4, <1>5, <1>6 DEF IInv

LEMMA GoneKeeps ==
  ASSUME IInv, Stop \/ Crash
  PROVE  IInv'
  <1>0. TypeOK /\ InOrder /\ Stored /\ PageIsWanted /\ Generations /\ CopyIsWanted /\ EngineIsWanted
    BY DEF IInv
  <1>a. page \in Pages
    BY <1>0 DEF TypeOK
  <1>w. UNCHANGED <<todo, request, want, served, spoiled, counts>>
        /\ eng' = NoEngine /\ snap' = NoSnap /\ eng'.pc = "off"
    BY DEF Stop, Crash, NoEngine
  <1>p. /\ page' \in Pages /\ page'.prof = page.prof /\ page'.req = page.req /\ page'.ack = page.ack
        /\ page'.pgReq = page.pgReq /\ page'.pgAck = page.pgAck
        /\ page'.flag = page.flag /\ page'.eq = page.eq /\ page'.pg = page.pg
    <2>1. page' = [page EXCEPT !.live = FALSE] \/ page' = page
      BY DEF Stop, Crash
    <2> QED BY <1>a, <2>1 DEF Pages
  <1>2. TypeOK'
    BY <1>0, <1>w, <1>p, FreshTypes DEF TypeOK
  <1>3. InOrder' /\ Stored' /\ PageIsWanted'
    BY <1>0, <1>w, <1>p, WritersRest DEF Stored, PageIsWanted, Settled
  <1>4. Generations'
    BY <1>0, <1>w, <1>p, WritersRest DEF Generations, Copying
  <1>5. CopyIsWanted'
    BY <1>w DEF CopyIsWanted, Copying
  <1>6. EngineIsWanted'
    BY <1>w DEF EngineIsWanted
  <1> QED BY <1>2, <1>3, <1>4, <1>5, <1>6 DEF IInv

-----------------------------------------------------------------------------
\* The writers.

\* The lock holder's next store is the first of its request's stores it
\* has not done yet.
LEMMA NextStore ==
  ASSUME TypeOK, InOrder, todo # <<>>
  PROVE  /\ request \in Requests /\ todo \in Seq(Words \cup {"gen", "pgGen"})
         /\ Len(todo) \in Nat /\ Len(todo) > 0 /\ Len(Stores) \in Nat
         /\ StoredTo \in 0..Len(Stores) - 1
         /\ Head(todo) = Stores[StoredTo + 1]
         /\ \A i \in 1..Len(todo) : todo[i] = Stores[StoredTo + i]
  <1>1. request \in Requests /\ todo \in Seq(Words \cup {"gen", "pgGen"})
    BY DEF TypeOK
  <1>2. Len(todo) \in Nat /\ Len(todo) > 0 /\ Head(todo) = todo[1]
    BY <1>1
  <1>3. Len(Stores) \in Nat
    BY <1>1, StoresShape DEF Stores
  <1>4. Len(todo) <= Len(Stores) /\ \A i \in 1..Len(todo) : todo[i] = Stores[StoredTo + i]
    BY DEF InOrder
  <1>5. StoredTo \in 0..Len(Stores) - 1
    BY <1>2, <1>3, <1>4 DEF StoredTo
  <1> QED BY <1>1, <1>2, <1>3, <1>4, <1>5

\* A writer takes the lock, and has stored nothing yet.
LEMMA RequestKeeps ==
  ASSUME IInv, RequestProfile \/ RequestEq \/ RequestPostgain
  PROVE  IInv'
  <1>0. TypeOK /\ InOrder /\ Stored /\ PageIsWanted /\ Generations /\ CopyIsWanted /\ EngineIsWanted
    BY DEF IInv
  <1>a. /\ counts \in [req : 0..MaxReq, pg : 0..MaxPg, starts : 0..MaxStarts]
        /\ request = NoRequest <=> todo = <<>>
        /\ page.req \in Nat /\ page.pgReq \in Nat
    BY <1>0, Bounds DEF TypeOK, Pages
  <1>w. UNCHANGED <<page, eng, snap, want, served, spoiled>> /\ todo = <<>>
    BY DEF RequestProfile, RequestEq, RequestPostgain, Lock
  <1>r. PICK r \in Requests : request' = r /\ todo' = StoresOf(r)
    <2>1. CASE RequestProfile
      <3>1. PICK q \in PageProfiles :
              Lock([kind |-> "main", prof |-> q, value |-> Flat], <<"prof", "gen">>)
        BY <2>1 DEF RequestProfile
      <3> QED BY <3>1 DEF Lock, Requests, StoresOf, Band
    <2>2. CASE RequestEq
      <3>1. PICK v \in Values : Lock([kind |-> "main", prof |-> "custom", value |-> v], EqStores)
        BY <2>2 DEF RequestEq
      <3>2. v # Flat
        BY ControlAssumption
      <3> QED BY <3>1, <3>2 DEF Lock, Requests, StoresOf, Band, PageProfiles
    <2>3. CASE RequestPostgain
      <3>1. PICK g \in Gains : Lock([kind |-> "pg", value |-> g], PgStores)
        BY <2>3 DEF RequestPostgain
      <3> QED BY <3>1 DEF Lock, Requests, StoresOf
    <2> QED BY <2>1, <2>2, <2>3
  <1>k. /\ counts' \in [req : 0..MaxReq, pg : 0..MaxPg, starts : 0..MaxStarts]
        /\ r.kind = "main" => counts'.req = counts.req + 1 /\ counts'.pg = counts.pg
        /\ r.kind = "pg" => counts'.req = counts.req /\ counts'.pg = counts.pg + 1
    <2>1. CASE RequestProfile \/ RequestEq
      <3>1. counts' = [counts EXCEPT !.req = counts.req + 1] /\ counts.req < MaxReq
        BY <2>1 DEF RequestProfile, RequestEq
      <3>2. r.kind = "main"
        BY <1>r, <2>1 DEF RequestProfile, RequestEq, Lock
      <3>3. counts.req + 1 \in 0..MaxReq
        BY <1>a, <3>1, Bounds
      <3> QED BY <1>a, <3>1, <3>2, <3>3
    <2>2. CASE RequestPostgain
      <3>1. counts' = [counts EXCEPT !.pg = counts.pg + 1] /\ counts.pg < MaxPg
        BY <2>2 DEF RequestPostgain
      <3>2. r.kind = "pg"
        BY <1>r, <2>2 DEF RequestPostgain, Lock
      <3>3. counts.pg + 1 \in 0..MaxPg
        BY <1>a, <3>1, Bounds
      <3> QED BY <1>a, <3>1, <3>2, <3>3
    <2> QED BY <2>1, <2>2
  <1>t. /\ todo' \in Seq(Words \cup {"gen", "pgGen"}) /\ todo' # <<>> /\ request' # NoRequest
        /\ Len(Stores') \in Nat /\ Stores' = todo' /\ StoredTo' = 0
    <2>1. Stores' = todo'
      BY <1>r DEF Stores, StoresOf
    <2>2. Len(todo') \in Nat /\ Len(todo') > 1 /\ todo' \in Seq(Words \cup {"gen", "pgGen"})
      BY <1>r, StoresShape
    <2>3. request' # NoRequest
      BY <1>r DEF Requests, NoRequest
    <2>4. StoredTo' = 0
      BY <2>1, <2>2 DEF StoredTo
    <2> QED BY <2>1, <2>2, <2>3, <2>4
  <1>s. \A x : Settled(x)' => Settled(x)
    BY <1>w DEF Settled, Writing
  <1>2. TypeOK'
    BY <1>0, <1>w, <1>r, <1>k, <1>t DEF TypeOK
  <1>3. InOrder'
    BY <1>t DEF InOrder
  <1>4. Stored'
    BY <1>t DEF Stored
  <1>5. PageIsWanted'
    BY <1>0, <1>w, <1>s DEF PageIsWanted
  <1>6. Generations'
    <2>1. InFlight("main") = 0 /\ InFlight("pg") = 0
      BY <1>a, <1>w DEF InFlight, NoRequest
    <2>2. /\ r.kind = "main" => InFlight("main")' = 1 /\ InFlight("pg")' = 0
          /\ r.kind = "pg" => InFlight("main")' = 0 /\ InFlight("pg")' = 1
      BY <1>r DEF InFlight
    <2>3. r.kind \in {"main", "pg"}
      BY DEF Requests
    <2> QED BY <1>0, <1>a, <1>w, <1>k, <2>1, <2>2, <2>3 DEF Generations, Copying
  <1>7. CopyIsWanted'
    BY <1>0, <1>w, <1>s DEF CopyIsWanted, Copying
  <1>8. EngineIsWanted'
    BY <1>0, <1>w, <1>s DEF EngineIsWanted
  <1> QED BY <1>2, <1>3, <1>4, <1>5, <1>6, <1>7, <1>8 DEF IInv

\* A writer dies: what its request touches is spoiled.
LEMMA DieKeeps ==
  ASSUME IInv, Die
  PROVE  IInv'
  <1>0. TypeOK /\ InOrder /\ Stored /\ PageIsWanted /\ Generations /\ CopyIsWanted /\ EngineIsWanted
    BY DEF IInv
  <1>a. counts.req \in Nat /\ counts.pg \in Nat /\ page.req \in Nat /\ page.pgReq \in Nat
    BY <1>0, Bounds DEF TypeOK, Pages
  <1>w. /\ UNCHANGED <<page, eng, snap, want, served, counts>> /\ todo # <<>>
        /\ todo' = <<>> /\ request' = NoRequest /\ spoiled' = spoiled \cup Touched
    BY DEF Die
  <1>s. \A x : Settled(x)' => Settled(x)
    BY <1>w DEF Settled, Writing
  <1>2. TypeOK'
    <2>1. Touched \subseteq {"prof", "eq", "pg"}
      BY DEF Touched
    <2>2. todo' \in Seq(Words \cup {"gen", "pgGen"})
      BY <1>w
    <2> QED BY <1>0, <1>w, <2>1, <2>2 DEF TypeOK
  <1>3. InOrder' /\ Stored'
    BY <1>w DEF InOrder, Stored
  <1>5. PageIsWanted'
    BY <1>0, <1>w, <1>s DEF PageIsWanted
  <1>6. Generations'
    <2>1. \A k \in {"main", "pg"} : InFlight(k) \in {0, 1} /\ InFlight(k)' = 0
      BY <1>w DEF InFlight, NoRequest
    <2> QED BY <1>0, <1>a, <1>w, <2>1 DEF Generations, Copying
  <1>7. CopyIsWanted'
    BY <1>0, <1>w, <1>s DEF CopyIsWanted, Copying
  <1>8. EngineIsWanted'
    BY <1>0, <1>w, <1>s DEF EngineIsWanted
  <1> QED BY <1>2, <1>3, <1>5, <1>6, <1>7, <1>8 DEF IInv

\* What a store of a payload word does.
LEMMA StoredWord ==
  ASSUME IInv, Store, todo' # <<>>, NEW w, w = Head(todo)
  PROVE  /\ w \in Words /\ StoredTo < Len(Stores) - 1 /\ w = Stores[StoredTo + 1]
         /\ w = "prof" => Main(request)
         /\ w = "pg" => ~Main(request)
         /\ w \in Bands \cup {"flag"} => Main(request) /\ request.value # Flat
         /\ page' \in Pages /\ page'.req = page.req /\ page'.ack = page.ack
         /\ page'.pgReq = page.pgReq /\ page'.pgAck = page.pgAck
         /\ page'.prof = IF w = "prof" THEN request.prof ELSE page.prof
         /\ page'.pg = IF w = "pg" THEN request.value ELSE page.pg
         /\ page'.flag = IF w = "flag" THEN TRUE ELSE page.flag
         /\ \A b \in Bands : page'.eq[b] = IF w = b THEN request.value ELSE page.eq[b]
         /\ w \notin Bands => page'.eq = page.eq
         /\ want' = want
         /\ spoiled' = spoiled \ (IF w \in {"prof", "pg"} THEN {w}
                                  ELSE IF w = "flag" THEN {"eq"} ELSE {})
  <1>0. TypeOK /\ InOrder /\ todo # <<>>
    BY DEF IInv, Store
  <1>1. page \in Pages /\ request \in Requests
    BY <1>0, NextStore DEF TypeOK
  <1>2. todo' = Tail(todo)
    BY DEF Store
  <1>3. Len(todo) > 1
    BY <1>0, <1>2, NextStore
  <1>4. StoredTo < Len(Stores) - 1 /\ StoredTo \in Nat /\ w = Stores[StoredTo + 1]
    BY <1>0, <1>3, NextStore DEF StoredTo
  <1>5. StoredTo + 1 \in 1..Len(Stores) - 1
    BY <1>0, <1>4, NextStore
  <1>6. /\ w \in Words
        /\ w = "prof" => Main(request)
        /\ w = "pg" => ~Main(request)
        /\ w \in Bands \cup {"flag"} => Main(request) /\ request.value # Flat
    BY <1>1, <1>4, <1>5, StoresShape DEF Stores
  <1>n. Bands \cap {"flag", "prof", "pg", "gen", "pgGen"} = {}
    BY ControlAssumption
  <1>7. w \notin {"gen", "pgGen"}
    BY <1>6, <1>n DEF Words
  <1>8. /\ w = "prof" => request.prof \in PageProfiles
        /\ w \in Bands => request.value \in Band
        /\ w = "pg" => request.value \in Gain
    BY <1>1, <1>6 DEF Requests, Main, Gain
  <1>9. want' = want
    BY <1>7 DEF Store
  <1>10. spoiled' = spoiled \ (IF w \in {"prof", "pg"} THEN {w}
                               ELSE IF w = "flag" THEN {"eq"} ELSE {})
    <2>1. spoiled' = CASE w \in {"prof", "pg"} -> spoiled \ {w}
                       [] w = "flag" -> spoiled \ {"eq"}
                       [] OTHER -> spoiled
      BY DEF Store
    <2> QED BY <2>1
  <1>11. page' = CASE w = "flag" -> [page EXCEPT !.flag = TRUE]
                   [] w = "prof" -> [page EXCEPT !.prof = request.prof]
                   [] w = "pg" -> [page EXCEPT !.pg = request.value]
                   [] w = "gen" -> [page EXCEPT !.req = @ + 1]
                   [] w = "pgGen" -> [page EXCEPT !.pgReq = @ + 1]
                   [] OTHER -> [page EXCEPT !.eq[w] = request.value]
    BY DEF Store
  <1>12. /\ page' \in Pages /\ page'.req = page.req /\ page'.ack = page.ack
         /\ page'.pgReq = page.pgReq /\ page'.pgAck = page.pgAck
         /\ page'.prof = IF w = "prof" THEN request.prof ELSE page.prof
         /\ page'.pg = IF w = "pg" THEN request.value ELSE page.pg
         /\ page'.flag = IF w = "flag" THEN TRUE ELSE page.flag
         /\ \A b \in Bands : page'.eq[b] = IF w = b THEN request.value ELSE page.eq[b]
         /\ w \notin Bands => page'.eq = page.eq
    <2>1. CASE w \in Bands
      <3>1. page' = [page EXCEPT !.eq = [@ EXCEPT ![w] = request.value]]
        BY <1>1, <1>11, <1>n, <2>1 DEF Pages
      <3>2. page.eq \in Curves
        BY <1>1 DEF Pages
      <3>3. [page.eq EXCEPT ![w] = request.value] \in Curves
        BY <1>8, <2>1, <3>2 DEF Curves
      <3>4. \A b \in Bands : [page.eq EXCEPT ![w] = request.value][b] = IF w = b THEN request.value ELSE page.eq[b]
        BY <3>2 DEF Curves
      <3> QED BY <1>1, <1>n, <2>1, <3>1, <3>3, <3>4 DEF Pages
    <2>2. CASE w = "flag"
      BY <1>1, <1>11, <1>n, <2>2 DEF Pages
    <2>3. CASE w = "prof"
      BY <1>1, <1>8, <1>11, <1>n, <2>3 DEF Pages
    <2>4. CASE w = "pg"
      BY <1>1, <1>8, <1>11, <1>n, <2>4 DEF Pages
    <2> QED BY <1>6, <2>1, <2>2, <2>3, <2>4 DEF Words
  <1> QED BY <1>4, <1>6, <1>9, <1>10, <1>12

LEMMA StoreWordKeeps ==
  ASSUME IInv, Store, todo' # <<>>
  PROVE  IInv'
  <1>0. TypeOK /\ InOrder /\ Stored /\ PageIsWanted /\ Generations /\ CopyIsWanted /\ EngineIsWanted
    BY DEF IInv
  <1> DEFINE w == Head(todo)
  <1>w. /\ UNCHANGED <<eng, snap, served, counts>> /\ todo # <<>>
        /\ todo' = Tail(todo) /\ request' = request
    BY DEF Store
  <1>n. /\ request \in Requests /\ todo \in Seq(Words \cup {"gen", "pgGen"})
        /\ Len(todo) \in Nat /\ Len(todo) > 1 /\ Len(Stores) \in Nat
        /\ StoredTo \in 0..Len(Stores) - 1
        /\ \A i \in 1..Len(todo) : todo[i] = Stores[StoredTo + i]
    BY <1>0, <1>w, NextStore
  <1>t. /\ todo' \in Seq(Words \cup {"gen", "pgGen"}) /\ Len(todo') = Len(todo) - 1
        /\ \A i \in 1..Len(todo') : todo'[i] = todo[i + 1]
        /\ Stores' = Stores /\ StoredTo' = StoredTo + 1
    <2>1. /\ todo' \in Seq(Words \cup {"gen", "pgGen"}) /\ Len(todo') = Len(todo) - 1
          /\ \A i \in 1..Len(todo') : todo'[i] = todo[i + 1]
      BY <1>w, <1>n
    <2>2. Stores' = Stores
      BY <1>w DEF Stores, StoresOf
    <2> QED BY <1>n, <2>1, <2>2 DEF StoredTo
  <1>x. \A x : Writing(x)' <=> x \in Touched
    BY <1>w DEF Writing, Touched
  <1>y. \A x : Writing(x) <=> x \in Touched
    BY <1>w DEF Writing
  <1>p. /\ w \in Words /\ w = Stores[StoredTo + 1]
        /\ w = "prof" => Main(request)
        /\ w = "pg" => ~Main(request)
        /\ w \in Bands \cup {"flag"} => Main(request) /\ request.value # Flat
        /\ page' \in Pages /\ page'.req = page.req /\ page'.ack = page.ack
        /\ page'.pgReq = page.pgReq /\ page'.pgAck = page.pgAck
        /\ page'.prof = IF w = "prof" THEN request.prof ELSE page.prof
        /\ page'.pg = IF w = "pg" THEN request.value ELSE page.pg
        /\ page'.flag = IF w = "flag" THEN TRUE ELSE page.flag
        /\ \A b \in Bands : page'.eq[b] = IF w = b THEN request.value ELSE page.eq[b]
        /\ w \notin Bands => page'.eq = page.eq
        /\ want' = want
        /\ spoiled' = spoiled \ (IF w \in {"prof", "pg"} THEN {w}
                                 ELSE IF w = "flag" THEN {"eq"} ELSE {})
    BY StoredWord
  <1> HIDE DEF w
  <1>z. /\ w = "prof" => "prof" \in Touched
        /\ w = "pg" => "pg" \in Touched
        /\ w \in Bands \cup {"flag"} => "eq" \in Touched
    <2>1. request.kind \in {"main", "pg"}
      BY <1>n DEF Requests
    <2> QED BY <1>p, <2>1 DEF Main, Touched
  <1>s. \A x : Settled(x)' => Settled(x) /\ x \notin Touched
    BY <1>p, <1>x, <1>y, <1>z DEF Settled
  <1>u. /\ Settled("prof")' => page'.prof = page.prof
        /\ Settled("pg")' => page'.pg = page.pg
        /\ Settled("eq")' => page'.flag = page.flag /\ page'.eq = page.eq
    BY <1>p, <1>s, <1>z
  <1>2. TypeOK'
    <2>1. spoiled' \subseteq {"prof", "eq", "pg"}
      BY <1>0, <1>p DEF TypeOK
    <2>2. request' # NoRequest
      BY <1>w, <1>n DEF Requests, NoRequest
    <2> QED BY <1>0, <1>w, <1>n, <1>t, <1>p, <2>1, <2>2 DEF TypeOK
  <1>3. InOrder'
    <2>1. Len(todo') <= Len(Stores')
      BY <1>n, <1>t DEF StoredTo
    <2>2. \A i \in 1..Len(todo') : todo'[i] = Stores'[StoredTo' + i]
      <3> SUFFICES ASSUME NEW i \in 1..Len(todo')
                   PROVE  todo'[i] = Stores[(StoredTo + 1) + i]
        BY <1>t
      <3>1. i + 1 \in 1..Len(todo) /\ StoredTo + (i + 1) = (StoredTo + 1) + i
        BY <1>n, <1>t
      <3> QED BY <1>n, <1>t, <3>1
    <2> QED BY <2>1, <2>2 DEF InOrder
  <1>4. Stored'
    <2> SUFFICES ASSUME NEW i \in 1..StoredTo + 1
                 PROVE  /\ Stores[i] = "prof" => page'.prof = request.prof \/ "prof" \in spoiled'
                        /\ Stores[i] = "pg" => page'.pg = request.value
                        /\ Stores[i] \in Bands => page'.eq[Stores[i]] = request.value
      BY <1>w, <1>t DEF Stored
    <2>1. CASE i = StoredTo + 1
      BY <1>p, <2>1
    <2>2. CASE i # StoredTo + 1
      <3>1. i \in 1..StoredTo
        BY <1>n, <2>2
      <3>2. /\ Stores[i] = "prof" => page.prof = request.prof \/ "prof" \in spoiled
            /\ Stores[i] = "pg" => page.pg = request.value
            /\ Stores[i] \in Bands => page.eq[Stores[i]] = request.value
        BY <1>0, <1>w, <3>1 DEF Stored
      <3> QED BY <1>p, <3>2
    <2> QED BY <2>1, <2>2
  <1>5. PageIsWanted'
    BY <1>0, <1>p, <1>s, <1>u DEF PageIsWanted
  <1>6. Generations'
    <2>1. \A k : InFlight(k)' = InFlight(k)
      BY <1>w DEF InFlight
    <2> QED BY <1>0, <1>w, <1>p, <2>1 DEF Generations, Copying
  <1>7. CopyIsWanted'
    BY <1>0, <1>w, <1>p, <1>s, <1>u DEF CopyIsWanted, Copying
  <1>8. EngineIsWanted'
    BY <1>0, <1>w, <1>p, <1>s, <1>u DEF EngineIsWanted
  <1> QED BY <1>2, <1>3, <1>4, <1>5, <1>6, <1>7, <1>8 DEF IInv

\* The generation, the last store, makes what is in the page what is
\* wanted; no copy and no engine has the new generation yet.
LEMMA StoreGenerationKeeps ==
  ASSUME IInv, Store, todo' = <<>>
  PROVE  IInv'
  <1>0. TypeOK /\ InOrder /\ Stored /\ PageIsWanted /\ Generations /\ CopyIsWanted /\ EngineIsWanted
    BY DEF IInv
  <1> DEFINE w == Head(todo)
             S == Stores
             n == Len(S)
  <1>w. /\ UNCHANGED <<eng, snap, served, counts>> /\ todo # <<>>
        /\ todo' = Tail(todo) /\ request' = NoRequest
    BY DEF Store
  <1>a. /\ page \in Pages /\ page.req \in Nat /\ page.pgReq \in Nat /\ page.ack \in Nat /\ page.pgAck \in Nat
        /\ want \in [prof : PageProfiles, eq : Curves, pg : Gain]
        /\ counts.req \in 0..MaxReq /\ counts.pg \in 0..MaxPg /\ request \in Requests
        /\ page.ack <= page.req /\ page.pgAck <= page.pgReq
    BY <1>0, <1>w, Bounds, NextStore DEF TypeOK, Pages
  <1>n. StoredTo = n - 1 /\ n \in Nat /\ w = GenWord(request)
    <2>1. Len(todo) = 1
      <3>1. todo \in Seq(Words \cup {"gen", "pgGen"}) /\ todo # <<>>
        BY <1>0, <1>w, NextStore
      <3>2. Len(Tail(todo)) = Len(todo) - 1 /\ Len(todo) \in Nat
        BY <3>1
      <3>3. Len(todo') = 0
        OBVIOUS
      <3>4. Len(todo') = Len(todo) - 1
        BY <1>w, <3>2
      <3> QED BY <3>2, <3>3, <3>4
    <2> QED BY <1>0, <1>a, <1>w, <2>1, NextStore, StoresShape DEF StoredTo, Stores
  <1>k. request.kind \in {"main", "pg"}
    BY <1>a DEF Requests
  <1>g. /\ spoiled' = spoiled /\ want' = Asked
        /\ Main(request) => page' = [page EXCEPT !.req = @ + 1]
        /\ ~Main(request) => page' = [page EXCEPT !.pgReq = @ + 1]
    <2>1. w \in {"gen", "pgGen"} /\ (Main(request) <=> w = "gen")
      BY <1>n, <1>k DEF GenWord, Main
    <2> QED BY <2>1 DEF Store
  <1>p. /\ page' \in Pages /\ page'.ack = page.ack /\ page'.pgAck = page.pgAck
        /\ page'.prof = page.prof /\ page'.pg = page.pg /\ page'.flag = page.flag /\ page'.eq = page.eq
        /\ page'.req = IF Main(request) THEN page.req + 1 ELSE page.req
        /\ page'.pgReq = IF Main(request) THEN page.pgReq ELSE page.pgReq + 1
        /\ page'.req <= counts.req /\ page'.pgReq <= counts.pg
    <2>1. CASE Main(request)
      <3>1. page.req + 1 <= counts.req /\ page.pgReq <= counts.pg
        BY <1>0, <1>a, <2>1 DEF Generations, InFlight, Main
      <3>2. page.req + 1 \in 0..MaxReq
        BY <1>a, <3>1, Bounds
      <3> QED BY <1>a, <1>g, <2>1, <3>1, <3>2 DEF Pages
    <2>2. CASE ~Main(request)
      <3>1. page.req <= counts.req /\ page.pgReq + 1 <= counts.pg
        BY <1>0, <1>a, <1>k, <2>2 DEF Generations, InFlight, Main
      <3>2. page.pgReq + 1 \in 0..MaxPg
        BY <1>a, <3>1, Bounds
      <3> QED BY <1>a, <1>g, <2>2, <3>1, <3>2 DEF Pages
    <2> QED BY <2>1, <2>2
  <1>h. /\ want' \in [prof : PageProfiles, eq : Curves, pg : Gain]
        /\ want'.pg = IF Main(request) THEN want.pg ELSE request.value
        /\ want'.prof = IF Main(request) THEN request.prof ELSE want.prof
        /\ want'.eq = IF Main(request) /\ request.value # Flat THEN Curve(request.value) ELSE want.eq
    <2>1. CASE Main(request)
      <3>1. want' = [want EXCEPT !.prof = request.prof,
                      !.eq = IF request.value = Flat THEN @ ELSE Curve(request.value)]
        BY <1>g, <2>1 DEF Asked, Main
      <3>2. request.prof \in PageProfiles /\ Curve(request.value) \in Curves
        BY <1>a, <2>1 DEF Requests, Main, Curve, Curves
      <3> QED BY <1>a, <2>1, <3>1, <3>2
    <2>2. CASE ~Main(request)
      <3>1. want' = [want EXCEPT !.pg = request.value] /\ request.value \in Gain
        BY <1>a, <1>g, <1>k, <2>2 DEF Asked, Main, Requests, Gain
      <3> QED BY <1>a, <2>2, <3>1
    <2> QED BY <2>1, <2>2
  <1>x. \A x : Settled(x)' <=> x \notin spoiled
    BY <1>g DEF Settled, Writing
  <1>y. /\ "prof" \in Touched <=> Main(request)
        /\ "eq" \in Touched <=> Main(request) /\ request.value # Flat
        /\ "pg" \in Touched <=> ~Main(request)
    BY <1>k DEF Touched, Main
  <1>z. \A x : x \notin Touched /\ Settled(x)' => Settled(x)
    BY <1>x DEF Settled, Writing
  <1>2. TypeOK'
    <2>1. todo' \in Seq(Words \cup {"gen", "pgGen"})
      OBVIOUS
    <2>2. page'.ack <= page'.req /\ page'.pgAck <= page'.pgReq
      BY <1>a, <1>p
    <2> QED BY <1>0, <1>w, <1>p, <1>g, <1>h, <2>1, <2>2 DEF TypeOK
  <1>3. InOrder' /\ Stored'
    BY DEF InOrder, Stored
  <1>5. PageIsWanted'
    <2>1. Settled("prof")' => page'.prof = want'.prof
      <3>1. CASE Main(request)
        <4>1. PICK i \in 1..n - 1 : S[i] = "prof"
          BY <1>a, <3>1, StoresShape DEF Stores
        <4> QED BY <1>0, <1>w, <1>n, <1>p, <1>h, <1>x, <3>1, <4>1 DEF Stored
      <3>2. CASE ~Main(request)
        BY <1>0, <1>p, <1>h, <1>y, <1>z, <3>2 DEF PageIsWanted
      <3> QED BY <3>1, <3>2
    <2>2. Settled("eq")' => page'.eq = want'.eq
      <3>1. CASE Main(request) /\ request.value # Flat
        <4>1. \A b \in Bands : page.eq[b] = request.value
          <5> SUFFICES ASSUME NEW b \in Bands  PROVE page.eq[b] = request.value
            OBVIOUS
          <5>1. PICK i \in 1..n - 1 : S[i] = b
            BY <1>a, <3>1, StoresShape DEF Stores
          <5> QED BY <1>0, <1>w, <1>n, <5>1 DEF Stored
        <4>2. page.eq = Curve(request.value)
          BY <1>a, <4>1 DEF Pages, Curves, Curve
        <4> QED BY <1>p, <1>h, <3>1, <4>2
      <3>2. CASE ~(Main(request) /\ request.value # Flat)
        BY <1>0, <1>p, <1>h, <1>y, <1>z, <3>2 DEF PageIsWanted
      <3> QED BY <3>1, <3>2
    <2>3. Settled("pg")' => page'.pg = want'.pg
      <3>1. CASE ~Main(request)
        <4>1. PICK i \in 1..n - 1 : S[i] = "pg"
          BY <1>a, <3>1, StoresShape DEF Stores
        <4> QED BY <1>0, <1>w, <1>n, <1>p, <1>h, <3>1, <4>1 DEF Stored
      <3>2. CASE Main(request)
        BY <1>0, <1>p, <1>h, <1>y, <1>z, <3>2 DEF PageIsWanted
      <3> QED BY <3>1, <3>2
    <2> QED BY <2>1, <2>2, <2>3 DEF PageIsWanted
  <1>b. Copying => /\ snap.req \in page.ack..page.req /\ snap.pgReq \in page.pgAck..page.pgReq
    BY <1>0 DEF Generations
  <1>c. served.req \in 0..page.ack /\ served.pg \in 0..page.pgAck
    BY <1>0 DEF Generations
  <1>6. Generations'
    <2>1. InFlight("main")' = 0 /\ InFlight("pg")' = 0
      BY <1>w DEF InFlight, NoRequest
    <2>2. Copying' <=> Copying
      BY <1>w DEF Copying
    <2>3. Copying => snap.req \in page'.ack..page'.req /\ snap.pgReq \in page'.pgAck..page'.pgReq
      BY <1>a, <1>b, <1>p
    <2> QED BY <1>a, <1>c, <1>w, <1>p, <2>1, <2>2, <2>3 DEF Generations
  <1>7. CopyIsWanted'
    <2>1. CASE Main(request)
      <3>1. Copying => snap.req # page'.req
        BY <1>a, <1>b, <1>p, <2>1
      <3>2. "pg" \notin Touched
        BY <1>y, <2>1
      <3> QED BY <1>0, <1>w, <1>p, <1>h, <1>z, <2>1, <3>1, <3>2 DEF CopyIsWanted, Copying
    <2>2. CASE ~Main(request)
      <3>1. Copying => snap.pgReq # page'.pgReq
        BY <1>a, <1>b, <1>p, <2>2
      <3>2. "prof" \notin Touched /\ "eq" \notin Touched
        BY <1>y, <2>2
      <3> QED BY <1>0, <1>w, <1>p, <1>h, <1>z, <2>2, <3>1, <3>2 DEF CopyIsWanted, Copying
    <2> QED BY <2>1, <2>2
  <1>8. EngineIsWanted'
    <2>1. CASE Main(request)
      <3>1. served.req # page'.req
        BY <1>a, <1>c, <1>p, <2>1
      <3>2. "pg" \notin Touched
        BY <1>y, <2>1
      <3> QED BY <1>0, <1>w, <1>p, <1>h, <1>z, <2>1, <3>1, <3>2 DEF EngineIsWanted
    <2>2. CASE ~Main(request)
      <3>1. served.pg # page'.pgReq
        BY <1>a, <1>c, <1>p, <2>2
      <3>2. "prof" \notin Touched /\ "eq" \notin Touched
        BY <1>y, <2>2
      <3> QED BY <1>0, <1>w, <1>p, <1>h, <1>z, <2>2, <3>1, <3>2 DEF EngineIsWanted
    <2> QED BY <2>1, <2>2
  <1> QED BY <1>2, <1>3, <1>5, <1>6, <1>7, <1>8 DEF IInv

-----------------------------------------------------------------------------
LEMMA InitIInv == Init => IInv
  <1> SUFFICES ASSUME Init  PROVE IInv
    OBVIOUS
  <1>a. /\ page = FreshPage /\ todo = <<>> /\ request = NoRequest /\ eng = NoEngine /\ snap = NoSnap
        /\ want = [prof |-> "dynamic", eq |-> Curve(Flat), pg |-> Flat]
        /\ served = [req |-> 0, pg |-> 0] /\ spoiled = {}
        /\ counts = [req |-> 0, pg |-> 0, starts |-> 0]
    BY DEF Init
  <1>b. /\ page.req = 0 /\ page.ack = 0 /\ page.pgReq = 0 /\ page.pgAck = 0
        /\ page.prof = "dynamic" /\ page.eq = Curve(Flat) /\ page.pg = Flat /\ eng.pc = "off"
    BY <1>a DEF FreshPage, NoEngine
  <1>c. todo \in Seq(Words \cup {"gen", "pgGen"})
    BY <1>a
  <1>d. want \in [prof : PageProfiles, eq : Curves, pg : Gain]
    BY <1>a, FreshTypes DEF PageProfiles, Gain
  <1>1. TypeOK
    BY <1>a, <1>b, <1>c, <1>d, FreshTypes, Bounds DEF TypeOK
  <1>2. InOrder /\ Stored
    BY <1>a DEF InOrder, Stored
  <1>3. PageIsWanted
    BY <1>a, <1>b DEF PageIsWanted
  <1>4. Generations
    BY <1>a, <1>b DEF Generations, InFlight, NoRequest, Copying
  <1>5. CopyIsWanted /\ EngineIsWanted
    BY <1>b DEF CopyIsWanted, EngineIsWanted, Copying
  <1> QED BY <1>1, <1>2, <1>3, <1>4, <1>5 DEF IInv

LEMMA NextIInv == IInv /\ [Next]_vars => IInv'
  <1> SUFFICES ASSUME IInv, [Next]_vars  PROVE IInv'
    OBVIOUS
  <1>1. CASE RequestProfile \/ RequestEq \/ RequestPostgain
    BY <1>1, RequestKeeps
  <1>2. CASE Store
    BY <1>2, StoreWordKeeps, StoreGenerationKeeps
  <1>3. CASE Die
    BY <1>3, DieKeeps
  <1>4. CASE Start
    BY <1>4, StartKeeps
  <1>5. CASE Stop \/ Crash
    BY <1>5, GoneKeeps
  <1>6. CASE Test
    BY <1>6, TestKeeps
  <1>7. CASE Seed
    BY <1>7, SeedKeeps
  <1>8. CASE Publish
    BY <1>8, PublishKeeps
  <1>9. CASE BeginBlock
    BY <1>9, BlockKeeps
  <1>10. CASE Copy
    BY <1>10, CopyKeeps
  <1>11. CASE Resample
    BY <1>11, ResampleKeeps
  <1>12. CASE ApplyPostgain
    BY <1>12, ApplyPostgainKeeps
  <1>13. CASE Skip
    BY <1>13, SkipKeeps
  <1>14. CASE ApplyMain \/ RejectMain
    BY <1>14, MainKeeps
  <1>15. CASE UNCHANGED vars
    BY <1>15, Rest
  <1> QED
    BY <1>1, <1>2, <1>3, <1>4, <1>5, <1>6, <1>7, <1>8, <1>9, <1>10, <1>11,
       <1>12, <1>13, <1>14, <1>15 DEF Next, Writer, Engine

\* The page, the writers' stores, the engine and its copy keep their types
\* and bounds.
THEOREM PageTypeCorrect == Spec => []TypeOK
  <1>1. IInv => TypeOK
    BY DEF IInv
  <1> QED BY <1>1, InitIInv, NextIInv, PTL DEF Spec

\* What the page, a copy of the newest generation and the engine that has
\* applied it hold is what was asked for, at every step of a request.
THEOREM PageIInvCorrect == Spec => []IInv
  BY InitIInv, NextIInv, PTL DEF Spec

\* However many bands a request writes and wherever the engine's unlocked
\* copy falls between the stores of however many requests: once the engine
\* has applied the newest generation its profile, its stored curve, the
\* curve in use and its postgain are those asked for last.
THEOREM NewestWholeCorrect == Spec => []NewestIsWhole
  <1>1. IInv => NewestIsWhole
    <2> SUFFICES ASSUME IInv  PROVE NewestIsWhole
      OBVIOUS
    <2>1. EngineIsWanted
      BY DEF IInv
    <2>2. Running => eng.pc # "off"
      BY DEF Running
    <2>3. todo = <<>> => \A x : x \notin spoiled => Settled(x)
      BY DEF Settled, Writing
    <2> QED BY <2>1, <2>2, <2>3 DEF EngineIsWanted, NewestIsWhole
  <1> QED BY <1>1, PageIInvCorrect, PTL

\* Whoever starts, stops, crashes or dies, no generation and no
\* acknowledgement of the page goes back.
THEOREM NothingGoesBackCorrect == Spec => NothingGoesBack
  <1> DEFINE Forth == /\ page'.req >= page.req /\ page'.ack >= page.ack
                      /\ page'.pgReq >= page.pgReq /\ page'.pgAck >= page.pgAck
  <1>1. IInv /\ [Next]_vars => [Forth]_vars
    <2> SUFFICES ASSUME IInv, Next  PROVE Forth
      OBVIOUS
    <2>0. /\ page \in Pages /\ page.ack \in Nat /\ page.req \in Nat /\ page.pgAck \in Nat /\ page.pgReq \in Nat
          /\ eng \in Engines
          /\ Copying => snap.req \in page.ack..page.req /\ snap.pgReq \in page.pgAck..page.pgReq
      BY Bounds DEF IInv, TypeOK, Pages, Generations
    <2>1. CASE page' = page
      BY <2>0, <2>1
    <2>2. CASE Store
      <3>1. todo # <<>> /\ Head(todo) \in Words \cup {"gen", "pgGen"}
        BY <2>2, NextStore DEF IInv, Store
      <3>2. page'.req \in {page.req, page.req + 1} /\ page'.ack = page.ack
            /\ page'.pgReq \in {page.pgReq, page.pgReq + 1} /\ page'.pgAck = page.pgAck
        BY <2>0, <2>2 DEF Store, Pages
      <3> QED BY <2>0, <3>2
    <2>3. CASE Start \/ Stop \/ Seed \/ Publish
      <3>1. /\ page'.req = page.req /\ page'.ack = page.ack
            /\ page'.pgReq = page.pgReq /\ page'.pgAck = page.pgAck
        BY <2>0, <2>3 DEF Start, Opened, Stop, Seed, Publish, Pages
      <3> QED BY <2>0, <3>1
    <2>4. CASE ApplyPostgain
      <3>1. Copying
        BY <2>4 DEF ApplyPostgain, Copying
      <3>2. /\ page'.req = page.req /\ page'.ack = page.ack /\ page'.pgReq = page.pgReq
            /\ page'.pgAck \in {page.pgAck, snap.pgReq}
        BY <2>0, <2>4 DEF ApplyPostgain, Pages
      <3> QED BY <2>0, <3>1, <3>2
    <2>5. CASE ApplyMain \/ RejectMain
      <3>1. Copying
        BY <2>5 DEF ApplyMain, RejectMain, Copying
      <3>2. /\ page'.req = page.req /\ page'.ack = snap.req
            /\ page'.pgReq = page.pgReq /\ page'.pgAck = page.pgAck
        BY <2>0, <2>5 DEF ApplyMain, RejectMain, Acked, Pages
      <3> QED BY <2>0, <3>1, <3>2
    <2>6. CASE \/ RequestProfile \/ RequestEq \/ RequestPostgain \/ Die \/ Crash
               \/ Test \/ BeginBlock \/ Copy \/ Resample \/ Skip
      <3>1. page' = page
        BY <2>6 DEF RequestProfile, RequestEq, RequestPostgain, Die, Crash,
                    Test, BeginBlock, Copy, Resample, Skip
      <3> QED BY <2>1, <3>1
    <2> QED BY <2>2, <2>3, <2>4, <2>5, <2>6 DEF Next, Writer, Engine
  <1>2. [][Forth]_vars => NothingGoesBack
    BY PTL DEF NothingGoesBack
  <1> QED BY <1>1, <1>2, PageIInvCorrect, PTL DEF Spec

-----------------------------------------------------------------------------
\* Of the pieces of the engine one runs, and the others rest.
LEMMA EngineRuns ==
  EngineSpec => /\ Leveler!Init /\ [][Leveler!Next]_Leveler!vars
                /\ Core!Init /\ [][Core!Next]_Core!vars
                /\ Late!Init /\ [][Late!Next]_Late!vars
                /\ Chain!Init /\ [][Chain!Next]_Chain!vars
                /\ Analysis!Init /\ [][Analysis!Next]_Analysis!vars
                /\ Dialog!Init /\ [][Dialog!Next]_Dialog!vars
  <1>1. EngineInit => Leveler!Init /\ Core!Init /\ Late!Init /\ Chain!Init /\ Analysis!Init /\ Dialog!Init
    BY DEF EngineInit
  <1>2. [EngineNext]_engineVars => [Leveler!Next]_Leveler!vars
    BY DEF EngineNext, engineVars, levelerVars, Leveler!vars
  <1>3. [EngineNext]_engineVars => [Core!Next]_Core!vars
    BY DEF EngineNext, engineVars, coreVars, Core!vars, Core!filterVars, Core!limiterVars
  <1>4. [EngineNext]_engineVars => [Late!Next]_Late!vars
    BY DEF EngineNext, engineVars, lateVars, Late!vars
  <1>5. [EngineNext]_engineVars => [Chain!Next]_Chain!vars
    BY DEF EngineNext, engineVars, chainVars, Chain!vars
  <1>6. [EngineNext]_engineVars => [Analysis!Next]_Analysis!vars
    BY DEF EngineNext, engineVars, analysisVars, Analysis!vars
  <1>7. [EngineNext]_engineVars => [Dialog!Next]_Dialog!vars
    BY DEF EngineNext, engineVars, dialogVars, Dialog!vars
  <1> QED BY <1>1, <1>2, <1>3, <1>4, <1>5, <1>6, <1>7, PTL DEF EngineSpec

-----------------------------------------------------------------------------
\* The leveler.
RingIndex == 0 .. (RingSize - 1)
IsHist(h) ==
  /\ h = [fresh |-> h.fresh, peak |-> h.peak, phase |-> h.phase, pos |-> h.pos,
          count |-> h.count, given |-> h.given, ring |-> h.ring, bins |-> h.bins]
  /\ h.fresh \in BOOLEAN /\ {h.peak, h.phase, h.count, h.given} \subseteq Nat
  /\ h.pos \in RingIndex /\ h.ring \in [RingIndex -> Nat]

\* A peak is later than every entry, so the entries are told apart; the
\* bins are those of the ring, all of them since the event, none to come.
Histogram(h, evt, now) ==
  /\ IsHist(h)
  /\ h.count = IF h.given < RingSize THEN h.given ELSE RingSize
  /\ h.bins = {h.ring[i] : i \in RingIndex} \ {Leveler!NoEntry}
  /\ \A i \in RingIndex : h.ring[i] # 0 => h.ring[i] >= evt /\ h.ring[i] <= now
  /\ \A i, j \in RingIndex : h.ring[i] = h.ring[j] /\ h.ring[i] # 0 => i = j
  /\ ~h.fresh => /\ h.peak >= evt /\ h.peak <= now /\ h.peak # 0
                 /\ \A i \in RingIndex : h.ring[i] < h.peak

\* What the rows of a stage hold is of the block e or later.
Since(e, held, rows) == \A r \in rows : held[r] \in Nat /\ held[r] >= e
StagesSince(e) ==
  \A s \in Leveler!Stages \ Leveler!Lasting : Since(e, oldest[s], Leveler!RowsOf[s])

LevelerInv ==
  /\ blocks \in Nat /\ event \in Nat /\ since \in Nat \ {0} /\ age \in Nat
  /\ built \in BOOLEAN /\ enabled \in BOOLEAN /\ force \in BOOLEAN
  /\ event <= blocks
  /\ StagesSince(event)
  /\ Histogram(hist, event, blocks)
  /\ blocks >= since => event >= since
  /\ blocks < since => blocks + 1 = since /\ (built => force)

LEMMA RingIs == RingSize \in Nat \ {0} /\ Every \in Nat \ {0} /\ 0 \in RingIndex
BY EngineAssumption DEF Leveler!LevelerAssumption, RingIndex

LEMMA NewHistogramIs ==
  ASSUME NEW evt \in Nat, NEW now \in Nat
  PROVE  Histogram(Leveler!NewHistogram, evt, now)
  <1>1. IsHist(Leveler!NewHistogram)
    BY RingIs DEF IsHist, Leveler!NewHistogram, Leveler!NoEntry, RingIndex
  <1>2. /\ Leveler!NewHistogram.fresh = TRUE /\ Leveler!NewHistogram.given = 0
        /\ Leveler!NewHistogram.count = 0 /\ Leveler!NewHistogram.bins = {}
        /\ \A i \in RingIndex : Leveler!NewHistogram.ring[i] = 0
    BY DEF Leveler!NewHistogram, Leveler!NoEntry, RingIndex
  <1>3. {Leveler!NewHistogram.ring[i] : i \in RingIndex} \ {Leveler!NoEntry} = {}
    BY <1>2 DEF Leveler!NoEntry
  <1> QED BY <1>1, <1>2, <1>3, RingIs DEF Histogram

LEMMA LaterHistogram ==
  ASSUME NEW h, NEW evt \in Nat, NEW now \in Nat, Histogram(h, evt, now)
  PROVE  Histogram(h, evt, now + 1)
BY DEF Histogram, IsHist

LEMMA PushedIs ==
  ASSUME NEW h, NEW evt \in Nat, blocks \in Nat, evt <= blocks + 1,
         Histogram(h, evt, blocks), NEW louder \in BOOLEAN
  PROVE  Histogram(Leveler!Pushed(h, louder), evt, blocks + 1)
  <1> DEFINE q == Leveler!Pushed(h, louder)
  <1>1. PICK now \in Nat : now = blocks + 1 /\ blocks < now /\ evt <= now
    OBVIOUS
  <1>2. PICK peak0 : peak0 = IF h.fresh \/ louder THEN Leveler!Now ELSE h.peak
    OBVIOUS
  <1>3. /\ peak0 \in Nat /\ peak0 >= evt /\ peak0 <= now /\ peak0 # 0
        /\ \A i \in RingIndex : h.ring[i] < peak0
    <2>1. CASE h.fresh \/ louder
      <3>1. peak0 = now
        BY <1>1, <1>2, <2>1 DEF Leveler!Now
      <3>2. \A i \in RingIndex : h.ring[i] \in Nat /\ h.ring[i] < now
        BY <1>1, RingIs DEF Histogram, IsHist
      <3> QED BY <1>1, <3>1, <3>2
    <2>2. CASE ~(h.fresh \/ louder)
      BY <1>1, <1>2, <2>2 DEF Histogram, IsHist
    <2> QED BY <2>1, <2>2
  <1>4. CASE h.phase + 1 < Every
    <2>1. q = [h EXCEPT !.fresh = FALSE, !.peak = peak0, !.phase = @ + 1]
      BY <1>2, <1>4 DEF Leveler!Pushed
    <2>3. IsHist(h)
      BY DEF Histogram
    <2>4. /\ q.fresh \in BOOLEAN /\ ~q.fresh
          /\ q = [fresh |-> q.fresh, peak |-> q.peak, phase |-> q.phase, pos |-> q.pos,
                  count |-> q.count, given |-> q.given, ring |-> q.ring, bins |-> q.bins]
      BY <2>1, <2>3 DEF IsHist
    <2>5. /\ q.peak = peak0 /\ q.phase = h.phase + 1 /\ q.pos = h.pos
          /\ q.ring = h.ring /\ q.bins = h.bins /\ q.count = h.count /\ q.given = h.given
      BY <2>1, <2>3 DEF IsHist
    <2>6. /\ h.pos \in RingIndex /\ h.ring \in [RingIndex -> Nat]
          /\ h.phase \in Nat /\ h.count \in Nat /\ h.given \in Nat
      BY <2>3 DEF IsHist
    <2>2. IsHist(q)
      BY <1>3, <2>4, <2>5, <2>6 DEF IsHist
    <2> QED BY <1>1, <1>3, <2>2, <2>4, <2>5, <2>6 DEF Histogram
  <1>5. CASE ~(h.phase + 1 < Every)
    <2>1. q = [h EXCEPT !.fresh = TRUE, !.peak = peak0, !.phase = 0,
                     !.bins = (@ \ {h.ring[h.pos]}) \cup {peak0},
                     !.ring[h.pos] = peak0,
                     !.pos = (@ + 1) % RingSize, !.given = @ + 1,
                     !.count = IF @ < RingSize THEN @ + 1 ELSE RingSize]
      BY <1>2, <1>5 DEF Leveler!Pushed
    <2>2. IsHist(h) /\ h.pos \in RingIndex
      BY DEF Histogram, IsHist
    <2>3. /\ q.fresh /\ q.fresh \in BOOLEAN /\ q.peak = peak0 /\ q.phase = 0
          /\ q.bins = (h.bins \ {h.ring[h.pos]}) \cup {peak0}
          /\ q.ring = [h.ring EXCEPT ![h.pos] = peak0]
          /\ q.pos = (h.pos + 1) % RingSize /\ q.given = h.given + 1
          /\ q.count = IF h.count < RingSize THEN h.count + 1 ELSE RingSize
          /\ q = [fresh |-> q.fresh, peak |-> q.peak, phase |-> q.phase, pos |-> q.pos,
                  count |-> q.count, given |-> q.given, ring |-> q.ring, bins |-> q.bins]
      BY <2>1, <2>2 DEF IsHist
    <2>4. q.pos \in RingIndex
      BY <2>2, <2>3, RingIs DEF RingIndex
    <2>5. /\ q.ring \in [RingIndex -> Nat] /\ q.ring[h.pos] = peak0
          /\ \A i \in RingIndex \ {h.pos} : q.ring[i] = h.ring[i]
      BY <1>3, <2>2, <2>3 DEF IsHist
    <2>6. q.count \in Nat /\ q.given \in Nat
      BY <1>3, <2>2, <2>3, RingIs DEF IsHist
    <2>7. IsHist(q)
      BY <1>3, <2>3, <2>4, <2>5, <2>6 DEF IsHist
    <2>8. q.count = IF q.given < RingSize THEN q.given ELSE RingSize
      <3>1. h.count = IF h.given < RingSize THEN h.given ELSE RingSize
        BY DEF Histogram
      <3>2. h.given \in Nat
        BY <2>2 DEF IsHist
      <3> QED BY <2>3, <3>1, <3>2, RingIs
    <2>9. q.bins = {q.ring[i] : i \in RingIndex} \ {0}
      <3>1. h.bins = {h.ring[i] : i \in RingIndex} \ {0}
        BY DEF Histogram, Leveler!NoEntry
      <3>2. ASSUME NEW n \in q.bins PROVE n # 0 /\ \E i \in RingIndex : n = q.ring[i]
        <4>1. CASE n = peak0
          BY <1>3, <2>2, <2>5, <4>1
        <4>2. CASE n \in h.bins /\ n # h.ring[h.pos]
          <5>1. PICK i \in RingIndex : n = h.ring[i] /\ n # 0
            BY <3>1, <4>2
          <5>2. i # h.pos
            BY <4>2, <5>1
          <5> QED BY <2>5, <5>1, <5>2
        <4> QED BY <2>3, <3>2, <4>1, <4>2
      <3>3. ASSUME NEW i \in RingIndex, q.ring[i] # 0 PROVE q.ring[i] \in q.bins
        <4>1. CASE i = h.pos
          BY <2>3, <2>5, <4>1
        <4>2. CASE i # h.pos
          <5>1. q.ring[i] = h.ring[i] /\ h.ring[i] \in h.bins
            BY <2>5, <3>1, <3>3, <4>2
          <5>2. h.ring[i] # h.ring[h.pos]
            BY <2>2, <3>3, <4>2, <5>1 DEF Histogram
          <5> QED BY <2>3, <5>1, <5>2
        <4> QED BY <4>1, <4>2
      <3> QED BY <3>2, <3>3
    <2>10. \A i \in RingIndex : q.ring[i] # 0 => q.ring[i] >= evt /\ q.ring[i] <= now
      BY <1>1, <1>3, <2>2, <2>5 DEF Histogram, IsHist
    <2>11. \A i, j \in RingIndex : q.ring[i] = q.ring[j] /\ q.ring[i] # 0 => i = j
      BY <1>3, <2>2, <2>5 DEF Histogram, IsHist
    <2> QED BY <1>1, <2>3, <2>7, <2>8, <2>9, <2>10, <2>11 DEF Histogram, Leveler!NoEntry
  <1> QED BY <1>4, <1>5

LEMMA RowsAre ==
  /\ Leveler!Stages \ Leveler!Lasting =
       {"transition", "lookup", "cubic", "matrix", "secondary", "level", "offset", "fast", "slow"}
  /\ \A s \in {"transition", "secondary", "level", "offset"} : Leveler!RowsOf[s] = {0, 1, 2}
  /\ \A s \in {"lookup", "cubic", "fast", "slow"} : Leveler!RowsOf[s] = {2}
  /\ Leveler!RowsOf["matrix"] = {0, 1}
BY DEF Leveler!Stages, Leveler!Lasting, Leveler!RowsOf, Leveler!AllRows, Leveler!Channels, Leveler!Linked

\* A stage that is set, or that held nothing older, holds nothing older
\* than what it follows.
LEMMA FollowedIs ==
  ASSUME NEW e \in Nat, NEW s, NEW source, NEW evt \in BOOLEAN,
         Since(e, source, Leveler!RowsOf[s]),
         ~evt => Since(e, oldest[s], Leveler!RowsOf[s])
  PROVE  Since(e, Leveler!Followed(s, source, evt), Leveler!RowsOf[s])
BY DEF Since, Leveler!Followed, Leveler!Begun, Leveler!Anew, Leveler!Kept, Leveler!Older

LEMMA TransitionIs ==
  ASSUME NEW e \in Nat, blocks \in Nat, e <= blocks + 1, NEW copy \in BOOLEAN,
         NEW s \in {"transition", "lookup", "matrix"},
         ~copy => Since(e, oldest[s], Leveler!RowsOf[s])
  PROVE  Since(e, Leveler!Transition(s, copy), Leveler!RowsOf[s])
  <1>1. Since(e, Leveler!ThisBlock, Leveler!RowsOf[s])
    <2>1. \A r \in Leveler!RowsOf[s] : r \in Leveler!AllRows
      BY RowsAre DEF Leveler!AllRows, Leveler!Channels, Leveler!Linked
    <2> QED BY <2>1 DEF Since, Leveler!ThisBlock, Leveler!Now
  <1> QED BY <1>1 DEF Since, Leveler!Transition, Leveler!Anew, Leveler!Kept, Leveler!Older

LEMMA OldestIs ==
  ASSUME NEW e \in Nat, NEW held, Since(e, held, {0, 1, 2})
  PROVE  Leveler!OldestOf(held) \in Nat /\ Leveler!OldestOf(held) >= e
BY DEF Since, Leveler!OldestOf, Leveler!Older, Leveler!Linked

\* Each stage is of the block e or later if those it reads are: with an
\* event all that is read was copied or reset in this block.
LEMMA HeardIs ==
  ASSUME NEW e \in Nat, blocks \in Nat, e <= blocks + 1,
         NEW evt \in BOOLEAN, NEW copy \in BOOLEAN, NEW quiet \in BOOLEAN,
         evt => copy, ~evt => StagesSince(e)
  PROVE  \A s \in Leveler!Stages \ Leveler!Lasting :
           Since(e, Leveler!Heard(evt, copy, quiet)[s], Leveler!RowsOf[s])
  <1> DEFINE rows(s) == Leveler!RowsOf[s]
  <1>1. \A s \in Leveler!Stages \ Leveler!Lasting : ~evt => Since(e, oldest[s], rows(s))
    BY DEF StagesSince
  <1>2. PICK records : records = Leveler!Transition("transition", copy)
    OBVIOUS
  <1>3. PICK lookup : lookup = Leveler!Transition("lookup", copy)
    OBVIOUS
  <1>4. PICK matrix : matrix = Leveler!Transition("matrix", copy)
    OBVIOUS
  <1>5. Since(e, records, {0, 1, 2}) /\ Since(e, lookup, {2}) /\ Since(e, matrix, {0, 1})
    <2>1. \A s \in {"transition", "lookup", "matrix"} : ~copy => Since(e, oldest[s], rows(s))
      BY <1>1, RowsAre
    <2> QED BY <1>2, <1>3, <1>4, <2>1, TransitionIs, RowsAre
  <1> DEFINE Two(s, source, set) == Since(e, Leveler!Followed(s, source, set), {2})
  <1>15. \A s \in {"secondary", "level", "offset"} : \A source :
           Since(e, source, {0, 1, 2}) => Since(e, Leveler!Followed(s, source, evt), {0, 1, 2})
    <2> SUFFICES ASSUME NEW s \in {"secondary", "level", "offset"}, NEW source,
                        Since(e, source, {0, 1, 2})
                 PROVE  Since(e, Leveler!Followed(s, source, evt), {0, 1, 2})
      OBVIOUS
    <2>1. Leveler!RowsOf[s] = {0, 1, 2} /\ (~evt => Since(e, oldest[s], Leveler!RowsOf[s]))
      BY <1>1, RowsAre
    <2> QED BY <2>1, FollowedIs
  <1>16. \A s \in {"fast", "slow"} : \A source : \A set \in BOOLEAN :
           Since(e, source, {2}) /\ (evt => set) => Two(s, source, set)
    <2> SUFFICES ASSUME NEW s \in {"fast", "slow"}, NEW source, NEW set \in BOOLEAN,
                        Since(e, source, {2}), evt => set
                 PROVE  Two(s, source, set)
      OBVIOUS
    <2>1. Leveler!RowsOf[s] = {2} /\ (~set => Since(e, oldest[s], Leveler!RowsOf[s]))
      BY <1>1, RowsAre
    <2> QED BY <2>1, FollowedIs
  <1>6. PICK secondary : secondary = Leveler!Secondary(records, evt) /\ Since(e, secondary, {0, 1, 2})
    BY <1>5, <1>15 DEF Leveler!Secondary
  <1>7. PICK level : level = Leveler!Level(records, evt) /\ Since(e, level, {0, 1, 2})
    BY <1>5, <1>15 DEF Leveler!Level
  <1>8. PICK drawn : /\ drawn = Leveler!Pipeline(records, secondary, evt)
                     /\ drawn \in Nat /\ drawn >= e
    <2>1. ~evt => Since(e, oldest["level"], {0, 1, 2})
      BY <1>1, RowsAre
    <2> QED BY <1>5, <1>6, <2>1, OldestIs DEF Leveler!Pipeline, Leveler!Older
  <1>9. PICK offset : offset = Leveler!Offset(records, secondary, evt) /\ Since(e, offset, {0, 1, 2})
    <2>1. PICK pipe : pipe = [r \in Leveler!AllRows |-> Leveler!Pipeline(records, secondary, evt)]
      OBVIOUS
    <2>2. Since(e, pipe, {0, 1, 2})
      BY <1>8, <2>1 DEF Since, Leveler!AllRows, Leveler!Channels, Leveler!Linked
    <2> QED BY <1>15, <2>1, <2>2 DEF Leveler!Offset
  <1>10. PICK fast : fast = Leveler!Fast(records, secondary, offset, evt) /\ Since(e, fast, {2})
    <2>1. PICK mix : mix = [r \in {Leveler!Linked} |->
                 Leveler!Older(Leveler!Older(records[r], secondary[r]), offset[r])]
      OBVIOUS
    <2>2. Since(e, mix, {2})
      BY <1>5, <1>6, <1>9, <2>1 DEF Since, Leveler!Linked, Leveler!Older
    <2> QED BY <1>16, <2>1, <2>2 DEF Leveler!Fast
  <1>11. PICK slow : slow = Leveler!Slow(fast, evt, quiet) /\ Since(e, slow, {2})
    <2>1. ~evt => Since(e, oldest["slow"], {2})
      BY <1>1, RowsAre
    <2>2. Since(e, Leveler!Begun("slow", Leveler!ThisBlock), {2})
      BY RowsAre DEF Since, Leveler!Begun, Leveler!Anew, Leveler!ThisBlock, Leveler!Now, Leveler!AllRows,
         Leveler!Linked
    <2>3. PICK set \in BOOLEAN : set <=> evt \/ direct
      OBVIOUS
    <2>4. Since(e, Leveler!Followed("slow", fast, set), {2})
      BY <1>10, <1>16, <2>3
    <2>5. set = (evt \/ direct)
      BY <2>3
    <2> QED BY <2>1, <2>2, <2>4, <2>5 DEF Leveler!Slow
  <1>12. PICK cubic : cubic = Leveler!Cubic(lookup) /\ Since(e, cubic, {2})
    <2>1. PICK c : c = Leveler!Cubic(lookup)
      OBVIOUS
    <2>2. Leveler!RowsOf["cubic"] = {2}
      BY RowsAre
    <2>3. c = [r \in {2} |-> lookup[r]]
      BY <2>1, <2>2 DEF Leveler!Cubic, Leveler!Anew
    <2> QED BY <1>5, <2>1, <2>3 DEF Since
  <1>13. PICK held : held = Leveler!Heard(evt, copy, quiet)
    OBVIOUS
  <1>14. /\ held["transition"] = records /\ held["lookup"] = lookup /\ held["cubic"] = cubic
         /\ held["matrix"] = matrix /\ held["secondary"] = secondary /\ held["level"] = level
         /\ held["offset"] = offset /\ held["fast"] = fast /\ held["slow"] = slow
    BY <1>2, <1>3, <1>4, <1>6, <1>7, <1>9, <1>10, <1>11, <1>12, <1>13 DEF Leveler!Heard, Leveler!Matrix
  <1> QED BY <1>5, <1>6, <1>7, <1>9, <1>10, <1>11, <1>12, <1>13, <1>14, RowsAre

LEMMA ParentIs ==
  ASSUME LevelerInv,
         NEW drop \in BOOLEAN, NEW loud \in BOOLEAN, NEW push \in BOOLEAN,
         NEW louder \in BOOLEAN, NEW quiet \in BOOLEAN,
         Leveler!Parent(drop, loud, push, louder, quiet)
  PROVE  /\ age' \in Nat
         /\ event' = IF Leveler!Eventful(drop) THEN blocks + 1 ELSE event
         /\ StagesSince(event)'
         /\ Histogram(hist', event', blocks + 1)
  <1>1. PICK evt \in BOOLEAN : evt = Leveler!Eventful(drop)
    BY DEF Leveler!Eventful
  <1>2. age' \in Nat
    BY DEF Leveler!Parent, Leveler!Lifecycle, Leveler!Dropped, LevelerInv
  <1>3. event' = (IF evt THEN blocks + 1 ELSE event)
    BY <1>1 DEF Leveler!Parent, Leveler!Now
  <1>4. blocks \in Nat /\ event \in Nat /\ event <= blocks /\ StagesSince(event)
    BY DEF LevelerInv
  <1>5. PICK v \in Nat : v = event' /\ v <= blocks + 1 /\ (~evt => v = event)
    BY <1>3, <1>4
  <1>6. StagesSince(event)'
    <2>1. PICK copy \in BOOLEAN : copy = Leveler!Copied(evt, loud) /\ (evt => copy)
      BY DEF Leveler!Copied
    <2>2. oldest' = Leveler!Heard(evt, copy, quiet)
      BY <1>1, <2>1 DEF Leveler!Parent
    <2>3. ~evt => StagesSince(v)
      BY <1>4, <1>5
    <2>4. \A s \in Leveler!Stages \ Leveler!Lasting : Since(v, oldest'[s], Leveler!RowsOf[s])
      BY <1>4, <1>5, <2>1, <2>2, <2>3, HeardIs
    <2> QED BY <1>5, <2>4 DEF StagesSince
  <1>7. Histogram(hist', event', blocks + 1)
    <2>1. PICK h : h = IF evt THEN Leveler!NewHistogram ELSE hist
      OBVIOUS
    <2>2. hist' = (IF push THEN Leveler!Pushed(h, louder) ELSE h)
      BY <1>1, <2>1 DEF Leveler!Parent, Leveler!Counted
    <2>3. Histogram(h, v, blocks)
      BY <1>4, <1>5, <2>1, NewHistogramIs DEF LevelerInv
    <2> QED BY <1>4, <1>5, <2>2, <2>3, PushedIs, LaterHistogram
  <1> QED BY <1>1, <1>2, <1>3, <1>6, <1>7

LEMMA ProcessKeeps ==
  ASSUME LevelerInv,
         NEW drop \in BOOLEAN, NEW loud \in BOOLEAN, NEW push \in BOOLEAN,
         NEW louder \in BOOLEAN, NEW quiet \in BOOLEAN,
         Leveler!Process(drop, loud, push, louder, quiet)
  PROVE  LevelerInv'
  <1>1. /\ Leveler!Parent(drop, loud, push, louder, quiet)
        /\ built /\ enabled /\ blocks' = blocks + 1 /\ force' = ~enabled
        /\ UNCHANGED <<built, enabled, since>>
    BY DEF Leveler!Process, Leveler!Now, Leveler!ForceAfter
  <1>2. /\ blocks \in Nat /\ event \in Nat /\ since \in Nat \ {0} /\ event <= blocks
        /\ built \in BOOLEAN /\ enabled \in BOOLEAN /\ force \in BOOLEAN
        /\ blocks >= since => event >= since
        /\ blocks < since => blocks + 1 = since /\ (built => force)
    BY DEF LevelerInv
  <1>3. /\ age' \in Nat
        /\ event' = IF Leveler!Eventful(drop) THEN blocks + 1 ELSE event
        /\ StagesSince(event)'
        /\ Histogram(hist', event', blocks')
    BY <1>1, ParentIs
  <1>4. event' \in Nat /\ event' <= blocks' /\ event' >= event
    BY <1>1, <1>2, <1>3
  <1>5. blocks' >= since' => event' >= since'
    <2>1. CASE blocks >= since
      BY <1>1, <1>2, <1>4, <2>1
    <2>2. CASE blocks < since
      <3>1. force
        BY <1>1, <1>2, <2>2
      <3> QED BY <1>1, <1>2, <1>3, <2>2, <3>1 DEF Leveler!Eventful
    <2> QED BY <1>2, <2>1, <2>2
  <1>6. ~(blocks' < since')
    BY <1>1, <1>2
  <1> QED BY <1>1, <1>2, <1>3, <1>4, <1>5, <1>6 DEF LevelerInv

LEMMA LevelerKeeps == LevelerInv /\ [Leveler!Next]_Leveler!vars => LevelerInv'
  <1> SUFFICES ASSUME LevelerInv, [Leveler!Next]_Leveler!vars PROVE LevelerInv'
    OBVIOUS
  <1>1. CASE Leveler!Switch
    BY <1>1 DEF Leveler!Switch, LevelerInv, StagesSince
  <1>2. CASE Leveler!Layout
    <2>1. /\ built' /\ built' \in BOOLEAN /\ force' /\ force' \in BOOLEAN /\ oldest' = Leveler!Built
          /\ UNCHANGED <<blocks, enabled, hold, age, hist, event, since>>
      BY <1>2 DEF Leveler!Layout
    <2>2. StagesSince(event)'
      <3>1. \A s \in Leveler!Stages : \A r \in Leveler!RowsOf[s] : oldest'[s][r] = blocks + 1
        BY <2>1 DEF Leveler!Built, Leveler!Now
      <3>2. blocks \in Nat /\ event \in Nat /\ event <= blocks
        BY DEF LevelerInv
      <3> QED BY <2>1, <3>1, <3>2 DEF StagesSince, Since
    <2>3. /\ blocks \in Nat /\ event \in Nat /\ since \in Nat \ {0} /\ age \in Nat
          /\ enabled \in BOOLEAN /\ event <= blocks /\ Histogram(hist, event, blocks)
          /\ blocks >= since => event >= since
          /\ blocks < since => blocks + 1 = since
      BY DEF LevelerInv
    <2>4. Histogram(hist', event', blocks')
      BY <2>1, <2>3
    <2> QED BY <2>1, <2>2, <2>3, <2>4 DEF LevelerInv
  <1>3. CASE Leveler!Off
    <2>1. /\ blocks' = blocks + 1 /\ force' /\ force' \in BOOLEAN
          /\ since' = (blocks + 1) + 1
          /\ UNCHANGED <<built, enabled, age, oldest, hist, event>>
      BY <1>3 DEF Leveler!Off, Leveler!Now, Leveler!ForceAfter
    <2>2. /\ blocks \in Nat /\ event \in Nat /\ event <= blocks /\ age \in Nat
          /\ built \in BOOLEAN /\ enabled \in BOOLEAN
      BY DEF LevelerInv
    <2>3. Histogram(hist', event', blocks')
      <3>1. Histogram(hist, event, blocks)
        BY DEF LevelerInv
      <3> QED BY <2>1, <2>2, <3>1, LaterHistogram
    <2>4. StagesSince(event)'
      BY <2>1 DEF LevelerInv, StagesSince
    <2> QED BY <2>1, <2>2, <2>3, <2>4 DEF LevelerInv
  <1>4. CASE \E drop, loud, push, louder, quiet \in BOOLEAN :
               (louder => push) /\ Leveler!Process(drop, loud, push, louder, quiet)
    BY <1>4, ProcessKeeps
  <1>5. CASE UNCHANGED Leveler!vars
    BY <1>5 DEF Leveler!vars, LevelerInv, StagesSince
  <1>6. CASE Leveler!Done
    BY <1>5, <1>6 DEF Leveler!Done
  <1> QED BY <1>1, <1>2, <1>3, <1>4, <1>5, <1>6 DEF Leveler!Next

LEMMA LevelerStarts == Leveler!Init => LevelerInv
  <1> SUFFICES ASSUME Leveler!Init PROVE LevelerInv
    OBVIOUS
  <1>1. Histogram(hist, event, blocks)
    BY NewHistogramIs DEF Leveler!Init
  <1>2. blocks = 0 /\ ~built /\ built \in BOOLEAN /\ enabled \in BOOLEAN /\ force \in BOOLEAN
    BY DEF Leveler!Init
  <1>3. /\ age = 0 /\ event = 0 /\ since = 1
        /\ \A s \in Leveler!Stages : \A r \in Leveler!RowsOf[s] : oldest[s][r] = 0
    BY DEF Leveler!Init
  <1>4. StagesSince(event)
    BY <1>3 DEF StagesSince, Since
  <1> QED BY <1>1, <1>2, <1>3, <1>4 DEF LevelerInv

LEMMA LevelerForgets == LevelerInv => Leveler!EventForgets
  <1> SUFFICES ASSUME LevelerInv, blocks >= since PROVE
    /\ event >= since
    /\ \A s \in Leveler!Stages \ Leveler!Lasting : \A r \in Leveler!RowsOf[s] : oldest[s][r] >= event
    /\ hist.bins = {hist.ring[i] : i \in DOMAIN hist.ring} \ {Leveler!NoEntry}
    /\ \A n \in hist.bins : n >= event
    /\ hist.count = IF hist.given < RingSize THEN hist.given ELSE RingSize
    BY DEF Leveler!EventForgets
  <1>1. DOMAIN hist.ring = RingIndex
    BY DEF LevelerInv, Histogram, IsHist
  <1>2. \A n \in hist.bins : n >= event
    BY DEF LevelerInv, Histogram, Leveler!NoEntry
  <1>3. \A s \in Leveler!Stages \ Leveler!Lasting : \A r \in Leveler!RowsOf[s] : oldest[s][r] >= event
    BY DEF LevelerInv, StagesSince, Since
  <1> QED BY <1>1, <1>2, <1>3 DEF LevelerInv, Histogram

\* What the leveler holds in the stages an event resets, and in its
\* histogram, in every reachable state: nothing heard before the last
\* event, of a row's own or of what it follows; an event to come is
\* forced.
THEOREM LevelerInvCorrect == EngineSpec => []LevelerInv
BY EngineRuns, LevelerStarts, LevelerKeeps, PTL

\* EventForgets of UbigEngine: but for what lasts (the primary record, the
\* lookup's feedback and answer, the producer's count and mode, and the
\* bias the primary record adds), the stages of the leveler and its
\* histogram hold nothing heard before the last event.
THEOREM EventCorrect == EngineSpec => []EventForgets
  <1>1. LevelerInv => EventForgets
    BY LevelerForgets DEF EventForgets
  <1> QED BY <1>1, LevelerInvCorrect, PTL

-----------------------------------------------------------------------------
\* Stage A's filter bank.
LEMMA LeastIs ==
  ASSUME NEW S, S \subseteq Nat, S # {}
  PROVE  \E x \in S : \A y \in S : x <= y
  <1>1. \E x \in S : \A y \in S : ~(<<y, x>> \in OpToRel(<, Nat))
    BY NatLessThanWellFounded, WFMin, Zenon
  <1>2. PICK x \in S : \A y \in S : ~(<<y, x>> \in OpToRel(<, Nat))
    BY <1>1
  <1>3. ASSUME NEW y \in S PROVE x <= y
    <2>1. <<y, x>> \in Nat \X Nat
      OBVIOUS
    <2>2. ~(y < x)
      BY <1>2, <2>1 DEF OpToRel
    <2> QED BY <2>2
  <1> QED BY <1>3

LEMMA MinIs ==
  ASSUME NEW S, S \subseteq Nat, S # {}
  PROVE  Core!Min(S) \in S /\ \A y \in S : Core!Min(S) <= y
  <1>1. \E x \in S : \A y \in S : x <= y
    BY LeastIs
  <1> QED BY <1>1, Zenon DEF Core!Min

LEMMA MaxIs ==
  ASSUME NEW n \in Nat, NEW S, S \subseteq 0 .. n, S # {}
  PROVE  Core!Max(S) \in S /\ \A y \in S : Core!Max(S) >= y
  <1> DEFINE T == {n - y : y \in S}
  <1>1. T \subseteq Nat /\ T # {}
    OBVIOUS
  <1>2. PICK x \in T : \A y \in T : x <= y
    BY <1>1, LeastIs
  <1>3. PICK m \in S : x = n - m
    OBVIOUS
  <1>4. \A y \in S : m >= y
    <2> TAKE y \in S
    <2>1. n - y \in T
      OBVIOUS
    <2> QED BY <1>2, <1>3, <2>1
  <1>5. \E m1 \in S : \A y \in S : m1 >= y
    BY <1>4
  <1> QED BY <1>5, Zenon DEF Core!Max

LEMMA MaxOfTwo ==
  ASSUME NEW a \in Int, NEW b \in Int
  PROVE  Core!Max({a, b}) \in {a, b}
  <1>1. \E x \in {a, b} : \A y \in {a, b} : x >= y
    OBVIOUS
  <1> QED BY <1>1, Zenon DEF Core!Max

-----------------------------------------------------------------------------
\* Stage A's filter bank.
WindowOf(b) == {f \in 1 .. (b * BlockLen) : f > (b - 1) * BlockLen - Edge}

\* The parts of the blocks up to b that belong to a frame.
PartsAt(b, frame) ==
  {q \in (1 .. b) \X (0 .. (2 * Core!Window - 1)) : (q[1] - 1) * BlockLen + q[2] = frame}

FilterInv ==
  /\ blockNo \in Nat /\ phaseIndex \in {0, 1}
  /\ edge = {f \in 1 .. (blockNo * BlockLen) : f > blockNo * BlockLen - Edge}
  /\ DOMAIN bands = {0, 1} /\ DOMAIN gains = {0, 1}
  /\ bands[phaseIndex] = WindowOf(blockNo) /\ gains[phaseIndex] = WindowOf(blockNo)
  /\ DOMAIN overlap = 0 .. (2 * Core!Window - BlockLen - 1)
  /\ \A i \in DOMAIN overlap : overlap[i] = PartsAt(blockNo, blockNo * BlockLen + i)
  /\ Core!FramesAreWhole

LEMMA SizesAre ==
  /\ BlockLen \in Nat \ {0} /\ Edge \in Nat \ {0} /\ 2 * Edge <= BlockLen
  /\ Core!Window = BlockLen + Edge
  /\ Ramp \in Nat \ {0} /\ Loudest \in Nat /\ Groups \in Nat /\ Groups > 1
BY EngineAssumption DEF Core!StageAAssumption, Core!Window

LEMMA Product ==
  ASSUME NEW a \in Nat, NEW b \in Nat
  PROVE  /\ a * BlockLen \in Nat /\ (a + 1) * BlockLen = a * BlockLen + BlockLen
         /\ (a - 1) * BlockLen = a * BlockLen - BlockLen
         /\ a <= b => a * BlockLen <= b * BlockLen
  <1>1. BlockLen \in Nat
    BY SizesAre
  <1>2. a * BlockLen \in Nat /\ (a + 1) * BlockLen = a * BlockLen + BlockLen
        /\ (a - 1) * BlockLen = a * BlockLen - BlockLen
    BY <1>1
  <1>3. ASSUME a <= b PROVE a * BlockLen <= b * BlockLen
    BY <1>1, <1>3
  <1> QED BY <1>2, <1>3

LEMMA PackedIs == FilterInv => Core!Packed = WindowOf(blockNo + 1)
  <1> SUFFICES ASSUME FilterInv PROVE Core!Packed = WindowOf(blockNo + 1)
    OBVIOUS
  <1>0. blockNo \in Nat
    BY DEF FilterInv
  <1>1. PICK n \in Nat : n = blockNo * BlockLen /\ (blockNo + 1) * BlockLen = n + BlockLen
        /\ ((blockNo + 1) - 1) * BlockLen = n
    BY <1>0, Product
  <1>2. edge = {f \in 1 .. n : f > n - Edge}
    BY <1>1 DEF FilterInv
  <1>3. Core!Input(blockNo + 1) = (n + 1) .. (n + BlockLen)
    BY <1>1 DEF Core!Input
  <1>4. WindowOf(blockNo + 1) = {f \in 1 .. (n + BlockLen) : f > n - Edge}
    BY <1>1 DEF WindowOf
  <1>5. Core!Packed = edge \cup Core!Input(blockNo + 1)
    BY DEF Core!Packed
  <1> QED BY <1>2, <1>3, <1>4, <1>5, SizesAre

\* The parts of one block more: its own, and those of the blocks before.
LEMMA PartsGrow ==
  ASSUME NEW b \in Nat, NEW i \in 0 .. (2 * Core!Window - 1)
  PROVE  PartsAt(b + 1, b * BlockLen + i) = {<<b + 1, i>>} \cup PartsAt(b, b * BlockLen + i)
  <1>1. PICK n \in Nat : n = b * BlockLen /\ ((b + 1) - 1) * BlockLen = n
    BY Product
  <1>2. ASSUME NEW q \in PartsAt(b + 1, n + i)
        PROVE  q = <<b + 1, i>> \/ q \in PartsAt(b, n + i)
    <2>1. /\ q \in (1 .. (b + 1)) \X (0 .. (2 * Core!Window - 1))
          /\ (q[1] - 1) * BlockLen + q[2] = n + i
      BY <1>2 DEF PartsAt
    <2>2. CASE q[1] = b + 1
      <3>1. n + q[2] = n + i /\ q[2] \in Int
        BY <1>1, <2>1, <2>2, SizesAre
      <3>2. q[2] = i
        BY <3>1
      <3> QED BY <2>1, <2>2, <3>2
    <2>3. CASE q[1] # b + 1
      <3>1. q \in (1 .. b) \X (0 .. (2 * Core!Window - 1))
        BY <2>1, <2>3
      <3> QED BY <2>1, <3>1 DEF PartsAt
    <2> QED BY <2>2, <2>3
  <1>3. <<b + 1, i>> \in PartsAt(b + 1, n + i)
    <2>1. <<b + 1, i>> \in (1 .. (b + 1)) \X (0 .. (2 * Core!Window - 1))
      OBVIOUS
    <2>2. (<<b + 1, i>>[1] - 1) * BlockLen + <<b + 1, i>>[2] = n + i
      BY <1>1
    <2> QED BY <2>1, <2>2 DEF PartsAt
  <1>4. PartsAt(b, n + i) \subseteq PartsAt(b + 1, n + i)
    BY DEF PartsAt
  <1> QED BY <1>1, <1>2, <1>3, <1>4

\* A block and two edges after a block nothing of it is left.
LEMMA PartsEnd ==
  ASSUME NEW b \in Nat, NEW i \in Nat, i >= 2 * Edge
  PROVE  PartsAt(b, (b + 1) * BlockLen + i) = {}
  <1>1. SUFFICES ASSUME NEW q \in PartsAt(b, (b + 1) * BlockLen + i) PROVE FALSE
    OBVIOUS
  <1>2. PICK x \in 1 .. b, y \in 0 .. (2 * Core!Window - 1) :
          (x - 1) * BlockLen + y = (b + 1) * BlockLen + i
    BY DEF PartsAt
  <1>3. PICK n \in Nat : n = b * BlockLen /\ (b + 1) * BlockLen = n + BlockLen
        /\ x * BlockLen <= n
    BY Product
  <1>4. (x - 1) * BlockLen = x * BlockLen - BlockLen /\ x * BlockLen \in Nat
    BY Product
  <1> QED BY <1>2, <1>3, <1>4, SizesAre

LEMMA FilterKeeps == FilterInv /\ Core!FilterBlock => FilterInv'
  <1> SUFFICES ASSUME FilterInv, Core!FilterBlock PROVE FilterInv'
    OBVIOUS
  <1>0. PICK b \in Nat : b = blockNo
    BY DEF FilterInv
  <1>1. /\ blockNo' = b + 1
        /\ phaseIndex' = Core!Turned /\ edge' = Core!EdgeAfter
        /\ bands' = Core!Analysed /\ gains' = Core!Gained
        /\ output' = [i \in 0 .. (BlockLen - 1) |->
                        [parts |-> {Core!Part(i)} \cup overlap[i], of |-> Core!Mixed]]
        /\ overlap' = [i \in DOMAIN overlap |-> Core!Kept(i)]
    BY <1>0 DEF Core!FilterBlock
  <1>2. /\ phaseIndex \in {0, 1} /\ DOMAIN bands = {0, 1} /\ DOMAIN gains = {0, 1}
        /\ bands[phaseIndex] = WindowOf(b) /\ gains[phaseIndex] = WindowOf(b)
        /\ DOMAIN overlap = 0 .. (2 * Core!Window - BlockLen - 1)
        /\ \A i \in DOMAIN overlap : overlap[i] = PartsAt(b, b * BlockLen + i)
    BY <1>0 DEF FilterInv
  <1>3. Core!Packed = WindowOf(b + 1)
    BY <1>0, PackedIs
  <1>4. phaseIndex' \in {0, 1} /\ phaseIndex' # phaseIndex
    BY <1>1, <1>2 DEF Core!Turned
  <1>5. /\ DOMAIN Core!Analysed = {0, 1} /\ DOMAIN Core!Gained = {0, 1}
        /\ Core!Analysed[phaseIndex'] = WindowOf(b + 1) /\ Core!Gained[phaseIndex'] = WindowOf(b + 1)
        /\ Core!Analysed[phaseIndex] = WindowOf(b) /\ Core!Gained[phaseIndex] = WindowOf(b)
    BY <1>1, <1>2, <1>3, <1>4 DEF Core!Analysed, Core!Gained
  <1>6. Core!Mixed = {<<WindowOf(b), WindowOf(b)>>, <<WindowOf(b + 1), WindowOf(b + 1)>>}
    <2>1. {0, 1} = {phaseIndex, phaseIndex'}
      BY <1>2, <1>4
    <2>2. Core!Mixed = {<<Core!Analysed[p], Core!Gained[p]>> : p \in {phaseIndex, phaseIndex'}}
      BY <2>1 DEF Core!Mixed, Core!Phases
    <2> QED BY <1>5, <2>2
  <1>7. PICK n \in Nat : n = b * BlockLen /\ (b + 1) * BlockLen = n + BlockLen
        /\ ((b + 1) - 1) * BlockLen = n
    BY Product
  <1>8. edge' = {f \in 1 .. (blockNo' * BlockLen) : f > blockNo' * BlockLen - Edge}
    <2>1. edge' = {f \in (n + 1) .. (n + BlockLen) : f > (n + BlockLen) - Edge}
      BY <1>0, <1>1, <1>7 DEF Core!EdgeAfter, Core!Input
    <2>2. {f \in (n + 1) .. (n + BlockLen) : f > (n + BlockLen) - Edge}
            = {f \in 1 .. (n + BlockLen) : f > (n + BlockLen) - Edge}
      BY SizesAre
    <2> QED BY <1>1, <1>7, <2>1, <2>2
  <1>9. PICK last \in Nat : last = 2 * Core!Window - BlockLen - 1 /\ last = BlockLen + 2 * Edge - 1
        /\ 2 * Core!Window - 1 = 2 * BlockLen + 2 * Edge - 1
    BY SizesAre
  <1>10. ASSUME NEW i \in 0 .. last
         PROVE  Core!Kept(i) = PartsAt(b + 1, (b + 1) * BlockLen + i)
    <2>1. BlockLen + i \in 0 .. (2 * Core!Window - 1)
      BY <1>9, SizesAre
    <2>2. PICK m : m = (b + 1) * BlockLen + i /\ m = b * BlockLen + (BlockLen + i)
      BY <1>7, SizesAre
    <2>5. PartsAt(b + 1, m) = {<<b + 1, BlockLen + i>>} \cup PartsAt(b, m)
      BY <2>1, <2>2, PartsGrow
    <2>3. CASE i < 2 * Edge
      <3>1. BlockLen + i \in 0 .. last
        BY <1>9, <2>3, SizesAre
      <3>2. overlap[BlockLen + i] = PartsAt(b, m)
        BY <1>2, <1>9, <2>2, <3>1
      <3> QED BY <1>0, <2>2, <2>3, <2>5, <3>2 DEF Core!Kept, Core!Part
    <2>4. CASE ~(i < 2 * Edge)
      <3>1. PartsAt(b, m) = {}
        BY <2>2, <2>4, PartsEnd, SizesAre
      <3>3. Core!Kept(i) = {<<b + 1, BlockLen + i>>}
        BY <1>0, <2>4 DEF Core!Kept, Core!Part
      <3> QED BY <2>2, <2>5, <3>1, <3>3
    <2> QED BY <2>3, <2>4
  <1>11. /\ DOMAIN overlap' = 0 .. (2 * Core!Window - BlockLen - 1)
         /\ \A i \in DOMAIN overlap' : overlap'[i] = PartsAt(blockNo', blockNo' * BlockLen + i)
    BY <1>1, <1>2, <1>9, <1>10
  <1>12. Core!FramesAreWhole'
    <2>1. ASSUME NEW i \in 0 .. (BlockLen - 1)
          PROVE  /\ output'[i].parts = PartsAt(b + 1, n + i)
                 /\ output'[i].of = {<<WindowOf(b), WindowOf(b)>>, <<WindowOf(b + 1), WindowOf(b + 1)>>}
      <3>1. i \in 0 .. last /\ i \in 0 .. (2 * Core!Window - 1)
        BY <1>9, SizesAre
      <3>2. PartsAt(b + 1, n + i) = {<<b + 1, i>>} \cup PartsAt(b, n + i)
        BY <1>7, <3>1, PartsGrow
      <3>3. overlap[i] = PartsAt(b, n + i)
        BY <1>2, <1>7, <1>9, <3>1
      <3> QED BY <1>0, <1>1, <1>6, <3>2, <3>3 DEF Core!Part
    <2>2. {<<w, w>> : w \in {{f \in 1 .. (c * BlockLen) : f > (c - 1) * BlockLen - Edge} : c \in {b, b + 1}}}
            = {<<WindowOf(b), WindowOf(b)>>, <<WindowOf(b + 1), WindowOf(b + 1)>>}
      BY DEF WindowOf
    <2>3. (blockNo' - 1) * BlockLen = n /\ {blockNo' - 1, blockNo'} = {b, b + 1}
      BY <1>1, <1>7
    <2>4. \A i \in 0 .. (BlockLen - 1) :
            PartsAt(b + 1, n + i) = {q \in (1 .. blockNo') \X (0 .. (2 * Core!Window - 1)) :
              (q[1] - 1) * BlockLen + q[2] = (blockNo' - 1) * BlockLen + i}
      BY <1>1, <2>3 DEF PartsAt
    <2> QED BY <2>1, <2>2, <2>3, <2>4 DEF Core!FramesAreWhole
  <1>13. WindowOf(b + 1) = WindowOf(blockNo)'
    BY <1>1 DEF WindowOf
  <1> QED BY <1>1, <1>4, <1>5, <1>8, <1>11, <1>12, <1>13 DEF FilterInv

LEMMA FilterStarts == Core!Init => FilterInv
  <1> SUFFICES ASSUME Core!Init PROVE FilterInv
    OBVIOUS
  <1>1. 0 * BlockLen = 0
    BY SizesAre
  <1>2. \A i \in DOMAIN overlap : PartsAt(0, 0 * BlockLen + i) = {}
    BY DEF PartsAt
  <1>3. WindowOf(0) = {}
    BY <1>1 DEF WindowOf
  <1> QED BY <1>1, <1>2, <1>3 DEF FilterInv, Core!Init, Core!Phases, Core!FramesAreWhole

LEMMA FilterGoesOn == FilterInv /\ [Core!Next]_Core!vars => FilterInv'
  <1> SUFFICES ASSUME FilterInv, [Core!Next]_Core!vars PROVE FilterInv'
    OBVIOUS
  <1>1. CASE UNCHANGED Core!filterVars
    <2>1. UNCHANGED <<phaseIndex, edge, bands, gains, overlap, output, blockNo>>
      BY <1>1 DEF Core!filterVars
    <2>2. Core!FramesAreWhole' = Core!FramesAreWhole
      BY <2>1 DEF Core!FramesAreWhole
    <2> QED BY <2>1, <2>2 DEF FilterInv, WindowOf, PartsAt
  <1>2. CASE Core!FilterBlock
    BY <1>2, FilterKeeps
  <1>3. CASE Core!LimitFrame
    BY <1>1, <1>3 DEF Core!LimitFrame
  <1>4. CASE Core!Done \/ UNCHANGED Core!vars
    BY <1>1, <1>4 DEF Core!Done, Core!vars
  <1> QED BY <1>2, <1>3, <1>4 DEF Core!Next

\* FramesAreWhole of UbigEngine: every window Stage A puts together is of
\* the parts and the gains that belong to it.
THEOREM FramesCorrect == EngineSpec => []FramesAreWhole
  <1>1. FilterInv => FramesAreWhole
    BY DEF FilterInv, FramesAreWhole
  <1> QED BY <1>1, EngineRuns, FilterStarts, FilterGoesOn, PTL

-----------------------------------------------------------------------------
\* Stage A's limiter.  A place of the delay line is in a group's ring
\* place q, and how many groups ago that group was, seen from place h.
Ring == 0 .. (Groups - 1)
Places(q) == {s \in 0 .. (Core!Delay - 1) : q * Ramp <= s /\ s < q * Ramp + Ramp}
Ago(h, q) == IF q <= h THEN h - q ELSE h - q + Groups
NextPlace(h) == IF h + 1 = Groups THEN 0 ELSE h + 1

Covers(gain, h, from) == \A s \in Places(h) : s >= from => delayed[s] + gain <= 0

LimiterTypes ==
  /\ pos.history \in Ring /\ pos.delay \in Places(pos.history)
  /\ pos = [delay |-> pos.delay, history |-> pos.history]
  /\ delayed \in [0 .. (Core!Delay - 1) -> 0 .. Loudest]
  /\ peak \in [Ring -> 0 .. Loudest] /\ predictor \in [Ring -> 0 .. Loudest]
  /\ envelope \in 0 .. Loudest
  /\ target \in Int /\ previous \in Int
  /\ \E a, b \in Int : ramped = {a, b}

\* Every peak is one of what the delay line holds of its group; what was
\* smoothed at the end of a group is one of all the groups before it; the
\* gains cover the rest of the group that comes out, and the target the
\* next one.
PeaksCover ==
  \A q \in Ring : \A s \in Places(q) :
    (q # pos.history \/ s < pos.delay) => delayed[s] <= peak[q]
PredictorCovers ==
  \A q, r \in Ring \ {pos.history} :
    Ago(pos.history, q) <= Ago(pos.history, r) => peak[r] <= predictor[q]
GainsCover ==
  /\ Covers(previous, pos.history, pos.delay)
  /\ Covers(target, pos.history, pos.delay)
  /\ Covers(target, NextPlace(pos.history), 0)
  /\ \A x \in ramped : delayed[pos.delay] + x <= 0

LimiterInv == LimiterTypes /\ PeaksCover /\ PredictorCovers /\ GainsCover /\ Core!BelowCeiling

LEMMA ModIs ==
  ASSUME NEW a \in Int, NEW m \in Nat \ {0}, NEW k \in Int, NEW r \in 0 .. m - 1, a = k * m + r
  PROVE  a % m = r
OBVIOUS

LEMMA ModSmall ==
  ASSUME NEW m \in Nat \ {0}, NEW r \in 0 .. m - 1
  PROVE  r % m = r
OBVIOUS

LEMMA DelayIs ==
  /\ Core!Delay = Ramp * Groups /\ Core!Delay \in Nat \ {0}
  /\ \A q \in Nat : q * Ramp \in Nat /\ (q + 1) * Ramp = q * Ramp + Ramp
  /\ \A q, r \in Nat : q <= r => q * Ramp <= r * Ramp
  /\ Groups * Ramp = Core!Delay
  <1>1. Ramp \in Nat \ {0} /\ Groups \in Nat \ {0}
    BY SizesAre
  <1>2. Core!Delay = Ramp * Groups
    BY DEF Core!Delay
  <1>3. Ramp * Groups \in Nat \ {0} /\ Groups * Ramp = Ramp * Groups
    BY <1>1
  <1>4. ASSUME NEW q \in Nat
        PROVE  q * Ramp \in Nat /\ (q + 1) * Ramp = q * Ramp + Ramp
    BY <1>1
  <1>5. ASSUME NEW q \in Nat, NEW r \in Nat, q <= r
        PROVE  q * Ramp <= r * Ramp
    BY <1>1, <1>5
  <1> QED BY <1>2, <1>3, <1>4, <1>5

LEMMA PlacesApart ==
  ASSUME NEW q \in Ring, NEW r \in Ring, NEW s \in Places(q), s \in Places(r)
  PROVE  q = r
  <1>1. s \in Nat /\ q \in Nat /\ r \in Nat
    BY DEF Places, Ring
  <1>2. q * Ramp <= s /\ s < q * Ramp + Ramp /\ r * Ramp <= s /\ s < r * Ramp + Ramp
    BY DEF Places
  <1>3. (q + 1) * Ramp = q * Ramp + Ramp /\ (r + 1) * Ramp = r * Ramp + Ramp
        /\ q * Ramp \in Nat /\ r * Ramp \in Nat
    BY <1>1, DelayIs
  <1>4. ~(q + 1 <= r)
    <2>1. q + 1 <= r => (q + 1) * Ramp <= r * Ramp
      BY <1>1, DelayIs
    <2> QED BY <1>1, <1>2, <1>3, <2>1, SizesAre
  <1>5. ~(r + 1 <= q)
    <2>1. r + 1 <= q => (r + 1) * Ramp <= q * Ramp
      BY <1>1, DelayIs
    <2> QED BY <1>1, <1>2, <1>3, <2>1, SizesAre
  <1> QED BY <1>1, <1>4, <1>5

LEMMA NextIs ==
  ASSUME NEW h \in Ring
  PROVE  /\ NextPlace(h) \in Ring /\ (h + 1) % Groups = NextPlace(h) /\ NextPlace(h) # h
         /\ Ago(h, NextPlace(h)) = Groups - 1
         /\ Ago(NextPlace(h), h) = 1
         /\ \A q \in Ring : /\ Ago(h, q) \in 0 .. Groups - 1
                            /\ q # NextPlace(h) => /\ Ago(h, q) <= Groups - 2
                                                   /\ Ago(NextPlace(h), q) = Ago(h, q) + 1
                            /\ q # h => Ago(h, q) >= 1
                            /\ q = NextPlace(NextPlace(h)) => q = h \/ Ago(h, q) = Groups - 2
  <1>1. Groups \in Nat /\ Groups > 1 /\ h \in Nat /\ h < Groups
    BY SizesAre DEF Ring
  <1>2. (h + 1) % Groups = NextPlace(h)
    BY <1>1 DEF NextPlace
  <1>3. NextPlace(h) \in Ring /\ NextPlace(h) # h
    BY <1>1 DEF NextPlace, Ring
  <1>4. Ago(h, NextPlace(h)) = Groups - 1 /\ Ago(NextPlace(h), h) = 1
    BY <1>1 DEF NextPlace, Ago
  <1>5. ASSUME NEW q \in Ring
        PROVE  /\ Ago(h, q) \in 0 .. Groups - 1
               /\ q # NextPlace(h) => /\ Ago(h, q) <= Groups - 2
                                      /\ Ago(NextPlace(h), q) = Ago(h, q) + 1
               /\ q # h => Ago(h, q) >= 1
               /\ q = NextPlace(NextPlace(h)) => q = h \/ Ago(h, q) = Groups - 2
    <2>1. q \in Nat /\ q < Groups
      BY <1>1 DEF Ring
    <2> QED BY <1>1, <2>1 DEF NextPlace, Ago
  <1> QED BY <1>2, <1>3, <1>4, <1>5

\* The first place of a group, and what follows a place in its group.
LEMMA FirstIs ==
  ASSUME NEW h \in Ring
  PROVE  /\ h * Ramp \in Places(h)
         /\ \A s \in Places(h) : s \in Nat /\ s >= h * Ramp /\ s < Core!Delay
  <1>1. h \in Nat /\ h + 1 <= Groups /\ Groups \in Nat
    BY SizesAre DEF Ring
  <1>2. (h + 1) * Ramp <= Groups * Ramp /\ (h + 1) * Ramp = h * Ramp + Ramp /\ h * Ramp \in Nat
    BY <1>1, DelayIs
  <1> QED BY <1>2, DelayIs, SizesAre DEF Places

LEMMA PlaceGoesOn ==
  ASSUME NEW h \in Ring, NEW d \in Places(h)
  PROVE  IF (d + 1) % Ramp = 0
         THEN /\ (d + 1) % Core!Delay = NextPlace(h) * Ramp
              /\ \A s \in Places(h) : s <= d
         ELSE d + 1 \in Places(h)
  <1>1. h \in Nat /\ h + 1 <= Groups /\ Groups \in Nat /\ d \in Nat
    BY SizesAre DEF Ring, Places
  <1>2. PICK f \in Nat : f = h * Ramp
    BY <1>1, DelayIs
  <1>3. (h + 1) * Ramp = f + Ramp /\ f + Ramp <= Core!Delay
    <2>1. (h + 1) * Ramp <= Groups * Ramp
      BY <1>1, DelayIs
    <2> QED BY <1>1, <1>2, <2>1, DelayIs
  <1>4. f <= d /\ d < f + Ramp
    BY <1>2 DEF Places
  <1>5. (d + 1) % Ramp = (IF d + 1 = f + Ramp THEN 0 ELSE d + 1 - f)
    <2>1. PICK e \in 1 .. Ramp : d + 1 = f + e
      BY <1>1, <1>4, SizesAre
    <2>2. CASE e = Ramp
      <3>1. d + 1 = (h + 1) * Ramp
        BY <1>3, <2>1, <2>2
      <3>2. ((h + 1) * Ramp) % Ramp = 0
        BY <1>1, SizesAre
      <3> QED BY <1>1, <1>2, <2>1, <2>2, <3>1, <3>2
    <2>3. CASE e # Ramp
      <3>1. d + 1 = h * Ramp + e /\ e \in 0 .. Ramp - 1
        BY <1>2, <2>1, <2>3, SizesAre
      <3>3. Ramp \in Nat \ {0} /\ h \in Int /\ d + 1 \in Int
        BY <1>1, SizesAre
      <3>2. (d + 1) % Ramp = e
        BY <3>1, <3>3, ModIs, Zenon
      <3> QED BY <1>1, <1>2, <2>1, <2>3, <3>1, <3>2, SizesAre
    <2> QED BY <2>2, <2>3
  <1>8. PICK m : m = (d + 1) % Ramp
    OBVIOUS
  <1>9. (m = 0 => d + 1 = f + Ramp) /\ (m # 0 => d + 1 < f + Ramp)
    <2>1. m = IF d + 1 = f + Ramp THEN 0 ELSE d + 1 - f
      BY <1>5, <1>8
    <2> QED BY <1>1, <1>2, <1>4, <2>1, SizesAre
  <1>6. CASE (d + 1) % Ramp = 0
    <2>1. d + 1 = f + Ramp
      BY <1>6, <1>8, <1>9
    <2>2. \A s \in Places(h) : s <= d
      <3> TAKE s \in Places(h)
      <3>1. s \in Nat /\ s < f + Ramp
        BY <1>2, DelayIs DEF Places
      <3> QED BY <1>1, <1>2, <2>1, <3>1, SizesAre
    <2>3. CASE h + 1 = Groups
      <3>1. d + 1 = Core!Delay
        BY <1>3, <2>1, <2>3, DelayIs
      <3>2. NextPlace(h) = 0 /\ 0 * Ramp = 0
        BY <2>3, SizesAre DEF NextPlace
      <3>3. (d + 1) % Core!Delay = 0
        BY <3>1, DelayIs
      <3> QED BY <1>6, <2>2, <3>2, <3>3
    <2>4. CASE h + 1 # Groups
      <3>1. h + 1 \in Ring
        BY <1>1, <2>4 DEF Ring
      <3>2. (h + 1) * Ramp \in 0 .. Core!Delay - 1
        BY <3>1, FirstIs DEF Places
      <3>3. d + 1 \in 0 .. Core!Delay - 1 /\ d + 1 = (h + 1) * Ramp
        BY <1>3, <2>1, <3>2
      <3>4. (d + 1) % Core!Delay = d + 1
        BY <3>3, DelayIs, ModSmall
      <3> QED BY <1>6, <2>2, <2>4, <3>3, <3>4 DEF NextPlace
    <2> QED BY <2>3, <2>4
  <1>7. CASE (d + 1) % Ramp # 0
    <2>1. d + 1 < f + Ramp
      BY <1>7, <1>8, <1>9
    <2>2. d + 1 \in 0 .. Core!Delay - 1 /\ f <= d + 1
      BY <1>1, <1>2, <1>3, <1>4, <2>1, DelayIs, SizesAre
    <2> QED BY <1>2, <1>7, <2>1, <2>2 DEF Places
  <1> QED BY <1>6, <1>7

LEMMA LevelsIs ==
  ASSUME LimiterTypes, NEW level \in 0 .. Loudest
  PROVE  /\ Core!PeakWith(level) \in [Ring -> 0 .. Loudest]
         /\ Core!PeakWith(level)[pos.history] >= level
         /\ Core!PeakWith(level)[pos.history] >= peak[pos.history]
         /\ \A q \in Ring \ {pos.history} : Core!PeakWith(level)[q] = peak[q]
  <1>1. pos.history \in Ring /\ peak \in [Ring -> 0 .. Loudest] /\ Loudest \in Nat
    BY SizesAre DEF LimiterTypes
  <1>2. PICK top : top = Core!Higher(peak[pos.history], level)
    OBVIOUS
  <1>3. top \in 0 .. Loudest /\ top >= level /\ top >= peak[pos.history]
    BY <1>1, <1>2 DEF Core!Higher
  <1>4. Core!PeakWith(level) = [peak EXCEPT ![pos.history] = top]
    BY <1>2 DEF Core!PeakWith
  <1> QED BY <1>1, <1>3, <1>4

\* The frame that comes replaces the one that goes.
LEMMA DelayedIs ==
  ASSUME LimiterInv, NEW level \in 0 .. Loudest, delayed' = [delayed EXCEPT ![pos.delay] = level]
  PROVE  /\ delayed' \in [0 .. (Core!Delay - 1) -> 0 .. Loudest]
         /\ \A s \in 0 .. (Core!Delay - 1) : s # pos.delay => delayed'[s] = delayed[s]
         /\ \A q \in Ring : \A s \in Places(q) :
              (q # pos.history \/ s <= pos.delay) => delayed'[s] <= Core!PeakWith(level)[q]
  <1>1. /\ pos.history \in Ring /\ pos.delay \in Places(pos.history)
        /\ delayed \in [0 .. (Core!Delay - 1) -> 0 .. Loudest]
        /\ peak \in [Ring -> 0 .. Loudest]
    BY DEF LimiterInv, LimiterTypes
  <1>2. pos.delay \in 0 .. (Core!Delay - 1)
    BY <1>1 DEF Places
  <1>3. /\ delayed' \in [0 .. (Core!Delay - 1) -> 0 .. Loudest] /\ delayed'[pos.delay] = level
        /\ \A s \in 0 .. (Core!Delay - 1) : s # pos.delay => delayed'[s] = delayed[s]
    BY <1>1, <1>2
  <1>4. ASSUME NEW q \in Ring, NEW s \in Places(q), q # pos.history \/ s <= pos.delay
        PROVE  delayed'[s] <= Core!PeakWith(level)[q]
    <2>1. s \in 0 .. (Core!Delay - 1)
      BY DEF Places
    <2>2. CASE s = pos.delay
      <3>1. q = pos.history
        BY <1>1, <2>2, PlacesApart
      <3> QED BY <1>3, <2>2, <3>1, LevelsIs DEF LimiterInv
    <2>3. CASE s # pos.delay
      <3>1. delayed'[s] = delayed[s] /\ delayed[s] \in 0 .. Loudest
        BY <1>1, <1>3, <2>1, <2>3
      <3>2. delayed[s] <= peak[q]
        <4>1. q # pos.history \/ s < pos.delay
          BY <1>2, <1>4, <2>1, <2>3
        <4> QED BY <4>1 DEF LimiterInv, PeaksCover
      <3>3. Core!PeakWith(level)[q] >= peak[q]
        <4>1. CASE q = pos.history
          BY <4>1, LevelsIs DEF LimiterInv
        <4>2. CASE q # pos.history
          <5>1. Core!PeakWith(level)[q] = peak[q] /\ peak[q] \in 0 .. Loudest
            BY <1>1, <4>2, LevelsIs DEF LimiterInv
          <5> QED BY <5>1, SizesAre
        <4> QED BY <4>1, <4>2
      <3>4. Core!PeakWith(level)[q] \in 0 .. Loudest /\ peak[q] \in 0 .. Loudest
        BY <1>1, LevelsIs DEF LimiterInv
      <3> QED BY <3>1, <3>2, <3>3, <3>4, SizesAre
    <2> QED BY <2>2, <2>3
  <1> QED BY <1>3, <1>4

LEMMA WithinKeeps ==
  ASSUME LimiterInv, NEW level \in 0 .. Loudest, (pos.delay + 1) % Ramp # 0,
         delayed' = [delayed EXCEPT ![pos.delay] = level], ramped' = {previous, target},
         Core!Within(Core!PeakWith(level))
  PROVE  LimiterTypes' /\ PeaksCover' /\ PredictorCovers' /\ GainsCover'
  <1>1. PICK h, d : h = pos.history /\ d = pos.delay
    OBVIOUS
  <1>2. /\ h \in Ring /\ d \in Places(h) /\ pos = [delay |-> d, history |-> h]
        /\ predictor \in [Ring -> 0 .. Loudest] /\ envelope \in 0 .. Loudest
        /\ target \in Int /\ previous \in Int
    BY <1>1 DEF LimiterInv, LimiterTypes
  <1>3. /\ pos' = [pos EXCEPT !.delay = @ + 1] /\ peak' = Core!PeakWith(level)
        /\ UNCHANGED <<envelope, predictor, previous, target>>
    BY DEF Core!Within
  <1>4. pos'.history = h /\ pos'.delay = d + 1 /\ pos' = [delay |-> d + 1, history |-> h]
    BY <1>1, <1>2, <1>3
  <1>5. d + 1 \in Places(h) /\ d \in Nat
    BY <1>1, <1>2, PlaceGoesOn DEF Places
  <1>6. /\ delayed' \in [0 .. (Core!Delay - 1) -> 0 .. Loudest]
        /\ \A s \in 0 .. (Core!Delay - 1) : s # d => delayed'[s] = delayed[s]
        /\ \A q \in Ring : \A s \in Places(q) :
             (q # h \/ s <= d) => delayed'[s] <= peak'[q]
    BY <1>1, <1>3, DelayedIs
  <1>7. peak' \in [Ring -> 0 .. Loudest] /\ \A q \in Ring \ {h} : peak'[q] = peak[q]
    BY <1>1, <1>3, LevelsIs DEF LimiterInv
  <1>8. LimiterTypes'
    <2>1. \E a, b \in Int : ramped' = {a, b}
      BY <1>2
    <2> QED BY <1>2, <1>3, <1>4, <1>5, <1>6, <1>7, <2>1 DEF LimiterTypes, Ring, Places
  <1>9. PeaksCover'
    <2>1. ASSUME NEW q \in Ring, NEW s \in Places(q), q # h \/ s < d + 1
          PROVE  delayed'[s] <= peak'[q]
      <3>1. q # h \/ s <= d
        BY <1>5, <2>1 DEF Places
      <3> QED BY <1>6, <3>1
    <2> QED BY <1>4, <2>1 DEF PeaksCover, Ring, Places
  <1>10. PredictorCovers'
    <2>1. PredictorCovers
      BY DEF LimiterInv
    <2> QED BY <1>1, <1>3, <1>4, <1>7, <2>1 DEF PredictorCovers, Ring, Ago
  <1>11. GainsCover
    BY DEF LimiterInv
  <1>12. ASSUME NEW g, g \in {previous, target}
         PROVE  \A s \in Places(h) : s >= d + 1 => delayed'[s] + g <= 0
    <2> TAKE s \in Places(h)
    <2> HAVE s >= d + 1
    <2>1. s \in 0 .. (Core!Delay - 1) /\ s # d /\ s >= d
      BY <1>5 DEF Places
    <2>2. delayed[s] + g <= 0
      BY <1>1, <1>11, <1>12, <2>1 DEF GainsCover, Covers
    <2> QED BY <1>6, <2>1, <2>2
  <1>13. \A s \in Places(NextPlace(h)) : delayed'[s] + target <= 0
    <2> TAKE s \in Places(NextPlace(h))
    <2>1. NextPlace(h) \in Ring /\ NextPlace(h) # h
      BY <1>2, NextIs
    <2>2. s # d /\ s \in 0 .. (Core!Delay - 1) /\ s >= 0
      BY <1>2, <2>1, PlacesApart DEF Places
    <2>3. delayed[s] + target <= 0
      BY <1>1, <1>11, <2>2 DEF GainsCover, Covers
    <2> QED BY <1>6, <2>2, <2>3
  <1>14. \A x \in ramped' : delayed'[d + 1] + x <= 0
    BY <1>5, <1>12
  <1>15. GainsCover'
    BY <1>3, <1>4, <1>12, <1>13, <1>14 DEF GainsCover, Covers, Places, NextPlace
  <1> QED BY <1>8, <1>9, <1>10, <1>15

\* What is smoothed is one of all groups; what is predicted is one of the
\* group that comes out next and of the one after it.
LEMMA SmoothedIs ==
  ASSUME LimiterInv, NEW level \in 0 .. Loudest, Core!GroupEnds(Core!PeakWith(level))
  PROVE  LET h == pos.history levels == Core!PeakWith(level) IN
         \E smoothed \in 0 .. Loudest, predicted \in Int :
           /\ \A q \in Ring : levels[q] <= smoothed
           /\ levels[NextPlace(h)] <= predicted
           /\ levels[NextPlace(NextPlace(h))] <= predicted
           /\ envelope' = smoothed /\ predictor' = [predictor EXCEPT ![h] = smoothed]
           /\ previous' = target /\ target' = -predicted
           /\ pos' = [delay |-> (pos.delay + 1) % Core!Delay, history |-> NextPlace(h)]
           /\ peak' = [levels EXCEPT ![NextPlace(h)] = 0]
  <1>1. PICK h, levels : h = pos.history /\ levels = Core!PeakWith(level)
    OBVIOUS
  <1>2. /\ h \in Ring /\ levels \in [Ring -> 0 .. Loudest] /\ predictor \in [Ring -> 0 .. Loudest]
        /\ envelope \in 0 .. Loudest /\ Loudest \in Nat /\ target \in Int
        /\ \A q \in Ring \ {h} : levels[q] = peak[q]
    BY <1>1, LevelsIs, SizesAre DEF LimiterInv, LimiterTypes
  <1>3. NextPlace(h) \in Ring /\ NextPlace(h) # h /\ (h + 1) % Groups = NextPlace(h)
    BY <1>2, NextIs
  <1>4. PICK n \in Ring : n = NextPlace(h) /\ n # h
    BY <1>3
  <1>20. /\ {levels[i] : i \in Core!Ring} = {levels[i] : i \in Ring}
         /\ (pos.history + 1) % Groups = n
    BY <1>1, <1>3, <1>4 DEF Core!Ring, Ring
  <1>5. PICK highest : highest = Core!Max({levels[i] : i \in Core!Ring})
    OBVIOUS
  <1>6. highest \in 0 .. Loudest /\ \A q \in Ring : levels[q] <= highest
    <2> DEFINE S == {levels[i] : i \in Ring}
    <2>1. S \subseteq 0 .. Loudest /\ S # {}
      BY <1>2
    <2>2. highest = Core!Max(S)
      BY <1>5, <1>20
    <2>3. highest \in S /\ \A y \in S : highest >= y
      BY <1>2, <2>1, <2>2, MaxIs
    <2> QED BY <2>1, <2>3
  <1>30. PICK smoothed \in highest .. Core!Higher(highest, envelope) :
          \E predicted \in Core!Min({[predictor EXCEPT ![pos.history] = smoothed][i] :
                                        i \in Core!Weighted(pos.history)})
                          .. Core!Max({[predictor EXCEPT ![pos.history] = smoothed][i] :
                                        i \in Core!Weighted(pos.history)}) :
          /\ envelope' = smoothed
          /\ predictor' = [predictor EXCEPT ![pos.history] = smoothed]
          /\ previous' = target /\ target' = -predicted
          /\ pos' = [delay |-> (pos.delay + 1) % Core!Delay, history |-> (pos.history + 1) % Groups]
          /\ peak' = [levels EXCEPT ![(pos.history + 1) % Groups] = 0]
    <2>1. Core!GroupEnds(levels)
      BY <1>1
    <2>2. \E smoothed \in Core!Max({levels[i] : i \in Core!Ring})
                          .. Core!Higher(Core!Max({levels[i] : i \in Core!Ring}), envelope) :
          \E predicted \in Core!Min({[predictor EXCEPT ![pos.history] = smoothed][i] :
                                        i \in Core!Weighted(pos.history)})
                          .. Core!Max({[predictor EXCEPT ![pos.history] = smoothed][i] :
                                        i \in Core!Weighted(pos.history)}) :
          /\ envelope' = smoothed
          /\ predictor' = [predictor EXCEPT ![pos.history] = smoothed]
          /\ previous' = target /\ target' = -predicted
          /\ pos' = [delay |-> (pos.delay + 1) % Core!Delay, history |-> (pos.history + 1) % Groups]
          /\ peak' = [levels EXCEPT ![(pos.history + 1) % Groups] = 0]
      BY <2>1, Zenon DEF Core!GroupEnds
    <2> QED BY <1>5, <2>2, Zenon
  <1>7. PICK predicted \in Core!Min({[predictor EXCEPT ![pos.history] = smoothed][i] :
                                        i \in Core!Weighted(pos.history)})
                          .. Core!Max({[predictor EXCEPT ![pos.history] = smoothed][i] :
                                        i \in Core!Weighted(pos.history)}) :
          /\ envelope' = smoothed
          /\ predictor' = [predictor EXCEPT ![pos.history] = smoothed]
          /\ previous' = target /\ target' = -predicted
          /\ pos' = [delay |-> (pos.delay + 1) % Core!Delay, history |-> (pos.history + 1) % Groups]
          /\ peak' = [levels EXCEPT ![(pos.history + 1) % Groups] = 0]
    BY <1>30, Zenon
  <1>8. smoothed \in 0 .. Loudest /\ \A q \in Ring : levels[q] <= smoothed
    BY <1>2, <1>6, <1>30 DEF Core!Higher
  <1>9. PICK entries : entries = [predictor EXCEPT ![h] = smoothed]
    OBVIOUS
  <1>10. /\ entries \in [Ring -> 0 .. Loudest] /\ entries[h] = smoothed
         /\ \A q \in Ring \ {h} : entries[q] = predictor[q]
    BY <1>2, <1>8, <1>9
  <1>11. Core!Weighted(h) = Ring \ {n} /\ h \in Ring \ {n}
    BY <1>2, <1>3, <1>4 DEF Core!Weighted, Core!Ring, Ring
  <1>12. PICK seen : seen = {entries[i] : i \in Ring \ {n}}
    OBVIOUS
  <1>13. seen \subseteq 0 .. Loudest /\ seen # {}
    BY <1>10, <1>11, <1>12
  <1>14. /\ Core!Min(seen) \in seen
         /\ Core!Max(seen) \in seen
    <2>1. seen \subseteq Nat
      BY <1>2, <1>13
    <2> QED BY <1>2, <1>13, <2>1, MinIs, MaxIs
  <1>15. predicted \in Core!Min(seen) .. Core!Max(seen)
    <2>2. {[predictor EXCEPT ![pos.history] = smoothed][i] : i \in Core!Weighted(pos.history)} = seen
      BY <1>1, <1>9, <1>11, <1>12
    <2> QED BY <1>7, <2>2
  <1>16. PICK r \in Ring \ {n} : Core!Min(seen) = entries[r]
    BY <1>12, <1>14
  <1>17. predicted \in Int /\ entries[r] <= predicted
    BY <1>2, <1>13, <1>14, <1>15, <1>16
  <1>18. ASSUME NEW q, q \in {n, NextPlace(n)} PROVE q \in Ring /\ levels[q] <= entries[r]
    <2>1. q \in Ring
      BY <1>18, NextIs
    <2>2. CASE r = h
      BY <1>8, <1>10, <2>1, <2>2
    <2>3. CASE r # h
      <3>1. q # h
        <4>1. CASE q = n
          BY <1>4, <4>1
        <4>2. CASE q = NextPlace(n)
          <5>1. Groups \in Nat /\ Groups > 1 /\ h \in 0 .. Groups - 1 /\ r \in 0 .. Groups - 1
            BY <1>2, SizesAre DEF Ring
          <5> QED BY <1>4, <1>16, <2>3, <4>2, <5>1 DEF NextPlace
        <4> QED BY <1>18, <4>1, <4>2
      <3>2. Ago(h, r) <= Ago(h, q)
        <4>1. Ago(h, r) \in Int /\ Ago(h, r) <= Groups - 2
          BY <1>2, <1>4, <1>16, NextIs
        <4>2. Ago(h, q) \in {Groups - 1, Groups - 2}
          BY <1>2, <1>4, <1>18, <2>1, <3>1, NextIs
        <4> QED BY <4>1, <4>2, SizesAre
      <3>3. peak[q] <= predictor[r]
        <4>1. q \in Ring \ {pos.history} /\ r \in Ring \ {pos.history}
          BY <1>1, <1>16, <2>1, <2>3, <3>1
        <4> QED BY <1>1, <3>2, <4>1 DEF LimiterInv, PredictorCovers
      <3> QED BY <1>2, <1>10, <2>1, <2>3, <3>1, <3>3
    <2> QED BY <2>1, <2>2, <2>3
  <1>19. levels[n] <= predicted /\ levels[NextPlace(n)] <= predicted
    <2>1. entries[r] \in 0 .. Loudest
      BY <1>10
    <2>2. ASSUME NEW q, q \in {n, NextPlace(n)} PROVE levels[q] <= predicted
      <3>1. q \in Ring /\ levels[q] <= entries[r]
        BY <1>18, <2>2
      <3>2. levels[q] \in 0 .. Loudest
        BY <1>2, <3>1
      <3> QED BY <1>2, <1>17, <2>1, <3>1, <3>2
    <2> QED BY <2>2
  <1> QED BY <1>1, <1>4, <1>7, <1>8, <1>17, <1>19, <1>20

LEMMA EndKeeps ==
  ASSUME LimiterInv, NEW level \in 0 .. Loudest, (pos.delay + 1) % Ramp = 0,
         delayed' = [delayed EXCEPT ![pos.delay] = level], ramped' = {target},
         Core!GroupEnds(Core!PeakWith(level))
  PROVE  LimiterTypes' /\ PeaksCover' /\ PredictorCovers' /\ GainsCover'
  <1>1. PICK h, d, levels : h = pos.history /\ d = pos.delay /\ levels = Core!PeakWith(level)
    OBVIOUS
  <1>2. /\ h \in Ring /\ d \in Places(h)
        /\ predictor \in [Ring -> 0 .. Loudest] /\ Loudest \in Nat /\ target \in Int
    BY <1>1, SizesAre DEF LimiterInv, LimiterTypes
  <1>3. PICK n \in Ring : n = NextPlace(h) /\ n # h
    BY <1>2, NextIs
  <1>4. PICK smoothed \in 0 .. Loudest, predicted \in Int :
           /\ \A q \in Ring : levels[q] <= smoothed
           /\ levels[n] <= predicted /\ levels[NextPlace(n)] <= predicted
           /\ envelope' = smoothed /\ predictor' = [predictor EXCEPT ![h] = smoothed]
           /\ previous' = target /\ target' = -predicted
           /\ pos' = [delay |-> (d + 1) % Core!Delay, history |-> n]
           /\ peak' = [levels EXCEPT ![n] = 0]
    BY <1>1, <1>3, SmoothedIs
  <1>5. levels \in [Ring -> 0 .. Loudest] /\ \A q \in Ring \ {h} : levels[q] = peak[q]
    BY <1>1, LevelsIs DEF LimiterInv
  <1>6. PICK first1 : first1 = n * Ramp /\ pos' = [delay |-> first1, history |-> n]
        /\ \A s \in Places(h) : s <= d
    BY <1>1, <1>2, <1>3, <1>4, PlaceGoesOn
  <1>7. first1 \in Places(n) /\ \A s \in Places(n) : s >= first1 /\ s \in Nat
    BY <1>3, <1>6, FirstIs
  <1>8. pos'.history = n /\ pos'.delay = first1
    BY <1>6
  <1>9. /\ delayed' \in [0 .. (Core!Delay - 1) -> 0 .. Loudest]
        /\ \A s \in 0 .. (Core!Delay - 1) : s # d => delayed'[s] = delayed[s]
        /\ \A q \in Ring : \A s \in Places(q) :
             (q # h \/ s <= d) => delayed'[s] <= levels[q]
    BY <1>1, DelayedIs
  <1>10. \A q \in Ring : \A s \in Places(q) : delayed'[s] <= levels[q] /\ delayed'[s] \in 0 .. Loudest
    BY <1>6, <1>9 DEF Places
  <1>11. /\ peak' \in [Ring -> 0 .. Loudest] /\ \A q \in Ring \ {n} : peak'[q] = levels[q]
    BY <1>2, <1>4, <1>5
  <1>12. /\ predictor' \in [Ring -> 0 .. Loudest] /\ predictor'[h] = smoothed
         /\ \A q \in Ring \ {h} : predictor'[q] = predictor[q]
    BY <1>2, <1>4
  <1>13. LimiterTypes'
    <2>1. \E a, b \in Int : ramped' = {a, b}
      <3>1. ramped' = {target, target}
        OBVIOUS
      <3> QED BY <1>2, <3>1
    <2>2. target' \in Int /\ previous' \in Int
      BY <1>2, <1>4
    <2> QED BY <1>4, <1>6, <1>7, <1>8, <1>9, <1>11, <1>12, <2>1, <2>2 DEF LimiterTypes, Ring, Places
  <1>14. PeaksCover'
    <2>1. ASSUME NEW q \in Ring, NEW s \in Places(q), q # n \/ s < first1
          PROVE  delayed'[s] <= peak'[q]
      <3>1. q # n
        BY <1>7, <2>1 DEF Places
      <3> QED BY <1>10, <1>11, <3>1
    <2> QED BY <1>8, <2>1 DEF PeaksCover, Ring, Places
  <1>15. PredictorCovers'
    <2>1. ASSUME NEW q \in Ring \ {n}, NEW r \in Ring \ {n}, Ago(n, q) <= Ago(n, r)
          PROVE  peak'[r] <= predictor'[q]
      <3>1. CASE q = h
        BY <1>4, <1>11, <1>12, <3>1
      <3>2. CASE q # h
        <4>1. Ago(n, q) = Ago(h, q) + 1 /\ Ago(n, r) = Ago(h, r) + 1
              /\ Ago(h, q) \in Nat /\ Ago(h, r) \in Nat /\ Ago(h, q) >= 1
          BY <1>2, <1>3, <3>2, NextIs
        <4>2. r # h
          <5>1. Ago(h, h) = 0
            BY <1>2, SizesAre DEF Ago, Ring
          <5> QED BY <2>1, <4>1, <5>1
        <4>3. Ago(h, q) <= Ago(h, r)
          BY <2>1, <4>1
        <4>4. peak[r] <= predictor[q]
          BY <1>1, <3>2, <4>2, <4>3 DEF LimiterInv, PredictorCovers
        <4>5. peak'[r] = peak[r] /\ predictor'[q] = predictor[q]
          BY <1>5, <1>11, <1>12, <3>2, <4>2
        <4> QED BY <4>4, <4>5
      <3> QED BY <3>1, <3>2
    <2> QED BY <1>8, <2>1 DEF PredictorCovers, Ring, Ago
  <1>16. \A s \in Places(n) : delayed'[s] + target <= 0
    <2> TAKE s \in Places(n)
    <2>1. s # d /\ s \in 0 .. (Core!Delay - 1) /\ s >= 0
      BY <1>2, <1>3, PlacesApart DEF Places
    <2>2. delayed[s] + target <= 0
      BY <1>1, <1>3, <2>1 DEF LimiterInv, GainsCover, Covers
    <2> QED BY <1>9, <2>1, <2>2
  <1>17. ASSUME NEW q, q \in {n, NextPlace(n)} PROVE \A s \in Places(q) : delayed'[s] + target' <= 0
    <2> TAKE s \in Places(q)
    <2>1. q \in Ring /\ levels[q] <= predicted
      BY <1>4, <1>17, NextIs
    <2>2. delayed'[s] <= levels[q] /\ delayed'[s] \in 0 .. Loudest /\ levels[q] \in 0 .. Loudest
      BY <1>5, <1>10, <2>1
    <2>3. PICK e \in 0 .. Loudest : e = delayed'[s]
      BY <2>2
    <2> QED BY <1>2, <1>4, <2>1, <2>2, <2>3
  <1>18. \A x \in ramped' : delayed'[first1] + x <= 0
    BY <1>7, <1>16
  <1>19. GainsCover'
    BY <1>3, <1>4, <1>8, <1>16, <1>17, <1>18 DEF GainsCover, Covers, Places, NextPlace
  <1> QED BY <1>13, <1>14, <1>15, <1>19

LEMMA FrameKeeps == LimiterInv /\ Core!LimitFrame => LimiterInv'
  <1> SUFFICES ASSUME LimiterInv, Core!LimitFrame PROVE LimiterInv'
    OBVIOUS
  <1>1. PICK level \in 0 .. Loudest :
       /\ out' = [level |-> delayed[pos.delay], gain |-> Core!Max(ramped)]
       /\ delayed' = [delayed EXCEPT ![pos.delay] = level]
       /\ ramped' = (IF (pos.delay + 1) % Ramp = 0 THEN {target} ELSE {previous, target})
       /\ IF (pos.delay + 1) % Ramp = 0 THEN Core!GroupEnds(Core!PeakWith(level))
                                        ELSE Core!Within(Core!PeakWith(level))
    BY DEF Core!LimitFrame
  <1>2. Core!BelowCeiling'
    <2>1. Core!Max(ramped) \in ramped
      BY MaxOfTwo DEF LimiterInv, LimiterTypes
    <2>2. delayed[pos.delay] + Core!Max(ramped) <= 0
      BY <2>1 DEF LimiterInv, GainsCover
    <2> QED BY <1>1, <2>2 DEF Core!BelowCeiling
  <1>3. LimiterTypes' /\ PeaksCover' /\ PredictorCovers' /\ GainsCover'
    BY <1>1, WithinKeeps, EndKeeps
  <1> QED BY <1>2, <1>3 DEF LimiterInv

LEMMA LimiterGoesOn == LimiterInv /\ [Core!Next]_Core!vars => LimiterInv'
  <1> SUFFICES ASSUME LimiterInv, [Core!Next]_Core!vars PROVE LimiterInv'
    OBVIOUS
  <1>1. CASE UNCHANGED Core!limiterVars
    BY <1>1 DEF Core!limiterVars, LimiterInv, LimiterTypes, PeaksCover, PredictorCovers, GainsCover,
         Core!BelowCeiling, Covers, Ring, Places, Ago, NextPlace
  <1>2. CASE Core!LimitFrame
    BY <1>2, FrameKeeps
  <1>3. CASE Core!FilterBlock
    BY <1>1, <1>3 DEF Core!FilterBlock
  <1>4. CASE Core!Done \/ UNCHANGED Core!vars
    BY <1>1, <1>4 DEF Core!Done, Core!vars
  <1> QED BY <1>2, <1>3, <1>4 DEF Core!Next

LEMMA LimiterStarts == Core!Init => LimiterInv
  <1> SUFFICES ASSUME Core!Init PROVE LimiterInv
    OBVIOUS
  <1>1. /\ delayed = [i \in 0 .. (Core!Delay - 1) |-> 0]
        /\ peak = [i \in Ring |-> 0] /\ predictor = [i \in Ring |-> 0] /\ envelope = 0
        /\ pos = [delay |-> 0, history |-> 0] /\ target = 0 /\ previous = 0 /\ ramped = {0}
        /\ out = [level |-> 0, gain |-> 0]
    BY DEF Core!Init, Core!Ring, Ring
  <1>2. 0 \in Ring /\ 0 \in Places(0) /\ Loudest \in Nat
    <2>1. 0 \in Ring
      BY SizesAre DEF Ring
    <2>2. 0 * Ramp = 0
      BY SizesAre
    <2> QED BY <2>1, <2>2, FirstIs, SizesAre
  <1>3. LimiterTypes
    <2>1. ramped = {0, 0}
      BY <1>1
    <2> QED BY <1>1, <1>2, <2>1 DEF LimiterTypes
  <1>4. \A q : \A s \in Places(q) : delayed[s] = 0
    <2> TAKE q
    <2> TAKE s \in Places(q)
    <2>1. s \in 0 .. (Core!Delay - 1)
      BY DEF Places
    <2> QED BY <1>1, <2>1
  <1>7. \A q \in Ring : peak[q] = 0 /\ predictor[q] = 0
    BY <1>1
  <1>5. PeaksCover
    <2> SUFFICES ASSUME NEW q \in Ring, NEW s \in Places(q) PROVE delayed[s] <= peak[q]
      BY DEF PeaksCover
    <2>1. delayed[s] = 0 /\ peak[q] = 0
      BY <1>4, <1>7
    <2> QED BY <2>1
  <1>8. PredictorCovers
    BY <1>7 DEF PredictorCovers
  <1>6. GainsCover
    <2>1. previous = 0 /\ target = 0 /\ pos.delay = 0
      BY <1>1
    <2>2. \A q : \A s \in Places(q) : delayed[s] + 0 <= 0
      BY <1>4
    <2>3. \A x \in ramped : delayed[pos.delay] + x <= 0
      <3>1. delayed[0] = 0
        BY <1>2, <1>4
      <3> QED BY <1>1, <2>1, <3>1
    <2>4. \A q, from : Covers(0, q, from)
      BY <2>2 DEF Covers
    <2> QED BY <2>1, <2>3, <2>4 DEF GainsCover
  <1> QED BY <1>1, <1>3, <1>5, <1>6, <1>8 DEF LimiterInv, Core!BelowCeiling

-----------------------------------------------------------------------------
\* Stage B's late pipeline and its limiter.
\* What one coefficient of the synthesis filter has gathered.
TapOf(q, k) == {Late!Term(q - m, k + m) : m \in 0 .. Late!Smaller(Taps - 1 - k, q - 1)}

SynthOf(q) == {Late!Term(q - k, k) : k \in 0 .. (Late!Smaller(Taps, q) - 1)}

LateTypes ==
  /\ steps \in Nat
  /\ late = [previous |-> late.previous, envelope |-> late.envelope, delayed |-> late.delayed,
             ring |-> late.ring, smoothed |-> late.smoothed, gain |-> late.gain]
  /\ late.previous \in Int /\ late.envelope \in Int /\ late.ring \in Int
  /\ late.smoothed \in Int /\ late.gain \in Int
  /\ lowest = [least |-> lowest.least, output |-> lowest.output]
  /\ lowest.least \in Int /\ lowest.output \in Int
  /\ DOMAIN history = Late!Rows /\ \A r \in Late!Rows : history[r] \in Int
  /\ baseline \in Int

\* The reduction is enough for the block that is held back.
HeldIsCovered ==
  /\ \A r \in Late!Rows : history[r] <= late.previous
  /\ late.envelope + late.previous <= Limit

PlayedIsCovered ==
  \A r \in Late!Rows : played[r].peak + Late!Larger(played[r].from, played[r].to) <= Limit

BoundsAreApart == deep.upper \in Int /\ deep.lower \in Int /\ deep.lower < deep.upper

TapsGather ==
  /\ DOMAIN taps = 1 .. (Taps - 1)
  /\ \A k \in 1 .. (Taps - 1) : taps[k] = TapOf(Late!Quarters, k)
  /\ synth = SynthOf(Late!Quarters)

LateInv == LateTypes /\ HeldIsCovered /\ PlayedIsCovered /\ BoundsAreApart /\ TapsGather

LEMMA LateSizesAre ==
  /\ \A p \in Peaks : p \in Int
  /\ Limit \in Int /\ \E p \in Peaks : p <= Limit /\ \A q \in Peaks : p <= q
  /\ Ease \in Nat /\ Floor \in Nat /\ Top \in Nat
  /\ Width \in Nat \ {0} /\ Alpha \in Nat \ {0} /\ Taps \in Nat /\ Taps > 1
BY EngineAssumption DEF Late!LateAssumption

LEMMA SmallerIs ==
  ASSUME NEW a \in Int, NEW b \in Int
  PROVE  /\ Late!Smaller(a, b) \in Int /\ Late!Smaller(a, b) <= a /\ Late!Smaller(a, b) <= b
         /\ Late!Smaller(a, b) = a \/ Late!Smaller(a, b) = b
BY DEF Late!Smaller

LEMMA LargerIs ==
  ASSUME NEW a \in Int, NEW b \in Int
  PROVE  /\ Late!Larger(a, b) \in Int /\ Late!Larger(a, b) >= a /\ Late!Larger(a, b) >= b
         /\ Late!Larger(a, b) = a \/ Late!Larger(a, b) = b
BY DEF Late!Larger

LEMMA SilentIs ==
  Late!Silent \in Int /\ Late!Silent <= Limit
  <1>1. PICK p \in Peaks : p <= Limit /\ \A q \in Peaks : p <= q
    BY LateSizesAre
  <1>2. \A x \in Peaks : p <= x
    BY <1>1
  <1>3. \E x \in Peaks : \A y \in Peaks : x <= y
    BY <1>1
  <1>4. Late!Silent \in Peaks /\ \A y \in Peaks : Late!Silent <= y
    BY <1>3, Zenon DEF Late!Silent, Late!Min
  <1> QED BY <1>1, <1>4, LateSizesAre

-----------------------------------------------------------------------------
\* A quarter of a call: the limiter.
LEMMA CandidateIs ==
  ASSUME LateTypes, NEW p \in Int
  PROVE  /\ Late!Candidate(p) \in Int
         /\ Late!Candidate(p) + late.gain + p <= Limit
         /\ Late!Candidate(p) + late.gain + late.previous <= Limit
  <1>1. late.previous \in Int /\ late.gain \in Int /\ Limit \in Int
    BY LateSizesAre DEF LateTypes
  <1>2. PICK h \in Int : h = Late!Held(p) /\ h >= p /\ h >= late.previous
    BY <1>1, LargerIs DEF Late!Held
  <1>3. Late!Candidate(p) = Late!Smaller(0, Limit - (h + late.gain))
    BY <1>2 DEF Late!Candidate
  <1>4. Late!Candidate(p) \in Int /\ Late!Candidate(p) <= Limit - (h + late.gain)
    BY <1>1, <1>3 DEF Late!Smaller
  <1> QED BY <1>1, <1>2, <1>4

LEMMA AnswersAre ==
  ASSUME LateTypes, NEW c \in Int, NEW answer \in Late!Answers(c)
  PROVE  /\ answer.envelope \in Int /\ answer.smoothed \in Int /\ answer.control \in Int
         /\ answer.envelope <= c + late.gain
  <1>1. /\ late.previous \in Int /\ late.gain \in Int /\ late.envelope \in Int
        /\ late.smoothed \in Int /\ late.ring \in Int
    BY DEF LateTypes
  <1>2. CASE answer = Late!Reduced(c)
    BY <1>1, <1>2 DEF Late!Reduced
  <1>3. ASSUME NEW smooth \in Late!Smooth(c), answer = Late!Released(c, smooth)
        PROVE  /\ answer.envelope \in Int /\ answer.smoothed \in Int /\ answer.control \in Int
               /\ answer.envelope <= c + late.gain
    <2>1. Late!Minimum(c) \in Int
      BY <1>1, SmallerIs DEF Late!Minimum
    <2>2. smooth \in Int
      BY <1>1, <1>3, <2>1, SmallerIs, LargerIs DEF Late!Smooth
    <2>3. PICK e \in Int : e = Late!Larger(late.envelope, smooth + late.gain)
      BY <1>1, <2>2 DEF Late!Larger
    <2>4. PICK f \in Int : f = Late!Smaller(c + late.gain, e) /\ f <= c + late.gain
      BY <1>1, <2>3 DEF Late!Smaller
    <2>5. answer = [envelope |-> f, smoothed |-> smooth, control |-> smooth]
      BY <1>3, <2>3, <2>4 DEF Late!Released
    <2> QED BY <2>2, <2>4, <2>5
  <1> QED BY <1>2, <1>3 DEF Late!Answers

LEMMA GainsAre ==
  ASSUME LateTypes, NEW knob \in Int, NEW gain \in Late!Gains(knob)
  PROVE  gain \in Int
  <1>1. late.gain \in Int /\ Floor \in Nat
    BY LateSizesAre DEF LateTypes
  <1>2. Late!Larger(-Floor, late.gain + knob) \in Int
    BY <1>1 DEF Late!Larger
  <1>3. Late!Smaller(0, late.gain + 1) \in Int
    BY <1>1 DEF Late!Smaller
  <1> QED BY <1>1, <1>2, <1>3 DEF Late!Gains

LEMMA LateBlockKeeps ==
  ASSUME LateTypes, HeldIsCovered, Late!LateBlock
  PROVE  /\ late' = [previous |-> late'.previous, envelope |-> late'.envelope,
                     delayed |-> late'.delayed, ring |-> late'.ring,
                     smoothed |-> late'.smoothed, gain |-> late'.gain]
         /\ late'.previous \in Int /\ late'.envelope \in Int /\ late'.ring \in Int
         /\ late'.smoothed \in Int /\ late'.gain \in Int
         /\ lowest' = [least |-> lowest'.least, output |-> lowest'.output]
         /\ lowest'.least \in Int /\ lowest'.output \in Int
         /\ DOMAIN history' = Late!Rows /\ \A r \in Late!Rows : history'[r] \in Int
         /\ HeldIsCovered' /\ PlayedIsCovered'
  <1>1. PICK in \in [Late!Rows -> Peaks] :
          LET p == Late!Larger(in[0], in[1])
              c == Late!Candidate(p)
          IN  \E answer \in Late!Answers(c) : \E gain \in Late!Gains(answer.control) :
                /\ late' = [previous |-> p, envelope |-> answer.envelope,
                            delayed |-> late.envelope, ring |-> c,
                            smoothed |-> answer.smoothed, gain |-> gain]
                /\ history' = in
                /\ played' = [r \in Late!Rows |->
                     [peak |-> history[r], from |-> late.envelope, to |-> answer.envelope]]
                /\ lowest' = LET least == Late!Smaller(lowest.least, answer.envelope)
                             IN  IF steps % 5 = 4 THEN [least |-> 0, output |-> least]
                                                  ELSE [lowest EXCEPT !.least = least]
    BY Zenon DEF Late!LateBlock
  <1>2. in[0] \in Int /\ in[1] \in Int
    BY LateSizesAre DEF Late!Rows
  <1>3. PICK p \in Int : p = Late!Larger(in[0], in[1]) /\ in[0] <= p /\ in[1] <= p
    BY <1>2, LargerIs
  <1>4. PICK c \in Int : c = Late!Candidate(p) /\ c + late.gain + p <= Limit
                         /\ c + late.gain + late.previous <= Limit
    BY CandidateIs
  <1>5. PICK answer \in Late!Answers(c) : \E gain \in Late!Gains(answer.control) :
                /\ late' = [previous |-> p, envelope |-> answer.envelope,
                            delayed |-> late.envelope, ring |-> c,
                            smoothed |-> answer.smoothed, gain |-> gain]
                /\ history' = in
                /\ played' = [r \in Late!Rows |->
                     [peak |-> history[r], from |-> late.envelope, to |-> answer.envelope]]
                /\ lowest' = LET least == Late!Smaller(lowest.least, answer.envelope)
                             IN  IF steps % 5 = 4 THEN [least |-> 0, output |-> least]
                                                  ELSE [lowest EXCEPT !.least = least]
    BY <1>1, <1>3, <1>4, Zenon
  <1>6. /\ answer.envelope \in Int /\ answer.smoothed \in Int /\ answer.control \in Int
        /\ answer.envelope <= c + late.gain
    BY AnswersAre
  <1>7. PICK gain \in Late!Gains(answer.control) :
                /\ late' = [previous |-> p, envelope |-> answer.envelope,
                            delayed |-> late.envelope, ring |-> c,
                            smoothed |-> answer.smoothed, gain |-> gain]
                /\ history' = in
                /\ played' = [r \in Late!Rows |->
                     [peak |-> history[r], from |-> late.envelope, to |-> answer.envelope]]
                /\ lowest' = LET least == Late!Smaller(lowest.least, answer.envelope)
                             IN  IF steps % 5 = 4 THEN [least |-> 0, output |-> least]
                                                  ELSE [lowest EXCEPT !.least = least]
    BY <1>5, Zenon
  <1>8. gain \in Int
    BY <1>6, GainsAre
  <1>9. /\ late.previous \in Int /\ late.gain \in Int /\ late.envelope \in Int
        /\ lowest = [least |-> lowest.least, output |-> lowest.output]
        /\ lowest.least \in Int /\ lowest.output \in Int /\ Limit \in Int
        /\ \A r \in Late!Rows : history[r] \in Int /\ history[r] <= late.previous
        /\ late.envelope + late.previous <= Limit
    BY LateSizesAre DEF LateTypes, HeldIsCovered
  <1>10. PICK least \in Int : least = Late!Smaller(lowest.least, answer.envelope)
    BY <1>6, <1>9, SmallerIs
  <1>11. lowest' = [least |-> 0, output |-> least] \/ lowest' = [least |-> least, output |-> lowest.output]
    BY <1>7, <1>9, <1>10
  <1>12. /\ late'.previous = p /\ late'.envelope = answer.envelope
         /\ late'.delayed = late.envelope /\ late'.ring = c
         /\ late'.smoothed = answer.smoothed /\ late'.gain = gain
    BY <1>7
  <1>13. PlayedIsCovered'
    <2> SUFFICES ASSUME NEW r \in Late!Rows
                 PROVE  played'[r].peak + Late!Larger(played'[r].from, played'[r].to) <= Limit
      BY DEF PlayedIsCovered
    <2>1. /\ played'[r].peak = history[r] /\ played'[r].from = late.envelope
          /\ played'[r].to = answer.envelope
      BY <1>7
    <2>2. history[r] + late.envelope <= Limit /\ history[r] + answer.envelope <= Limit
      BY <1>4, <1>6, <1>9
    <2> QED BY <1>6, <1>9, <2>1, <2>2 DEF Late!Larger
  <1>14. HeldIsCovered'
    <2>1. answer.envelope + p <= Limit
      BY <1>4, <1>6, <1>9
    <2>2. \A r \in Late!Rows : in[r] <= p
      BY <1>3 DEF Late!Rows
    <2>3. history' = in
      BY <1>7
    <2> QED BY <1>12, <2>1, <2>2, <2>3 DEF HeldIsCovered
  <1>15. DOMAIN history' = Late!Rows /\ \A r \in Late!Rows : history'[r] \in Int
    <2>1. history' = in
      BY <1>7
    <2> QED BY <1>2, <2>1 DEF Late!Rows
  <1>16. lowest' = [least |-> lowest'.least, output |-> lowest'.output]
         /\ lowest'.least \in Int /\ lowest'.output \in Int
    BY <1>9, <1>10, <1>11
  <1>17. late' = [previous |-> late'.previous, envelope |-> late'.envelope,
                 delayed |-> late'.delayed, ring |-> late'.ring,
                 smoothed |-> late'.smoothed, gain |-> late'.gain]
    BY <1>7
  <1> QED BY <1>6, <1>8, <1>12, <1>13, <1>14, <1>15, <1>16, <1>17

-----------------------------------------------------------------------------
\* The synthesis filter.
LEMMA QuartersAre ==
  ASSUME LateTypes
  PROVE  /\ Late!Quarters \in Nat
         /\ steps % 5 = 0 => (steps + 1) - ((steps + 1) + 4) \div 5 = Late!Quarters
         /\ steps % 5 # 0 => (steps + 1) - ((steps + 1) + 4) \div 5 = Late!Quarters + 1
  <1>1. steps \in Nat
    BY DEF LateTypes
  <1>2. PICK k \in Nat : k = steps \div 5
    BY <1>1
  <1>3. steps % 5 = steps - 5 * k /\ steps - 5 * k \in 0 .. 4
    BY <1>1, <1>2
  <1> QED BY <1>1, <1>2, <1>3 DEF Late!Quarters

LEMMA TapGrows ==
  ASSUME NEW q \in Nat, NEW k \in 0 .. (Taps - 2)
  PROVE  TapOf(q, k + 1) \cup {Late!Term(q + 1, k)} = TapOf(q + 1, k)
  <1>0. Taps \in Nat /\ Taps > 1
    BY LateSizesAre
  <1>1. PICK n \in Int : n = Late!Smaller(Taps - 1 - (k + 1), q - 1)
        /\ n + 1 = Late!Smaller(Taps - 1 - k, (q + 1) - 1) /\ n + 1 >= 0
    BY <1>0 DEF Late!Smaller
  <1>2. TapOf(q, k + 1) = {Late!Term(q - m, (k + 1) + m) : m \in 0 .. n}
    BY <1>1 DEF TapOf
  <1>3. TapOf(q + 1, k) = {Late!Term((q + 1) - m, k + m) : m \in 0 .. (n + 1)}
    BY <1>1 DEF TapOf
  <1>4. ASSUME NEW m \in 0 .. n
        PROVE  Late!Term(q - m, (k + 1) + m) \in TapOf(q + 1, k)
    <2>1. m + 1 \in 0 .. (n + 1) /\ (q + 1) - (m + 1) = q - m /\ k + (m + 1) = (k + 1) + m
      BY <1>1
    <2>2. Late!Term((q + 1) - (m + 1), k + (m + 1)) \in TapOf(q + 1, k)
      BY <1>3, <2>1
    <2> QED BY <2>1, <2>2
  <1>5. Late!Term(q + 1, k) \in TapOf(q + 1, k)
    <2>1. 0 \in 0 .. (n + 1) /\ (q + 1) - 0 = q + 1 /\ k + 0 = k
      BY <1>1
    <2>2. Late!Term((q + 1) - 0, k + 0) \in TapOf(q + 1, k)
      BY <1>3, <2>1
    <2> QED BY <2>1, <2>2
  <1>6. ASSUME NEW m \in 0 .. (n + 1)
        PROVE  Late!Term((q + 1) - m, k + m) \in TapOf(q, k + 1) \cup {Late!Term(q + 1, k)}
    <2>1. CASE m = 0
      <3>1. (q + 1) - m = q + 1 /\ k + m = k
        BY <2>1
      <3> QED BY <3>1
    <2>2. CASE m # 0
      <3>1. m - 1 \in 0 .. n /\ (q + 1) - m = q - (m - 1) /\ k + m = (k + 1) + (m - 1)
        BY <1>1, <2>2
      <3>2. Late!Term(q - (m - 1), (k + 1) + (m - 1)) \in TapOf(q, k + 1)
        BY <1>2, <3>1
      <3> QED BY <3>1, <3>2
    <2> QED BY <2>1, <2>2
  <1> QED BY <1>2, <1>3, <1>4, <1>5, <1>6

LEMMA LastTap ==
  ASSUME NEW q \in Nat
  PROVE  TapOf(q + 1, Taps - 1) = {Late!Term(q + 1, Taps - 1)}
  <1>1. Taps \in Nat /\ Taps > 1
    BY LateSizesAre
  <1>2. Late!Smaller(Taps - 1 - (Taps - 1), (q + 1) - 1) = 0
    BY <1>1 DEF Late!Smaller
  <1>3. TapOf(q + 1, Taps - 1) = {Late!Term((q + 1) - m, (Taps - 1) + m) : m \in 0 .. 0}
    BY <1>2 DEF TapOf
  <1>4. \A m \in 0 .. 0 : (q + 1) - m = q + 1 /\ (Taps - 1) + m = Taps - 1
    BY <1>1
  <1>5. 0 \in 0 .. 0
    OBVIOUS
  <1> QED BY <1>3, <1>4, <1>5

LEMMA SynthIs ==
  ASSUME NEW q \in Nat
  PROVE  TapOf(q + 1, 0) = SynthOf(q + 1)
  <1>1. Taps \in Nat /\ Taps > 1
    BY LateSizesAre
  <1>2. Late!Smaller(Taps - 1 - 0, (q + 1) - 1) = Late!Smaller(Taps, q + 1) - 1
    BY <1>1 DEF Late!Smaller
  <1>3. \A m \in 0 .. (Late!Smaller(Taps, q + 1) - 1) : 0 + m = m
    OBVIOUS
  <1> QED BY <1>2, <1>3 DEF TapOf, SynthOf

LEMMA TapsKeep ==
  ASSUME LateTypes, TapsGather, Late!Synthesise, Late!Quarters' = Late!Quarters + 1
  PROVE  TapsGather'
  <1>0. Taps \in Nat /\ Taps > 1
    BY LateSizesAre
  <1>1. PICK q \in Nat : q = Late!Quarters
    BY QuartersAre
  <1>2. /\ synth' = taps[1] \cup {Late!Term(q + 1, 0)}
        /\ taps' = [k \in 1 .. (Taps - 1) |->
                    (IF k < Taps - 1 THEN taps[k + 1] ELSE {}) \cup {Late!Term(q + 1, k)}]
    BY <1>1 DEF Late!Synthesise, Late!Shifted
  <1>3. \A k \in 1 .. (Taps - 1) : taps[k] = TapOf(q, k)
    BY <1>1 DEF TapsGather
  <1>4. ASSUME NEW k \in 1 .. (Taps - 1) PROVE taps'[k] = TapOf(q + 1, k)
    <2>1. CASE k < Taps - 1
      <3>1. k + 1 \in 1 .. (Taps - 1) /\ k \in 0 .. (Taps - 2)
        BY <1>0, <2>1
      <3>2. taps'[k] = TapOf(q, k + 1) \cup {Late!Term(q + 1, k)}
        BY <1>2, <1>3, <2>1, <3>1
      <3> QED BY <3>1, <3>2, TapGrows
    <2>2. CASE ~(k < Taps - 1)
      <3>1. k = Taps - 1
        BY <1>0, <2>2
      <3>2. taps'[k] = {Late!Term(q + 1, k)}
        BY <1>2, <2>2
      <3> QED BY <3>1, <3>2, LastTap
    <2> QED BY <2>1, <2>2
  <1>5. synth' = SynthOf(q + 1)
    <2>1. 1 \in 1 .. (Taps - 1) /\ 0 \in 0 .. (Taps - 2) /\ 0 + 1 = 1
      BY <1>0
    <2>2. synth' = TapOf(q, 0 + 1) \cup {Late!Term(q + 1, 0)}
      BY <1>2, <1>3, <2>1
    <2>3. synth' = TapOf(q + 1, 0)
      BY <2>1, <2>2, TapGrows
    <2> QED BY <2>3, SynthIs
  <1>6. Late!Quarters' = q + 1 /\ DOMAIN taps' = 1 .. (Taps - 1)
    BY <1>1, <1>2
  <1> QED BY <1>4, <1>5, <1>6 DEF TapsGather

LEMMA ScaledIs ==
  ASSUME NEW m \in Nat, NEW d \in Int, NEW w \in Int, w <= d
  PROVE  w * m <= d * m /\ w * m \in Int /\ d * m \in Int
  <1>1. PICK e \in Nat : e = d - w
    OBVIOUS
  <1>2. e * m \in Nat
    OBVIOUS
  <1>3. e * m = d * m - w * m
    BY <1>1
  <1> QED BY <1>2, <1>3

\* The deep controller: the bounds of a band stay a knee apart.
LEMMA BalancedIs ==
  ASSUME NEW upper \in Int, NEW lower \in Int, upper - lower >= Width,
         NEW low \in Int, NEW alpha \in 0 .. Alpha
  PROVE  LET b == Late!Balanced([upper |-> upper, lower |-> lower], low, alpha)
         IN  b.upper \in Int /\ b.lower \in Int /\ b.lower < b.upper
  <1>0. Width \in Nat \ {0} /\ Alpha \in Nat \ {0}
    BY LateSizesAre
  <1>1. PICK second \in Int : second = Late!Smaller(lower + (low - upper), low - Width)
                              /\ second <= low - Width
    BY <1>0 DEF Late!Smaller
  <1>2. PICK rest \in Nat : rest = Alpha - alpha
    BY <1>0
  <1>3. PICK b : b = Late!Balanced([upper |-> upper, lower |-> lower], low, alpha)
    OBVIOUS
  <1>4. b = [upper |-> upper * rest + low * alpha, lower |-> lower * rest + second * alpha]
    BY <1>1, <1>2, <1>3 DEF Late!Balanced
  <1>5. PICK x \in Int : x = upper * rest
    OBVIOUS
  <1>6. PICK y \in Int : y = low * alpha
    OBVIOUS
  <1>7. PICK z \in Int : z = lower * rest
    OBVIOUS
  <1>8. PICK v \in Int : v = second * alpha
    OBVIOUS
  <1>9. Width * rest <= x - z
    <2>1. (upper - lower) * rest = x - z
      BY <1>5, <1>7
    <2>2. Width * rest <= (upper - lower) * rest
      BY <1>0, ScaledIs
    <2> QED BY <2>1, <2>2
  <1>10. Width * alpha <= y - v
    <2>1. (low - second) * alpha = y - v
      BY <1>6, <1>8
    <2>2. Width * alpha <= (low - second) * alpha
      BY <1>0, <1>1, ScaledIs
    <2> QED BY <2>1, <2>2
  <1>11. Width * rest + Width * alpha >= 1
    <2>1. Width * rest + Width * alpha = Width * Alpha
      BY <1>0, <1>2
    <2>2. Width * Alpha >= 1
      BY <1>0
    <2> QED BY <2>1, <2>2
  <1>12. Width * rest \in Int /\ Width * alpha \in Int
    BY <1>0
  <1>13. z + v < x + y
    BY <1>9, <1>10, <1>11, <1>12
  <1> QED BY <1>3, <1>4, <1>5, <1>6, <1>7, <1>8, <1>13

LEMMA DeepKeeps ==
  ASSUME LateTypes, Late!DeepCall
  PROVE  BoundsAreApart' /\ baseline' \in Int
  <1>0. /\ baseline \in Int /\ lowest.output \in Int /\ Top \in Nat /\ Width \in Nat \ {0}
    BY LateSizesAre DEF LateTypes
  <1>1. PICK base \in Late!Baseline(lowest.output),
             own \in [upper : Late!Level, lower : Late!Level], common \in BOOLEAN :
          LET b == IF common THEN Late!Common(base) ELSE Late!Bounds(base, own)
          IN  \E low \in {b.upper, b.upper - 1}, alpha \in 0 .. Alpha :
                baseline' = base /\ deep' = Late!Balanced(b, low, alpha)
    BY Zenon DEF Late!DeepCall
  <1>2. base \in Int
    BY <1>0 DEF Late!Baseline, Late!Larger, Late!Smaller
  <1>3. PICK b : b = IF common THEN Late!Common(base) ELSE Late!Bounds(base, own)
    OBVIOUS
  <1>4. \E low \in {b.upper, b.upper - 1}, alpha \in 0 .. Alpha :
          baseline' = base /\ deep' = Late!Balanced(b, low, alpha)
    BY <1>1, <1>3, Zenon
  <1>5. /\ b = [upper |-> b.upper, lower |-> b.lower] /\ b.upper \in Int /\ b.lower \in Int
        /\ b.upper - b.lower >= Width
    <2>1. Late!Common(base) = [upper |-> base, lower |-> base - Width]
      BY DEF Late!Common
    <2>2. own.upper \in Int /\ own.lower \in Int /\ own = [upper |-> own.upper, lower |-> own.lower]
      BY <1>0 DEF Late!Level
    <2>3. PICK l \in Int : l = Late!Smaller(own.lower, own.upper - Width) /\ l <= own.upper - Width
      BY <1>0, <2>2 DEF Late!Smaller
    <2>4. [own EXCEPT !.lower = Late!Smaller(@, own.upper - Width)] = [upper |-> own.upper, lower |-> l]
      BY <2>2, <2>3
    <2>5. Late!Bounds(base, own) \in {Late!Common(base), [upper |-> own.upper, lower |-> l]}
      BY <2>4 DEF Late!Bounds
    <2>6. b = [upper |-> base, lower |-> base - Width] \/ b = [upper |-> own.upper, lower |-> l]
      BY <1>3, <2>1, <2>5
    <2> QED BY <1>0, <1>2, <2>2, <2>3, <2>6
  <1>6. PICK low \in {b.upper, b.upper - 1}, alpha \in 0 .. Alpha :
          baseline' = base /\ deep' = Late!Balanced(b, low, alpha)
    BY <1>4
  <1>7. low \in Int
    BY <1>5
  <1>8. /\ Late!Balanced([upper |-> b.upper, lower |-> b.lower], low, alpha).upper \in Int
        /\ Late!Balanced([upper |-> b.upper, lower |-> b.lower], low, alpha).lower \in Int
        /\ Late!Balanced([upper |-> b.upper, lower |-> b.lower], low, alpha).lower
             < Late!Balanced([upper |-> b.upper, lower |-> b.lower], low, alpha).upper
    BY <1>5, <1>7, BalancedIs
  <1>9. Late!Balanced([upper |-> b.upper, lower |-> b.lower], low, alpha) = deep'
    BY <1>5, <1>6
  <1> QED BY <1>2, <1>6, <1>8, <1>9 DEF BoundsAreApart

\* A band ends at or under its upper bound, a louder one no lower.
LEMMA SquareIs ==
  ASSUME NEW a \in Int
  PROVE  a * a \in Nat
  <1>1. CASE a >= 0
    BY <1>1
  <1>2. CASE a < 0
    <2>1. PICK b \in Nat : b = -a
      BY <1>2
    <2>2. b * b \in Nat /\ b * b = a * a
      BY <2>1
    <2> QED BY <2>2
  <1> QED BY <1>1, <1>2

\* With k the knee and x how far the target is above the lower bound.
LEMMA KneeIs ==
  ASSUME NEW k \in Int, k > 0, NEW x \in Int
  PROVE  4 * k * x - x * x <= 4 * k * k
  <1>1. (2 * k - x) * (2 * k - x) \in Nat
    BY SquareIs
  <1>2. (2 * k - x) * (2 * k - x) = 4 * k * k - (4 * k * x - x * x)
    OBVIOUS
  <1>3. 4 * k * k \in Int /\ 4 * k * x - x * x \in Int
    OBVIOUS
  <1> QED BY <1>1, <1>2, <1>3

LEMMA EndedIs ==
  ASSUME BoundsAreApart, NEW t \in Int
  PROVE  LET u == deep.upper
             l == deep.lower
         IN  /\ t <= l => Late!Ended(deep, t) = (4 * (u - l)) * t
             /\ l < t /\ t < 2 * u - l =>
                  Late!Ended(deep, t) = (4 * (u - l)) * t - (t - l) * (t - l)
             /\ t >= 2 * u - l => Late!Ended(deep, t) = (4 * (u - l)) * u
  <1>1. PICK u \in Int : u = deep.upper
    BY DEF BoundsAreApart
  <1>2. PICK l \in Int : l = deep.lower /\ l < u
    BY <1>1 DEF BoundsAreApart
  <1>3. PICK k \in Int : k = 4 * (u - l) /\ k = Late!Knees(deep)
    BY <1>1, <1>2 DEF Late!Knees
  <1>4. PICK kt \in Int : kt = k * t
    OBVIOUS
  <1>5. Late!Ended(deep, t) = kt + Late!Residual(deep, t)
    BY <1>3, <1>4 DEF Late!Ended
  <1>6. CASE t <= l
    <2>1. Late!Residual(deep, t) = 0
      BY <1>1, <1>2, <1>6 DEF Late!Residual
    <2> QED BY <1>1, <1>2, <1>3, <1>4, <1>5, <1>6, <2>1
  <1>7. CASE l < t /\ t < 2 * u - l
    <2>0. PICK s \in Int : s = (t - l) * (t - l)
      BY <1>2
    <2>1. Late!Residual(deep, t) = -s
      BY <1>1, <1>2, <1>7, <2>0 DEF Late!Residual
    <2> QED BY <1>1, <1>2, <1>3, <1>4, <1>5, <1>7, <2>0, <2>1
  <1>8. CASE t >= 2 * u - l
    <2>1. Late!Residual(deep, t) = k * (u - t)
      BY <1>1, <1>2, <1>3, <1>8 DEF Late!Residual
    <2>2. k * (u - t) = k * u - kt /\ k * u \in Int
      BY <1>4
    <2>3. Late!Ended(deep, t) = k * u
      BY <1>5, <2>1, <2>2
    <2> QED BY <1>1, <1>2, <1>3, <1>8, <2>3
  <1> QED BY <1>1, <1>2, <1>6, <1>7, <1>8

LEMMA EndedAtMost ==
  ASSUME BoundsAreApart, NEW t \in Int
  PROVE  Late!Ended(deep, t) <= Late!Knees(deep) * deep.upper
  <1>1. PICK u \in Int : u = deep.upper
    BY DEF BoundsAreApart
  <1>2. PICK l \in Int : l = deep.lower /\ l < u
    BY <1>1 DEF BoundsAreApart
  <1>3. PICK k \in Int : k = u - l /\ k > 0
    BY <1>2
  <1>4. Late!Knees(deep) = 4 * k
    BY <1>1, <1>2, <1>3 DEF Late!Knees
  <1>5. CASE t <= l
    <2>1. Late!Ended(deep, t) = (4 * k) * t
      BY <1>1, <1>2, <1>3, <1>5, EndedIs
    <2>2. t * (4 * k) <= u * (4 * k)
      BY <1>2, <1>3, <1>5, ScaledIs
    <2> QED BY <1>1, <1>4, <2>1, <2>2
  <1>6. CASE l < t /\ t < 2 * u - l
    <2>0. PICK x \in Int : x = t - l
      BY <1>2
    <2>1. Late!Ended(deep, t) = (4 * k) * t - x * x
      BY <1>1, <1>2, <1>3, <1>6, <2>0, EndedIs
    <2>2. 4 * k * x - x * x <= 4 * k * k
      BY <1>3, KneeIs
    <2>3. (4 * k) * t = 4 * k * x + (4 * k) * l
      BY <2>0
    <2>4. (4 * k) * u = 4 * k * k + (4 * k) * l
      BY <1>3
    <2>5. PICK kx \in Int : kx = 4 * k * x
      OBVIOUS
    <2>6. PICK kl \in Int : kl = (4 * k) * l
      OBVIOUS
    <2>7. PICK kk \in Int : kk = 4 * k * k
      OBVIOUS
    <2>8. PICK xx \in Int : xx = x * x
      OBVIOUS
    <2>9. Late!Ended(deep, t) = (kx + kl) - xx /\ kx - xx <= kk /\ (4 * k) * u = kk + kl
      BY <2>1, <2>2, <2>3, <2>4, <2>5, <2>6, <2>7, <2>8
    <2> QED BY <1>1, <1>4, <2>9
  <1>7. CASE t >= 2 * u - l
    <2>1. Late!Ended(deep, t) = (4 * k) * u
      BY <1>1, <1>2, <1>3, <1>7, EndedIs
    <2>2. (4 * k) * u \in Int
      OBVIOUS
    <2> QED BY <1>1, <1>4, <2>1, <2>2
  <1> QED BY <1>1, <1>2, <1>5, <1>6, <1>7

LEMMA EndedRises ==
  ASSUME BoundsAreApart, NEW t \in Int
  PROVE  Late!Ended(deep, t) <= Late!Ended(deep, t + 1)
  <1>1. PICK u \in Int : u = deep.upper
    BY DEF BoundsAreApart
  <1>2. PICK l \in Int : l = deep.lower /\ l < u
    BY <1>1 DEF BoundsAreApart
  <1>3. PICK k \in Int : k = u - l /\ k > 0
    BY <1>2
  <1>4. Late!Knees(deep) = 4 * k
    BY <1>1, <1>2, <1>3 DEF Late!Knees
  <1>5. PICK n \in Int : n = t + 1
    OBVIOUS
  <1>6. PICK kt \in Int : kt = (4 * k) * t /\ (4 * k) * n = kt + 4 * k
    BY <1>5
  <1>7. CASE n <= l
    <2>1. Late!Ended(deep, t) = kt
      BY <1>1, <1>2, <1>3, <1>5, <1>6, <1>7, EndedIs
    <2>2. Late!Ended(deep, n) = kt + 4 * k
      BY <1>1, <1>2, <1>3, <1>6, <1>7, EndedIs
    <2> QED BY <1>3, <1>5, <2>1, <2>2
  <1>8. CASE l < n /\ n < 2 * u - l
    <2>1. PICK y \in Int : y = n - l
      BY <1>2
    <2>2. Late!Ended(deep, n) = (kt + 4 * k) - y * y
      BY <1>1, <1>2, <1>3, <1>6, <1>8, <2>1, EndedIs
    <2>3. CASE t <= l
      <3>1. Late!Ended(deep, t) = kt
        BY <1>1, <1>2, <1>3, <1>6, <2>3, EndedIs
      <3>2. y = 1 /\ y * y = 1
        BY <1>5, <1>8, <2>1, <2>3
      <3> QED BY <1>3, <1>5, <2>2, <3>1, <3>2
    <2>4. CASE ~(t <= l)
      <3>1. PICK x \in Int : x = t - l /\ y = x + 1 /\ y < 2 * k
        BY <1>2, <1>3, <1>5, <1>8, <2>1
      <3>2. Late!Ended(deep, t) = kt - x * x
        <4>1. l < t /\ t < 2 * u - l
          BY <1>2, <1>5, <1>8, <2>4
        <4>2. Late!Ended(deep, t) = (4 * (u - l)) * t - (t - l) * (t - l)
          BY <1>1, <1>2, <4>1, EndedIs
        <4> QED BY <1>3, <1>6, <3>1, <4>2
      <3>3. PICK xx \in Int : xx = x * x /\ y * y = (xx + 2 * x) + 1
        BY <3>1
      <3>4. kt - xx <= (kt + 4 * k) - ((xx + 2 * x) + 1)
        BY <3>1
      <3> QED BY <1>5, <2>2, <3>2, <3>3, <3>4
    <2> QED BY <2>3, <2>4
  <1>9. CASE n >= 2 * u - l
    <2>1. Late!Ended(deep, n) = Late!Knees(deep) * u
      BY <1>1, <1>2, <1>3, <1>4, <1>9, EndedIs
    <2>2. Late!Ended(deep, t) <= Late!Knees(deep) * u
      BY <1>1, EndedAtMost
    <2> QED BY <1>5, <2>1, <2>2
  <1> QED BY <1>1, <1>2, <1>5, <1>7, <1>8, <1>9

LEMMA LateIsUnderLimit == LateInv => Late!NeverOverLimit
  <1> SUFFICES ASSUME LateInv PROVE Late!NeverOverLimit
    OBVIOUS
  <1>1. \A r \in Late!Rows : played[r].peak + Late!Larger(played[r].from, played[r].to) <= Limit
    BY DEF LateInv, PlayedIsCovered
  <1>2. synth = {Late!Term(Late!Quarters - k, k) : k \in 0 .. (Late!Smaller(Taps, Late!Quarters) - 1)}
    BY DEF LateInv, TapsGather, SynthOf
  <1>3. BoundsAreApart
    BY DEF LateInv
  <1>4. Late!Knees(deep) > 0
    BY <1>3 DEF Late!Knees, BoundsAreApart
  <1>5. ASSUME NEW end \in {Alpha * l : l \in Late!Level}
        PROVE  /\ Late!Ended(deep, end) <= Late!Knees(deep) * deep.upper
               /\ Late!Ended(deep, end) <= Late!Ended(deep, end + 1)
    <2>1. end \in Int
      BY LateSizesAre DEF Late!Level
    <2> QED BY <1>3, <2>1, EndedAtMost, EndedRises
  <1> QED BY <1>1, <1>2, <1>4, <1>5 DEF Late!NeverOverLimit

LEMMA LateStarts == Late!Init => LateInv
  <1> SUFFICES ASSUME Late!Init PROVE LateInv
    OBVIOUS
  <1>0. PICK s \in Int : s = Late!Silent /\ s <= Limit
    BY SilentIs
  <1>1. /\ steps = 0
        /\ late = [previous |-> s, envelope |-> 0, delayed |-> 0, ring |-> 0,
                   smoothed |-> 0, gain |-> 0]
        /\ lowest = [least |-> 0, output |-> 0]
        /\ history = [r \in Late!Rows |-> s]
        /\ played = [r \in Late!Rows |-> [peak |-> s, from |-> 0, to |-> 0]]
        /\ baseline = Top
        /\ deep = Late!Rest
        /\ taps = [k \in 1 .. (Taps - 1) |-> {}] /\ synth = {}
    BY <1>0 DEF Late!Init
  <1>2. /\ Top \in Nat /\ Width \in Nat \ {0} /\ Limit \in Int /\ Taps \in Nat /\ Taps > 1
    BY LateSizesAre
  <1>3. LateTypes
    BY <1>1, <1>2 DEF LateTypes
  <1>4. HeldIsCovered
    BY <1>0, <1>1, <1>2 DEF HeldIsCovered
  <1>5. PlayedIsCovered
    BY <1>0, <1>1, <1>2 DEF PlayedIsCovered, Late!Larger
  <1>6. BoundsAreApart
    BY <1>1, <1>2 DEF BoundsAreApart, Late!Rest
  <1>7. Late!Quarters = 0
    BY <1>1 DEF Late!Quarters
  <1>8. ASSUME NEW k \in 1 .. (Taps - 1) PROVE TapOf(0, k) = {}
    <2>1. 0 .. Late!Smaller(Taps - 1 - k, 0 - 1) = {}
      BY <1>2 DEF Late!Smaller
    <2> QED BY <2>1 DEF TapOf
  <1>9. SynthOf(0) = {}
    <2>1. 0 .. (Late!Smaller(Taps, 0) - 1) = {}
      BY <1>2 DEF Late!Smaller
    <2> QED BY <2>1 DEF SynthOf
  <1>10. TapsGather
    BY <1>1, <1>7, <1>8, <1>9 DEF TapsGather
  <1> QED BY <1>3, <1>4, <1>5, <1>6, <1>10 DEF LateInv

LEMMA LateGoesOn == LateInv /\ [Late!Next]_Late!vars => LateInv'
  <1> SUFFICES ASSUME LateInv, [Late!Next]_Late!vars PROVE LateInv'
    OBVIOUS
  <1>0. LateTypes /\ HeldIsCovered /\ PlayedIsCovered /\ BoundsAreApart /\ TapsGather
        /\ steps \in Nat
    BY DEF LateInv, LateTypes
  <1>1. CASE Late!Deep
    <2>1. /\ steps' = steps + 1 /\ steps % 5 = 0 /\ Late!DeepCall
          /\ UNCHANGED <<late, lowest, history, played, taps, synth>>
      BY <1>1 DEF Late!Deep
    <2>2. BoundsAreApart' /\ baseline' \in Int
      BY <1>0, <2>1, DeepKeeps
    <2>3. Late!Quarters' = Late!Quarters
      BY <1>0, <2>1, QuartersAre DEF Late!Quarters
    <2>4. LateTypes'
      BY <1>0, <2>1, <2>2 DEF LateTypes
    <2>5. TapsGather'
      BY <1>0, <2>1, <2>3 DEF TapsGather
    <2> QED BY <1>0, <2>1, <2>2, <2>4, <2>5 DEF LateInv, HeldIsCovered, PlayedIsCovered
  <1>2. CASE Late!Quarter
    <2>1. /\ steps' = steps + 1 /\ steps % 5 # 0 /\ Late!Synthesise /\ Late!LateBlock
          /\ deep' = Late!Rest /\ baseline' = baseline
      BY <1>2 DEF Late!Quarter
    <2>2. Late!Quarters' = Late!Quarters + 1
      BY <1>0, <2>1, QuartersAre DEF Late!Quarters
    <2>3. TapsGather'
      BY <1>0, <2>1, <2>2, TapsKeep
    <2>4. BoundsAreApart'
      BY <2>1, LateSizesAre DEF BoundsAreApart, Late!Rest
    <2>5. HeldIsCovered' /\ PlayedIsCovered'
      BY <1>0, <2>1, LateBlockKeeps
    <2>6. LateTypes'
      BY <1>0, <2>1, LateBlockKeeps DEF LateTypes
    <2> QED BY <2>3, <2>4, <2>5, <2>6 DEF LateInv
  <1>3. CASE Late!Done \/ UNCHANGED Late!vars
    <2>1. UNCHANGED <<steps, late, lowest, history, played, baseline, deep, taps, synth>>
      BY <1>3 DEF Late!Done, Late!vars
    <2> QED BY <1>0, <2>1 DEF LateInv, LateTypes, HeldIsCovered, PlayedIsCovered, BoundsAreApart,
                                TapsGather, Late!Quarters
  <1> QED BY <1>1, <1>2, <1>3 DEF Late!Next

\* NeverOverLimit of UbigEngine: neither Stage A's limiter nor that of
\* Stage B's late pipeline lets anything through above its ceiling.
THEOREM LimitCorrect == EngineSpec => []NeverOverLimit
  <1>1. LimiterInv /\ LateInv => NeverOverLimit
    BY LateIsUnderLimit DEF LimiterInv, NeverOverLimit
  <1> QED BY <1>1, EngineRuns, LimiterStarts, LimiterGoesOn, LateStarts, LateGoesOn, PTL

-----------------------------------------------------------------------------
\* The chain of the two stages and its settings.
\* A core is a record; what it is asked for a profile's words.
IsCore(c) ==
  c = [asked |-> c.asked, curve |-> c.curve, geqOn |-> c.geqOn, geq |-> c.geq,
       dirty |-> c.dirty, curveDirty |-> c.curveDirty, geqDirty |-> c.geqDirty]

\* What is not marked dirty the core already runs with.
Follows(c, l) ==
  /\ c.curveDirty => c.dirty
  /\ c.geqDirty => c.dirty
  /\ ~c.dirty => l.asked = c.asked
  /\ ~c.curveDirty => l.curve = c.curve
  /\ ~c.geqDirty => (l.geqOn <=> c.geqOn) /\ (c.geqOn => l.geq = c.geq)

\* The core is asked for the words and the curve of a profile.
Asks(c, p) == c.asked = Chain!ChainProfiles[p] /\ c.curve = Chain!Curve(p)

\* And for an equalizer, or none.
Equalizes(c, e) == (c.geqOn <=> e # Chain!NoEq) /\ (c.geqOn => c.geq = e)

\* A profile and a setting the core was brought to.
Wanted(p, e) == IF p = "personalize" THEN e ELSE Chain!NoEq

LEMMA ProfilesAre ==
  ASSUME NEW p \in Profiles
  PROVE  Chain!ChainProfiles[p] \in [1 .. 13 -> Int]
  <1>1. p \in DOMAIN Chain!ChainProfiles
    BY EngineAssumption DEF Chain!ChainAssumption
  <1>2. DOMAIN Chain!ChainProfiles =
          {"dynamic", "movie", "music", "game", "voice", "onlinecourse", "personalize"}
    BY DEF Chain!ChainProfiles
  <1>3. CASE p = "dynamic"
    BY <1>3 DEF Chain!ChainProfiles
  <1>4. CASE p = "movie"
    BY <1>4 DEF Chain!ChainProfiles
  <1>5. CASE p = "music"
    BY <1>5 DEF Chain!ChainProfiles
  <1>6. CASE p = "game"
    BY <1>6 DEF Chain!ChainProfiles
  <1>7. CASE p = "voice"
    BY <1>7 DEF Chain!ChainProfiles
  <1>8. CASE p = "onlinecourse"
    BY <1>8 DEF Chain!ChainProfiles
  <1>9. CASE p = "personalize"
    BY <1>9 DEF Chain!ChainProfiles
  <1> QED BY <1>1, <1>2, <1>3, <1>4, <1>5, <1>6, <1>7, <1>8, <1>9

-----------------------------------------------------------------------------
\* The operations on the core.
LEMMA SetFieldsIs ==
  ASSUME NEW c, IsCore(c), NEW F, NEW p \in Profiles, NEW old \in Profiles,
         c.asked = Chain!ChainProfiles[old],
         F = DOMAIN c.asked \/ F = Chain!Changed(old, p)
  PROVE  LET d == Chain!SetFields(c, F, p)
         IN  /\ IsCore(d) /\ d.asked = Chain!ChainProfiles[p]
             /\ d.curve = c.curve /\ d.geqOn = c.geqOn /\ d.geq = c.geq
             /\ d.curveDirty = c.curveDirty /\ d.geqDirty = c.geqDirty
             /\ d.dirty <=> (c.dirty \/ c.asked # Chain!ChainProfiles[p])
  <1>1. PICK new : new = Chain!ChainProfiles[p] /\ new \in [1 .. 13 -> Int]
    BY ProfilesAre
  <1>2. PICK was : was = Chain!ChainProfiles[old] /\ was \in [1 .. 13 -> Int] /\ c.asked = was
    BY ProfilesAre
  <1>3. PICK asked : asked = [f \in DOMAIN c.asked |-> IF f \in F THEN new[f] ELSE c.asked[f]]
    OBVIOUS
  <1>4. ASSUME NEW f \in 1 .. 13 PROVE asked[f] = new[f]
    <2>1. asked[f] = IF f \in F THEN new[f] ELSE was[f]
      BY <1>2, <1>3
    <2>2. CASE F = DOMAIN c.asked
      BY <1>2, <2>1, <2>2
    <2>3. CASE F = Chain!Changed(old, p)
      <3>1. F = {g \in 1 .. 13 : was[g] # new[g]}
        BY <1>1, <1>2, <2>3 DEF Chain!Changed
      <3> QED BY <2>1, <3>1
    <2> QED BY <2>2, <2>3
  <1>5. asked = new
    <2>1. asked = [f \in 1 .. 13 |-> asked[f]]
      BY <1>2, <1>3
    <2> QED BY <1>1, <1>4, <2>1
  <1>6. Chain!SetFields(c, F, p) = [c EXCEPT !.asked = asked, !.dirty = c.dirty \/ asked # c.asked]
    BY <1>1, <1>3, Zenon DEF Chain!SetFields
  <1>7. PICK b : b = (c.dirty \/ asked # c.asked)
    OBVIOUS
  <1>8. Chain!SetFields(c, F, p) = [c EXCEPT !.asked = asked, !.dirty = b]
    BY <1>6, <1>7, Zenon
  <1>9. Chain!SetFields(c, F, p) =
          [asked |-> asked, curve |-> c.curve, geqOn |-> c.geqOn, geq |-> c.geq,
           dirty |-> b, curveDirty |-> c.curveDirty, geqDirty |-> c.geqDirty]
    BY <1>8 DEF IsCore
  <1>10. b <=> (c.dirty \/ c.asked # Chain!ChainProfiles[p])
    BY <1>1, <1>5, <1>7, Zenon
  <1> QED BY <1>1, <1>5, <1>9, <1>10 DEF IsCore

LEMMA SetCurveIs ==
  ASSUME NEW c, IsCore(c), NEW curve
  PROVE  LET d == Chain!SetCurve(c, curve)
         IN  /\ IsCore(d) /\ d.curve = curve
             /\ d.asked = c.asked /\ d.geqOn = c.geqOn /\ d.geq = c.geq
             /\ d.geqDirty = c.geqDirty
             /\ d.curveDirty <=> (c.curveDirty \/ c.curve # curve)
             /\ d.dirty <=> (c.dirty \/ d.curveDirty)
  <1>1. PICK b : b = (c.curveDirty \/ c.curve # curve)
    OBVIOUS
  <1>2. PICK a : a = (c.dirty \/ b)
    OBVIOUS
  <1>3. Chain!SetCurve(c, curve) = [c EXCEPT !.curve = curve, !.curveDirty = b, !.dirty = a]
    BY <1>1, <1>2, Zenon DEF Chain!SetCurve
  <1>4. Chain!SetCurve(c, curve) =
          [asked |-> c.asked, curve |-> curve, geqOn |-> c.geqOn, geq |-> c.geq,
           dirty |-> a, curveDirty |-> b, geqDirty |-> c.geqDirty]
    BY <1>3 DEF IsCore
  <1>5. b <=> (c.curveDirty \/ c.curve # curve)
    BY <1>1, Zenon
  <1>6. a <=> (c.dirty \/ b)
    BY <1>2, Zenon
  <1> QED BY <1>4, <1>5, <1>6 DEF IsCore

LEMMA GeqValuesIs ==
  ASSUME NEW c, IsCore(c), NEW e
  PROVE  LET d == Chain!ApplyGeqValues(c, e)
         IN  /\ IsCore(d) /\ d.geqOn /\ d.geq = e
             /\ d.asked = c.asked /\ d.curve = c.curve /\ d.curveDirty = c.curveDirty
             /\ d.geqDirty <=> (c.geqDirty \/ c.geq # e \/ ~c.geqOn)
             /\ d.dirty <=> (c.dirty \/ d.geqDirty)
  <1>1. PICK b : b = (c.geqDirty \/ c.geq # e \/ ~c.geqOn)
    OBVIOUS
  <1>2. PICK a : a = (c.dirty \/ b)
    OBVIOUS
  <1>3. Chain!ApplyGeqValues(c, e) =
          [c EXCEPT !.geq = e, !.geqOn = TRUE, !.geqDirty = b, !.dirty = a]
    BY <1>1, <1>2, Zenon DEF Chain!ApplyGeqValues
  <1>4. Chain!ApplyGeqValues(c, e) =
          [asked |-> c.asked, curve |-> c.curve, geqOn |-> TRUE, geq |-> e,
           dirty |-> a, curveDirty |-> c.curveDirty, geqDirty |-> b]
    BY <1>3 DEF IsCore
  <1>5. b <=> (c.geqDirty \/ c.geq # e \/ ~c.geqOn)
    BY <1>1, Zenon
  <1>6. a <=> (c.dirty \/ b)
    BY <1>2, Zenon
  <1> QED BY <1>4, <1>5, <1>6 DEF IsCore

LEMMA GeqOffIs ==
  ASSUME NEW c, IsCore(c)
  PROVE  LET d == Chain!GeqOff(c)
         IN  /\ IsCore(d) /\ ~d.geqOn
             /\ d.asked = c.asked /\ d.curve = c.curve /\ d.curveDirty = c.curveDirty
             /\ d.geqDirty <=> (c.geqDirty \/ c.geqOn)
             /\ d.dirty <=> (c.dirty \/ c.geqOn)
  <1>1. CASE c.geqOn
    <2>1. Chain!GeqOff(c) = [c EXCEPT !.geqOn = FALSE, !.geqDirty = TRUE, !.dirty = TRUE]
      BY <1>1, Zenon DEF Chain!GeqOff
    <2>2. Chain!GeqOff(c) =
            [asked |-> c.asked, curve |-> c.curve, geqOn |-> FALSE, geq |-> c.geq,
             dirty |-> TRUE, curveDirty |-> c.curveDirty, geqDirty |-> TRUE]
      BY <2>1 DEF IsCore
    <2> QED BY <1>1, <2>2 DEF IsCore
  <1>2. CASE ~c.geqOn
    <2>1. Chain!GeqOff(c) = c
      BY <1>2, Zenon DEF Chain!GeqOff
    <2> QED BY <1>2, <2>1, Zenon
  <1> QED BY <1>1, <1>2

\* What each keeps: what is not marked dirty the core runs with.
LEMMA SetFieldsKeeps ==
  ASSUME NEW c, IsCore(c), NEW F, NEW p \in Profiles, NEW old \in Profiles, NEW l,
         c.asked = Chain!ChainProfiles[old], Follows(c, l),
         F = DOMAIN c.asked \/ F = Chain!Changed(old, p)
  PROVE  LET d == Chain!SetFields(c, F, p)
         IN  /\ IsCore(d) /\ d.asked = Chain!ChainProfiles[p] /\ Follows(d, l)
             /\ d.curve = c.curve /\ d.geqOn = c.geqOn /\ d.geq = c.geq
  <1>1. PICK d : d = Chain!SetFields(c, F, p)
    OBVIOUS
  <1>2. /\ IsCore(d) /\ d.asked = Chain!ChainProfiles[p]
        /\ d.curve = c.curve /\ d.geqOn = c.geqOn /\ d.geq = c.geq
        /\ d.curveDirty = c.curveDirty /\ d.geqDirty = c.geqDirty
        /\ d.dirty <=> (c.dirty \/ c.asked # Chain!ChainProfiles[p])
    BY <1>1, SetFieldsIs
  <1>3. Follows(d, l)
    BY <1>2 DEF Follows
  <1> QED BY <1>1, <1>2, <1>3

LEMMA SetCurveKeeps ==
  ASSUME NEW c, IsCore(c), NEW curve, NEW l, Follows(c, l)
  PROVE  LET d == Chain!SetCurve(c, curve)
         IN  /\ IsCore(d) /\ d.curve = curve /\ Follows(d, l)
             /\ d.asked = c.asked /\ d.geqOn = c.geqOn /\ d.geq = c.geq
  <1>1. PICK d : d = Chain!SetCurve(c, curve)
    OBVIOUS
  <1>2. /\ IsCore(d) /\ d.curve = curve
        /\ d.asked = c.asked /\ d.geqOn = c.geqOn /\ d.geq = c.geq
        /\ d.geqDirty = c.geqDirty
        /\ d.curveDirty <=> (c.curveDirty \/ c.curve # curve)
        /\ d.dirty <=> (c.dirty \/ d.curveDirty)
    BY <1>1, SetCurveIs
  <1>3. Follows(d, l)
    BY <1>2 DEF Follows
  <1> QED BY <1>1, <1>2, <1>3

LEMMA GeqValuesKeeps ==
  ASSUME NEW c, IsCore(c), NEW e, e # Chain!NoEq, NEW l, Follows(c, l)
  PROVE  LET d == Chain!ApplyGeqValues(c, e)
         IN  /\ IsCore(d) /\ Equalizes(d, e) /\ Follows(d, l)
             /\ d.asked = c.asked /\ d.curve = c.curve
  <1>1. PICK d : d = Chain!ApplyGeqValues(c, e)
    OBVIOUS
  <1>2. /\ IsCore(d) /\ d.geqOn /\ d.geq = e
        /\ d.asked = c.asked /\ d.curve = c.curve /\ d.curveDirty = c.curveDirty
        /\ d.geqDirty <=> (c.geqDirty \/ c.geq # e \/ ~c.geqOn)
        /\ d.dirty <=> (c.dirty \/ d.geqDirty)
    BY <1>1, GeqValuesIs
  <1>3. Follows(d, l)
    BY <1>2 DEF Follows
  <1>4. Equalizes(d, e)
    BY <1>2 DEF Equalizes
  <1> QED BY <1>1, <1>2, <1>3, <1>4

LEMMA GeqOffKeeps ==
  ASSUME NEW c, IsCore(c), NEW l, Follows(c, l)
  PROVE  LET d == Chain!GeqOff(c)
         IN  /\ IsCore(d) /\ Equalizes(d, Chain!NoEq) /\ Follows(d, l)
             /\ d.asked = c.asked /\ d.curve = c.curve
  <1>1. PICK d : d = Chain!GeqOff(c)
    OBVIOUS
  <1>2. /\ IsCore(d) /\ ~d.geqOn
        /\ d.asked = c.asked /\ d.curve = c.curve /\ d.curveDirty = c.curveDirty
        /\ d.geqDirty <=> (c.geqDirty \/ c.geqOn)
        /\ d.dirty <=> (c.dirty \/ c.geqOn)
    BY <1>1, GeqOffIs
  <1>3. Follows(d, l)
    BY <1>2 DEF Follows
  <1>4. Equalizes(d, Chain!NoEq)
    BY <1>2 DEF Equalizes
  <1> QED BY <1>1, <1>2, <1>3, <1>4

LEMMA GeqKeeps ==
  ASSUME NEW c, IsCore(c), NEW e, NEW l, Follows(c, l)
  PROVE  LET d == Chain!ApplyGeq(c, e)
         IN  /\ IsCore(d) /\ Equalizes(d, Chain!Known(e)) /\ Follows(d, l)
             /\ d.asked = c.asked /\ d.curve = c.curve
  <1>1. PICK k : k = Chain!Known(e)
    OBVIOUS
  <1>2. CASE k = Chain!NoEq
    <2>1. Chain!ApplyGeq(c, e) = Chain!GeqOff(c)
      BY <1>1, <1>2, Zenon DEF Chain!ApplyGeq
    <2> QED BY <1>1, <1>2, <2>1, GeqOffKeeps
  <1>3. CASE k # Chain!NoEq
    <2>1. Chain!ApplyGeq(c, e) = Chain!ApplyGeqValues(c, k)
      BY <1>1, <1>3, Zenon DEF Chain!ApplyGeq
    <2> QED BY <1>1, <1>3, <2>1, GeqValuesKeeps
  <1> QED BY <1>2, <1>3

-----------------------------------------------------------------------------
\* From one profile to another.
LEMMA RetargetKeeps ==
  ASSUME NEW c, IsCore(c), NEW old \in Profiles, NEW new \in Profiles, old # new,
         NEW e, NEW known, NEW l,
         Follows(c, l), Asks(c, old), Equalizes(c, Wanted(old, known))
  PROVE  LET d == Chain!Retarget(c, old, new, e)
         IN  /\ IsCore(d) /\ Asks(d, new) /\ Follows(d, l)
             /\ Equalizes(d, Wanted(new, Chain!Known(e)))
  <1>1. PICK s : s = Chain!SetFields(c, Chain!Changed(old, new), new)
    OBVIOUS
  <1>2. /\ IsCore(s) /\ s.asked = Chain!ChainProfiles[new] /\ Follows(s, l)
        /\ s.curve = c.curve /\ s.geqOn = c.geqOn /\ s.geq = c.geq
    BY <1>1, SetFieldsKeeps DEF Asks
  <1>3. PICK v : v = IF Chain!Curve(old) # Chain!Curve(new)
                     THEN Chain!SetCurve(s, Chain!Curve(new)) ELSE s
    OBVIOUS
  <1>4. /\ IsCore(v) /\ v.asked = s.asked /\ v.curve = Chain!Curve(new) /\ Follows(v, l)
        /\ v.geqOn = c.geqOn /\ v.geq = c.geq
    <2>1. CASE Chain!Curve(old) # Chain!Curve(new)
      <3>1. v = Chain!SetCurve(s, Chain!Curve(new))
        BY <1>3, <2>1, Zenon
      <3> QED BY <1>2, <3>1, SetCurveKeeps
    <2>2. CASE Chain!Curve(old) = Chain!Curve(new)
      BY <1>2, <1>3, <2>2 DEF Asks
    <2> QED BY <2>1, <2>2
  <1>5. Chain!Retarget(c, old, new, e) =
          IF old # "personalize" /\ new = "personalize" THEN Chain!ApplyGeq(v, e)
          ELSE IF old = "personalize" /\ new # "personalize" THEN Chain!GeqOff(v)
          ELSE v
    BY <1>1, <1>3, Zenon DEF Chain!Retarget
  <1>6. CASE new = "personalize"
    <2>1. Chain!Retarget(c, old, new, e) = Chain!ApplyGeq(v, e)
      BY <1>5, <1>6, Zenon
    <2>2. Wanted(new, Chain!Known(e)) = Chain!Known(e)
      BY <1>6 DEF Wanted
    <2>3. PICK d : d = Chain!ApplyGeq(v, e)
      OBVIOUS
    <2>4. /\ IsCore(d) /\ Equalizes(d, Chain!Known(e)) /\ Follows(d, l)
          /\ d.asked = v.asked /\ d.curve = v.curve
      BY <1>4, <2>3, GeqKeeps
    <2>5. Asks(d, new)
      BY <1>2, <1>4, <2>4 DEF Asks
    <2> QED BY <2>1, <2>2, <2>3, <2>4, <2>5
  <1>7. CASE new # "personalize" /\ old = "personalize"
    <2>1. Chain!Retarget(c, old, new, e) = Chain!GeqOff(v)
      BY <1>5, <1>7, Zenon
    <2>2. Wanted(new, Chain!Known(e)) = Chain!NoEq
      BY <1>7 DEF Wanted
    <2>3. PICK d : d = Chain!GeqOff(v)
      OBVIOUS
    <2>4. /\ IsCore(d) /\ Equalizes(d, Chain!NoEq) /\ Follows(d, l)
          /\ d.asked = v.asked /\ d.curve = v.curve
      BY <1>4, <2>3, GeqOffKeeps
    <2>5. Asks(d, new)
      BY <1>2, <1>4, <2>4 DEF Asks
    <2> QED BY <2>1, <2>2, <2>3, <2>4, <2>5
  <1>8. CASE new # "personalize" /\ old # "personalize"
    <2>1. Chain!Retarget(c, old, new, e) = v
      BY <1>5, <1>8, Zenon
    <2>2. Wanted(new, Chain!Known(e)) = Chain!NoEq /\ Wanted(old, known) = Chain!NoEq
      BY <1>8 DEF Wanted
    <2>3. Equalizes(v, Chain!NoEq)
      BY <1>4, <2>2 DEF Equalizes
    <2>4. Asks(v, new)
      BY <1>2, <1>4 DEF Asks
    <2> QED BY <1>4, <2>1, <2>2, <2>3, <2>4
  <1> QED BY <1>6, <1>7, <1>8

LEMMA ApplyKeeps ==
  ASSUME NEW c, IsCore(c), NEW old \in Profiles, NEW new \in Profiles, NEW e, NEW l,
         Follows(c, l), Asks(c, old)
  PROVE  LET d == Chain!ApplyProfile(c, new, e)
         IN  /\ IsCore(d) /\ Asks(d, new) /\ Follows(d, l)
             /\ Equalizes(d, Wanted(new, Chain!Known(e)))
  <1>1. PICK s : s = Chain!SetFields(c, DOMAIN c.asked, new)
    OBVIOUS
  <1>2. /\ IsCore(s) /\ s.asked = Chain!ChainProfiles[new] /\ Follows(s, l)
    BY <1>1, SetFieldsKeeps DEF Asks
  <1>3. PICK v : v = IF new = "personalize" THEN Chain!ApplyGeq(s, e) ELSE Chain!GeqOff(s)
    OBVIOUS
  <1>4. /\ IsCore(v) /\ v.asked = s.asked /\ Follows(v, l)
        /\ Equalizes(v, Wanted(new, Chain!Known(e)))
    <2>1. CASE new = "personalize"
      <3>1. Wanted(new, Chain!Known(e)) = Chain!Known(e)
        BY <2>1 DEF Wanted
      <3>2. v = Chain!ApplyGeq(s, e)
        BY <1>3, <2>1, Zenon
      <3> QED BY <1>2, <3>1, <3>2, GeqKeeps
    <2>2. CASE new # "personalize"
      <3>1. Wanted(new, Chain!Known(e)) = Chain!NoEq
        BY <2>2 DEF Wanted
      <3>2. v = Chain!GeqOff(s)
        BY <1>3, <2>2, Zenon
      <3> QED BY <1>2, <3>1, <3>2, GeqOffKeeps
    <2> QED BY <2>1, <2>2
  <1>5. Chain!ApplyProfile(c, new, e) = Chain!SetCurve(v, Chain!Curve(new))
    BY <1>1, <1>3, Zenon DEF Chain!ApplyProfile
  <1>6. PICK d : d = Chain!SetCurve(v, Chain!Curve(new))
    OBVIOUS
  <1>7. /\ IsCore(d) /\ d.curve = Chain!Curve(new) /\ Follows(d, l)
        /\ d.asked = v.asked /\ d.geqOn = v.geqOn /\ d.geq = v.geq
    BY <1>4, <1>6, SetCurveKeeps
  <1>8. Asks(d, new)
    BY <1>2, <1>4, <1>7 DEF Asks
  <1>9. Equalizes(d, Wanted(new, Chain!Known(e)))
    BY <1>4, <1>7 DEF Equalizes
  <1> QED BY <1>5, <1>6, <1>7, <1>8, <1>9

\* The core, the profile and the setting belong together.
Whole(c, p, e, l) ==
  IsCore(c) /\ p \in Profiles /\ Asks(c, p) /\ Equalizes(c, Wanted(p, e)) /\ Follows(c, l)

WholeSetting(s, l) ==
  s = [core |-> s.core, profile |-> s.profile, eq |-> s.eq] /\ Whole(s.core, s.profile, s.eq, l)

LEMMA SwitchKeeps ==
  ASSUME NEW c, NEW p, NEW e, NEW known, NEW l, Whole(c, p, known, l),
         NEW next \in Profiles, next # p
  PROVE  WholeSetting(Chain!Switch([core |-> c, profile |-> p, eq |-> e], next), l)
  <1>1. PICK d : d = Chain!Retarget(c, p, next, e)
    OBVIOUS
  <1>2. /\ IsCore(d) /\ Asks(d, next) /\ Follows(d, l)
        /\ Equalizes(d, Wanted(next, Chain!Known(e)))
    BY <1>1, RetargetKeeps DEF Whole
  <1>3. Chain!Switch([core |-> c, profile |-> p, eq |-> e], next)
          = [core |-> d, profile |-> next, eq |-> Chain!EqAfter(next, e)]
    BY <1>1 DEF Chain!Switch
  <1>4. Wanted(next, Chain!EqAfter(next, e)) = Wanted(next, Chain!Known(e))
    BY DEF Wanted, Chain!EqAfter
  <1>5. Whole(d, next, Chain!EqAfter(next, e), l)
    BY <1>2, <1>4 DEF Whole
  <1> QED BY <1>3, <1>5 DEF WholeSetting

LEMMA RequestedKeeps ==
  ASSUME NEW s, NEW l, WholeSetting(s, l), NEW next \in Profiles, NEW e
  PROVE  WholeSetting(Chain!Requested(s, next, e), l)
  <1>1. PICK c, p, q : c = s.core /\ p = s.profile /\ q = s.eq
    OBVIOUS
  <1>2. s = [core |-> c, profile |-> p, eq |-> q] /\ Whole(c, p, q, l)
    BY <1>1 DEF WholeSetting
  <1>3. PICK kept : kept = IF e = Chain!NoEq THEN s ELSE [s EXCEPT !.eq = e]
    OBVIOUS
  <1>4. PICK k : kept = [core |-> c, profile |-> p, eq |-> k]
                 /\ (k = IF e = Chain!NoEq THEN q ELSE e)
    BY <1>2, <1>3
  <1>5. CASE next # p
    <2>1. Chain!Requested(s, next, e) = Chain!Switch(kept, next)
      BY <1>1, <1>3, <1>5, Zenon DEF Chain!Requested
    <2> QED BY <1>2, <1>4, <1>5, <2>1, SwitchKeeps
  <1>6. CASE next = p /\ next = "personalize" /\ e # Chain!NoEq
    <2>1. Chain!Requested(s, next, e) = [kept EXCEPT !.core = Chain!ApplyGeqValues(kept.core, e)]
      BY <1>1, <1>3, <1>6, Zenon DEF Chain!Requested
    <2>2. PICK d : d = Chain!ApplyGeqValues(c, e)
      OBVIOUS
    <2>3. Chain!Requested(s, next, e) = [core |-> d, profile |-> p, eq |-> e]
      BY <1>4, <1>6, <2>1, <2>2
    <2>4. /\ IsCore(d) /\ Equalizes(d, e) /\ Follows(d, l)
          /\ d.asked = c.asked /\ d.curve = c.curve
      BY <1>2, <1>6, <2>2, GeqValuesKeeps DEF Whole
    <2>5. Whole(d, p, e, l)
      BY <1>2, <1>6, <2>4 DEF Whole, Asks, Wanted
    <2> QED BY <2>3, <2>5 DEF WholeSetting
  <1>7. CASE next = p /\ ~(next = "personalize" /\ e # Chain!NoEq)
    <2>1. Chain!Requested(s, next, e) = kept
      BY <1>1, <1>3, <1>7, Zenon DEF Chain!Requested
    <2>2. Wanted(p, k) = Wanted(p, q)
      BY <1>4, <1>7 DEF Wanted
    <2>3. Whole(c, p, k, l)
      BY <1>2, <2>2 DEF Whole
    <2> QED BY <1>4, <2>1, <2>3 DEF WholeSetting
  <1> QED BY <1>5, <1>6, <1>7

\* Before a block the core runs with what it is asked for.
LEMMA FollowedKeeps ==
  ASSUME NEW c, NEW p, NEW e, NEW l, Whole(c, p, e, l)
  PROVE  /\ Whole(Chain!Followed(c), p, e, Chain!Follow(c, l))
         /\ Chain!Follow(c, l).asked = c.asked /\ Chain!Follow(c, l).curve = c.curve
         /\ Chain!Follow(c, l).geqOn <=> c.geqOn
         /\ c.geqOn => Chain!Follow(c, l).geq = c.geq
  <1>0. IsCore(c) /\ p \in Profiles /\ Asks(c, p) /\ Equalizes(c, Wanted(p, e)) /\ Follows(c, l)
    BY DEF Whole
  <1>1. CASE ~c.dirty
    <2>1. Chain!Followed(c) = c /\ Chain!Follow(c, l) = l
      BY <1>1, Zenon DEF Chain!Followed, Chain!Follow
    <2>2. /\ l.asked = c.asked /\ l.curve = c.curve /\ (l.geqOn <=> c.geqOn)
          /\ c.geqOn => l.geq = c.geq
      BY <1>0, <1>1 DEF Follows
    <2> QED BY <2>1, <2>2, Zenon
  <1>2. CASE c.dirty
    <2>1. PICK m : m = Chain!Follow(c, l)
      OBVIOUS
    <2>2. PICK d : d = Chain!Followed(c)
      OBVIOUS
    <2>3. m = [asked |-> c.asked,
               curve |-> IF c.curveDirty THEN c.curve ELSE l.curve,
               geqOn |-> IF c.geqDirty THEN c.geqOn ELSE l.geqOn,
               geq   |-> IF c.geqDirty THEN c.geq ELSE l.geq]
      BY <1>2, <2>1, Zenon DEF Chain!Follow
    <2>4. d = [c EXCEPT !.dirty = FALSE, !.curveDirty = FALSE, !.geqDirty = FALSE]
      BY <1>2, <2>2, Zenon DEF Chain!Followed
    <2>5. d = [asked |-> c.asked, curve |-> c.curve, geqOn |-> c.geqOn, geq |-> c.geq,
               dirty |-> FALSE, curveDirty |-> FALSE, geqDirty |-> FALSE]
      BY <1>0, <2>4 DEF IsCore
    <2>6. m.asked = c.asked /\ m.curve = c.curve
      BY <1>0, <2>3 DEF Follows
    <2>7. CASE c.geqDirty
      <3>1. m.geqOn = c.geqOn /\ m.geq = c.geq
        BY <2>3, <2>7
      <3>2. Whole(d, p, e, m)
        BY <1>0, <2>5, <2>6, <3>1 DEF Whole, IsCore, Asks, Equalizes, Follows
      <3> QED BY <2>1, <2>2, <2>6, <3>1, <3>2
    <2>8. CASE ~c.geqDirty
      <3>1. m.geqOn = l.geqOn /\ m.geq = l.geq
        BY <2>3, <2>8
      <3>2. (m.geqOn <=> c.geqOn) /\ (c.geqOn => m.geq = c.geq)
        BY <1>0, <2>8, <3>1 DEF Follows
      <3>3. Whole(d, p, e, m)
        BY <1>0, <2>5, <2>6, <3>2 DEF Whole, IsCore, Asks, Equalizes, Follows
      <3> QED BY <2>1, <2>2, <2>6, <3>2, <3>3
    <2> QED BY <2>7, <2>8
  <1> QED BY <1>1, <1>2

ChainInv == Whole(core, profile, eq, live) /\ Chain!AppliedWhole

LEMMA ServeKeeps ==
  ASSUME Whole(core, profile, eq, live), NEW ran, Chain!Serve(ran), heard'.block => ran
  PROVE  ChainInv'
  <1>0. PICK port \in Profiles \cup {Chain!NoPort}, next \in Profiles \cup {Chain!NoPort},
             e \in {pageEq} \cup Eqs :
          /\ e # pageEq => next = "personalize"
          /\ asks' = asks + (IF port = Chain!NoPort /\ next = Chain!NoPort THEN 0 ELSE 1)
          /\ asks' <= MaxAsks
          /\ LET asked == IF next = Chain!NoPort THEN Chain!Setting
                          ELSE Chain!Requested(Chain!Setting, next, e)
                 s == IF port = Chain!NoPort \/ port = asked.profile \/ port = lastPort
                      THEN asked ELSE Chain!Switch(asked, port)
             IN  /\ profile' = s.profile /\ eq' = s.eq
                 /\ core' = IF ran THEN Chain!Followed(s.core) ELSE s.core
                 /\ live' = IF ran THEN Chain!Follow(s.core, live) ELSE live
          /\ lastPort' = (IF port = Chain!NoPort THEN lastPort ELSE port)
          /\ pageEq' = e
    BY DEF Chain!Serve
  <1>1. LET asked == IF next = Chain!NoPort THEN Chain!Setting
                     ELSE Chain!Requested(Chain!Setting, next, e)
            s == IF port = Chain!NoPort \/ port = asked.profile \/ port = lastPort
                 THEN asked ELSE Chain!Switch(asked, port)
        IN  /\ profile' = s.profile /\ eq' = s.eq
            /\ core' = IF ran THEN Chain!Followed(s.core) ELSE s.core
            /\ live' = IF ran THEN Chain!Follow(s.core, live) ELSE live
    BY <1>0, Zenon
  <1>2. PICK asked : asked = IF next = Chain!NoPort THEN Chain!Setting
                             ELSE Chain!Requested(Chain!Setting, next, e)
    OBVIOUS
  <1>3. PICK s : s = IF port = Chain!NoPort \/ port = asked.profile \/ port = lastPort
                     THEN asked ELSE Chain!Switch(asked, port)
    OBVIOUS
  <1>4. /\ profile' = s.profile /\ eq' = s.eq
        /\ core' = IF ran THEN Chain!Followed(s.core) ELSE s.core
        /\ live' = IF ran THEN Chain!Follow(s.core, live) ELSE live
    BY <1>1, <1>2, <1>3, Zenon
  <1>5. WholeSetting(Chain!Setting, live)
    <2>1. Chain!Setting = [core |-> core, profile |-> profile, eq |-> eq]
      BY DEF Chain!Setting
    <2> QED BY <2>1 DEF WholeSetting
  <1>6. WholeSetting(asked, live)
    <2>1. CASE next = Chain!NoPort
      BY <1>2, <1>5, <2>1, Zenon
    <2>2. CASE next # Chain!NoPort
      <3>1. asked = Chain!Requested(Chain!Setting, next, e) /\ next \in Profiles
        BY <1>2, <2>2
      <3> QED BY <1>5, <3>1, RequestedKeeps
    <2> QED BY <2>1, <2>2
  <1>7. WholeSetting(s, live)
    <2>1. CASE port = Chain!NoPort \/ port = asked.profile \/ port = lastPort
      BY <1>3, <1>6, <2>1, Zenon
    <2>2. CASE ~(port = Chain!NoPort \/ port = asked.profile \/ port = lastPort)
      <3>1. s = Chain!Switch(asked, port) /\ port \in Profiles /\ port # asked.profile
        BY <1>3, <2>2
      <3>2. PICK c, p, q : c = asked.core /\ p = asked.profile /\ q = asked.eq
        OBVIOUS
      <3>3. asked = [core |-> c, profile |-> p, eq |-> q] /\ Whole(c, p, q, live)
        BY <1>6, <3>2 DEF WholeSetting
      <3> QED BY <3>1, <3>2, <3>3, SwitchKeeps
    <2> QED BY <2>1, <2>2
  <1>8. PICK c, p, q : c = s.core /\ p = s.profile /\ q = s.eq
    OBVIOUS
  <1>9. Whole(c, p, q, live)
    BY <1>7, <1>8 DEF WholeSetting
  <1>10. CASE ran
    <2>1. profile' = p /\ eq' = q /\ core' = Chain!Followed(c) /\ live' = Chain!Follow(c, live)
      BY <1>4, <1>8, <1>10
    <2>2. /\ Whole(core', p, q, live')
          /\ live'.asked = c.asked /\ live'.curve = c.curve
          /\ live'.geqOn <=> c.geqOn
          /\ c.geqOn => live'.geq = c.geq
      BY <1>9, <2>1, FollowedKeeps
    <2>3. Asks(c, p) /\ Equalizes(c, Wanted(p, q))
      BY <1>9 DEF Whole
    <2>4. Chain!AppliedWhole'
      BY <2>1, <2>2, <2>3 DEF Chain!AppliedWhole, Asks, Equalizes, Wanted
    <2> QED BY <2>1, <2>2, <2>4 DEF ChainInv
  <1>11. CASE ~ran
    <2>1. profile' = p /\ eq' = q /\ core' = c /\ live' = live
      BY <1>4, <1>8, <1>11
    <2>2. Chain!AppliedWhole'
      BY <1>11 DEF Chain!AppliedWhole
    <2> QED BY <1>9, <2>1, <2>2 DEF ChainInv
  <1> QED BY <1>10, <1>11

LEMMA RunKeeps ==
  ASSUME ChainInv, Chain!Run
  PROVE  ChainInv'
  <1>1. \E r : /\ heard' = [from |-> frames + 1, out |-> r.out, failed |-> r.failed,
                            block |-> r.ran]
               /\ Chain!Serve(r.ran)
    BY Zenon DEF Chain!Run
  <1>2. PICK r : /\ heard' = [from |-> frames + 1, out |-> r.out, failed |-> r.failed,
                              block |-> r.ran]
                 /\ Chain!Serve(r.ran)
    BY <1>1
  <1>3. PICK ran : ran = r.ran
    OBVIOUS
  <1>4. Chain!Serve(ran)
    BY <1>2, <1>3, Zenon
  <1>5. heard'.block = ran
    BY <1>2, <1>3
  <1> QED BY <1>4, <1>5, ServeKeeps DEF ChainInv

\* A core just built, and what it runs with.
LEMMA BuiltIs ==
  ASSUME NEW p \in Profiles, NEW q \in Profiles, NEW e
  PROVE  Whole(Chain!ApplyProfile(Chain!PackOf(p), q, e), q, Chain!EqAfter(q, e),
               Chain!LiveOf(Chain!PackOf(p)))
  <1>1. PICK c : c = Chain!PackOf(p)
    OBVIOUS
  <1>2. c = [asked |-> Chain!ChainProfiles[p], curve |-> Chain!Curve(p), geqOn |-> FALSE,
             geq |-> Chain!NoEq, dirty |-> FALSE, curveDirty |-> FALSE, geqDirty |-> FALSE]
    BY <1>1 DEF Chain!PackOf
  <1>3. PICK l : l = Chain!LiveOf(c)
    OBVIOUS
  <1>4. l = [asked |-> c.asked, curve |-> c.curve, geqOn |-> c.geqOn, geq |-> c.geq]
    BY <1>3 DEF Chain!LiveOf
  <1>5. IsCore(c) /\ Follows(c, l) /\ Asks(c, p)
    BY <1>2, <1>4 DEF IsCore, Follows, Asks
  <1>6. PICK d : d = Chain!ApplyProfile(c, q, e)
    OBVIOUS
  <1>7. /\ IsCore(d) /\ Asks(d, q) /\ Follows(d, l) /\ Equalizes(d, Wanted(q, Chain!Known(e)))
    BY <1>5, <1>6, ApplyKeeps
  <1>8. Wanted(q, Chain!EqAfter(q, e)) = Wanted(q, Chain!Known(e))
    BY DEF Wanted, Chain!EqAfter
  <1> QED BY <1>1, <1>3, <1>6, <1>7, <1>8 DEF Whole

LEMMA ChainStarts == Chain!Init => ChainInv
  <1> SUFFICES ASSUME Chain!Init PROVE ChainInv
    OBVIOUS
  <1>1. /\ profile \in Profiles /\ eq = Chain!EqAfter(profile, Chain!NoEq)
        /\ heard = Chain!Nothing
        /\ \E p \in Profiles : core = Chain!ApplyProfile(Chain!PackOf(p), profile, Chain!NoEq)
                               /\ live = Chain!LiveOf(Chain!PackOf(p))
    BY Zenon DEF Chain!Init
  <1>2. Whole(core, profile, eq, live)
    BY <1>1, BuiltIs
  <1>3. ~heard.block
    BY <1>1 DEF Chain!Nothing
  <1> QED BY <1>2, <1>3 DEF ChainInv, Chain!AppliedWhole

LEMMA ChainGoesOn == ChainInv /\ [Chain!Next]_Chain!vars => ChainInv'
  <1> SUFFICES ASSUME ChainInv, [Chain!Next]_Chain!vars PROVE ChainInv'
    OBVIOUS
  <1>1. CASE Chain!Run
    BY <1>1, RunKeeps
  <1>2. CASE Chain!Activate
    <2>1. /\ heard' = Chain!Nothing /\ profile' = profile /\ eq' = Chain!EqAfter(profile, eq)
          /\ \E p \in Profiles : core' = Chain!ApplyProfile(Chain!PackOf(p), profile, eq)
                                 /\ live' = Chain!LiveOf(Chain!PackOf(p))
      BY <1>2, Zenon DEF Chain!Activate, Chain!Build
    <2>2. profile \in Profiles
      BY DEF ChainInv, Whole
    <2>3. Whole(core', profile', eq', live')
      BY <2>1, <2>2, BuiltIs
    <2>4. ~heard'.block
      BY <2>1 DEF Chain!Nothing
    <2> QED BY <2>3, <2>4 DEF ChainInv, Chain!AppliedWhole
  <1>3. CASE Chain!Done \/ UNCHANGED Chain!vars
    <2>1. UNCHANGED <<profile, eq, core, live, heard>>
      BY <1>3 DEF Chain!Done, Chain!vars
    <2> QED BY <2>1 DEF ChainInv, Chain!AppliedWhole
  <1> QED BY <1>1, <1>2, <1>3 DEF Chain!Next

\* AppliedWhole of UbigEngine: a block of Stage B runs with the whole of
\* the present profile and equalizer, whatever faults and page reads came
\* before it.
THEOREM AppliedCorrect == EngineSpec => []AppliedWhole
  <1>1. ChainInv => AppliedWhole
    BY DEF ChainInv, AppliedWhole
  <1> QED BY <1>1, EngineRuns, ChainStarts, ChainGoesOn, PTL

-----------------------------------------------------------------------------
\* Stage B's dialog enhancer.
\* What a ring of a depth holds of the rows up to the n-th, its cursor at
\* an index.
Slot(depth, i, n, j) == IF j < i THEN n - i + 1 + j ELSE n - i + 1 + j - depth

RingHolds(slot, depth, i, n) ==
  /\ depth \in Nat /\ i \in 0 .. (depth - 1) /\ n \in Nat
  /\ DOMAIN slot = 0 .. (depth - 1)
  /\ \A j \in 0 .. (depth - 1) : slot[j] = Slot(depth, i, n, j)

LEMMA DepthsAre ==
  /\ PrimaryDepth \in Nat \ {0} /\ SecondaryDepth \in Nat \ {0} /\ MaxCounter \in Nat \ {0}
  /\ Bottom \in Nat \ {0}
  /\ \A w \in Dialog!Windows : Dialog!RowsOf(w) \in Nat \ {0}
  <1>1. /\ PrimaryDepth \in Nat \ {0} /\ SecondaryDepth \in Nat \ {0} /\ MaxCounter \in Nat \ {0}
        /\ Bottom \in Nat \ {0}
        /\ IntegratorDepth \in Nat \ {0} /\ InputDepth \in Nat \ {0} /\ RmsDepth \in Nat \ {0}
    BY EngineAssumption DEF Dialog!WindowsAssumption
  <1> QED BY <1>1 DEF Dialog!RowsOf

LEMMA RemainderIs ==
  ASSUME NEW a \in Int, NEW m \in Nat \ {0}
  PROVE  /\ a % m \in 0 .. (m - 1)
         /\ (0 <= a /\ a < m) => a % m = a
         /\ (-m <= a /\ a < 0) => a % m = a + m
  <1>1. a % m \in 0 .. (m - 1)
    OBVIOUS
  <1>2. ASSUME 0 <= a, a < m PROVE a % m = a
    BY <1>2
  <1>3. ASSUME -m <= a, a < 0 PROVE a % m = a + m
    BY <1>3
  <1> QED BY <1>1, <1>2, <1>3

LEMMA RingStarts ==
  ASSUME NEW depth \in Nat \ {0}, NEW i \in 0 .. (depth - 1)
  PROVE  RingHolds(Dialog!Slots(depth, i), depth, i, 0)
  <1>1. ASSUME NEW j \in 0 .. (depth - 1)
        PROVE  Dialog!Slots(depth, i)[j] = Slot(depth, i, 0, j)
    <2>1. Dialog!Slots(depth, i)[j] = ((j - i) % depth) - depth + 1
      BY DEF Dialog!Slots
    <2>2. CASE j < i
      <3>0. PICK a \in Int : a = j - i
        OBVIOUS
      <3>1. (j - i) % depth = (j - i) + depth
        <4>1. -depth <= a /\ a < 0
          BY <2>2, <3>0
        <4>2. a % depth = a + depth
          BY <4>1, RemainderIs, Zenon
        <4> QED BY <3>0, <4>2
      <3> QED BY <2>1, <2>2, <3>1 DEF Slot
    <2>3. CASE ~(j < i)
      <3>0. PICK a \in Int : a = j - i
        OBVIOUS
      <3>1. (j - i) % depth = j - i
        <4>1. 0 <= a /\ a < depth
          BY <2>3, <3>0
        <4>2. a % depth = a
          BY <4>1, RemainderIs, Zenon
        <4> QED BY <3>0, <4>2
      <3> QED BY <2>1, <2>3, <3>1 DEF Slot
    <2> QED BY <2>2, <2>3
  <1> QED BY <1>1 DEF RingHolds, Dialog!Slots

LEMMA RingGoesOn ==
  ASSUME NEW slot, NEW depth, NEW i, NEW n, RingHolds(slot, depth, i, n), NEW next,
         next = (IF i + 1 < depth THEN i + 1 ELSE 0)
  PROVE  /\ slot[i] = n - depth + 1
         /\ RingHolds([slot EXCEPT ![i] = n + 1], depth, next, n + 1)
  <1>1. /\ depth \in Nat /\ i \in 0 .. (depth - 1) /\ n \in Nat
        /\ DOMAIN slot = 0 .. (depth - 1)
        /\ \A j \in 0 .. (depth - 1) : slot[j] = Slot(depth, i, n, j)
    BY DEF RingHolds
  <1>2. slot[i] = n - depth + 1
    BY <1>1 DEF Slot
  <1>3. PICK new : new = [slot EXCEPT ![i] = n + 1]
    OBVIOUS
  <1>4. DOMAIN new = 0 .. (depth - 1)
    BY <1>1, <1>3
  <1>5. ASSUME NEW j \in 0 .. (depth - 1) PROVE new[j] = Slot(depth, next, n + 1, j)
    <2>1. CASE j = i
      BY <1>1, <1>3, <2>1 DEF Slot
    <2>2. CASE j # i
      <3>1. new[j] = Slot(depth, i, n, j)
        BY <1>1, <1>3, <2>2
      <3> QED BY <1>1, <2>2, <3>1 DEF Slot
    <2> QED BY <2>1, <2>2
  <1>6. next \in 0 .. (depth - 1) /\ n + 1 \in Nat
    BY <1>1
  <1> QED BY <1>1, <1>2, <1>3, <1>4, <1>5, <1>6 DEF RingHolds

\* A ring holds the last rows it was given, as many as it is deep.
LEMMA RingIsLast ==
  ASSUME NEW slot, NEW depth, NEW i, NEW n, RingHolds(slot, depth, i, n)
  PROVE  {slot[j] : j \in 0 .. (depth - 1)} = Dialog!Last(n, depth)
  <1>1. /\ depth \in Nat /\ i \in 0 .. (depth - 1) /\ n \in Nat
        /\ \A j \in 0 .. (depth - 1) : slot[j] = Slot(depth, i, n, j)
    BY DEF RingHolds
  <1>2. ASSUME NEW j \in 0 .. (depth - 1) PROVE slot[j] \in Dialog!Last(n, depth)
    BY <1>1 DEF Slot, Dialog!Last
  <1>3. ASSUME NEW x \in Dialog!Last(n, depth)
        PROVE  \E j \in 0 .. (depth - 1) : slot[j] = x
    <2>0. x \in Int /\ n - depth + 1 <= x /\ x <= n
      BY <1>1 DEF Dialog!Last
    <2>1. CASE x > n - i
      <3>1. x - n + i - 1 \in 0 .. (depth - 1) /\ x - n + i - 1 < i
        BY <1>1, <2>0, <2>1
      <3>2. slot[x - n + i - 1] = x
        BY <1>1, <2>0, <3>1 DEF Slot
      <3> QED BY <3>1, <3>2
    <2>2. CASE ~(x > n - i)
      <3>1. x - n + i - 1 + depth \in 0 .. (depth - 1) /\ ~(x - n + i - 1 + depth < i)
        BY <1>1, <2>0, <2>2
      <3>2. slot[x - n + i - 1 + depth] = x
        BY <1>1, <2>0, <3>1 DEF Slot
      <3> QED BY <3>1, <3>2
    <2> QED BY <2>1, <2>2
  <1> QED BY <1>2, <1>3

LEMMA FirstSlotsAre ==
  ASSUME NEW depth \in Nat \ {0}, NEW i \in 0 .. (depth - 1)
  PROVE  {Dialog!Slots(depth, i)[j] : j \in 0 .. (i - 1)} = Dialog!Last(0, i)
  <1>1. PICK slot : slot = Dialog!Slots(depth, i)
    OBVIOUS
  <1>2. RingHolds(slot, depth, i, 0)
    BY <1>1, RingStarts
  <1>3. \A j \in 0 .. (depth - 1) : slot[j] = Slot(depth, i, 0, j)
    BY <1>2 DEF RingHolds
  <1>4. ASSUME NEW j \in 0 .. (i - 1) PROVE slot[j] \in Dialog!Last(0, i)
    BY <1>3 DEF Slot, Dialog!Last
  <1>5. ASSUME NEW x \in Dialog!Last(0, i) PROVE \E j \in 0 .. (i - 1) : slot[j] = x
    <2>1. x \in Int /\ 1 - i <= x /\ x <= 0
      BY DEF Dialog!Last
    <2>2. x + i - 1 \in 0 .. (i - 1) /\ x + i - 1 \in 0 .. (depth - 1)
      BY <2>1
    <2>3. slot[x + i - 1] = x
      BY <1>3, <2>1, <2>2 DEF Slot
    <2> QED BY <2>2, <2>3
  <1> QED BY <1>1, <1>4, <1>5

-----------------------------------------------------------------------------

\* Sums: the row that goes, the row that comes.
LEMMA PlusIs ==
  ASSUME NEW n \in Nat, NEW k \in Nat
  PROVE  Dialog!Plus(Dialog!Terms(Dialog!Last(n, k)), n + 1)
           = Dialog!Terms(Dialog!Last(n + 1, k + 1))
  <1>1. PICK old : old = Dialog!Last(n, k) /\ old = (n - k + 1) .. n
    BY DEF Dialog!Last
  <1>2. PICK new : new = Dialog!Last(n + 1, k + 1) /\ new = (n - k + 1) .. (n + 1)
    BY DEF Dialog!Last
  <1>3. new = old \cup {n + 1}
    BY <1>1, <1>2
  <1>4. <<-1, n + 1>> \notin Dialog!Terms(old)
    BY DEF Dialog!Terms
  <1>5. Dialog!Plus(Dialog!Terms(old), n + 1) = Dialog!Terms(old) \cup {<<1, n + 1>>}
    BY <1>4 DEF Dialog!Plus
  <1>6. Dialog!Terms(new) = Dialog!Terms(old) \cup {<<1, n + 1>>}
    BY <1>3 DEF Dialog!Terms
  <1> QED BY <1>1, <1>2, <1>5, <1>6

LEMMA MinusIs ==
  ASSUME NEW n \in Nat, NEW depth \in Nat \ {0}
  PROVE  Dialog!Minus(Dialog!Terms(Dialog!Last(n, depth)), n - depth + 1)
           = Dialog!Terms(Dialog!Last(n, depth - 1))
  <1>1. PICK old : old = Dialog!Last(n, depth) /\ old = (n - depth + 1) .. n
    BY DEF Dialog!Last
  <1>2. PICK new : new = Dialog!Last(n, depth - 1) /\ new = (n - depth + 2) .. n
    BY DEF Dialog!Last
  <1>3. PICK o \in Int : o = n - depth + 1
    OBVIOUS
  <1>4. o \in old /\ new = old \ {o}
    BY <1>1, <1>2, <1>3
  <1>5. <<1, o>> \in Dialog!Terms(old)
    BY <1>4 DEF Dialog!Terms
  <1>6. Dialog!Minus(Dialog!Terms(old), o) = Dialog!Terms(old) \ {<<1, o>>}
    BY <1>5 DEF Dialog!Minus
  <1>7. Dialog!Terms(new) = Dialog!Terms(old) \ {<<1, o>>}
    BY <1>4 DEF Dialog!Terms
  <1> QED BY <1>1, <1>2, <1>3, <1>6, <1>7

LEMMA SlidIs ==
  ASSUME NEW n \in Nat, NEW depth \in Nat \ {0}
  PROVE  Dialog!Plus(Dialog!Minus(Dialog!Terms(Dialog!Last(n, depth)), n - depth + 1), n + 1)
           = Dialog!Terms(Dialog!Last(n + 1, depth))
  <1>1. depth - 1 \in Nat /\ (depth - 1) + 1 = depth
    OBVIOUS
  <1> QED BY <1>1, MinusIs, PlusIs

-----------------------------------------------------------------------------
\* A sliding sum: what it was only added to in this round is exact once
\* the round before has ended, the sum itself a round later.
IsWindow(w, depth) ==
  /\ w = [index |-> w.index, slot |-> w.slot, given |-> w.given, rounds |-> w.rounds,
          added |-> w.added, sum |-> w.sum, acc |-> w.acc]
  /\ RingHolds(w.slot, depth, w.index, w.given)
  /\ w.added \in Nat /\ w.rounds \in Nat
  /\ w.added <= w.index /\ w.rounds <= depth + 2 * w.index
  /\ sound \/ w.given > w.index => w.acc = Dialog!Terms(Dialog!Last(w.given, w.index))
  /\ sound \/ w.given > w.index + depth => w.sum = Dialog!Terms(Dialog!Last(w.given, depth))

LEMMA WindowStarts ==
  ASSUME NEW depth \in Nat \ {0}, NEW i \in 0 .. (depth - 1), sound \in BOOLEAN
  PROVE  IsWindow(Dialog!LoadedWindow(depth, i), depth)
  <1>1. PICK sum : sum = Dialog!Terms(Dialog!Last(0, depth))
                         \cup (IF sound THEN {} ELSE {<<1, Dialog!Stale>>})
    OBVIOUS
  <1>2. PICK acc : acc = Dialog!Terms({Dialog!Slots(depth, i)[j] : j \in 0 .. (i - 1)})
                         \cup (IF sound THEN {} ELSE {<<-1, Dialog!Stale>>})
    OBVIOUS
  <1>3. Dialog!LoadedWindow(depth, i) =
          [index |-> i, slot |-> Dialog!Slots(depth, i), given |-> 0, rounds |-> 0, added |-> 0,
           sum |-> sum, acc |-> acc]
    BY <1>1, <1>2, Zenon DEF Dialog!LoadedWindow
  <1>4. sound => sum = Dialog!Terms(Dialog!Last(0, depth))
    BY <1>1
  <1>5. sound => acc = Dialog!Terms(Dialog!Last(0, i))
    BY <1>2, FirstSlotsAre
  <1>6. RingHolds(Dialog!Slots(depth, i), depth, i, 0)
    BY RingStarts
  <1> QED BY <1>3, <1>4, <1>5, <1>6 DEF IsWindow

LEMMA WindowGoesOn ==
  ASSUME NEW w, NEW depth \in Nat \ {0}, IsWindow(w, depth), sound \in BOOLEAN
  PROVE  IsWindow(Dialog!Given(w, depth), depth)
  <1>1. /\ w = [index |-> w.index, slot |-> w.slot, given |-> w.given, rounds |-> w.rounds,
                added |-> w.added, sum |-> w.sum, acc |-> w.acc]
        /\ RingHolds(w.slot, depth, w.index, w.given)
        /\ w.added \in Nat /\ w.rounds \in Nat
        /\ w.added <= w.index /\ w.rounds <= depth + 2 * w.index
    BY DEF IsWindow
  <1>2. PICK i \in 0 .. (depth - 1) : i = w.index
    BY <1>1 DEF RingHolds
  <1>3. PICK g \in Nat : g = w.given
    BY <1>1 DEF RingHolds
  <1>4. /\ sound \/ g > i => w.acc = Dialog!Terms(Dialog!Last(g, i))
        /\ sound \/ g > i + depth => w.sum = Dialog!Terms(Dialog!Last(g, depth))
    BY <1>2, <1>3 DEF IsWindow
  <1>5. PICK slot : slot = [w.slot EXCEPT ![i] = g + 1]
    OBVIOUS
  <1>6. PICK acc : acc = Dialog!Plus(w.acc, g + 1)
    OBVIOUS
  <1>7. sound \/ g > i => acc = Dialog!Terms(Dialog!Last(g + 1, i + 1))
    BY <1>4, <1>6, PlusIs
  <1>8. w.slot[i] = g - depth + 1
    <2>1. w.slot[i] = Slot(depth, i, g, i)
      BY <1>1, <1>2, <1>3 DEF RingHolds
    <2> QED BY <2>1 DEF Slot
  <1>9. CASE i + 1 < depth
    <2>1. PICK sum : sum = Dialog!Plus(Dialog!Minus(w.sum, w.slot[i]), g + 1)
      OBVIOUS
    <2>2. Dialog!Given(w, depth) =
            [index |-> i + 1, slot |-> slot, given |-> g + 1, rounds |-> w.rounds + 2,
             added |-> w.added + 1, sum |-> sum, acc |-> acc]
      <3>1. Dialog!Given(w, depth) = Dialog!Corrected(w, g + 1)
        BY <1>2, <1>3, <1>9 DEF Dialog!Given
      <3>2. Dialog!Corrected(w, g + 1) =
              [w EXCEPT !.index = i + 1, !.slot = slot, !.given = g + 1, !.sum = sum,
                        !.rounds = w.rounds + 2, !.acc = acc, !.added = w.added + 1]
        BY <1>1, <1>2, <1>5, <1>6, <2>1 DEF Dialog!Corrected
      <3> QED BY <1>1, <3>1, <3>2
    <2>3. RingHolds(slot, depth, i + 1, g + 1)
      BY <1>1, <1>2, <1>3, <1>5, <1>9, RingGoesOn
    <2>4. sound \/ g > i + depth => sum = Dialog!Terms(Dialog!Last(g + 1, depth))
      BY <1>4, <1>8, <2>1, SlidIs
    <2>5. (g + 1 > i + 1 => g > i) /\ (g + 1 > (i + 1) + depth => g > i + depth)
      OBVIOUS
    <2>6. w.added + 1 \in Nat /\ w.rounds + 2 \in Nat /\ w.added + 1 <= i + 1
          /\ w.rounds + 2 <= depth + 2 * (i + 1)
      BY <1>1, <1>2
    <2> QED BY <1>7, <2>2, <2>3, <2>4, <2>5, <2>6 DEF IsWindow
  <1>10. CASE ~(i + 1 < depth)
    <2>0. i + 1 = depth
      BY <1>10
    <2>1. Dialog!Given(w, depth) =
            [index |-> 0, slot |-> slot, given |-> g + 1, rounds |-> w.added + 1,
             added |-> 0, sum |-> acc, acc |-> {}]
      <3>1. Dialog!Given(w, depth) = Dialog!Wrapped(w, g + 1)
        BY <1>2, <1>3, <1>10 DEF Dialog!Given
      <3>2. Dialog!Wrapped(w, g + 1) =
              [w EXCEPT !.index = 0, !.slot = slot, !.given = g + 1, !.sum = acc,
                        !.rounds = w.added + 1, !.acc = {}, !.added = 0]
        BY <1>1, <1>2, <1>5, <1>6 DEF Dialog!Wrapped
      <3> QED BY <1>1, <3>1, <3>2
    <2>2. RingHolds(slot, depth, 0, g + 1)
      BY <1>1, <1>2, <1>3, <1>5, <1>10, RingGoesOn
    <2>3. Dialog!Terms(Dialog!Last(g + 1, 0)) = {}
      <3>1. Dialog!Last(g + 1, 0) = {}
        BY DEF Dialog!Last
      <3> QED BY <3>1 DEF Dialog!Terms
    <2>4. (sound \/ g + 1 > 0 + depth) => acc = Dialog!Terms(Dialog!Last(g + 1, depth))
      BY <1>7, <2>0
    <2>5. w.added + 1 \in Nat /\ w.added + 1 <= depth + 2 * 0
      BY <1>1, <1>2, <2>0
    <2> QED BY <2>1, <2>2, <2>3, <2>4, <2>5 DEF IsWindow
  <1> QED BY <1>9, <1>10

CorrelationHolds ==
  /\ primary = [index |-> primary.index, buffer |-> primary.buffer, given |-> primary.given]
  /\ delay = [index |-> delay.index, slot |-> delay.slot]
  /\ RingHolds(primary.buffer, PrimaryDepth, primary.index, primary.given)
  /\ RingHolds(delay.slot, SecondaryDepth, delay.index, primary.given)
  /\ result.sum = Dialog!Terms(Dialog!Last(primary.given, PrimaryDepth))
  /\ result.previous = primary.given - SecondaryDepth

WindowsHold ==
  /\ sound \in BOOLEAN /\ DOMAIN window = Dialog!Windows
  /\ \A w \in Dialog!Windows : IsWindow(window[w], Dialog!RowsOf(w))

GateHolds ==
  /\ gate.counter \in 0 .. MaxCounter /\ gate.value \in Nat /\ gate.fell
  /\ counter \in -Bottom .. 0

DialogInv == CorrelationHolds /\ WindowsHold /\ GateHolds /\ Dialog!RowsAreTheirOwn

LEMMA NextCursor ==
  ASSUME NEW depth \in Nat \ {0}, NEW i \in 0 .. (depth - 1)
  PROVE  (i + 1) % depth = IF i + 1 < depth THEN i + 1 ELSE 0
  <1>1. CASE i + 1 < depth
    BY <1>1
  <1>2. CASE ~(i + 1 < depth)
    <2>1. i + 1 = depth
      BY <1>2
    <2> QED BY <1>2, <2>1
  <1> QED BY <1>1, <1>2

LEMMA CorrelationKeeps ==
  ASSUME CorrelationHolds, Dialog!Correlate
  PROVE  CorrelationHolds'
  <1>0. /\ PrimaryDepth \in Nat \ {0} /\ SecondaryDepth \in Nat \ {0}
    BY DepthsAre
  <1>1. /\ RingHolds(primary.buffer, PrimaryDepth, primary.index, primary.given)
        /\ RingHolds(delay.slot, SecondaryDepth, delay.index, primary.given)
        /\ primary = [index |-> primary.index, buffer |-> primary.buffer, given |-> primary.given]
        /\ delay = [index |-> delay.index, slot |-> delay.slot]
    BY DEF CorrelationHolds
  <1>2. PICK i \in 0 .. (PrimaryDepth - 1) : i = primary.index
    BY <1>1 DEF RingHolds
  <1>3. PICK j \in 0 .. (SecondaryDepth - 1) : j = delay.index
    BY <1>1 DEF RingHolds
  <1>4. PICK g \in Nat : g = primary.given
    BY <1>1 DEF RingHolds
  <1>5. PICK i1 : i1 = (i + 1) % PrimaryDepth
    OBVIOUS
  <1>6. PICK j1 : j1 = (j + 1) % SecondaryDepth
    OBVIOUS
  <1>7. i1 = (IF i + 1 < PrimaryDepth THEN i + 1 ELSE 0)
        /\ j1 = (IF j + 1 < SecondaryDepth THEN j + 1 ELSE 0)
    BY <1>0, <1>5, <1>6, NextCursor
  <1>8. PICK buffer : buffer = [primary.buffer EXCEPT ![i] = g + 1]
    OBVIOUS
  <1>9. PICK slot : slot = [delay.slot EXCEPT ![j] = g + 1]
    OBVIOUS
  <1>10. primary' = [index |-> i1, buffer |-> buffer, given |-> g + 1]
    <2>1. primary' = [primary EXCEPT !.buffer[primary.index] = primary.given + 1, !.given = @ + 1,
                                     !.index = (@ + 1) % PrimaryDepth]
      BY Zenon DEF Dialog!Correlate, Dialog!Summed
    <2>2. primary' = [primary EXCEPT !.buffer = buffer, !.given = g + 1, !.index = i1]
      BY <1>1, <1>2, <1>4, <1>5, <1>8, <2>1
    <2> QED BY <1>1, <2>2
  <1>11. delay' = [index |-> j1, slot |-> slot]
    BY <1>3, <1>6, <1>9, <1>10 DEF Dialog!Correlate
  <1>12. RingHolds(buffer, PrimaryDepth, i1, g + 1)
    BY <1>1, <1>2, <1>4, <1>7, <1>8, RingGoesOn
  <1>13. RingHolds(slot, SecondaryDepth, j1, g + 1) /\ delay.slot[j] = g - SecondaryDepth + 1
    BY <1>1, <1>3, <1>4, <1>7, <1>9, RingGoesOn
  <1>14. result' = [sum |-> Dialog!Terms({primary'.buffer[k] : k \in DOMAIN primary.buffer}),
                    previous |-> delay.slot[delay.index]]
    BY Zenon DEF Dialog!Correlate
  <1>15. DOMAIN primary.buffer = 0 .. (PrimaryDepth - 1)
    BY <1>1 DEF RingHolds
  <1>16. {buffer[k] : k \in 0 .. (PrimaryDepth - 1)} = Dialog!Last(g + 1, PrimaryDepth)
    BY <1>12, RingIsLast
  <1>17. result'.sum = Dialog!Terms(Dialog!Last(g + 1, PrimaryDepth))
    <2>1. primary'.buffer = buffer
      BY <1>10
    <2>2. result'.sum = Dialog!Terms({primary'.buffer[k] : k \in DOMAIN primary.buffer})
      BY <1>14
    <2> QED BY <1>15, <1>16, <2>1, <2>2
  <1>18. result'.previous = (g + 1) - SecondaryDepth
    BY <1>0, <1>3, <1>13, <1>14
  <1> QED BY <1>10, <1>11, <1>12, <1>13, <1>17, <1>18 DEF CorrelationHolds

LEMMA GateKeeps ==
  ASSUME GateHolds, Dialog!GateStep, Dialog!StereoStep
  PROVE  GateHolds'
  <1>0. MaxCounter \in Nat \ {0} /\ Bottom \in Nat \ {0}
    BY DepthsAre
  <1>1. PICK c \in 0 .. MaxCounter : c = gate.counter
    BY DEF GateHolds
  <1>2. PICK value \in Nat : value = gate.value
    BY DEF GateHolds
  <1>3. PICK open \in BOOLEAN :
          \E v \in (IF open THEN 0 .. MaxCounter ELSE {Dialog!Fall(gate.value, gate.counter)}) :
            \E corrected \in Dialog!Correct(v) :
              gate' = [counter |-> IF open THEN Dialog!Opened(gate.counter)
                                   ELSE Dialog!Closed(gate.counter),
                       value   |-> corrected,
                       fell    |-> open \/ gate.value = 0 \/ corrected < gate.value]
    BY DEF Dialog!GateStep
  <1>4. PICK v \in (IF open THEN 0 .. MaxCounter ELSE {Dialog!Fall(value, c)}) :
            \E corrected \in Dialog!Correct(v) :
              gate' = [counter |-> IF open THEN Dialog!Opened(c) ELSE Dialog!Closed(c),
                       value   |-> corrected,
                       fell    |-> open \/ value = 0 \/ corrected < value]
    BY <1>1, <1>2, <1>3
  <1>5. PICK corrected \in Dialog!Correct(v) :
              gate' = [counter |-> IF open THEN Dialog!Opened(c) ELSE Dialog!Closed(c),
                       value   |-> corrected,
                       fell    |-> open \/ value = 0 \/ corrected < value]
    BY <1>4
  <1>6. Dialog!Age(c) \in Nat \ {0}
    BY <1>0 DEF Dialog!Age
  <1>7. Dialog!Fall(value, c) \in Nat /\ (value > 0 => Dialog!Fall(value, c) < value)
    <2>1. PICK a \in Nat \ {0} : a = Dialog!Age(c)
      BY <1>6
    <2>2. Dialog!Fall(value, c) = IF a < value THEN value - a ELSE 0
      BY <2>1 DEF Dialog!Fall
    <2> QED BY <2>2
  <1>8. v \in Nat /\ (~open => v = Dialog!Fall(value, c))
    BY <1>7
  <1>9. corrected \in Nat /\ corrected <= v
    BY <1>8 DEF Dialog!Correct, Dialog!Correction
  <1>10. open \/ value = 0 \/ corrected < value
    BY <1>7, <1>8, <1>9
  <1>11. gate'.fell
    <2>1. gate'.fell = (open \/ value = 0 \/ corrected < value)
      BY <1>5, Zenon
    <2> QED BY <1>10, <2>1, Zenon
  <1>12. gate'.counter \in 0 .. MaxCounter /\ gate'.value \in Nat
    <2>1. Dialog!Opened(c) \in 0 .. MaxCounter /\ Dialog!Closed(c) \in 0 .. MaxCounter
      BY <1>0 DEF Dialog!Opened, Dialog!Closed
    <2>2. gate'.counter = (IF open THEN Dialog!Opened(c) ELSE Dialog!Closed(c))
          /\ gate'.value = corrected
      BY <1>5
    <2> QED BY <1>9, <2>1, <2>2
  <1>13. counter' \in -Bottom .. 0
    BY <1>0 DEF GateHolds, Dialog!StereoStep
  <1> QED BY <1>11, <1>12, <1>13 DEF GateHolds

LEMMA ScratchIs ==
  /\ Dialog!Scratch[0] = <<"gate", 0, <<"threshold", 0>>>>
  /\ Dialog!Scratch[20] = <<"mix", <<"exp", 0>>, <<"exp", 1>>,
       <<"stereo", <<"threshold", 0>>, <<"gate", 0, <<"threshold", 0>>>>>>,
       <<"gate", 1, <<"threshold", 1>>>>>>
  <1> DEFINE Rows == Dialog!ScratchRows
  <1>0. Rows = {0, 20, 64, 84, 104, 124} /\ 64 + Dialog!Bands = 84
    BY DEF Dialog!ScratchRows, Dialog!Bands
  <1> HIDE DEF Rows
  <1> DEFINE a == [r \in Rows |-> <<>>]
  <1>1. DOMAIN a = Rows
    OBVIOUS
  <1> HIDE DEF a
  <1>2. PICK b : b = Dialog!ExpRows(a)
    OBVIOUS
  <1>3. DOMAIN b = Rows /\ b[104] = <<"exp", 0>> /\ b[124] = <<"exp", 1>>
    BY <1>0, <1>1, <1>2 DEF Dialog!ExpRows
  <1>4. PICK c : c = Dialog!Thresholds(b)
    OBVIOUS
  <1>5. /\ DOMAIN c = Rows /\ c[104] = <<"exp", 0>> /\ c[124] = <<"exp", 1>>
        /\ c[64] = <<"threshold", 0>> /\ c[84] = <<"threshold", 1>>
    BY <1>0, <1>3, <1>4 DEF Dialog!Thresholds
  <1>6. PICK d : d = Dialog!BandGate(c)
    OBVIOUS
  <1>7. /\ DOMAIN d = Rows /\ d[104] = <<"exp", 0>> /\ d[124] = <<"exp", 1>>
        /\ d[64] = <<"threshold", 0>>
        /\ d[0] = <<"gate", 0, <<"threshold", 0>>>> /\ d[20] = <<"gate", 1, <<"threshold", 1>>>>
    BY <1>0, <1>5, <1>6 DEF Dialog!BandGate
  <1>8. PICK e : e = Dialog!StereoBlend(d)
    OBVIOUS
  <1>9. /\ DOMAIN e = Rows /\ e[104] = <<"exp", 0>> /\ e[124] = <<"exp", 1>>
        /\ e[0] = <<"gate", 0, <<"threshold", 0>>>> /\ e[20] = <<"gate", 1, <<"threshold", 1>>>>
        /\ e[84] = <<"stereo", <<"threshold", 0>>, <<"gate", 0, <<"threshold", 0>>>>>>
    BY <1>0, <1>7, <1>8 DEF Dialog!StereoBlend
  <1>10. PICK f : f = Dialog!Crossfade(e)
    OBVIOUS
  <1>11. /\ f[0] = <<"gate", 0, <<"threshold", 0>>>>
         /\ f[20] = <<"mix", <<"exp", 0>>, <<"exp", 1>>,
              <<"stereo", <<"threshold", 0>>, <<"gate", 0, <<"threshold", 0>>>>>>,
              <<"gate", 1, <<"threshold", 1>>>>>>
    BY <1>0, <1>9, <1>10 DEF Dialog!Crossfade
  <1>12. f = Dialog!Scratch
    BY <1>2, <1>4, <1>6, <1>8, <1>10 DEF Dialog!Scratch, Rows, a
  <1> QED BY <1>11, <1>12

LEMMA DialogKeeps ==
  ASSUME DialogInv, NEW optional \in BOOLEAN, Dialog!Process(optional)
  PROVE  DialogInv'
  <1>1. /\ Dialog!Correlate /\ Dialog!GateStep /\ Dialog!StereoStep
        /\ mixed' = <<Dialog!Scratch[0], Dialog!Scratch[20]>>
        /\ window' = [w \in Dialog!Windows |->
             IF w = "integrator" \/ ~optional THEN Dialog!Given(window[w], Dialog!RowsOf(w))
             ELSE window[w]]
        /\ sound' = sound
    BY Zenon DEF Dialog!Process
  <1>2. CorrelationHolds' /\ GateHolds'
    BY <1>1, CorrelationKeeps, GateKeeps DEF DialogInv
  <1>3. WindowsHold'
    <2>1. sound \in BOOLEAN /\ \A w \in Dialog!Windows : IsWindow(window[w], Dialog!RowsOf(w))
      BY DEF DialogInv, WindowsHold
    <2>2. ASSUME NEW w \in Dialog!Windows PROVE IsWindow(window'[w], Dialog!RowsOf(w))
      <3>1. window'[w] = Dialog!Given(window[w], Dialog!RowsOf(w)) \/ window'[w] = window[w]
        BY <1>1
      <3>2. IsWindow(Dialog!Given(window[w], Dialog!RowsOf(w)), Dialog!RowsOf(w))
        BY <2>1, WindowGoesOn, DepthsAre
      <3> QED BY <2>1, <3>1, <3>2
    <2>3. DOMAIN window' = Dialog!Windows
      BY <1>1
    <2> QED BY <1>1, <2>1, <2>2, <2>3 DEF WindowsHold, IsWindow
  <1>4. Dialog!RowsAreTheirOwn'
    BY <1>1, ScratchIs DEF Dialog!RowsAreTheirOwn
  <1> QED BY <1>2, <1>3, <1>4 DEF DialogInv

LEMMA DialogStarts == Dialog!Init => DialogInv
  <1> SUFFICES ASSUME Dialog!Init PROVE DialogInv
    OBVIOUS
  <1>0. /\ PrimaryDepth \in Nat \ {0} /\ SecondaryDepth \in Nat \ {0}
        /\ MaxCounter \in Nat \ {0} /\ Bottom \in Nat \ {0}
    BY DepthsAre
  <1>1. PICK ph \in 0 .. (PrimaryDepth * SecondaryDepth - 1) :
          /\ window = [w \in Dialog!Windows |-> Dialog!LoadedWindow(Dialog!RowsOf(w), ph % Dialog!RowsOf(w))]
          /\ primary = [index |-> ph % PrimaryDepth, given |-> 0,
                        buffer |-> Dialog!Slots(PrimaryDepth, ph % PrimaryDepth)]
          /\ delay = [index |-> ph % SecondaryDepth,
                      slot |-> Dialog!Slots(SecondaryDepth, ph % SecondaryDepth)]
    BY DEF Dialog!Init
  <1>2. /\ count = 0 /\ sound \in BOOLEAN
        /\ result = [sum |-> Dialog!Terms(Dialog!Last(0, PrimaryDepth)), previous |-> -SecondaryDepth]
        /\ gate = [counter |-> 0, value |-> 0, fell |-> TRUE] /\ counter = 0
    BY DEF Dialog!Init
  <1>3. \A m \in Nat \ {0} : ph % m \in 0 .. (m - 1)
    OBVIOUS
  <1>4. WindowsHold
    <2>1. ASSUME NEW w \in Dialog!Windows PROVE IsWindow(window[w], Dialog!RowsOf(w))
      <3>1. window[w] = Dialog!LoadedWindow(Dialog!RowsOf(w), ph % Dialog!RowsOf(w))
        BY <1>1
      <3>2. Dialog!RowsOf(w) \in Nat \ {0} /\ ph % Dialog!RowsOf(w) \in 0 .. (Dialog!RowsOf(w) - 1)
        BY <1>3, DepthsAre
      <3> QED BY <1>2, <3>1, <3>2, WindowStarts
    <2>2. DOMAIN window = Dialog!Windows
      BY <1>1
    <2> QED BY <1>2, <2>1, <2>2 DEF WindowsHold
  <1>5. CorrelationHolds
    <2>1. PICK i \in 0 .. (PrimaryDepth - 1) : i = ph % PrimaryDepth
      BY <1>0, <1>3
    <2>2. PICK j \in 0 .. (SecondaryDepth - 1) : j = ph % SecondaryDepth
      BY <1>0, <1>3
    <2>3. primary = [index |-> i, given |-> 0, buffer |-> Dialog!Slots(PrimaryDepth, i)]
          /\ delay = [index |-> j, slot |-> Dialog!Slots(SecondaryDepth, j)]
      BY <1>1, <2>1, <2>2
    <2>4. /\ RingHolds(Dialog!Slots(PrimaryDepth, i), PrimaryDepth, i, 0)
          /\ RingHolds(Dialog!Slots(SecondaryDepth, j), SecondaryDepth, j, 0)
      BY <1>0, RingStarts
    <2> QED BY <1>0, <1>2, <2>3, <2>4 DEF CorrelationHolds
  <1>6. GateHolds
    BY <1>0, <1>2 DEF GateHolds
  <1>7. Dialog!RowsAreTheirOwn
    BY <1>2 DEF Dialog!RowsAreTheirOwn
  <1> QED BY <1>4, <1>5, <1>6, <1>7 DEF DialogInv

LEMMA DialogGoesOn == DialogInv /\ [Dialog!Next]_Dialog!vars => DialogInv'
  <1> SUFFICES ASSUME DialogInv, [Dialog!Next]_Dialog!vars PROVE DialogInv'
    OBVIOUS
  <1>1. CASE \E optional \in BOOLEAN : Dialog!Process(optional)
    BY <1>1, DialogKeeps
  <1>2. CASE Dialog!Done \/ UNCHANGED Dialog!vars
    <2>1. UNCHANGED <<count, sound, window, primary, delay, result, gate, counter, mixed>>
      BY <1>2 DEF Dialog!Done, Dialog!vars
    <2> QED BY <2>1 DEF DialogInv, CorrelationHolds, WindowsHold, IsWindow, GateHolds,
                          Dialog!RowsAreTheirOwn
  <1> QED BY <1>1, <1>2 DEF Dialog!Next

LEMMA DialogIsWhole ==
  DialogInv => Dialog!WindowsAreExact /\ Dialog!RowsAreTheirOwn /\ Dialog!GateFalls
  <1> SUFFICES ASSUME DialogInv
               PROVE  Dialog!WindowsAreExact /\ Dialog!RowsAreTheirOwn /\ Dialog!GateFalls
    OBVIOUS
  <1>1. ASSUME NEW w \in Dialog!Windows, sound \/ window[w].given >= 2 * Dialog!RowsOf(w)
        PROVE  /\ window[w].sum = Dialog!Terms(Dialog!Last(window[w].given, Dialog!RowsOf(w)))
               /\ window[w].rounds < 3 * Dialog!RowsOf(w)
    <2>1. PICK d \in Nat \ {0} : d = Dialog!RowsOf(w)
      BY DepthsAre
    <2>2. PICK s : s = window[w]
      OBVIOUS
    <2>3. IsWindow(s, d)
      BY <2>1, <2>2 DEF DialogInv, WindowsHold
    <2>4. s.index \in 0 .. (d - 1) /\ s.given \in Nat
      BY <2>3 DEF IsWindow, RingHolds
    <2>5. sound \/ s.given > s.index + d
      BY <1>1, <2>1, <2>2, <2>4
    <2>6. s.sum = Dialog!Terms(Dialog!Last(s.given, d)) /\ s.rounds < 3 * d
      BY <2>3, <2>4, <2>5 DEF IsWindow
    <2> QED BY <2>1, <2>2, <2>6
  <1> QED BY <1>1 DEF DialogInv, CorrelationHolds, GateHolds, Dialog!WindowsAreExact, Dialog!GateFalls

-----------------------------------------------------------------------------
\* Stage B's analysis.
\* A ring place some places ahead.
Ahead(i, d) == IF i + d < Depth THEN i + d ELSE i + d - Depth

\* The rows of a history after the u-th update, but for some places.
HistoryHolds(r, h, i, u, but) ==
  /\ DOMAIN r = Analysis!Row
  /\ \A j \in Analysis!Row \ but : r[j] = Analysis!RowOf(h, Slot(Depth, i, u, j))

WindowAt(h, u) == {Analysis!RowOf(h, v) : v \in (u - Depth + 1) .. u}

\* All but the first of them.
LaterOf(h, u) == {Analysis!RowOf(h, v) : v \in (u - Depth + 2) .. u}

\* The rows a ring has, and those but for a place's.
AllOf(r) == {r[j] : j \in Analysis!Row}
RestOf(r, i) == {r[j] : j \in Analysis!Row \ {i}}

LEMMA AnalysisSizes ==
  /\ Depth \in Nat /\ Depth > 1 /\ Period \in Nat /\ Period > 1
  /\ \A s \in Steps : s \in 2 .. (Depth - 1)
BY EngineAssumption DEF Analysis!AnalysisAssumption

LEMMA SlotGoesOn ==
  ASSUME NEW i \in 0 .. (Depth - 1), NEW u \in Nat, NEW j \in 0 .. (Depth - 1)
  PROVE  Slot(Depth, Ahead(i, 1), u + 1, j) = IF j = i THEN u + 1 ELSE Slot(Depth, i, u, j)
BY AnalysisSizes DEF Slot, Ahead

LEMMA PlacesAre ==
  ASSUME NEW i \in 0 .. (Depth - 1)
  PROVE  /\ Analysis!After(i) = Ahead(i, 1) /\ Ahead(i, 1) \in 0 .. (Depth - 1) /\ Ahead(i, 1) # i
         /\ Analysis!Before(Ahead(i, 1)) = i
         /\ (i + 2) % Depth = Ahead(i, 2)
         /\ \A d \in 0 .. (Depth - 1) : (i + d) % Depth = Ahead(i, d)
  <1>0. Depth \in Nat \ {0} /\ Depth > 1
    BY AnalysisSizes
  <1>1. ASSUME NEW d \in 0 .. Depth PROVE (i + d) % Depth = Ahead(i, d)
    <2>0. PICK a \in Nat : a = i + d
      OBVIOUS
    <2>1. CASE a < Depth
      <3>1. a % Depth = a
        BY <1>0, <2>1
      <3> QED BY <2>0, <2>1, <3>1 DEF Ahead
    <2>2. CASE ~(a < Depth)
      <3>1. PICK b \in Nat : a = b + Depth /\ b < Depth
        BY <1>0, <2>0, <2>2
      <3>2. (b + Depth) % Depth = b
        BY <1>0, <3>1
      <3> QED BY <1>0, <2>0, <2>2, <3>1, <3>2 DEF Ahead
    <2> QED BY <2>1, <2>2
  <1>2. Ahead(i, 1) \in 0 .. (Depth - 1) /\ Ahead(i, 1) # i
    BY <1>0 DEF Ahead
  <1>3. Analysis!Before(Ahead(i, 1)) = i
    <2>1. CASE i + 1 < Depth
      <3>1. Ahead(i, 1) + Depth - 1 = i + Depth
        BY <1>0, <2>1 DEF Ahead
      <3>2. (i + Depth) % Depth = i
        BY <1>0, <1>1, <2>1 DEF Ahead
      <3> QED BY <3>1, <3>2 DEF Analysis!Before
    <2>2. CASE ~(i + 1 < Depth)
      <3>1. Ahead(i, 1) + Depth - 1 = Depth - 1 /\ i = Depth - 1
        BY <1>0, <2>2 DEF Ahead
      <3>2. (Depth - 1) % Depth = Depth - 1
        BY <1>0
      <3> QED BY <3>1, <3>2 DEF Analysis!Before
    <2> QED BY <2>1, <2>2
  <1> QED BY <1>0, <1>1, <1>2, <1>3 DEF Analysis!After

\* A ring read whole is the window of the last updates.
LEMMA HeldIs ==
  ASSUME NEW r, NEW h, NEW i \in 0 .. (Depth - 1), NEW u \in Nat, HistoryHolds(r, h, i, u, {})
  PROVE  AllOf(r) = WindowAt(h, u)
  <1>0. Depth \in Nat /\ Depth > 1
    BY AnalysisSizes
  <1>1. Analysis!Row = 0 .. (Depth - 1)
    BY DEF Analysis!Row
  <1>2. \A j \in 0 .. (Depth - 1) : r[j] = Analysis!RowOf(h, Slot(Depth, i, u, j))
    BY <1>1 DEF HistoryHolds
  <1>3. PICK slot : slot = [j \in 0 .. (Depth - 1) |-> Slot(Depth, i, u, j)]
    OBVIOUS
  <1>4. RingHolds(slot, Depth, i, u)
    BY <1>0, <1>3 DEF RingHolds
  <1>5. {slot[j] : j \in 0 .. (Depth - 1)} = (u - Depth + 1) .. u
    BY <1>4, RingIsLast DEF Dialog!Last
  <1>6. \A j \in 0 .. (Depth - 1) : r[j] = Analysis!RowOf(h, slot[j])
    BY <1>2, <1>3
  <1>7. {r[j] : j \in 0 .. (Depth - 1)} = {Analysis!RowOf(h, v) : v \in {slot[j] : j \in 0 .. (Depth - 1)}}
    BY <1>6
  <1> QED BY <1>1, <1>5, <1>7 DEF WindowAt, AllOf

LEMMA LaterIs ==
  ASSUME NEW r, NEW h, NEW i \in 0 .. (Depth - 1), NEW u \in Nat, HistoryHolds(r, h, i, u, {i})
  PROVE  RestOf(r, i) = LaterOf(h, u)
  <1>0. Depth \in Nat /\ Depth > 1 /\ Analysis!Row = 0 .. (Depth - 1)
    BY AnalysisSizes DEF Analysis!Row
  <1>2. \A j \in 0 .. (Depth - 1) : j # i => r[j] = Analysis!RowOf(h, Slot(Depth, i, u, j))
    BY <1>0 DEF HistoryHolds
  <1>3. ASSUME NEW j \in 0 .. (Depth - 1), j # i
        PROVE  Slot(Depth, i, u, j) \in (u - Depth + 2) .. u
    BY <1>0, <1>3 DEF Slot
  <1>4. ASSUME NEW v \in (u - Depth + 2) .. u
        PROVE  \E j \in 0 .. (Depth - 1) : j # i /\ Slot(Depth, i, u, j) = v
    <2>1. CASE v > u - i
      <3>1. PICK j \in 0 .. (Depth - 1) : j = v - u + i - 1 /\ j < i
        BY <1>0, <2>1
      <3>2. Slot(Depth, i, u, j) = v
        BY <1>0, <3>1 DEF Slot
      <3> QED BY <3>1, <3>2
    <2>2. CASE ~(v > u - i)
      <3>1. PICK j \in 0 .. (Depth - 1) : j = v - u + i - 1 + Depth /\ j > i
        BY <1>0, <2>2
      <3>2. Slot(Depth, i, u, j) = v
        BY <1>0, <3>1 DEF Slot
      <3> QED BY <3>1, <3>2
    <2> QED BY <2>1, <2>2
  <1>5. ASSUME NEW j \in Analysis!Row \ {i} PROVE r[j] \in LaterOf(h, u)
    BY <1>0, <1>2, <1>3 DEF LaterOf
  <1>6. ASSUME NEW x \in LaterOf(h, u) PROVE \E j \in Analysis!Row \ {i} : r[j] = x
    <2>1. PICK v \in (u - Depth + 2) .. u : x = Analysis!RowOf(h, v)
      BY DEF LaterOf
    <2>2. PICK j \in 0 .. (Depth - 1) : j # i /\ Slot(Depth, i, u, j) = v
      BY <1>4
    <2> QED BY <1>0, <1>2, <2>1, <2>2
  <1> QED BY <1>5, <1>6 DEF RestOf

\* One update more: the window loses its first row and gains a last.
LEMMA WindowGrows ==
  ASSUME NEW h, NEW u \in Nat
  PROVE  WindowAt(h, u + 1) = LaterOf(h, u) \cup {Analysis!RowOf(h, u + 1)}
  <1>1. Depth \in Nat /\ Depth > 1
    BY AnalysisSizes
  <1>2. ((u + 1) - Depth + 1) .. (u + 1) = ((u - Depth + 2) .. u) \cup {u + 1}
    BY <1>1
  <1> QED BY <1>2 DEF WindowAt, LaterOf

\* The counters of a call: the u-th update was k calls ago, and m updates
\* were since the last summary.
ClockHolds(u, k, m) ==
  /\ step \in Steps /\ m \in 0 .. (step - 1)
  /\ calls = u * Period + k
  /\ spectral.counter = k /\ (k # 0 => spectral.first = u * Period + 1)
  /\ export = Analysis!Spectrum(u)
  /\ clock.upper = k /\ clock.lower = Depth - step + m /\ clock.toggle \in {0, 1}
  /\ clock.toggle = 1 => k = 0 /\ m = 0
  /\ control.counter = k /\ control.cycle = Depth - step + m
  /\ control.armed <=> (calls = 0 \/ clock.toggle = 1)

\* A call that ends an update, and one that summarises.
LEMMA UpdateEnds ==
  ASSUME NEW u \in Nat, NEW k \in 0 .. (Period - 1), NEW m \in Nat,
         ClockHolds(u, k, m), Analysis!Call, k + 1 = Period
  PROVE  /\ Analysis!Upper /\ clock.toggle = 0 /\ ~Analysis!LowerB
         /\ Analysis!LowerA <=> m + 1 = step
         /\ export' = Analysis!Spectrum(u + 1)
         /\ ~control'.updated
         /\ m + 1 # step => ClockHolds(u + 1, 0, m + 1)' /\ clock'.toggle = 0
         /\ m + 1 = step => ClockHolds(u + 1, 0, 0)' /\ clock'.toggle = 1
  <1>0. /\ Depth \in Nat /\ Depth > 1 /\ Period \in Nat /\ Period > 1
        /\ step \in Steps /\ step \in 2 .. (Depth - 1) /\ m \in 0 .. (step - 1)
    BY AnalysisSizes DEF ClockHolds
  <1>1. PICK n \in Nat : n = u * Period /\ (u + 1) * Period = n + Period
    BY <1>0
  <1>2. /\ calls = n + k /\ spectral.counter = k /\ spectral.first = n + 1
        /\ clock.upper = k /\ clock.lower = Depth - step + m /\ clock.toggle = 0
        /\ control.counter = k /\ control.cycle = Depth - step + m
        /\ ~control.armed
    BY <1>0, <1>1 DEF ClockHolds
  <1>3. step' = step /\ calls' = n + Period
    BY <1>2 DEF Analysis!Call
  <1>4. Analysis!Upper /\ Analysis!LowerCount = Depth - step + (m + 1)
    BY <1>0, <1>2 DEF Analysis!Upper, Analysis!LowerCount
  <1>5. /\ Analysis!LowerDue <=> m + 1 = step
        /\ Analysis!LowerA <=> m + 1 = step
        /\ ~Analysis!LowerB
    BY <1>0, <1>2, <1>4 DEF Analysis!LowerDue, Analysis!LowerA, Analysis!LowerB
  <1>6. spectral'.counter = 0 /\ export' = Analysis!Spectrum(u + 1)
    <2>1. Analysis!First = n + 1
      BY <1>0, <1>2 DEF Analysis!First
    <2>2. export' = <<n + 1, calls + 1>> /\ spectral'.counter = 0
      BY <1>2, <2>1 DEF Analysis!Call, Analysis!Accumulate
    <2>3. Analysis!Spectrum(u + 1) = <<n + 1, n + Period>>
      BY <1>1 DEF Analysis!Spectrum
    <2> QED BY <1>2, <2>2, <2>3
  <1>7. /\ clock'.upper = 0
        /\ clock'.lower = (IF m + 1 = step THEN Depth - step ELSE Depth - step + (m + 1))
        /\ clock'.toggle = (IF m + 1 = step THEN 1 ELSE 0)
    BY <1>2, <1>4, <1>5 DEF Analysis!Call, Analysis!Schedule
  <1>8. Analysis!Cycle = Depth - step + (m + 1) /\ ~Analysis!Decides
    BY <1>0, <1>2 DEF Analysis!Cycle, Analysis!Decides
  <1>9. /\ control'.counter = 0
        /\ control'.cycle = (IF m + 1 = step THEN Depth - step ELSE Depth - step + (m + 1))
        /\ control'.armed <=> m + 1 = step
        /\ ~control'.updated
    <2>1. control' = [counter |-> (control.counter + 1) % Period,
                      cycle   |-> IF Analysis!Cycle = Depth THEN Depth - step ELSE Analysis!Cycle,
                      armed   |-> Analysis!Cycle = Depth \/ (control.armed /\ ~Analysis!Decides),
                      updated |-> Analysis!Decides]
      BY DEF Analysis!Call, Analysis!Decide
    <2>2. Analysis!Cycle = Depth <=> m + 1 = step
      BY <1>0, <1>8
    <2>3. (control.counter + 1) % Period = 0
      BY <1>0, <1>2
    <2>4. control'.armed = (Analysis!Cycle = Depth \/ (control.armed /\ ~Analysis!Decides))
          /\ control'.updated = Analysis!Decides
      BY <2>1, Zenon
    <2>5. (control'.armed <=> m + 1 = step) /\ ~control'.updated
      BY <1>2, <1>8, <2>2, <2>4, Zenon
    <2>6. control'.counter = 0
          /\ control'.cycle = (IF Analysis!Cycle = Depth THEN Depth - step ELSE Analysis!Cycle)
      BY <2>1, <2>3
    <2> QED BY <1>8, <2>2, <2>5, <2>6
  <1>10. ASSUME m + 1 # step PROVE ClockHolds(u + 1, 0, m + 1)' /\ clock'.toggle = 0
    BY <1>0, <1>1, <1>3, <1>6, <1>7, <1>9, <1>10 DEF ClockHolds
  <1>11. ASSUME m + 1 = step PROVE ClockHolds(u + 1, 0, 0)' /\ clock'.toggle = 1
    BY <1>0, <1>1, <1>3, <1>6, <1>7, <1>9, <1>11 DEF ClockHolds
  <1> QED BY <1>2, <1>4, <1>5, <1>6, <1>9, <1>10, <1>11

\* Every other call; one of them, right after a summary's first half,
\* makes the second and decides.
LEMMA BetweenUpdates ==
  ASSUME NEW u \in Nat, NEW k \in 0 .. (Period - 1), NEW m \in Nat,
         ClockHolds(u, k, m), Analysis!Call, k + 1 # Period
  PROVE  /\ ~Analysis!Upper /\ ~Analysis!LowerA
         /\ Analysis!LowerB <=> clock.toggle = 1
         /\ ClockHolds(u, k + 1, m)' /\ clock'.toggle = 0
         /\ clock.toggle = 1 => Analysis!Decides
         /\ control'.updated => calls = 0 \/ clock.toggle = 1
  <1>0. /\ Depth \in Nat /\ Depth > 1 /\ Period \in Nat /\ Period > 1
        /\ step \in Steps /\ step \in 2 .. (Depth - 1) /\ m \in 0 .. (step - 1)
        /\ clock.toggle \in {0, 1}
    BY AnalysisSizes DEF ClockHolds
  <1>1. PICK n \in Nat : n = u * Period
    BY <1>0
  <1>2. /\ calls = n + k /\ spectral.counter = k /\ (k # 0 => spectral.first = n + 1)
        /\ export = Analysis!Spectrum(u)
        /\ clock.upper = k /\ clock.lower = Depth - step + m
        /\ clock.toggle = 1 => k = 0 /\ m = 0
        /\ control.counter = k /\ control.cycle = Depth - step + m
    BY <1>1 DEF ClockHolds
  <1>12. control.armed <=> (calls = 0 \/ clock.toggle = 1)
    BY DEF ClockHolds
  <1>3. step' = step /\ calls' = n + (k + 1) /\ calls' # 0
    BY <1>2 DEF Analysis!Call
  <1>4. ~Analysis!Upper /\ Analysis!LowerCount = Depth - step + m
    BY <1>0, <1>2 DEF Analysis!Upper, Analysis!LowerCount
  <1>5. /\ Analysis!LowerDue <=> clock.toggle = 1
        /\ ~Analysis!LowerA
        /\ Analysis!LowerB <=> clock.toggle = 1
    BY <1>0, <1>2, <1>4 DEF Analysis!LowerDue, Analysis!LowerA, Analysis!LowerB
  <1>6. spectral'.counter = k + 1 /\ spectral'.first = n + 1 /\ export' = Analysis!Spectrum(u)
    <2>1. Analysis!First = n + 1
      BY <1>0, <1>2 DEF Analysis!First
    <2> QED BY <1>2, <2>1 DEF Analysis!Call, Analysis!Accumulate
  <1>7. clock'.upper = k + 1 /\ clock'.lower = Depth - step + m /\ clock'.toggle = 0
    BY <1>0, <1>2, <1>4, <1>5 DEF Analysis!Call, Analysis!Schedule
  <1>8. Analysis!Cycle = Depth - step + m /\ Analysis!Cycle # Depth
    BY <1>0, <1>2 DEF Analysis!Cycle
  <1>13. Analysis!Decides <=> control.armed
    BY <1>8 DEF Analysis!Decides
  <1>9. /\ control'.counter = k + 1 /\ control'.cycle = Depth - step + m
        /\ ~control'.armed
        /\ control'.updated <=> (calls = 0 \/ clock.toggle = 1)
    <2>1. control' = [counter |-> (control.counter + 1) % Period,
                      cycle   |-> IF Analysis!Cycle = Depth THEN Depth - step ELSE Analysis!Cycle,
                      armed   |-> Analysis!Cycle = Depth \/ (control.armed /\ ~Analysis!Decides),
                      updated |-> Analysis!Decides]
      BY DEF Analysis!Call, Analysis!Decide
    <2>3. (control.counter + 1) % Period = k + 1
      BY <1>0, <1>2
    <2>4. control'.armed = (Analysis!Cycle = Depth \/ (control.armed /\ ~Analysis!Decides))
          /\ control'.updated = Analysis!Decides
      BY <2>1, Zenon
    <2>5. ~control'.armed /\ (control'.updated <=> control.armed)
      BY <1>8, <1>13, <2>4, Zenon
    <2>6. control'.counter = k + 1
          /\ control'.cycle = (IF Analysis!Cycle = Depth THEN Depth - step ELSE Analysis!Cycle)
      BY <2>1, <2>3
    <2> QED BY <1>8, <1>12, <2>5, <2>6
  <1>10. ClockHolds(u, k + 1, m)'
    BY <1>0, <1>1, <1>3, <1>6, <1>7, <1>9 DEF ClockHolds
  <1> QED BY <1>4, <1>5, <1>7, <1>9, <1>10, <1>12, <1>13

-----------------------------------------------------------------------------
\* The histories, the running sums and where these are due.
PhasesHold(m, i) ==
  /\ index = [h \in Analysis!Ring |-> i]
  /\ DOMAIN phase = Analysis!Summed \cup {"ratio"}
  /\ \A h \in DOMAIN phase :
       phase[h] = IF h = "projection" /\ clock.toggle = 1 THEN i ELSE Ahead(i, step - m)

Zeroed(h, m, i) == IF h \in Analysis!Summed /\ m + 1 = step THEN {i} ELSE {}

RowsHold(u, m, i) ==
  /\ before = [h \in Analysis!Paired |-> <<Analysis!Spectrum(u)>>]
  /\ DOMAIN row = Analysis!Ring
  /\ \A h \in Analysis!Ring : HistoryHolds(row[h], h, i, u, Zeroed(h, m, i))

SumsHold(u, m) ==
  /\ m + 1 = step => \A h \in Analysis!Summed : sums[h] = LaterOf(h, u)
  /\ clock.toggle = 1 => sums["projection"] = LaterOf("projection", u - 1)

\* The place a due sum zeroes.
Cleared(h, m, i) == IF h \in Analysis!Summed /\ m + 2 = step THEN {Ahead(i, 1)} ELSE {}

LEMMA SumIsDueIs ==
  ASSUME NEW u \in Nat, NEW k \in 0 .. (Period - 1), NEW m \in Nat, NEW i \in 0 .. (Depth - 1),
         ClockHolds(u, k, m), PhasesHold(m, i), clock.toggle = 0, NEW h \in Analysis!Ring
  PROVE  Analysis!SumIsDue(h) <=> (h \in Analysis!Summed /\ m + 2 = step)
  <1>0. /\ Depth \in Nat /\ step \in 2 .. (Depth - 1) /\ m \in 0 .. (step - 1)
    BY AnalysisSizes DEF ClockHolds
  <1>1. index[h] = i /\ (i + 2) % Depth = Ahead(i, 2)
    BY PlacesAre DEF PhasesHold
  <1>2. h \in Analysis!Summed => phase[h] = Ahead(i, step - m)
    BY DEF PhasesHold
  <1>3. Ahead(i, 2) = Ahead(i, step - m) <=> m + 2 = step
    BY <1>0 DEF Ahead
  <1> QED BY <1>1, <1>2, <1>3 DEF Analysis!SumIsDue

\* A row is written, and with a sum due the next one zeroed.
LEMMA RecordedIs ==
  ASSUME NEW u \in Nat, NEW k \in 0 .. (Period - 1), NEW m \in Nat, NEW i \in 0 .. (Depth - 1),
         ClockHolds(u, k, m), PhasesHold(m, i), RowsHold(u, m, i), clock.toggle = 0,
         NEW h \in Analysis!Ring, NEW r, r = Analysis!Recorded(h, Analysis!RowOf(h, u + 1))
  PROVE  /\ HistoryHolds(r, h, Ahead(i, 1), u + 1, Cleared(h, m, i))
         /\ r[i] = Analysis!RowOf(h, u + 1)
  <1>0. index[h] = i /\ Analysis!After(i) = Ahead(i, 1) /\ Ahead(i, 1) # i
    BY PlacesAre DEF PhasesHold
  <1>1. Analysis!Row = 0 .. (Depth - 1)
    BY DEF Analysis!Row
  <1>2. PICK old : old = row[h]
    OBVIOUS
  <1>3. HistoryHolds(old, h, i, u, Zeroed(h, m, i))
    BY <1>2 DEF RowsHold
  <1>4. PICK written : written = [old EXCEPT ![i] = Analysis!RowOf(h, u + 1)]
    OBVIOUS
  <1>5. /\ DOMAIN written = 0 .. (Depth - 1) /\ written[i] = Analysis!RowOf(h, u + 1)
        /\ \A j \in 0 .. (Depth - 1) : j # i => written[j] = old[j]
    BY <1>1, <1>3, <1>4 DEF HistoryHolds
  <1>6. ASSUME NEW j \in 0 .. (Depth - 1)
        PROVE  written[j] = Analysis!RowOf(h, Slot(Depth, Ahead(i, 1), u + 1, j))
    <2>1. CASE j = i
      <3>1. Slot(Depth, Ahead(i, 1), u + 1, j) = u + 1
        BY <2>1, SlotGoesOn
      <3> QED BY <1>5, <2>1, <3>1
    <2>2. CASE j # i
      <3>1. Slot(Depth, Ahead(i, 1), u + 1, j) = Slot(Depth, i, u, j)
        BY <2>2, SlotGoesOn
      <3>2. j \in Analysis!Row \ Zeroed(h, m, i)
        BY <1>1, <2>2 DEF Zeroed
      <3>3. old[j] = Analysis!RowOf(h, Slot(Depth, i, u, j))
        BY <1>3, <3>2 DEF HistoryHolds
      <3> QED BY <1>5, <2>2, <3>1, <3>3
    <2> QED BY <2>1, <2>2
  <1>7. r = IF Analysis!SumIsDue(h) THEN [written EXCEPT ![Ahead(i, 1)] = Analysis!Zero]
            ELSE written
    BY <1>0, <1>2, <1>4 DEF Analysis!Recorded
  <1>8. Analysis!SumIsDue(h) <=> (h \in Analysis!Summed /\ m + 2 = step)
    BY SumIsDueIs
  <1>9. CASE h \in Analysis!Summed /\ m + 2 = step
    <2>1. r = [written EXCEPT ![Ahead(i, 1)] = Analysis!Zero]
      BY <1>7, <1>8, <1>9
    <2>2. DOMAIN r = Analysis!Row
      BY <1>1, <1>5, <2>1
    <2>3. \A j \in Analysis!Row \ {Ahead(i, 1)} : r[j] = written[j]
      BY <1>1, <1>5, <2>1
    <2>4. r[i] = written[i]
      BY <1>0, <1>1, <2>3
    <2> QED BY <1>1, <1>5, <1>6, <1>9, <2>2, <2>3, <2>4 DEF HistoryHolds, Cleared
  <1>10. CASE ~(h \in Analysis!Summed /\ m + 2 = step)
    <2>1. r = written
      BY <1>7, <1>8, <1>10
    <2> QED BY <1>1, <1>5, <1>6, <1>10, <2>1 DEF HistoryHolds, Cleared
  <1> QED BY <1>9, <1>10

\* Two values one after the other.
LEMMA PairIs ==
  ASSUME NEW d, NEW e
  PROVE  Append(<<d>>, e) = <<d, e>> /\ <<d>> \o <<e>> = <<d, e>>
  <1>1. PICK S : S = {d, e}
    OBVIOUS
  <1>2. <<d>> \in Seq(S) /\ <<e>> \in Seq(S) /\ <<d, e>> \in Seq(S) /\ Len(<<d>>) = 1 /\ Len(<<e>>) = 1 /\ Len(<<d,e>>) = 2
    BY <1>1
  <1>3. PICK a : a = Append(<<d>>, e)
    OBVIOUS
  <1>4. a \in Seq(S) /\ Len(a) = 2 /\ a[1] = d /\ a[2] = e
    BY <1>1, <1>2, <1>3, AppendProperties
  <1>5. PICK b : b = <<d>> \o <<e>>
    OBVIOUS
  <1>6. b \in Seq(S) /\ Len(b) = 2 /\ b[1] = d /\ b[2] = e
    BY <1>1, <1>2, <1>5, ConcatProperties
  <1>7. a = <<d, e>>
    BY <1>2, <1>4, SeqEqual
  <1>8. b = <<d, e>>
    BY <1>2, <1>6, SeqEqual
  <1> QED BY <1>3, <1>5, <1>7, <1>8

\* The values the update's handlers write.
LEMMA ValuesAre ==
  ASSUME NEW u \in Nat, NEW k \in 0 .. (Period - 1), NEW m \in Nat, NEW i \in 0 .. (Depth - 1),
         ClockHolds(u, k, m), PhasesHold(m, i), RowsHold(u, m, i), clock.toggle = 0,
         Analysis!Update, export' = Analysis!Spectrum(u + 1)
  PROVE  /\ DOMAIN row' = Analysis!Ring
         /\ \A h \in Analysis!Ring : row'[h] = Analysis!Recorded(h, Analysis!RowOf(h, u + 1))
         /\ before' = [h \in Analysis!Paired |-> <<Analysis!Spectrum(u + 1)>>]
  <1>1. PICK e : e = Analysis!Spectrum(u + 1)
    OBVIOUS
  <1>2. PICK d : d = Analysis!Spectrum(u)
    OBVIOUS
  <1>3. before["spectral"] = <<d>> /\ before["change"] = <<d>>
    BY <1>2 DEF RowsHold, Analysis!Paired
  <1>4. /\ \A h \in Analysis!Ring \ Analysis!Paired : Analysis!RowOf(h, u + 1) = <<e>>
        /\ \A h \in Analysis!Paired : Analysis!RowOf(h, u + 1) = <<d, e>>
    <2>1. (u + 1) - 1 = u
      OBVIOUS
    <2> QED BY <1>1, <1>2, <2>1 DEF Analysis!RowOf
  <1>5. /\ Analysis!Ring = {"segments", "levels", "ratio", "variation", "spectral", "projection",
                            "change", "peak"}
        /\ Analysis!Paired = {"spectral", "change"} /\ Analysis!Summed = {"segments", "projection"}
    BY DEF Analysis!Ring, Analysis!Paired, Analysis!Summed
  <1>6. Analysis!LatestProjection = <<e>>
    <2>1. Analysis!RowOf("projection", u + 1) = <<e>>
      BY <1>4, <1>5
    <2>2. PICK p : p = Analysis!Projection
      OBVIOUS
    <2>3. p = Analysis!Recorded("projection", <<e>>)
      BY <1>1, <2>2 DEF Analysis!Projection
    <2>4. p[i] = <<e>>
      <3>1. index["projection"] = i /\ Analysis!After(i) # i /\ i \in Analysis!Row
        BY <1>5, PlacesAre DEF PhasesHold, Analysis!Row
      <3>2. DOMAIN row["projection"] = Analysis!Row
        BY <1>5 DEF RowsHold, HistoryHolds
      <3> QED BY <2>3, <3>1, <3>2 DEF Analysis!Recorded
    <2>5. index["projection"] = i
      BY <1>5 DEF PhasesHold
    <2>6. Analysis!Before(Analysis!After(i)) = i
      BY PlacesAre
    <2> QED BY <2>2, <2>4, <2>5, <2>6 DEF Analysis!LatestProjection
  <1>7. row' = [segments |-> Analysis!FeatureHistory("segments"),
                levels |-> Analysis!FeatureHistory("levels"),
                ratio |-> Analysis!SegmentRatio, variation |-> Analysis!Variation,
                spectral |-> Analysis!SpectralChange, projection |-> Analysis!Projection,
                change |-> Analysis!FeatureChange, peak |-> Analysis!PeakResidual]
    BY DEF Analysis!Update
  <1>8. /\ row'["segments"] = Analysis!Recorded("segments", <<e>>)
        /\ row'["levels"] = Analysis!Recorded("levels", <<e>>)
        /\ row'["ratio"] = Analysis!Recorded("ratio", <<e>>)
        /\ row'["variation"] = Analysis!Recorded("variation", <<e>>)
        /\ row'["projection"] = Analysis!Recorded("projection", <<e>>)
        /\ row'["peak"] = Analysis!Recorded("peak", <<e>>)
    BY <1>1, <1>7 DEF Analysis!FeatureHistory, Analysis!SegmentRatio, Analysis!Variation,
         Analysis!Projection, Analysis!PeakResidual
  <1>9. row'["spectral"] = Analysis!Recorded("spectral", <<d, e>>)
    <2>1. Append(<<d>>, e) = <<d, e>>
      BY PairIs
    <2>2. Analysis!SpectralChange = Analysis!Recorded("spectral", <<d, e>>)
      BY <1>1, <1>3, <2>1 DEF Analysis!SpectralChange
    <2> QED BY <1>7, <2>2
  <1>10. row'["change"] = Analysis!Recorded("change", <<d, e>>)
    <2>1. <<d>> \o <<e>> = <<d, e>>
      BY PairIs
    <2>2. Analysis!FeatureChange = Analysis!Recorded("change", <<d, e>>)
      BY <1>3, <1>6, <2>1 DEF Analysis!FeatureChange
    <2> QED BY <1>7, <2>2
  <1>11. DOMAIN row' = Analysis!Ring
    BY <1>5, <1>7
  <1>12. before' = [h \in Analysis!Paired |-> <<e>>]
    <2>1. before' = [spectral |-> <<e>>, change |-> <<e>>]
      BY <1>1, <1>6 DEF Analysis!Update
    <2> QED BY <1>5, <2>1
  <1>13. \A h \in Analysis!Ring : row'[h] = Analysis!Recorded(h, Analysis!RowOf(h, u + 1))
    BY <1>4, <1>5, <1>8, <1>9, <1>10
  <1> QED BY <1>1, <1>11, <1>12, <1>13

\* Between the two halves of a summary the first of them is made.
FirstHalf == {"segments", "levels", "ratio"}

HalfHolds(u) ==
  clock.toggle = 1 =>
    \A h \in FirstHalf : summary[h] = {WindowAt(h, u)} /\ halved[h] = 0

Histories(u, k, m, i) ==
  /\ ClockHolds(u, k, m) /\ PhasesHold(m, i) /\ RowsHold(u, m, i) /\ SumsHold(u, m)
  /\ HalfHolds(u) /\ Analysis!DecidedOnWhole

AnalysisInv ==
  \E u \in Nat, k \in 0 .. (Period - 1), m \in Nat, i \in 0 .. (Depth - 1) : Histories(u, k, m, i)

LEMMA AheadIs ==
  ASSUME NEW i \in 0 .. (Depth - 1), NEW d \in Nat, d < Depth
  PROVE  /\ d > 0 => Ahead(Ahead(i, 1), d - 1) = Ahead(i, d)
         /\ Ahead(i, d) \in 0 .. (Depth - 1)
BY AnalysisSizes DEF Ahead

LEMMA WindowIs ==
  ASSUME NEW h, NEW u \in Nat
  PROVE  WindowAt(h, u) = LaterOf(h, u - 1) \cup {Analysis!RowOf(h, u)}
  <1>1. Depth \in Nat /\ Depth > 1
    BY AnalysisSizes
  <1>2. (u - Depth + 1) .. u = (((u - 1) - Depth + 2) .. (u - 1)) \cup {u}
    BY <1>1
  <1> QED BY <1>2 DEF WindowAt, LaterOf

\* The last row written is the one before the cursor.
LEMMA NewestIs ==
  ASSUME NEW r, NEW h, NEW i \in 0 .. (Depth - 1), NEW u \in Nat, HistoryHolds(r, h, i, u, {})
  PROVE  r[Analysis!Before(i)] = Analysis!RowOf(h, u)
  <1>0. Depth \in Nat /\ Depth > 1
    BY AnalysisSizes
  <1>1. PICK j \in 0 .. (Depth - 1) : Ahead(j, 1) = i
    <2>1. CASE i = 0
      <3>1. Depth - 1 \in 0 .. (Depth - 1) /\ Ahead(Depth - 1, 1) = i
        BY <1>0, <2>1 DEF Ahead
      <3> QED BY <3>1
    <2>2. CASE i # 0
      <3>1. i - 1 \in 0 .. (Depth - 1) /\ Ahead(i - 1, 1) = i
        BY <1>0, <2>2 DEF Ahead
      <3> QED BY <3>1
    <2> QED BY <2>1, <2>2
  <1>2. Analysis!Before(i) = j
    BY <1>1, PlacesAre
  <1>3. Slot(Depth, i, u, j) = u
    BY <1>0, <1>1 DEF Ahead, Slot
  <1> QED BY <1>2, <1>3 DEF HistoryHolds, Analysis!Row

\* A ring read in order from its cursor is read whole.
LEMMA InOrderIs ==
  ASSUME NEW h, NEW i \in 0 .. (Depth - 1), phase[h] = i, index'[h] = i
  PROVE  Analysis!ToSet(Analysis!InOrder(h)) = Analysis!Held(h)
  <1>0. Depth \in Nat /\ Depth > 1 /\ Analysis!Row = 0 .. (Depth - 1)
    BY AnalysisSizes DEF Analysis!Row
  <1>1. PICK r : r = row'[h]
    OBVIOUS
  <1>2. PICK s : s = [j \in 1 .. Depth |-> r[IF j <= Depth - i THEN i + j - 1
                                             ELSE j - 1 - (Depth - i)]]
    OBVIOUS
  <1>3. Analysis!InOrder(h) = s
    <2>1. PICK span : span = Depth - phase[h] + index'[h]
      OBVIOUS
    <2>2. (IF span < Depth THEN span ELSE Depth) = Depth
      BY <1>0, <2>1
    <2> QED BY <1>1, <1>2, <2>1, <2>2 DEF Analysis!InOrder
  <1>4. ASSUME NEW j \in 1 .. Depth PROVE \E p \in 0 .. (Depth - 1) : s[j] = r[p]
    <2>1. PICK p : p = IF j <= Depth - i THEN i + j - 1 ELSE j - 1 - (Depth - i)
      OBVIOUS
    <2>2. p \in 0 .. (Depth - 1)
      BY <1>0, <2>1
    <2> QED BY <1>2, <2>1, <2>2
  <1>5. ASSUME NEW p \in 0 .. (Depth - 1) PROVE \E j \in 1 .. Depth : s[j] = r[p]
    <2>1. CASE p >= i
      <3>1. PICK j \in 1 .. Depth : j = p - i + 1
        BY <1>0, <2>1
      <3>2. j <= Depth - i /\ i + j - 1 = p
        BY <1>0, <2>1, <3>1
      <3> QED BY <1>2, <3>1, <3>2
    <2>2. CASE p < i
      <3>1. PICK j \in 1 .. Depth : j = p + 1 + (Depth - i)
        BY <1>0, <2>2
      <3>2. ~(j <= Depth - i) /\ j - 1 - (Depth - i) = p
        BY <1>0, <2>2, <3>1
      <3> QED BY <1>2, <3>1, <3>2
    <2> QED BY <2>1, <2>2
  <1>6. {s[j] : j \in 1 .. Depth} = {r[p] : p \in 0 .. (Depth - 1)}
    BY <1>4, <1>5
  <1>7. DOMAIN s = 1 .. Depth
    BY <1>2
  <1> QED BY <1>0, <1>1, <1>3, <1>6, <1>7 DEF Analysis!ToSet, Analysis!Held

\* What every update does to the histories and the sums.
LEMMA UpdateIs ==
  ASSUME NEW u \in Nat, NEW k \in 0 .. (Period - 1), NEW m \in Nat, NEW i \in 0 .. (Depth - 1),
         Histories(u, k, m, i), Analysis!Call, k + 1 = Period
  PROVE  /\ index' = [h \in Analysis!Ring |-> Ahead(i, 1)]
         /\ before' = [h \in Analysis!Paired |-> <<Analysis!Spectrum(u + 1)>>]
         /\ DOMAIN row' = Analysis!Ring
         /\ \A h \in Analysis!Ring :
              /\ HistoryHolds(row'[h], h, Ahead(i, 1), u + 1, Cleared(h, m, i))
              /\ row'[h][i] = Analysis!RowOf(h, u + 1)
         /\ \A h \in Analysis!Summed :
              sums'[h] = IF m + 2 = step THEN LaterOf(h, u + 1) ELSE sums[h]
  <1>0. ClockHolds(u, k, m) /\ PhasesHold(m, i) /\ RowsHold(u, m, i)
    BY DEF Histories
  <1>1. Analysis!Upper /\ clock.toggle = 0 /\ export' = Analysis!Spectrum(u + 1)
    BY <1>0, UpdateEnds
  <1>2. Analysis!Update
    BY <1>1 DEF Analysis!Call, Analysis!Analyse
  <1>3. /\ DOMAIN row' = Analysis!Ring
        /\ \A h \in Analysis!Ring : row'[h] = Analysis!Recorded(h, Analysis!RowOf(h, u + 1))
        /\ before' = [h \in Analysis!Paired |-> <<Analysis!Spectrum(u + 1)>>]
    BY <1>0, <1>1, <1>2, ValuesAre
  <1>4. ASSUME NEW h \in Analysis!Ring
        PROVE  /\ HistoryHolds(row'[h], h, Ahead(i, 1), u + 1, Cleared(h, m, i))
               /\ row'[h][i] = Analysis!RowOf(h, u + 1)
    <2>1. PICK r : r = row'[h]
      OBVIOUS
    <2>2. r = Analysis!Recorded(h, Analysis!RowOf(h, u + 1))
      BY <1>3, <2>1
    <2>3. /\ HistoryHolds(r, h, Ahead(i, 1), u + 1, Cleared(h, m, i))
          /\ r[i] = Analysis!RowOf(h, u + 1)
      BY <1>0, <1>1, <2>2, RecordedIs
    <2> QED BY <2>1, <2>3
  <1>5. index' = [h \in Analysis!Ring |-> Ahead(i, 1)]
    BY <1>0, <1>2, PlacesAre DEF Analysis!Update, PhasesHold
  <1>6. ASSUME NEW h \in Analysis!Summed
        PROVE  sums'[h] = IF m + 2 = step THEN LaterOf(h, u + 1) ELSE sums[h]
    <2>0. h \in Analysis!Ring
      BY DEF Analysis!Ring, Analysis!Summed
    <2>1. sums'[h] = IF Analysis!SumIsDue(h)
                     THEN RestOf(row'[h], Analysis!After(index[h]))
                     ELSE sums[h]
      BY <1>2 DEF Analysis!Update, RestOf
    <2>2. Analysis!SumIsDue(h) <=> m + 2 = step
      BY <1>0, <1>1, <2>0, SumIsDueIs
    <2>3. Analysis!After(index[h]) = Ahead(i, 1)
      BY <1>0, <2>0, PlacesAre DEF PhasesHold
    <2>4. ASSUME m + 2 = step
          PROVE  RestOf(row'[h], Ahead(i, 1)) = LaterOf(h, u + 1)
      <3>1. PICK r : r = row'[h]
        OBVIOUS
      <3>2. PICK a \in 0 .. (Depth - 1) : a = Ahead(i, 1)
        BY PlacesAre
      <3>3. PICK v \in Nat : v = u + 1
        OBVIOUS
      <3>4. HistoryHolds(r, h, a, v, {a})
        BY <1>4, <2>0, <2>4, <3>1, <3>2, <3>3 DEF Cleared
      <3>5. RestOf(r, a) = LaterOf(h, v)
        BY <3>2, <3>3, <3>4, LaterIs
      <3> QED BY <3>1, <3>2, <3>3, <3>5
    <2> QED BY <2>1, <2>2, <2>3, <2>4
  <1> QED BY <1>3, <1>4, <1>5, <1>6

\* An update that is not the last before a summary.
LEMMA UpdateKeeps ==
  ASSUME NEW u \in Nat, NEW k \in 0 .. (Period - 1), NEW m \in Nat, NEW i \in 0 .. (Depth - 1),
         Histories(u, k, m, i), Analysis!Call, k + 1 = Period, m + 1 # step
  PROVE  Histories(u + 1, 0, m + 1, Ahead(i, 1))'
  <1>0. /\ ClockHolds(u, k, m) /\ PhasesHold(m, i) /\ RowsHold(u, m, i) /\ SumsHold(u, m)
        /\ Depth \in Nat /\ Depth > 1 /\ step \in 2 .. (Depth - 1) /\ m \in 0 .. (step - 1)
        /\ step' = step
    BY AnalysisSizes DEF Histories, ClockHolds, Analysis!Call
  <1>1. /\ clock.toggle = 0 /\ ~Analysis!LowerA /\ ~Analysis!LowerB /\ ~control'.updated
        /\ ClockHolds(u + 1, 0, m + 1)' /\ clock'.toggle = 0
    BY <1>0, UpdateEnds
  <1>2. PICK a \in 0 .. (Depth - 1) : a = Ahead(i, 1)
    BY PlacesAre
  <1>3. PICK v \in Nat : v = u + 1
    OBVIOUS
  <1>4. PICK n \in Nat : n = m + 1
    OBVIOUS
  <1>5. /\ index' = [h \in Analysis!Ring |-> a]
        /\ before' = [h \in Analysis!Paired |-> <<Analysis!Spectrum(v)>>]
        /\ DOMAIN row' = Analysis!Ring
        /\ \A h \in Analysis!Ring : HistoryHolds(row'[h], h, a, v, Cleared(h, m, i))
        /\ \A h \in Analysis!Summed :
             sums'[h] = IF m + 2 = step THEN LaterOf(h, v) ELSE sums[h]
    BY <1>2, <1>3, UpdateIs
  <1>6. PhasesHold(n, a)'
    <2>1. Analysis!Moved = {}
      BY <1>1 DEF Analysis!Moved, Analysis!Computed
    <2>2. phase' = [h \in DOMAIN phase |-> phase[h]]
      BY <2>1 DEF Analysis!Call, Analysis!Analyse
    <2>3. PICK d \in Nat : d = step - m /\ d > 0 /\ d < Depth /\ step - n = d - 1
      BY <1>0, <1>4
    <2>4. Ahead(a, d - 1) = Ahead(i, d)
      BY <1>2, <2>3, AheadIs
    <2>5. \A h \in DOMAIN phase : phase[h] = Ahead(i, d)
      BY <1>0, <1>1, <2>3 DEF PhasesHold
    <2> QED BY <1>0, <1>1, <1>5, <2>2, <2>3, <2>4, <2>5 DEF PhasesHold
  <1>7. RowsHold(v, n, a)'
    <2>1. \A h : Cleared(h, m, i) = (IF h \in Analysis!Summed /\ n + 1 = step THEN {a} ELSE {})
      BY <1>0, <1>2, <1>4 DEF Cleared
    <2> QED BY <1>0, <1>5, <2>1 DEF RowsHold, Zeroed
  <1>8. SumsHold(v, n)'
    BY <1>0, <1>1, <1>4, <1>5 DEF SumsHold
  <1>9. HalfHolds(v)' /\ Analysis!DecidedOnWhole'
    BY <1>1 DEF HalfHolds, Analysis!DecidedOnWhole
  <1> QED BY <1>1, <1>2, <1>3, <1>4, <1>6, <1>7, <1>8, <1>9 DEF Histories

\* The last update before a summary, and the first half of that.
LEMMA SummaryStarts ==
  ASSUME NEW u \in Nat, NEW k \in 0 .. (Period - 1), NEW m \in Nat, NEW i \in 0 .. (Depth - 1),
         Histories(u, k, m, i), Analysis!Call, k + 1 = Period, m + 1 = step
  PROVE  Histories(u + 1, 0, 0, Ahead(i, 1))'
  <1>0. /\ ClockHolds(u, k, m) /\ PhasesHold(m, i) /\ RowsHold(u, m, i) /\ SumsHold(u, m)
        /\ Depth \in Nat /\ Depth > 1 /\ step \in 2 .. (Depth - 1) /\ m \in 0 .. (step - 1)
        /\ step' = step
    BY AnalysisSizes DEF Histories, ClockHolds, Analysis!Call
  <1>1. /\ clock.toggle = 0 /\ Analysis!LowerA /\ ~control'.updated
        /\ ClockHolds(u + 1, 0, 0)' /\ clock'.toggle = 1
    BY <1>0, UpdateEnds
  <1>2. PICK a \in 0 .. (Depth - 1) : a = Ahead(i, 1) /\ Analysis!Before(a) = i
    BY PlacesAre
  <1>3. PICK v \in Nat : v = u + 1
    OBVIOUS
  <1>5. /\ index' = [h \in Analysis!Ring |-> a]
        /\ before' = [h \in Analysis!Paired |-> <<Analysis!Spectrum(v)>>]
        /\ DOMAIN row' = Analysis!Ring
        /\ \A h \in Analysis!Ring : /\ HistoryHolds(row'[h], h, a, v, Cleared(h, m, i))
                                    /\ row'[h][i] = Analysis!RowOf(h, v)
        /\ \A h \in Analysis!Summed :
             sums'[h] = IF m + 2 = step THEN LaterOf(h, v) ELSE sums[h]
    BY <1>2, <1>3, UpdateIs
  <1>6. /\ Analysis!Ring = {"segments", "levels", "ratio", "variation", "spectral", "projection",
                            "change", "peak"}
        /\ Analysis!Summed = {"segments", "projection"}
    BY DEF Analysis!Ring, Analysis!Summed
  <1>7. \A h \in Analysis!Ring : HistoryHolds(row'[h], h, a, v, {})
    BY <1>0, <1>5 DEF Cleared
  <1>8. \A h \in Analysis!Summed : sums'[h] = LaterOf(h, u)
    BY <1>0, <1>5 DEF SumsHold
  <1>9. step - m = 1 /\ \A h \in DOMAIN phase : phase[h] = a
    <2>1. step - m = 1
      BY <1>0
    <2> QED BY <1>0, <1>1, <1>2, <2>1 DEF PhasesHold
  <1>10. DOMAIN phase = {"segments", "projection", "ratio"}
    BY <1>0, <1>6 DEF PhasesHold
  <1>11. Analysis!Computed = FirstHalf
    <2>1. Analysis!FeaturesDue
      BY <1>5, <1>6, <1>9, <1>10 DEF Analysis!FeaturesDue
    <2> QED BY <1>1, <2>1 DEF Analysis!Computed, FirstHalf
  <1>12. PhasesHold(0, a)'
    <2>1. Analysis!Moved = {"segments", "ratio"}
      BY <1>10, <1>11 DEF Analysis!Moved, FirstHalf
    <2>2. phase' = [h \in DOMAIN phase |-> IF h \in {"segments", "ratio"}
                                           THEN (phase[h] + step) % Depth ELSE phase[h]]
      BY <2>1 DEF Analysis!Call, Analysis!Analyse
    <2>3. (a + step) % Depth = Ahead(a, step) /\ step - 0 = step
      BY <1>0, PlacesAre
    <2>4. /\ DOMAIN phase' = {"segments", "projection", "ratio"}
          /\ phase'["segments"] = Ahead(a, step) /\ phase'["ratio"] = Ahead(a, step)
          /\ phase'["projection"] = a
      BY <1>9, <1>10, <2>2, <2>3
    <2> QED BY <1>0, <1>1, <1>5, <1>6, <2>3, <2>4 DEF PhasesHold
  <1>13. RowsHold(v, 0, a)'
    <2>1. \A h : Zeroed(h, 0, a)' = {}
      BY <1>0 DEF Zeroed
    <2> QED BY <1>5, <1>7, <2>1 DEF RowsHold
  <1>14. SumsHold(v, 0)'
    <2>1. v - 1 = u /\ 0 + 1 # step
      BY <1>0, <1>3
    <2> QED BY <1>0, <1>6, <1>8, <2>1 DEF SumsHold
  <1>15. \A h \in Analysis!Ring : Analysis!Held(h) = WindowAt(h, v)
    <2>1. ASSUME NEW h \in Analysis!Ring PROVE Analysis!Held(h) = WindowAt(h, v)
      <3>1. PICK r : r = row'[h]
        OBVIOUS
      <3>2. HistoryHolds(r, h, a, v, {})
        BY <1>7, <3>1
      <3>3. AllOf(r) = WindowAt(h, v)
        BY <3>2, HeldIs
      <3> QED BY <3>1, <3>3 DEF Analysis!Held, AllOf
    <2> QED BY <2>1
  <1>16. Analysis!Mean("segments") = WindowAt("segments", v)
    <2>1. PICK h \in Analysis!Summed : h = "segments"
      BY <1>6
    <2>2. WindowAt(h, u + 1) = LaterOf(h, u) \cup {Analysis!RowOf(h, u + 1)}
      BY WindowGrows
    <2>3. sums'[h] = LaterOf(h, u) /\ row'[h][i] = Analysis!RowOf(h, v) /\ phase[h] = a
      BY <1>5, <1>6, <1>8, <1>9, <1>10, <2>1
    <2> QED BY <1>2, <1>3, <2>1, <2>2, <2>3 DEF Analysis!Mean
  <1>17. ASSUME NEW h \in {"segments", "ratio"}
         PROVE  Analysis!ToSet(Analysis!InOrder(h)) = WindowAt(h, v)
    <2>1. phase[h] = a /\ index'[h] = a /\ h \in Analysis!Ring
      BY <1>5, <1>6, <1>9, <1>10
    <2> QED BY <1>15, <2>1, InOrderIs
  <1>18. HalfHolds(v)'
    <2>1. /\ summary' = [h \in Analysis!Ring |-> IF h \in FirstHalf THEN Analysis!Views[h]
                                                 ELSE summary[h]]
          /\ halved' = [h \in Analysis!Ring |-> (IF h \in FirstHalf THEN 0 ELSE halved[h])
                                                + (IF Analysis!Decides THEN 1 ELSE 0)]
      BY <1>11 DEF Analysis!Call, Analysis!Analyse, Analysis!Decide
    <2>2. ~Analysis!Decides
      BY <1>1 DEF Analysis!Call, Analysis!Decide
    <2>3. /\ Analysis!Views["segments"] = {WindowAt("segments", v)}
          /\ Analysis!Views["levels"] = {WindowAt("levels", v)}
          /\ Analysis!Views["ratio"] = {WindowAt("ratio", v)}
      <3>1. /\ Analysis!SegmentCadence = {WindowAt("segments", v)}
            /\ Analysis!LevelCadence = {WindowAt("levels", v)}
            /\ Analysis!RatioColumns = {WindowAt("ratio", v)}
        <4>1. /\ Analysis!Held("segments") = WindowAt("segments", v)
              /\ Analysis!Held("levels") = WindowAt("levels", v)
          BY <1>6, <1>15
        <4>2. /\ Analysis!ToSet(Analysis!InOrder("segments")) = WindowAt("segments", v)
              /\ Analysis!ToSet(Analysis!InOrder("ratio")) = WindowAt("ratio", v)
          BY <1>17
        <4>3. Analysis!SegmentCadence = {WindowAt("segments", v)}
          BY <1>16, <4>1, <4>2 DEF Analysis!SegmentCadence
        <4> QED BY <4>1, <4>2, <4>3 DEF Analysis!LevelCadence, Analysis!RatioColumns
      <3> QED BY <3>1 DEF Analysis!Views
    <2> QED BY <1>6, <2>1, <2>2, <2>3 DEF HalfHolds, FirstHalf
  <1>19. Analysis!DecidedOnWhole'
    BY <1>1 DEF Analysis!DecidedOnWhole
  <1> QED BY <1>1, <1>2, <1>3, <1>12, <1>13, <1>14, <1>18, <1>19 DEF Histories

\* A call with nothing to update or to summarise.
LEMMA NothingComputed ==
  ASSUME NEW u \in Nat, NEW k \in 0 .. (Period - 1), NEW m \in Nat, NEW i \in 0 .. (Depth - 1),
         Histories(u, k, m, i), Analysis!Call, k + 1 # Period, clock.toggle = 0
  PROVE  Histories(u, k + 1, m, i)'
  <1>0. /\ ClockHolds(u, k, m) /\ PhasesHold(m, i) /\ RowsHold(u, m, i) /\ SumsHold(u, m)
        /\ step' = step /\ calls' = calls + 1
    BY DEF Histories, Analysis!Call
  <1>1. /\ ~Analysis!Upper /\ ~Analysis!LowerA /\ ~Analysis!LowerB
        /\ ClockHolds(u, k + 1, m)' /\ clock'.toggle = 0
        /\ control'.updated => calls = 0
    BY <1>0, BetweenUpdates
  <1>2. UNCHANGED <<row, before, sums, index>>
    BY <1>1 DEF Analysis!Call, Analysis!Analyse
  <1>3. phase' = [h \in DOMAIN phase |-> phase[h]]
    <2>1. Analysis!Moved = {}
      BY <1>1 DEF Analysis!Moved, Analysis!Computed
    <2> QED BY <2>1 DEF Analysis!Call, Analysis!Analyse
  <1>4. PhasesHold(m, i)'
    BY <1>0, <1>1, <1>2, <1>3 DEF PhasesHold
  <1>5. RowsHold(u, m, i)'
    BY <1>0, <1>2 DEF RowsHold, Zeroed
  <1>6. SumsHold(u, m)'
    BY <1>0, <1>1, <1>2 DEF SumsHold
  <1>7. HalfHolds(u)' /\ Analysis!DecidedOnWhole'
    BY <1>0, <1>1 DEF HalfHolds, Analysis!DecidedOnWhole
  <1>8. PICK n \in Nat : n = k + 1
    OBVIOUS
  <1> QED BY <1>1, <1>4, <1>5, <1>6, <1>7, <1>8 DEF Histories

\* The second half of a summary, and the decision.
LEMMA SummaryEnds ==
  ASSUME NEW u \in Nat, NEW k \in 0 .. (Period - 1), NEW m \in Nat, NEW i \in 0 .. (Depth - 1),
         Histories(u, k, m, i), Analysis!Call, k + 1 # Period, clock.toggle = 1
  PROVE  Histories(u, k + 1, m, i)'
  <1>0. /\ ClockHolds(u, k, m) /\ PhasesHold(m, i) /\ RowsHold(u, m, i) /\ SumsHold(u, m)
        /\ HalfHolds(u) /\ k = 0 /\ m = 0 /\ calls = u * Period
        /\ step \in 2 .. (Depth - 1) /\ step' = step /\ calls' = calls + 1
        /\ Period \in Nat /\ Period > 1
    BY AnalysisSizes DEF Histories, ClockHolds, Analysis!Call
  <1>1. /\ ~Analysis!Upper /\ ~Analysis!LowerA /\ Analysis!LowerB /\ Analysis!Decides
        /\ ClockHolds(u, k + 1, m)' /\ clock'.toggle = 0
    BY <1>0, BetweenUpdates
  <1>2. UNCHANGED <<row, before, sums, index>>
    BY <1>1 DEF Analysis!Call, Analysis!Analyse
  <1>3. /\ Analysis!Ring = {"segments", "levels", "ratio", "variation", "spectral", "projection",
                            "change", "peak"}
        /\ Analysis!Summed = {"segments", "projection"}
        /\ DOMAIN phase = {"segments", "projection", "ratio"}
    <2>1. /\ Analysis!Ring = {"segments", "levels", "ratio", "variation", "spectral", "projection",
                              "change", "peak"}
          /\ Analysis!Summed = {"segments", "projection"}
      BY DEF Analysis!Ring, Analysis!Summed
    <2> QED BY <1>0, <2>1 DEF PhasesHold
  <1>4. Analysis!Computed = Analysis!Ring \ FirstHalf
    BY <1>1 DEF Analysis!Computed, FirstHalf
  <1>5. /\ phase["projection"] = i
        /\ phase["segments"] = Ahead(i, step) /\ phase["ratio"] = Ahead(i, step)
    <2>1. step - m = step
      BY <1>0
    <2> QED BY <1>0, <1>3, <2>1 DEF PhasesHold
  <1>6. PhasesHold(m, i)'
    <2>1. Analysis!Moved = {"projection"}
      BY <1>3, <1>4 DEF Analysis!Moved, FirstHalf
    <2>2. phase' = [h \in DOMAIN phase |-> IF h \in {"projection"}
                                           THEN (phase[h] + step) % Depth ELSE phase[h]]
      BY <2>1 DEF Analysis!Call, Analysis!Analyse
    <2>3. (i + step) % Depth = Ahead(i, step) /\ step - m = step
      BY <1>0, PlacesAre
    <2>4. /\ DOMAIN phase' = {"segments", "projection", "ratio"}
          /\ \A h \in DOMAIN phase' : phase'[h] = Ahead(i, step)
      BY <1>3, <1>5, <2>2, <2>3
    <2>5. index' = [h \in Analysis!Ring |-> i]
      BY <1>0, <1>2 DEF PhasesHold
    <2> QED BY <1>0, <1>1, <1>3, <2>3, <2>4, <2>5 DEF PhasesHold
  <1>7. RowsHold(u, m, i)'
    BY <1>0, <1>2 DEF RowsHold, Zeroed
  <1>8. SumsHold(u, m)'
    BY <1>0, <1>1, <1>2 DEF SumsHold
  <1>9. HalfHolds(u)'
    BY <1>1 DEF HalfHolds
  <1>10. \A h \in Analysis!Ring : HistoryHolds(row[h], h, i, u, {})
    BY <1>0 DEF RowsHold, Zeroed
  <1>11. ASSUME NEW h \in Analysis!Ring PROVE Analysis!Held(h) = WindowAt(h, u)
    <2>1. PICK r : r = row[h]
      OBVIOUS
    <2>2. HistoryHolds(r, h, i, u, {})
      BY <1>10, <2>1
    <2>3. AllOf(r) = WindowAt(h, u)
      BY <2>2, HeldIs
    <2> QED BY <1>2, <2>1, <2>3 DEF Analysis!Held, AllOf
  <1>12. Analysis!Mean("projection") = WindowAt("projection", u)
    <2>1. PICK h \in Analysis!Ring : h = "projection"
      BY <1>3
    <2>2. PICK r : r = row[h]
      OBVIOUS
    <2>3. HistoryHolds(r, h, i, u, {})
      BY <1>10, <2>2
    <2>4. r[Analysis!Before(i)] = Analysis!RowOf(h, u)
      BY <2>3, NewestIs
    <2>5. sums'["projection"] = LaterOf(h, u - 1)
      BY <1>0, <1>2, <2>1 DEF SumsHold
    <2>6. WindowAt(h, u) = LaterOf(h, u - 1) \cup {Analysis!RowOf(h, u)}
      BY WindowIs
    <2> QED BY <1>2, <1>5, <2>1, <2>2, <2>4, <2>5, <2>6 DEF Analysis!Mean
  <1>13. WindowAt("peak", u) = WindowAt("levels", u)
    BY DEF WindowAt, Analysis!RowOf, Analysis!Paired
  <1>14. ASSUME NEW h \in Analysis!Ring \ FirstHalf PROVE Analysis!Views[h] = {WindowAt(h, u)}
    <2>1. /\ Analysis!Held("variation") = WindowAt("variation", u)
          /\ Analysis!Held("spectral") = WindowAt("spectral", u)
          /\ Analysis!Held("projection") = WindowAt("projection", u)
          /\ Analysis!Held("change") = WindowAt("change", u)
          /\ Analysis!Held("peak") = WindowAt("peak", u)
          /\ Analysis!Held("levels") = WindowAt("peak", u)
      BY <1>3, <1>11, <1>13
    <2>2. /\ Analysis!VariationColumns = {WindowAt("variation", u)}
          /\ Analysis!ChangeStep("spectral") = {WindowAt("spectral", u)}
          /\ Analysis!ProjectionCadence = {WindowAt("projection", u)}
          /\ Analysis!ChangeStep("change") = {WindowAt("change", u)}
          /\ Analysis!RankHistory = {WindowAt("peak", u)}
      BY <1>12, <2>1 DEF Analysis!VariationColumns, Analysis!ChangeStep,
           Analysis!ProjectionCadence, Analysis!RankHistory
    <2>3. h \in {"variation", "spectral", "projection", "change", "peak"}
      BY <1>3, <1>14 DEF FirstHalf
    <2> QED BY <2>2, <2>3 DEF Analysis!Views
  <1>15. \A h \in Analysis!Ring : summary'[h] = {WindowAt(h, u)} /\ halved'[h] = 1
    <2>1. /\ summary' = [h \in Analysis!Ring |-> IF h \in Analysis!Ring \ FirstHalf
                                                 THEN Analysis!Views[h] ELSE summary[h]]
          /\ halved' = [h \in Analysis!Ring |->
                          (IF h \in Analysis!Ring \ FirstHalf THEN 0 ELSE halved[h])
                          + (IF Analysis!Decides THEN 1 ELSE 0)]
      BY <1>4 DEF Analysis!Call, Analysis!Analyse, Analysis!Decide
    <2>2. ASSUME NEW h \in FirstHalf PROVE summary[h] = {WindowAt(h, u)} /\ halved[h] = 0
      BY <1>0 DEF HalfHolds
    <2> QED BY <1>1, <1>14, <2>1, <2>2
  <1>16. Analysis!DecidedOnWhole'
    <2>1. PICK n \in Nat : n = u * Period /\ calls' = n + 1
      BY <1>0
    <2>2. (n + 1) \div Period = u
      BY <1>0, <2>1
    <2>3. calls' \div Period = u
      BY <2>1, <2>2
    <2> QED BY <1>15, <2>3 DEF Analysis!DecidedOnWhole, WindowAt
  <1>17. PICK n \in Nat : n = k + 1
    OBVIOUS
  <1> QED BY <1>1, <1>6, <1>7, <1>8, <1>9, <1>16, <1>17 DEF Histories

LEMMA AnalysisGoesOn == AnalysisInv /\ [Analysis!Next]_Analysis!vars => AnalysisInv'
  <1> SUFFICES ASSUME AnalysisInv, [Analysis!Next]_Analysis!vars PROVE AnalysisInv'
    OBVIOUS
  <1>0. PICK u \in Nat, k \in 0 .. (Period - 1), m \in Nat, i \in 0 .. (Depth - 1) :
          Histories(u, k, m, i)
    BY DEF AnalysisInv
  <1>1. CASE Analysis!Call
    <2>0. ClockHolds(u, k, m) /\ Period \in Nat /\ Period > 1
      BY <1>0, AnalysisSizes DEF Histories
    <2>1. CASE k + 1 # Period
      <3>1. Histories(u, k + 1, m, i)'
        <4>1. clock.toggle \in {0, 1}
          BY <2>0 DEF ClockHolds
        <4>2. CASE clock.toggle = 0
          BY <1>0, <1>1, <2>1, <4>2, NothingComputed
        <4>3. CASE clock.toggle = 1
          BY <1>0, <1>1, <2>1, <4>3, SummaryEnds
        <4> QED BY <4>1, <4>2, <4>3
      <3>2. PICK n \in 0 .. (Period - 1) : n = k + 1
        BY <2>0, <2>1
      <3> QED BY <3>1, <3>2 DEF AnalysisInv
    <2>2. CASE k + 1 = Period
      <3>1. PICK a \in 0 .. (Depth - 1) : a = Ahead(i, 1)
        BY PlacesAre
      <3>2. PICK v \in Nat : v = u + 1
        OBVIOUS
      <3>3. 0 \in 0 .. (Period - 1)
        BY <2>0
      <3>4. CASE m + 1 # step
        <4>1. Histories(v, 0, m + 1, a)'
          BY <1>0, <1>1, <2>2, <3>1, <3>2, <3>4, UpdateKeeps
        <4>2. PICK n \in Nat : n = m + 1
          OBVIOUS
        <4> QED BY <3>3, <4>1, <4>2 DEF AnalysisInv
      <3>5. CASE m + 1 = step
        <4>1. Histories(v, 0, 0, a)'
          BY <1>0, <1>1, <2>2, <3>1, <3>2, <3>5, SummaryStarts
        <4> QED BY <3>3, <4>1 DEF AnalysisInv
      <3> QED BY <3>4, <3>5
    <2> QED BY <2>1, <2>2
  <1>2. CASE Analysis!Done \/ UNCHANGED Analysis!vars
    <2>1. UNCHANGED <<step, calls, spectral, export, clock, index, row, before, phase, sums,
                      summary, halved, control>>
      BY <1>2 DEF Analysis!Done, Analysis!vars
    <2>2. Histories(u, k, m, i)'
      BY <1>0, <2>1 DEF Histories, ClockHolds, PhasesHold, RowsHold, Zeroed, SumsHold, HalfHolds,
                        Analysis!DecidedOnWhole
    <2> QED BY <2>2 DEF AnalysisInv
  <1> QED BY <1>1, <1>2 DEF Analysis!Next

LEMMA AnalysisStarts == Analysis!Init => AnalysisInv
  <1> SUFFICES ASSUME Analysis!Init PROVE AnalysisInv
    OBVIOUS
  <1>0. /\ Depth \in Nat /\ Depth > 1 /\ Period \in Nat /\ Period > 1
        /\ step \in Steps /\ step \in 2 .. (Depth - 1)
    BY AnalysisSizes DEF Analysis!Init
  <1>1. 0 \in 0 .. (Period - 1) /\ 0 \in 0 .. (Depth - 1) /\ 0 \in Nat /\ 0 * Period = 0
    BY <1>0
  <1>2. ClockHolds(0, 0, 0)
    BY <1>0, <1>1 DEF ClockHolds, Analysis!Init
  <1>3. PhasesHold(0, 0)
    <2>1. Ahead(0, step - 0) = step
      BY <1>0 DEF Ahead
    <2> QED BY <1>2, <2>1 DEF PhasesHold, Analysis!Init
  <1>4. RowsHold(0, 0, 0)
    <2>1. ASSUME NEW h \in Analysis!Ring
          PROVE  HistoryHolds(row[h], h, 0, 0, Zeroed(h, 0, 0))
      <3>1. PICK r : r = [j \in Analysis!Row |-> Analysis!RowOf(h, j - Depth + 1)]
        OBVIOUS
      <3>2. row[h] = r
        BY <3>1 DEF Analysis!Init
      <3>3. ASSUME NEW j \in Analysis!Row PROVE r[j] = Analysis!RowOf(h, Slot(Depth, 0, 0, j))
        <4>1. Slot(Depth, 0, 0, j) = j - Depth + 1
          BY <1>0 DEF Slot, Analysis!Row
        <4> QED BY <3>1, <4>1
      <3> QED BY <3>1, <3>2, <3>3 DEF HistoryHolds
    <2> QED BY <2>1 DEF RowsHold, Analysis!Init
  <1>5. SumsHold(0, 0) /\ HalfHolds(0) /\ Analysis!DecidedOnWhole
    BY <1>0 DEF SumsHold, HalfHolds, Analysis!DecidedOnWhole, Analysis!Init
  <1> QED BY <1>1, <1>2, <1>3, <1>4, <1>5 DEF AnalysisInv, Histories

LEMMA AnalysisIsWhole == AnalysisInv => Analysis!DecidedOnWhole
BY DEF AnalysisInv, Histories

\* HistoriesAreWhole of UbigEngine: Stage B decides from the last updates,
\* all of them and each once, whichever way a history is read, and what
\* the dialog enhancer compares by is of the windows it means.
THEOREM HistoriesCorrect == EngineSpec => []HistoriesAreWhole
  <1>1. AnalysisInv /\ DialogInv => HistoriesAreWhole
    BY AnalysisIsWhole, DialogIsWhole DEF HistoriesAreWhole
  <1> QED BY <1>1, EngineRuns, AnalysisStarts, AnalysisGoesOn, DialogStarts, DialogGoesOn, PTL
=============================================================================
