----------------------------- MODULE ControlPage -----------------------------
(***************************************************************************)
(* The shared control page of the UbiG speaker engine: controllers (the    *)
(* GTK application, ubigctl, the endpoint-volume daemon) write a payload   *)
(* and then advance a generation, one at a time under a file lock; the     *)
(* engine, on the audio thread, takes no lock: at each block it copies the *)
(* page between two samples of the generations, applies what is pending    *)
(* and acknowledges it.                                                    *)
(*                                                                         *)
(* The lock makes the controllers take turns, so one writer stands for all *)
(* of them.  Stores are seen in program order; the engine's copy reads the *)
(* words in any order.  An equalizer request sets every band to one value, *)
(* so a curve with two values mixes two requests.                          *)
(***************************************************************************)
EXTENDS Naturals, Sequences, FiniteSets

CONSTANTS
  Bands, Values,   \* the equalizer's bands and the values asked for
  Gains,           \* the postgains asked for
  Rejects,         \* a change of profile may fail in the engine
  Crashes,         \* the engine's process may die
  Dies,            \* a writer's process may die in the middle of a request
  MaxRetry,        \* a snapshot's retries (8 in the code)
  MaxReq, MaxPg, MaxStarts  \* model bounds: requests of each kind, engines

Flat == "flat"     \* a band of a fresh page; the postgain of a fresh page
PageProfiles == {"dynamic", "movie", "custom"}

ASSUME ControlAssumption ==
  /\ Bands # {} /\ IsFiniteSet(Bands) /\ Flat \notin Values \cup Gains
  /\ Bands \cap {"flag", "prof", "pg", "gen", "pgGen"} = {}
  /\ {Rejects, Crashes, Dies} \subseteq BOOLEAN
  /\ {MaxRetry, MaxReq, MaxPg, MaxStarts} \subseteq Nat /\ MaxRetry > 0

VARIABLES
  page,     \* the control page
  todo,     \* the lock holder's stores still to do, in order
  request,  \* what it asks for
  eng,      \* the engine's instance: its settings and where it is
  snap,     \* the engine's copy of the page
  want,     \* history: the settings asked for by the last requests
  served,   \* history: the generations this instance has applied
  spoiled,  \* history: settings in the page that nobody asked for
  counts    \* history, for the bounds: requests, postgains, engines

vars == <<page, todo, request, eng, snap, want, served, spoiled, counts>>

Curve(v) == [b \in Bands |-> v]

FreshPage ==
  [req |-> 0, ack |-> 0, prof |-> "dynamic", active |-> "dynamic",
   flag |-> FALSE, eq |-> Curve(Flat), pg |-> Flat, activePg |-> Flat,
   pgReq |-> 0, pgAck |-> 0, err |-> FALSE, live |-> FALSE]

NoRequest == [kind |-> "none"]
NoEngine == [pc |-> "off", prof |-> "dynamic", eq |-> Curve(Flat),
             geq |-> Curve(Flat), pg |-> Flat, tries |-> 0]
NoSnap == [req |-> 0, pgReq |-> 0, left |-> {}, prof |-> "dynamic",
           flag |-> FALSE, eq |-> Curve(Flat), pg |-> Flat]

Init ==
  /\ page = FreshPage
  /\ todo = <<>> /\ request = NoRequest
  /\ eng = NoEngine /\ snap = NoSnap
  /\ want = [prof |-> "dynamic", eq |-> Curve(Flat), pg |-> Flat]
  /\ served = [req |-> 0, pg |-> 0]
  /\ spoiled = {}
  /\ counts = [req |-> 0, pg |-> 0, starts |-> 0]

-----------------------------------------------------------------------------
(* The controllers.                                                        *)

BandStores == CHOOSE s \in [1..Cardinality(Bands) -> Bands] :
                \A b \in Bands : \E i \in DOMAIN s : s[i] = b

(* Mutant: the generation is advanced before the profile is stored.        *)
EqStores_GenFirst == BandStores \o <<"flag", "gen", "prof">>

(* ubig_control_request_custom_eq and ControlPage.request_custom_eq.       *)
EqStores == BandStores \o <<"flag", "prof", "gen">>

(* ubig_control_request_postgain and write_postgain_request.               *)
PgStores == <<"pg", "pgGen">>

Lock(r, stores) == todo = <<>> /\ todo' = stores /\ request' = r

RequestProfile ==
  /\ counts.req < MaxReq /\ counts' = [counts EXCEPT !.req = @ + 1]
  /\ \E p \in PageProfiles :
       Lock([kind |-> "main", prof |-> p, value |-> Flat], <<"prof", "gen">>)
  /\ UNCHANGED <<page, eng, snap, want, served, spoiled>>

RequestEq ==
  /\ counts.req < MaxReq /\ counts' = [counts EXCEPT !.req = @ + 1]
  /\ \E v \in Values :
       Lock([kind |-> "main", prof |-> "custom", value |-> v], EqStores)
  /\ UNCHANGED <<page, eng, snap, want, served, spoiled>>

RequestPostgain ==
  /\ counts.pg < MaxPg /\ counts' = [counts EXCEPT !.pg = @ + 1]
  /\ \E g \in Gains : Lock([kind |-> "pg", value |-> g], PgStores)
  /\ UNCHANGED <<page, eng, snap, want, served, spoiled>>

(* The settings a request changes.                                         *)
Touched ==
  IF request.kind = "pg" THEN {"pg"}
  ELSE {"prof"} \cup (IF request.value = Flat THEN {} ELSE {"eq"})

Asked ==
  IF request.kind = "pg" THEN [want EXCEPT !.pg = request.value]
  ELSE [want EXCEPT !.prof = request.prof,
          !.eq = IF request.value = Flat THEN @ ELSE Curve(request.value)]

(* One store of the lock holder; the last one is the generation.           *)
Store ==
  /\ todo # <<>>
  /\ todo' = Tail(todo)
  /\ request' = IF todo' = <<>> THEN NoRequest ELSE request
  /\ LET w == Head(todo)
     IN  /\ page' = CASE w = "flag" -> [page EXCEPT !.flag = TRUE]
                      [] w = "prof" -> [page EXCEPT !.prof = request.prof]
                      [] w = "pg" -> [page EXCEPT !.pg = request.value]
                      [] w = "gen" -> [page EXCEPT !.req = @ + 1]
                      [] w = "pgGen" -> [page EXCEPT !.pgReq = @ + 1]
                      [] OTHER -> [page EXCEPT !.eq[w] = request.value]
         /\ want' = IF w \in {"gen", "pgGen"} THEN Asked ELSE want
         /\ spoiled' = CASE w \in {"prof", "pg"} -> spoiled \ {w}
                         [] w = "flag" -> spoiled \ {"eq"}
                         [] OTHER -> spoiled
  /\ UNCHANGED <<eng, snap, served, counts>>

(* The kernel drops a dead writer's lock.                                  *)
Die ==
  /\ Dies /\ todo # <<>>
  /\ todo' = <<>> /\ request' = NoRequest
  /\ spoiled' = spoiled \cup Touched
  /\ UNCHANGED <<page, eng, snap, want, served, counts>>

Writer == RequestProfile \/ RequestEq \/ RequestPostgain \/ Store \/ Die

-----------------------------------------------------------------------------
(* The engine comes and goes.                                              *)

(* Mutant: opening the page always initialises it.                         *)
Opened_Fresh == [FreshPage EXCEPT !.live = TRUE]

(* ubig_control_open(create) leaves a valid page as it is.                 *)
Opened == [page EXCEPT !.live = TRUE]

(* No main request has been made yet.                                      *)
Unrequested == page.req = 0 /\ page.ack = 0

(* chain_instantiate up to the test in chain_control_open.  Creating and   *)
(* opening take the lock.                                                  *)
Start ==
  /\ eng.pc = "off" /\ counts.starts < MaxStarts /\ todo = <<>>
  /\ counts' = [counts EXCEPT !.starts = @ + 1]
  /\ \E p \in PageProfiles \ {"custom"} :
       eng' = [NoEngine EXCEPT !.pc = "opened", !.prof = p]
  /\ page' = Opened
  /\ served' = [req |-> 0, pg |-> 0]
  /\ UNCHANGED <<todo, request, snap, want, spoiled>>

(* The rest of chain_control_open: a test and a store without the lock.    *)
Test ==
  /\ eng.pc = "opened"
  /\ eng' = [eng EXCEPT !.pc = IF Unrequested THEN "seed" ELSE "publish"]
  /\ UNCHANGED <<page, todo, request, snap, want, served, spoiled, counts>>

Seed ==
  /\ eng.pc = "seed"
  /\ page' = [page EXCEPT !.prof = eng.prof]
  /\ want' = IF page.req = 0 THEN [want EXCEPT !.prof = eng.prof] ELSE want
  /\ spoiled' = IF page.req # 0 \/ (todo # <<>> /\ request.kind = "main")
                THEN spoiled \cup {"prof"} ELSE spoiled
  /\ eng' = [eng EXCEPT !.pc = "publish"]
  /\ UNCHANGED <<todo, request, snap, served, counts>>

Publish ==
  /\ eng.pc = "publish"
  /\ page' = [page EXCEPT !.active = eng.prof, !.activePg = eng.pg]
  /\ eng' = [eng EXCEPT !.pc = "idle"]
  /\ UNCHANGED <<todo, request, snap, want, served, spoiled, counts>>

(* chain_free_mem; a crash skips it.                                       *)
Stop ==
  /\ eng.pc = "idle"
  /\ page' = [page EXCEPT !.live = FALSE]
  /\ eng' = NoEngine /\ snap' = NoSnap
  /\ UNCHANGED <<todo, request, want, served, spoiled, counts>>

Crash ==
  /\ Crashes /\ eng.pc # "off"
  /\ eng' = NoEngine /\ snap' = NoSnap
  /\ UNCHANGED <<page, todo, request, want, served, spoiled, counts>>

-----------------------------------------------------------------------------
(* chain_run: ubig_control_snapshot, then chain_apply_control_request.     *)

Words == Bands \cup {"flag", "prof", "pg"}

Sample(tries) ==
  /\ eng' = [eng EXCEPT !.pc = "copy", !.tries = tries]
  /\ snap' = [snap EXCEPT !.req = page.req, !.pgReq = page.pgReq, !.left = Words]

(* The copy is a local variable.                                           *)
BlockEnds(e) == eng' = [e EXCEPT !.pc = "idle", !.tries = 0] /\ snap' = NoSnap

BeginBlock ==
  /\ eng.pc = "idle" /\ Sample(1)
  /\ UNCHANGED <<page, todo, request, want, served, spoiled, counts>>

Copy ==
  /\ eng.pc = "copy"
  /\ \E w \in snap.left :
       snap' = LET s == [snap EXCEPT !.left = @ \ {w}]
               IN  CASE w = "flag" -> [s EXCEPT !.flag = page.flag]
                     [] w = "prof" -> [s EXCEPT !.prof = page.prof]
                     [] w = "pg" -> [s EXCEPT !.pg = page.pg]
                     [] OTHER -> [s EXCEPT !.eq[w] = page.eq[w]]
  /\ UNCHANGED <<page, todo, request, eng, want, served, spoiled, counts>>

Stable == snap.req = page.req /\ snap.pgReq = page.pgReq

Again == eng.tries < MaxRetry

Resample ==
  /\ eng.pc = "copy" /\ snap.left = {}
  /\ IF Stable THEN eng' = [eng EXCEPT !.pc = "postgain"] /\ UNCHANGED snap
     ELSE IF Again THEN Sample(eng.tries + 1)
     ELSE BlockEnds(eng)
  /\ UNCHANGED <<page, todo, request, want, served, spoiled, counts>>

ApplyPostgain ==
  /\ eng.pc = "postgain"
  /\ IF snap.pgReq = page.pgAck
     THEN eng' = [eng EXCEPT !.pc = "main"] /\ UNCHANGED <<page, served>>
     ELSE /\ eng' = [eng EXCEPT !.pc = "main", !.pg = snap.pg]
          /\ page' = [page EXCEPT !.activePg = snap.pg, !.err = FALSE,
                                  !.pgAck = snap.pgReq]
          /\ served' = [served EXCEPT !.pg = snap.pgReq]
  /\ UNCHANGED <<todo, request, snap, want, spoiled, counts>>

(* The equalizer curve the processing uses, after a change of profile or a *)
(* new curve: entering custom loads the stored curve, so does a request    *)
(* with a curve while in it.                                               *)
GeqAfter(prof, eq) ==
  IF prof # "custom" THEN Curve(Flat)
  ELSE IF eng.prof # "custom" \/ snap.flag THEN eq ELSE eng.geq

NoPending == eng.pc = "main" /\ snap.req = page.ack
Skip ==
  /\ NoPending
  /\ BlockEnds(eng)
  /\ UNCHANGED <<page, todo, request, want, served, spoiled, counts>>

Eq == IF snap.flag THEN snap.eq ELSE eng.eq

(* Mutant: nothing is acknowledged.                                        *)
Acked_Never(prof, err) == [page EXCEPT !.active = prof, !.err = err]
(* chain_control_ack_main.                                                 *)
Acked(prof, err) ==
  [page EXCEPT !.active = prof, !.err = err, !.ack = snap.req]

ApplyMain ==
  /\ eng.pc = "main" /\ ~NoPending
  /\ BlockEnds([eng EXCEPT !.prof = snap.prof, !.eq = Eq,
                           !.geq = GeqAfter(snap.prof, Eq)])
  /\ page' = Acked(snap.prof, FALSE)
  /\ served' = [served EXCEPT !.req = snap.req]
  /\ UNCHANGED <<todo, request, want, spoiled, counts>>

(* The profile change fails; the curve has been stored by then.            *)
RejectMain ==
  /\ Rejects /\ eng.pc = "main" /\ ~NoPending /\ snap.prof # eng.prof
  /\ BlockEnds([eng EXCEPT !.eq = Eq])
  /\ page' = Acked(eng.prof, TRUE)
  /\ UNCHANGED <<todo, request, want, served, spoiled, counts>>

Engine ==
  Test \/ Seed \/ Publish \/ BeginBlock \/ Copy \/ Resample
  \/ ApplyPostgain \/ Skip \/ ApplyMain \/ RejectMain

Next == Writer \/ Start \/ Stop \/ Crash \/ Engine

Spec == Init /\ [][Next]_vars

(* The audio graph calls chain_run again and again while a stream plays;   *)
(* a writer that has the lock goes on.                                     *)
FairSpec == Spec /\ WF_vars(Engine) /\ WF_vars(Store)

-----------------------------------------------------------------------------
Band == Values \cup {Flat}

(* Generations count requests, acknowledgements never run ahead of them,   *)
(* and settings are what a request may ask for.                            *)
Curves == [Bands -> Band]
Gain == Gains \cup {Flat}
Pages ==
  [req : 0..MaxReq, ack : 0..MaxReq, prof : PageProfiles, active : PageProfiles,
   flag : BOOLEAN, eq : Curves, pg : Gain, activePg : Gain,
   pgReq : 0..MaxPg, pgAck : 0..MaxPg, err : BOOLEAN, live : BOOLEAN]
Requests == [kind : {"main"}, prof : PageProfiles, value : Band]
            \cup [kind : {"pg"}, value : Gains]
Engines ==
  [pc : {"off", "opened", "seed", "publish", "idle", "copy", "postgain", "main"},
   prof : PageProfiles, eq : Curves, geq : Curves, pg : Gain, tries : 0..MaxRetry]
Copies ==
  [req : 0..MaxReq, pgReq : 0..MaxPg, left : SUBSET Words, prof : PageProfiles,
   flag : BOOLEAN, eq : Curves, pg : Gain]
TypeOK ==
  /\ page \in Pages /\ page.ack <= page.req /\ page.pgAck <= page.pgReq
  /\ todo \in Seq(Words \cup {"gen", "pgGen"})
  /\ request \in Requests \cup {NoRequest} /\ (request = NoRequest <=> todo = <<>>)
  /\ eng \in Engines /\ snap \in Copies
  /\ want \in [prof : PageProfiles, eq : Curves, pg : Gain]
  /\ served \in [req : 0..MaxReq, pg : 0..MaxPg]
  /\ spoiled \subseteq {"prof", "eq", "pg"}
  /\ counts \in [req : 0..MaxReq, pg : 0..MaxPg, starts : 0..MaxStarts]

Running == eng.pc \notin {"off", "opened", "seed", "publish"}

(* Although a copy can mix a request with the one before it, what the      *)
(* engine has once applied the newest generation is what was asked for     *)
(* last: profile, stored curve, the curve in use, and by its own           *)
(* generation the endpoint postgain (settings spoiled by a dead writer or  *)
(* the cold start's unlocked store aside).                                 *)
NewestIsWhole ==
  /\ Running /\ todo = <<>> /\ served.req = page.req /\ page.req > 0 =>
       /\ "prof" \notin spoiled => eng.prof = want.prof
       /\ "eq" \notin spoiled /\ page.flag => eng.eq = want.eq
       /\ {"eq", "prof"} \cap spoiled = {} /\ page.flag /\ want.prof = "custom"
            => eng.geq = want.eq
  /\ /\ Running /\ todo = <<>> /\ served.pg = page.pgReq /\ page.pgReq > 0
     /\ "pg" \notin spoiled
     => eng.pg = want.pg

(* Whoever starts, stops or crashes, the page's generations and            *)
(* acknowledgements never go back: no restart takes an answered request    *)
(* for a new one, or a new one for answered.                               *)
NothingGoesBack ==
  [][/\ page'.req >= page.req /\ page'.ack >= page.ack
     /\ page'.pgReq >= page.pgReq /\ page'.pgAck >= page.pgAck]_vars

(* While an engine runs, every request is acknowledged in the end.         *)
RequestsAreAcked ==
  /\ (page.req # page.ack) ~> (page.req = page.ack \/ eng.pc = "off")
  /\ (page.pgReq # page.pgAck) ~> (page.pgReq = page.pgAck \/ eng.pc = "off")

-----------------------------------------------------------------------------
(* The inductive invariant behind NewestIsWhole.                           *)

(* A setting of the page is being written.                                 *)
Writing(x) == todo # <<>> /\ x \in Touched

(* The lock holder's stores are the rest of its request's.                 *)
StoresOf(r) == IF r.kind = "pg" THEN PgStores
               ELSE IF r.value = Flat THEN <<"prof", "gen">> ELSE EqStores
Stores == StoresOf(request)
StoredTo == Len(Stores) - Len(todo)
InOrder ==
  todo # <<>> =>
    /\ Len(todo) <= Len(Stores)
    /\ \A i \in 1..Len(todo) : todo[i] = Stores[StoredTo + i]

(* What it has stored is in the page.                                      *)
Stored ==
  todo # <<>> => \A i \in 1..StoredTo :
    /\ Stores[i] = "prof" => page.prof = request.prof \/ "prof" \in spoiled
    /\ Stores[i] = "pg" => page.pg = request.value
    /\ Stores[i] \in Bands => page.eq[Stores[i]] = request.value

(* The page holds what was asked for.                                      *)
Settled(x) == x \notin spoiled /\ ~Writing(x)
PageIsWanted ==
  /\ Settled("prof") => page.prof = want.prof
  /\ Settled("eq") => page.eq = want.eq
  /\ Settled("pg") => page.pg = want.pg

(* Generations follow each other from the requests to the engine.          *)
InFlight(kind) == IF request.kind = kind THEN 1 ELSE 0
Copying == eng.pc \in {"copy", "postgain", "main"}
Generations ==
  /\ served.req \in 0..page.ack /\ served.pg \in 0..page.pgAck
  /\ Copying => snap.req \in page.ack..page.req /\ snap.pgReq \in page.pgAck..page.pgReq
  /\ page.req + InFlight("main") <= counts.req
  /\ page.pgReq + InFlight("pg") <= counts.pg

(* A copy of the newest generation has of each word it has copied what was *)
(* asked for.                                                              *)
CopyIsWanted ==
  /\ eng.pc \in {"postgain", "main"} => snap.left = {}
  /\ Copying /\ snap.req = page.req =>
       /\ "prof" \notin snap.left /\ Settled("prof") => snap.prof = want.prof
       /\ "flag" \notin snap.left /\ Settled("eq") => snap.flag = page.flag
       /\ \A b \in Bands \ snap.left : Settled("eq") => snap.eq[b] = want.eq[b]
  /\ Copying /\ snap.pgReq = page.pgReq /\ "pg" \notin snap.left /\ Settled("pg")
       => snap.pg = want.pg

(* So has the engine that has applied it.                                  *)
EngineIsWanted ==
  /\ eng.pc # "off" /\ served.req = page.req /\ page.req > 0 =>
       /\ Settled("prof") => eng.prof = want.prof
       /\ Settled("eq") /\ page.flag => eng.eq = want.eq
       /\ Settled("prof") /\ Settled("eq") /\ page.flag /\ want.prof = "custom"
            => eng.geq = want.eq
  /\ eng.pc # "off" /\ served.pg = page.pgReq /\ page.pgReq > 0 /\ Settled("pg")
       => eng.pg = want.pg

IInv == /\ TypeOK /\ InOrder /\ Stored /\ PageIsWanted /\ Generations
        /\ CopyIsWanted /\ EngineIsWanted

-----------------------------------------------------------------------------
(* What comments and documents say and the code does not keep.             *)

(* control_page.c: the generation is sampled twice "so readers do not      *)
(* report a payload spanning two requests".                                *)
NeverTwoRequests == \A b, c \in Bands : eng.eq[b] = eng.eq[c]

(* chain_control_open: "Never overwrite a genuinely queued profile/GEQ     *)
(* request."                                                               *)
StartKeepsQueued ==
  Running /\ todo = <<>> /\ served.req = page.req /\ page.req > 0
    => eng.prof = want.prof

(* The application's "generation n applied": it sees no error, a live      *)
(* engine and nothing pending (the cold start's unlocked store aside).     *)
SaysApplied == ~page.err /\ page.live /\ page.req = page.ack /\ page.ack > 0
AppliedIsTrue ==
  SaysApplied /\ Running /\ todo = <<>> /\ "prof" \notin spoiled
    => eng.prof = want.prof

(* CONTROL-APP.md: explicit live/idle status, so that a bypass cannot      *)
(* masquerade as an applied preset.                                        *)
AppliedNeedsEngine == SaysApplied => eng.pc # "off"
=============================================================================
