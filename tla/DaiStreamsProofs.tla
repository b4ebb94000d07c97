---------------------------- MODULE DaiStreamsProofs ---------------------------
\* Theorems about DaiStreams, for rings of any number of periods and
\* fragments of any length, and any bounds: what is heard, read, pulled or
\* decoded is the stream, the pointer counts what came back, and a drain
\* with something to send ends.
EXTENDS DaiStreams, SequenceTheorems, TLAPS

-----------------------------------------------------------------------------
\* Rings of numbers.

LEMMA DivMod ==
  ASSUME NEW a \in Int, NEW m \in Nat \ {0}
  PROVE  a \div m \in Int /\ a % m \in 0 .. m - 1 /\ a = (a \div m) * m + (a % m)
OBVIOUS

LEMMA Distributed ==
  ASSUME NEW a \in Int, NEW b \in Int, NEW c \in Int
  PROVE  /\ (a + b) * c = a * c + b * c /\ (a - b) * c = a * c - b * c
         /\ \A d \in Int : (a * d) * c = a * (d * c)
         /\ a * c \in Int /\ (a \in Nat /\ c \in Nat => a * c \in Nat)
OBVIOUS

LEMMA Divided ==
  ASSUME NEW a \in Int, NEW m \in Nat \ {0}
  PROVE  \E q \in Int, r \in 0 .. m - 1 : q = a \div m /\ r = a % m /\ a = q * m + r
OBVIOUS

LEMMA DivModIs ==
  ASSUME NEW a \in Int, NEW m \in Nat \ {0}, NEW q \in Int, NEW r \in 0 .. m - 1, a = q * m + r
  PROVE  a \div m = q /\ a % m = r
OBVIOUS

LEMMA ModSame ==
  ASSUME NEW a \in Int, NEW m \in Nat \ {0}, NEW k \in Int
  PROVE  (a + k * m) % m = a % m
  <1>1. PICK q \in Int, r \in 0 .. m - 1 : q = a \div m /\ r = a % m /\ a = q * m + r
    BY Divided
  <1>2. PICK c \in Int : c = a + k * m
    OBVIOUS
  <1>3. q + k \in Int /\ c = (q + k) * m + r
    BY <1>1, <1>2
  <1>4. c % m = r
    BY <1>3, DivModIs
  <1> QED BY <1>1, <1>2, <1>4

\* Two numbers less than a round apart at the same place are the same.
LEMMA SamePlace ==
  ASSUME NEW a \in Int, NEW b \in Int, NEW m \in Nat \ {0}, a % m = b % m, a - b < m, b - a < m
  PROVE  a = b
  <1>1. PICK q \in Int, r \in 0 .. m - 1 : q = a \div m /\ r = a % m /\ a = q * m + r
    BY Divided
  <1>2. PICK s \in Int, u \in 0 .. m - 1 : s = b \div m /\ u = b % m /\ b = s * m + u
    BY Divided
  <1>3. a - b = (q - s) * m
    BY <1>1, <1>2
  <1>4. PICK d \in Int : d = q - s
    OBVIOUS
  <1>5. d * m < m /\ -m < d * m
    BY <1>3, <1>4
  <1>6. d = 0
    BY <1>5
  <1> QED BY <1>3, <1>4, <1>6

LEMMA ModStep ==
  ASSUME NEW a \in Int, NEW b \in Int, NEW m \in Nat \ {0}
  PROVE  ((a % m) + b) % m = (a + b) % m
  <1>1. PICK q \in Int, r \in 0 .. m - 1 : q = a \div m /\ r = a % m /\ a = q * m + r
    BY Divided
  <1>0. PICK c \in Int : c = r + b
    OBVIOUS
  <1>2. (c + q * m) % m = c % m
    BY ModSame
  <1>3. c + q * m = a + b
    BY <1>0, <1>1
  <1> QED BY <1>0, <1>1, <1>2, <1>3

LEMMA ModSmall ==
  ASSUME NEW m \in Nat \ {0}, NEW r \in 0 .. m - 1
  PROVE  r % m = r
BY DivModIs

LEMMA SizeIs == /\ N \in Nat /\ P \in Nat /\ N > 1 /\ P > 1
                /\ Size \in Nat \ {0} /\ Size = N * P /\ 2 * P <= Size
  <1>1. N \in Nat /\ P \in Nat /\ N > 1 /\ P > 1
    BY RingAssumption
  <1>2. N * P \in Nat /\ 2 * P <= N * P
    BY <1>1
  <1> QED BY <1>1, <1>2 DEF Size

LEMMA RoundIs == N \in Nat \ {0} /\ P \in Nat \ {0} /\ Size \in Nat \ {0}
BY SizeIs

LEMMA RoundStep ==
  ASSUME NEW a \in Int, NEW b \in Int, NEW r, r = a % N
  PROVE  (r + b) % N = (a + b) % N
BY RoundIs, ModStep, Zenon

\* The j-th frame of period x is the j-th of the buffer in which it is.
LEMMA PlaceIs ==
  ASSUME NEW x \in Int, NEW j \in 0 .. P - 1
  PROVE  /\ (x % N) * P + j = (x * P + j) % Size
         /\ (x * P + j) % Size \in 0 .. Size - 1
  <1>1. PICK q \in Int, r \in 0 .. N - 1 : q = x \div N /\ r = x % N /\ x = q * N + r
    BY Divided, SizeIs
  <1>2. x * P = q * (N * P) + r * P
    <2>1. q * N \in Int /\ (q * N + r) * P = (q * N) * P + r * P /\ (q * N) * P = q * (N * P)
      BY SizeIs, Distributed
    <2> QED BY <1>1, <2>1
  <1>3. r * P + j \in 0 .. N * P - 1
    <2>1. r * P <= (N - 1) * P
      BY SizeIs
    <2>2. r * P \in Nat /\ (N - 1) * P = N * P - P
      BY SizeIs
    <2> QED BY <2>1, <2>2, SizeIs
  <1>4. PICK f \in Int : f = x * P + j
    BY SizeIs
  <1>5. PICK S \in Nat \ {0} : S = Size /\ S = N * P
    BY SizeIs
  <1>6. PICK p \in 0 .. S - 1 : p = r * P + j
    BY <1>3, <1>5
  <1>7. f = q * S + p
    BY <1>2, <1>4, <1>5, <1>6, SizeIs
  <1>8. f % S = p
    BY <1>7, DivModIs
  <1> QED BY <1>1, <1>4, <1>5, <1>6, <1>8

\* A period's place in the ring.
LEMMA PeriodIs ==
  ASSUME NEW f \in Int
  PROVE  /\ f \div P \in Int /\ f = (f \div P) * P + (f % P) /\ f % P \in 0 .. P - 1
         /\ (f % Size) \div P = (f \div P) % N
  <1>1. PICK x \in Int, j \in 0 .. P - 1 : x = f \div P /\ j = f % P /\ f = x * P + j
    BY Divided, SizeIs
  <1>2. PICK y \in Int : y = x % N
    BY DivMod, SizeIs
  <1>3. PICK g \in Int : g = f % Size
    BY DivMod, SizeIs
  <1>4. g = y * P + j
    BY <1>1, <1>2, <1>3, PlaceIs
  <1>5. g \div P = y
    BY <1>4, DivModIs, SizeIs
  <1> QED BY <1>1, <1>2, <1>3, <1>5

-----------------------------------------------------------------------------
\* ALSA's view of the ring.

\* Of the frames written last, one ring full, each is at its place.
LEMMA ContentIs ==
  ASSUME appl \in Nat, NEW f \in Nat, f < appl, appl <= f + Size
  PROVE  Content(f % Size) = f
  <1>1. PICK S \in Nat \ {0} : S = Size
    BY SizeIs
  <1>2. PICK q \in Int, r \in 0 .. S - 1 : q = appl \div S /\ r = appl % S /\ appl = q * S + r
    BY Divided
  <1>3. PICK k \in Int, p \in 0 .. S - 1 : k = f \div S /\ p = f % S /\ f = k * S + p
    BY Divided
  <1>7. PICK lap \in Int : lap = q * S + p
    OBVIOUS
  <1>8. appl - (appl % Size) + (f % Size) = lap
    BY <1>1, <1>2, <1>3, <1>7
  <1>9. lap - f = (q - k) * S
    <2>1. q * S \in Int /\ k * S \in Int /\ (q - k) * S = q * S - k * S
      BY Distributed
    <2> QED BY <1>3, <1>7, <2>1
  <1>10. PICK d \in Int : d = q - k
    OBVIOUS
  <1>11. lap - f = d * S
    BY <1>9, <1>10
  <1>12. CASE lap < appl
    <2>1. lap - f < S /\ f - lap < S
      BY <1>1, <1>2, <1>3, <1>7, <1>12
    <2>2. d * S < S /\ -S < d * S
      BY <1>11, <2>1
    <2>3. d = 0
      BY <2>2
    <2>4. lap = f
      BY <1>11, <2>3
    <2> QED BY <1>1, <1>3, <1>8, <1>12, <2>4 DEF Content
  <1>13. CASE lap >= appl
    <2>1. lap - f > 0 /\ lap - f < 2 * S
      BY <1>1, <1>2, <1>3, <1>7, <1>13
    <2>2. 0 < d * S /\ d * S < 2 * S
      BY <1>11, <2>1
    <2>3. d = 1
      BY <2>2
    <2>4. lap - S = f
      BY <1>11, <2>3
    <2> QED BY <1>1, <1>3, <1>8, <1>13, <2>4 DEF Content
  <1> QED BY <1>12, <1>13, SizeIs

\* The pointer is taken to the next frame that is at the place.
LEMMA OnwardIs ==
  ASSUME hw \in Nat, NEW at \in 0 .. Size - 1
  PROVE  /\ Onward(at) \in Nat /\ hw <= Onward(at) /\ Onward(at) < hw + Size
         /\ Onward(at) % Size = at
  <1>1. PICK S \in Nat \ {0} : S = Size
    BY SizeIs
  <1>2. PICK q \in Int, r \in 0 .. S - 1 : q = hw \div S /\ r = hw % S /\ hw = q * S + r
    BY Divided
  <1>5. PICK lap \in Int : lap = q * S
    OBVIOUS
  <1>6. hw - (hw % Size) = lap
    BY <1>1, <1>2, <1>5
  <1>7. Onward(at) = IF lap + at < hw THEN lap + S + at ELSE lap + at
    BY <1>1, <1>6 DEF Onward
  <1>8. hw <= Onward(at) /\ Onward(at) < hw + S /\ Onward(at) \in Int
    BY <1>1, <1>2, <1>5, <1>7
  <1>9. Onward(at) = q * S + at \/ Onward(at) = (q + 1) * S + at
    BY <1>1, <1>5, <1>7
  <1>10. Onward(at) % S = at
    <2>1. PICK o \in Int : o = Onward(at)
      BY <1>8
    <2>2. PICK k \in {q, q + 1} : o = k * S + at
      BY <1>9, <2>1
    <2> QED BY <1>1, <2>1, <2>2, DivModIs
  <1> QED BY <1>1, <1>8, <1>10

LEMMA OnwardTo ==
  ASSUME hw \in Nat, NEW t \in Int, hw <= t, t < hw + Size
  PROVE  Onward(t % Size) = t
  <1>1. t % Size \in 0 .. Size - 1
    BY DivMod, SizeIs
  <1>2. PICK o \in Nat : o = Onward(t % Size)
    BY <1>1, OnwardIs
  <1>3. hw <= o /\ o < hw + Size /\ o % Size = t % Size
    BY <1>1, <1>2, OnwardIs
  <1>4. o = t
    <2>1. o - t < Size /\ t - o < Size
      BY <1>3, SizeIs
    <2>2. Size \in Nat \ {0} /\ o \in Int
      BY SizeIs
    <2> QED BY <1>3, <2>1, <2>2, SamePlace
  <1> QED BY <1>2, <1>4

-----------------------------------------------------------------------------
\* The inductive invariant.
\* 
\* The rings of both directions: while a life is clean, buffers go round
\* in turn.  The DSP has the next ones after those it has played or
\* recorded, the callback gets those after the ones that came back, and
\* the pointer names the last of these.
Given == played + Len(dspq)
InTurn ==
  /\ back + Len(rxq) = played
  /\ dspBuf = Given % N
  /\ \A i \in 1 .. Len(dspq) : dspq[i] = (played + i - 1) % N
  /\ \A i \in 1 .. Len(rxq) : rxq[i] = (back + i - 1) % N
  /\ hwPtr = IF back = 0 THEN 0 ELSE ((back - 1) % N) + 1

RingTypes ==
  /\ {appl, hw, queuePtr, played, back, lives} \subseteq Nat /\ first \in Int
  /\ dspBuf \in 0 .. N - 1 /\ hwPtr \in 0 .. N
  /\ dspq \in Seq(0 .. N - 1) /\ rxq \in Seq(0 .. N - 1)
  /\ elapsing \in BOOLEAN /\ clean \in BOOLEAN

\* Playback: every whole period written has been handed over, the pointer
\* is behind what came back, the application less than a ring ahead of it.
AllGiven == Given * P <= appl /\ appl < (Given + 1) * P
Written ==
  /\ appl <= hw + Size /\ AllGiven
  /\ alsa \in {"PREPARED", "RUNNING", "PAUSED", "DRAINING"} => queuePtr = Given * P
  /\ IF back = 0 THEN hw = 0 ELSE hw < back * P

PlaybackInv ==
  /\ RingTypes /\ first = 0 /\ alsa # "PREPARING"
  /\ clean => InTurn /\ Written

\* Capture: where the pointer of a callback that is through is, and how
\* far behind it ALSA's may be that has looked since it was blind.
Due == IF back = 0 THEN 0 ELSE (back - first) * P - 1
Lag == IF elapsing THEN P ELSE 0
Looked ==
  /\ first \in Nat /\ first % N = 0 /\ hw <= Due
  /\ back = 0 => first = 0
  /\ alsa = "RUNNING" /\ ~blind => Due - hw <= Lag
  /\ alsa \in {"PREPARING", "PREPARED", "PAUSED"} => blind

\* The last round of the ring is on the tape; every buffer is somewhere:
\* with the DSP, on its way, or the callback's.
AtMostOne == elapsing \in BOOLEAN /\ again \in BOOLEAN /\ ~(elapsing /\ again)
Called == IF elapsing \/ again THEN 1 ELSE 0
Taped == \A p \in Nat : played - N <= p /\ p < played => tape[p % N] = p
Around == Len(dspq) + Len(rxq) + Called
AllAround == ~missed /\ alsa \in {"PREPARING", "PREPARED", "RUNNING", "PAUSED"} => Around = N

CaptureInv ==
  /\ RingTypes /\ again \in BOOLEAN /\ missed \in BOOLEAN /\ blind \in BOOLEAN
  /\ alsa \in {"OPEN", "PREPARING", "PREPARED", "RUNNING", "PAUSED", "XRUN", "SETUP"}
  /\ tape \in [0 .. N - 1 -> Int]
  /\ ~(elapsing /\ again)
  /\ alsa \in {"PREPARED", "RUNNING", "PAUSED"} => state = "running"
  /\ clean => InTurn /\ Looked /\ Taped /\ AllAround

\* Pull: ALSA's frames are the DSP's, up to whole rings, its pointer is
\* behind, and an index that was read is of a moment since the last look.
Seen(n) == hw + origin <= n /\ n <= pulled /\ look.index = n % Size
PullInv ==
  /\ {appl, hw, pulled} \subseteq Nat /\ hwPtr \in 0 .. Size - 1 /\ origin \in Int
  /\ page \in [counter : Nat, index : Nat] /\ page.index = pulled % Size
  /\ look \in [at : {"idle", "index", "after"}, before : Nat, index : 0 .. Size - 1, tries : Int]
  /\ blind \in BOOLEAN
  /\ look.at # "idle" => alsa = "RUNNING"
  /\ alsa \in {"PREPARED", "PAUSED"} => blind
  /\ appl <= hw + Size
  /\ ~blind => /\ origin % Size = 0 /\ hw % Size = hwPtr
               /\ hw + origin <= pulled
               /\ look.at = "after" => \E n \in Int : Seen(n)

\* Compressed: a drain that is not in vain has its end-of-stream on the
\* way, or a fragment that will come back and send what is left.
Item == [buf : Int, len : Nat]
HasEos(s) == \E i \in 1 .. Len(s) : s[i] = Compr!Eos

ComprTypes ==
  /\ {total, received, sent, copied, heard} \subseteq Nat /\ copying \in {0, 1, F}
  /\ fragment \in 0 .. Fragments - 1 /\ decoder \in Seq(Item) /\ done \in Seq(Item)
  /\ {active, nextTrack, notify, fed, vain} \subseteq BOOLEAN

Comes ==
  \/ HasEos(decoder) \/ HasEos(done)
  \/ active /\ sent < received /\ (decoder # <<>> \/ done # <<>>)
DrainInv ==
  /\ sent <= received
  /\ cstate = "DRAINING" => notify /\ copying = 0
  /\ cstate = "DRAINING" /\ ~vain => Comes

\* While what was handed over is what was written, the decoder has the
\* next fragments after those heard, what came back is counted, and the
\* application is not a ring ahead.
InLine ==
  \A i \in 1 .. Len(decoder) :
    IF decoder[i] = Compr!Eos THEN i = Len(decoder) /\ notify /\ sent = received
    ELSE decoder[i] = [buf |-> (heard + i - 1) % Fragments, len |-> F]
Returned ==
  \A i \in 1 .. Len(done) :
    IF done[i] = Compr!Eos THEN i = Len(done) /\ decoder = <<>> /\ notify /\ sent = received
    ELSE done[i].len = F
Counted ==
  /\ total = received /\ received % F = 0
  /\ Compr!HandedOver <= received
  /\ copied = (heard - Compr!Outstanding(done)) * F
  /\ fragment = (heard + Compr!Outstanding(decoder)) % Fragments
  /\ (received + copying) - heard * F <= Compr!RingUnits
Fed == (notify => cstate = "DRAINING") /\ Counted /\ InLine /\ Returned

ComprInv == ComprTypes /\ DrainInv /\ (fed => Fed)

StreamsInv ==
  /\ dir \in {"playback", "capture", "pull", "compressed"}
  /\ dir = "playback" => PlaybackInv
  /\ dir = "capture" => CaptureInv
  /\ dir = "pull" => PullInv
  /\ dir = "compressed" => ComprInv /\ hw = 0

-----------------------------------------------------------------------------
\* The queues of a ring.

LEMMA Mono ==
  ASSUME NEW a \in Int, NEW b \in Int, NEW c \in Nat, a <= b
  PROVE  a * c <= b * c
OBVIOUS

LEMMA Types ==
  ASSUME RingTypes
  PROVE  /\ appl \in Nat /\ hw \in Nat /\ queuePtr \in Nat /\ played \in Nat /\ back \in Nat
         /\ lives \in Nat /\ first \in Int /\ dspBuf \in 0 .. N - 1 /\ hwPtr \in 0 .. N
         /\ dspq \in Seq(0 .. N - 1) /\ rxq \in Seq(0 .. N - 1)
         /\ Len(dspq) \in Nat /\ Len(rxq) \in Nat
         /\ elapsing \in BOOLEAN /\ clean \in BOOLEAN
  <1>1. dspq \in Seq(0 .. N - 1) /\ rxq \in Seq(0 .. N - 1)
    BY DEF RingTypes
  <1> QED BY <1>1, LenProperties DEF RingTypes

LEMMA Appended ==
  ASSUME NEW S, NEW s \in Seq(S), NEW x \in S
  PROVE  /\ Append(s, x) \in Seq(S) /\ Len(s) \in Nat /\ Len(Append(s, x)) = Len(s) + 1
         /\ \A i \in 1 .. Len(s) : Append(s, x)[i] = s[i]
         /\ Append(s, x)[Len(s) + 1] = x /\ Append(s, x) # <<>>
BY AppendProperties

LEMMA Popped ==
  ASSUME NEW S, NEW s \in Seq(S), s # <<>>
  PROVE  /\ Tail(s) \in Seq(S) /\ Len(s) \in Nat \ {0} /\ Len(Tail(s)) = Len(s) - 1
         /\ Head(s) = s[1] /\ s[1] \in S
         /\ \A i \in 1 .. Len(s) - 1 : Tail(s)[i] = s[i + 1]
BY HeadTailProperties

LEMMA EmptyIs ==
  ASSUME NEW S, NEW s \in Seq(S)
  PROVE  Len(s) \in Nat /\ (s = <<>> <=> Len(s) = 0) /\ \A i \in 1 .. Len(s) : s[i] \in S
OBVIOUS

LEMMA PartIs ==
  ASSUME NEW S, NEW s \in Seq(S), NEW i \in 1 .. Len(s) + 1
  PROVE  SubSeq(s, i, Len(s)) \in Seq(S)
  <1>1. Len(s) \in Nat /\ i \in 1 .. Len(s) + 1 /\ Len(s) \in i - 1 .. Len(s)
    BY LenProperties
  <1> QED BY <1>1, SubSeqProperties

LEMMA GivenIs ==
  ASSUME RingTypes
  PROVE  Given \in Nat /\ played <= Given
BY Types DEF Given

\* The DSP is done with a buffer.
LEMMA PlayTurns ==
  ASSUME RingTypes, InTurn, dspq # <<>>, dspq' = Tail(dspq), rxq' = Append(rxq, Head(dspq)),
         played' = played + 1, UNCHANGED <<back, dspBuf, hwPtr>>
  PROVE  InTurn' /\ Given' = Given /\ Head(dspq) = played % N /\ Head(dspq) \in 0 .. N - 1
  <1>1. /\ Len(dspq) \in Nat \ {0} /\ Len(dspq') = Len(dspq) - 1
        /\ Head(dspq) = dspq[1] /\ dspq[1] \in 0 .. N - 1
        /\ \A i \in 1 .. Len(dspq) - 1 : dspq'[i] = dspq[i + 1]
    BY Types, Popped
  <1>2. /\ Len(rxq) \in Nat /\ Len(rxq') = Len(rxq) + 1
        /\ \A i \in 1 .. Len(rxq) : rxq'[i] = rxq[i]
        /\ rxq'[Len(rxq) + 1] = dspq[1]
    BY <1>1, Types, Appended
  <1>3. dspq[1] = played % N
    <2>1. played + 1 - 1 = played
      BY Types
    <2> QED BY <1>1, <2>1 DEF InTurn
  <1>4. Given' = Given
    BY <1>1, Types DEF Given
  <1>5. back' + Len(rxq') = played' /\ dspBuf' = Given' % N
    BY <1>2, <1>4, Types DEF InTurn
  <1>6. ASSUME NEW i \in 1 .. Len(dspq') PROVE dspq'[i] = (played' + i - 1) % N
    <2>1. i + 1 \in 1 .. Len(dspq) /\ dspq'[i] = dspq[i + 1]
      BY <1>1
    <2>2. played' + i - 1 = played + (i + 1) - 1
      BY Types
    <2> QED BY <2>1, <2>2 DEF InTurn
  <1>7. ASSUME NEW i \in 1 .. Len(rxq') PROVE rxq'[i] = (back' + i - 1) % N
    <2>1. CASE i \in 1 .. Len(rxq)
      BY <1>2, <2>1 DEF InTurn
    <2>2. CASE i = Len(rxq) + 1
      <3>1. back' + i - 1 = played
        BY <1>2, <2>2, Types DEF InTurn
      <3> QED BY <1>2, <1>3, <2>2, <3>1
    <2> QED BY <1>2, <2>1, <2>2
  <1>8. hwPtr' = IF back' = 0 THEN 0 ELSE ((back' - 1) % N) + 1
    BY DEF InTurn
  <1>9. InTurn'
    BY <1>5, <1>6, <1>7, <1>8 DEF InTurn
  <1> QED BY <1>1, <1>3, <1>4, <1>9

\* The callback has it.
LEMMA BackTurns ==
  ASSUME RingTypes, InTurn, rxq # <<>>, hwPtr' = Head(rxq) + 1, rxq' = Tail(rxq),
         back' = back + 1, UNCHANGED <<played, dspBuf, dspq>>
  PROVE  InTurn' /\ Given' = Given /\ hwPtr' \in 0 .. N /\ back' <= played'
  <1>1. /\ Len(rxq) \in Nat \ {0} /\ Len(rxq') = Len(rxq) - 1
        /\ Head(rxq) = rxq[1] /\ rxq[1] \in 0 .. N - 1
        /\ \A i \in 1 .. Len(rxq) - 1 : rxq'[i] = rxq[i + 1]
    BY Types, Popped
  <1>2. rxq[1] = back % N /\ back' - 1 = back /\ back' # 0
    <2>1. back + 1 - 1 = back
      BY Types
    <2>2. 1 \in 1 .. Len(rxq) /\ back \in Nat
      BY <1>1, Types
    <2> QED BY <2>1, <2>2 DEF InTurn
  <1>3. Given' = Given
    BY DEF Given
  <1>4. back' + Len(rxq') = played' /\ dspBuf' = Given' % N
    BY <1>1, <1>3, Types DEF InTurn
  <1>5. ASSUME NEW i \in 1 .. Len(rxq') PROVE rxq'[i] = (back' + i - 1) % N
    <2>1. i + 1 \in 1 .. Len(rxq) /\ rxq'[i] = rxq[i + 1]
      BY <1>1
    <2>2. back' + i - 1 = back + (i + 1) - 1
      BY Types
    <2> QED BY <2>1, <2>2 DEF InTurn
  <1>6. hwPtr' = IF back' = 0 THEN 0 ELSE ((back' - 1) % N) + 1
    BY <1>1, <1>2
  <1>7. InTurn'
    BY <1>4, <1>5, <1>6 DEF InTurn
  <1>8. hwPtr' \in 0 .. N
    BY <1>1, SizeIs
  <1>9. back' <= played'
    BY <1>1, <1>4, Types
  <1> QED BY <1>3, <1>7, <1>8, <1>9

\* Some more are handed over.
LEMMA MoreTurns ==
  ASSUME RingTypes, InTurn, NEW m \in Nat,
         dspq' = dspq \o [i \in 1 .. m |-> (dspBuf + i - 1) % N], dspBuf' = (dspBuf + m) % N,
         UNCHANGED <<played, back, rxq, hwPtr>>
  PROVE  InTurn' /\ Given' = Given + m
  <1>1. PICK more : more = [i \in 1 .. m |-> (dspBuf + i - 1) % N]
    OBVIOUS
  <1>2. PICK l \in Nat : l = Len(dspq)
    BY Types
  <1>3. PICK g \in Nat : g = Given /\ g = played + l
    BY <1>2, Types DEF Given
  <1>4. dspBuf = g % N /\ dspBuf \in 0 .. N - 1 /\ played \in Nat
    BY <1>3, Types DEF InTurn
  <1>5. more \in Seq(0 .. N - 1) /\ Len(more) = m
    <2>1. ASSUME NEW i \in 1 .. m PROVE (dspBuf + i - 1) % N \in 0 .. N - 1
      <3>1. dspBuf + i - 1 \in Int
        BY <1>4, SizeIs
      <3>2. PICK k \in Int : k = dspBuf + i - 1
        BY <3>1
      <3>3. k % N \in 0 .. N - 1
        BY RoundIs, DivMod
      <3> QED BY <3>2, <3>3
    <2> QED BY <1>1, <2>1
  <1>6. /\ Len(dspq') = l + m
        /\ \A i \in 1 .. l + m : dspq'[i] = IF i <= l THEN dspq[i] ELSE more[i - l]
    <2>1. dspq \in Seq(0 .. N - 1)
      BY Types
    <2> QED BY <1>1, <1>2, <1>5, <2>1, ConcatProperties
  <1>7. Given' = g + m
    <2>1. Given' = played + (l + m)
      BY <1>6 DEF Given
    <2> QED BY <1>3, <1>4, <2>1
  <1>8. dspBuf' = Given' % N
    <2>1. (dspBuf + m) % N = (g + m) % N
      BY <1>4, RoundStep
    <2> QED BY <1>4, <1>7, <2>1
  <1>9. ASSUME NEW i \in 1 .. Len(dspq') PROVE dspq'[i] = (played' + i - 1) % N
    <2>1. CASE i <= l
      BY <1>2, <1>6, <2>1 DEF InTurn
    <2>2. CASE i > l
      <3>1. PICK j \in 1 .. m : j = i - l
        BY <1>6, <2>2
      <3>2. dspq'[i] = more[j]
        BY <1>6, <2>2, <3>1
      <3>3. PICK k \in Int : k = j - 1
        OBVIOUS
      <3>4. more[j] = (dspBuf + k) % N
        <4>1. dspBuf + j - 1 = dspBuf + k
          BY <1>4, <3>3
        <4> QED BY <1>1, <4>1
      <3>5. (dspBuf + k) % N = (g + k) % N
        BY <1>4, RoundStep
      <3>6. g + k = played' + i - 1
        BY <1>3, <1>4, <3>1, <3>3
      <3> QED BY <3>2, <3>4, <3>5, <3>6
    <2> QED BY <1>6, <2>1, <2>2
  <1>10. InTurn'
    BY <1>8, <1>9 DEF InTurn
  <1> QED BY <1>3, <1>7, <1>10

\* ... or one.
LEMMA OneMoreTurns ==
  ASSUME RingTypes, InTurn, dspq' = Append(dspq, dspBuf), dspBuf' = (dspBuf + 1) % N,
         UNCHANGED <<played, back, rxq, hwPtr>>
  PROVE  InTurn' /\ Given' = Given + 1
  <1>1. /\ Len(dspq) \in Nat /\ Len(dspq') = Len(dspq) + 1
        /\ \A i \in 1 .. Len(dspq) : dspq'[i] = dspq[i]
        /\ dspq'[Len(dspq) + 1] = dspBuf
    BY Types, Appended
  <1>2. PICK g \in Nat : g = Given /\ g = played + Len(dspq)
    BY Types DEF Given
  <1>3. Given' = g + 1
    <2>1. Given' = played + (Len(dspq) + 1)
      BY <1>1 DEF Given
    <2>2. played \in Nat
      BY Types
    <2> QED BY <1>1, <1>2, <2>1, <2>2
  <1>4. dspBuf' = Given' % N
    <2>0. dspBuf = g % N
      BY <1>2 DEF InTurn
    <2>1. (dspBuf + 1) % N = (g + 1) % N
      BY <2>0, RoundStep
    <2> QED BY <1>2, <1>3, <2>1 DEF InTurn
  <1>5. ASSUME NEW i \in 1 .. Len(dspq') PROVE dspq'[i] = (played' + i - 1) % N
    <2>1. CASE i \in 1 .. Len(dspq)
      BY <1>1, <2>1 DEF InTurn
    <2>2. CASE i = Len(dspq) + 1
      <3>1. played' + i - 1 = g
        BY <1>2, <2>2, Types
      <3> QED BY <1>1, <1>2, <2>2, <3>1 DEF InTurn
    <2> QED BY <1>1, <2>1, <2>2
  <1>6. InTurn'
    BY <1>4, <1>5 DEF InTurn
  <1> QED BY <1>2, <1>3, <1>6

\* The position q6apm_dai_pointer gives.
LEMMA PositionIs ==
  ASSUME hwPtr \in 0 .. N
  PROVE  Position \in 0 .. Size - 1
  <1>1. CASE hwPtr = 0
    BY <1>1, SizeIs DEF Position
  <1>2. CASE hwPtr # 0
    <2>1. 1 * P <= hwPtr * P /\ hwPtr * P <= N * P
      BY <1>2, Mono, SizeIs
    <2>2. hwPtr * P \in Int
      BY SizeIs
    <2> QED BY <1>2, <2>1, <2>2, SizeIs DEF Position
  <1> QED BY <1>1, <1>2

LEMMA PositionInTurn ==
  ASSUME RingTypes, InTurn
  PROVE  /\ back = 0 => Position = 0
         /\ back # 0 => Position = (back * P - 1) % Size
  <1>1. CASE back = 0
    BY <1>1 DEF InTurn, Position
  <1>2. CASE back # 0
    <2>1. PICK b \in Nat : b = back - 1
      BY <1>2, Types
    <2>2. PICK r \in 0 .. N - 1 : r = b % N
      BY DivMod, SizeIs
    <2>3. hwPtr = r + 1
      BY <1>2, <2>1, <2>2 DEF InTurn
    <2>4. (r + 1) * P = r * P + P /\ (b + 1) * P = b * P + P /\ r * P \in Int /\ b * P \in Int
      BY Distributed, SizeIs
    <2>5. Position = r * P + (P - 1)
      BY <2>3, <2>4, SizeIs DEF Position
    <2>6. back * P - 1 = b * P + (P - 1)
      <3>1. back = b + 1
        BY <2>1, Types
      <3>2. back * P = b * P + P
        BY <2>4, <3>1
      <3> QED BY <2>4, <3>2, SizeIs
    <2>7. r * P + (P - 1) = (b * P + (P - 1)) % Size
      <3>1. P - 1 \in 0 .. P - 1
        BY SizeIs
      <3> QED BY <2>2, <3>1, PlaceIs
    <2> QED BY <1>2, <2>5, <2>6, <2>7
  <1> QED BY <1>1, <1>2

-----------------------------------------------------------------------------
\* Playback.

LEMMA WholeIs ==
  ASSUME NEW g \in Nat, NEW a \in Nat, queuePtr = g * P, g * P <= a
  PROVE  /\ Whole(a) \in Nat
         /\ (g + Whole(a)) * P <= a /\ a < (g + Whole(a) + 1) * P
  <1>1. g * P \in Nat /\ P \in Nat
    BY RoundIs
  <1>2. PICK d \in Nat : d = a - g * P
    BY <1>1
  <1>3. PICK w \in Int, r \in 0 .. P - 1 : w = d \div P /\ r = d % P /\ d = w * P + r
    BY RoundIs, Divided
  <1>4. Whole(a) = w
    BY <1>1, <1>2, <1>3 DEF Whole
  <1>5. w >= 0
    <2>1. SUFFICES ASSUME w <= -1 PROVE FALSE
      BY <1>3
    <2>2. w * P <= (-1) * P
      BY <2>1, <1>3, Mono, RoundIs
    <2> QED BY <2>2, <1>2, <1>3, RoundIs
  <1>6. /\ (g + w) * P = g * P + w * P /\ (g + w + 1) * P = (g + w) * P + 1 * P
        /\ w * P \in Int /\ g + w \in Int
    BY <1>3, Distributed, RoundIs
  <1>7. PICK x \in Int, y \in Int : x = g * P /\ y = w * P
    BY <1>1, <1>6
  <1>8. d = a - x /\ d = y + r /\ (g + w) * P = x + y /\ (g + w + 1) * P = x + y + P
    BY <1>1, <1>2, <1>3, <1>6, <1>7
  <1>9. x + y <= a /\ a < x + y + P
    BY <1>1, <1>7, <1>8
  <1>10. w \in Nat
    BY <1>3, <1>5
  <1> QED BY <1>4, <1>8, <1>9, <1>10

\* What ALSA learns.
LEMMA PlaybackReported ==
  ASSUME RingTypes, InTurn, Written
  PROVE  Reported = IF back = 0 THEN 0 ELSE back * P - 1
  <1>1. CASE back = 0
    <2>1. hw = 0 /\ 0 % Size = 0 /\ Position = 0
      BY <1>1, PositionInTurn, ModSmall, RoundIs DEF Written
    <2>2. Onward(0 % Size) = 0
      BY <2>1, OnwardTo, RoundIs
    <2> QED BY <1>1, <2>1, <2>2 DEF Reported
  <1>2. CASE back # 0
    <2>1. back <= Given /\ Given \in Nat /\ back \in Nat
      BY Types, GivenIs DEF InTurn
    <2>2. back * P <= Given * P /\ back * P \in Nat /\ Given * P \in Nat
      BY <2>1, Mono, RoundIs
    <2>3. PICK t \in Int : t = back * P - 1
      BY <2>2
    <2>4. Given * P <= appl /\ appl <= hw + Size /\ hw < back * P
      BY <1>2 DEF Written, AllGiven
    <2>0. hw \in Nat /\ appl \in Nat /\ Size \in Nat
      BY Types, RoundIs
    <2>5. hw <= t /\ t < hw + Size
      BY <2>0, <2>2, <2>3, <2>4
    <2>6. Position = t % Size
      BY <1>2, <2>3, PositionInTurn
    <2>7. Onward(t % Size) = t
      BY <2>5, OnwardTo, Types
    <2> QED BY <1>2, <2>3, <2>6, <2>7 DEF Reported
  <1> QED BY <1>1, <1>2

LEMMA ReportedType ==
  ASSUME RingTypes
  PROVE  Reported \in Nat /\ hw <= Reported
BY Types, PositionIs, OnwardIs DEF Reported

LEMMA PreparePlays ==
  ASSUME PlaybackInv, Prepare, UNCHANGED captureVars
  PROVE  PlaybackInv'
  <1>1. /\ appl' = 0 /\ hw' = 0 /\ dspBuf' = 0 /\ dspq' = <<>> /\ played' = 0 /\ back' = 0
        /\ lives' = lives + 1 /\ alsa' = "PREPARED" /\ UNCHANGED <<queuePtr, hwPtr, elapsing, first>>
        /\ clean' = (hwPtr = 0 /\ queuePtr = 0 /\ rxq' = <<>> /\ ~elapsing)
    BY DEF Prepare, captureVars
  <1>2. rxq' \in Seq(0 .. N - 1)
    <2>1. PICK s \in {rxq, rxq \o dspq}, i \in 1 .. Len(rxq) + Len(dspq) + 1 :
            i \in 1 .. Len(s) + 1 /\ rxq' = SubSeq(s, i, Len(s))
      <3>1. rxq \o dspq \in Seq(0 .. N - 1) /\ Len(rxq \o dspq) = Len(rxq) + Len(dspq)
        BY Types, ConcatProperties DEF PlaybackInv
      <3>2. Len(rxq) \in Nat /\ Len(dspq) \in Nat
        BY Types DEF PlaybackInv
      <3>3. PICK s \in {rxq, rxq \o dspq} : \E i \in 1 .. Len(s) + 1 : rxq' = SubSeq(s, i, Len(s))
        BY DEF Prepare
      <3>4. PICK i \in 1 .. Len(s) + 1 : rxq' = SubSeq(s, i, Len(s))
        BY <3>3
      <3>5. i \in 1 .. Len(rxq) + Len(dspq) + 1
        BY <3>1, <3>2, <3>3, <3>4
      <3> QED BY <3>3, <3>4, <3>5
    <2>2. s \in Seq(0 .. N - 1)
      BY Types, ConcatProperties DEF PlaybackInv
    <2> QED BY <2>1, <2>2, PartIs
  <1>3. <<>> \in Seq(0 .. N - 1) /\ Len(<<>>) = 0
    OBVIOUS
  <1>4. RingTypes'
    BY <1>1, <1>2, <1>3, SizeIs, Types DEF PlaybackInv, RingTypes
  <1>5. ASSUME clean' PROVE InTurn' /\ Written'
    <2>1. hwPtr' = 0 /\ queuePtr' = 0 /\ rxq' = <<>>
      BY <1>1, <1>5
    <2>2. Given' = 0
      BY <1>1, <1>3 DEF Given
    <2>3. 0 % N = 0 /\ 0 * P = 0 /\ (0 + 1) * P = P
      BY ModSmall, SizeIs
    <2>4. InTurn'
      BY <1>1, <1>3, <2>1, <2>2, <2>3 DEF InTurn
    <2>5. Written'
      BY <1>1, <2>1, <2>2, <2>3, SizeIs DEF Written, AllGiven
    <2> QED BY <2>4, <2>5
  <1> QED BY <1>1, <1>4, <1>5 DEF PlaybackInv

LEMMA HandOverTypes ==
  ASSUME RingTypes, NEW m \in Nat, HandOver(m)
  PROVE  dspq' \in Seq(0 .. N - 1) /\ queuePtr' = queuePtr + m * P /\ queuePtr' \in Nat
  <1>1. PICK more : more = [i \in 1 .. m |-> (dspBuf + i - 1) % N]
    OBVIOUS
  <1>2. ASSUME NEW i \in 1 .. m PROVE (dspBuf + i - 1) % N \in 0 .. N - 1
    <2>1. PICK k \in Int : k = dspBuf + i - 1
      BY Types
    <2>2. k % N \in 0 .. N - 1
      BY RoundIs, DivMod
    <2> QED BY <2>1, <2>2
  <1>3. more \in Seq(0 .. N - 1)
    BY <1>1, <1>2
  <1>4. dspq \o more \in Seq(0 .. N - 1)
    BY <1>3, Types, ConcatProperties
  <1>5. m * P \in Nat
    BY Distributed, RoundIs
  <1> QED BY <1>1, <1>4, <1>5, Types DEF HandOver

LEMMA WritePlays ==
  ASSUME PlaybackInv, NEW k \in 1 .. Size, Write(k), UNCHANGED captureVars
  PROVE  PlaybackInv'
  <1>1. /\ alsa \in {"PREPARED", "RUNNING", "PAUSED"} /\ k <= hw + Size - appl
        /\ appl' = appl + k /\ HandOver(Whole(appl + k)) /\ dspBuf' = (dspBuf + Whole(appl + k)) % N
        /\ UNCHANGED <<alsa, hw, hwPtr, elapsing, rxq, played, back, lives, clean, first>>
    BY DEF Write, MayWrite, history, captureVars
  <1>2. RingTypes
    BY DEF PlaybackInv
  <1>3. PICK a \in Nat : a = appl + k
    BY <1>2, Types, RoundIs
  <1>4. Whole(a) \in Nat
    <2>1. CASE a < queuePtr
      BY <2>1 DEF Whole
    <2>2. CASE a >= queuePtr
      <3>1. PICK d \in Nat : d = a - queuePtr
        BY <2>2, <1>2, Types
      <3>2. PICK w \in Int, r \in 0 .. P - 1 : w = d \div P /\ r = d % P /\ d = w * P + r
        BY RoundIs, Divided
      <3>3. w >= 0
        <4>1. SUFFICES ASSUME w <= -1 PROVE FALSE
          BY <3>2
        <4>2. w * P <= (-1) * P
          BY <4>1, <3>2, Mono, RoundIs
        <4> QED BY <4>2, <3>1, <3>2, RoundIs
      <3> QED BY <2>2, <1>2, <3>1, <3>2, <3>3, Types DEF Whole
    <2> QED BY <2>1, <2>2, <1>2, Types
  <1>5. PICK w \in Nat : w = Whole(a)
    BY <1>4
  <1>6. HandOver(w) /\ dspBuf' = (dspBuf + w) % N
    BY <1>1, <1>3, <1>5
  <1>7. dspBuf' \in 0 .. N - 1
    <2>1. PICK b \in Int : b = dspBuf + w
      BY <1>2, Types
    <2>2. b % N \in 0 .. N - 1
      BY RoundIs, DivMod
    <2> QED BY <1>6, <2>1, <2>2
  <1>8. dspq' \in Seq(0 .. N - 1) /\ queuePtr' = queuePtr + w * P /\ queuePtr' \in Nat
    BY <1>2, <1>6, HandOverTypes
  <1>9. RingTypes'
    BY <1>1, <1>2, <1>3, <1>7, <1>8, Types DEF RingTypes
  <1>10. ASSUME clean' PROVE InTurn' /\ Written'
    <2>1. clean /\ InTurn /\ Written
      BY <1>1, <1>10 DEF PlaybackInv
    <2>2. InTurn' /\ Given' = Given + w
      BY <1>1, <1>2, <1>6, <2>1, MoreTurns DEF HandOver
    <2>3. PICK g \in Nat : g = Given
      BY <1>2, GivenIs
    <2>4. queuePtr = g * P /\ g * P <= appl
      BY <1>1, <2>1, <2>3 DEF Written, AllGiven
    <2>5. g * P <= a
      BY <1>2, <1>3, <2>4, Types, RoundIs
    <2>6. (g + w) * P <= a /\ a < (g + w + 1) * P
      BY <1>5, <2>4, <2>5, WholeIs
    <2>7. (g + w) * P = g * P + w * P
      BY Distributed, RoundIs
    <2>8. queuePtr' = Given' * P /\ AllGiven'
      BY <1>1, <1>3, <1>8, <2>2, <2>3, <2>4, <2>6, <2>7 DEF AllGiven
    <2>10. appl \in Nat /\ hw \in Nat /\ Size \in Nat
      BY <1>2, Types, RoundIs
    <2>9. appl' <= hw' + Size
      BY <1>1, <2>10
    <2> QED BY <1>1, <2>1, <2>2, <2>8, <2>9 DEF Written
  <1> QED BY <1>1, <1>9, <1>10 DEF PlaybackInv

LEMMA RefusedPlays ==
  ASSUME PlaybackInv, NEW k \in 1 .. Size, NEW m \in 0 .. N, WriteRefused(k, m),
         UNCHANGED captureVars
  PROVE  PlaybackInv'
  <1>1. /\ HandOver(m) /\ dspBuf' = (dspBuf + m + 1) % N /\ clean' = FALSE
        /\ UNCHANGED <<alsa, appl, hw, hwPtr, elapsing, rxq, played, back, lives, first>>
    BY DEF WriteRefused, app, captureVars
  <1>2. RingTypes /\ m \in Nat
    BY DEF PlaybackInv
  <1>3. dspq' \in Seq(0 .. N - 1) /\ queuePtr' \in Nat
    BY <1>1, <1>2, HandOverTypes
  <1>4. dspBuf' \in 0 .. N - 1
    <2>1. PICK b \in Int : b = dspBuf + m + 1
      BY <1>2, Types
    <2>2. b % N \in 0 .. N - 1
      BY RoundIs, DivMod
    <2> QED BY <1>1, <2>1, <2>2
  <1>5. RingTypes'
    BY <1>1, <1>2, <1>3, <1>4, Types DEF RingTypes
  <1> QED BY <1>1, <1>5 DEF PlaybackInv

\* Starts, pauses, drains and stops move nothing that counts frames.
LEMMA StateTurns ==
  ASSUME PlaybackInv,
         UNCHANGED <<appl, hw, dspBuf, hwPtr, elapsing, dspq, rxq, played, back, lives, clean, first>>,
         alsa' # "PREPARING",
         queuePtr' \in {queuePtr, 0},
         alsa' \in {"PREPARED", "RUNNING", "PAUSED", "DRAINING"} =>
           queuePtr' = queuePtr /\ alsa \in {"PREPARED", "RUNNING", "PAUSED", "DRAINING"}
  PROVE  PlaybackInv'
  <1>1. RingTypes'
    BY DEF PlaybackInv, RingTypes
  <1>2. Given' = Given
    BY DEF Given
  <1>3. ASSUME clean' PROVE InTurn' /\ Written'
    <2>1. InTurn /\ Written
      BY <1>3 DEF PlaybackInv
    <2>2. InTurn'
      BY <1>2, <2>1 DEF InTurn
    <2> QED BY <1>2, <2>1, <2>2 DEF Written, AllGiven
  <1> QED BY <1>1, <1>3 DEF PlaybackInv

LEMMA PlayPlays ==
  ASSUME PlaybackInv, Play, UNCHANGED captureVars
  PROVE  PlaybackInv'
  <1>1. /\ dspq # <<>> /\ dspq' = Tail(dspq) /\ rxq' = Append(rxq, Head(dspq)) /\ played' = played + 1
        /\ UNCHANGED <<alsa, appl, hw, queuePtr, dspBuf, hwPtr, elapsing, back, lives, clean, first>>
    BY DEF Play, app, host, captureVars
  <1>2. RingTypes
    BY DEF PlaybackInv
  <1>3. dspq' \in Seq(0 .. N - 1) /\ Head(dspq) \in 0 .. N - 1
    BY <1>1, <1>2, Types, Popped
  <1>4. rxq' \in Seq(0 .. N - 1)
    BY <1>1, <1>2, <1>3, Types, Appended
  <1>5. RingTypes'
    BY <1>1, <1>2, <1>3, <1>4, Types DEF RingTypes
  <1>6. ASSUME clean' PROVE InTurn' /\ Written'
    <2>1. InTurn /\ Written
      BY <1>1, <1>6 DEF PlaybackInv
    <2>2. InTurn' /\ Given' = Given
      BY <1>1, <1>2, <2>1, PlayTurns
    <2> QED BY <1>1, <2>1, <2>2 DEF Written, AllGiven
  <1> QED BY <1>1, <1>5, <1>6 DEF PlaybackInv

LEMMA GiveBackPlays ==
  ASSUME PlaybackInv, GiveBack, UNCHANGED captureVars
  PROVE  PlaybackInv'
  <1>1. /\ rxq # <<>> /\ hwPtr' = Head(rxq) + 1 /\ rxq' = Tail(rxq) /\ back' = back + 1
        /\ elapsing' = TRUE
        /\ UNCHANGED <<alsa, appl, hw, queuePtr, dspBuf, dspq, played, lives, clean, first>>
    BY DEF GiveBack, app, captureVars
  <1>2. RingTypes
    BY DEF PlaybackInv
  <1>3. rxq' \in Seq(0 .. N - 1) /\ hwPtr' \in 0 .. N
    <2>1. rxq' \in Seq(0 .. N - 1) /\ Head(rxq) \in 0 .. N - 1
      BY <1>1, <1>2, Types, Popped
    <2>2. N \in Nat
      BY SizeIs
    <2> QED BY <1>1, <2>1, <2>2
  <1>4. RingTypes'
    BY <1>1, <1>2, <1>3, Types DEF RingTypes
  <1>5. ASSUME clean' PROVE InTurn' /\ Written'
    <2>1. InTurn /\ Written
      BY <1>1, <1>5 DEF PlaybackInv
    <2>2. InTurn' /\ Given' = Given
      BY <1>1, <1>2, <2>1, BackTurns
    <2>5. back \in Nat /\ back' = back + 1 /\ P \in Nat \ {0} /\ hw \in Nat
      BY <1>1, <1>2, Types, RoundIs
    <2>3. back * P <= back' * P /\ back * P \in Nat /\ back' # 0 /\ 1 * P <= back' * P
      <3>1. back <= back' /\ back \in Int /\ back' \in Int /\ 1 <= back' /\ back' # 0
        BY <2>5
      <3>2. back * P <= back' * P /\ 1 * P <= back' * P
        BY <2>5, <3>1, Mono
      <3> QED BY <2>5, <3>1, <3>2
    <2>4. hw < back' * P
      <3>1. PICK x \in Int, y \in Int : x = back * P /\ y = back' * P
        BY <2>5
      <3>2. hw = 0 \/ hw < x
        BY <2>1, <3>1 DEF Written
      <3>3. x <= y /\ P <= y
        BY <2>3, <2>5, <3>1
      <3> QED BY <2>5, <3>1, <3>2, <3>3
    <2> QED BY <1>1, <2>1, <2>2, <2>3, <2>4 DEF Written, AllGiven
  <1> QED BY <1>1, <1>4, <1>5 DEF PlaybackInv

LEMMA RefreshPlays ==
  ASSUME PlaybackInv, Refresh, Running, UNCHANGED captureVars, elapsing' \in BOOLEAN
  PROVE  /\ PlaybackInv'
         /\ clean => hw' = IF back = 0 THEN 0 ELSE back * P - 1
  <1>1. /\ hw' = Reported
        /\ UNCHANGED <<appl, dspBuf, hwPtr, dspq, rxq, played, back, lives, clean, first>>
        /\ alsa \in {"RUNNING", "DRAINING"}
        /\ \/ UNCHANGED <<alsa, queuePtr>>
           \/ queuePtr' = 0 /\ alsa' \in {"SETUP", "XRUN"}
    BY DEF Refresh, Stop, Running, remote, history, captureVars
  <1>2. RingTypes
    BY DEF PlaybackInv
  <1>3. hw' \in Nat /\ hw <= hw'
    BY <1>1, <1>2, ReportedType
  <1>4. RingTypes'
    BY <1>1, <1>2, <1>3, Types DEF RingTypes
  <1>5. Given' = Given
    BY <1>1 DEF Given
  <1>6. ASSUME clean
        PROVE  InTurn' /\ Written' /\ hw' = IF back = 0 THEN 0 ELSE back * P - 1
    <2>1. InTurn /\ Written
      BY <1>6 DEF PlaybackInv
    <2>2. hw' = IF back = 0 THEN 0 ELSE back * P - 1
      BY <1>1, <1>2, <2>1, PlaybackReported
    <2>3. InTurn'
      BY <1>1, <1>5, <2>1 DEF InTurn
    <2>4. appl' <= hw' + Size
      BY <1>1, <1>2, <1>3, <2>1, Types, RoundIs DEF Written
    <2>5. back * P \in Int /\ back' = back
      BY <1>1, <1>2, Types, RoundIs
    <2>6. IF back' = 0 THEN hw' = 0 ELSE hw' < back' * P
      BY <2>2, <2>5
    <2>7. AllGiven'
      BY <1>1, <1>5, <2>1 DEF Written, AllGiven
    <2>8. alsa' \in {"PREPARED", "RUNNING", "PAUSED", "DRAINING"} => queuePtr' = Given' * P
      BY <1>1, <1>5, <2>1 DEF Written
    <2> QED BY <2>2, <2>3, <2>4, <2>6, <2>7, <2>8 DEF Written
  <1>7. alsa' # "PREPARING"
    BY <1>1
  <1> QED BY <1>1, <1>4, <1>6, <1>7 DEF PlaybackInv

LEMMA ElapsedPlays ==
  ASSUME PlaybackInv, Elapsed, ~Running, UNCHANGED captureVars
  PROVE  PlaybackInv'
  <1>1. /\ elapsing' = FALSE
        /\ UNCHANGED <<alsa, appl, hw, queuePtr, dspBuf, hwPtr, dspq, rxq, played, back, lives, clean,
                       first>>
    BY DEF Elapsed, app, remote, history, captureVars
  <1>2. RingTypes' /\ Given' = Given
    BY <1>1 DEF PlaybackInv, RingTypes, Given
  <1> QED BY <1>1, <1>2 DEF PlaybackInv, InTurn, Written, AllGiven

LEMMA PlaybackKept ==
  ASSUME PlaybackInv, Next, UNCHANGED captureVars
  PROVE  PlaybackInv' /\ (clean /\ hw' > hw => hw' = back * P - 1)
  <1>1. PlaybackInv /\ RingTypes /\ hw \in Nat
    BY Types DEF PlaybackInv
  <1>2. CASE Prepare
    <2>1. hw' = 0
      BY <1>2 DEF Prepare
    <2> QED BY <1>1, <1>2, <2>1, PreparePlays
  <1>3. CASE Start \/ Pause \/ Drain \/ Drop \/ DrainTimeout
    <2>1. /\ UNCHANGED <<appl, hw, dspBuf, hwPtr, elapsing, dspq, rxq, played, back, lives, clean, first>>
          /\ alsa' # "PREPARING" /\ queuePtr' \in {queuePtr, 0}
          /\ alsa' \in {"PREPARED", "RUNNING", "PAUSED", "DRAINING"} =>
               queuePtr' = queuePtr /\ alsa \in {"PREPARED", "RUNNING", "PAUSED", "DRAINING"}
      BY <1>3 DEF Start, Pause, Drain, Drop, DrainTimeout, Stop, host, remote, history, captureVars
    <2> QED BY <1>1, <2>1, StateTurns
  <1>4. ASSUME NEW k \in 1 .. Size, Write(k) PROVE PlaybackInv' /\ hw' = hw
    BY <1>4, WritePlays DEF Write
  <1>5. ASSUME NEW k \in 1 .. Size, NEW m \in 0 .. N, WriteRefused(k, m)
        PROVE  PlaybackInv' /\ hw' = hw
    BY <1>5, RefusedPlays DEF WriteRefused, app
  <1>6. CASE Play
    BY <1>1, <1>6, PlayPlays DEF Play, app
  <1>7. CASE GiveBack
    BY <1>1, <1>7, GiveBackPlays DEF GiveBack, app
  <1>8. CASE (Elapsed \/ Status) /\ Running
    <2>1. Refresh /\ elapsing' \in BOOLEAN
      BY <1>1, <1>8, Types DEF Elapsed, Status
    <2>2. PlaybackInv' /\ (clean => hw' = IF back = 0 THEN 0 ELSE back * P - 1)
      BY <1>8, <2>1, RefreshPlays
    <2> QED BY <1>1, <2>2
  <1>9. CASE Elapsed /\ ~Running
    <2>1. hw' = hw
      BY <1>9 DEF Elapsed, app
    <2> QED BY <1>1, <1>9, <2>1, ElapsedPlays
  <1>10. Status => Running
    BY DEF Status
  <1> QED BY <1>1, <1>2, <1>3, <1>4, <1>5, <1>6, <1>7, <1>8, <1>9, <1>10 DEF Next

\* The DSP's buffers hold what it is to play next.
LEMMA PlaybackWhole ==
  ASSUME PlaybackInv
  PROVE  PlaysTheStream
  <1>1. RingTypes
    BY DEF PlaybackInv
  <1>2. ASSUME clean, NEW i \in 1 .. Len(dspq), NEW j \in 0 .. P - 1
        PROVE  Content(dspq[i] * P + j) = (played + i - 1) * P + j
    <2>1. InTurn /\ Written
      BY <1>2 DEF PlaybackInv
    <2>2. PICK x \in Nat : x = played + i - 1
      BY <1>1, Types
    <2>11. PICK l \in Nat, b \in Nat : l = Len(dspq) /\ b = Len(rxq)
      BY <1>1, Types
    <2>12. played \in Nat /\ back \in Nat /\ i \in 1 .. l
      BY <1>1, <2>11, Types
    <2>13. Given = played + l /\ back + b = played
      BY <2>1, <2>11 DEF Given, InTurn
    <2>3. played <= x /\ x + 1 <= Given /\ back <= x /\ Given \in Nat
      BY <2>2, <2>11, <2>12, <2>13
    <2>4. PICK f \in Nat : f = x * P + j
      BY RoundIs
    <2>5. f < appl
      <3>1. (x + 1) * P = x * P + 1 * P /\ x * P \in Int /\ Given * P \in Int /\ P \in Nat
        BY <2>3, Distributed, RoundIs
      <3>3. (x + 1) * P <= Given * P
        BY <2>3, Mono, RoundIs
      <3>2. Given * P <= appl /\ appl \in Nat
        BY <1>1, <2>1, Types DEF Written, AllGiven
      <3>4. PICK y \in Int, g \in Int : y = x * P /\ g = Given * P
        BY <3>1
      <3>5. y + P <= g /\ g <= appl /\ f = y + j
        BY <2>4, <3>1, <3>2, <3>3, <3>4
      <3> QED BY <3>1, <3>2, <3>5
    <2>6. hw <= f
      <3>1. back * P <= x * P
        BY <2>3, <2>12, Mono, RoundIs
      <3>3. PICK y \in Int, b2 \in Int : y = x * P /\ b2 = back * P
        BY <2>12, RoundIs
      <3>2. hw \in Nat /\ (hw = 0 \/ hw < b2)
        BY <1>1, <2>1, <3>3, Types DEF Written
      <3>4. f = y + j /\ b2 <= y
        BY <2>4, <3>1, <3>3
      <3>5. j >= 0
        OBVIOUS
      <3> QED BY <3>2, <3>3, <3>4, <3>5
    <2>7. appl <= f + Size
      BY <1>1, <2>1, <2>6, RoundIs, Types DEF Written
    <2>8. Content(f % Size) = f
      BY <1>1, <2>5, <2>7, ContentIs, Types
    <2>9. dspq[i] = x % N
      BY <2>1, <2>2 DEF InTurn
    <2>10. dspq[i] * P + j = f % Size
      BY <2>4, <2>9, PlaceIs
    <2> QED BY <2>2, <2>4, <2>8, <2>10
  <1>3. ASSUME clean, dspq = <<>> PROVE (played + 1) * P > appl
    <2>1. Given = played
      BY <1>1, <1>3, Types, EmptyIs DEF Given
    <2> QED BY <1>3, <2>1 DEF PlaybackInv, Written, AllGiven
  <1> QED BY <1>2, <1>3 DEF PlaysTheStream, ContinuesTheStream, NothingHeldBack

-----------------------------------------------------------------------------
\* Capture.

LEMMA DueIs ==
  ASSUME RingTypes, hw <= Due, back = 0 => first = 0
  PROVE  /\ Due \in Nat
         /\ back # 0 => first < back
  <1>1. /\ back \in Nat /\ first \in Int /\ hw \in Nat /\ P \in Nat \ {0}
    BY Types, RoundIs
  <1>2. CASE back = 0
    BY <1>2 DEF Due
  <1>3. CASE back # 0
    <2>1. PICK d \in Int : d = back - first
      BY <1>1
    <2>2. Due = d * P - 1 /\ d * P \in Int
      BY <1>1, <1>3, <2>1 DEF Due
    <2>3. d * P >= 1
      BY <1>1, <2>2
    <2>4. d > 0
      <3>1. SUFFICES ASSUME d <= 0 PROVE FALSE
        BY <2>1
      <3>2. d * P <= 0 * P
        BY <1>1, <3>1, Mono
      <3> QED BY <1>1, <2>2, <2>3, <3>2
    <2> QED BY <1>1, <1>3, <2>1, <2>2, <2>3, <2>4
  <1> QED BY <1>2, <1>3

\* Where the callback's pointer stands, counted in ALSA's frames.
LEMMA DuePlace ==
  ASSUME RingTypes, InTurn, first % N = 0, back # 0
  PROVE  Position = Due % Size
  <1>1. back \in Nat /\ first \in Int
    BY Types
  <1>2. PICK k \in Int, r \in 0 .. N - 1 : k = first \div N /\ r = first % N /\ first = k * N + r
    BY <1>1, Divided, RoundIs
  <1>3. first = k * N
    BY <1>1, <1>2, RoundIs
  <1>4. PICK S \in Nat \ {0} : S = Size /\ S = N * P
    BY SizeIs
  <1>5. (back - first) * P = back * P - first * P /\ first * P = k * (N * P)
    <2>1. N \in Int /\ P \in Int /\ k \in Int /\ first \in Int /\ back \in Int
      BY <1>1, RoundIs
    <2>2. (back - first) * P = back * P - first * P
      BY <2>1, Distributed
    <2>3. (k * N) * P = k * (N * P)
      BY <2>1, Distributed
    <2> QED BY <1>3, <2>2, <2>3
  <1>6. PICK b \in Int, l \in Int : b = back * P /\ l = k * S
    BY <1>1, RoundIs
  <1>11. PICK n \in Int : n = -k
    OBVIOUS
  <1>7. Due = (b - 1) + n * S
    <2>1. n * S = -l /\ (back - first) * P = b - l
      BY <1>4, <1>5, <1>6, <1>11
    <2> QED BY <1>6, <2>1 DEF Due
  <1>8. PICK a \in Int : a = b - 1
    OBVIOUS
  <1>9. (a + n * S) % S = a % S
    BY ModSame
  <1>10. Position = a % Size
    BY <1>6, <1>8, PositionInTurn
  <1> QED BY <1>4, <1>7, <1>8, <1>9, <1>10

\* A look at the pointer of a stream that runs.
LEMMA LookIs ==
  ASSUME RingTypes, InTurn, first \in Nat, first % N = 0, hw <= Due, back = 0 => first = 0,
         ~blind => Due - hw <= P, blind \in BOOLEAN,
         hw' = Reported, back' = back,
         first' = IF blind THEN back - (hw' + 1) \div P ELSE first
  PROVE  /\ first' \in Nat /\ first' % N = 0 /\ hw' = Due' /\ (back = 0 => first' = 0)
         /\ hw' > hw => hw' = (back - first') * P - 1
  <1>1. /\ back \in Nat /\ first \in Nat /\ hw \in Nat /\ P \in Nat /\ P > 1
        /\ Due \in Nat /\ Size \in Nat \ {0} /\ 2 * P <= Size
    BY Types, SizeIs, DueIs
  <1>2. CASE back = 0
    <2>1. hw = 0 /\ Position = 0 /\ first = 0
      BY <1>1, <1>2, PositionInTurn DEF Due
    <2>2. 0 % Size = 0
      BY ModSmall, RoundIs
    <2>3. Onward(0 % Size) = 0
      BY <1>1, <2>1, OnwardTo
    <2>4. hw' = 0
      BY <2>1, <2>2, <2>3 DEF Reported
    <2>5. 1 \div P = 0
      <3>1. 1 \in 0 .. P - 1 /\ 1 = 0 * P + 1 /\ P \in Nat \ {0}
        BY <1>1
      <3> QED BY <3>1, DivModIs
    <2>6. first' = 0
      BY <1>2, <2>1, <2>4, <2>5
    <2>7. 0 % N = 0
      BY ModSmall, RoundIs
    <2>8. hw' = Due'
      BY <1>2, <2>4 DEF Due
    <2> QED BY <1>2, <2>1, <2>4, <2>6, <2>7, <2>8
  <1>3. CASE back # 0
    <2>1. PICK r \in Nat : r = hw' /\ hw <= r /\ r < hw + Size /\ r % Size = Due % Size
      <3>1. Position \in 0 .. Size - 1 /\ Position = Due % Size
        BY <1>3, PositionIs, DuePlace, Types
      <3>2. /\ Onward(Position) \in Nat /\ hw <= Onward(Position) /\ Onward(Position) < hw + Size
            /\ Onward(Position) % Size = Position
        BY <1>1, <3>1, OnwardIs
      <3> QED BY <3>1, <3>2 DEF Reported
    <2>2. PICK S \in Nat \ {0} : S = Size /\ S = N * P
      BY SizeIs
    <2>3. PICK q \in Int, u \in 0 .. S - 1 : q = r \div S /\ u = r % S /\ r = q * S + u
      <3>1. r \in Int
        OBVIOUS
      <3> QED BY <3>1, Divided, Zenon
    <2>4. PICK s \in Int, v \in 0 .. S - 1 : s = Due \div S /\ v = Due % S /\ Due = s * S + v
      BY <1>1, Divided
    <2>5. PICK m \in Int : m = s - q
      OBVIOUS
    <2>6. Due = r + m * S
      <3>1. m * S = s * S - q * S /\ s * S \in Int /\ q * S \in Int
        BY <2>5, Distributed
      <3>2. u = v
        BY <2>1, <2>2, <2>3, <2>4
      <3> QED BY <2>3, <2>4, <3>1, <3>2
    <2>7. m >= 0
      <3>1. SUFFICES ASSUME m <= -1 PROVE FALSE
        BY <2>5
      <3>2. m * S <= (-1) * S
        BY <2>5, <3>1, Mono
      <3>3. PICK y \in Int : y = m * S
        BY <2>5
      <3>4. y <= -S /\ Due = r + y /\ r < hw + S /\ hw <= Due
        BY <2>1, <2>2, <2>6, <3>2, <3>3
      <3> QED BY <1>1, <2>1, <3>3, <3>4
    <2>8. PICK d \in Int : d = back - first /\ Due = d * P - 1
      BY <1>1, <1>3 DEF Due
    <2>9. PICK e \in Int : e = d - m * N /\ m * N \in Nat
      BY <2>7, <2>8, <2>5, RoundIs, Distributed
    <2>10. r = e * P - 1
      <3>1. e * P = d * P - (m * N) * P /\ (m * N) * P = m * (N * P)
        <4>1. m * N \in Int /\ P \in Int /\ N \in Int
          BY <2>9, RoundIs
        <4> QED BY <2>8, <2>9, <2>5, <4>1, Distributed
      <3>2. PICK y \in Int, z \in Int, w \in Int : y = m * S /\ z = d * P /\ w = e * P
        BY <2>5, <2>8, <2>9, <1>1
      <3>3. w = z - y /\ Due = r + y /\ Due = z - 1
        BY <2>2, <2>6, <2>8, <3>1, <3>2
      <3> QED BY <1>1, <2>1, <3>2, <3>3
    <2>11. (r + 1) \div P = e
      <3>1. r + 1 = e * P + 0 /\ 0 \in 0 .. P - 1 /\ e * P \in Int
        BY <1>1, <2>1, <2>9, <2>10
      <3>2. PICK a \in Int : a = r + 1
        BY <2>1
      <3>3. a \div P = e
        BY <1>1, <2>9, <3>1, <3>2, DivModIs
      <3> QED BY <3>2, <3>3
    <2>12. CASE blind
      <3>1. PICK f \in Int : f = back - e /\ f = first + m * N
        BY <1>1, <2>8, <2>9
      <3>2. first' = f
        BY <2>1, <2>11, <2>12, <3>1
      <3>3. f \in Nat
        BY <1>1, <2>9, <3>1
      <3>4. (first + m * N) % N = first % N
        <4>1. PICK g \in Int : g = first
          BY <1>1
        <4>2. (g + m * N) % N = g % N
          BY RoundIs, ModSame
        <4> QED BY <4>1, <4>2
      <3>5. back - f = e
        BY <1>1, <3>1
      <3>6. Due' = e * P - 1
        BY <1>3, <3>2, <3>5 DEF Due
      <3> QED BY <1>3, <2>1, <2>10, <3>1, <3>2, <3>3, <3>4, <3>5, <3>6
    <2>13. CASE ~blind
      <3>1. Due < r + S
        BY <1>1, <2>1, <2>2, <2>13
      <3>2. PICK y \in Int : y = m * S /\ y < S
        BY <1>1, <2>1, <2>5, <2>6, <3>1
      <3>3. m = 0
        <4>1. SUFFICES ASSUME m >= 1 PROVE FALSE
          BY <2>5, <2>7
        <4>2. 1 * S <= m * S
          BY <2>5, <4>1, Mono
        <4> QED BY <2>2, <3>2, <4>2
      <3>4. e = d /\ first' = first /\ back' = back
        BY <2>8, <2>9, <2>13, <3>3, RoundIs
      <3>5. Due' = d * P - 1
        BY <1>3, <2>8, <3>4 DEF Due
      <3> QED BY <1>1, <1>3, <2>1, <2>8, <2>10, <3>4, <3>5
    <2> QED BY <2>12, <2>13
  <1> QED BY <1>2, <1>3

LEMMA CaptureTypes ==
  ASSUME CaptureInv
  PROVE  /\ RingTypes /\ again \in BOOLEAN /\ missed \in BOOLEAN /\ blind \in BOOLEAN
         /\ tape \in [0 .. N - 1 -> Int] /\ ~(elapsing /\ again)
         /\ alsa \in {"OPEN", "PREPARING", "PREPARED", "RUNNING", "PAUSED", "XRUN", "SETUP"}
         /\ alsa \in {"PREPARED", "RUNNING", "PAUSED"} => state = "running"
BY DEF CaptureInv

LEMMA PrepareRecords ==
  ASSUME CaptureInv, CapturePrepare
  PROVE  CaptureInv'
  <1>1. /\ appl' = 0 /\ hw' = 0 /\ dspBuf' = 0 /\ played' = 0 /\ back' = 0 /\ first' = 0
        /\ lives' = lives + 1 /\ alsa' = "PREPARING" /\ missed' = FALSE /\ blind' = TRUE
        /\ tape' = [b \in 0 .. N - 1 |-> -1]
        /\ clean' = (hwPtr = 0 /\ rxq' = <<>> /\ Len(dspq') = N /\ ~elapsing /\ ~again)
        /\ UNCHANGED <<queuePtr, hwPtr, elapsing, state, again>>
    BY DEF CapturePrepare
  <1>2. RingTypes /\ N \in Nat /\ N > 1
    BY CaptureTypes, SizeIs
  <1>3. rxq' \in Seq(0 .. N - 1)
    <2>1. rxq \in Seq(0 .. N - 1) /\ rxq \o dspq \in Seq(0 .. N - 1)
      BY <1>2, Types, ConcatProperties
    <2>2. PICK s \in {rxq, rxq \o dspq} : \E i \in 1 .. Len(s) + 1 : rxq' = SubSeq(s, i, Len(s))
      BY DEF CapturePrepare
    <2>3. PICK i \in 1 .. Len(s) + 1 : rxq' = SubSeq(s, i, Len(s))
      BY <2>2
    <2> QED BY <2>1, <2>2, <2>3, PartIs
  <1>4. dspq' = [i \in 1 .. N |-> i - 1] \/ dspq' = [i \in 1 .. N - 1 |-> i - 1]
    BY DEF CapturePrepare
  <1>5. \A n \in {N - 1, N} : [i \in 1 .. n |-> i - 1] \in Seq(0 .. N - 1) /\ Len([i \in 1 .. n |-> i - 1]) = n
    <2>1. ASSUME NEW n \in {N - 1, N} PROVE n \in Nat /\ \A i \in 1 .. n : i - 1 \in 0 .. N - 1
      BY <1>2
    <2> QED BY <2>1
  <1>6. dspq' \in Seq(0 .. N - 1)
    BY <1>4, <1>5
  <1>7. lives' \in Nat /\ queuePtr' \in Nat /\ hwPtr' \in 0 .. N /\ elapsing' \in BOOLEAN
        /\ clean' \in BOOLEAN
    BY <1>1, <1>2, Types
  <1>8. RingTypes'
    <2>1. 0 \in 0 .. N - 1
      BY <1>2
    <2> QED BY <1>1, <1>3, <1>6, <1>7, <2>1 DEF RingTypes
  <1>9. ASSUME clean' PROVE InTurn' /\ Looked' /\ Taped' /\ AllAround'
    <2>1. hwPtr' = 0 /\ rxq' = <<>> /\ Len(dspq') = N /\ ~elapsing' /\ ~again'
      BY <1>1, <1>9
    <2>2. dspq' = [i \in 1 .. N |-> i - 1]
      <3>1. N - 1 # N
        BY <1>2
      <3> QED BY <1>4, <1>5, <2>1, <3>1
    <2>3. Given' = N /\ Len(rxq') = 0
      BY <1>1, <1>2, <2>1 DEF Given
    <2>4. N % N = 0 /\ 0 % N = 0
      <3>1. N = 1 * N + 0 /\ 0 \in 0 .. N - 1 /\ N \in Nat \ {0}
        BY <1>2
      <3> QED BY <3>1, DivModIs, ModSmall
    <2>5. ASSUME NEW i \in 1 .. Len(dspq') PROVE dspq'[i] = (played' + i - 1) % N
      <3>1. PICK r \in 0 .. N - 1 : r = i - 1
        BY <1>2, <2>1
      <3>2. r % N = r
        BY RoundIs, ModSmall
      <3>3. dspq'[i] = r
        BY <1>2, <2>1, <2>2, <3>1
      <3>4. played' + i - 1 = r
        BY <1>1, <1>2, <2>1, <3>1
      <3> QED BY <3>2, <3>3, <3>4
    <2>6. InTurn'
      BY <1>1, <2>1, <2>3, <2>4, <2>5 DEF InTurn
    <2>7. Looked'
      BY <1>1, <2>4 DEF Looked, Due
    <2>8. Taped'
      BY <1>1 DEF Taped
    <2>9. AllAround'
      BY <1>2, <2>1, <2>3 DEF AllAround, Around, Called
    <2> QED BY <2>6, <2>7, <2>8, <2>9
  <1>10. tape' \in [0 .. N - 1 -> Int]
    BY <1>1
  <1> QED BY <1>1, <1>8, <1>9, <1>10, CaptureTypes DEF CaptureInv

\* Starts, pauses, reads and stops move no buffer.
LEMMA StateRecords ==
  ASSUME CaptureInv,
         UNCHANGED <<hw, dspBuf, hwPtr, elapsing, dspq, rxq, played, back, lives, clean, again, tape,
                     missed, first>>,
         appl' \in Nat, queuePtr' \in Nat, blind' \in {TRUE, blind},
         alsa' \in {"PREPARED", "RUNNING", "PAUSED", "SETUP"},
         alsa' # "SETUP" => state' = "running" /\ alsa \in {"PREPARING", "PREPARED", "RUNNING", "PAUSED"},
         alsa' = "RUNNING" => blind' \/ alsa = "RUNNING",
         alsa' \in {"PREPARED", "PAUSED"} => blind' \/ alsa \in {"PREPARING", "PREPARED", "PAUSED"}
  PROVE  CaptureInv'
  <1>1. RingTypes'
    BY CaptureTypes DEF RingTypes
  <1>2. Given' = Given /\ Due' = Due /\ Lag' = Lag
    BY DEF Given, Due, Lag
  <1>3. ASSUME clean' PROVE InTurn' /\ Looked' /\ Taped' /\ AllAround'
    <2>1. InTurn /\ Looked /\ Taped /\ AllAround /\ blind \in BOOLEAN
      BY <1>3 DEF CaptureInv
    <2>2. InTurn'
      BY <1>2, <2>1 DEF InTurn
    <2>3. Looked'
      <3>1. first' \in Nat /\ first' % N = 0 /\ hw' <= Due' /\ (back' = 0 => first' = 0)
        BY <1>2, <2>1 DEF Looked
      <3>2. alsa' = "RUNNING" /\ ~blind' => Due' - hw' <= Lag'
        BY <1>2, <2>1 DEF Looked
      <3>3. alsa' \in {"PREPARING", "PREPARED", "PAUSED"} => blind'
        BY <2>1 DEF Looked
      <3> QED BY <3>1, <3>2, <3>3 DEF Looked
    <2>4. Taped'
      BY <2>1 DEF Taped
    <2>5. AllAround'
      BY <2>1 DEF AllAround, Around, Called
    <2> QED BY <2>2, <2>3, <2>4, <2>5
  <1>4. again' \in BOOLEAN /\ missed' \in BOOLEAN /\ blind' \in BOOLEAN /\ tape' \in [0 .. N - 1 -> Int]
        /\ ~(elapsing' /\ again')
    BY CaptureTypes
  <1> QED BY <1>1, <1>3, <1>4 DEF CaptureInv

LEMMA RecordRecords ==
  ASSUME CaptureInv, Record
  PROVE  CaptureInv'
  <1>1. /\ dspq # <<>> /\ dspq' = Tail(dspq) /\ rxq' = Append(rxq, Head(dspq))
        /\ tape' = [tape EXCEPT ![Head(dspq)] = played] /\ played' = played + 1
        /\ UNCHANGED <<alsa, appl, hw, queuePtr, dspBuf, hwPtr, elapsing, back, lives, clean,
                       state, again, missed, blind, first>>
    BY DEF Record, app, host
  <1>2. RingTypes /\ tape \in [0 .. N - 1 -> Int]
    BY CaptureTypes
  <1>3. dspq' \in Seq(0 .. N - 1) /\ Head(dspq) \in 0 .. N - 1
    BY <1>1, <1>2, Types, Popped
  <1>4. rxq' \in Seq(0 .. N - 1)
    BY <1>1, <1>2, <1>3, Types, Appended
  <1>5. RingTypes'
    BY <1>1, <1>2, <1>3, <1>4, Types DEF RingTypes
  <1>6. played \in Int /\ tape' \in [0 .. N - 1 -> Int]
    BY <1>1, <1>2, <1>3, Types
  <1>7. ASSUME clean' PROVE InTurn' /\ Looked' /\ Taped' /\ AllAround'
    <2>1. clean /\ InTurn /\ Looked /\ Taped /\ AllAround
      BY <1>1, <1>7 DEF CaptureInv
    <2>2. InTurn' /\ Head(dspq) = played % N
      BY <1>1, <1>2, <2>1, PlayTurns
    <2>3. Due' = Due /\ Lag' = Lag
      BY <1>1 DEF Due, Lag
    <2>4. Looked'
      BY <1>1, <2>1, <2>3 DEF Looked
    <2>5. ASSUME NEW p \in Nat, played' - N <= p, p < played' PROVE tape'[p % N] = p
      <3>0. played \in Nat /\ N \in Nat \ {0} /\ played \in Int /\ p \in Int
        BY <1>2, Types, RoundIs
      <3>1. p % N \in 0 .. N - 1 /\ played % N \in 0 .. N - 1 /\ played \in Nat /\ N \in Nat \ {0}
        BY <3>0, DivMod
      <3>2. CASE p = played
        BY <1>1, <1>2, <2>2, <3>1, <3>2
      <3>3. CASE p # played
        <4>1. p < played /\ played - N < p
          BY <1>1, <2>5, <3>1, <3>3
        <4>2. played - N <= p /\ p \in Int /\ played \in Int /\ played - p < N /\ p - played < N
          BY <3>1, <4>1
        <4>3. p % N # played % N
          BY <3>1, <3>3, <4>2, SamePlace
        <4>4. tape[p % N] = p
          BY <2>1, <4>1, <4>2 DEF Taped
        <4> QED BY <1>1, <1>2, <2>2, <3>1, <4>3, <4>4
      <3> QED BY <3>2, <3>3
    <2>6. Taped'
      BY <2>5 DEF Taped
    <2>7. Len(dspq') + Len(rxq') = Len(dspq) + Len(rxq)
      <3>1. Len(dspq) \in Nat \ {0} /\ Len(dspq') = Len(dspq) - 1
        BY <1>1, <1>2, Types, Popped
      <3>2. Len(rxq) \in Nat /\ Len(rxq') = Len(rxq) + 1
        BY <1>1, <1>2, <1>3, Types, Appended
      <3> QED BY <3>1, <3>2
    <2>8. Around' = Around
      BY <1>1, <2>7 DEF Around, Called
    <2>9. AllAround'
      BY <1>1, <2>1, <2>8 DEF AllAround
    <2> QED BY <2>2, <2>4, <2>6, <2>9
  <1> QED BY <1>1, <1>5, <1>6, <1>7, CaptureTypes DEF CaptureInv

LEMMA ReadDoneRecords ==
  ASSUME CaptureInv, ReadDone
  PROVE  CaptureInv'
  <1>1. /\ ~again /\ ~elapsing /\ rxq # <<>> /\ hwPtr' = Head(rxq) + 1 /\ rxq' = Tail(rxq)
        /\ back' = back + 1 /\ elapsing' = TRUE
        /\ UNCHANGED <<alsa, appl, hw, queuePtr, dspBuf, dspq, played, lives, clean,
                       state, again, tape, missed, blind, first>>
    BY DEF ReadDone, GiveBack, app, captureVars
  <1>2. RingTypes
    BY CaptureTypes
  <1>3. rxq' \in Seq(0 .. N - 1) /\ hwPtr' \in 0 .. N
    <2>1. rxq' \in Seq(0 .. N - 1) /\ Head(rxq) \in 0 .. N - 1
      BY <1>1, <1>2, Types, Popped
    <2>2. N \in Nat
      BY SizeIs
    <2> QED BY <1>1, <2>1, <2>2
  <1>4. RingTypes'
    BY <1>1, <1>2, <1>3, Types DEF RingTypes
  <1>5. ASSUME clean' PROVE InTurn' /\ Looked' /\ Taped' /\ AllAround'
    <2>1. clean /\ InTurn /\ Looked /\ Taped /\ AllAround
      BY <1>1, <1>5 DEF CaptureInv
    <2>2. InTurn'
      BY <1>1, <1>2, <2>1, BackTurns
    <2>3. Due \in Nat /\ Due <= Due' /\ Due' <= Due + P /\ Due' \in Nat
      <3>0. back \in Nat /\ first \in Int /\ P \in Nat /\ P > 1 /\ first' = first /\ back' = back + 1
        BY <1>1, <1>2, Types, SizeIs
      <3>1. Due \in Nat
        BY <1>2, <2>1, DueIs DEF Looked
      <3>2. CASE back = 0
        <4>1. first = 0 /\ (1 - 0) * P = P
          BY <2>1, <3>0, <3>2 DEF Looked
        <4> QED BY <3>0, <3>2, <4>1 DEF Due
      <3>3. CASE back # 0
        <4>1. PICK d \in Int : d = back - first
          BY <3>0
        <4>2. (d + 1) * P = d * P + 1 * P /\ d * P \in Int
          BY <3>0, <4>1, Distributed
        <4>3. Due = d * P - 1
          BY <3>3, <4>1 DEF Due
        <4>4. back' # 0 /\ back' - first' = d + 1
          BY <3>0, <4>1
        <4>5. Due' = (d + 1) * P - 1
          BY <4>4 DEF Due
        <4>6. PICK x \in Int : x = d * P
          BY <4>2
        <4> QED BY <3>0, <3>1, <4>2, <4>3, <4>5, <4>6
      <3> QED BY <3>2, <3>3
    <2>4. Looked'
      <3>1. hw \in Nat /\ P \in Nat /\ back \in Nat
        BY <1>2, Types, SizeIs
      <3>2. hw' <= Due'
        BY <1>1, <2>1, <2>3, <3>1 DEF Looked
      <3>3. alsa' = "RUNNING" /\ ~blind' => Due' - hw' <= Lag'
        <4>1. SUFFICES ASSUME alsa = "RUNNING", ~blind PROVE Due' - hw <= P
          BY <1>1 DEF Lag
        <4>2. PICK d \in Nat, e \in Nat : d = Due /\ e = Due' /\ e <= d + P
          BY <2>3
        <4>3. d - hw <= 0
          BY <1>1, <2>1, <4>1, <4>2 DEF Looked, Lag
        <4>4. PICK h \in Nat : h = hw /\ d - h <= 0
          BY <3>1, <4>3
        <4>5. e <= d + P /\ P \in Nat
          BY <3>1, <4>2
        <4>6. e - h <= P
          BY <4>4, <4>5
        <4> QED BY <4>2, <4>4, <4>6
      <3>4. back' # 0
        BY <1>1, <3>1
      <3> QED BY <1>1, <2>1, <3>2, <3>3, <3>4 DEF Looked
    <2>5. Taped'
      BY <1>1, <2>1 DEF Taped
    <2>6. Len(rxq) \in Nat \ {0} /\ Len(rxq') = Len(rxq) - 1 /\ Len(dspq) \in Nat
      BY <1>1, <1>2, Types, Popped
    <2>7. Around' = Around
      BY <1>1, <2>6 DEF Around, Called
    <2>8. AllAround'
      BY <1>1, <2>1, <2>7 DEF AllAround
    <2> QED BY <2>2, <2>4, <2>5, <2>8
  <1> QED BY <1>1, <1>4, <1>5, CaptureTypes DEF CaptureInv

\* The callback reports, or the application asks.
LEMMA LookRecords ==
  ASSUME CaptureInv, Running, CaptureRefresh, AtMostOne', Called' = Called
  PROVE  CaptureInv' /\ (clean /\ hw' > hw => hw' = (back - first') * P - 1)
  <1>1. /\ hw' = Reported /\ blind' = FALSE
        /\ first' = IF blind THEN back - (hw' + 1) \div P ELSE first
        /\ UNCHANGED <<appl, dspBuf, hwPtr, dspq, rxq, played, back, lives, clean, tape, missed>>
        /\ alsa = "RUNNING"
        /\ \/ UNCHANGED <<alsa, queuePtr, state>>
           \/ queuePtr' = 0 /\ alsa' = "XRUN"
    <2>1. alsa = "RUNNING"
      BY CaptureTypes DEF Running
    <2> QED BY <2>1 DEF CaptureRefresh, Stop, remote, history
  <1>2. RingTypes /\ blind \in BOOLEAN
    BY CaptureTypes
  <1>3. hw' \in Nat /\ hw <= hw'
    BY <1>1, <1>2, ReportedType
  <1>4. ASSUME clean
        PROVE  /\ InTurn' /\ Looked' /\ Taped' /\ AllAround' /\ first' \in Nat
               /\ hw' > hw => hw' = (back - first') * P - 1
    <2>1. InTurn /\ Looked /\ Taped /\ AllAround
      BY <1>4 DEF CaptureInv
    <2>2. first \in Nat /\ first % N = 0 /\ hw <= Due /\ (back = 0 => first = 0)
      BY <2>1 DEF Looked
    <2>3. ~blind => Due - hw <= P
      <3>1. Due \in Nat /\ hw \in Nat /\ P \in Nat
        BY <1>2, <2>2, Types, DueIs, SizeIs
      <3>2. ~blind => Due - hw <= Lag
        BY <1>1, <2>1 DEF Looked
      <3> QED BY <3>1, <3>2 DEF Lag
    <2>4. /\ first' \in Nat /\ first' % N = 0 /\ hw' = Due' /\ (back = 0 => first' = 0)
          /\ hw' > hw => hw' = (back - first') * P - 1
      BY <1>1, <1>2, <2>1, <2>2, <2>3, LookIs
    <2>5. InTurn'
      <3>1. Given' = Given
        BY <1>1 DEF Given
      <3> QED BY <1>1, <2>1, <3>1 DEF InTurn
    <2>6. Looked'
      <3>3. P \in Nat
        BY SizeIs
      <3>4. PICK h : h = hw'
        OBVIOUS
      <3>6. h \in Nat
        BY <1>3, <3>4
      <3>5. h - h = 0 /\ h <= h
        BY <3>6
      <3>1. Due' - hw' = 0 /\ hw' <= Due'
        BY <2>4, <3>4, <3>5
      <3>2. Lag' >= 0
        BY <3>3 DEF Lag
      <3> QED BY <1>1, <2>4, <3>1, <3>2 DEF Looked
    <2>7. Taped'
      BY <1>1, <2>1 DEF Taped
    <2>8. Around' = Around
      BY <1>1 DEF Around
    <2>9. AllAround'
      BY <1>1, <2>1, <2>8 DEF AllAround
    <2> QED BY <2>4, <2>5, <2>6, <2>7, <2>9
  <1>5. first' \in Int
    <2>0. PICK g : g = hw'
      OBVIOUS
    <2>3. g \in Nat
      BY <1>3, <2>0
    <2>4. PICK h \in Nat : h = g + 1
      BY <2>3
    <2>1. h = hw' + 1
      BY <2>0, <2>4
    <2>2. h \div P \in Int
      BY RoundIs, DivMod
    <2> QED BY <1>1, <1>2, <2>1, <2>2, Types
  <1>6. RingTypes'
    BY <1>1, <1>2, <1>3, <1>5, Types DEF RingTypes, AtMostOne
  <1> QED BY <1>1, <1>2, <1>4, <1>6, CaptureTypes DEF CaptureInv, AtMostOne

LEMMA ElapsedRecords ==
  ASSUME CaptureInv, CaptureElapsed
  PROVE  CaptureInv' /\ (clean /\ hw' > hw => hw' = (back - first') * P - 1)
  <1>1. elapsing /\ elapsing' = FALSE /\ again' = TRUE
    BY DEF CaptureElapsed
  <1>2. CASE Running
    <2>1. CaptureRefresh
      BY <1>2 DEF CaptureElapsed
    <2>2. Called' = Called /\ AtMostOne'
      BY <1>1 DEF Called, AtMostOne
    <2> QED BY <1>1, <1>2, <2>1, <2>2, LookRecords
  <1>3. CASE ~Running
    <2>1. /\ UNCHANGED <<alsa, appl, hw, queuePtr, dspBuf, hwPtr, dspq, rxq, played, back, lives, clean,
                         state, tape, missed, blind, first>>
      BY <1>3 DEF CaptureElapsed, app, remote, history
    <2>2. RingTypes'
      BY <1>1, <2>1, CaptureTypes DEF RingTypes
    <2>3. ASSUME clean' PROVE InTurn' /\ Looked' /\ Taped' /\ AllAround'
      <3>1. InTurn /\ Looked /\ Taped /\ AllAround
        BY <2>1, <2>3 DEF CaptureInv
      <3>2. Given' = Given /\ Due' = Due /\ Around' = Around
        BY <1>1, <2>1 DEF Given, Due, Around, Called
      <3>3. InTurn'
        BY <2>1, <3>1, <3>2 DEF InTurn
      <3>4. Looked'
        BY <1>3, <2>1, <3>1, <3>2 DEF Looked, Running
      <3>5. Taped' /\ AllAround'
        BY <2>1, <3>1, <3>2 DEF Taped, AllAround
      <3> QED BY <3>3, <3>4, <3>5
    <2>4. CaptureInv'
      BY <1>1, <2>1, <2>2, <2>3, CaptureTypes DEF CaptureInv
    <2>5. hw' = hw /\ hw \in Nat
      BY <2>1, CaptureTypes, Types
    <2> QED BY <2>4, <2>5
  <1> QED BY <1>2, <1>3

LEMMA AgainRecords ==
  ASSUME CaptureInv, QueueAgain
  PROVE  CaptureInv'
  <1>1. /\ again /\ again' = FALSE
        /\ UNCHANGED <<alsa, appl, hw, queuePtr, hwPtr, elapsing, rxq, played, back, lives, state, tape,
                       blind, first>>
    BY DEF QueueAgain, app
  <1>2. RingTypes /\ ~elapsing /\ dspBuf \in 0 .. N - 1 /\ dspq \in Seq(0 .. N - 1) /\ clean \in BOOLEAN
        /\ Len(rxq) \in Nat
    BY <1>1, CaptureTypes, Types
  <1>3. \/ /\ state = "running" /\ dspBuf' = (dspBuf + 1) % N /\ missed' = missed
           /\ dspq' = Append(dspq, dspBuf) /\ clean' = clean
        \/ /\ state = "running" /\ dspBuf' = (dspBuf + 1) % N /\ missed' = missed
           /\ clean' = FALSE /\ dspq' = dspq
        \/ /\ state # "running" /\ UNCHANGED <<dspBuf, dspq, clean>>
           /\ missed' = (missed \/ alsa = "PREPARING")
    BY DEF QueueAgain, NextBuffer
  <1>4. Append(dspq, dspBuf) \in Seq(0 .. N - 1) /\ Len(dspq) \in Nat
        /\ Len(Append(dspq, dspBuf)) = Len(dspq) + 1
    BY <1>2, Appended
  <1>5. (dspBuf + 1) % N \in 0 .. N - 1
    <2>1. PICK b \in Int : b = dspBuf + 1
      BY <1>2
    <2>2. b % N \in 0 .. N - 1
      BY RoundIs, DivMod
    <2> QED BY <2>1, <2>2
  <1>6. RingTypes'
    <2>1. dspq' \in Seq(0 .. N - 1) /\ dspBuf' \in 0 .. N - 1 /\ clean' \in BOOLEAN
      BY <1>2, <1>3, <1>4, <1>5
    <2> QED BY <1>1, <1>2, <2>1 DEF RingTypes
  <1>7. missed' \in BOOLEAN
    BY <1>3, CaptureTypes
  <1>8. ASSUME clean' PROVE InTurn' /\ Looked' /\ Taped' /\ AllAround'
    <2>1. clean /\ InTurn /\ Looked /\ Taped /\ AllAround
      BY <1>3, <1>8 DEF CaptureInv
    <2>2. Due' = Due /\ Lag' = Lag
      BY <1>1 DEF Due, Lag
    <2>3. Looked' /\ Taped'
      BY <1>1, <2>1, <2>2 DEF Looked, Taped
    <2>4. CASE state = "running"
      <3>1. dspBuf' = (dspBuf + 1) % N /\ dspq' = Append(dspq, dspBuf) /\ missed' = missed
        BY <1>3, <1>8, <2>4
      <3>2. InTurn'
        BY <1>1, <1>2, <2>1, <3>1, OneMoreTurns
      <3>3. Around' = Around
        BY <1>1, <1>2, <1>4, <3>1 DEF Around, Called
      <3>4. AllAround'
        BY <1>1, <2>1, <3>1, <3>3 DEF AllAround
      <3> QED BY <2>3, <3>2, <3>4
    <2>5. CASE state # "running"
      <3>1. UNCHANGED <<dspBuf, dspq>> /\ missed' = (missed \/ alsa = "PREPARING")
        BY <1>3, <2>5
      <3>2. Given' = Given
        BY <1>1, <3>1 DEF Given
      <3>3. InTurn'
        BY <1>1, <2>1, <3>1, <3>2 DEF InTurn
      <3>4. alsa \notin {"PREPARED", "RUNNING", "PAUSED"}
        BY <2>5, CaptureTypes
      <3>5. AllAround'
        BY <1>1, <3>1, <3>4 DEF AllAround
      <3> QED BY <2>3, <3>3, <3>5
    <2> QED BY <2>4, <2>5
  <1> QED BY <1>1, <1>6, <1>7, <1>8, CaptureTypes DEF CaptureInv

LEMMA CaptureKept ==
  ASSUME CaptureInv, CaptureNext
  PROVE  CaptureInv' /\ (clean /\ hw' > hw => hw' = (back - first') * P - 1)
  <1>0. RingTypes /\ hw \in Nat /\ appl \in Nat /\ queuePtr \in Nat
    BY CaptureTypes, Types
  <1>1. CASE CapturePrepare
    <2>1. hw' = 0
      BY <1>1 DEF CapturePrepare
    <2> QED BY <1>0, <1>1, <2>1, PrepareRecords
  <1>2. CASE Prepared
    <2>1. /\ UNCHANGED <<hw, dspBuf, hwPtr, elapsing, dspq, rxq, played, back, lives, clean, again, tape,
                         missed, first>>
          /\ appl' = appl /\ queuePtr' = queuePtr /\ blind' = blind /\ alsa = "PREPARING"
          /\ alsa' = "PREPARED" /\ state' = "running"
      BY <1>2 DEF Prepared, host, remote, history
    <2>2. CaptureInv'
      BY <1>0, <2>1, StateRecords
    <2> QED BY <1>0, <2>1, <2>2
  <1>3. CASE CaptureStart
    <2>1. /\ UNCHANGED <<hw, dspBuf, hwPtr, elapsing, dspq, rxq, played, back, lives, clean, again, tape,
                         missed, first>>
          /\ appl' = appl /\ queuePtr' = queuePtr /\ blind' = blind /\ alsa = "PREPARED"
          /\ alsa' = "RUNNING" /\ state' = state
      BY <1>3 DEF CaptureStart, host, remote, history, captureVars
    <2>2. state' = "running"
      BY <2>1, CaptureTypes
    <2>3. CASE clean
      <3>1. blind'
        BY <2>1, <2>3 DEF CaptureInv, Looked
      <3>2. CaptureInv'
        BY <1>0, <2>1, <2>2, <3>1, StateRecords
      <3> QED BY <1>0, <2>1, <3>2
    <2>4. CASE ~clean
      <3>1. RingTypes'
        BY <1>0, <2>1 DEF RingTypes
      <3>2. CaptureInv'
        BY <2>1, <2>2, <2>4, <3>1, CaptureTypes DEF CaptureInv
      <3> QED BY <1>0, <2>1, <3>2
    <2> QED BY <2>3, <2>4
  <1>4. CASE Hold
    <2>1. /\ UNCHANGED <<hw, dspBuf, hwPtr, elapsing, dspq, rxq, played, back, lives, clean, again, tape,
                         missed, first>>
          /\ appl' = appl /\ queuePtr' = queuePtr /\ blind' = TRUE /\ alsa \in {"RUNNING", "PAUSED"}
          /\ alsa' \in {"RUNNING", "PAUSED"} /\ state' = state
      BY <1>4 DEF Hold, Pause, host, remote, history
    <2>2. state' = "running"
      BY <2>1, CaptureTypes
    <2>3. CaptureInv'
      BY <1>0, <2>1, <2>2, StateRecords
    <2> QED BY <1>0, <2>1, <2>3
  <1>5. CASE CaptureDrop
    <2>1. /\ UNCHANGED <<hw, dspBuf, hwPtr, elapsing, dspq, rxq, played, back, lives, clean, again, tape,
                         missed, first>>
          /\ appl' = appl /\ queuePtr' \in {queuePtr, 0} /\ blind' = blind /\ alsa' = "SETUP"
      BY <1>5 DEF CaptureDrop, Drop, Stop, remote, history
    <2>2. CaptureInv'
      BY <1>0, <2>1, StateRecords
    <2> QED BY <1>0, <2>1, <2>2
  <1>6. ASSUME NEW k \in 1 .. Size, Read(k)
        PROVE  CaptureInv' /\ hw' = hw
    <2>1. /\ UNCHANGED <<hw, dspBuf, hwPtr, elapsing, dspq, rxq, played, back, lives, clean, again, tape,
                         missed, first>>
          /\ appl' = appl + k /\ queuePtr' = queuePtr /\ blind' = blind
          /\ alsa \in {"PREPARED", "RUNNING", "PAUSED"} /\ alsa' = alsa /\ state' = state
      BY <1>6 DEF Read, host, remote, history, captureVars
    <2>2. state' = "running" /\ appl' \in Nat
      BY <1>0, <2>1, RoundIs, CaptureTypes
    <2> QED BY <1>0, <2>1, <2>2, StateRecords
  <1>7. CASE Record
    BY <1>0, <1>7, RecordRecords DEF Record, app
  <1>8. CASE ReadDone
    BY <1>0, <1>8, ReadDoneRecords DEF ReadDone, GiveBack, app
  <1>9. CASE CaptureElapsed
    BY <1>9, ElapsedRecords
  <1>10. CASE CaptureStatus
    <2>1. Running /\ CaptureRefresh /\ elapsing' = elapsing /\ again' = again
      BY <1>10 DEF CaptureStatus
    <2>2. elapsing \in BOOLEAN /\ again \in BOOLEAN /\ ~(elapsing /\ again)
      BY CaptureTypes, Types
    <2>3. Called' = Called /\ AtMostOne'
      BY <2>1, <2>2 DEF Called, AtMostOne
    <2> QED BY <2>1, <2>2, <2>3, LookRecords
  <1>11. CASE QueueAgain
    <2>1. hw' = hw
      BY <1>11 DEF QueueAgain, app
    <2> QED BY <1>0, <1>11, <2>1, AgainRecords
  <1>12. \A k \in 1 .. Size : Read(k) => CaptureInv' /\ hw' = hw
    BY <1>6
  <1> QED BY <1>0, <1>1, <1>2, <1>3, <1>4, <1>5, <1>7, <1>8, <1>9, <1>10, <1>11, <1>12 DEF CaptureNext

\* What may be read is on the tape, and not being recorded over.
LEMMA CaptureWhole ==
  ASSUME CaptureInv
  PROVE  ReadableIsIntact /\ KeepsRecording
  <1>1. RingTypes /\ appl \in Nat /\ hw \in Nat /\ played \in Nat /\ back \in Nat /\ P \in Nat /\ P > 1
        /\ N \in Nat /\ N > 1 /\ Size = N * P /\ Size \in Nat \ {0}
    BY CaptureTypes, Types, SizeIs
  <1>2. ASSUME clean, (played - first) * P - appl <= Size - P, NEW f \in appl .. hw - 1
        PROVE  Intact(f)
    <2>1. InTurn /\ Looked /\ Taped /\ first \in Nat
      BY <1>2 DEF CaptureInv, Looked
    <2>2. PICK x \in Int, j \in Int : x = f \div P /\ j = f % P /\ f = x * P + j /\ j \in 0 .. P - 1
                                      /\ (f % Size) \div P = x % N
      <3>1. f \in Int
        BY <1>1
      <3>2. /\ f \div P \in Int /\ f = (f \div P) * P + (f % P) /\ f % P \in 0 .. P - 1
            /\ (f % Size) \div P = (f \div P) % N
        BY <3>1, PeriodIs
      <3>3. f % P \in Int
        BY <1>1, <3>2
      <3> QED BY <3>2, <3>3
    <2>3. PICK p \in Int : p = x + first
      BY <2>1
    <2>4. PICK k \in Int, r \in 0 .. N - 1 : k = first \div N /\ r = first % N /\ first = k * N + r
      BY <2>1, Divided, RoundIs
    <2>5. p = x + k * N
      BY <2>1, <2>3, <2>4, RoundIs DEF Looked
    <2>6. p % N = x % N
      BY <2>5, ModSame, RoundIs
    <2>7. played - N < p
      <3>1. PICK d \in Int : d = (played - first) - N
        BY <1>1, <2>1
      <3>2. d * P <= x * P - 1
        <4>1. (played - first) * P - N * P = d * P /\ (played - first) * P \in Int
          BY <1>1, <2>1, <3>1, Distributed
        <4>2. PICK a \in Int, y \in Int, z \in Int :
                a = (played - first) * P /\ y = x * P /\ z = d * P
          BY <1>1, <2>2, <3>1, <4>1
        <4>3. a - Size = z /\ a - appl <= Size - P /\ f = y + j
          BY <1>1, <1>2, <2>2, <4>1, <4>2
        <4>4. appl <= f
          BY <1>1
        <4> QED BY <1>1, <2>2, <4>2, <4>3, <4>4
      <3>3. d < x
        <4>1. SUFFICES ASSUME x <= d PROVE FALSE
          BY <2>2, <3>1
        <4>2. x * P <= d * P
          BY <1>1, <2>2, <3>1, <4>1, Mono
        <4>3. PICK y \in Int, z \in Int : y = x * P /\ z = d * P
          BY <1>1, <2>2, <3>1
        <4> QED BY <3>2, <4>2, <4>3
      <3> QED BY <1>1, <2>1, <2>3, <3>1, <3>3
    <2>8. p < back
      <3>1. back # 0 /\ f < Due
        BY <1>1, <2>1 DEF Looked, Due
      <3>2. PICK d \in Int : d = back - first
        BY <1>1, <2>1
      <3>3. f < d * P - 1 /\ d * P \in Int
        BY <1>1, <3>1, <3>2 DEF Due
      <3>4. x < d
        <4>1. SUFFICES ASSUME d <= x PROVE FALSE
          BY <2>2, <3>2
        <4>2. d * P <= x * P
          BY <1>1, <2>2, <3>2, <4>1, Mono
        <4>3. PICK y \in Int, z \in Int : y = x * P /\ z = d * P
          BY <1>1, <2>2, <3>2
        <4>4. f = y + j /\ z <= y /\ f < z - 1
          BY <2>2, <3>3, <4>2, <4>3
        <4> QED BY <2>2, <4>3, <4>4
      <3> QED BY <1>1, <2>1, <2>2, <2>3, <3>2, <3>4
    <2>9. back <= played
      <3>1. Len(rxq) \in Nat /\ back + Len(rxq) = played
        BY <1>1, <2>1, Types DEF InTurn
      <3> QED BY <1>1, <3>1
    <2>10. p \in Nat
      <3>1. f >= 0
        BY <1>1
      <3>2. x >= 0
        <4>1. SUFFICES ASSUME x <= -1 PROVE FALSE
          BY <2>2
        <4>2. x * P <= (-1) * P
          BY <1>1, <2>2, <4>1, Mono
        <4>3. PICK y \in Int : y = x * P
          BY <1>1, <2>2
        <4>4. y <= -P /\ f = y + j
          BY <1>1, <2>2, <4>2, <4>3
        <4> QED BY <1>1, <2>2, <3>1, <4>3, <4>4
      <3>3. x \in Int /\ first \in Nat /\ p = x + first
        BY <2>1, <2>2, <2>3
      <3> QED BY <3>2, <3>3
    <2>11. tape[p % N] = p
      <3>1. played - N <= p /\ p < played
        BY <1>1, <2>7, <2>8, <2>9, <2>10
      <3> QED BY <2>1, <2>10, <3>1 DEF Taped
    <2>12. dspq # <<>> => Head(dspq) # p % N
      <3>1. ASSUME dspq # <<>> PROVE Head(dspq) = played % N
        <4>1. dspq \in Seq(0 .. N - 1)
          BY <1>1, Types
        <4>2. Len(dspq) \in Nat \ {0} /\ Head(dspq) = dspq[1]
          BY <3>1, <4>1, Popped
        <4>3. 1 \in 1 .. Len(dspq) /\ Head(dspq) = dspq[1] /\ played + 1 - 1 = played
          BY <1>1, <4>2
        <4> QED BY <2>1, <4>3 DEF InTurn
      <3>2. played - p < N /\ p - played < N /\ played # p
        BY <1>1, <2>7, <2>8, <2>9, <2>10
      <3>3. played \in Int /\ p \in Int /\ N \in Nat \ {0}
        BY <1>1
      <3>4. played % N # p % N
        BY <3>2, <3>3, SamePlace
      <3> QED BY <3>1, <3>4
    <2> QED BY <2>2, <2>3, <2>6, <2>11, <2>12 DEF Intact
  <1>3. KeepsRecording
    BY DEF KeepsRecording, CaptureInv, AllAround, Around, Called
  <1> QED BY <1>2, <1>3 DEF ReadableIsIntact

-----------------------------------------------------------------------------
\* Pull.

\* ALSA's pointer is taken no further than to where it is told.
LEMMA Behind ==
  ASSUME hw \in Nat, NEW t \in Int, hw <= t
  PROVE  Onward(t % Size) <= t
  <1>1. PICK S \in Nat \ {0} : S = Size
    BY SizeIs
  <1>2. PICK s \in Int, v \in 0 .. S - 1 : s = t \div S /\ v = t % S /\ t = s * S + v
    BY Divided
  <1>3. PICK o \in Int : o = Onward(t % Size) /\ o < hw + S /\ o % S = v
    <2>1. t % Size \in 0 .. Size - 1
      BY <1>1, <1>2
    <2> QED BY <1>1, <1>2, <2>1, OnwardIs
  <1>4. PICK q \in Int, u \in 0 .. S - 1 : q = o \div S /\ u = o % S /\ o = q * S + u
    BY Divided
  <1>5. PICK m \in Int : m = s - q
    OBVIOUS
  <1>6. PICK y \in Int : y = m * S /\ t = o + y
    <2>1. m * S = s * S - q * S /\ s * S \in Int /\ q * S \in Int /\ m * S \in Int
      BY <1>5, Distributed
    <2>2. u = v
      BY <1>3, <1>4
    <2> QED BY <1>2, <1>4, <2>1, <2>2
  <1>7. m >= 0
    <2>1. SUFFICES ASSUME m <= -1 PROVE FALSE
      BY <1>5
    <2>2. m * S <= (-1) * S
      BY <2>1, Mono
    <2>3. y <= -S
      BY <1>6, <2>2
    <2> QED BY <1>3, <1>6, <2>3
  <1>8. y >= 0
    <2>1. 0 * S <= m * S
      BY <1>7, Mono
    <2> QED BY <1>6, <2>1
  <1> QED BY <1>3, <1>6, <1>8

LEMMA PullTypes ==
  ASSUME PullInv
  PROVE  /\ appl \in Nat /\ hw \in Nat /\ pulled \in Nat /\ hwPtr \in 0 .. Size - 1 /\ origin \in Int
         /\ page \in [counter : Nat, index : Nat]
         /\ look \in [at : {"idle", "index", "after"}, before : Nat, index : 0 .. Size - 1, tries : Int]
         /\ blind \in BOOLEAN /\ appl <= hw + Size /\ page.index = pulled % Size
         /\ look.at # "idle" => alsa = "RUNNING"
         /\ alsa \in {"PREPARED", "PAUSED"} => blind
BY DEF PullInv

\* The DSP goes on, or stores its counter.
LEMMA StorePulls ==
  ASSUME PullInv, NEW what \in {"counter", "index"}, Store(what)
  PROVE  PullInv'
  <1>1. /\ page' = IF what = "index" THEN [page EXCEPT !.index = (page.index + 1) % Size]
                   ELSE [page EXCEPT !.counter = (page.counter + 1) % Wrap]
        /\ pulled' = IF what = "index" THEN pulled + 1 ELSE pulled
        /\ UNCHANGED <<alsa, appl, hw, hwPtr, blind, look, origin>>
    BY DEF Store, app
  <1>2. pulled \in Nat /\ page \in [counter : Nat, index : Nat] /\ page.index = pulled % Size
    BY PullTypes
  <1>3. (page.index + 1) % Size = (pulled + 1) % Size /\ (page.index + 1) % Size \in Nat
    <2>1. ((pulled % Size) + 1) % Size = (pulled + 1) % Size
      <3>1. PICK p \in Int : p = pulled
        BY <1>2
      <3>2. ((p % Size) + 1) % Size = (p + 1) % Size
        <4>1. Size \in Nat \ {0} /\ 1 \in Int
          BY RoundIs
        <4> QED BY <4>1, ModStep, Zenon
      <3> QED BY <3>1, <3>2
    <2>2. (pulled + 1) % Size \in 0 .. Size - 1
      BY <1>2, RoundIs, DivMod
    <2>3. (pulled + 1) % Size \in Nat
      BY <2>2, RoundIs
    <2> QED BY <1>2, <2>1, <2>3
  <1>4. (page.counter + 1) % Wrap \in Nat
    <2>1. PICK c \in Int : c = page.counter + 1
      BY <1>2
    <2>2. c % Wrap \in 0 .. Wrap - 1 /\ Wrap \in Nat \ {0}
      BY DivMod, PullAssumption
    <2> QED BY <2>1, <2>2
  <1>5. pulled' \in Nat /\ page' \in [counter : Nat, index : Nat] /\ page'.index = pulled' % Size
    <2>1. CASE what = "index"
      BY <1>1, <1>2, <1>3, <2>1
    <2>2. CASE what = "counter"
      BY <1>1, <1>2, <1>4, <2>2
    <2> QED BY <2>1, <2>2
  <1>6. ASSUME ~blind'
        PROVE  /\ origin' % Size = 0 /\ hw' % Size = hwPtr' /\ hw' + origin' <= pulled'
               /\ look'.at = "after" => \E n \in Int : Seen(n)'
    <2>1. /\ origin % Size = 0 /\ hw % Size = hwPtr /\ hw + origin <= pulled
          /\ look.at = "after" => \E n \in Int : Seen(n)
      BY <1>1, <1>6 DEF PullInv
    <2>2. PICK p \in Nat, x \in Int : p = pulled' /\ x = pulled /\ x <= p
      <3>1. pulled <= (IF what = "index" THEN pulled + 1 ELSE pulled)
        BY <1>2
      <3> QED BY <1>1, <1>2, <1>5, <3>1
    <2>3. hw + origin <= p
      <3>1. hw + origin \in Int
        BY PullTypes
      <3> QED BY <2>1, <2>2, <3>1
    <2>4. ASSUME look.at = "after" PROVE \E n \in Int : Seen(n)'
      <3>1. PICK n \in Int : Seen(n)
        BY <2>1, <2>4
      <3>2. n <= p
        BY <2>2, <3>1 DEF Seen
      <3> QED BY <1>1, <2>2, <3>1, <3>2 DEF Seen
    <2> QED BY <1>1, <2>1, <2>2, <2>3, <2>4
  <1>7. /\ {appl, hw, pulled}' \subseteq Nat /\ hwPtr' \in 0 .. Size - 1 /\ origin' \in Int
        /\ look' \in [at : {"idle", "index", "after"}, before : Nat, index : 0 .. Size - 1, tries : Int]
        /\ blind' \in BOOLEAN /\ appl' <= hw' + Size
        /\ (look'.at # "idle" => alsa' = "RUNNING") /\ (alsa' \in {"PREPARED", "PAUSED"} => blind')
    BY <1>1, <1>5, PullTypes
  <1> QED BY <1>5, <1>6, <1>7 DEF PullInv

\* The application's calls, with nobody looking.
LEMMA CallPulls ==
  ASSUME PullInv, look.at = "idle",
         UNCHANGED <<hwPtr, page, look, pulled, origin>>,
         appl' \in Nat, hw' \in Nat, appl' <= hw' + Size,
         blind' = TRUE \/ (blind' = blind /\ hw' = hw),
         alsa' \in {"PREPARED", "PAUSED"} => blind'
  PROVE  PullInv'
  <1>1. /\ pulled' \in Nat /\ hwPtr' \in 0 .. Size - 1 /\ origin' \in Int
        /\ page' \in [counter : Nat, index : Nat]
        /\ look' \in [at : {"idle", "index", "after"}, before : Nat, index : 0 .. Size - 1, tries : Int]
        /\ blind' \in BOOLEAN /\ page'.index = pulled' % Size /\ look'.at = "idle"
    BY PullTypes
  <1>2. ASSUME ~blind'
        PROVE  origin' % Size = 0 /\ hw' % Size = hwPtr' /\ hw' + origin' <= pulled'
    BY <1>2 DEF PullInv
  <1> QED BY <1>1, <1>2 DEF PullInv

\* A look goes on.
LEMMA LookPulls ==
  ASSUME PullInv, Look \/ LookIndex \/ Disagree
  PROVE  PullInv' /\ hw' = hw
  <1>1. /\ UNCHANGED <<alsa, appl, hw, hwPtr, blind, page, pulled, origin>>
        /\ alsa = "RUNNING"
        /\ look' \in [at : {"idle", "index", "after"}, before : Nat, index : 0 .. Size - 1, tries : Int]
        /\ look'.at = "after" => look'.index = pulled % Size
    <2>1. /\ page.counter \in Nat /\ page.index = pulled % Size
          /\ look \in [at : {"idle", "index", "after"}, before : Nat, index : 0 .. Size - 1, tries : Int]
          /\ look.at # "idle" => alsa = "RUNNING"
      BY PullTypes
    <2>2. pulled % Size \in 0 .. Size - 1
      BY PullTypes, DivMod, RoundIs
    <2>3. Tries \in Int
      BY PullAssumption
    <2>4. CASE Look
      <3>1. /\ UNCHANGED <<alsa, appl, hw, hwPtr, blind, page, pulled, origin>> /\ alsa = "RUNNING"
            /\ look' = [look EXCEPT !.at = "index", !.before = page.counter, !.tries = Tries]
        BY <2>4 DEF Look, LookAgain, app
      <3> QED BY <2>1, <2>3, <3>1
    <2>5. CASE LookIndex
      <3>1. /\ UNCHANGED <<alsa, appl, hw, hwPtr, blind, page, pulled, origin>> /\ look.at = "index"
            /\ look' = [look EXCEPT !.at = "after", !.index = page.index]
        BY <2>5 DEF LookIndex, app
      <3> QED BY <2>1, <2>2, <3>1
    <2>6. CASE Disagree
      <3>1. /\ UNCHANGED <<alsa, appl, hw, hwPtr, blind, page, pulled, origin>> /\ look.at = "after"
            /\ look' = [look EXCEPT !.at = "index", !.before = page.counter, !.tries = look.tries - 1]
        BY <2>6 DEF Disagree, LookAgain, app
      <3>2. look.tries - 1 \in Int
        BY <2>1
      <3> QED BY <2>1, <3>1, <3>2
    <2> QED BY <2>4, <2>5, <2>6
  <1>2. ASSUME ~blind'
        PROVE  /\ origin' % Size = 0 /\ hw' % Size = hwPtr' /\ hw' + origin' <= pulled'
               /\ look'.at = "after" => \E n \in Int : Seen(n)'
    <2>1. origin % Size = 0 /\ hw % Size = hwPtr /\ hw + origin <= pulled
      BY <1>1, <1>2 DEF PullInv
    <2>2. ASSUME look'.at = "after" PROVE \E n \in Int : Seen(n)'
      <3>1. PICK n \in Int : n = pulled
        BY PullTypes
      <3>2. hw' + origin' <= n /\ n <= pulled' /\ look'.index = n % Size
        BY <1>1, <2>1, <2>2, <3>1
      <3> QED BY <3>2 DEF Seen
    <2> QED BY <1>1, <2>1, <2>2
  <1>3. /\ {appl, hw, pulled}' \subseteq Nat /\ hwPtr' \in 0 .. Size - 1 /\ origin' \in Int
        /\ page' \in [counter : Nat, index : Nat] /\ page'.index = pulled' % Size
        /\ blind' \in BOOLEAN /\ appl' <= hw' + Size
        /\ alsa' = "RUNNING"
    BY <1>1, PullTypes
  <1> QED BY <1>1, <1>2, <1>3 DEF PullInv

\* It ends, and ALSA has the index or what it had.
LEMMA DonePulls ==
  ASSUME PullInv, LookDone
  PROVE  PullInv'
  <1>1. /\ look.at = "after" /\ look' = NoLook /\ hwPtr' = Index /\ hw' = Onward(Index) /\ blind' = FALSE
        /\ origin' = IF blind THEN pulled - hw' - ((pulled - hw') % Size) ELSE origin
        /\ alsa' \in {alsa, "XRUN"} /\ UNCHANGED <<appl, page, pulled>>
    BY DEF LookDone
  <1>2. /\ hw \in Nat /\ pulled \in Nat /\ hwPtr \in 0 .. Size - 1 /\ look.index \in 0 .. Size - 1
        /\ appl \in Nat /\ appl <= hw + Size /\ alsa = "RUNNING" /\ Size \in Nat \ {0} /\ origin \in Int
        /\ blind \in BOOLEAN
    BY <1>1, PullTypes, RoundIs
  <1>3. Index \in 0 .. Size - 1 /\ (Index = look.index \/ Index = hwPtr)
    BY <1>2 DEF Index
  <1>4. PICK h \in Nat : h = hw' /\ hw <= h /\ h % Size = Index
    BY <1>1, <1>2, <1>3, OnwardIs
  <1>5. appl <= h + Size
    <2>1. hw <= h
      BY <1>4
    <2> QED BY <1>2, <2>1
  <1>6. /\ origin' \in Int /\ origin' % Size = 0 /\ h + origin' <= pulled
    <2>1. CASE blind
      <3>1. PICK a \in Int : a = pulled - h
        BY <1>2
      <3>2. PICK q \in Int, r \in 0 .. Size - 1 : q = a \div Size /\ r = a % Size /\ a = q * Size + r
        BY <1>2, Divided
      <3>3. PICK o \in Int : o = a - r
        BY <1>2
      <3>4. o = q * Size + 0 /\ 0 \in 0 .. Size - 1
        BY <1>2, <3>2, <3>3
      <3>5. o % Size = 0
        BY <1>2, <3>4, DivModIs
      <3>6. origin' = o
        BY <1>1, <1>4, <2>1, <3>1, <3>2, <3>3
      <3>7. h + o <= pulled
        BY <1>2, <3>1, <3>2, <3>3
      <3> QED BY <3>5, <3>6, <3>7
    <2>2. CASE ~blind
      <3>1. /\ origin % Size = 0 /\ hw % Size = hwPtr /\ hw + origin <= pulled /\ origin' = origin
            /\ \E n \in Int : Seen(n)
        BY <1>1, <2>2 DEF PullInv
      <3>2. PICK n \in Int : hw + origin <= n /\ n <= pulled /\ look.index = n % Size
        BY <3>1 DEF Seen
      <3>3. PICK t \in Int : t = n - origin
        BY <1>2
      <3>4. hw <= t
        BY <1>2, <3>2, <3>3
      <3>5. t % Size = look.index
        <4>1. PICK k \in Int, r \in 0 .. Size - 1 :
                k = origin \div Size /\ r = origin % Size /\ origin = k * Size + r
          BY <1>2, Divided
        <4>2. n = t + k * Size
          <5>1. r = 0 /\ k * Size \in Int
            BY <1>2, <3>1, <4>1
          <5> QED BY <1>2, <3>3, <4>1, <5>1
        <4>3. n % Size = t % Size
          BY <1>2, <4>2, ModSame
        <4> QED BY <3>2, <4>3
      <3>6. CASE Index = look.index
        <4>1. h <= t
          BY <1>1, <1>2, <1>4, <3>4, <3>5, <3>6, Behind
        <4> QED BY <1>2, <3>1, <3>2, <3>3, <4>1
      <3>7. CASE Index = hwPtr
        <4>1. h = hw
          <5>1. hw \in Int /\ hw <= hw /\ hw < hw + Size
            BY <1>2
          <5>2. Onward(hw % Size) = hw
            BY <1>2, <5>1, OnwardTo
          <5> QED BY <1>1, <1>4, <3>1, <3>7, <5>2
        <4> QED BY <1>2, <3>1, <4>1
      <3> QED BY <1>3, <3>6, <3>7
    <2> QED BY <2>1, <2>2
  <1>7. look' \in [at : {"idle", "index", "after"}, before : Nat, index : 0 .. Size - 1, tries : Int]
        /\ look'.at = "idle"
    BY <1>1, <1>2 DEF NoLook
  <1>8. page' \in [counter : Nat, index : Nat] /\ page'.index = pulled' % Size
    BY <1>1, PullTypes
  <1> QED BY <1>1, <1>2, <1>3, <1>4, <1>5, <1>6, <1>7, <1>8 DEF PullInv

LEMMA PullKept ==
  ASSUME PullInv, PullNext
  PROVE  PullInv'
  <1>0. appl \in Nat /\ hw \in Nat /\ appl <= hw + Size /\ Size \in Nat \ {0}
        /\ (alsa \in {"PREPARED", "PAUSED"} => blind)
    BY PullTypes, RoundIs
  <1>1. CASE PullPrepare
    <2>1. /\ look.at = "idle" /\ appl' = 0 /\ hw' = 0 /\ blind' = TRUE
          /\ UNCHANGED <<hwPtr, page, look, pulled, origin>>
      BY <1>1 DEF PullPrepare, Idle, pullVars
    <2>2. appl' \in Nat /\ hw' \in Nat /\ appl' <= hw' + Size
      BY <1>0, <2>1
    <2> QED BY <2>1, <2>2, CallPulls
  <1>2. ASSUME NEW k \in 1 .. Size, PullWrite(k) PROVE PullInv'
    <2>1. /\ look.at = "idle" /\ appl' = appl + k /\ k <= hw + Size - appl
          /\ UNCHANGED <<alsa, hw, hwPtr, blind, page, look, pulled, origin>>
      BY <1>2 DEF PullWrite, MayWrite, Idle, pullVars
    <2>2. appl' \in Nat /\ appl' <= hw' + Size
      <3>1. appl + k \in Nat /\ appl + k <= hw + Size
        BY <1>0, <2>1
      <3> QED BY <2>1, <3>1
    <2> QED BY <1>0, <2>1, <2>2, CallPulls
  <1>3. CASE PullStart \/ PullPause \/ PullDrop
    <2>1. /\ look.at = "idle" /\ UNCHANGED <<appl, hw, hwPtr, page, look, pulled, origin>>
          /\ blind' = TRUE \/ blind' = blind
          /\ alsa' \in {"PREPARED", "PAUSED"} => blind'
      BY <1>3 DEF PullStart, PullPause, PullDrop, Idle, pullVars
    <2> QED BY <1>0, <2>1, CallPulls
  <1>4. CASE Update
    <2>1. PICK what \in {"counter", "index"} : Store(what)
      BY <1>4 DEF Update
    <2> QED BY <2>1, StorePulls
  <1>5. CASE Updated
    <2>1. Store(half)
      BY <1>5 DEF Updated
    <2>2. CASE half \in {"counter", "index"}
      BY <2>1, <2>2, StorePulls
    <2>3. CASE half \notin {"counter", "index"}
      <3>1. Store("counter")
        BY <2>1, <2>3 DEF Store
      <3> QED BY <3>1, StorePulls
    <2> QED BY <2>2, <2>3
  <1>6. CASE Look \/ LookIndex \/ Disagree
    BY <1>6, LookPulls
  <1>7. CASE LookDone
    BY <1>7, DonePulls
  <1> QED BY <1>1, <1>2, <1>3, <1>4, <1>5, <1>6, <1>7 DEF PullNext

\* The DSP's next frame is where ALSA thinks it is.
LEMMA PullWhole ==
  ASSUME PullInv
  PROVE  PullsTheStream
  <1>1. SUFFICES ASSUME ~blind
                 PROVE  /\ hw + origin <= pulled
                        /\ pulled - origin < appl => Content(pulled % Size) = pulled - origin
    BY DEF PullsTheStream
  <1>2. origin % Size = 0 /\ hw + origin <= pulled
    BY <1>1 DEF PullInv
  <1>3. appl \in Nat /\ hw \in Nat /\ pulled \in Nat /\ origin \in Int /\ appl <= hw + Size
        /\ Size \in Nat \ {0}
    BY PullTypes, RoundIs
  <1>4. PICK f \in Nat : f = pulled - origin /\ hw <= f /\ appl <= f + Size
    BY <1>2, <1>3
  <1>5. PICK k \in Int, r \in 0 .. Size - 1 :
          k = origin \div Size /\ r = origin % Size /\ origin = k * Size + r
    BY <1>3, Divided
  <1>6. pulled = f + k * Size
    <2>1. r = 0 /\ k * Size \in Int
      BY <1>2, <1>3, <1>5
    <2> QED BY <1>3, <1>4, <1>5, <2>1
  <1>7. pulled % Size = f % Size
    <2>1. (f + k * Size) % Size = f % Size
      <3>1. f \in Int /\ Size \in Nat \ {0}
        BY <1>3
      <3> QED BY <3>1, ModSame, Zenon
    <2> QED BY <1>6, <2>1
  <1>8. ASSUME f < appl PROVE Content(f % Size) = f
    BY <1>3, <1>4, <1>8, ContentIs
  <1> QED BY <1>2, <1>4, <1>7, <1>8

-----------------------------------------------------------------------------
\* Compressed playback: queues, rounding.

LEMMA FragmentsAre == Fragments \in Nat \ {0} /\ F \in Nat \ {0} /\ Compr!RingUnits \in Nat
  <1>1. Fragments \in Nat \ {0} /\ F \in Nat \ {0}
    BY ComprAssumption DEF Compr!ComprAssumption
  <1>2. Fragments * F \in Nat
    BY <1>1
  <1> QED BY <1>1, <1>2 DEF Compr!RingUnits

LEMMA AlignedIs ==
  ASSUME NEW n \in Nat
  PROVE  /\ Compr!Aligned(n) \in Nat /\ n <= Compr!Aligned(n)
         /\ n % F = 0 => Compr!Aligned(n) = n
  <1>1. PICK m \in Int : m = n + F - 1
    BY FragmentsAre
  <1>2. PICK q \in Int, r \in 0 .. F - 1 : q = m \div F /\ r = m % F /\ m = q * F + r
    BY FragmentsAre, Divided
  <1>3. PICK a \in Int : a = q * F
    BY FragmentsAre
  <1>4. Compr!Aligned(n) = a
    BY <1>1, <1>2, <1>3 DEF Compr!Aligned
  <1>5. F \in Nat \ {0}
    BY FragmentsAre
  <1>6. n <= a /\ a \in Nat
    BY <1>1, <1>2, <1>3, <1>5
  <1>7. ASSUME n % F = 0 PROVE a = n
    <2>1. PICK k \in Int, u \in 0 .. F - 1 : k = n \div F /\ u = n % F /\ n = k * F + u
      BY FragmentsAre, Divided
    <2>2. m = k * F + (F - 1) /\ F - 1 \in 0 .. F - 1
      BY <1>1, <1>5, <1>7, <2>1
    <2>3. q = k
      BY <1>2, <1>5, <2>2, DivModIs
    <2> QED BY <1>3, <1>5, <1>7, <2>1, <2>3
  <1> QED BY <1>4, <1>6, <1>7

LEMMA AlignedMono ==
  ASSUME NEW a \in Nat, NEW b \in Nat, a <= b
  PROVE  Compr!Aligned(a) <= Compr!Aligned(b)
  <1>0. F \in Nat \ {0}
    BY FragmentsAre
  <1>1. PICK m \in Int, n \in Int : m = a + F - 1 /\ n = b + F - 1 /\ m <= n
    BY <1>0
  <1>2. PICK q \in Int, r \in 0 .. F - 1 : q = m \div F /\ r = m % F /\ m = q * F + r
    BY <1>0, Divided
  <1>3. PICK k \in Int, u \in 0 .. F - 1 : k = n \div F /\ u = n % F /\ n = k * F + u
    BY <1>0, Divided
  <1>4. q <= k
    <2>1. SUFFICES ASSUME k + 1 <= q PROVE FALSE
      BY <1>2, <1>3
    <2>2. (k + 1) * F <= q * F
      BY <1>0, <1>3, <2>1, Mono
    <2>3. (k + 1) * F = k * F + 1 * F
      BY <1>0, <1>3, Distributed
    <2>4. PICK x \in Int, y \in Int : x = q * F /\ y = k * F
      BY <1>0, <1>2, <1>3
    <2> QED BY <1>0, <1>1, <1>2, <1>3, <2>2, <2>3, <2>4
  <1>5. q * F <= k * F
    BY <1>0, <1>4, Mono
  <1> QED BY <1>1, <1>2, <1>3, <1>5 DEF Compr!Aligned

LEMMA ItemsAre ==
  ASSUME NEW s \in Seq(Item)
  PROVE  Len(s) \in Nat /\ (s = <<>> <=> Len(s) = 0) /\ \A i \in 1 .. Len(s) : s[i] \in Item
BY EmptyIs

LEMMA OutstandingIs ==
  ASSUME NEW s \in Seq(Item)
  PROVE  /\ Compr!Outstanding(s) \in Nat
         /\ s = <<>> => Compr!Outstanding(s) = 0
         /\ s # <<>> /\ s[Len(s)] = Compr!Eos => Compr!Outstanding(s) = Len(s) - 1
         /\ s # <<>> /\ s[Len(s)] # Compr!Eos => Compr!Outstanding(s) = Len(s)
         /\ (\A i \in 1 .. Len(s) : s[i] # Compr!Eos) => Compr!Outstanding(s) = Len(s)
  <1>1. Len(s) \in Nat /\ (s = <<>> <=> Len(s) = 0)
    BY ItemsAre
  <1>2. ASSUME \A i \in 1 .. Len(s) : s[i] # Compr!Eos PROVE ~(s # <<>> /\ s[Len(s)] = Compr!Eos)
    BY <1>1, <1>2
  <1> QED BY <1>1, <1>2 DEF Compr!Outstanding

\* A fragment is handed over, and perhaps an end-of-stream behind it.
LEMMA HandedIs ==
  ASSUME NEW s \in Seq(Item), NEW x \in Item, NEW e \in Item, NEW t, NEW last \in BOOLEAN,
         t = s \o <<x>> \o (IF last THEN <<e>> ELSE <<>>)
  PROVE  /\ t \in Seq(Item) /\ t # <<>>
         /\ Len(t) = IF last THEN Len(s) + 2 ELSE Len(s) + 1
         /\ \A i \in 1 .. Len(s) : t[i] = s[i]
         /\ t[Len(s) + 1] = x
         /\ last => t[Len(s) + 2] = e
  <1>1. PICK u : u = s \o <<x>>
    OBVIOUS
  <1>2. <<x>> \in Seq(Item) /\ Len(<<x>>) = 1 /\ <<x>>[1] = x
    OBVIOUS
  <1>3. /\ u \in Seq(Item) /\ Len(s) \in Nat /\ Len(u) = Len(s) + 1
        /\ \A i \in 1 .. Len(s) : u[i] = s[i]
        /\ u[Len(s) + 1] = x
    BY <1>1, <1>2
  <1>4. CASE last
    <2>1. <<e>> \in Seq(Item) /\ Len(<<e>>) = 1 /\ <<e>>[1] = e /\ t = u \o <<e>>
      BY <1>1, <1>4
    <2>2. /\ t \in Seq(Item) /\ Len(t) = Len(u) + 1
          /\ \A i \in 1 .. Len(u) : t[i] = u[i]
          /\ t[Len(u) + 1] = e
      BY <1>3, <2>1
    <2>3. \A i \in 1 .. Len(s) : i \in 1 .. Len(u)
      BY <1>3
    <2>4. Len(s) + 1 \in 1 .. Len(u) /\ Len(u) + 1 = Len(s) + 2
      BY <1>3
    <2>5. t # <<>>
      BY <1>3, <2>2
    <2> QED BY <1>3, <1>4, <2>2, <2>3, <2>4, <2>5
  <1>5. CASE ~last
    <2>1. t = u
      BY <1>1, <1>3, <1>5
    <2> QED BY <1>3, <1>5, <2>1
  <1> QED BY <1>4, <1>5

LEMMA ComprTyped ==
  ASSUME ComprTypes
  PROVE  /\ total \in Nat /\ received \in Nat /\ sent \in Nat /\ copied \in Nat /\ heard \in Nat
         /\ copying \in Nat /\ copying \in {0, 1, F} /\ fragment \in 0 .. Fragments - 1
         /\ fragment \in Nat
         /\ decoder \in Seq(Item) /\ done \in Seq(Item)
         /\ active \in BOOLEAN /\ nextTrack \in BOOLEAN /\ notify \in BOOLEAN /\ fed \in BOOLEAN
         /\ vain \in BOOLEAN
  <1>1. copying \in {0, 1, F} /\ fragment \in 0 .. Fragments - 1
    BY DEF ComprTypes
  <1>2. copying \in Nat /\ fragment \in Nat
    BY <1>1, FragmentsAre
  <1> QED BY <1>1, <1>2 DEF ComprTypes

\* What q6apm_write_async leaves.
LEMMA HandOverIs ==
  ASSUME ComprTypes, NEW len \in Nat, NEW last \in BOOLEAN, Compr!HandOver(len, last)
  PROVE  /\ decoder' \in Seq(Item) /\ decoder' # <<>> /\ fragment' \in 0 .. Fragments - 1
         /\ Len(decoder) \in Nat
         /\ Len(decoder') = IF last THEN Len(decoder) + 2 ELSE Len(decoder) + 1
         /\ \A i \in 1 .. Len(decoder) : decoder'[i] = decoder[i]
         /\ decoder'[Len(decoder) + 1] = [buf |-> fragment, len |-> len]
         /\ [buf |-> fragment, len |-> len] # Compr!Eos
         /\ last => decoder'[Len(decoder) + 2] = Compr!Eos
         /\ last => HasEos(decoder')
         /\ HasEos(decoder) => HasEos(decoder')
  <1>1. PICK x : x = [buf |-> fragment, len |-> len]
    OBVIOUS
  <1>2. x \in Item /\ x # Compr!Eos /\ Compr!Eos \in Item
    <2>1. fragment \in Nat
      BY ComprTyped
    <2>2. x.buf # -1 /\ Compr!Eos.buf = -1
      BY <1>1, <2>1 DEF Compr!Eos
    <2>3. x \in Item /\ Compr!Eos \in Item
      BY <1>1, <2>1 DEF Compr!Eos, Item
    <2> QED BY <2>2, <2>3
  <1>3. decoder' = decoder \o <<x>> \o (IF last THEN <<Compr!Eos>> ELSE <<>>)
    BY <1>1 DEF Compr!HandOver
  <1>4. /\ decoder' \in Seq(Item) /\ decoder' # <<>>
        /\ Len(decoder') = IF last THEN Len(decoder) + 2 ELSE Len(decoder) + 1
        /\ \A i \in 1 .. Len(decoder) : decoder'[i] = decoder[i]
        /\ decoder'[Len(decoder) + 1] = x
        /\ last => decoder'[Len(decoder) + 2] = Compr!Eos
    <2>1. decoder \in Seq(Item)
      BY ComprTyped
    <2> QED BY <1>2, <1>3, <2>1, HandedIs
  <1>5. Len(decoder) \in Nat
    BY ComprTyped, ItemsAre
  <1>6. fragment' \in 0 .. Fragments - 1
    <2>1. fragment + 1 \in Int
      BY ComprTyped
    <2>2. PICK f \in Int : f = fragment + 1
      BY <2>1
    <2>3. f % Fragments \in 0 .. Fragments - 1
      BY FragmentsAre, DivMod
    <2> QED BY <2>2, <2>3 DEF Compr!HandOver
  <1>7. last => HasEos(decoder')
    <2>1. last => Len(decoder) + 2 \in 1 .. Len(decoder')
      BY <1>4, <1>5
    <2> QED BY <1>4, <2>1 DEF HasEos
  <1>8. HasEos(decoder) => HasEos(decoder')
    <2>1. \A i \in 1 .. Len(decoder) : i \in 1 .. Len(decoder')
      BY <1>4, <1>5
    <2> QED BY <1>4, <2>1 DEF HasEos
  <1> QED BY <1>1, <1>2, <1>4, <1>5, <1>6, <1>7, <1>8

\* ... and that it stays in line, if it had room.
LEMMA HandOverInLine ==
  ASSUME ComprTypes, Counted, InLine, ~HasEos(decoder), NEW last \in BOOLEAN, Compr!HandOver(F, last),
         heard' = heard, last => notify' /\ sent' = received'
  PROVE  /\ InLine' /\ Compr!HandedOver' = Compr!HandedOver + F
         /\ fragment' = (heard' + Compr!Outstanding(decoder')) % Fragments
  <1>0. F \in Nat \ {0} /\ F \in Nat /\ Fragments \in Nat \ {0}
    BY FragmentsAre
  <1>1. /\ decoder' \in Seq(Item) /\ decoder' # <<>> /\ Len(decoder) \in Nat
        /\ Len(decoder') = IF last THEN Len(decoder) + 2 ELSE Len(decoder) + 1
        /\ \A i \in 1 .. Len(decoder) : decoder'[i] = decoder[i]
        /\ decoder'[Len(decoder) + 1] = [buf |-> fragment, len |-> F]
        /\ [buf |-> fragment, len |-> F] # Compr!Eos
        /\ last => decoder'[Len(decoder) + 2] = Compr!Eos
    BY <1>0, HandOverIs
  <1>2. \A i \in 1 .. Len(decoder) : decoder[i] # Compr!Eos
    BY DEF HasEos
  <1>3. Compr!Outstanding(decoder) = Len(decoder)
    <2>1. decoder \in Seq(Item)
      BY ComprTyped
    <2> QED BY <1>2, <2>1, OutstandingIs
  <1>4. Compr!Outstanding(decoder') = Len(decoder) + 1
    <2>1. CASE last
      <3>1. decoder'[Len(decoder')] = Compr!Eos /\ Len(decoder') - 1 = Len(decoder) + 1
        BY <1>1, <2>1
      <3> QED BY <1>1, <3>1, OutstandingIs
    <2>2. CASE ~last
      <3>1. decoder'[Len(decoder')] # Compr!Eos /\ Len(decoder') = Len(decoder) + 1
        BY <1>1, <2>2
      <3> QED BY <1>1, <3>1, OutstandingIs
    <2> QED BY <2>1, <2>2
  <1>5. PICK l \in Nat, h \in Nat : l = Len(decoder) /\ h = heard
    BY <1>1, ComprTyped
  <1>6. Compr!HandedOver' = Compr!HandedOver + F
    <2>1. (h + (l + 1)) * F = (h + l) * F + 1 * F
      <3>1. h + (l + 1) = (h + l) + 1 /\ h + l \in Int
        OBVIOUS
      <3> QED BY <1>0, <3>1, Distributed
    <2>2. Compr!HandedOver' = (h + (l + 1)) * F
      BY <1>4, <1>5 DEF Compr!HandedOver
    <2>3. Compr!HandedOver = (h + l) * F
      BY <1>3, <1>5 DEF Compr!HandedOver
    <2> QED BY <1>0, <2>1, <2>2, <2>3
  <1>7. fragment' = (heard' + Compr!Outstanding(decoder')) % Fragments
    <2>1. PICK c \in Int : c = h + l
      OBVIOUS
    <2>2. fragment = c % Fragments
      BY <1>3, <1>5, <2>1 DEF Counted
    <2>3. ((c % Fragments) + 1) % Fragments = (c + 1) % Fragments
      <3>1. 1 \in Int
        OBVIOUS
      <3> QED BY <1>0, <3>1, ModStep, Zenon
    <2>4. heard' + Compr!Outstanding(decoder') = c + 1
      BY <1>4, <1>5, <2>1
    <2>5. fragment' = (fragment + 1) % Fragments
      BY DEF Compr!HandOver
    <2> QED BY <2>2, <2>3, <2>4, <2>5
  <1>8. ASSUME NEW i \in 1 .. Len(decoder')
        PROVE  IF decoder'[i] = Compr!Eos THEN i = Len(decoder') /\ notify' /\ sent' = received'
               ELSE decoder'[i] = [buf |-> (heard' + i - 1) % Fragments, len |-> F]
    <2>1. CASE i \in 1 .. Len(decoder)
      <3>1. decoder'[i] = decoder[i] /\ decoder[i] # Compr!Eos
        BY <1>1, <1>2, <2>1
      <3>2. decoder[i] = [buf |-> (heard + i - 1) % Fragments, len |-> F]
        BY <2>1, <3>1 DEF InLine
      <3> QED BY <3>1, <3>2
    <2>2. CASE i = Len(decoder) + 1
      <3>1. decoder'[i] = [buf |-> fragment, len |-> F] /\ decoder'[i] # Compr!Eos
        BY <1>1, <2>2
      <3>2. heard' + i - 1 = heard + Compr!Outstanding(decoder)
        BY <1>3, <1>5, <2>2
      <3>3. fragment = (heard' + i - 1) % Fragments
        BY <3>2 DEF Counted
      <3> QED BY <3>1, <3>3
    <2>3. CASE last /\ i = Len(decoder) + 2
      <3>1. decoder'[i] = Compr!Eos /\ i = Len(decoder')
        BY <1>1, <2>3
      <3> QED BY <2>3, <3>1
    <2>4. i \in 1 .. Len(decoder) \/ i = Len(decoder) + 1 \/ (last /\ i = Len(decoder) + 2)
      BY <1>1
    <2> QED BY <2>1, <2>2, <2>3, <2>4
  <1> QED BY <1>6, <1>7, <1>8 DEF InLine

-----------------------------------------------------------------------------
\* Compressed playback: the steps.

LEMMA ComprFacts ==
  ASSUME ComprInv
  PROVE  /\ ComprTypes /\ sent <= received
         /\ cstate = "DRAINING" => notify /\ copying = 0
         /\ cstate = "DRAINING" /\ ~vain => Comes
         /\ fed => Fed /\ Counted /\ InLine /\ Returned
BY DEF ComprInv, DrainInv, Fed

\* While the stream is fed, an end-of-stream is only there in a drain that
\* has sent everything.
LEMMA EndIs ==
  ASSUME InLine, Returned, HasEos(decoder) \/ HasEos(done)
  PROVE  notify /\ sent = received
  <1>1. CASE HasEos(decoder)
    <2>1. PICK i \in 1 .. Len(decoder) : decoder[i] = Compr!Eos
      BY <1>1 DEF HasEos
    <2> QED BY <2>1 DEF InLine
  <1>2. CASE HasEos(done)
    <2>1. PICK i \in 1 .. Len(done) : done[i] = Compr!Eos
      BY <1>2 DEF HasEos
    <2> QED BY <2>1 DEF Returned
  <1> QED BY <1>1, <1>2

\* Calls that change flags and states only, and are no drain.
LEMMA FlagsKeep ==
  ASSUME ComprInv,
         UNCHANGED <<total, received, sent, copied, notify, vain, fragment, decoder, done, copying, heard>>,
         fed' \in {fed, FALSE}, active' \in {TRUE, active}, nextTrack' \in {TRUE, nextTrack},
         cstate' = "DRAINING" => cstate = "DRAINING",
         fed' /\ cstate = "DRAINING" => cstate' = "DRAINING"
  PROVE  ComprInv'
  <1>1. ComprTypes'
    BY ComprFacts DEF ComprTypes
  <1>2. active \in BOOLEAN /\ fed \in BOOLEAN
    BY ComprFacts, ComprTyped
  <1>3. Comes => Comes'
    BY <1>2 DEF Comes, HasEos
  <1>4. DrainInv'
    BY <1>3, ComprFacts DEF DrainInv
  <1>5. ASSUME fed' PROVE Fed'
    <2>1. Fed
      BY <1>2, <1>5, ComprFacts
    <2>2. Counted'
      BY <2>1 DEF Fed, Counted, Compr!HandedOver
    <2>3. InLine' /\ Returned'
      BY <2>1 DEF Fed, InLine, Returned
    <2>4. notify' => cstate' = "DRAINING"
      BY <1>5, <2>1 DEF Fed
    <2> QED BY <2>2, <2>3, <2>4 DEF Fed
  <1> QED BY <1>1, <1>4, <1>5 DEF ComprInv

LEMMA DrainKeeps ==
  ASSUME ComprInv, Compr!Drain
  PROVE  ComprInv'
  <1>1. /\ cstate = "RUNNING" /\ cstate' = "DRAINING" /\ copying = 0 /\ notify' = TRUE
        /\ vain' = (received = sent \/ ~active \/ (Compr!Spent(decoder) /\ Compr!Spent(done)))
        /\ UNCHANGED <<total, received, sent, copied, active, nextTrack, fragment, decoder, done, copying,
                       heard, fed>>
    BY DEF Compr!Drain, Compr!Turn, Compr!counters, Compr!dsp
  <1>2. ComprTypes /\ sent \in Nat /\ received \in Nat /\ sent <= received
    BY ComprFacts, ComprTyped
  <1>3. ComprTypes'
    BY <1>1, <1>2 DEF ComprTypes
  <1>4. ASSUME ~vain' PROVE Comes'
    <2>1. sent # received /\ active /\ ~(Compr!Spent(decoder) /\ Compr!Spent(done))
      BY <1>1, <1>4
    <2>2. decoder # <<>> \/ done # <<>>
      <3>1. SUFFICES ASSUME decoder = <<>>, done = <<>> PROVE Compr!Spent(decoder) /\ Compr!Spent(done)
        BY <2>1
      <3> QED BY <3>1 DEF Compr!Spent
    <2>3. sent < received
      BY <1>2, <2>1
    <2> QED BY <1>1, <2>1, <2>2, <2>3 DEF Comes
  <1>5. DrainInv'
    BY <1>1, <1>2, <1>4 DEF DrainInv
  <1>6. ASSUME fed' PROVE Fed'
    <2>1. Fed /\ ~notify /\ InLine /\ Returned
      BY <1>1, <1>6, ComprFacts DEF Fed
    <2>2. ~HasEos(decoder) /\ ~HasEos(done)
      BY <2>1, EndIs
    <2>3. Counted'
      BY <1>1, <2>1 DEF Fed, Counted, Compr!HandedOver
    <2>4. InLine' /\ Returned'
      BY <1>1, <2>1, <2>2 DEF InLine, Returned, HasEos
    <2> QED BY <1>1, <2>3, <2>4 DEF Fed
  <1> QED BY <1>3, <1>5, <1>6 DEF ComprInv

\* The application places its data, ...
LEMMA PlaceKeeps ==
  ASSUME ComprInv, NEW k \in {1, F}, Compr!Place(k)
  PROVE  ComprInv'
  <1>1. /\ cstate \in {"SETUP", "PREPARED", "RUNNING"} /\ cstate' = cstate
        /\ k <= Compr!Avail /\ copying' = k
        /\ UNCHANGED <<total, received, sent, copied, active, nextTrack, notify, vain, fragment, decoder,
                       done, heard, fed>>
    BY DEF Compr!Place, Compr!counters, Compr!drain, Compr!dsp
  <1>2. ComprTypes /\ total \in Nat /\ received \in Nat /\ copied \in Nat /\ heard \in Nat /\ k \in Nat
        /\ done \in Seq(Item) /\ Compr!RingUnits \in Nat /\ F \in Nat \ {0}
    BY ComprFacts, ComprTyped, FragmentsAre
  <1>3. ComprTypes'
    BY <1>1, <1>2 DEF ComprTypes
  <1>4. DrainInv'
    BY <1>1, ComprFacts DEF DrainInv
  <1>5. ASSUME fed' PROVE Fed'
    <2>1. Fed /\ Counted /\ InLine /\ Returned
      BY <1>1, <1>5, ComprFacts
    <2>2. PICK c \in Int : c = heard * F
      BY <1>2
    <2>3. copied <= c
      <3>1. PICK o \in Nat : o = Compr!Outstanding(done)
        BY <1>2, OutstandingIs
      <3>2. copied = (heard - o) * F
        BY <2>1, <3>1 DEF Counted
      <3>3. (heard - o) * F <= heard * F
        BY <1>2, Mono
      <3> QED BY <1>2, <2>2, <3>2, <3>3
    <2>4. (received + k) - c <= Compr!RingUnits
      <3>1. total = received /\ c >= 0
        BY <1>2, <2>1, <2>2, <2>3 DEF Counted
      <3>2. CASE total \in {0, copied}
        <4>1. Compr!Avail = Compr!RingUnits
          BY <3>2 DEF Compr!Avail
        <4>2. received <= c
          BY <1>2, <2>2, <2>3, <3>1, <3>2
        <4> QED BY <1>1, <1>2, <2>2, <4>1, <4>2
      <3>3. CASE total \notin {0, copied}
        <4>1. Compr!Avail = Compr!RingUnits - (total - copied)
          BY <3>3 DEF Compr!Avail
        <4> QED BY <1>1, <1>2, <2>2, <2>3, <3>1, <4>1
      <3> QED BY <3>2, <3>3
    <2>5. Counted'
      BY <1>1, <2>1, <2>2, <2>4 DEF Counted, Compr!HandedOver
    <2>6. InLine' /\ Returned'
      BY <1>1, <2>1 DEF InLine, Returned
    <2> QED BY <1>1, <2>1, <2>5, <2>6 DEF Fed
  <1> QED BY <1>3, <1>4, <1>5 DEF ComprInv

\* ... and counts it.
LEMMA CountKeeps ==
  ASSUME ComprInv, Compr!Count
  PROVE  ComprInv'
  <1>1. /\ copying > 0 /\ copying' = 0 /\ cstate' = IF cstate = "SETUP" THEN "PREPARED" ELSE cstate
        /\ total' = total + copying /\ nextTrack' = FALSE
        /\ UNCHANGED <<active, notify, vain, done, heard>>
    BY DEF Compr!Count
  <1>2. /\ ComprTypes /\ total \in Nat /\ received \in Nat /\ sent \in Nat /\ copied \in Nat /\ heard \in Nat
        /\ copying \in Nat /\ copying \in {0, 1, F} /\ F \in Nat \ {0} /\ sent <= received
        /\ nextTrack \in BOOLEAN
    BY ComprFacts, ComprTyped, FragmentsAre
  <1>3. PICK begin \in Nat, from \in Nat :
          /\ begin = (IF nextTrack THEN Compr!Aligned(received) ELSE received)
          /\ from = (IF nextTrack THEN Compr!Aligned(sent) ELSE sent)
          /\ from <= begin /\ received <= begin
          /\ received % F = 0 => begin = received
    <2>1. Compr!Aligned(received) \in Nat /\ Compr!Aligned(sent) \in Nat
          /\ received <= Compr!Aligned(received) /\ Compr!Aligned(sent) <= Compr!Aligned(received)
          /\ (received % F = 0 => Compr!Aligned(received) = received)
      BY <1>2, AlignedIs, AlignedMono
    <2>2. CASE nextTrack
      BY <2>1, <2>2
    <2>3. CASE ~nextTrack
      BY <1>2, <2>3
    <2> QED BY <1>2, <2>2, <2>3
  <1>4. PICK got \in Nat : got = begin + copying /\ received' = got
    <2>1. received' = begin + copying
      BY <1>3 DEF Compr!Count, Compr!Begin
    <2> QED BY <1>2, <1>3, <2>1
  <1>5. copied' = (IF nextTrack THEN Compr!Aligned(copied) ELSE copied) /\ copied' \in Nat
    <2>1. copied' = (IF nextTrack THEN Compr!Aligned(copied) ELSE copied)
      BY DEF Compr!Count
    <2> QED BY <1>2, <2>1, AlignedIs
  <1>6. PICK len \in Nat : len = IF got - from < F THEN got - from ELSE F
    <2>1. copying > 0 /\ copying \in Nat /\ F \in Nat \ {0} /\ from <= begin /\ got = begin + copying
      BY <1>1, <1>2, <1>3, <1>4
    <2>2. PICK avail \in Nat : avail = got - from /\ avail > 0
      BY <2>1
    <2> QED BY <2>1, <2>2
  <1>7. from + len <= got
    <2>1. copying \in Nat /\ F \in Nat \ {0} /\ from <= begin /\ got = begin + copying
      BY <1>2, <1>3, <1>4
    <2> QED BY <1>6, <2>1
  <1>8. \/ /\ Compr!Kicked /\ Compr!HandOver(len, FALSE) /\ sent' = from + len
           /\ fed' = Compr!IsFed(len, got)
        \/ /\ ~Compr!Kicked /\ sent' = from /\ fed' = (fed /\ got % F = 0)
           /\ UNCHANGED <<fragment, decoder>>
    <2>1. got - from = received' - (IF nextTrack THEN Compr!Aligned(sent) ELSE sent)
      BY <1>3, <1>4
    <2> QED BY <1>3, <1>4, <1>6, <2>1 DEF Compr!Count
  <1>9. cstate # "DRAINING" /\ cstate' # "DRAINING"
    <2>1. copying # 0
      BY <1>1, <1>2
    <2>2. cstate # "DRAINING"
      BY <2>1, ComprFacts
    <2> QED BY <1>1, <2>2
  <1>10. sent' \in Nat /\ sent' <= received'
    <2>1. PICK s : s = sent'
      OBVIOUS
    <2>2. s = from + len \/ s = from
      BY <1>8, <2>1
    <2>3. from <= begin /\ got = begin + copying /\ copying \in Nat
      BY <1>2, <1>3, <1>4
    <2>4. s \in Nat /\ s <= got
      BY <1>7, <2>2, <2>3
    <2> QED BY <1>4, <2>1, <2>4
  <1>11. DrainInv'
    BY <1>9, <1>10 DEF DrainInv
  <1>12. decoder' \in Seq(Item) /\ fragment' \in 0 .. Fragments - 1
    BY <1>2, <1>8, HandOverIs, ComprTyped
  <1>13. ComprTypes'
    <2>1. fed' \in BOOLEAN
      BY <1>2, <1>8, ComprTyped DEF Compr!IsFed
    <2>2. total' \in Nat
      BY <1>1, <1>2
    <2>3. done' \in Seq(Item) /\ active' \in BOOLEAN /\ notify' \in BOOLEAN /\ vain' \in BOOLEAN /\ heard' \in Nat
      BY <1>1, <1>2, ComprTyped
    <2> QED BY <1>1, <1>4, <1>5, <1>10, <1>12, <2>1, <2>2, <2>3 DEF ComprTypes
  <1>14. ASSUME fed' PROVE Fed'
    <2>1. fed /\ Fed /\ Counted /\ InLine /\ Returned
      <3>1. fed
        BY <1>8, <1>14 DEF Compr!IsFed
      <3> QED BY <3>1, ComprFacts
    <2>2. ~notify /\ ~HasEos(decoder) /\ ~HasEos(done)
      BY <1>9, <2>1, EndIs DEF Fed
    <2>3. /\ total = received /\ received % F = 0 /\ begin = received
          /\ Compr!HandedOver <= received
          /\ copied = (heard - Compr!Outstanding(done)) * F
      BY <1>3, <2>1 DEF Counted
    <2>4. copied' = copied
      <3>1. PICK o \in Nat : o = Compr!Outstanding(done)
        BY <1>2, ComprTyped, OutstandingIs
      <3>2. PICK q \in Int : q = heard - o
        BY <1>2
      <3>3. copied = q * F + 0 /\ 0 \in 0 .. F - 1
        BY <1>2, <2>3, <3>1, <3>2
      <3>4. copied % F = 0
        BY <1>2, <3>2, <3>3, DivModIs
      <3> QED BY <1>2, <1>5, <3>4, AlignedIs
    <2>5. total' = received' /\ received' = received + copying
      BY <1>1, <1>2, <1>4, <2>3
    <2>6. (received' + copying') - heard' * F <= Compr!RingUnits'
      <3>1. PICK c \in Int : c = heard * F
        BY <1>2
      <3>2. (received + copying) - c <= Compr!RingUnits
        BY <2>1, <3>1 DEF Counted
      <3>3. received' + copying' = received + copying
        BY <1>1, <1>2, <2>5
      <3> QED BY <1>1, <3>1, <3>2, <3>3 DEF Compr!RingUnits
    <2>7. Returned'
      BY <1>1, <2>1, <2>2 DEF Returned, HasEos
    <2>8. CASE Compr!Kicked
      <3>1. /\ received = copied /\ Compr!HandOver(len, FALSE) /\ len = F
            /\ Compr!HandedOver + F <= got
        BY <1>8, <1>14, <2>8 DEF Compr!Kicked, Compr!IsFed
      <3>2. InLine' /\ Compr!HandedOver' = Compr!HandedOver + F
            /\ fragment' = (heard' + Compr!Outstanding(decoder')) % Fragments
        BY <1>1, <1>2, <2>1, <2>2, <3>1, HandOverInLine
      <3>3. PICK h \in Int : h = Compr!HandedOver /\ received <= h
        <4>1. PICK o \in Nat, p \in Nat : o = Compr!Outstanding(done) /\ p = Compr!Outstanding(decoder)
          BY <1>2, ComprTyped, OutstandingIs
        <4>2. (heard - o) * F <= (heard + p) * F /\ (heard + p) * F \in Int
          BY <1>2, Mono
        <4> QED BY <2>3, <3>1, <4>1, <4>2 DEF Compr!HandedOver
      <3>4. copying = F
        <4>1. F <= copying
          BY <1>2, <1>4, <2>3, <3>1, <3>3
        <4> QED BY <1>2, <4>1
      <3>5. got % F = 0
        <4>1. PICK q \in Int, r \in 0 .. F - 1 : q = received \div F /\ r = received % F /\ received = q * F + r
          BY <1>2, Divided
        <4>2. (q + 1) * F = q * F + 1 * F
          BY <1>2, Distributed
        <4>3. PICK x \in Int : x = q * F
          BY <1>2
        <4>4. got = (q + 1) * F + 0 /\ 0 \in 0 .. F - 1
          BY <1>2, <1>4, <2>3, <3>4, <4>1, <4>2, <4>3
        <4> QED BY <1>2, <4>4, DivModIs
      <3>6. Compr!HandedOver' <= received'
        BY <1>4, <3>1, <3>2, <3>3
      <3>7. received' % F = 0
        BY <1>4, <3>5
      <3>8. copied' = (heard' - Compr!Outstanding(done')) * F
        BY <1>1, <2>3, <2>4
      <3>9. Counted'
        BY <2>5, <2>6, <3>2, <3>6, <3>7, <3>8 DEF Counted
      <3> QED BY <1>1, <2>2, <2>7, <3>2, <3>9 DEF Fed
    <2>9. CASE ~Compr!Kicked
      <3>1. got % F = 0 /\ UNCHANGED <<fragment, decoder>>
        BY <1>8, <1>14, <2>9
      <3>2. InLine'
        BY <1>1, <2>1, <2>2, <3>1 DEF InLine, HasEos
      <3>3. Compr!HandedOver' <= received'
        <4>1. Compr!HandedOver' = Compr!HandedOver
          BY <1>1, <3>1 DEF Compr!HandedOver
        <4>2. PICK h \in Int : h = Compr!HandedOver
          <5>1. PICK p \in Nat : p = Compr!Outstanding(decoder)
            BY <1>2, ComprTyped, OutstandingIs
          <5>2. (heard + p) * F \in Int
            BY <1>2
          <5> QED BY <5>1, <5>2 DEF Compr!HandedOver
        <4>3. h <= received + copying
          BY <1>2, <2>3, <4>2
        <4> QED BY <2>5, <4>1, <4>2, <4>3
      <3>4. received' % F = 0
        BY <1>4, <3>1
      <3>5. copied' = (heard' - Compr!Outstanding(done')) * F
            /\ fragment' = (heard' + Compr!Outstanding(decoder')) % Fragments
        BY <1>1, <2>1, <2>3, <2>4, <3>1 DEF Counted
      <3>6. Counted'
        BY <2>5, <2>6, <3>3, <3>4, <3>5 DEF Counted
      <3> QED BY <1>1, <2>2, <2>7, <3>2, <3>6 DEF Fed
    <2> QED BY <2>8, <2>9
  <1> QED BY <1>11, <1>13, <1>14 DEF ComprInv

\* A start or a release hands over one fragment more.
LEMMA StartKeeps ==
  ASSUME ComprInv, Compr!StartOrRelease
  PROVE  ComprInv'
  <1>1. /\ cstate \in {"PREPARED", "PAUSED"} /\ cstate' = "RUNNING" /\ copying = 0
        /\ Compr!HandOver(F, FALSE) /\ fed' = Compr!IsFed(F, received)
        /\ UNCHANGED <<total, received, sent, copied, active, nextTrack, notify, vain, done, heard, copying>>
    BY DEF Compr!StartOrRelease, Compr!Turn, Compr!counters, Compr!drain
  <1>2. ComprTypes /\ F \in Nat \ {0} /\ F \in Nat
    BY ComprFacts, FragmentsAre
  <1>3. decoder' \in Seq(Item) /\ fragment' \in 0 .. Fragments - 1
    BY <1>1, <1>2, HandOverIs
  <1>4. ComprTypes'
    <2>1. fed' \in BOOLEAN
      BY <1>1, <1>2, ComprTyped DEF Compr!IsFed
    <2> QED BY <1>1, <1>2, <1>3, <2>1 DEF ComprTypes
  <1>5. DrainInv'
    BY <1>1, ComprFacts DEF DrainInv
  <1>6. ASSUME fed' PROVE Fed'
    <2>1. fed /\ Compr!HandedOver + F <= received
      BY <1>1, <1>6 DEF Compr!IsFed
    <2>2. Fed /\ Counted /\ InLine /\ Returned
      BY <2>1, ComprFacts
    <2>3. ~notify /\ ~HasEos(decoder) /\ ~HasEos(done)
      BY <1>1, <2>2, EndIs DEF Fed
    <2>4. /\ InLine' /\ Compr!HandedOver' = Compr!HandedOver + F
          /\ fragment' = (heard' + Compr!Outstanding(decoder')) % Fragments
      BY <1>1, <1>2, <2>2, <2>3, HandOverInLine
    <2>5. Counted'
      BY <1>1, <2>1, <2>2, <2>4 DEF Counted
    <2>6. Returned'
      BY <1>1, <2>2, <2>3 DEF Returned, HasEos
    <2> QED BY <1>1, <2>3, <2>4, <2>5, <2>6 DEF Fed
  <1> QED BY <1>4, <1>5, <1>6 DEF ComprInv

\* The DSP decodes.
LEMMA DecodeKeeps ==
  ASSUME ComprInv, Compr!Decode
  PROVE  ComprInv'
  <1>1. /\ decoder # <<>> /\ decoder' = Tail(decoder) /\ done' = Append(done, Head(decoder))
        /\ heard' = IF fed /\ Head(decoder) # Compr!Eos THEN heard + 1 ELSE heard
        /\ UNCHANGED <<cstate, total, received, sent, copied, active, nextTrack, notify, vain, fragment,
                       copying, fed>>
    BY DEF Compr!Decode, Compr!counters, Compr!drain
  <1>2. /\ ComprTypes /\ heard \in Nat /\ F \in Nat \ {0} /\ fed \in BOOLEAN
        /\ decoder \in Seq(Item) /\ done \in Seq(Item)
    BY ComprFacts, ComprTyped, FragmentsAre
  <1>3. /\ decoder' \in Seq(Item) /\ Len(decoder) \in Nat \ {0} /\ Len(decoder') = Len(decoder) - 1
        /\ Head(decoder) = decoder[1] /\ decoder[1] \in Item
        /\ \A i \in 1 .. Len(decoder) - 1 : decoder'[i] = decoder[i + 1]
    BY <1>1, <1>2, Popped
  <1>4. /\ done' \in Seq(Item) /\ Len(done) \in Nat /\ Len(done') = Len(done) + 1
        /\ \A i \in 1 .. Len(done) : done'[i] = done[i]
        /\ done'[Len(done) + 1] = decoder[1] /\ done' # <<>>
    BY <1>1, <1>2, <1>3, Appended
  <1>5. heard' \in Nat
    BY <1>1, <1>2
  <1>6. ComprTypes'
    BY <1>1, <1>2, <1>3, <1>4, <1>5 DEF ComprTypes
  <1>7. Comes => Comes'
    <2>1. ASSUME HasEos(decoder) PROVE HasEos(decoder') \/ HasEos(done')
      <3>1. PICK i \in 1 .. Len(decoder) : decoder[i] = Compr!Eos
        BY <2>1 DEF HasEos
      <3>2. CASE i = 1
        <4>1. Len(done) + 1 \in 1 .. Len(done')
          BY <1>4
        <4> QED BY <1>4, <3>1, <3>2, <4>1 DEF HasEos
      <3>3. CASE i # 1
        <4>1. PICK j \in 1 .. Len(decoder) - 1 : i = j + 1
          BY <1>3, <3>3
        <4> QED BY <1>3, <3>1, <4>1 DEF HasEos
      <3> QED BY <3>2, <3>3
    <2>2. ASSUME HasEos(done) PROVE HasEos(done')
      <3>1. \A i \in 1 .. Len(done) : i \in 1 .. Len(done')
        BY <1>4
      <3> QED BY <1>4, <2>2, <3>1 DEF HasEos
    <2> QED BY <1>1, <1>4, <2>1, <2>2 DEF Comes
  <1>8. DrainInv'
    BY <1>1, <1>7, ComprFacts DEF DrainInv
  <1>9. ASSUME fed' PROVE Fed'
    <2>1. fed /\ Fed /\ Counted /\ InLine /\ Returned
      BY <1>1, <1>9, ComprFacts
    <2>2. \A i \in 1 .. Len(done) : done[i] # Compr!Eos
      BY <1>1, <2>1 DEF Returned
    <2>3. PICK l \in Nat \ {0}, d \in Nat : l = Len(decoder) /\ d = Len(done)
      BY <1>3, <1>4
    <2>4. Compr!Outstanding(done) = d
      BY <1>2, <2>2, <2>3, OutstandingIs
    <2>5. CASE decoder[1] = Compr!Eos
      <3>1. l = 1 /\ notify /\ sent = received
        <4>1. 1 \in 1 .. Len(decoder)
          BY <1>3
        <4>2. 1 = Len(decoder) /\ notify /\ sent = received
          BY <2>1, <2>5, <4>1 DEF InLine
        <4> QED BY <2>3, <4>2
      <3>2. Len(decoder') = 0 /\ decoder' = <<>>
        BY <1>3, <2>3, <3>1, ItemsAre
      <3>3. Compr!Outstanding(decoder) = 0 /\ Compr!Outstanding(decoder') = 0
        <4>1. decoder[Len(decoder)] = Compr!Eos
          BY <2>3, <2>5, <3>1
        <4> QED BY <1>1, <1>2, <1>3, <2>3, <3>1, <3>2, <4>1, OutstandingIs
      <3>4. Compr!Outstanding(done') = d
        <4>1. done'[Len(done')] = Compr!Eos /\ Len(done') - 1 = d
          BY <1>4, <2>3, <2>5
        <4> QED BY <1>4, <4>1, OutstandingIs
      <3>5. heard' = heard
        BY <1>1, <1>3, <2>5
      <3>6. Counted'
        BY <1>1, <2>1, <2>4, <3>3, <3>4, <3>5 DEF Counted, Compr!HandedOver
      <3>7. InLine'
        BY <3>2 DEF InLine
      <3>8. Returned'
        <4>1. ASSUME NEW i \in 1 .. Len(done')
              PROVE  IF done'[i] = Compr!Eos
                     THEN i = Len(done') /\ decoder' = <<>> /\ notify' /\ sent' = received'
                     ELSE done'[i].len = F
          <5>1. CASE i \in 1 .. Len(done)
            BY <1>4, <2>1, <2>2, <5>1 DEF Returned
          <5>2. CASE i = Len(done) + 1
            BY <1>1, <1>4, <2>5, <3>1, <3>2, <5>2
          <5> QED BY <1>4, <5>1, <5>2
        <4> QED BY <4>1 DEF Returned
      <3> QED BY <1>1, <2>1, <3>6, <3>7, <3>8 DEF Fed
    <2>6. CASE decoder[1] # Compr!Eos
      <3>1. heard' = heard + 1
        BY <1>1, <1>3, <2>1, <2>6
      <3>2. Compr!Outstanding(decoder) \in Nat
            /\ Compr!Outstanding(decoder') = Compr!Outstanding(decoder) - 1
        <4>1. CASE l = 1
          <5>1. decoder' = <<>> /\ decoder[Len(decoder)] # Compr!Eos
            BY <1>3, <2>3, <2>6, <4>1, ItemsAre
          <5> QED BY <1>1, <1>2, <1>3, <2>3, <4>1, <5>1, OutstandingIs
        <4>2. CASE l > 1
          <5>1. /\ decoder' # <<>> /\ Len(decoder') \in 1 .. Len(decoder) - 1
                /\ decoder'[Len(decoder')] = decoder[Len(decoder)]
            <6>1. PICK m \in 1 .. Len(decoder) - 1 : m = Len(decoder') /\ m + 1 = Len(decoder)
              BY <1>3, <2>3, <4>2
            <6> QED BY <1>3, <6>1, ItemsAre
          <5>2. CASE decoder[Len(decoder)] = Compr!Eos
            <6>1. Compr!Outstanding(decoder) = Len(decoder) - 1
                  /\ Compr!Outstanding(decoder') = Len(decoder') - 1
              BY <1>1, <1>2, <1>3, <5>1, <5>2, OutstandingIs
            <6> QED BY <1>3, <2>3, <6>1
          <5>3. CASE decoder[Len(decoder)] # Compr!Eos
            <6>1. Compr!Outstanding(decoder) = Len(decoder) /\ Compr!Outstanding(decoder') = Len(decoder')
              BY <1>1, <1>2, <1>3, <5>1, <5>3, OutstandingIs
            <6> QED BY <1>3, <2>3, <6>1
          <5> QED BY <5>2, <5>3
        <4> QED BY <2>3, <4>1, <4>2
      <3>3. Compr!Outstanding(done') = d + 1
        <4>1. done'[Len(done')] # Compr!Eos /\ Len(done') = d + 1
          BY <1>4, <2>3, <2>6
        <4> QED BY <1>4, <4>1, OutstandingIs
      <3>4. PICK o \in Nat : o = Compr!Outstanding(decoder)
        BY <3>2
      <3>5. heard' + Compr!Outstanding(decoder') = heard + Compr!Outstanding(decoder)
        <4>1. (heard + 1) + (o - 1) = heard + o
          BY <1>2
        <4> QED BY <3>1, <3>2, <3>4, <4>1
      <3>6. heard' - Compr!Outstanding(done') = heard - Compr!Outstanding(done)
        <4>1. (heard + 1) - (d + 1) = heard - d
          BY <1>2
        <4> QED BY <2>4, <3>1, <3>3, <4>1
      <3>7. (received' + copying') - heard' * F <= Compr!RingUnits'
        <4>1. (heard + 1) * F = heard * F + 1 * F /\ heard * F \in Int
          BY <1>2, Distributed
        <4>2. PICK c \in Int, e \in Int : c = heard * F /\ e = (heard + 1) * F
          BY <1>2, <4>1
        <4>3. received \in Nat /\ copying \in Nat /\ Compr!RingUnits \in Nat
          BY <1>2, ComprTyped, FragmentsAre
        <4>4. (received + copying) - c <= Compr!RingUnits
          BY <2>1, <4>2 DEF Counted
        <4>5. (received + copying) - e <= Compr!RingUnits
          BY <1>2, <4>1, <4>2, <4>3, <4>4
        <4> QED BY <1>1, <3>1, <4>2, <4>5 DEF Compr!RingUnits
      <3>8. Compr!HandedOver' = Compr!HandedOver
        BY <3>5 DEF Compr!HandedOver
      <3>9. Counted'
        BY <1>1, <2>1, <3>5, <3>6, <3>7, <3>8 DEF Counted
      <3>10. ASSUME NEW i \in 1 .. Len(decoder')
             PROVE  IF decoder'[i] = Compr!Eos THEN i = Len(decoder') /\ notify' /\ sent' = received'
                    ELSE decoder'[i] = [buf |-> (heard' + i - 1) % Fragments, len |-> F]
        <4>1. PICK j \in 1 .. Len(decoder) : j = i + 1 /\ decoder'[i] = decoder[j]
          BY <1>3, <2>3
        <4>2. heard' + i - 1 = heard + j - 1
          <5>1. (heard + 1) + i - 1 = heard + j - 1
            BY <1>2, <4>1
          <5> QED BY <3>1, <5>1
        <4>3. j = Len(decoder) => i = Len(decoder')
          BY <1>3, <2>3, <4>1
        <4>4. IF decoder[j] = Compr!Eos THEN j = Len(decoder) /\ notify /\ sent = received
              ELSE decoder[j] = [buf |-> (heard + j - 1) % Fragments, len |-> F]
          BY <2>1 DEF InLine
        <4> QED BY <1>1, <4>1, <4>2, <4>3, <4>4
      <3>11. Returned'
        <4>1. ASSUME NEW i \in 1 .. Len(done') PROVE done'[i] # Compr!Eos /\ done'[i].len = F
          <5>1. CASE i \in 1 .. Len(done)
            BY <1>4, <2>1, <2>2, <5>1 DEF Returned
          <5>2. CASE i = Len(done) + 1
            <6>1. 1 \in 1 .. Len(decoder)
              BY <1>3
            <6>2. decoder[1].len = F
              <7>1. decoder[1] = [buf |-> (heard + 1 - 1) % Fragments, len |-> F]
                BY <2>1, <2>6, <6>1 DEF InLine
              <7>2. PICK b : b = (heard + 1 - 1) % Fragments
                OBVIOUS
              <7>3. decoder[1] = [buf |-> b, len |-> F]
                BY <7>1, <7>2
              <7> QED BY <7>3
            <6> QED BY <1>4, <2>6, <5>2, <6>2
          <5> QED BY <1>4, <5>1, <5>2
        <4> QED BY <4>1 DEF Returned
      <3>12. InLine'
        BY <3>10 DEF InLine
      <3> QED BY <1>1, <2>1, <3>9, <3>11, <3>12 DEF Fed
    <2> QED BY <2>5, <2>6
  <1> QED BY <1>6, <1>8, <1>9 DEF ComprInv

\* A fragment has come back, and the next is sent.
LEMMA WriteDoneKeeps ==
  ASSUME ComprInv, Compr!WriteDone
  PROVE  ComprInv'
  <1>1. /\ done # <<>> /\ Head(done) # Compr!Eos /\ done' = Tail(done)
        /\ copied' = copied + Head(done).len
        /\ UNCHANGED <<cstate, total, received, active, nextTrack, notify, vain, heard, copying>>
    BY DEF Compr!WriteDone, Compr!drain
  <1>2. /\ ComprTypes /\ received \in Nat /\ sent \in Nat /\ copied \in Nat /\ heard \in Nat
        /\ F \in Nat \ {0} /\ F \in Nat /\ done \in Seq(Item) /\ decoder \in Seq(Item)
        /\ fragment \in 0 .. Fragments - 1
        /\ sent <= received /\ active \in BOOLEAN /\ notify \in BOOLEAN /\ fed \in BOOLEAN
    BY ComprFacts, ComprTyped, FragmentsAre
  <1>3. PICK avail \in Nat : avail = received - sent
    BY <1>2
  <1>4. PICK len \in Nat : len = IF avail > F THEN F ELSE avail
    BY <1>2, <1>3
  <1>5. len <= avail
    BY <1>2, <1>4
  <1>6. PICK last \in BOOLEAN : last <=> notify /\ avail <= F
    BY <1>2
  <1>7. notify /\ Compr!IsLast(avail) <=> notify /\ avail <= F
    BY DEF Compr!IsLast
  <1>8. (notify /\ Compr!IsLast(avail)) = last
    BY <1>6, <1>7
  <1>9. \/ /\ active /\ avail > 0 /\ Compr!HandOver(len, last) /\ sent' = sent + len
           /\ fed' = Compr!IsFed(len, received)
        \/ ~(active /\ avail > 0) /\ UNCHANGED <<fragment, decoder, sent, fed>>
    <2>1. \/ /\ active /\ avail > 0 /\ Compr!HandOver(len, notify /\ Compr!IsLast(avail))
             /\ sent' = sent + len /\ fed' = Compr!IsFed(len, received)
          \/ ~(active /\ avail > 0) /\ UNCHANGED <<fragment, decoder, sent, fed>>
      BY <1>3, <1>4 DEF Compr!WriteDone
    <2>2. Compr!HandOver(len, notify /\ Compr!IsLast(avail)) => Compr!HandOver(len, last)
      BY <1>6, <1>7 DEF Compr!HandOver
    <2> QED BY <2>1, <2>2
  <1>10. /\ done' \in Seq(Item) /\ Len(done) \in Nat \ {0} /\ Len(done') = Len(done) - 1
         /\ Head(done) = done[1] /\ done[1] \in Item
         /\ \A i \in 1 .. Len(done) - 1 : done'[i] = done[i + 1]
    BY <1>1, <1>2, Popped
  <1>11. decoder' \in Seq(Item) /\ fragment' \in 0 .. Fragments - 1
    BY <1>2, <1>9, HandOverIs
  <1>12. sent' \in Nat /\ sent' <= received'
    <2>1. PICK s : s = sent'
      OBVIOUS
    <2>2. s = sent + len \/ s = sent
      BY <1>9, <2>1
    <2>3. s \in Nat /\ s <= received
      BY <1>2, <1>3, <1>5, <2>2
    <2> QED BY <1>1, <2>1, <2>3
  <1>13. ComprTypes'
    <2>1. fed' \in BOOLEAN
      BY <1>2, <1>9 DEF Compr!IsFed
    <2>2. copied' \in Nat
      BY <1>1, <1>2, <1>10 DEF Item
    <2>3. total' \in Nat /\ active' \in BOOLEAN /\ nextTrack' \in BOOLEAN /\ notify' \in BOOLEAN
          /\ vain' \in BOOLEAN /\ heard' \in Nat /\ received' \in Nat /\ copying' \in {0, 1, F}
      BY <1>1, <1>2, ComprTyped
    <2> QED BY <1>10, <1>11, <1>12, <2>1, <2>2, <2>3 DEF ComprTypes
  <1>14. HasEos(done) => HasEos(done')
    <2>1. SUFFICES ASSUME HasEos(done) PROVE HasEos(done')
      OBVIOUS
    <2>2. PICK i \in 1 .. Len(done) : done[i] = Compr!Eos
      BY <2>1 DEF HasEos
    <2>3. PICK j \in 1 .. Len(done) - 1 : i = j + 1
      BY <1>1, <1>10, <2>2
    <2>4. done'[j] = Compr!Eos /\ j \in 1 .. Len(done')
      BY <1>10, <2>2, <2>3
    <2> QED BY <2>4 DEF HasEos
  <1>15. ASSUME cstate = "DRAINING", Comes PROVE Comes'
    <2>1. notify
      BY <1>15, ComprFacts
    <2>2. CASE active /\ avail > 0
      <3>1. Compr!HandOver(len, last) /\ sent' = sent + len
        BY <1>9, <2>2
      <3>2. decoder' # <<>> /\ (last => HasEos(decoder'))
        BY <1>2, <3>1, HandOverIs
      <3>3. CASE avail <= F
        BY <1>6, <2>1, <3>2, <3>3 DEF Comes
      <3>4. CASE avail > F
        <4>1. len = F /\ sent + F < received
          BY <1>2, <1>3, <1>4, <3>4
        <4>2. sent' < received'
          BY <1>1, <3>1, <4>1
        <4> QED BY <1>1, <2>2, <3>2, <4>2 DEF Comes
      <3> QED BY <1>2, <3>3, <3>4
    <2>3. CASE ~(active /\ avail > 0)
      <3>1. UNCHANGED <<decoder, sent>> /\ ~(active /\ sent < received)
        BY <1>2, <1>3, <1>9, <2>3
      <3>2. HasEos(decoder) \/ HasEos(done)
        BY <1>15, <3>1 DEF Comes
      <3> QED BY <1>14, <3>1, <3>2 DEF Comes, HasEos
    <2> QED BY <2>2, <2>3
  <1>16. DrainInv'
    BY <1>1, <1>12, <1>15, ComprFacts DEF DrainInv
  <1>17. ASSUME fed' PROVE Fed'
    <2>1. fed /\ Fed /\ Counted /\ InLine /\ Returned
      <3>1. fed
        BY <1>9, <1>17 DEF Compr!IsFed
      <3> QED BY <3>1, ComprFacts
    <2>2. PICK d \in Nat \ {0} : d = Len(done)
      BY <1>10
    <2>3. Compr!Outstanding(done) \in Nat /\ Compr!Outstanding(done') = Compr!Outstanding(done) - 1
      <3>1. CASE d = 1
        <4>1. done' = <<>> /\ done[Len(done)] # Compr!Eos
          BY <1>1, <1>10, <2>2, <3>1, ItemsAre
        <4> QED BY <1>1, <1>2, <1>10, <2>2, <3>1, <4>1, OutstandingIs
      <3>2. CASE d > 1
        <4>1. /\ done' # <<>> /\ Len(done') \in 1 .. Len(done) - 1
              /\ done'[Len(done')] = done[Len(done)]
          <5>1. PICK m \in 1 .. Len(done) - 1 : m = Len(done') /\ m + 1 = Len(done)
            BY <1>10, <2>2, <3>2
          <5> QED BY <1>10, <5>1, ItemsAre
        <4>2. CASE done[Len(done)] = Compr!Eos
          <5>1. Compr!Outstanding(done) = Len(done) - 1 /\ Compr!Outstanding(done') = Len(done') - 1
            BY <1>1, <1>2, <1>10, <4>1, <4>2, OutstandingIs
          <5> QED BY <1>10, <2>2, <5>1
        <4>3. CASE done[Len(done)] # Compr!Eos
          <5>1. Compr!Outstanding(done) = Len(done) /\ Compr!Outstanding(done') = Len(done')
            BY <1>1, <1>2, <1>10, <4>1, <4>3, OutstandingIs
          <5> QED BY <1>10, <2>2, <5>1
        <4> QED BY <4>2, <4>3
      <3> QED BY <2>2, <3>1, <3>2
    <2>4. PICK o \in Nat : o = Compr!Outstanding(done)
      BY <2>3
    <2>5. copied' = (heard' - Compr!Outstanding(done')) * F
      <3>1. 1 \in 1 .. Len(done) /\ done[1].len = F
        <4>1. 1 \in 1 .. Len(done)
          BY <1>10
        <4> QED BY <1>1, <1>10, <2>1, <4>1 DEF Returned
      <3>2. PICK x \in Int : x = heard - o
        BY <1>2
      <3>3. (x + 1) * F = x * F + 1 * F /\ x * F \in Int
        BY <1>2, Distributed
      <3>4. copied = x * F
        BY <2>1, <2>4, <3>2 DEF Counted
      <3>5. heard - (o - 1) = x + 1
        BY <1>2, <3>2
      <3>6. copied + F = (x + 1) * F
        BY <1>2, <3>3, <3>4
      <3>7. copied' = copied + F
        BY <1>1, <1>10, <3>1
      <3>8. heard' - Compr!Outstanding(done') = x + 1
        BY <1>1, <2>3, <2>4, <3>5
      <3> QED BY <3>6, <3>7, <3>8
    <2>6. CASE active /\ avail > 0
      <3>1. /\ Compr!HandOver(len, last) /\ sent' = sent + len /\ len = F
            /\ Compr!HandedOver + F <= received
        BY <1>9, <1>17, <2>6 DEF Compr!IsFed
      <3>2. ~HasEos(decoder) /\ ~HasEos(done)
        <4>1. sent # received
          BY <1>2, <1>3, <2>6
        <4> QED BY <2>1, <4>1, EndIs
      <3>3. last => notify' /\ sent' = received'
        <4>1. ASSUME last PROVE sent + len = received
          <5>1. avail <= F /\ avail = F
            BY <1>2, <1>4, <1>6, <3>1, <4>1
          <5> QED BY <1>2, <1>3, <3>1, <5>1
        <4> QED BY <1>1, <1>6, <3>1, <4>1
      <3>4. /\ InLine' /\ Compr!HandedOver' = Compr!HandedOver + F
            /\ fragment' = (heard' + Compr!Outstanding(decoder')) % Fragments
        <4>1. Compr!HandOver(F, last) /\ heard' = heard
          BY <1>1, <3>1
        <4> QED BY <1>2, <2>1, <3>2, <3>3, <4>1, HandOverInLine
      <3>5. Counted'
        BY <1>1, <2>1, <2>5, <3>1, <3>4 DEF Counted, Compr!RingUnits
      <3>6. ASSUME NEW i \in 1 .. Len(done') PROVE done'[i] # Compr!Eos /\ done'[i].len = F
        <4>1. PICK j \in 1 .. Len(done) : j = i + 1 /\ done'[i] = done[j]
          BY <1>10, <2>2
        <4>2. done[j] # Compr!Eos
          BY <3>2 DEF HasEos
        <4> QED BY <2>1, <4>1, <4>2 DEF Returned
      <3>7. Returned'
        BY <3>6 DEF Returned
      <3> QED BY <1>1, <2>1, <3>4, <3>5, <3>7 DEF Fed
    <2>7. CASE ~(active /\ avail > 0)
      <3>1. UNCHANGED <<fragment, decoder, sent>>
        BY <1>9, <2>7
      <3>2. Counted'
        BY <1>1, <2>1, <2>5, <3>1 DEF Counted, Compr!HandedOver, Compr!RingUnits
      <3>3. InLine'
        BY <1>1, <2>1, <3>1 DEF InLine
      <3>4. ASSUME NEW i \in 1 .. Len(done')
            PROVE  IF done'[i] = Compr!Eos
                   THEN i = Len(done') /\ decoder' = <<>> /\ notify' /\ sent' = received'
                   ELSE done'[i].len = F
        <4>1. PICK j \in 1 .. Len(done) : j = i + 1 /\ done'[i] = done[j]
          BY <1>10, <2>2
        <4>2. j = Len(done) => i = Len(done')
          BY <1>10, <2>2, <4>1
        <4>3. IF done[j] = Compr!Eos THEN j = Len(done) /\ decoder = <<>> /\ notify /\ sent = received
              ELSE done[j].len = F
          BY <2>1 DEF Returned
        <4> QED BY <1>1, <3>1, <4>1, <4>2, <4>3
      <3>5. Returned'
        BY <3>4 DEF Returned
      <3> QED BY <1>1, <2>1, <3>2, <3>3, <3>5 DEF Fed
    <2> QED BY <2>6, <2>7
  <1> QED BY <1>13, <1>16, <1>17 DEF ComprInv

\* The end of the stream has come back.
LEMMA EosDoneKeeps ==
  ASSUME ComprInv, Compr!EosDone
  PROVE  ComprInv'
  <1>1. /\ done # <<>> /\ Head(done) = Compr!Eos /\ done' = Tail(done)
        /\ \/ notify /\ notify' = FALSE /\ active' = active /\ cstate' \in {"RUNNING", "SETUP"}
           \/ ~notify /\ active' = FALSE /\ UNCHANGED <<notify, cstate>>
        /\ UNCHANGED <<total, received, sent, copied, nextTrack, vain, fragment, decoder, heard, copying, fed>>
    BY DEF Compr!EosDone, Compr!counters
  <1>2. ComprTypes /\ done \in Seq(Item) /\ active \in BOOLEAN /\ notify \in BOOLEAN
    BY ComprFacts, ComprTyped
  <1>3. /\ done' \in Seq(Item) /\ Len(done) \in Nat \ {0} /\ Len(done') = Len(done) - 1
        /\ Head(done) = done[1]
    BY <1>1, <1>2, Popped
  <1>4. ComprTypes'
    BY <1>1, <1>2, <1>3 DEF ComprTypes
  <1>5. cstate' # "DRAINING"
    BY <1>1, ComprFacts
  <1>6. DrainInv'
    BY <1>1, <1>5, ComprFacts DEF DrainInv
  <1>7. ASSUME fed' PROVE Fed'
    <2>1. Fed /\ Counted /\ InLine /\ Returned
      BY <1>1, <1>7, ComprFacts
    <2>2. 1 = Len(done) /\ decoder = <<>> /\ notify
      <3>1. 1 \in 1 .. Len(done)
        BY <1>3
      <3> QED BY <1>1, <1>3, <2>1, <3>1 DEF Returned
    <2>3. done' = <<>> /\ Len(done') = 0 /\ decoder' = <<>> /\ Len(decoder') = 0
      BY <1>1, <1>3, <2>2, ItemsAre
    <2>4. Compr!Outstanding(done) = 0 /\ Compr!Outstanding(done') = 0
      <3>1. done[Len(done)] = Compr!Eos
        BY <1>1, <1>3, <2>2
      <3> QED BY <1>1, <1>2, <1>3, <2>2, <2>3, <3>1, OutstandingIs
    <2>5. Counted'
      BY <1>1, <2>1, <2>4 DEF Counted, Compr!HandedOver, Compr!RingUnits
    <2>6. InLine' /\ Returned'
      BY <2>3 DEF InLine, Returned
    <2>7. ~notify'
      BY <1>1, <2>2
    <2> QED BY <2>5, <2>6, <2>7 DEF Fed
  <1> QED BY <1>4, <1>6, <1>7 DEF ComprInv

LEMMA ComprKept ==
  ASSUME ComprInv, Compr!ComprNext
  PROVE  ComprInv'
  <1>1. CASE Compr!SetParams
    BY <1>1, FlagsKeep DEF Compr!SetParams, Compr!counters, Compr!drain, Compr!dsp
  <1>2. CASE Compr!SetNextParams
    BY <1>2, FlagsKeep DEF Compr!SetNextParams, Compr!counters, Compr!drain, Compr!dsp
  <1>3. CASE Compr!PausePush
    BY <1>3, FlagsKeep DEF Compr!PausePush, Compr!Turn, Compr!counters, Compr!drain, Compr!dsp
  <1>4. CASE Compr!NextTrack
    BY <1>4, FlagsKeep DEF Compr!NextTrack, Compr!counters, Compr!dsp
  <1>5. CASE Compr!Stop
    <2>1. /\ cstate' = "SETUP" /\ fed' = FALSE /\ total' = 0
          /\ UNCHANGED <<received, sent, copied, active, nextTrack, notify, vain, fragment, decoder, done,
                         copying, heard>>
      BY <1>5 DEF Compr!Stop, Compr!Turn, Compr!counters, Compr!dsp
    <2>2. ComprTypes'
      <3>1. FALSE \in BOOLEAN /\ 0 \in Nat /\ ComprTypes
        BY ComprFacts
      <3> QED BY <2>1, <3>1, ComprTyped DEF ComprTypes
    <2>3. DrainInv'
      BY <2>1, ComprFacts DEF DrainInv
    <2> QED BY <2>1, <2>2, <2>3 DEF ComprInv
  <1>6. ASSUME NEW k \in {1, F}, Compr!Place(k) PROVE ComprInv'
    BY <1>6, PlaceKeeps
  <1> QED BY <1>1, <1>2, <1>3, <1>4, <1>5, <1>6, CountKeeps, StartKeeps, DrainKeeps, DecodeKeeps,
              WriteDoneKeeps, EosDoneKeeps DEF Compr!ComprNext

\* What is handed over is the stream, and a drain with something to send
\* ends.
LEMMA ComprWhole ==
  ASSUME ComprInv
  PROVE  Compr!DecodesTheStream /\ Compr!DrainEnds
  <1>1. ASSUME fed
        PROVE  /\ \A i \in 1 .. Len(decoder) :
                    decoder[i] # Compr!Eos => decoder[i].buf = (heard + i - 1) % Fragments
               /\ received + copying - heard * F <= Compr!RingUnits
    <2>1. Counted /\ InLine
      BY <1>1, ComprFacts
    <2>2. ASSUME NEW i \in 1 .. Len(decoder), decoder[i] # Compr!Eos
          PROVE  decoder[i].buf = (heard + i - 1) % Fragments
      <3>1. PICK b : b = (heard + i - 1) % Fragments
        OBVIOUS
      <3>2. decoder[i] = [buf |-> b, len |-> F]
        BY <2>1, <2>2, <3>1 DEF InLine
      <3> QED BY <3>1, <3>2
    <2>3. received \in Nat /\ copying \in Nat /\ heard \in Nat /\ F \in Nat /\ Compr!RingUnits \in Nat
      BY ComprFacts, ComprTyped, FragmentsAre
    <2>4. PICK c \in Int : c = heard * F
      BY <2>3
    <2>5. (received + copying) - c <= Compr!RingUnits
      BY <2>1, <2>4 DEF Counted
    <2>6. received + copying - c <= Compr!RingUnits
      BY <2>3, <2>5
    <2> QED BY <2>2, <2>4, <2>6
  <1>2. Compr!DecodesTheStream
    BY <1>1 DEF Compr!DecodesTheStream
  <1>3. ASSUME cstate = "DRAINING", decoder = <<>>, done = <<>> PROVE vain
    <2>1. ~HasEos(decoder) /\ ~HasEos(done)
      BY <1>3 DEF HasEos
    <2> QED BY <1>3, <2>1, ComprFacts DEF Comes
  <1> QED BY <1>2, <1>3 DEF Compr!DrainEnds

-----------------------------------------------------------------------------
\* The theorems.

LEMMA StreamsStart ==
  ASSUME StreamsInit
  PROVE  StreamsInv
  <1>1. /\ alsa = "OPEN" /\ appl = 0 /\ hw = 0 /\ queuePtr = 0 /\ dspBuf = 0 /\ hwPtr = 0
        /\ dspq = <<>> /\ rxq = <<>> /\ elapsing = FALSE /\ played = 0 /\ back = 0 /\ lives = 0
        /\ clean = TRUE
    BY DEF StreamsInit, Init
  <1>2. /\ again = FALSE /\ missed = FALSE /\ blind = FALSE /\ first = 0
        /\ tape = [b \in 0 .. N - 1 |-> -1]
    BY DEF StreamsInit, CaptureIdle
  <1>3. page = [counter |-> 0, index |-> 0] /\ look = NoLook /\ pulled = 0 /\ origin = 0
    BY DEF StreamsInit, PullInit
  <1>4. <<>> \in Seq(0 .. N - 1) /\ Len(<<>>) = 0 /\ <<>> \in Seq(Item)
    OBVIOUS
  <1>5. 0 % N = 0 /\ 0 % Size = 0 /\ 0 % F = 0 /\ 0 % Fragments = 0
    BY RoundIs, FragmentsAre, ModSmall
  <1>6. RingTypes
    <2>1. 0 \in 0 .. N - 1 /\ 0 \in 0 .. N
      BY SizeIs
    <2>2. elapsing \in BOOLEAN /\ clean \in BOOLEAN
      BY <1>1
    <2>3. {appl, hw, queuePtr, played, back, lives} \subseteq Nat /\ first \in Int
      <3>1. appl = 0 /\ hw = 0 /\ queuePtr = 0 /\ played = 0 /\ back = 0 /\ lives = 0 /\ first = 0
        BY <1>1, <1>2
      <3> QED BY <3>1
    <2>4. dspBuf \in 0 .. N - 1 /\ hwPtr \in 0 .. N
      BY <1>1, <2>1
    <2>5. dspq \in Seq(0 .. N - 1) /\ rxq \in Seq(0 .. N - 1)
      BY <1>1, <1>4
    <2> QED BY <2>2, <2>3, <2>4, <2>5 DEF RingTypes
  <1>7. InTurn
    <2>1. Given = 0
      BY <1>1, <1>4 DEF Given
    <2> QED BY <1>1, <1>4, <1>5, <2>1 DEF InTurn
  <1>8. PlaybackInv
    <2>1. Given = 0 /\ 0 * P = 0 /\ (0 + 1) * P = P
      BY <1>1, <1>4, SizeIs DEF Given
    <2>2. Written
      BY <1>1, <2>1, SizeIs DEF Written, AllGiven
    <2> QED BY <1>1, <1>2, <1>6, <1>7, <2>2 DEF PlaybackInv
  <1>9. CaptureInv
    <2>1. Looked /\ Taped /\ AllAround
      BY <1>1, <1>2, <1>5 DEF Looked, Due, Taped, AllAround
    <2>2. tape \in [0 .. N - 1 -> Int]
      BY <1>2
    <2>3. again \in BOOLEAN /\ missed \in BOOLEAN /\ blind \in BOOLEAN /\ ~(elapsing /\ again)
      BY <1>1, <1>2
    <2>4. /\ alsa \in {"OPEN", "PREPARING", "PREPARED", "RUNNING", "PAUSED", "XRUN", "SETUP"}
          /\ alsa \notin {"PREPARED", "RUNNING", "PAUSED"}
      BY <1>1
    <2> QED BY <1>6, <1>7, <2>1, <2>2, <2>3, <2>4 DEF CaptureInv
  <1>10. PullInv
    <2>1. Size \in Nat \ {0} /\ 0 \in 0 .. Size - 1
      BY RoundIs
    <2>2. page \in [counter : Nat, index : Nat] /\ page.index = 0
      BY <1>3
    <2>3. /\ look \in [at : {"idle", "index", "after"}, before : Nat, index : 0 .. Size - 1, tries : Int]
          /\ look.at = "idle"
      BY <1>3, <2>1 DEF NoLook
    <2>4. /\ {appl, hw, pulled} \subseteq Nat /\ hwPtr \in 0 .. Size - 1 /\ origin \in Int
          /\ appl <= hw + Size
      <3>1. appl = 0 /\ hw = 0 /\ pulled = 0 /\ hwPtr = 0 /\ origin = 0
        BY <1>1, <1>3
      <3> QED BY <2>1, <3>1
    <2>5. page.index = pulled % Size /\ origin % Size = 0 /\ hw % Size = hwPtr /\ hw + origin <= pulled
      <3>1. pulled = 0 /\ origin = 0 /\ hw = 0 /\ hwPtr = 0
        BY <1>1, <1>3
      <3>2. hw + origin <= pulled
        BY <3>1
      <3> QED BY <1>5, <2>2, <3>1, <3>2
    <2>6. blind \in BOOLEAN
      BY <1>2
    <2>7. alsa \notin {"PREPARED", "PAUSED"}
      BY <1>1
    <2>8. look.at # "idle" => alsa = "RUNNING"
      BY <2>3
    <2>9. look.at # "after"
      BY <2>3
    <2>10. look \in [at : {"idle", "index", "after"}, before : Nat, index : 0 .. Size - 1, tries : Int]
      BY <2>3
    <2>11. page \in [counter : Nat, index : Nat]
      BY <2>2
    <2> QED BY <2>4, <2>5, <2>6, <2>7, <2>8, <2>9, <2>10, <2>11 DEF PullInv
  <1>11. ComprInv
    <2>1. /\ cstate = "OPEN" /\ total = 0 /\ received = 0 /\ sent = 0 /\ copied = 0 /\ active = FALSE
          /\ nextTrack = FALSE /\ notify = FALSE /\ fragment = 0 /\ decoder = <<>> /\ done = <<>>
          /\ copying = 0 /\ heard = 0 /\ fed = TRUE /\ vain = FALSE
      BY DEF StreamsInit, Compr!ComprInit
    <2>2. ComprTypes
      <3>1. 0 \in 0 .. Fragments - 1
        BY FragmentsAre
      <3>2. {active, nextTrack, notify, fed, vain} \subseteq BOOLEAN
        BY <2>1
      <3>3. {total, received, sent, copied, heard} \subseteq Nat /\ copying \in {0, 1, F}
        <4>1. total = 0 /\ received = 0 /\ sent = 0 /\ copied = 0 /\ heard = 0 /\ copying = 0
          BY <2>1
        <4> QED BY <4>1
      <3>4. decoder \in Seq(Item) /\ done \in Seq(Item) /\ fragment \in 0 .. Fragments - 1
        <4>1. decoder = <<>> /\ done = <<>> /\ fragment = 0
          BY <2>1
        <4> QED BY <1>4, <3>1, <4>1
      <3> QED BY <3>2, <3>3, <3>4 DEF ComprTypes
    <2>3. DrainInv
      BY <2>1 DEF DrainInv
    <2>4. Counted
      <3>1. Compr!Outstanding(<<>>) = 0
        BY <1>4, OutstandingIs
      <3>2. 0 * F = 0 /\ Compr!RingUnits \in Nat
        BY FragmentsAre
      <3> QED BY <1>5, <2>1, <3>1, <3>2 DEF Counted, Compr!HandedOver
    <2>5. InLine /\ Returned
      BY <1>4, <2>1 DEF InLine, Returned
    <2> QED BY <2>1, <2>2, <2>3, <2>4, <2>5 DEF ComprInv, Fed
  <1>12. hw = 0
    BY <1>1
  <1> QED BY <1>8, <1>9, <1>10, <1>11, <1>12 DEF StreamsInv, StreamsInit

\* A step keeps its stream's invariant, and moves an ordinary ring's
\* pointer, if it does, to where the buffers that came back put it.
LEMMA StreamsKept ==
  ASSUME StreamsInv, StreamsNext
  PROVE  /\ StreamsInv'
         /\ dir # "pull" /\ clean /\ hw' > hw => hw' = (back - first') * P - 1
  <1>1. dir' = dir
    BY DEF StreamsNext
  <1>2. CASE dir = "playback"
    <2>1. Next /\ UNCHANGED captureVars
      BY <1>2 DEF StreamsNext, RingNext
    <2>2. PlaybackInv
      BY <1>2 DEF StreamsInv
    <2>3. PlaybackInv' /\ (clean /\ hw' > hw => hw' = back * P - 1)
      BY <2>1, <2>2, PlaybackKept
    <2>4. (back - first') * P = back * P
      <3>1. first' = 0 /\ back \in Nat
        BY <2>1, <2>2, Types DEF captureVars, PlaybackInv
      <3>2. back - 0 = back
        BY <3>1
      <3> QED BY <3>1, <3>2
    <2> QED BY <1>1, <1>2, <2>3, <2>4 DEF StreamsInv
  <1>3. CASE dir = "capture"
    <2>1. CaptureNext
      BY <1>3 DEF StreamsNext, RingNext
    <2>2. CaptureInv
      BY <1>3 DEF StreamsInv
    <2>3. CaptureInv' /\ (clean /\ hw' > hw => hw' = (back - first') * P - 1)
      BY <2>1, <2>2, CaptureKept
    <2> QED BY <1>1, <1>3, <2>3 DEF StreamsInv
  <1>4. CASE dir = "pull"
    <2>1. PullNext
      BY <1>4 DEF StreamsNext
    <2> QED BY <1>1, <1>4, <2>1, PullKept DEF StreamsInv
  <1>5. CASE dir = "compressed"
    <2>1. Compr!ComprNext /\ hw' = hw
      BY <1>5 DEF StreamsNext, pcmRest
    <2>2. ComprInv'
      BY <1>5, <2>1, ComprKept DEF StreamsInv
    <2>3. hw = 0 /\ hw' = 0
      BY <1>5, <2>1 DEF StreamsInv
    <2>4. ~(hw' > hw)
      BY <2>3
    <2> QED BY <1>1, <1>5, <2>2, <2>3, <2>4 DEF StreamsInv
  <1> QED BY <1>2, <1>3, <1>4, <1>5 DEF StreamsInv

\* A step of no stream keeps the invariant too.
LEMMA StreamsRest ==
  ASSUME StreamsInv, UNCHANGED <<ringVars, pullRest, comprVars>>
  PROVE  StreamsInv'
  <1>1. /\ dir' = dir /\ alsa' = alsa /\ appl' = appl /\ hw' = hw /\ queuePtr' = queuePtr
        /\ dspBuf' = dspBuf /\ hwPtr' = hwPtr /\ dspq' = dspq /\ rxq' = rxq
        /\ elapsing' = elapsing /\ played' = played /\ back' = back /\ lives' = lives
        /\ clean' = clean
    BY DEF ringVars, vars
  <1>2. /\ state' = state /\ again' = again /\ tape' = tape /\ missed' = missed
        /\ blind' = blind /\ first' = first
    BY DEF ringVars, captureVars
  <1>3. page' = page /\ look' = look /\ pulled' = pulled /\ origin' = origin
    BY DEF pullRest
  <1>4. /\ cstate' = cstate /\ total' = total /\ received' = received /\ sent' = sent
        /\ copied' = copied /\ active' = active /\ nextTrack' = nextTrack /\ notify' = notify
        /\ fragment' = fragment /\ decoder' = decoder /\ done' = done /\ copying' = copying
        /\ heard' = heard /\ fed' = fed /\ vain' = vain
    BY DEF comprVars
  <1>5. InTurn' = InTurn /\ RingTypes' = RingTypes
    BY <1>1, <1>2, Zenon DEF InTurn, RingTypes, Given
  <1>6. PlaybackInv' = PlaybackInv
    BY <1>1, <1>2, <1>5, Zenon DEF PlaybackInv, Written, AllGiven, Given
  <1>7. CaptureInv' = CaptureInv
    BY <1>1, <1>2, <1>5, Zenon DEF CaptureInv, Looked, Due, Lag, Taped, AllAround, Around, Called
  <1>8. PullInv' = PullInv
    BY <1>1, <1>2, <1>3, Zenon DEF PullInv, Seen
  <1>9. ComprTypes' = ComprTypes /\ DrainInv' = DrainInv
    BY <1>4, Zenon DEF ComprTypes, DrainInv, Comes, HasEos
  <1>10. InLine' = InLine /\ Returned' = Returned /\ Counted' = Counted
    BY <1>4, Zenon DEF InLine, Returned, Counted, Compr!HandedOver
  <1>11. ComprInv' = ComprInv
    BY <1>4, <1>9, <1>10, Zenon DEF ComprInv, Fed
  <1> QED BY <1>1, <1>6, <1>7, <1>8, <1>11, Zenon DEF StreamsInv

\* The inductive invariant of the four kinds of stream is an invariant.
THEOREM StreamsInvCorrect == StreamsSpec => []StreamsInv
  <1>1. StreamsInit => StreamsInv
    BY StreamsStart
  <1>2. StreamsInv /\ [StreamsNext]_<<ringVars, pullRest, comprVars>> => StreamsInv'
    BY StreamsKept, StreamsRest, Zenon
  <1> QED BY <1>1, <1>2, PTL DEF StreamsSpec

\* What is heard or read is the stream, in order and once: the periods
\* q6apm_dai_ack hands over are those written, the frames a capture reads
\* those recorded, the pull-mode pointer is behind the DSP's, and the
\* decoder has the fragments in order, for any size of ring and period.
THEOREM StreamsCorrect == StreamsSpec => []StreamsAreWhole
  <1>1. StreamsInv => StreamsAreWhole
    <2> SUFFICES ASSUME StreamsInv
                 PROVE  StreamsAreWhole
      OBVIOUS
    <2>1. PlayedAsWritten
      BY PlaybackWhole DEF StreamsInv, PlayedAsWritten
    <2>2. RecordsTheSource
      BY CaptureWhole DEF StreamsInv, RecordsTheSource
    <2>3. PullsTheStream
      <3>1. CASE dir = "pull"
        BY <3>1, PullWhole DEF StreamsInv
      <3>2. CASE dir # "pull"
        BY <3>2 DEF PullsTheStream
      <3> QED BY <3>1, <3>2
    <2>4. dir = "compressed" => Compr!DecodesTheStream
      BY ComprWhole DEF StreamsInv
    <2> QED BY <2>1, <2>2, <2>3, <2>4, Zenon DEF StreamsAreWhole
  <1> QED BY <1>1, StreamsInvCorrect, PTL

\* A drain of a compressed stream does not come to rest with nothing left
\* to come back, unless it began with nothing to send or with a driver
\* that counts the stream stopped (event_handler_compr).
THEOREM DrainEndsCorrect == StreamsSpec => []DrainEnds
  <1>1. StreamsInv => DrainEnds
    BY ComprWhole, Zenon DEF StreamsInv, DrainEnds
  <1> QED BY <1>1, StreamsInvCorrect, PTL

\* The pointer of an ordinary ring moves only to one frame short of the
\* periods that came back (q6apm_dai_pointer), however many callbacks fall
\* between two looks.
THEOREM PointerCorrect == StreamsSpec => PointerIsTheDevices
  <1>1. StreamsInv /\ [StreamsNext]_<<ringVars, pullRest, comprVars>>
          => [dir # "pull" /\ clean /\ hw' > hw => hw' = (back - first') * P - 1]_ringVars
    <2> SUFFICES ASSUME StreamsInv, [StreamsNext]_<<ringVars, pullRest, comprVars>>
                 PROVE  [dir # "pull" /\ clean /\ hw' > hw => hw' = (back - first') * P - 1]_ringVars
      OBVIOUS
    <2>1. CASE StreamsNext
      BY <2>1, StreamsKept, Zenon
    <2>2. CASE UNCHANGED <<ringVars, pullRest, comprVars>>
      BY <2>2
    <2> QED BY <2>1, <2>2
  <1> QED BY <1>1, StreamsInvCorrect, PTL DEF StreamsSpec, PointerIsTheDevices
=============================================================================
