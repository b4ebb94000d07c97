-------------------------- MODULE SpeakerCardProofs --------------------------
\* Theorems about SpeakerCard, for any topology files and any module,
\* stage and gain: the graph that plays is protected as a whole or
\* bypassed, whatever command fails, and is never switched to protection
\* without its feedback.
EXTENDS SpeakerCard, Integers, SequenceTheorems, TLAPS

-----------------------------------------------------------------------------
\* The sequences of commands of a prepare, and what is left of one.
Setup == PullSetup \o <<"protection">>
End == <<"configured", "start">>
Up == Enabling \o Volume \o End
Down == Bypassing \o Volume \o End

Rest(s, k) == SubSeq(s, k, Len(s))

Words ==
  {"protection", "configured", "start", "ring", "watermarks",
   "pause_event", "resume_event", "pull_format", "pcm_cnv_format",
   "mfc_format", "sp_mode", "sp_tag", "get_sp", "get_spvi", "r0t0",
   "channel_mode", "processing_mode", "spvi_tag", "render_ep", "vi_ep",
   "spvi_on", "sp_on", "sp_off", "spvi_off", "gain", "filter", "mute",
   "mixer"}

LEMMA ConcatIs ==
  ASSUME NEW s \in Seq(Words), NEW t \in Seq(Words), NEW u \in Seq(Words),
         Len(u) = Len(s) + Len(t),
         \A i \in 1 .. Len(s) : u[i] = s[i],
         \A i \in 1 .. Len(t) : u[Len(s) + i] = t[i]
  PROVE  s \o t = u
  <1>1. /\ s \o t \in Seq(Words) /\ Len(s \o t) = Len(s) + Len(t)
        /\ \A i \in 1 .. Len(s) + Len(t) :
             (s \o t)[i] = IF i <= Len(s) THEN s[i] ELSE t[i - Len(s)]
    BY ConcatProperties
  <1>2. ASSUME NEW i \in 1 .. Len(s \o t) PROVE (s \o t)[i] = u[i]
    <2>1. Len(s) \in Nat /\ Len(t) \in Nat
      BY LenProperties
    <2>2. CASE i <= Len(s)
      BY <1>1, <1>2, <2>1, <2>2
    <2>3. CASE i > Len(s)
      <3>1. i - Len(s) \in 1 .. Len(t) /\ i = Len(s) + (i - Len(s))
        BY <1>1, <1>2, <2>1, <2>3
      <3> QED BY <1>1, <1>2, <2>1, <2>3, <3>1
    <2> QED BY <2>1, <2>2, <2>3
  <1> QED BY <1>1, <1>2, SeqEqual

LEMMA SetupIs ==
  Setup =
    <<"ring", "watermarks", "pause_event", "resume_event", "pull_format",
      "pcm_cnv_format", "mfc_format", "protection">>
  <1> DEFINE s ==
           <<"ring", "watermarks", "pause_event", "resume_event",
             "pull_format", "pcm_cnv_format", "mfc_format">>
  <1> DEFINE t == <<"protection">>
  <1> DEFINE u ==
           <<"ring", "watermarks", "pause_event", "resume_event",
             "pull_format", "pcm_cnv_format", "mfc_format", "protection">>
  <1>1. s \in Seq(Words) /\ Len(s) = 7
    BY DEF Words
  <1>2. t \in Seq(Words) /\ Len(t) = 1
    BY DEF Words
  <1>3. u \in Seq(Words) /\ Len(u) = 8
    BY DEF Words
  <1>4. \A i \in 1 .. 7 : u[i] = s[i]
    OBVIOUS
  <1>5. \A i \in 1 .. 1 : u[7 + i] = t[i]
    OBVIOUS
  <1> HIDE DEF s, t, u
  <1>6. s \o t = u
    <2>1. Len(u) = Len(s) + Len(t)
      BY <1>1, <1>2, <1>3
    <2>2. \A i \in 1 .. Len(s) : u[i] = s[i]
      BY <1>1, <1>4
    <2>3. \A i \in 1 .. Len(t) : u[Len(s) + i] = t[i]
      BY <1>1, <1>2, <1>5
    <2> QED BY <1>1, <1>2, <1>3, <2>1, <2>2, <2>3, ConcatIs
  <1> USE DEF s, t, u
  <1> QED BY <1>6 DEF Setup, PullSetup

LEMMA EnablingIs ==
  Enabling =
    <<"sp_mode", "sp_tag", "get_sp", "get_spvi", "r0t0", "channel_mode",
      "processing_mode", "spvi_tag", "render_ep", "vi_ep", "spvi_on",
      "sp_on">>
  <1> DEFINE s ==
           <<"sp_mode", "sp_tag", "get_sp", "get_spvi", "r0t0",
             "channel_mode", "processing_mode", "spvi_tag", "render_ep",
             "vi_ep">>
  <1> DEFINE t == <<"spvi_on", "sp_on">>
  <1> DEFINE u ==
           <<"sp_mode", "sp_tag", "get_sp", "get_spvi", "r0t0",
             "channel_mode", "processing_mode", "spvi_tag", "render_ep",
             "vi_ep", "spvi_on", "sp_on">>
  <1>1. s \in Seq(Words) /\ Len(s) = 10
    BY DEF Words
  <1>2. t \in Seq(Words) /\ Len(t) = 2
    BY DEF Words
  <1>3. u \in Seq(Words) /\ Len(u) = 12
    BY DEF Words
  <1>4. \A i \in 1 .. 10 : u[i] = s[i]
    OBVIOUS
  <1>5. \A i \in 1 .. 2 : u[10 + i] = t[i]
    OBVIOUS
  <1> HIDE DEF s, t, u
  <1>6. s \o t = u
    <2>1. Len(u) = Len(s) + Len(t)
      BY <1>1, <1>2, <1>3
    <2>2. \A i \in 1 .. Len(s) : u[i] = s[i]
      BY <1>1, <1>4
    <2>3. \A i \in 1 .. Len(t) : u[Len(s) + i] = t[i]
      BY <1>1, <1>2, <1>5
    <2> QED BY <1>1, <1>2, <1>3, <2>1, <2>2, <2>3, ConcatIs
  <1> USE DEF s, t, u
  <1> QED BY <1>6 DEF Enabling, Calibration

LEMMA EnablingVolumeIs ==
  Enabling \o Volume =
    <<"sp_mode", "sp_tag", "get_sp", "get_spvi", "r0t0", "channel_mode",
      "processing_mode", "spvi_tag", "render_ep", "vi_ep", "spvi_on",
      "sp_on", "gain", "filter", "mute", "mixer">>
  <1> DEFINE s ==
           <<"sp_mode", "sp_tag", "get_sp", "get_spvi", "r0t0",
             "channel_mode", "processing_mode", "spvi_tag", "render_ep",
             "vi_ep", "spvi_on", "sp_on">>
  <1> DEFINE t == <<"gain", "filter", "mute", "mixer">>
  <1> DEFINE u ==
           <<"sp_mode", "sp_tag", "get_sp", "get_spvi", "r0t0",
             "channel_mode", "processing_mode", "spvi_tag", "render_ep",
             "vi_ep", "spvi_on", "sp_on", "gain", "filter", "mute",
             "mixer">>
  <1>1. s \in Seq(Words) /\ Len(s) = 12
    BY DEF Words
  <1>2. t \in Seq(Words) /\ Len(t) = 4
    BY DEF Words
  <1>3. u \in Seq(Words) /\ Len(u) = 16
    BY DEF Words
  <1>4. \A i \in 1 .. 12 : u[i] = s[i]
    OBVIOUS
  <1>5. \A i \in 1 .. 4 : u[12 + i] = t[i]
    OBVIOUS
  <1> HIDE DEF s, t, u
  <1>6. s \o t = u
    <2>1. Len(u) = Len(s) + Len(t)
      BY <1>1, <1>2, <1>3
    <2>2. \A i \in 1 .. Len(s) : u[i] = s[i]
      BY <1>1, <1>4
    <2>3. \A i \in 1 .. Len(t) : u[Len(s) + i] = t[i]
      BY <1>1, <1>2, <1>5
    <2> QED BY <1>1, <1>2, <1>3, <2>1, <2>2, <2>3, ConcatIs
  <1> USE DEF s, t, u
  <1> QED BY <1>6, EnablingIs DEF Volume

LEMMA BypassingVolumeIs ==
  Bypassing \o Volume =
    <<"sp_off", "spvi_off", "gain", "filter", "mute", "mixer">>
  <1> DEFINE s == <<"sp_off", "spvi_off">>
  <1> DEFINE t == <<"gain", "filter", "mute", "mixer">>
  <1> DEFINE u ==
           <<"sp_off", "spvi_off", "gain", "filter", "mute", "mixer">>
  <1>1. s \in Seq(Words) /\ Len(s) = 2
    BY DEF Words
  <1>2. t \in Seq(Words) /\ Len(t) = 4
    BY DEF Words
  <1>3. u \in Seq(Words) /\ Len(u) = 6
    BY DEF Words
  <1>4. \A i \in 1 .. 2 : u[i] = s[i]
    OBVIOUS
  <1>5. \A i \in 1 .. 4 : u[2 + i] = t[i]
    OBVIOUS
  <1> HIDE DEF s, t, u
  <1>6. s \o t = u
    <2>1. Len(u) = Len(s) + Len(t)
      BY <1>1, <1>2, <1>3
    <2>2. \A i \in 1 .. Len(s) : u[i] = s[i]
      BY <1>1, <1>4
    <2>3. \A i \in 1 .. Len(t) : u[Len(s) + i] = t[i]
      BY <1>1, <1>2, <1>5
    <2> QED BY <1>1, <1>2, <1>3, <2>1, <2>2, <2>3, ConcatIs
  <1> USE DEF s, t, u
  <1> QED BY <1>6 DEF Bypassing, Volume

LEMMA EnablingScriptIs ==
  (Enabling \o Volume) \o <<"configured", "start">> =
    <<"sp_mode", "sp_tag", "get_sp", "get_spvi", "r0t0", "channel_mode",
      "processing_mode", "spvi_tag", "render_ep", "vi_ep", "spvi_on",
      "sp_on", "gain", "filter", "mute", "mixer", "configured", "start">>
  <1> DEFINE s ==
           <<"sp_mode", "sp_tag", "get_sp", "get_spvi", "r0t0",
             "channel_mode", "processing_mode", "spvi_tag", "render_ep",
             "vi_ep", "spvi_on", "sp_on", "gain", "filter", "mute",
             "mixer">>
  <1> DEFINE t == <<"configured", "start">>
  <1> DEFINE u ==
           <<"sp_mode", "sp_tag", "get_sp", "get_spvi", "r0t0",
             "channel_mode", "processing_mode", "spvi_tag", "render_ep",
             "vi_ep", "spvi_on", "sp_on", "gain", "filter", "mute",
             "mixer", "configured", "start">>
  <1>1. s \in Seq(Words) /\ Len(s) = 16
    BY DEF Words
  <1>2. t \in Seq(Words) /\ Len(t) = 2
    BY DEF Words
  <1>3. u \in Seq(Words) /\ Len(u) = 18
    BY DEF Words
  <1>4. \A i \in 1 .. 16 : u[i] = s[i]
    OBVIOUS
  <1>5. \A i \in 1 .. 2 : u[16 + i] = t[i]
    OBVIOUS
  <1> HIDE DEF s, t, u
  <1>6. s \o t = u
    <2>1. Len(u) = Len(s) + Len(t)
      BY <1>1, <1>2, <1>3
    <2>2. \A i \in 1 .. Len(s) : u[i] = s[i]
      BY <1>1, <1>4
    <2>3. \A i \in 1 .. Len(t) : u[Len(s) + i] = t[i]
      BY <1>1, <1>2, <1>5
    <2> QED BY <1>1, <1>2, <1>3, <2>1, <2>2, <2>3, ConcatIs
  <1> USE DEF s, t, u
  <1> QED BY <1>6, EnablingVolumeIs

LEMMA BypassingScriptIs ==
  (Bypassing \o Volume) \o <<"configured", "start">> =
    <<"sp_off", "spvi_off", "gain", "filter", "mute", "mixer",
      "configured", "start">>
  <1> DEFINE s ==
           <<"sp_off", "spvi_off", "gain", "filter", "mute", "mixer">>
  <1> DEFINE t == <<"configured", "start">>
  <1> DEFINE u ==
           <<"sp_off", "spvi_off", "gain", "filter", "mute", "mixer",
             "configured", "start">>
  <1>1. s \in Seq(Words) /\ Len(s) = 6
    BY DEF Words
  <1>2. t \in Seq(Words) /\ Len(t) = 2
    BY DEF Words
  <1>3. u \in Seq(Words) /\ Len(u) = 8
    BY DEF Words
  <1>4. \A i \in 1 .. 6 : u[i] = s[i]
    OBVIOUS
  <1>5. \A i \in 1 .. 2 : u[6 + i] = t[i]
    OBVIOUS
  <1> HIDE DEF s, t, u
  <1>6. s \o t = u
    <2>1. Len(u) = Len(s) + Len(t)
      BY <1>1, <1>2, <1>3
    <2>2. \A i \in 1 .. Len(s) : u[i] = s[i]
      BY <1>1, <1>4
    <2>3. \A i \in 1 .. Len(t) : u[Len(s) + i] = t[i]
      BY <1>1, <1>2, <1>5
    <2> QED BY <1>1, <1>2, <1>3, <2>1, <2>2, <2>3, ConcatIs
  <1> USE DEF s, t, u
  <1> QED BY <1>6, BypassingVolumeIs

LEMMA ScriptIs ==
  /\ Up =
       <<"sp_mode", "sp_tag", "get_sp", "get_spvi", "r0t0", "channel_mode",
         "processing_mode", "spvi_tag", "render_ep", "vi_ep", "spvi_on",
         "sp_on", "gain", "filter", "mute", "mixer", "configured", "start">>
  /\ Down =
       <<"sp_off", "spvi_off", "gain", "filter", "mute", "mixer",
         "configured", "start">>
  <1>1. /\ Enabling \in Seq(Words) /\ Bypassing \in Seq(Words)
        /\ Volume \in Seq(Words) /\ <<"configured", "start">> \in Seq(Words)
    BY EnablingIs DEF Bypassing, Volume, Words
  <1>2. /\ Up = (Enabling \o Volume) \o <<"configured", "start">>
        /\ Down = (Bypassing \o Volume) \o <<"configured", "start">>
    BY <1>1, ConcatAssociative DEF Up, Down, End
  <1> QED BY <1>2, EnablingScriptIs, BypassingScriptIs

\* What is left of a sequence begins with the next command.
LEMMA RestIs ==
  ASSUME NEW s \in Seq(Words), NEW k \in 1 .. Len(s)
  PROVE  /\ Rest(s, k) # <<>> /\ Head(Rest(s, k)) = s[k]
         /\ Tail(Rest(s, k)) = Rest(s, k + 1)
         /\ Rest(s, 1) = s /\ Rest(s, Len(s) + 1) = <<>>
  <1>1. Len(s) \in Nat /\ Len(s) \in k .. Len(s) /\ k \in Int
    BY LenProperties
  <1>2. Head(Rest(s, k)) = s[k] /\ Tail(Rest(s, k)) = Rest(s, k + 1)
    BY <1>1, HeadTailOfSubSeq DEF Rest
  <1>3. Len(Rest(s, k)) = Len(s) - k + 1
    <2>1. \A i \in k .. Len(s) : s[i] \in Words
      BY <1>1, ElementOfSeq
    <2> QED BY <1>1, <2>1, SubSeqProperties DEF Rest
  <1>4. Rest(s, 1) = s
    BY <1>1, SubSeqFull DEF Rest
  <1>5. Rest(s, Len(s) + 1) = <<>>
    BY <1>1, SubSeqEmpty DEF Rest
  <1> QED BY <1>1, <1>2, <1>3, <1>4, <1>5, EmptySeq

-----------------------------------------------------------------------------
\* The inductive invariant.

Types ==
  /\ pcm \in {"closed", "open", "setup", "prepared", "running"}
  /\ feState \in {"IDLE", "STOPPED", "RUNNING"}
  /\ bePrepared \subseteq BackEnd
  /\ ready \in [Feedback -> BOOLEAN]
  /\ configured \in BOOLEAN /\ held \in BOOLEAN /\ profile \in BOOLEAN
  /\ dsp \in [ring : BOOLEAN, applied : SUBSET Words, sp : BOOLEAN,
              spvi : BOOLEAN, started : BOOLEAN]

\* No prepare is in progress but of a stream that has parameters and does
\* not run; a closed stream has no feedback, and nothing of it is left
\* unless a control holds the graph.
Calls ==
  /\ pcm \in {"closed", "open", "running"} => todo = <<>>
  /\ pcm \in {"closed", "open"} => ready = Unready
  /\ pcm = "closed" => feState = "IDLE"
  /\ pcm = "closed" /\ ~held => ~configured

\* A graph that has not taken the ring has taken nothing.
Untouched == ~configured /\ ~dsp.started
RingFirst == ~dsp.ring => Untouched /\ dsp.sp = dsp.spvi

\* Before the k-th command of the script every earlier one has been done.
Sent(s, k) == {s[i] : i \in 1 .. k - 1}
Half(s, k) ==
  LET before == Sent(s, k) IN
  /\ dsp.ring /\ ~dsp.started
  /\ s = Up => Fed
  /\ \A c \in before : c \notin Switches /\ c # "configured" => c \in dsp.applied
  /\ "spvi_on" \in before => dsp.spvi
  /\ "sp_on" \in before => dsp.sp
  /\ "sp_off" \in before => ~dsp.sp
  /\ "spvi_off" \in before => ~dsp.spvi

\* Where the prepare in progress is.
AtRest == todo \in {<<>>, <<"back_ends">>, Setup}
InSetup == \E k \in 2 .. 8 : todo = Rest(Setup, k) /\ dsp.ring /\ Untouched
InScript ==
  \E s \in {Up, Down} : \E k \in 1 .. Len(s) : todo = Rest(s, k) /\ Half(s, k)
Where == AtRest \/ InSetup \/ InScript

CardInv == Types /\ Calls /\ RingFirst /\ Where /\ ProtectedOrBypassed

-----------------------------------------------------------------------------
LEMMA SetupSeq ==
  /\ Setup \in Seq(Words) /\ Len(Setup) = 8
  /\ Setup[1] = "ring" /\ Setup[8] = "protection"
  /\ \A k \in 1 .. 7 : Setup[k] \in ToSet(PullSetup)
  <1>1. Setup \in Seq(Words) /\ Len(Setup) = 8
    BY SetupIs DEF Words
  <1>2. Setup[1] = "ring" /\ Setup[8] = "protection"
    BY SetupIs
  <1>3. \A k \in 1 .. 7 : Setup[k] = PullSetup[k] /\ k \in DOMAIN PullSetup
    BY SetupIs DEF PullSetup
  <1> QED BY <1>1, <1>2, <1>3 DEF ToSet

LEMMA Joined ==
  ASSUME NEW s \in Seq(Words), NEW t \in Seq(Words), NEW u \in Seq(Words)
  PROVE  /\ s \o (t \o u) \in Seq(Words)
         /\ Len(s \o (t \o u)) = Len(s) + Len(t) + Len(u)
  <1>1. t \o u \in Seq(Words) /\ Len(t \o u) = Len(t) + Len(u)
    BY ConcatProperties
  <1>2. s \o (t \o u) \in Seq(Words) /\ Len(s \o (t \o u)) = Len(s) + Len(t \o u)
    BY <1>1, ConcatProperties
  <1>3. Len(s) \in Nat /\ Len(t) \in Nat /\ Len(u) \in Nat
    BY LenProperties
  <1> QED BY <1>1, <1>2, <1>3

LEMMA ScriptSeq ==
  /\ Up \in Seq(Words) /\ Len(Up) = 18
  /\ Down \in Seq(Words) /\ Len(Down) = 8
  <1>1. Enabling \in Seq(Words) /\ Len(Enabling) = 12
    BY EnablingIs DEF Words
  <1>2. Bypassing \in Seq(Words) /\ Len(Bypassing) = 2
    BY DEF Bypassing, Words
  <1>3. Volume \in Seq(Words) /\ Len(Volume) = 4
    BY DEF Volume, Words
  <1>4. End \in Seq(Words) /\ Len(End) = 2
    BY DEF Words, End
  <1>5. Up = Enabling \o (Volume \o End)
    BY <1>1, <1>3, <1>4, ConcatAssociative DEF Up
  <1>6. Down = Bypassing \o (Volume \o End)
    BY <1>2, <1>3, <1>4, ConcatAssociative DEF Down
  <1>7. Up \in Seq(Words) /\ Len(Up) = 18
    <2>1. /\ Enabling \o (Volume \o End) \in Seq(Words)
          /\ Len(Enabling \o (Volume \o End)) = Len(Enabling) + Len(Volume) + Len(End)
      BY <1>1, <1>3, <1>4, Joined
    <2>2. Len(Enabling) + Len(Volume) + Len(End) = 18
      BY <1>1, <1>3, <1>4
    <2> QED BY <2>1, <2>2, <1>5
  <1>8. Down \in Seq(Words) /\ Len(Down) = 8
    <2>1. /\ Bypassing \o (Volume \o End) \in Seq(Words)
          /\ Len(Bypassing \o (Volume \o End)) = Len(Bypassing) + Len(Volume) + Len(End)
      BY <1>2, <1>3, <1>4, Joined
    <2>2. Len(Bypassing) + Len(Volume) + Len(End) = 8
      BY <1>2, <1>3, <1>4
    <2> QED BY <2>1, <2>2, <1>6
  <1> QED BY <1>7, <1>8

LEMMA WordSets ==
  /\ ToSet(PullSetup) = {"ring", "watermarks", "pause_event", "resume_event",
                         "pull_format", "pcm_cnv_format", "mfc_format"}
  /\ ToSet(Calibration) = {"sp_mode", "sp_tag", "get_sp", "get_spvi", "r0t0",
                           "channel_mode", "processing_mode", "spvi_tag",
                           "render_ep", "vi_ep"}
  /\ ToSet(Volume) = {"gain", "filter", "mute", "mixer"}
  /\ Steps = Words \cup {"back_ends"}
  <1>1. ToSet(PullSetup) = {"ring", "watermarks", "pause_event", "resume_event",
                            "pull_format", "pcm_cnv_format", "mfc_format"}
    <2>1. DOMAIN PullSetup = 1 .. 7
      BY DEF PullSetup
    <2> QED BY <2>1 DEF ToSet, PullSetup
  <1>2. ToSet(Calibration) = {"sp_mode", "sp_tag", "get_sp", "get_spvi", "r0t0",
                              "channel_mode", "processing_mode", "spvi_tag",
                              "render_ep", "vi_ep"}
    <2>1. DOMAIN Calibration = 1 .. 10
      BY DEF Calibration
    <2> QED BY <2>1 DEF ToSet, Calibration
  <1>3. ToSet(Volume) = {"gain", "filter", "mute", "mixer"}
    <2>1. DOMAIN Volume = 1 .. 4
      BY DEF Volume
    <2> QED BY <2>1 DEF ToSet, Volume
  <1>4. Steps = Words \cup {"back_ends"}
    BY <1>1, <1>2, <1>3 DEF Steps, Switches, Words
  <1> QED BY <1>1, <1>2, <1>3, <1>4

\* The next command of the prepare, wherever it is.
LEMMA NextOfSetup ==
  ASSUME NEW k \in 1 .. 8, todo = Rest(Setup, k)
  PROVE  /\ todo # <<>> /\ Head(todo) = Setup[k] /\ Tail(todo) = Rest(Setup, k + 1)
         /\ Rest(Setup, 1) = Setup /\ Rest(Setup, 9) = <<>>
  <1>1. Setup \in Seq(Words) /\ k \in 1 .. Len(Setup) /\ Len(Setup) + 1 = 9
    BY SetupSeq
  <1> QED BY <1>1, RestIs

LEMMA NextOfScript ==
  ASSUME NEW s \in {Up, Down}, NEW k \in 1 .. Len(s), todo = Rest(s, k)
  PROVE  /\ todo # <<>> /\ Head(todo) = s[k] /\ Tail(todo) = Rest(s, k + 1)
         /\ Rest(s, 1) = s /\ Rest(s, Len(s) + 1) = <<>>
BY RestIs, ScriptSeq

LEMMA HeadOfBackEnds == <<"back_ends">> # <<>> /\ Head(<<"back_ends">>) = "back_ends"
OBVIOUS

\* The word at each place of the script.
LEMMA ScriptOnWords ==
  ASSUME NEW k \in 1 .. 18
  PROVE
    \/ k = 1 /\ Up[k] = "sp_mode"
    \/ k = 2 /\ Up[k] = "sp_tag"
    \/ k = 3 /\ Up[k] = "get_sp"
    \/ k = 4 /\ Up[k] = "get_spvi"
    \/ k = 5 /\ Up[k] = "r0t0"
    \/ k = 6 /\ Up[k] = "channel_mode"
    \/ k = 7 /\ Up[k] = "processing_mode"
    \/ k = 8 /\ Up[k] = "spvi_tag"
    \/ k = 9 /\ Up[k] = "render_ep"
    \/ k = 10 /\ Up[k] = "vi_ep"
    \/ k = 11 /\ Up[k] = "spvi_on"
    \/ k = 12 /\ Up[k] = "sp_on"
    \/ k = 13 /\ Up[k] = "gain"
    \/ k = 14 /\ Up[k] = "filter"
    \/ k = 15 /\ Up[k] = "mute"
    \/ k = 16 /\ Up[k] = "mixer"
    \/ k = 17 /\ Up[k] = "configured"
    \/ k = 18 /\ Up[k] = "start"
  <1>1. k = 1 \/ k = 2 \/ k = 3 \/ k = 4 \/ k = 5 \/ k = 6 \/ k = 7 \/ k = 8
        \/ k = 9 \/ k = 10 \/ k = 11 \/ k = 12 \/ k = 13 \/ k = 14 \/ k = 15
        \/ k = 16 \/ k = 17 \/ k = 18
    OBVIOUS
  <1>2. /\ Up[1] = "sp_mode" /\ Up[2] = "sp_tag"
        /\ Up[3] = "get_sp" /\ Up[4] = "get_spvi"
        /\ Up[5] = "r0t0" /\ Up[6] = "channel_mode"
        /\ Up[7] = "processing_mode" /\ Up[8] = "spvi_tag"
        /\ Up[9] = "render_ep" /\ Up[10] = "vi_ep"
        /\ Up[11] = "spvi_on" /\ Up[12] = "sp_on"
        /\ Up[13] = "gain" /\ Up[14] = "filter"
        /\ Up[15] = "mute" /\ Up[16] = "mixer"
        /\ Up[17] = "configured" /\ Up[18] = "start"
    BY ScriptIs
  <1> QED BY <1>1, <1>2

LEMMA ScriptOffWords ==
  ASSUME NEW k \in 1 .. 8
  PROVE
    \/ k = 1 /\ Down[k] = "sp_off"
    \/ k = 2 /\ Down[k] = "spvi_off"
    \/ k = 3 /\ Down[k] = "gain"
    \/ k = 4 /\ Down[k] = "filter"
    \/ k = 5 /\ Down[k] = "mute"
    \/ k = 6 /\ Down[k] = "mixer"
    \/ k = 7 /\ Down[k] = "configured"
    \/ k = 8 /\ Down[k] = "start"
  <1>1. k = 1 \/ k = 2 \/ k = 3 \/ k = 4 \/ k = 5 \/ k = 6 \/ k = 7 \/ k = 8
    OBVIOUS
  <1>2. /\ Down[1] = "sp_off" /\ Down[2] = "spvi_off"
        /\ Down[3] = "gain" /\ Down[4] = "filter"
        /\ Down[5] = "mute" /\ Down[6] = "mixer"
        /\ Down[7] = "configured" /\ Down[8] = "start"
    BY ScriptIs
  <1> QED BY <1>1, <1>2

LEMMA ScriptWords ==
  ASSUME NEW s \in {Up, Down}
  PROVE  /\ s \in Seq(Words) /\ 1 \in 1 .. Len(s)
         /\ \A k \in 1 .. Len(s) :
              /\ s[k] \in Words
              /\ s[k] \notin ToSet(PullSetup) \cup {"protection", "back_ends"}
  <1>1. \A k \in 1 .. 18 :
          /\ Up[k] \in Words
          /\ Up[k] \notin ToSet(PullSetup) \cup {"protection", "back_ends"}
    BY ScriptOnWords, WordSets DEF Words
  <1>2. \A k \in 1 .. 8 :
          /\ Down[k] \in Words
          /\ Down[k] \notin ToSet(PullSetup) \cup {"protection", "back_ends"}
    BY ScriptOffWords, WordSets DEF Words
  <1>3. CASE s = Up
    BY <1>1, <1>3, ScriptSeq
  <1>4. CASE s = Down
    BY <1>2, <1>4, ScriptSeq
  <1> QED BY <1>3, <1>4

LEMMA UpIsNotDown == Up # Down
  <1>1. Len(Up) = 18 /\ Len(Down) = 8
    BY ScriptSeq
  <1>2. Len(Up) # Len(Down)
    BY <1>1
  <1> QED BY <1>2, Zenon

\* A command is one of those left to a prepare at its place.
LEMMA DoingBackEnds ==
  ASSUME Where, Doing("back_ends")
  PROVE  todo = <<"back_ends">>
  <1> USE DEF Doing, Idle
  <1>1. CASE todo = Setup
    BY <1>1, NextOfSetup, SetupSeq, SetupIs
  <1>2. CASE InSetup
    <2>1. PICK k \in 2 .. 8 : todo = Rest(Setup, k)
      BY <1>2 DEF InSetup
    <2>2. Setup[k] # "back_ends"
      BY SetupIs
    <2> QED BY <2>1, <2>2, NextOfSetup
  <1>3. CASE InScript
    <2>1. PICK s \in {Up, Down} : \E k \in 1 .. Len(s) : todo = Rest(s, k)
      BY <1>3 DEF InScript
    <2>2. PICK k \in 1 .. Len(s) : todo = Rest(s, k)
      BY <2>1
    <2>3. s[k] # "back_ends"
      BY ScriptWords
    <2> QED BY <2>2, <2>3, NextOfScript
  <1> QED BY <1>1, <1>2, <1>3 DEF Where, AtRest

\* What a command does to the graph.
Graph == [ring : BOOLEAN, applied : SUBSET Words, sp : BOOLEAN, spvi : BOOLEAN,
          started : BOOLEAN]

LEMMA AppliedIs ==
  ASSUME dsp \in Graph, NEW c \in Words
  PROVE  /\ Applied(c) \in Graph
         /\ Applied(c).ring <=> (dsp.ring \/ c = "ring")
         /\ Applied(c).sp <=> ((dsp.sp \/ c = "sp_on") /\ c # "sp_off")
         /\ Applied(c).spvi <=> ((dsp.spvi \/ c = "spvi_on") /\ c # "spvi_off")
         /\ Applied(c).started <=> (dsp.started \/ c = "start")
         /\ dsp.applied \subseteq Applied(c).applied
         /\ c \notin Switches \cup {"ring", "start"} => c \in Applied(c).applied
  <1> USE DEF Graph, Switches
  <1>1. CASE c = "ring"
    BY <1>1 DEF Applied
  <1>2. CASE c = "sp_on"
    BY <1>2 DEF Applied
  <1>3. CASE c = "sp_off"
    BY <1>3 DEF Applied
  <1>4. CASE c = "spvi_on"
    BY <1>4 DEF Applied
  <1>5. CASE c = "spvi_off"
    BY <1>5 DEF Applied
  <1>6. CASE c = "start"
    BY <1>6 DEF Applied
  <1>7. CASE c \notin Switches \cup {"ring", "start"}
    BY <1>7 DEF Applied
  <1> QED BY <1>1, <1>2, <1>3, <1>4, <1>5, <1>6, <1>7

\* A graph as it is opened keeps every promise.
LEMMA FreshIs ==
  ASSUME NEW up \in BOOLEAN
  PROVE  /\ Fresh(up) \in Graph /\ ~Fresh(up).ring /\ ~Fresh(up).started
         /\ Fresh(up).sp = up /\ Fresh(up).spvi = up
BY DEF Fresh, Graph

\* A prepare that has come to an end, or not begun, says nothing.
LEMMA RestingKept ==
  ASSUME AtRest' \/ (UNCHANGED <<todo, dsp, configured, ready>> /\ Where)
  PROVE  Where'
BY DEF Where, AtRest, InSetup, InScript, Half, Untouched, Fed

LEMMA CallsKept ==
  ASSUME CardInv,
         Open \/ HwParams \/ HwFree \/ Prepare \/ Trigger \/ Stop \/ Close \/ CtlGet \/ CtlPut
  PROVE  CardInv'
  <1>1. CASE Open
    <2>1. Types'
      BY <1>1, FreshIs DEF CardInv, Types, Open, Graph
    <2>2. Calls'
      BY <1>1 DEF CardInv, Calls, Open
    <2>3. RingFirst' /\ ProtectedOrBypassed'
      BY <1>1, FreshIs DEF CardInv, Calls, RingFirst, Untouched, Open, ProtectedOrBypassed,
                           RunsWhole, FeedbackFirst
    <2>4. Where'
      BY <1>1, RestingKept DEF CardInv, Calls, Open, AtRest
    <2> QED BY <2>1, <2>2, <2>3, <2>4 DEF CardInv
  <1>2. CASE HwParams \/ HwFree \/ Prepare \/ Trigger \/ Stop
    <2>1. Types'
      BY <1>2 DEF CardInv, Types, HwParams, HwFree, Prepare, Trigger, Stop, Unready
    <2>2. Calls'
      BY <1>2 DEF CardInv, Calls, HwParams, HwFree, Prepare, Trigger, Stop, Idle
    <2>3. RingFirst' /\ ProtectedOrBypassed'
      BY <1>2 DEF CardInv, RingFirst, Untouched, HwParams, HwFree, Prepare, Trigger, Stop,
                  ProtectedOrBypassed, RunsWhole, FeedbackFirst
    <2>4. Where'
      BY <1>2, RestingKept DEF CardInv, Calls, HwParams, HwFree, Prepare, Trigger, Stop, Idle,
                               AtRest
    <2> QED BY <2>1, <2>2, <2>3, <2>4 DEF CardInv
  <1>3. CASE Close
    <2>1. Types'
      BY <1>3, FreshIs DEF CardInv, Types, Close, Graph, Unready
    <2>2. Calls'
      BY <1>3 DEF CardInv, Calls, Close, Idle
    <2>3. RingFirst' /\ ProtectedOrBypassed'
      BY <1>3, FreshIs DEF CardInv, Types, RingFirst, Untouched, Close, ProtectedOrBypassed,
                           RunsWhole, FeedbackFirst
    <2>4. Where'
      BY <1>3, RestingKept DEF Close, Idle, AtRest
    <2> QED BY <2>1, <2>2, <2>3, <2>4 DEF CardInv
  <1>4. CASE CtlGet \/ CtlPut
    <2>1. Types'
      BY <1>4, FreshIs DEF CardInv, Types, CtlGet, CtlPut, Graph
    <2>2. Calls'
      BY <1>4 DEF CardInv, Calls, CtlGet, CtlPut
    <2>3. RingFirst' /\ ProtectedOrBypassed'
      BY <1>4, FreshIs DEF CardInv, RingFirst, Untouched, CtlGet, CtlPut, ProtectedOrBypassed,
                           RunsWhole, FeedbackFirst
    <2>4. Where'
      BY <1>4, RestingKept DEF CardInv, Calls, CtlGet, CtlPut, AtRest
    <2> QED BY <2>1, <2>2, <2>3, <2>4 DEF CardInv
  <1> QED BY <1>1, <1>2, <1>3, <1>4

LEMMA BackEndsKept ==
  ASSUME CardInv, NEW b \in BackEnd, BePrepare(b)
  PROVE  CardInv'
  <1>1. todo = <<"back_ends">>
    BY DoingBackEnds DEF CardInv, BePrepare
  <1>2. todo' \in {todo, <<>>} /\ UNCHANGED <<pcm, feState, configured, held, profile, dsp>>
    BY DEF BePrepare, Fail
  <1>3. pcm \notin {"closed", "open", "running"}
    BY <1>1, HeadOfBackEnds DEF CardInv, Calls
  <1>4. Types'
    <2>1. PICK up \in BOOLEAN :
            ready' = [f \in Feedback |-> IF f = b THEN up ELSE ready[f]]
      BY DEF BePrepare
    <2>2. ready' \in [Feedback -> BOOLEAN]
      BY <2>1 DEF CardInv, Types
    <2>3. bePrepared' \subseteq BackEnd
      BY DEF CardInv, Types, BePrepare
    <2> QED BY <1>2, <2>2, <2>3 DEF CardInv, Types
  <1>5. Calls' /\ RingFirst' /\ ProtectedOrBypassed'
    BY <1>2, <1>3 DEF CardInv, Calls, RingFirst, Untouched, ProtectedOrBypassed, RunsWhole,
                      FeedbackFirst
  <1>6. Where'
    BY <1>1, <1>2, RestingKept DEF AtRest
  <1> QED BY <1>4, <1>5, <1>6 DEF CardInv

LEMMA FrontEndKept ==
  ASSUME CardInv, FePrepare
  PROVE  CardInv'
  <1>1. todo = <<"back_ends">>
    BY DoingBackEnds DEF CardInv, FePrepare
  <1>2. todo' \in {Setup, <<>>}
    BY DEF FePrepare, Setup
  <1>3. pcm \notin {"closed", "open", "running"}
    BY <1>1, HeadOfBackEnds DEF CardInv, Calls
  <1>4. Types'
    BY DEF CardInv, Types, FePrepare
  <1>5. Calls' /\ RingFirst' /\ ProtectedOrBypassed'
    BY <1>2, <1>3 DEF CardInv, Calls, RingFirst, Untouched, ProtectedOrBypassed, RunsWhole,
                      FeedbackFirst, FePrepare
  <1>6. Where'
    BY <1>2, RestingKept DEF AtRest
  <1> QED BY <1>4, <1>5, <1>6 DEF CardInv

\* The protection is looked at once, when the formats have been taken, and
\* the feedback that is ready then decides.
LEMMA ConfigureKept ==
  ASSUME CardInv, Configure
  PROVE  CardInv'
  <1> USE DEF Doing, Idle
  <1>1. ~Idle /\ pcm \notin {"closed", "open", "running"}
    BY DEF CardInv, Calls, Configure
  <1>2. todo = Rest(Setup, 8) /\ dsp.ring /\ Untouched
    <2>1. CASE AtRest
      BY <2>1, HeadOfBackEnds, NextOfSetup, SetupSeq, SetupIs DEF AtRest, Configure
    <2>2. CASE InSetup
      <3>1. PICK k \in 2 .. 8 : todo = Rest(Setup, k) /\ dsp.ring /\ Untouched
        BY <2>2 DEF InSetup
      <3>2. Setup[k] = "protection"
        BY <3>1, NextOfSetup DEF Configure
      <3>3. k = 8
        BY <3>2, SetupIs
      <3> QED BY <3>1, <3>3
    <2>3. CASE InScript
      <3>1. PICK s \in {Up, Down} : \E k \in 1 .. Len(s) : todo = Rest(s, k)
        BY <2>3 DEF InScript
      <3>2. PICK k \in 1 .. Len(s) : todo = Rest(s, k)
        BY <3>1
      <3>3. s[k] = "protection"
        BY <3>2, NextOfScript DEF Configure
      <3> QED BY <3>2, <3>3, ScriptWords
    <2> QED BY <2>1, <2>2, <2>3 DEF CardInv, Where
  <1>3. UNCHANGED <<pcm, feState, configured, bePrepared, ready, held, profile, dsp>>
    BY DEF Configure, Fail
  <1>4. todo' = <<>> \/ (todo' = Up /\ Fed) \/ todo' = Down
    BY <1>2 DEF Configure, Untouched, Fail, Up, Down, End
  <1>5. Where'
    <2>1. CASE todo' = <<>>
      BY <2>1, RestingKept DEF AtRest
    <2>2. CASE (todo' = Up /\ Fed) \/ todo' = Down
      <3>1. PICK s \in {Up, Down} : todo' = s /\ (s = Up => Fed)
        BY <2>2, UpIsNotDown
      <3>2. 1 \in 1 .. Len(s) /\ s \in Seq(Words)
        BY ScriptWords
      <3>3. todo' = Rest(s, 1)
        BY <3>1, <3>2, RestIs
      <3>4. Sent(s, 1) = {}
        BY DEF Sent
      <3>5. Half(s, 1)'
        BY <1>2, <1>3, <3>1, <3>4 DEF Half, Fed, Untouched
      <3> QED BY <3>2, <3>3, <3>5 DEF Where, InScript
    <2> QED BY <1>4, <2>1, <2>2
  <1> QED BY <1>1, <1>3, <1>5 DEF CardInv, Types, Calls, RingFirst, Untouched,
                                ProtectedOrBypassed, RunsWhole, FeedbackFirst

\* One command: done, or not, and the prepare goes on or ends.
SendIs(c, t) ==
  /\ UNCHANGED <<pcm, feState, configured, bePrepared, ready, held, profile>>
  /\ dsp' = dsp \/ (dsp' = Applied(c) /\ Takes(c))
  /\ todo' = <<>> \/ (todo' = t /\ dsp' = Applied(c) /\ Takes(c))

LEMMA SendDoes ==
  ASSUME Send
  PROVE  SendIs(Head(todo), Tail(todo)) /\ todo # <<>>
BY DEF Send, SendIs, Outcome, Done, Fail, Idle

\* What the graph keeps through a command, wherever in a prepare.
LEMMA SendTypes ==
  ASSUME CardInv, Send, Head(todo) \in Words, todo' # <<>> => pcm \in {"setup", "prepared"}
  PROVE  Types' /\ Calls'
  <1>1. dsp' \in Graph
    BY AppliedIs, SendDoes DEF SendIs, CardInv, Types, Graph
  <1> QED BY <1>1, SendDoes DEF SendIs, CardInv, Types, Calls, Graph

LEMMA SetupKept ==
  ASSUME CardInv, Send, NEW k \in 1 .. 8, todo = Rest(Setup, k),
         k # 1 => dsp.ring /\ Untouched
  PROVE  CardInv'
  <1> DEFINE c == Setup[k]
  <1>1. /\ todo # <<>> /\ Head(todo) = c /\ Tail(todo) = Rest(Setup, k + 1)
    BY NextOfSetup
  <1>2. k # 8
    BY <1>1, SetupSeq DEF Send
  <1>3. k \in 1 .. 7 /\ k + 1 \in 2 .. 8 /\ (k = 1 => c = "ring")
    BY <1>2, SetupSeq
  <1>4. c \in ToSet(PullSetup) /\ c \in Words /\ c \notin Switches \cup {"start"}
    BY <1>3, SetupSeq, WordSets DEF Words, Switches
  <1>5. pcm \notin {"closed", "open", "running"}
    BY <1>1 DEF CardInv, Calls
  <1>6. Types' /\ Calls'
    BY <1>1, <1>4, <1>5, SendTypes DEF CardInv, Types
  <1>7. SendIs(c, Rest(Setup, k + 1))
    BY <1>1, SendDoes
  <1>8. dsp \in Graph
    BY DEF CardInv, Types, Graph
  <1> HIDE DEF c
  <1>9. /\ Applied(c).sp = dsp.sp /\ Applied(c).spvi = dsp.spvi
        /\ Applied(c).started = dsp.started /\ dsp.applied \subseteq Applied(c).applied
        /\ Applied(c).ring <=> (dsp.ring \/ c = "ring")
    <2>1. Applied(c) \in Graph
      BY <1>4, <1>8, AppliedIs
    <2> QED BY <1>4, <1>8, <2>1, AppliedIs DEF Switches, Graph
  <1>10. Takes(c) => Untouched
    BY <1>3 DEF Takes, CardInv, RingFirst
  <1>11. RingFirst' /\ ProtectedOrBypassed'
    BY <1>7, <1>9 DEF SendIs, CardInv, RingFirst, Untouched, ProtectedOrBypassed, RunsWhole,
                      FeedbackFirst
  <1>12. Where'
    <2>1. CASE todo' = <<>>
      BY <2>1, RestingKept DEF AtRest
    <2>2. CASE todo' = Rest(Setup, k + 1) /\ dsp' = Applied(c) /\ Takes(c)
      <3>1. Untouched'
        BY <1>7, <1>9, <1>10, <2>2 DEF Untouched, SendIs
      <3>2. dsp'.ring
        BY <1>3, <1>9, <2>2
      <3> QED BY <1>3, <2>2, <3>1, <3>2 DEF Where, InSetup
    <2> QED BY <1>7, <2>1, <2>2 DEF SendIs
  <1> QED BY <1>6, <1>11, <1>12 DEF CardInv

\* The order of a script's commands, as it matters.
LEMMA SentIs ==
  ASSUME NEW s, NEW k \in Nat \ {0}
  PROVE  Sent(s, k + 1) = Sent(s, k) \cup {s[k]}
  <1>1. 1 .. (k + 1) - 1 = (1 .. k - 1) \cup {k}
    OBVIOUS
  <1> QED BY <1>1, Zenon DEF Sent

LEMMA UpOrder ==
  ASSUME NEW k \in 1 .. 18
  PROVE  /\ Up[k] \notin {"sp_off", "spvi_off"}
         /\ Up[k] = "sp_on" => "spvi_on" \in Sent(Up, k)
         /\ Up[k] = "sp_on" => ToSet(Calibration) \subseteq Sent(Up, k)
         /\ Up[k] = "start" <=> k = 18
         /\ k = 18 => /\ ToSet(Volume) \cup ToSet(Calibration) \subseteq Sent(Up, k)
                      /\ {"spvi_on", "sp_on"} \subseteq Sent(Up, k)
  <1>1. Up[k] \notin {"sp_off", "spvi_off"} /\ (Up[k] = "start" <=> k = 18)
    BY ScriptOnWords
  <1>2. Up[k] = "sp_on" => k = 12
    BY ScriptOnWords
  <1>3. Up[11] = "spvi_on"
    BY ScriptOnWords
  <1>4. k = 12 => "spvi_on" \in Sent(Up, k)
    BY <1>3 DEF Sent
  <1>5. ASSUME k \in {12, 18}
        PROVE  /\ ToSet(Calibration) \subseteq Sent(Up, k)
               /\ k = 18 => ToSet(Volume) \cup {"spvi_on", "sp_on"} \subseteq Sent(Up, k)
    <2>1. /\ Up[1] = "sp_mode" /\ Up[2] = "sp_tag" /\ Up[3] = "get_sp"
          /\ Up[4] = "get_spvi" /\ Up[5] = "r0t0" /\ Up[6] = "channel_mode"
      BY ScriptIs
    <2>2. /\ Up[7] = "processing_mode" /\ Up[8] = "spvi_tag" /\ Up[9] = "render_ep"
          /\ Up[10] = "vi_ep" /\ Up[11] = "spvi_on" /\ Up[12] = "sp_on"
      BY ScriptIs
    <2>3. Up[13] = "gain" /\ Up[14] = "filter" /\ Up[15] = "mute" /\ Up[16] = "mixer"
      BY ScriptIs
    <2>4. \A i \in 1 .. 17 : (i <= 10 \/ k = 18) => Up[i] \in Sent(Up, k)
      BY <1>5 DEF Sent
    <2>5. \A i \in 1 .. 10 : Up[i] \in Sent(Up, k)
      BY <2>4
    <2>6. k = 18 => \A i \in 11 .. 16 : Up[i] \in Sent(Up, k)
      BY <2>4
    <2> QED BY <2>1, <2>2, <2>3, <2>5, <2>6, WordSets
  <1> QED BY <1>1, <1>2, <1>4, <1>5

LEMMA DownOrder ==
  ASSUME NEW k \in 1 .. 8
  PROVE  /\ Down[k] \notin {"sp_on", "spvi_on"}
         /\ Down[k] = "spvi_off" => "sp_off" \in Sent(Down, k)
         /\ Down[k] = "start" <=> k = 8
         /\ k = 8 => /\ ToSet(Volume) \subseteq Sent(Down, k)
                     /\ {"sp_off", "spvi_off"} \subseteq Sent(Down, k)
  <1>1. Down[k] \notin {"sp_on", "spvi_on"} /\ (Down[k] = "start" <=> k = 8)
    BY ScriptOffWords
  <1>2. Down[k] = "spvi_off" => k = 2
    BY ScriptOffWords
  <1>3. Down[1] = "sp_off" /\ (k = 2 => "sp_off" \in Sent(Down, k))
    BY ScriptIs DEF Sent
  <1>4. ASSUME k = 8
        PROVE  /\ ToSet(Volume) \subseteq Sent(Down, k)
               /\ {"sp_off", "spvi_off"} \subseteq Sent(Down, k)
    <2>1. /\ Down[1] = "sp_off" /\ Down[2] = "spvi_off" /\ Down[3] = "gain"
          /\ Down[4] = "filter" /\ Down[5] = "mute" /\ Down[6] = "mixer"
      BY ScriptIs
    <2>2. \A i \in 1 .. 7 : Down[i] \in Sent(Down, k)
      BY <1>4 DEF Sent
    <2> QED BY <2>1, <2>2, WordSets
  <1> QED BY <1>1, <1>2, <1>3, <1>4

LEMMA ScriptOrder ==
  ASSUME NEW s \in {Up, Down}, NEW k \in 1 .. Len(s)
  PROVE  /\ k \in Nat \ {0}
         /\ s[k] \in {"sp_on", "spvi_on"} => s = Up
         /\ s[k] \in {"sp_off", "spvi_off"} => s = Down
         /\ s[k] = "sp_on" => "spvi_on" \in Sent(s, k)
         /\ s[k] = "sp_on" => ToSet(Calibration) \subseteq Sent(s, k)
         /\ s[k] = "spvi_off" => "sp_off" \in Sent(s, k)
         /\ s[k] # "start" => k + 1 \in 1 .. Len(s)
         /\ s[k] = "start" =>
              /\ ToSet(Volume) \subseteq Sent(s, k)
              /\ s = Up => ToSet(Calibration) \cup {"spvi_on", "sp_on"} \subseteq Sent(s, k)
              /\ s = Down => {"sp_off", "spvi_off"} \subseteq Sent(s, k)
  <1>1. CASE s = Up
    <2>1. k \in 1 .. 18 /\ Len(s) = 18
      BY <1>1, ScriptSeq
    <2> QED BY <1>1, <2>1, UpOrder, UpIsNotDown
  <1>2. CASE s = Down
    <2>1. k \in 1 .. 8 /\ Len(s) = 8
      BY <1>2, ScriptSeq
    <2> QED BY <1>2, <2>1, DownOrder, UpIsNotDown
  <1> QED BY <1>1, <1>2

\* What has been sent is never of the other script.
LEMMA SentOfOne ==
  ASSUME NEW s \in {Up, Down}, NEW k \in 1 .. Len(s), NEW c \in Sent(s, k)
  PROVE  /\ c \in {"sp_on", "spvi_on"} => s = Up
         /\ c \in {"sp_off", "spvi_off"} => s = Down
         /\ c # "start"
  <1>1. Len(s) \in Nat
    BY ScriptSeq
  <1>2. PICK i \in 1 .. k - 1 : c = s[i]
    BY DEF Sent
  <1>3. i \in 1 .. Len(s) /\ i + 1 <= Len(s)
    BY <1>1, <1>2
  <1>4. s[i] # "start"
    <2>1. CASE s = Up
      BY <1>3, <2>1, UpOrder, ScriptSeq
    <2>2. CASE s = Down
      BY <1>3, <2>2, DownOrder, ScriptSeq
    <2> QED BY <2>1, <2>2
  <1> QED BY <1>2, <1>3, <1>4, ScriptOrder

LEMMA HalfKept ==
  ASSUME dsp \in Graph, NEW s \in {Up, Down}, NEW k \in 1 .. Len(s), Half(s, k),
         s[k] # "start", UNCHANGED ready,
         (s[k] # "configured" /\ dsp' = Applied(s[k])) \/ (s[k] = "configured" /\ dsp' = dsp)
  PROVE  Half(s, k + 1)'
  <1> DEFINE c == s[k]
  <1>1. c \in Words /\ c # "ring"
    BY ScriptWords, WordSets
  <1>2. Sent(s, k + 1) = Sent(s, k) \cup {c}
    BY ScriptOrder, SentIs
  <1>3. /\ c \in {"sp_on", "spvi_on"} => s = Up
        /\ c \in {"sp_off", "spvi_off"} => s = Down
    BY ScriptOrder
  <1>4. \A b \in Sent(s, k) : /\ b \in {"sp_on", "spvi_on"} => s = Up
                              /\ b \in {"sp_off", "spvi_off"} => s = Down
    BY SentOfOne
  <1>5. /\ c # "configured" =>
             /\ Applied(c).ring <=> (dsp.ring \/ c = "ring")
             /\ Applied(c).sp <=> ((dsp.sp \/ c = "sp_on") /\ c # "sp_off")
             /\ Applied(c).spvi <=> ((dsp.spvi \/ c = "spvi_on") /\ c # "spvi_off")
             /\ Applied(c).started <=> (dsp.started \/ c = "start")
             /\ dsp.applied \subseteq Applied(c).applied
             /\ c \notin Switches \cup {"ring", "start"} => c \in Applied(c).applied
    BY <1>1, AppliedIs
  <1>6. s = Up => Fed'
    BY DEF Half, Fed
  <1> HIDE DEF c
  <1>7. c # "start" /\ ((c # "configured" /\ dsp' = Applied(c)) \/ (c = "configured" /\ dsp' = dsp))
    BY DEF c
  <1>8. dsp'.ring /\ ~dsp'.started
    BY <1>5, <1>7 DEF Half
  <1>9. \A b \in Sent(s, k) \cup {c} : b \notin Switches /\ b # "configured" => b \in dsp'.applied
    BY <1>1, <1>5, <1>7 DEF Half
  <1>10. /\ "spvi_on" \in Sent(s, k) \cup {c} => dsp'.spvi
         /\ "sp_on" \in Sent(s, k) \cup {c} => dsp'.sp
         /\ "sp_off" \in Sent(s, k) \cup {c} => ~dsp'.sp
         /\ "spvi_off" \in Sent(s, k) \cup {c} => ~dsp'.spvi
    BY <1>3, <1>4, <1>5, <1>7, UpIsNotDown DEF Half
  <1> QED BY <1>6, <1>8, <1>9, <1>10, <1>2 DEF Half

LEMMA WhereIs ==
  ASSUME Where, todo # <<>>
  PROVE  \/ todo = <<"back_ends">>
         \/ \E k \in 1 .. 8 : todo = Rest(Setup, k) /\ (k # 1 => dsp.ring /\ Untouched)
         \/ InScript
  <1>1. CASE todo = Setup
    <2>1. todo = Rest(Setup, 1)
      BY <1>1, SetupSeq, RestIs
    <2> QED BY <2>1
  <1>2. CASE InSetup
    <2>1. PICK k \in 2 .. 8 : todo = Rest(Setup, k) /\ dsp.ring /\ Untouched
      BY <1>2 DEF InSetup
    <2> QED BY <2>1
  <1> QED BY <1>1, <1>2 DEF Where, AtRest

LEMMA LastsAreScripts ==
  ASSUME Where, Doing("configured") \/ Doing("start")
  PROVE  InScript
  <1>1. todo # <<>> /\ Head(todo) \in {"configured", "start"}
    BY DEF Doing, Idle
  <1>2. \A k \in 1 .. 8 : Setup[k] \notin {"configured", "start"}
    BY SetupSeq, WordSets
  <1> QED BY <1>1, <1>2, WhereIs, HeadOfBackEnds, NextOfSetup

LEMMA ScriptKept ==
  ASSUME CardInv, Send \/ Configured, InScript
  PROVE  CardInv'
  <1>1. PICK s \in {Up, Down} : \E k \in 1 .. Len(s) : todo = Rest(s, k) /\ Half(s, k)
    BY DEF InScript
  <1>2. PICK k \in 1 .. Len(s) : todo = Rest(s, k) /\ Half(s, k)
    BY <1>1
  <1> DEFINE c == s[k]
  <1>3. todo # <<>> /\ Head(todo) = c /\ Tail(todo) = Rest(s, k + 1)
    BY <1>2, NextOfScript
  <1>4. c # "start" /\ c \in Words /\ c # "ring"
    BY <1>3, ScriptWords, WordSets DEF Send, Configured, Doing
  <1>5. k + 1 \in 1 .. Len(s)
    BY <1>4, ScriptOrder
  <1>6. dsp \in Graph /\ pcm \notin {"closed", "open", "running"}
    BY <1>3 DEF CardInv, Calls, Types, Graph
  <1>7. CASE Configured
    <2>1. /\ c = "configured" /\ todo' = Rest(s, k + 1) /\ configured'
          /\ UNCHANGED <<pcm, feState, bePrepared, ready, held, profile, dsp>>
      BY <1>3, <1>7 DEF Configured, Doing
    <2>2. Half(s, k + 1)'
      BY <1>2, <1>6, <2>1, HalfKept
    <2>3. Where'
      BY <1>5, <2>1, <2>2 DEF Where, InScript
    <2>4. RingFirst'
      BY <1>2, <2>1 DEF RingFirst, Half
    <2> QED BY <1>6, <2>1, <2>3, <2>4
             DEF CardInv, Types, Calls, ProtectedOrBypassed, RunsWhole, FeedbackFirst
  <1>8. CASE Send
    <2>1. SendIs(c, Rest(s, k + 1)) /\ c # "configured"
      BY <1>3, <1>8, SendDoes DEF Send
    <2>2. Types' /\ Calls'
      BY <1>3, <1>4, <1>6, <1>8, SendTypes DEF CardInv, Types
    <2>3. /\ Applied(c).ring <=> (dsp.ring \/ c = "ring")
          /\ Applied(c).sp <=> ((dsp.sp \/ c = "sp_on") /\ c # "sp_off")
          /\ Applied(c).spvi <=> ((dsp.spvi \/ c = "spvi_on") /\ c # "spvi_off")
          /\ Applied(c).started <=> (dsp.started \/ c = "start")
      BY <1>4, <1>6, AppliedIs
    <2>4. /\ c = "sp_on" => dsp.spvi
          /\ c = "spvi_off" => ~dsp.sp
      BY <1>2, ScriptOrder DEF Half
    <2>5. dsp.ring /\ ~dsp.started
      BY <1>2 DEF Half
    <2> HIDE DEF c
    <2>6. dsp'.ring /\ ~dsp'.started
      BY <1>4, <2>1, <2>3, <2>5 DEF SendIs
    <2>7. dsp'.sp => dsp'.spvi
      BY <2>1, <2>3, <2>4 DEF SendIs, CardInv, ProtectedOrBypassed, FeedbackFirst
    <2>8. Where'
      <3>1. CASE todo' = <<>>
        BY <3>1, RestingKept DEF AtRest
      <3>2. CASE todo' = Rest(s, k + 1) /\ dsp' = Applied(c)
        <4>1. Half(s, k + 1)'
          BY <1>2, <1>4, <1>6, <2>1, <3>2, HalfKept DEF c, SendIs
        <4> QED BY <1>5, <3>2, <4>1 DEF Where, InScript
      <3> QED BY <2>1, <3>1, <3>2 DEF SendIs
    <2> QED BY <2>2, <2>6, <2>7, <2>8
             DEF CardInv, RingFirst, ProtectedOrBypassed, RunsWhole, FeedbackFirst
  <1> QED BY <1>7, <1>8

LEMMA SendKept ==
  ASSUME CardInv, Send
  PROVE  CardInv'
  <1>1. todo # <<>> /\ Head(todo) # "back_ends" /\ Where
    BY DEF Send, Idle, CardInv
  <1>2. ASSUME NEW k \in 1 .. 8, todo = Rest(Setup, k), k # 1 => dsp.ring /\ Untouched
        PROVE  CardInv'
    BY <1>2, SetupKept
  <1> QED BY <1>1, <1>2, WhereIs, HeadOfBackEnds, ScriptKept

\* The graph starts with everything its script sent.
LEMMA StartKept ==
  ASSUME CardInv, Start
  PROVE  CardInv'
  <1>1. InScript /\ todo # <<>> /\ Head(todo) = "start"
    BY LastsAreScripts DEF Start, CardInv, Doing, Idle
  <1>2. PICK s \in {Up, Down} : \E k \in 1 .. Len(s) : todo = Rest(s, k) /\ Half(s, k)
    BY <1>1 DEF InScript
  <1>3. PICK k \in 1 .. Len(s) : todo = Rest(s, k) /\ Half(s, k)
    BY <1>2
  <1>4. s[k] = "start"
    BY <1>1, <1>3, NextOfScript
  <1>5. /\ ToSet(Volume) \subseteq dsp.applied
        /\ s = Up => ToSet(Calibration) \subseteq dsp.applied /\ dsp.sp /\ dsp.spvi
        /\ s = Down => ~dsp.sp /\ ~dsp.spvi
    BY <1>3, <1>4, ScriptOrder, WordSets DEF Half, Switches
  <1>6. /\ todo' = <<>> /\ UNCHANGED <<configured, bePrepared, ready, held, profile>>
        /\ (UNCHANGED <<pcm, feState>> \/ (feState' = "RUNNING" /\ pcm' = "prepared"))
        /\ dsp' = dsp \/ dsp' = Applied("start")
    BY DEF Start, Fail, Outcome, Done
  <1>7. dsp \in Graph /\ dsp.ring /\ pcm \notin {"closed", "open", "running"}
    BY <1>1, <1>3 DEF CardInv, Types, Graph, Calls, Half
  <1>8. /\ Applied("start") = [dsp EXCEPT !.started = TRUE]
    BY DEF Applied
  <1>9. dsp' \in Graph /\ dsp'.ring /\ dsp'.applied = dsp.applied
        /\ dsp'.sp = dsp.sp /\ dsp'.spvi = dsp.spvi
    BY <1>6, <1>7, <1>8 DEF Graph
  <1>10. Types' /\ Calls' /\ RingFirst'
    BY <1>6, <1>7, <1>9 DEF CardInv, Types, Calls, RingFirst, Graph
  <1>11. ProtectedOrBypassed'
    BY <1>2, <1>5, <1>9 DEF CardInv, ProtectedOrBypassed, RunsWhole, FeedbackFirst
  <1>12. Where'
    BY <1>6, RestingKept DEF AtRest
  <1> QED BY <1>10, <1>11, <1>12 DEF CardInv

-----------------------------------------------------------------------------
\* The card's life.

LEMMA PlayKept ==
  ASSUME CardInv, Play
  PROVE  CardInv'
  <1>1. CASE Open \/ HwParams \/ HwFree \/ Prepare \/ Trigger \/ Stop \/ Close \/ CtlGet \/ CtlPut
    BY <1>1, CallsKept
  <1>2. CASE \E b \in BackEnd : BePrepare(b)
    BY <1>2, BackEndsKept
  <1>3. CASE Configured
    BY <1>3, LastsAreScripts, ScriptKept DEF CardInv, Configured
  <1> QED BY <1>1, <1>2, <1>3, FrontEndKept, ConfigureKept, SendKept, StartKept
           DEF Play, Next, User

LEMMA DescribeKept ==
  ASSUME CardInv, Describe
  PROVE  CardInv'
  <1>1. UNCHANGED <<pcm, feState, bePrepared, ready, todo, configured, held, dsp>>
        /\ profile' \in BOOLEAN
    BY DEF Describe, Tplg!Accepts
  <1> QED BY <1>1, RestingKept DEF CardInv, Types, Calls, RingFirst, Untouched,
                                    ProtectedOrBypassed, RunsWhole, FeedbackFirst

LEMMA CardInvInit == CardInit => CardInv
  <1> SUFFICES ASSUME CardInit PROVE CardInv
    OBVIOUS
  <1>1. /\ Fresh(FALSE) \in Graph /\ ~Fresh(FALSE).started
        /\ Fresh(FALSE).sp = FALSE /\ Fresh(FALSE).spvi = FALSE
    BY FreshIs
  <1>2. Types
    BY <1>1 DEF CardInit, Init, Types, Unready, Graph
  <1>3. Calls /\ RingFirst /\ ProtectedOrBypassed
    BY <1>1 DEF CardInit, Init, Calls, RingFirst, Untouched, ProtectedOrBypassed, RunsWhole,
                FeedbackFirst
  <1>4. Where
    BY DEF CardInit, Init, Where, AtRest
  <1> QED BY <1>2, <1>3, <1>4 DEF CardInv

LEMMA CardInvStep == CardInv /\ [CardNext]_cardVars => CardInv'
  <1> SUFFICES ASSUME CardInv, [CardNext]_cardVars PROVE CardInv'
    OBVIOUS
  <1>1. CASE UNCHANGED cardVars
    BY <1>1, RestingKept DEF cardVars, vars, CardInv, Types, Calls, RingFirst, Untouched,
                             ProtectedOrBypassed, RunsWhole, FeedbackFirst
  <1> QED BY <1>1, PlayKept, DescribeKept DEF CardNext

\* The inductive invariant of the protection: a prepare has sent a prefix
\* of one of the two sequences, the stages its graph has on are those of
\* that prefix, and the graph runs only after the whole of it, whatever is
\* refused, late or tried again (audioreach_configure_protection).
THEOREM CardInvCorrect == CardSpec => []CardInv
BY CardInvInit, CardInvStep, PTL DEF CardSpec

\* A graph that runs is protected as a whole or bypassed as a whole, after
\* any failures, retries and reopens (audioreach_configure_protection,
\* q6apm_dai_prepare), and its render module is never on without the
\* feedback module it listens to.
THEOREM ProtectedCorrect == CardSpec => []ProtectedOrBypassed
BY CardInvCorrect, PTL DEF CardInv

\* Only the sending of the last command of a calibration turns the render
\* protection on.
LEMMA EnabledStep ==
  ASSUME CardInv, [CardNext]_cardVars, pcm # "closed", ~dsp.sp, dsp'.sp
  PROVE  (\A f \in Feedback : ready[f]) /\ ToSet(Calibration) \subseteq dsp'.applied
  <1>1. dsp' # dsp /\ Next
    BY DEF CardNext, Play, Describe, cardVars, vars
  <1>2. dsp' # Fresh(FALSE)
    BY FreshIs
  <1>3. CASE Send
    <2> DEFINE c == Head(todo)
    <2>1. c # "back_ends" /\ todo # <<>> /\ dsp' = Applied(c) /\ dsp \in Graph
      BY <1>1, <1>3, SendDoes DEF Send, SendIs, CardInv, Types, Graph
    <2>2. \A k \in 1 .. 8 : Setup[k] \in Words \ {"sp_on"}
      BY SetupSeq, WordSets DEF Words
    <2>3. ASSUME NEW k \in 1 .. 8, todo = Rest(Setup, k) PROVE FALSE
      <3>1. c \in Words /\ c # "sp_on"
        BY <2>2, <2>3, NextOfSetup
      <3>2. Applied(c).sp <=> ((dsp.sp \/ c = "sp_on") /\ c # "sp_off")
        BY <2>1, <3>1, AppliedIs
      <3> QED BY <2>1, <3>1, <3>2
    <2>4. PICK s \in {Up, Down} : \E k \in 1 .. Len(s) : todo = Rest(s, k) /\ Half(s, k)
      BY <2>1, <2>3, WhereIs, HeadOfBackEnds DEF CardInv, InScript
    <2>5. PICK k \in 1 .. Len(s) : todo = Rest(s, k) /\ Half(s, k)
      BY <2>4
    <2>6. c = s[k] /\ c \in Words
      BY <2>5, NextOfScript, ScriptWords
    <2>7. /\ Applied(c).sp <=> ((dsp.sp \/ c = "sp_on") /\ c # "sp_off")
          /\ dsp.applied \subseteq Applied(c).applied
      BY <2>1, <2>6, AppliedIs
    <2>8. c = "sp_on"
      BY <2>1, <2>7
    <2>9. s = Up /\ ToSet(Calibration) \subseteq Sent(s, k)
      BY <2>6, <2>8, ScriptOrder
    <2>10. ToSet(Calibration) \subseteq dsp.applied /\ Fed
      BY <2>5, <2>9, WordSets DEF Half, Switches
    <2> QED BY <2>1, <2>7, <2>10 DEF Fed
  <1>4. CASE Start
    <2>1. dsp' = dsp \/ dsp' = [dsp EXCEPT !.started = TRUE]
      BY <1>4 DEF Start, Applied
    <2> QED BY <2>1 DEF CardInv, Types
  <1>5. CASE Close
    <2>1. dsp' \in {dsp, Fresh(FALSE), [dsp EXCEPT !.started = FALSE]}
      BY <1>5 DEF Close
    <2> QED BY <1>2, <2>1 DEF CardInv, Types
  <1> QED BY <1>1, <1>2, <1>3, <1>4, <1>5
           DEF Next, User, Open, HwParams, HwFree, Prepare, Trigger, Stop, BePrepare,
               FePrepare, Configure, Configured, CtlGet, CtlPut

\* The render protection is switched on only in a calibrated graph and
\* with both feedbacks ready at that moment: the flags x1e80100.c sets are
\* still what the bypass was decided by when its command is sent.
THEOREM EnabledWholeCorrect == CardSpec => EnabledWhole
  <1>1. CardInv /\ [CardNext]_cardVars =>
          [pcm # "closed" /\ ~dsp.sp /\ dsp'.sp =>
             (\A f \in Feedback : ready[f]) /\ ToSet(Calibration) \subseteq dsp'.applied]_vars
    BY EnabledStep
  <1> QED BY <1>1, CardInvCorrect, PTL DEF CardSpec, EnabledWhole

\* Every variable keeps its type, and the prepare in progress is of steps
\* the driver knows.
LEMMA RestWords ==
  ASSUME NEW s \in Seq(Words), NEW k \in 1 .. Len(s)
  PROVE  ToSet(Rest(s, k)) \subseteq Words
  <1>1. Len(s) \in Nat /\ Len(s) \in k .. Len(s) /\ k \in Int
    BY LenProperties
  <1>2. \A i \in k .. Len(s) : s[i] \in Words
    BY <1>1, ElementOfSeq
  <1>3. Rest(s, k) \in Seq(Words)
    BY <1>1, <1>2, SubSeqProperties DEF Rest
  <1> QED BY <1>3, ElementOfSeq, LenProperties DEF ToSet

LEMMA TypesImplied == CardInv => TypeOK
  <1> SUFFICES ASSUME CardInv PROVE TypeOK
    OBVIOUS
  <1>1. ToSet(todo) \subseteq Steps
    <2>1. CASE todo = <<>>
      BY <2>1 DEF ToSet
    <2>2. CASE todo = <<"back_ends">>
      BY <2>2, WordSets DEF ToSet
    <2>3. ASSUME NEW k \in 1 .. 8, todo = Rest(Setup, k) PROVE ToSet(todo) \subseteq Steps
      BY <2>3, SetupSeq, RestWords, WordSets
    <2>4. CASE InScript
      <3>1. PICK s \in {Up, Down} : \E k \in 1 .. Len(s) : todo = Rest(s, k)
        BY <2>4 DEF InScript
      <3> QED BY <3>1, ScriptWords, RestWords, WordSets
    <2> QED BY <2>1, <2>2, <2>3, <2>4, WhereIs DEF CardInv
  <1>2. Words \subseteq Steps
    BY WordSets
  <1> QED BY <1>1, <1>2 DEF CardInv, Types, Calls, TypeOK, Idle

\* Types of the stream, of its calls and of the commands of a prepare that
\* are still to be sent.
THEOREM ProtectionTypeOK == CardSpec => []TypeOK
BY CardInvCorrect, TypesImplied, PTL

-----------------------------------------------------------------------------
\* The gain.  While nothing has overlapped or failed since the power-up,
\* no put is under way beside the event, the event holds the gain, and
\* when both rest the DSP has it.
Put == {"idle", "test", "send"}
Event == {"idle", "read", "send"}
VolType ==
  vol \in [gain : Gain, power : BOOLEAN, dsp : Gain \cup {None}, put : Put,
           event : Event, value : Gain \cup {None}, mixed : BOOLEAN]

GainInv ==
  /\ VolType
  /\ vol.event # "idle" => vol.power
  /\ vol.power /\ ~vol.mixed =>
       /\ vol.event # "idle" => vol.put = "idle"
       /\ vol.event = "send" => vol.value = vol.gain
       /\ vol.event = "idle" /\ vol.put = "idle" => vol.dsp = vol.gain

LEMMA PutsKeepGain ==
  ASSUME GainInv, (\E v \in Gain : Tplg!Put(v)) \/ Tplg!Test \/ Tplg!PutSends
  PROVE  GainInv'
  <1> USE DEF GainInv, VolType, Put, Event
  <1>1. CASE \E v \in Gain : Tplg!Put(v)
    BY <1>1 DEF Tplg!Put
  <1>2. CASE Tplg!Test
    BY <1>2 DEF Tplg!Test
  <1>3. CASE Tplg!PutSends
    BY <1>3 DEF Tplg!PutSends
  <1> QED BY <1>1, <1>2, <1>3

LEMMA EventsKeepGain ==
  ASSUME GainInv, Tplg!PowerUp \/ Tplg!EventReads \/ Tplg!EventSends \/ Tplg!PowerDown
  PROVE  GainInv'
  <1> USE DEF GainInv, VolType, Put, Event
  <1>1. CASE Tplg!PowerUp
    BY <1>1 DEF Tplg!PowerUp
  <1>2. CASE Tplg!EventReads
    BY <1>2 DEF Tplg!EventReads
  <1>3. CASE Tplg!EventSends
    BY <1>3 DEF Tplg!EventSends
  <1>4. CASE Tplg!PowerDown
    BY <1>4 DEF Tplg!PowerDown
  <1> QED BY <1>1, <1>2, <1>3, <1>4

LEMMA GainInvStep == GainInv /\ [CardNext]_cardVars => GainInv'
  <1> SUFFICES ASSUME GainInv, [CardNext]_cardVars PROVE GainInv'
    OBVIOUS
  <1>1. CASE UNCHANGED vol
    BY <1>1 DEF GainInv, VolType
  <1>2. CASE Tplg!Gains
    BY <1>2, PutsKeepGain, EventsKeepGain DEF Tplg!Gains
  <1> QED
    BY <1>1, <1>2 DEF CardNext, Describe, Play, Tplg!Next, cardVars, topology, Tplg!Load,
         Tplg!LoadRoutes, Tplg!Remove, Tplg!Removed, Tplg!LoadModule, Tplg!LoadMixer,
         Tplg!UnloadWidget, Tplg!Switch, Tplg!Still

LEMMA GainInvInit == CardInit => GainInv
  <1> SUFFICES ASSUME CardInit PROVE GainInv
    OBVIOUS
  <1>1. PICK g \in Gain : vol = Tplg!Quiet(g)
    BY DEF CardInit, Tplg!Init
  <1> QED BY <1>1 DEF GainInv, VolType, Put, Event, Tplg!Quiet

\* A powered gain widget has the gain last put, unless a put overlapped
\* the power-up or a command failed (audioreach_put_vol_ctrl_audio_mixer,
\* audioreach_pga_event).
THEOREM GainCorrect == CardSpec => []GainIsHeard
  <1>1. GainInv => GainIsHeard
    BY DEF GainInv, GainIsHeard, Tplg!GainIsHeard
  <1> QED BY <1>1, GainInvInit, GainInvStep, PTL DEF CardSpec

-----------------------------------------------------------------------------
\* The topology.  The description t agrees with the file f: every table is
\* a table, every module is entered under its id and its container is
\* there, every container under its sub graph, every sub graph under its
\* graph, and nothing is there that the file does not name.
Function(f) == f = [x \in DOMAIN f |-> f[x]]

Tables(t) ==
  /\ t = [infos |-> t.infos, subs |-> t.subs, conts |-> t.conts, mods |-> t.mods,
          ids |-> t.ids]
  /\ Function(t.infos) /\ Function(t.subs) /\ Function(t.conts) /\ Function(t.mods)
  /\ Function(t.ids)

Entry(f, w, m) ==
  /\ m = [cont |-> m.cont, id |-> m.id, ptr |-> m.ptr, held |-> m.held, stages |-> m.stages]
  /\ m.cont = f.cont[w] /\ m.id = f.id[w] /\ m.ptr \subseteq m.held

Modules(f, t) ==
  \A w \in DOMAIN t.mods :
    /\ w \in Module /\ Entry(f, w, t.mods[w]) /\ f.cont[w] \in DOMAIN t.conts
    /\ f.id[w] \in DOMAIN t.ids /\ t.ids[f.id[w]] = w

Ids(f, t) ==
  \A k \in DOMAIN t.ids : t.ids[k] \in DOMAIN t.mods /\ f.id[t.ids[k]] = k

Containers(f, t) ==
  \A c \in DOMAIN t.conts :
    /\ \E w \in Module : f.cont[w] = c /\ f.sub[w] = t.conts[c]
    /\ t.conts[c] \in DOMAIN t.subs

SubGraphs(f, t) ==
  \A s \in DOMAIN t.subs :
    /\ \E w \in Module : f.sub[w] = s
    /\ t.subs[s] = f.graph[s] /\ t.subs[s] \in DOMAIN t.infos

Infos(f, t) == \A g \in DOMAIN t.infos : \E w \in Module : f.graph[f.sub[w]] = g

Tree(f, t) ==
  Tables(t) /\ Modules(f, t) /\ Ids(f, t) /\ Containers(f, t) /\ SubGraphs(f, t) /\ Infos(f, t)

\* Nothing is empty but, perhaps, these containers, sub graphs and graphs.
Full(t, cs, ss, gs) ==
  /\ \A c \in DOMAIN t.conts \ cs : Tplg!ModulesIn(t, c) # {}
  /\ \A s \in DOMAIN t.subs \ ss : Tplg!ContainersIn(t, s) # {}
  /\ \A g \in DOMAIN t.infos \ gs : Tplg!SubsIn(t, g) # {}

\* What the file must be for the loaders not to follow a null pointer: no
\* allocation of a graph's or a mixer's own record fails, every widget has
\* an id, and every sub graph names its graph.
SoundFiles ==
  /\ Flaws \cap {"info", "mixer"} = {}
  /\ \A f \in Files : \A w \in Module : f.id[w] # 0 /\ f.graph[f.sub[w]] # None

LEMMA EnteredIs ==
  ASSUME NEW f, NEW x, NEW v
  PROVE  /\ Function(Tplg!Entered(f, x, v))
         /\ DOMAIN Tplg!Entered(f, x, v) = DOMAIN f \cup {x}
         /\ Tplg!Entered(f, x, v)[x] = v
         /\ \A y \in DOMAIN f \ {x} : Tplg!Entered(f, x, v)[y] = f[y]
BY DEF Function, Tplg!Entered

LEMMA WithoutIs ==
  ASSUME NEW f, NEW x
  PROVE  /\ Function(Tplg!Without(f, x)) /\ DOMAIN Tplg!Without(f, x) = DOMAIN f \ {x}
         /\ \A y \in DOMAIN f \ {x} : Tplg!Without(f, x)[y] = f[y]
BY DEF Function, Tplg!Without

\* The file's own facts.
LEMMA FileIs ==
  ASSUME NEW f \in Files, SoundFiles, NEW w \in Module
  PROVE  /\ f.sub[w] \in DOMAIN f.graph /\ f.id[w] # 0 /\ f.graph[f.sub[w]] # None
         /\ \A v \in Module : f.cont[v] = f.cont[w] => f.sub[v] = f.sub[w]
BY CardAssumption DEF Tplg!TopologyAssumption, Tplg!FileAssumption, SoundFiles

\* A new sub graph comes with its graph.
LEMMA SubGraphLoads ==
  ASSUME NEW t, file \in Files, SoundFiles, Tree(file, t), NEW w \in Module,
         NEW flaw \in Flaws \cup {"none"}
  PROVE  LET r == Tplg!SubGraph(t, w, flaw) IN
         /\ Tree(file, r.tree) /\ r.tree.mods = t.mods /\ r.tree.ids = t.ids
         /\ r.tree.conts = t.conts /\ r.ok \in BOOLEAN
         /\ r.ok => file.sub[w] \in DOMAIN r.tree.subs
  <1> DEFINE r == Tplg!SubGraph(t, w, flaw)
  <1>1. PICK s : s = file.sub[w]
    OBVIOUS
  <1>2. PICK g : g = file.graph[s]
    OBVIOUS
  <1>3. g # None /\ flaw # "info"
    BY <1>1, <1>2, FileIs DEF SoundFiles
  <1>4. t = [infos |-> t.infos, subs |-> t.subs, conts |-> t.conts, mods |-> t.mods,
             ids |-> t.ids]
    BY DEF Tree, Tables
  <1>5. CASE s \in DOMAIN t.subs
    <2>1. r = [tree |-> t, ok |-> TRUE]
      BY <1>1, <1>5 DEF Tplg!SubGraph, Tplg!Got
    <2> QED BY <1>1, <1>5, <2>1
  <1>6. CASE s \notin DOMAIN t.subs /\ flaw = "sub"
    <2>1. r = [tree |-> t, ok |-> FALSE]
      BY <1>1, <1>6 DEF Tplg!SubGraph, Tplg!AllocSub, Tplg!Failed
    <2> QED BY <2>1
  <1>7. CASE s \notin DOMAIN t.subs /\ flaw # "sub"
    <2>1. PICK e : e = Tplg!Entered(t.subs, s, None)
      OBVIOUS
    <2>2. PICK ti : ti = IF g \in DOMAIN t.infos THEN t.infos
                         ELSE Tplg!Entered(t.infos, g, Tplg!Apart)
      OBVIOUS
    <2>3. PICK ts : ts = [e EXCEPT ![s] = g]
      OBVIOUS
    <2>4. PICK a : a = [infos |-> t.infos, subs |-> e, conts |-> t.conts, mods |-> t.mods,
                        ids |-> t.ids]
      OBVIOUS
    <2>5. PICK v : v = [infos |-> ti, subs |-> e, conts |-> t.conts, mods |-> t.mods,
                        ids |-> t.ids]
      OBVIOUS
    <2>6. PICK u : u = [infos |-> ti, subs |-> ts, conts |-> t.conts, mods |-> t.mods,
                        ids |-> t.ids]
      OBVIOUS
    <2>7. r = [tree |-> u, ok |-> TRUE]
      <3>1. Tplg!AllocSub(t, s, flaw) = [tree |-> a, ok |-> TRUE]
        BY <1>4, <1>7, <2>1, <2>4 DEF Tplg!AllocSub, Tplg!Got
      <3>2. Tplg!AllocInfo(a, g, flaw) = [tree |-> v, ok |-> TRUE]
        BY <1>3, <2>2, <2>4, <2>5 DEF Tplg!AllocInfo, Tplg!Got
      <3>3. Tplg!AddSub(v, s, g) = u
        BY <2>3, <2>5, <2>6 DEF Tplg!AddSub
      <3>4. PICK x : x = Tplg!AllocSub(t, s, flaw)
        OBVIOUS
      <3>5. PICK y : y = Tplg!AllocInfo(x.tree, g, flaw)
        OBVIOUS
      <3>6. r = IF s \in DOMAIN t.subs THEN Tplg!Got(t)
                ELSE IF ~x.ok \/ g = None THEN x
                ELSE IF ~y.ok THEN y ELSE Tplg!Got(Tplg!AddSub(y.tree, s, g))
        BY <1>1, <1>2, <3>4, <3>5, Zenon DEF Tplg!SubGraph
      <3>7. x.ok = TRUE /\ x.tree = a
        BY <3>1, <3>4
      <3>8. y.ok = TRUE /\ y.tree = v
        BY <3>2, <3>5, <3>7
      <3> QED BY <1>3, <1>7, <3>3, <3>6, <3>7, <3>8 DEF Tplg!Got
    <2>8. /\ Function(ts) /\ DOMAIN ts = DOMAIN t.subs \cup {s} /\ ts[s] = g
          /\ \A y \in DOMAIN t.subs : ts[y] = t.subs[y]
      <3>1. /\ DOMAIN e = DOMAIN t.subs \cup {s} /\ \A y \in DOMAIN t.subs \ {s} : e[y] = t.subs[y]
        BY <2>1 DEF Tplg!Entered
      <3> QED BY <1>7, <2>3, <3>1 DEF Function
    <2>9. Function(ti) /\ DOMAIN ti = DOMAIN t.infos \cup {g}
      <3>1. CASE g \in DOMAIN t.infos
        BY <2>2, <3>1 DEF Tree, Tables
      <3>2. CASE g \notin DOMAIN t.infos
        BY <2>2, <3>2, EnteredIs
      <3> QED BY <3>1, <3>2
    <2>10. Tables(u)
      BY <2>6, <2>8, <2>9 DEF Tree, Tables
    <2>11. Modules(file, u) /\ Ids(file, u)
      BY <2>6 DEF Tree, Modules, Ids
    <2>12. Containers(file, u)
      BY <2>6, <2>8 DEF Tree, Containers
    <2>13. SubGraphs(file, u)
      BY <1>1, <1>2, <2>6, <2>8, <2>9 DEF Tree, SubGraphs
    <2>14. Infos(file, u)
      BY <1>1, <1>2, <2>6, <2>9 DEF Tree, Infos
    <2> QED BY <1>1, <2>6, <2>7, <2>8, <2>10, <2>11, <2>12, <2>13, <2>14 DEF Tree
  <1> QED BY <1>5, <1>6, <1>7

LEMMA ContainerLoads ==
  ASSUME NEW t, file \in Files, SoundFiles, Tree(file, t), NEW w \in Module, NEW flaw,
         file.sub[w] \in DOMAIN t.subs,
         NEW r, r = Tplg!Container(t, w, flaw)
  PROVE  /\ Tree(file, r.tree) /\ r.tree.mods = t.mods /\ r.tree.ids = t.ids
         /\ r.ok \in BOOLEAN
         /\ r.ok => file.cont[w] \in DOMAIN r.tree.conts
  <1>1. PICK c : c = file.cont[w]
    OBVIOUS
  <1>2. PICK s : s = file.sub[w]
    OBVIOUS
  <1>3. t = [infos |-> t.infos, subs |-> t.subs, conts |-> t.conts, mods |-> t.mods,
             ids |-> t.ids]
    BY DEF Tree, Tables
  <1>4. CASE c \in DOMAIN t.conts
    <2>1. r = [tree |-> t, ok |-> TRUE]
      BY <1>1, <1>4 DEF Tplg!Container, Tplg!Got
    <2> QED BY <1>1, <1>4, <2>1
  <1>5. CASE c \notin DOMAIN t.conts /\ flaw = "cont"
    <2>1. r = [tree |-> t, ok |-> FALSE]
      BY <1>1, <1>5 DEF Tplg!Container, Tplg!AllocContainer, Tplg!Failed
    <2> QED BY <2>1
  <1>6. CASE c \notin DOMAIN t.conts /\ flaw # "cont"
    <2>1. PICK tc : tc = Tplg!Entered(t.conts, c, s)
      OBVIOUS
    <2>2. PICK u : u = [infos |-> t.infos, subs |-> t.subs, conts |-> tc, mods |-> t.mods,
                        ids |-> t.ids]
      OBVIOUS
    <2>3. r = [tree |-> u, ok |-> TRUE]
      <3>1. [t EXCEPT !.conts = Tplg!Entered(t.conts, c, s)] = u
        BY <1>3, <2>1, <2>2
      <3> QED BY <1>1, <1>2, <1>6, <3>1 DEF Tplg!Container, Tplg!AllocContainer, Tplg!Got
    <2>4. /\ Function(tc) /\ DOMAIN tc = DOMAIN t.conts \cup {c} /\ tc[c] = s
          /\ \A y \in DOMAIN t.conts : tc[y] = t.conts[y]
      BY <1>6, <2>1 DEF Tplg!Entered, Function
    <2>5. Tables(u)
      BY <2>2, <2>4 DEF Tree, Tables
    <2>6. Modules(file, u) /\ Ids(file, u)
      BY <2>2, <2>4 DEF Tree, Modules, Ids
    <2>7. Containers(file, u)
      BY <1>1, <1>2, <2>2, <2>4 DEF Tree, Containers
    <2>8. SubGraphs(file, u) /\ Infos(file, u)
      BY <2>2 DEF Tree, SubGraphs, Infos
    <2> QED BY <1>1, <2>2, <2>3, <2>4, <2>5, <2>6, <2>7, <2>8 DEF Tree
  <1> QED BY <1>4, <1>5, <1>6

\* What other modules keep while one is entered or dropped.
Others(w, t, u) ==
  /\ DOMAIN u.mods \ {w} = DOMAIN t.mods \ {w}
  /\ \A v \in DOMAIN t.mods \ {w} : u.mods[v] = t.mods[v]

LEMMA ModuleLoads ==
  ASSUME NEW t, file \in Files, SoundFiles, Tree(file, t), NEW w \in Module, NEW flaw,
         file.cont[w] \in DOMAIN t.conts, w \notin DOMAIN t.mods,
         NEW r, r = Tplg!ModuleOf(t, w, flaw)
  PROVE  /\ Tree(file, r.tree) /\ Others(w, t, r.tree)
         /\ r.ok \in BOOLEAN
         /\ r.ok <=> w \in DOMAIN r.tree.mods
  <1>1. PICK id : id = file.id[w]
    OBVIOUS
  <1>2. PICK m : m = [cont |-> file.cont[w], id |-> id, ptr |-> {}, held |-> {},
                      stages |-> {}]
    OBVIOUS
  <1>3. t = [infos |-> t.infos, subs |-> t.subs, conts |-> t.conts, mods |-> t.mods,
             ids |-> t.ids]
    BY DEF Tree, Tables
  <1>4. id # 0
    BY <1>1, FileIs
  <1>5. CASE id \in DOMAIN t.ids \/ flaw = "mod"
    <2>1. r = [tree |-> t, ok |-> FALSE]
      BY <1>1, <1>5 DEF Tplg!ModuleOf, Tplg!AllocModule, Tplg!Failed
    <2> QED BY <2>1 DEF Others
  <1>6. CASE id \notin DOMAIN t.ids /\ flaw # "mod"
    <2>1. PICK tm : tm = Tplg!Entered(t.mods, w, m)
      OBVIOUS
    <2>2. PICK ti : ti = Tplg!Entered(t.ids, id, w)
      OBVIOUS
    <2>3. PICK u : u = [infos |-> t.infos, subs |-> t.subs, conts |-> t.conts, mods |-> tm,
                        ids |-> ti]
      OBVIOUS
    <2>4. r = [tree |-> u, ok |-> TRUE]
      <3>1. [t EXCEPT !.ids = Tplg!Entered(t.ids, id, w),
                      !.mods = Tplg!Entered(t.mods, w, m)] = u
        <4>1. PICK x : x = [t EXCEPT !.ids = ti]
          OBVIOUS
        <4>2. x = [infos |-> t.infos, subs |-> t.subs, conts |-> t.conts, mods |-> t.mods,
                   ids |-> ti]
          BY <1>3, <4>1
        <4>3. [x EXCEPT !.mods = tm] = u
          BY <2>3, <4>2
        <4> QED BY <2>1, <2>2, <4>1, <4>3, Zenon
      <3>2. Tplg!AllocModule(t, w, flaw) = [tree |-> u, ok |-> TRUE]
        BY <1>1, <1>2, <1>4, <1>6, <3>1 DEF Tplg!AllocModule, Tplg!Got
      <3> QED BY <1>1, <1>6, <3>2 DEF Tplg!ModuleOf
    <2>5. /\ Function(tm) /\ DOMAIN tm = DOMAIN t.mods \cup {w} /\ tm[w] = m
          /\ \A y \in DOMAIN t.mods : tm[y] = t.mods[y]
      BY <2>1 DEF Tplg!Entered, Function
    <2>6. /\ Function(ti) /\ DOMAIN ti = DOMAIN t.ids \cup {id} /\ ti[id] = w
          /\ \A y \in DOMAIN t.ids : ti[y] = t.ids[y]
      BY <1>6, <2>2 DEF Tplg!Entered, Function
    <2>7. Tables(u)
      BY <2>3, <2>5, <2>6 DEF Tree, Tables
    <2>8. Modules(file, u)
      <3>1. Entry(file, w, m)
        BY <1>1, <1>2 DEF Entry
      <3>2. ASSUME NEW v \in DOMAIN t.mods
            PROVE  v \in Module /\ Entry(file, v, u.mods[v]) /\ file.cont[v] \in DOMAIN u.conts
                   /\ file.id[v] \in DOMAIN u.ids /\ u.ids[file.id[v]] = v
        BY <2>3, <2>5, <2>6, <3>2 DEF Tree, Modules
      <3>3. /\ Entry(file, w, u.mods[w]) /\ file.cont[w] \in DOMAIN u.conts
            /\ file.id[w] \in DOMAIN u.ids /\ u.ids[file.id[w]] = w
        BY <1>1, <2>3, <2>5, <2>6, <3>1
      <3>4. DOMAIN u.mods = DOMAIN t.mods \cup {w}
        BY <2>3, <2>5
      <3> QED BY <3>2, <3>3, <3>4 DEF Modules
    <2>9. Ids(file, u)
      BY <1>1, <2>3, <2>5, <2>6 DEF Tree, Ids
    <2>10. Containers(file, u) /\ SubGraphs(file, u) /\ Infos(file, u)
      BY <2>3 DEF Tree, Containers, SubGraphs, Infos
    <2>11. Others(w, t, u) /\ w \in DOMAIN u.mods
      BY <2>3, <2>5 DEF Others
    <2> QED BY <2>4, <2>7, <2>8, <2>9, <2>10, <2>11 DEF Tree
  <1> QED BY <1>5, <1>6

LEMMA DataLoads ==
  ASSUME NEW t, Tree(file, t), NEW w \in DOMAIN t.mods, NEW flaw,
         NEW r, r = Tplg!Data(t, w, flaw)
  PROVE  /\ Tree(file, r.tree) /\ Others(w, t, r.tree) /\ w \in DOMAIN r.tree.mods
         /\ r.ok \in BOOLEAN
         /\ r.ok => r.tree.mods[w].stages = file.stages[w]
  <1> DEFINE B == Tplg!Blocks
  <1>1. t = [infos |-> t.infos, subs |-> t.subs, conts |-> t.conts, mods |-> t.mods,
             ids |-> t.ids]
    BY DEF Tree, Tables
  <1>2. Entry(file, w, t.mods[w]) /\ Function(t.mods)
    BY DEF Tree, Modules, Tables
  <1>3. CASE Tplg!Malformed(flaw)
    <2>1. r = [tree |-> t, ok |-> FALSE]
      BY <1>3 DEF Tplg!Data, Tplg!Failed
    <2> QED BY <2>1 DEF Others
  <1>4. CASE ~Tplg!Malformed(flaw)
    <2>1. PICK m : m = [cont |-> t.mods[w].cont, id |-> t.mods[w].id, ptr |-> B, held |-> B,
                        stages |-> file.stages[w]]
      OBVIOUS
    <2>2. PICK tm : tm = [t.mods EXCEPT ![w] = m]
      OBVIOUS
    <2>3. PICK u : u = [infos |-> t.infos, subs |-> t.subs, conts |-> t.conts, mods |-> tm,
                        ids |-> t.ids]
      OBVIOUS
    <2>4. r = [tree |-> u, ok |-> TRUE]
      <3>1. PICK n : n = [t.mods[w] EXCEPT !.held = B, !.ptr = B, !.stages = file.stages[w]]
        OBVIOUS
      <3>2. n = m
        <4>1. PICK x : x = t.mods[w]
          OBVIOUS
        <4>2. PICK x1 : x1 = [x EXCEPT !.held = B]
          OBVIOUS
        <4>3. PICK x2 : x2 = [x1 EXCEPT !.ptr = B]
          OBVIOUS
        <4>4. x1 = [cont |-> x.cont, id |-> x.id, ptr |-> x.ptr, held |-> B,
                    stages |-> x.stages]
          BY <1>2, <4>1, <4>2 DEF Entry
        <4>5. x2 = [cont |-> x.cont, id |-> x.id, ptr |-> B, held |-> B,
                    stages |-> x.stages]
          BY <4>3, <4>4
        <4>6. [x2 EXCEPT !.stages = file.stages[w]] = m
          BY <2>1, <4>1, <4>5
        <4> QED BY <3>1, <4>1, <4>2, <4>3, <4>6, Zenon
      <3>3. [t EXCEPT !.mods[w] = m] = u
        BY <1>1, <2>2, <2>3
      <3> QED BY <1>4, <3>1, <3>2, <3>3 DEF Tplg!Data, Tplg!Got
    <2>5. /\ Function(tm) /\ DOMAIN tm = DOMAIN t.mods /\ tm[w] = m
          /\ \A y \in DOMAIN t.mods \ {w} : tm[y] = t.mods[y]
      BY <1>2, <2>2 DEF Function
    <2>6. Tables(u)
      BY <2>3, <2>5 DEF Tree, Tables
    <2>7. Modules(file, u)
      <3>1. Entry(file, w, m)
        BY <1>2, <2>1 DEF Entry
      <3> QED BY <2>3, <2>5, <3>1 DEF Tree, Modules
    <2>8. Ids(file, u) /\ Containers(file, u) /\ SubGraphs(file, u) /\ Infos(file, u)
      BY <2>3, <2>5 DEF Tree, Ids, Containers, SubGraphs, Infos
    <2>9. Others(w, t, u) /\ w \in DOMAIN u.mods /\ u.mods[w].stages = file.stages[w]
      BY <2>1, <2>3, <2>5 DEF Others
    <2> QED BY <2>4, <2>6, <2>7, <2>8, <2>9 DEF Tree
  <1> QED BY <1>3, <1>4

\* A whole module widget: its sub graph, container, entry and data.
LEMMA WidgetLoads ==
  ASSUME NEW t, file \in Files, SoundFiles, Tree(file, t), NEW w \in Module,
         NEW flaw \in Flaws \cup {"none"}, w \notin DOMAIN t.mods
  PROVE  LET r == Tplg!Loaded(t, w, flaw) IN
         /\ Tree(file, r.tree) /\ Others(w, t, r.tree) /\ r.ok \in BOOLEAN
         /\ r.ok => w \in DOMAIN r.tree.mods /\ r.tree.mods[w].stages = file.stages[w]
  <1>1. PICK a : a = Tplg!SubGraph(t, w, flaw)
    OBVIOUS
  <1>2. PICK b : b = IF a.ok THEN Tplg!Container(a.tree, w, flaw) ELSE a
    OBVIOUS
  <1>3. PICK c : c = IF b.ok THEN Tplg!ModuleOf(b.tree, w, flaw) ELSE b
    OBVIOUS
  <1>4. PICK d : d = IF c.ok THEN Tplg!Data(c.tree, w, flaw) ELSE c
    OBVIOUS
  <1>5. Tplg!Loaded(t, w, flaw) = IF d.ok THEN Tplg!Specific(d.tree, w, flaw) ELSE d
    BY <1>1, <1>2, <1>3, <1>4, Zenon DEF Tplg!Loaded
  <1>6. /\ Tree(file, a.tree) /\ a.tree.mods = t.mods /\ a.ok \in BOOLEAN
        /\ a.ok => file.sub[w] \in DOMAIN a.tree.subs
    BY <1>1, SubGraphLoads
  <1>7. /\ Tree(file, b.tree) /\ b.tree.mods = t.mods /\ b.ok \in BOOLEAN
        /\ b.ok => file.cont[w] \in DOMAIN b.tree.conts
    <2>1. CASE a.ok
      <3>1. PICK x : x = a.tree
        OBVIOUS
      <3>2. b = Tplg!Container(x, w, flaw)
        BY <1>2, <2>1, <3>1
      <3>3. Tree(file, x) /\ file.sub[w] \in DOMAIN x.subs /\ x.mods = t.mods
        BY <1>6, <2>1, <3>1
      <3>4. /\ Tree(file, b.tree) /\ b.tree.mods = x.mods /\ b.ok \in BOOLEAN
            /\ b.ok => file.cont[w] \in DOMAIN b.tree.conts
        BY <3>2, <3>3, ContainerLoads
      <3> QED BY <3>3, <3>4
    <2> QED BY <1>2, <1>6, <2>1
  <1>8. /\ Tree(file, c.tree) /\ Others(w, t, c.tree) /\ c.ok \in BOOLEAN
        /\ c.ok => w \in DOMAIN c.tree.mods
    <2>1. CASE b.ok
      <3>1. PICK x : x = b.tree
        OBVIOUS
      <3>2. c = Tplg!ModuleOf(x, w, flaw)
        BY <1>3, <2>1, <3>1
      <3>3. /\ Tree(file, x) /\ file.cont[w] \in DOMAIN x.conts /\ x.mods = t.mods
            /\ w \notin DOMAIN x.mods
        BY <1>7, <2>1, <3>1
      <3>4. /\ Tree(file, c.tree) /\ Others(w, x, c.tree) /\ c.ok \in BOOLEAN
            /\ c.ok => w \in DOMAIN c.tree.mods
        BY <3>2, <3>3, ModuleLoads
      <3> QED BY <3>3, <3>4 DEF Others
    <2> QED BY <1>3, <1>7, <2>1 DEF Others
  <1>9. /\ Tree(file, d.tree) /\ Others(w, t, d.tree) /\ d.ok \in BOOLEAN
        /\ d.ok => w \in DOMAIN d.tree.mods /\ d.tree.mods[w].stages = file.stages[w]
    <2>1. CASE c.ok
      <3>1. PICK x : x = c.tree
        OBVIOUS
      <3>2. d = Tplg!Data(x, w, flaw)
        BY <1>4, <2>1, <3>1
      <3>3. Tree(file, x) /\ w \in DOMAIN x.mods /\ Others(w, t, x)
        BY <1>8, <2>1, <3>1
      <3>4. /\ Tree(file, d.tree) /\ Others(w, x, d.tree) /\ d.ok \in BOOLEAN
            /\ w \in DOMAIN d.tree.mods
            /\ d.ok => d.tree.mods[w].stages = file.stages[w]
        BY <3>2, <3>3, DataLoads
      <3> QED BY <3>3, <3>4 DEF Others
    <2> QED BY <1>4, <1>8, <2>1
  <1>10. /\ Tplg!Specific(d.tree, w, flaw).tree = d.tree
         /\ Tplg!Specific(d.tree, w, flaw).ok \in BOOLEAN
    BY DEF Tplg!Specific, Tplg!Got, Tplg!Failed
  <1>11. CASE d.ok
    <2>1. Tplg!Loaded(t, w, flaw) = Tplg!Specific(d.tree, w, flaw)
      BY <1>5, <1>11
    <2> QED BY <1>9, <1>10, <1>11, <2>1
  <1>12. CASE ~d.ok
    <2>1. Tplg!Loaded(t, w, flaw) = d
      BY <1>5, <1>12
    <2> QED BY <1>9, <1>12, <2>1
  <1> QED BY <1>11, <1>12

\* Dropping: what has become empty goes with what it was in.
Same(t, u) == u.mods = t.mods /\ u.ids = t.ids

LEMMA InfoDrops ==
  ASSUME NEW t, Tree(file, t), NEW g
  PROVE  LET u == Tplg!DropInfo(t, g) IN
         /\ Tree(file, u) /\ Same(t, u)
         /\ Full(t, {}, {}, {g}) => Full(u, {}, {}, {})
  <1>1. CASE Tplg!SubsIn(t, g) # {}
    BY <1>1 DEF Tplg!DropInfo, Same, Full
  <1>2. CASE Tplg!SubsIn(t, g) = {}
    <2>1. PICK ti : ti = Tplg!Without(t.infos, g)
      OBVIOUS
    <2>2. PICK u : u = [infos |-> ti, subs |-> t.subs, conts |-> t.conts, mods |-> t.mods,
                        ids |-> t.ids]
      OBVIOUS
    <2>3. Tplg!DropInfo(t, g) = u
      BY <1>2, <2>1, <2>2 DEF Tplg!DropInfo, Tree, Tables
    <2>4. Function(ti) /\ DOMAIN ti = DOMAIN t.infos \ {g}
      BY <2>1, WithoutIs
    <2>5. Tables(u) /\ Modules(file, u) /\ Ids(file, u) /\ Containers(file, u)
      BY <2>2, <2>4 DEF Tree, Tables, Modules, Ids, Containers
    <2>6. SubGraphs(file, u) /\ Infos(file, u)
      BY <1>2, <2>2, <2>4 DEF Tree, SubGraphs, Infos, Tplg!SubsIn
    <2>7. Full(t, {}, {}, {g}) => Full(u, {}, {}, {})
      BY <2>2, <2>4 DEF Full, Tplg!SubsIn, Tplg!ContainersIn, Tplg!ModulesIn
    <2> QED BY <2>2, <2>3, <2>5, <2>6, <2>7 DEF Tree, Same
  <1> QED BY <1>1, <1>2

LEMMA SubDrops ==
  ASSUME NEW t, Tree(file, t), NEW s \in DOMAIN t.subs
  PROVE  LET u == Tplg!DropSub(t, s) IN
         /\ Tree(file, u) /\ Same(t, u)
         /\ Full(t, {}, {s}, {}) => Full(u, {}, {}, {})
  <1>1. CASE Tplg!ContainersIn(t, s) # {}
    BY <1>1 DEF Tplg!DropSub, Same, Full
  <1>2. CASE Tplg!ContainersIn(t, s) = {}
    <2>1. PICK ts : ts = Tplg!Without(t.subs, s)
      OBVIOUS
    <2>2. PICK g : g = t.subs[s]
      OBVIOUS
    <2>3. PICK u : u = [infos |-> t.infos, subs |-> ts, conts |-> t.conts, mods |-> t.mods,
                        ids |-> t.ids]
      OBVIOUS
    <2>4. Tplg!DropSub(t, s) = Tplg!DropInfo(u, g)
      <3>1. [t EXCEPT !.subs = Tplg!Without(t.subs, s)] = u
        BY <2>1, <2>3 DEF Tree, Tables
      <3> QED BY <1>2, <2>2, <3>1 DEF Tplg!DropSub
    <2>5. /\ Function(ts) /\ DOMAIN ts = DOMAIN t.subs \ {s}
          /\ \A y \in DOMAIN ts : ts[y] = t.subs[y]
      BY <2>1 DEF Tplg!Without, Function
    <2>6. Tables(u) /\ Modules(file, u) /\ Ids(file, u) /\ Infos(file, u)
      BY <2>3, <2>5 DEF Tree, Tables, Modules, Ids, Infos
    <2>7. Containers(file, u)
      BY <1>2, <2>3, <2>5 DEF Tree, Containers, Tplg!ContainersIn
    <2>8. SubGraphs(file, u)
      BY <2>3, <2>5 DEF Tree, SubGraphs
    <2>9. ASSUME Full(t, {}, {s}, {}) PROVE Full(u, {}, {}, {g})
      <3>1. ASSUME NEW h \in DOMAIN t.infos \ {g} PROVE Tplg!SubsIn(u, h) # {}
        <4>1. PICK y \in DOMAIN t.subs : t.subs[y] = h
          BY <2>9, <3>1 DEF Full, Tplg!SubsIn
        <4> QED BY <2>2, <2>3, <2>5, <3>1, <4>1 DEF Tplg!SubsIn
      <3>2. \A y \in DOMAIN u.subs : Tplg!ContainersIn(u, y) # {}
        BY <2>3, <2>5, <2>9 DEF Full, Tplg!ContainersIn
      <3>3. \A c \in DOMAIN u.conts : Tplg!ModulesIn(u, c) # {}
        BY <2>3, <2>9 DEF Full, Tplg!ModulesIn
      <3> QED BY <2>3, <3>1, <3>2, <3>3 DEF Full
    <2>10. Tree(file, u) /\ Same(t, u)
      BY <2>3, <2>6, <2>7, <2>8 DEF Tree, Same
    <2>11. /\ Tree(file, Tplg!DropInfo(u, g)) /\ Same(u, Tplg!DropInfo(u, g))
           /\ Full(u, {}, {}, {g}) => Full(Tplg!DropInfo(u, g), {}, {}, {})
      BY <2>10, InfoDrops
    <2> QED BY <2>4, <2>9, <2>10, <2>11 DEF Same
  <1> QED BY <1>1, <1>2

LEMMA ContainerDrops ==
  ASSUME NEW t, Tree(file, t), NEW c \in DOMAIN t.conts
  PROVE  LET u == Tplg!DropContainer(t, c) IN
         /\ Tree(file, u) /\ Same(t, u)
         /\ Full(t, {c}, {}, {}) => Full(u, {}, {}, {})
  <1>1. CASE Tplg!ModulesIn(t, c) # {}
    BY <1>1 DEF Tplg!DropContainer, Same, Full
  <1>2. CASE Tplg!ModulesIn(t, c) = {}
    <2>1. PICK tc : tc = Tplg!Without(t.conts, c)
      OBVIOUS
    <2>2. PICK s : s = t.conts[c]
      OBVIOUS
    <2>3. PICK u : u = [infos |-> t.infos, subs |-> t.subs, conts |-> tc, mods |-> t.mods,
                        ids |-> t.ids]
      OBVIOUS
    <2>4. Tplg!DropContainer(t, c) = Tplg!DropSub(u, s)
      <3>1. [t EXCEPT !.conts = Tplg!Without(t.conts, c)] = u
        BY <2>1, <2>3 DEF Tree, Tables
      <3> QED BY <1>2, <2>2, <3>1 DEF Tplg!DropContainer
    <2>5. /\ Function(tc) /\ DOMAIN tc = DOMAIN t.conts \ {c}
          /\ \A y \in DOMAIN tc : tc[y] = t.conts[y]
      BY <2>1 DEF Tplg!Without, Function
    <2>6. Tables(u) /\ SubGraphs(file, u) /\ Ids(file, u) /\ Infos(file, u)
      BY <2>3, <2>5 DEF Tree, Tables, SubGraphs, Ids, Infos
    <2>7. Containers(file, u)
      BY <2>3, <2>5 DEF Tree, Containers
    <2>8. Modules(file, u)
      <3>1. ASSUME NEW w \in DOMAIN t.mods PROVE file.cont[w] \in DOMAIN tc
        <4>1. file.cont[w] \in DOMAIN t.conts /\ t.mods[w].cont = file.cont[w]
          BY <3>1 DEF Tree, Modules, Entry
        <4>2. t.mods[w].cont # c
          BY <1>2, <3>1 DEF Tplg!ModulesIn
        <4> QED BY <2>5, <4>1, <4>2
      <3> QED BY <2>3, <3>1 DEF Tree, Modules
    <2>9. ASSUME Full(t, {c}, {}, {}) PROVE Full(u, {}, {s}, {})
      <3>1. ASSUME NEW h \in DOMAIN t.subs \ {s} PROVE Tplg!ContainersIn(u, h) # {}
        <4>1. PICK y \in DOMAIN t.conts : t.conts[y] = h
          BY <2>9, <3>1 DEF Full, Tplg!ContainersIn
        <4> QED BY <2>2, <2>3, <2>5, <3>1, <4>1 DEF Tplg!ContainersIn
      <3>2. \A y \in DOMAIN u.conts : Tplg!ModulesIn(u, y) # {}
        BY <2>3, <2>5, <2>9 DEF Full, Tplg!ModulesIn
      <3>3. \A g \in DOMAIN u.infos : Tplg!SubsIn(u, g) # {}
        BY <2>3, <2>9 DEF Full, Tplg!SubsIn
      <3> QED BY <2>3, <3>1, <3>2, <3>3 DEF Full
    <2>10. Tree(file, u) /\ Same(t, u) /\ s \in DOMAIN u.subs
      BY <2>2, <2>3, <2>6, <2>7, <2>8 DEF Tree, Same, Containers
    <2>11. /\ Tree(file, Tplg!DropSub(u, s)) /\ Same(u, Tplg!DropSub(u, s))
           /\ Full(u, {}, {s}, {}) => Full(Tplg!DropSub(u, s), {}, {}, {})
      BY <2>10, SubDrops
    <2> QED BY <2>4, <2>9, <2>10, <2>11 DEF Same
  <1> QED BY <1>1, <1>2

LEMMA WidgetUnloads ==
  ASSUME NEW t, Tree(file, t), NEW w \in Module, file \in Files, SoundFiles
  PROVE  LET u == Tplg!Unloaded(t, w) IN
         /\ Tree(file, u) /\ Others(w, t, u) /\ w \notin DOMAIN u.mods
         /\ Full(t, {}, {}, {}) => Full(u, {}, {}, {})
         /\ ~Tplg!Crashes(t, w)
  <1>1. CASE w \notin DOMAIN t.mods
    BY <1>1 DEF Tplg!Unloaded, Tplg!Crashes, Others
  <1>2. CASE w \in DOMAIN t.mods
    <2>1. PICK c : c = t.mods[w].cont
      OBVIOUS
    <2>2. PICK id : id = t.mods[w].id
      OBVIOUS
    <2>3. PICK tm : tm = Tplg!Without(t.mods, w)
      OBVIOUS
    <2>4. PICK ti : ti = Tplg!Without(t.ids, id)
      OBVIOUS
    <2>5. PICK u : u = [infos |-> t.infos, subs |-> t.subs, conts |-> t.conts, mods |-> tm,
                        ids |-> ti]
      OBVIOUS
    <2>6. /\ c = file.cont[w] /\ id = file.id[w] /\ c \in DOMAIN t.conts
          /\ t.mods[w].ptr \subseteq t.mods[w].held
          /\ t.conts[c] \in DOMAIN t.subs /\ t.subs[t.conts[c]] = file.graph[t.conts[c]]
      BY <1>2, <2>1, <2>2 DEF Tree, Modules, Entry, Containers, SubGraphs
    <2>7. t.conts[c] = file.sub[w]
      <3>1. PICK v \in Module : file.cont[v] = c /\ file.sub[v] = t.conts[c]
        BY <2>6 DEF Tree, Containers
      <3> QED BY <2>6, <3>1, FileIs
    <2>8. t.subs[t.conts[c]] # None
      BY <2>6, <2>7, FileIs
    <2>9. ~Tplg!Crashes(t, w)
      BY <2>1, <2>6, <2>8 DEF Tplg!Crashes
    <2>10. Tplg!DropModule(t, w) = u
      <3>1. PICK x : x = [t EXCEPT !.mods = tm]
        OBVIOUS
      <3>2. x = [infos |-> t.infos, subs |-> t.subs, conts |-> t.conts, mods |-> tm,
                 ids |-> t.ids]
        BY <3>1 DEF Tree, Tables
      <3>3. PICK y : y = [x EXCEPT !.ids = Tplg!Without(x.ids, id)]
        OBVIOUS
      <3>4. y = u
        BY <2>4, <2>5, <3>2, <3>3
      <3> QED BY <2>2, <2>3, <3>1, <3>3, <3>4, Zenon DEF Tplg!DropModule
    <2>11. /\ Function(tm) /\ DOMAIN tm = DOMAIN t.mods \ {w}
           /\ \A y \in DOMAIN tm : tm[y] = t.mods[y]
      BY <2>3 DEF Tplg!Without, Function
    <2>12. /\ Function(ti) /\ DOMAIN ti = DOMAIN t.ids \ {id}
           /\ \A y \in DOMAIN ti : ti[y] = t.ids[y]
      BY <2>4 DEF Tplg!Without, Function
    <2>13. Tables(u) /\ Containers(file, u) /\ SubGraphs(file, u) /\ Infos(file, u)
      BY <2>5, <2>11, <2>12 DEF Tree, Tables, Containers, SubGraphs, Infos
    <2>14. \A v \in DOMAIN tm : file.id[v] # id
      BY <1>2, <2>6, <2>11 DEF Tree, Modules
    <2>15. Modules(file, u)
      BY <2>5, <2>11, <2>12, <2>14 DEF Tree, Modules
    <2>16. Ids(file, u)
      BY <2>5, <2>6, <2>11, <2>12 DEF Tree, Ids
    <2>17. Tree(file, u) /\ c \in DOMAIN u.conts
      BY <2>5, <2>6, <2>13, <2>15, <2>16 DEF Tree
    <2>18. ASSUME Full(t, {}, {}, {}) PROVE Full(u, {c}, {}, {})
      <3>1. ASSUME NEW h \in DOMAIN t.conts \ {c} PROVE Tplg!ModulesIn(u, h) # {}
        <4>1. PICK v \in DOMAIN t.mods : t.mods[v].cont = h
          BY <2>18, <3>1 DEF Full, Tplg!ModulesIn
        <4> QED BY <2>1, <2>5, <2>11, <3>1, <4>1 DEF Tplg!ModulesIn
      <3>2. \A s \in DOMAIN u.subs : Tplg!ContainersIn(u, s) # {}
        BY <2>5, <2>18 DEF Full, Tplg!ContainersIn
      <3>3. \A g \in DOMAIN u.infos : Tplg!SubsIn(u, g) # {}
        BY <2>5, <2>18 DEF Full, Tplg!SubsIn
      <3> QED BY <2>5, <3>1, <3>2, <3>3 DEF Full
    <2>19. PICK d : d = Tplg!DropContainer(u, c)
      OBVIOUS
    <2>20. /\ Tree(file, d) /\ Same(u, d)
           /\ Full(u, {c}, {}, {}) => Full(d, {}, {}, {})
      BY <2>17, <2>19, ContainerDrops
    <2>21. Tplg!Unloaded(t, w) = d
      BY <1>2, <2>1, <2>10, <2>19 DEF Tplg!Unloaded
    <2>22. Others(w, t, d) /\ w \notin DOMAIN d.mods
      BY <2>5, <2>11, <2>20 DEF Others, Same
    <2> QED BY <2>9, <2>18, <2>20, <2>21, <2>22
  <1> QED BY <1>1, <1>2

\* The card's description through its loads and unloads: the modules that
\* are entered are the widgets made, each with its stages; and after a
\* load that came to its end nothing is empty, until the next load.
TopInv ==
  /\ file \in Files /\ phase \in {"absent", "loading", "loaded", "unloading"}
  /\ good \in BOOLEAN /\ made \subseteq Module \cup Mixer
  /\ Tree(file, tree) /\ DOMAIN tree.mods = made \cap Module
  /\ \A w \in DOMAIN tree.mods : tree.mods[w].stages = file.stages[w]
  /\ Function(mixers) /\ DOMAIN mixers = made \cap Mixer
  /\ ~oops
  /\ phase = "loaded" => made = Module \cup Mixer
  /\ phase = "absent" => made = {}
  /\ phase = "loading" => ~good
  /\ good => Full(tree, {}, {}, {})

LEMMA ModuleLoadKept ==
  ASSUME TopInv, SoundFiles, NEW w \in Module, Tplg!LoadModule(w)
  PROVE  TopInv'
  <1>1. PICK flaw \in Flaws \cup {"none"} :
          LET r == Tplg!Loaded(tree, w, flaw) IN
          IF r.ok
          THEN tree' = r.tree /\ made' = made \cup {w} /\ UNCHANGED <<phase, oops>>
          ELSE /\ phase' = "unloading" /\ oops' = Tplg!Crashes(r.tree, w)
               /\ tree' = Tplg!Unloaded(r.tree, w) /\ UNCHANGED made
    BY DEF Tplg!LoadModule
  <1>2. PICK r : r = Tplg!Loaded(tree, w, flaw)
    OBVIOUS
  <1>3. /\ phase = "loading" /\ w \notin made /\ UNCHANGED <<mixers, good, file>>
    BY DEF Tplg!LoadModule, Tplg!Still
  <1>4. w \notin DOMAIN tree.mods /\ ~good /\ Tree(file, tree) /\ file \in Files
    BY <1>3 DEF TopInv
  <1>5. /\ Tree(file, r.tree) /\ Others(w, tree, r.tree) /\ r.ok \in BOOLEAN
        /\ r.ok => w \in DOMAIN r.tree.mods /\ r.tree.mods[w].stages = file.stages[w]
    BY <1>2, <1>4, WidgetLoads
  <1>6. w \notin Mixer
    BY CardAssumption DEF Tplg!TopologyAssumption
  <1>7. CASE r.ok
    <2>1. tree' = r.tree /\ made' = made \cup {w} /\ UNCHANGED <<phase, oops>>
      BY <1>1, <1>2, <1>7
    <2>2. PICK t : t = r.tree
      OBVIOUS
    <2>3. /\ DOMAIN t.mods = DOMAIN tree.mods \cup {w}
          /\ \A v \in DOMAIN t.mods : t.mods[v].stages = file.stages[v]
      BY <1>5, <1>7, <2>2 DEF Others, TopInv
    <2>4. Tree(file', tree') /\ DOMAIN tree'.mods = made' \cap Module
      BY <1>3, <1>5, <2>1, <2>2, <2>3 DEF TopInv
    <2>5. \A v \in DOMAIN tree'.mods : tree'.mods[v].stages = file'.stages[v]
      BY <1>3, <2>1, <2>2, <2>3
    <2> QED BY <1>3, <1>4, <1>6, <2>1, <2>4, <2>5 DEF TopInv
  <1>8. CASE ~r.ok
    <2>1. PICK t : t = r.tree
      OBVIOUS
    <2>2. PICK u : u = Tplg!Unloaded(t, w)
      OBVIOUS
    <2>3. phase' = "unloading" /\ oops' = Tplg!Crashes(t, w) /\ tree' = u /\ UNCHANGED made
      BY <1>1, <1>2, <1>8, <2>1, <2>2
    <2>4. Tree(file, t) /\ Others(w, tree, t)
      BY <1>5, <2>1
    <2>5. Tree(file, u) /\ Others(w, t, u) /\ w \notin DOMAIN u.mods /\ ~Tplg!Crashes(t, w)
      BY <1>4, <2>2, <2>4, WidgetUnloads
    <2>6. /\ DOMAIN u.mods = DOMAIN tree.mods
          /\ \A v \in DOMAIN u.mods : u.mods[v].stages = file.stages[v]
      BY <1>4, <2>4, <2>5 DEF Others, TopInv
    <2>7. Tree(file', tree') /\ DOMAIN tree'.mods = made' \cap Module /\ ~oops'
      BY <1>3, <2>3, <2>5, <2>6 DEF TopInv
    <2>8. \A v \in DOMAIN tree'.mods : tree'.mods[v].stages = file'.stages[v]
      BY <1>3, <2>3, <2>6
    <2> QED BY <1>3, <1>4, <2>3, <2>7, <2>8 DEF TopInv
  <1> QED BY <1>5, <1>7, <1>8

LEMMA MixerLoadKept ==
  ASSUME TopInv, SoundFiles, NEW m \in Mixer, Tplg!LoadMixer(m)
  PROVE  TopInv'
  <1>1. /\ phase = "loading" /\ m \notin made /\ ~good
        /\ UNCHANGED <<tree, good, file>>
    BY DEF Tplg!LoadMixer, Tplg!Still, TopInv
  <1>2. m \notin Module
    BY CardAssumption DEF Tplg!TopologyAssumption
  <1>3. PICK x : x = [sink |-> 0, src |-> [s \in file.mix[m].sources |-> 0]]
    OBVIOUS
  <1>4. \/ /\ made' = made \cup {m} /\ UNCHANGED <<phase, oops>>
           /\ mixers' = Tplg!Entered(mixers, m, x)
        \/ phase' = "unloading" /\ ~oops' /\ UNCHANGED <<made, mixers>>
    BY <1>3 DEF Tplg!LoadMixer, SoundFiles
  <1>5. CASE /\ made' = made \cup {m} /\ UNCHANGED <<phase, oops>>
             /\ mixers' = Tplg!Entered(mixers, m, x)
    <2>1. Function(mixers') /\ DOMAIN mixers' = DOMAIN mixers \cup {m}
      BY <1>5, EnteredIs
    <2> QED BY <1>1, <1>2, <1>5, <2>1 DEF TopInv
  <1>6. CASE phase' = "unloading" /\ ~oops' /\ UNCHANGED <<made, mixers>>
    BY <1>1, <1>6 DEF TopInv
  <1> QED BY <1>4, <1>5, <1>6

\* The routes are bound when every widget is there, so that nothing the
\* description holds is empty.
LEMMA RoutesKept ==
  ASSUME TopInv, SoundFiles, Tplg!LoadRoutes
  PROVE  TopInv'
  <1>1. /\ made = Module \cup Mixer /\ phase' = "loaded" /\ good' = TRUE
        /\ UNCHANGED <<made, tree, file>>
        /\ oops' = (\E k \in DOMAIN tree.ids : tree.ids[k] \notin DOMAIN tree.mods)
    BY DEF Tplg!LoadRoutes, Tplg!Still
  <1>2. Function(mixers') /\ DOMAIN mixers' = Mixer
    BY DEF Tplg!LoadRoutes, Function
  <1>3. ~oops'
    BY <1>1 DEF TopInv, Tree, Ids
  <1>4. DOMAIN tree.mods = Module
    BY <1>1 DEF TopInv
  <1>5. ASSUME NEW c \in DOMAIN tree.conts PROVE Tplg!ModulesIn(tree, c) # {}
    <2>1. PICK w \in Module : file.cont[w] = c
      BY DEF TopInv, Tree, Containers
    <2>2. tree.mods[w].cont = c
      BY <1>4, <2>1 DEF TopInv, Tree, Modules, Entry
    <2> QED BY <1>4, <2>2 DEF Tplg!ModulesIn
  <1>6. ASSUME NEW w \in Module
        PROVE  /\ file.cont[w] \in DOMAIN tree.conts /\ tree.conts[file.cont[w]] = file.sub[w]
               /\ file.sub[w] \in DOMAIN tree.subs
               /\ tree.subs[file.sub[w]] = file.graph[file.sub[w]]
    <2>1. file.cont[w] \in DOMAIN tree.conts
      BY <1>4 DEF TopInv, Tree, Modules
    <2>2. PICK v \in Module : file.cont[v] = file.cont[w] /\ file.sub[v] = tree.conts[file.cont[w]]
      BY <2>1 DEF TopInv, Tree, Containers
    <2>3. file.sub[v] = file.sub[w]
      BY <2>2, FileIs DEF TopInv
    <2> QED BY <2>1, <2>2, <2>3 DEF TopInv, Tree, Containers, SubGraphs
  <1>7. ASSUME NEW s \in DOMAIN tree.subs PROVE Tplg!ContainersIn(tree, s) # {}
    <2>1. PICK w \in Module : file.sub[w] = s
      BY DEF TopInv, Tree, SubGraphs
    <2> QED BY <1>6, <2>1 DEF Tplg!ContainersIn
  <1>8. ASSUME NEW g \in DOMAIN tree.infos PROVE Tplg!SubsIn(tree, g) # {}
    <2>1. PICK w \in Module : file.graph[file.sub[w]] = g
      BY DEF TopInv, Tree, Infos
    <2> QED BY <1>6, <2>1 DEF Tplg!SubsIn
  <1>9. Full(tree, {}, {}, {})
    BY <1>5, <1>7, <1>8 DEF Full
  <1>10. Full(tree', {}, {}, {}) /\ Tree(file', tree')
    BY <1>1, <1>9 DEF TopInv
  <1> QED BY <1>1, <1>2, <1>3, <1>10 DEF TopInv

LEMMA UnloadKept ==
  ASSUME TopInv, SoundFiles, NEW w \in Module \cup Mixer, Tplg!UnloadWidget(w)
  PROVE  TopInv'
  <1>1. /\ phase = "unloading" /\ w \in made /\ made' = made \ {w}
        /\ UNCHANGED <<phase, good, file>>
    BY DEF Tplg!UnloadWidget, Tplg!Still
  <1>2. Module \cap Mixer = {}
    BY CardAssumption DEF Tplg!TopologyAssumption
  <1>3. CASE w \in Mixer
    <2>1. mixers' = Tplg!Without(mixers, w) /\ UNCHANGED <<tree, oops>>
      BY <1>3 DEF Tplg!UnloadWidget
    <2>2. Function(mixers') /\ DOMAIN mixers' = DOMAIN mixers \ {w}
      BY <2>1, WithoutIs
    <2> QED BY <1>1, <1>2, <1>3, <2>1, <2>2 DEF TopInv
  <1>4. CASE w \in Module
    <2>1. PICK u : u = Tplg!Unloaded(tree, w)
      OBVIOUS
    <2>2. tree' = u /\ oops' = Tplg!Crashes(tree, w) /\ UNCHANGED mixers
      BY <1>2, <1>4, <2>1 DEF Tplg!UnloadWidget
    <2>3. /\ Tree(file, u) /\ Others(w, tree, u) /\ w \notin DOMAIN u.mods
          /\ Full(tree, {}, {}, {}) => Full(u, {}, {}, {})
          /\ ~Tplg!Crashes(tree, w)
      BY <1>4, <2>1, WidgetUnloads DEF TopInv
    <2>4. /\ DOMAIN u.mods = DOMAIN tree.mods \ {w}
          /\ \A v \in DOMAIN u.mods : u.mods[v].stages = file.stages[v]
      BY <2>3 DEF Others, TopInv
    <2>5. /\ Tree(file', tree') /\ DOMAIN tree'.mods = made' \cap Module /\ ~oops'
          /\ good' => Full(tree', {}, {}, {})
      BY <1>1, <2>2, <2>3, <2>4 DEF TopInv
    <2>6. \A v \in DOMAIN tree'.mods : tree'.mods[v].stages = file'.stages[v]
      BY <1>1, <2>2, <2>4
    <2>7. DOMAIN mixers' = made' \cap Mixer
      BY <1>1, <1>2, <1>4, <2>2 DEF TopInv
    <2> QED BY <1>1, <2>2, <2>5, <2>6, <2>7 DEF TopInv
  <1> QED BY <1>3, <1>4

\* A switch writes in a graph's record and nowhere else.
LEMMA SwitchKept ==
  ASSUME TopInv, NEW m \in Mixer, NEW s \in Module, Tplg!Switch(m, s)
  PROVE  TopInv'
  <1>1. UNCHANGED <<file, phase, made, mixers, good, oops>>
    BY DEF Tplg!Switch
  <1>2. PICK g, x : tree' = [tree EXCEPT !.infos[g] = x]
    BY DEF Tplg!Switch
  <1>3. PICK ti : ti = [tree.infos EXCEPT ![g] = x]
    OBVIOUS
  <1>4. PICK u : u = [infos |-> ti, subs |-> tree.subs, conts |-> tree.conts,
                      mods |-> tree.mods, ids |-> tree.ids]
    OBVIOUS
  <1>5. tree' = u
    BY <1>2, <1>3, <1>4 DEF TopInv, Tree, Tables
  <1>6. Function(ti) /\ DOMAIN ti = DOMAIN tree.infos
    BY <1>3 DEF TopInv, Tree, Tables, Function
  <1>7. Tree(file, tree)
    BY DEF TopInv
  <1>8. Tables(u) /\ Modules(file, u) /\ Ids(file, u) /\ Containers(file, u)
    BY <1>4, <1>6, <1>7 DEF Tree, Tables, Modules, Ids, Containers
  <1>9. SubGraphs(file, u) /\ Infos(file, u)
    BY <1>4, <1>6, <1>7 DEF Tree, SubGraphs, Infos
  <1>10. Full(tree, {}, {}, {}) => Full(u, {}, {}, {})
    BY <1>4, <1>6 DEF Full, Tplg!ModulesIn, Tplg!ContainersIn, Tplg!SubsIn
  <1>11. Tree(file', tree') /\ (good' => Full(tree', {}, {}, {})) /\ tree'.mods = tree.mods
    BY <1>1, <1>4, <1>5, <1>8, <1>9, <1>10 DEF Tree, TopInv
  <1> QED BY <1>1, <1>11 DEF TopInv

LEMMA TopInvSame ==
  ASSUME TopInv, UNCHANGED <<file, phase, made, tree, mixers, good, oops>>
  PROVE  TopInv'
  <1>1. Tree(file', tree') /\ (good' => Full(tree', {}, {}, {}))
    BY DEF TopInv
  <1> QED BY <1>1 DEF TopInv

LEMMA PhaseKept ==
  ASSUME TopInv, Tplg!Load \/ Tplg!Remove \/ Tplg!Removed
  PROVE  TopInv'
  <1>1. UNCHANGED <<file, made, tree, mixers, oops>>
    BY DEF Tplg!Load, Tplg!Remove, Tplg!Removed, Tplg!Still
  <1>2. Tree(file', tree')
    BY <1>1 DEF TopInv
  <1>3. CASE Tplg!Load
    <2>1. good' = FALSE /\ phase' = "loading"
      BY <1>3 DEF Tplg!Load
    <2>2. good' => Full(tree', {}, {}, {})
      BY <2>1
    <2> QED BY <1>1, <1>2, <2>1, <2>2 DEF TopInv
  <1>4. CASE Tplg!Remove
    <2>1. good' => Full(tree', {}, {}, {})
      BY <1>1, <1>4 DEF TopInv, Tplg!Remove
    <2> QED BY <1>1, <1>2, <1>4, <2>1 DEF TopInv, Tplg!Remove
  <1>5. CASE Tplg!Removed
    <2>1. good' => Full(tree', {}, {}, {})
      BY <1>1, <1>5 DEF TopInv, Tplg!Removed
    <2> QED BY <1>1, <1>2, <1>5, <2>1 DEF TopInv, Tplg!Removed
  <1> QED BY <1>3, <1>4, <1>5

LEMMA GainsKept ==
  ASSUME TopInv, Tplg!Gains
  PROVE  TopInv'
  <1>1. UNCHANGED <<file, phase, made, tree, mixers, good, oops>>
    BY DEF Tplg!Gains, Tplg!Put, Tplg!Test, Tplg!PutSends, Tplg!PowerUp, Tplg!EventReads,
           Tplg!EventSends, Tplg!PowerDown, Tplg!Unmoved
  <1> QED BY <1>1, TopInvSame

LEMMA TopologyKept ==
  ASSUME TopInv, SoundFiles, Tplg!Next
  PROVE  TopInv'
BY PhaseKept, RoutesKept, GainsKept, ModuleLoadKept, MixerLoadKept, UnloadKept, SwitchKept
   DEF Tplg!Next

LEMMA NothingIs ==
  ASSUME NEW f, Function(f), DOMAIN f = {}
  PROVE  f = <<>>
BY DEF Function

LEMMA TopInvInit ==
  ASSUME CardInit
  PROVE  TopInv
  <1>1. /\ file \in Files /\ phase = "absent" /\ made = {} /\ tree = Tplg!Bare
        /\ mixers = <<>> /\ good = TRUE /\ oops = FALSE
    BY DEF CardInit, Tplg!Init, Tplg!Empty
  <1>2. Function(<<>>) /\ DOMAIN <<>> = {}
    BY DEF Function
  <1>3. PICK e : e = <<>>
    OBVIOUS
  <1>4. tree = [infos |-> e, subs |-> e, conts |-> e, mods |-> e, ids |-> e]
    BY <1>1, <1>3 DEF Tplg!Bare, Tplg!Empty
  <1>5. Function(e) /\ DOMAIN e = {}
    BY <1>2, <1>3
  <1>6. Tables(tree)
    BY <1>4, <1>5 DEF Tables
  <1>7. /\ Modules(file, tree) /\ Ids(file, tree) /\ Containers(file, tree)
        /\ SubGraphs(file, tree) /\ Infos(file, tree) /\ Full(tree, {}, {}, {})
    BY <1>4, <1>5 DEF Modules, Ids, Containers, SubGraphs, Infos, Full
  <1> QED BY <1>1, <1>2, <1>4, <1>5, <1>6, <1>7 DEF TopInv, Tree

LEMMA TopInvStep ==
  ASSUME TopInv, SoundFiles, [CardNext]_cardVars
  PROVE  TopInv'
  <1>1. CASE Describe
    BY <1>1, TopologyKept DEF Describe
  <1>2. CASE UNCHANGED topology
    BY <1>2, TopInvSame DEF topology
  <1> QED BY <1>1, <1>2 DEF CardNext, Play, cardVars

LEMMA LoadedFollows ==
  ASSUME TopInv, SoundFiles
  PROVE  Tplg!LoadedIsFile
  <1> SUFFICES ASSUME phase = "loaded"
               PROVE  /\ \A w \in Module :
                           /\ w \in Tplg!InGraph(file.graph[file.sub[w]])
                           /\ tree.mods[w].cont = file.cont[w]
                           /\ tree.conts[file.cont[w]] = file.sub[w]
                           /\ tree.mods[w].stages = file.stages[w]
                      /\ DOMAIN tree.conts = {file.cont[w] : w \in Module}
                      /\ DOMAIN tree.subs = {file.sub[w] : w \in Module}
    BY DEF Tplg!LoadedIsFile
  <1>1. DOMAIN tree.mods = Module
    BY DEF TopInv
  <1>2. ASSUME NEW w \in Module
        PROVE  /\ tree.mods[w].cont = file.cont[w]
               /\ file.cont[w] \in DOMAIN tree.conts /\ tree.conts[file.cont[w]] = file.sub[w]
               /\ file.sub[w] \in DOMAIN tree.subs
               /\ tree.subs[file.sub[w]] = file.graph[file.sub[w]]
               /\ tree.mods[w].stages = file.stages[w]
    <2>1. tree.mods[w].cont = file.cont[w] /\ file.cont[w] \in DOMAIN tree.conts
      BY <1>1 DEF TopInv, Tree, Modules, Entry
    <2>2. PICK v \in Module : file.cont[v] = file.cont[w] /\ file.sub[v] = tree.conts[file.cont[w]]
      BY <2>1 DEF TopInv, Tree, Containers
    <2>3. file.sub[v] = file.sub[w]
      BY <2>2, FileIs DEF TopInv
    <2> QED BY <1>1, <2>1, <2>2, <2>3 DEF TopInv, Tree, Containers, SubGraphs
  <1>3. \A w \in Module : w \in Tplg!InGraph(file.graph[file.sub[w]])
    BY <1>1, <1>2 DEF Tplg!InGraph
  <1>4. DOMAIN tree.conts = {file.cont[w] : w \in Module}
    BY <1>2 DEF TopInv, Tree, Containers
  <1>5. DOMAIN tree.subs = {file.sub[w] : w \in Module}
    BY <1>2 DEF TopInv, Tree, SubGraphs
  <1> QED BY <1>2, <1>3, <1>4, <1>5

LEMMA UnloadLeaves ==
  ASSUME TopInv
  PROVE  Tplg!UnloadIsClean
  <1> SUFFICES ASSUME phase = "absent"
               PROVE  /\ tree.ids = <<>> /\ tree.mods = <<>> /\ mixers = <<>>
                      /\ good => tree = Tplg!Bare
    BY DEF TopInv, Tplg!UnloadIsClean, Tplg!Empty
  <1>1. DOMAIN tree.mods = {} /\ DOMAIN mixers = {}
    BY DEF TopInv
  <1>2. DOMAIN tree.ids = {}
    BY <1>1 DEF TopInv, Tree, Ids
  <1>3. tree.ids = <<>> /\ tree.mods = <<>> /\ mixers = <<>>
    BY <1>1, <1>2, NothingIs DEF TopInv, Tree, Tables
  <1>4. ASSUME good PROVE tree = Tplg!Bare
    <2>1. DOMAIN tree.conts = {}
      BY <1>1, <1>4 DEF TopInv, Full, Tplg!ModulesIn
    <2>2. DOMAIN tree.subs = {}
      BY <1>4, <2>1 DEF TopInv, Full, Tplg!ContainersIn
    <2>3. DOMAIN tree.infos = {}
      BY <1>4, <2>2 DEF TopInv, Full, Tplg!SubsIn
    <2>4. tree.conts = <<>> /\ tree.subs = <<>> /\ tree.infos = <<>>
      BY <2>1, <2>2, <2>3, NothingIs DEF TopInv, Tree, Tables
    <2> QED BY <1>3, <2>4 DEF TopInv, Tree, Tables, Tplg!Bare, Tplg!Empty
  <1> QED BY <1>3, <1>4

\* Whatever loads failed before it and whatever they left, a load that
\* comes to its end describes the file; a teardown frees each object once,
\* follows no null pointer and leaves no module (topology.c).
THEOREM TreeCorrect == SoundFiles => (CardSpec => []TreeFollowsFile)
  <1> SUFFICES ASSUME SoundFiles PROVE CardSpec => []TreeFollowsFile
    OBVIOUS
  <1>1. CardInit => TopInv
    BY TopInvInit
  <1>2. TopInv /\ [CardNext]_cardVars => TopInv'
    BY TopInvStep
  <1>3. TopInv => TreeFollowsFile
    BY LoadedFollows, UnloadLeaves DEF TreeFollowsFile
  <1> QED BY <1>1, <1>2, <1>3, PTL DEF CardSpec

-----------------------------------------------------------------------------
\* The profile a stream is configured by.
InSpeakers(w) == file.graph[file.sub[w]] = SpeakerGraph

FromFile ==
  /\ file.expected
  /\ \A s \in Stage :
       \E w \in Module : {v \in Module : InSpeakers(v) /\ s \in file.stages[v]} = {w}

\* A step of the protection or after it is never taken without one.
Setting == ToSet(PullSetup) \cup {"protection", "back_ends"}
FileInv ==
  /\ profile => FromFile
  /\ configured => FromFile
  /\ todo # <<>> /\ Head(todo) \notin Setting => FromFile

LEMMA AcceptedIsFromFile == TopInv /\ SoundFiles /\ Tplg!Accepts(SpeakerGraph) => FromFile
  <1> SUFFICES ASSUME TopInv, SoundFiles, Tplg!Accepts(SpeakerGraph) PROVE FromFile
    OBVIOUS
  <1>1. phase = "loaded" /\ file.expected
    BY DEF Tplg!Accepts
  <1>2. Tplg!LoadedIsFile
    BY LoadedFollows
  <1>3. DOMAIN tree.mods = Module
    BY <1>1 DEF TopInv
  <1>4. ASSUME NEW w \in Module
        PROVE  w \in Tplg!InGraph(SpeakerGraph) <=> InSpeakers(w)
    <2>1. /\ tree.mods[w].cont = file.cont[w] /\ tree.conts[file.cont[w]] = file.sub[w]
          /\ DOMAIN tree.subs = {file.sub[v] : v \in Module}
      BY <1>1, <1>2 DEF Tplg!LoadedIsFile
    <2>2. file.sub[w] \in DOMAIN tree.subs
      BY <2>1
    <2>3. tree.subs[file.sub[w]] = file.graph[file.sub[w]]
      BY <2>2 DEF TopInv, Tree, SubGraphs
    <2> QED BY <1>3, <2>1, <2>2, <2>3 DEF Tplg!InGraph, InSpeakers
  <1>5. ASSUME NEW s \in Stage
        PROVE  \E w \in Module : {v \in Module : InSpeakers(v) /\ s \in file.stages[v]} = {w}
    <2>1. PICK S : S = {v \in Tplg!InGraph(SpeakerGraph) : s \in tree.mods[v].stages}
      OBVIOUS
    <2>2. S \subseteq Module
      BY <1>3, <2>1 DEF Tplg!InGraph
    <2>3. PICK w \in Module : S = {w}
      BY <2>1 DEF Tplg!Accepts
    <2>4. S = {v \in Module : InSpeakers(v) /\ s \in file.stages[v]}
      <3>1. \A v \in Module : tree.mods[v].stages = file.stages[v]
        BY <1>1, <1>2 DEF Tplg!LoadedIsFile
      <3>2. \A v \in Module : v \in S <=> (InSpeakers(v) /\ s \in file.stages[v])
        BY <1>4, <2>1, <3>1
      <3> QED BY <2>2, <3>2
    <2> QED BY <2>3, <2>4
  <1> QED BY <1>1, <1>5 DEF FromFile

LEMMA FromFileSame ==
  ASSUME UNCHANGED file
  PROVE  FromFile' <=> FromFile
BY DEF FromFile, InSpeakers

LEMMA SettingHeads ==
  /\ todo # <<>> /\ todo = <<"back_ends">> => Head(todo) \in Setting
  /\ \A k \in 1 .. 8 : Setup[k] \in Setting
  <1>1. \A k \in 1 .. 8 : Setup[k] \in Setting
    BY SetupSeq DEF Setting
  <1> QED BY <1>1, HeadOfBackEnds DEF Setting

LEMMA SendKeepsFile ==
  ASSUME CardInv, FileInv, Send, todo' # <<>>, Head(todo') \notin Setting
  PROVE  FromFile
  <1>1. todo # <<>> /\ Head(todo) # "protection" /\ Head(todo) # "back_ends"
    BY DEF Send, Idle
  <1>2. todo' = Tail(todo)
    BY SendDoes DEF SendIs
  <1>3. ASSUME NEW k \in 1 .. 8, todo = Rest(Setup, k) PROVE FALSE
    <2>1. Head(todo) = Setup[k] /\ Tail(todo) = Rest(Setup, k + 1)
      BY <1>3, NextOfSetup
    <2>2. k # 8
      BY <1>1, <2>1, SetupSeq
    <2>3. k + 1 \in 1 .. 8
      BY <2>2
    <2>4. Rest(Setup, k + 1) # <<>> /\ Head(Rest(Setup, k + 1)) = Setup[k + 1]
      BY <2>3, SetupSeq, RestIs
    <2> QED BY <1>2, <2>1, <2>3, <2>4, SettingHeads
  <1>4. InScript
    BY <1>1, <1>3, WhereIs, HeadOfBackEnds DEF CardInv
  <1>5. PICK s \in {Up, Down} : \E k \in 1 .. Len(s) : todo = Rest(s, k)
    BY <1>4 DEF InScript
  <1>6. Head(todo) \notin Setting
    BY <1>5, NextOfScript, ScriptWords DEF Setting
  <1> QED BY <1>1, <1>6 DEF FileInv

LEMMA PlayKeepsFile ==
  ASSUME CardInv, FileInv, Next, UNCHANGED file
  PROVE  FileInv'
  <1>1. FromFile' <=> FromFile
    BY FromFileSame
  <1>2. UNCHANGED profile
    BY DEF Next, User, Open, HwParams, HwFree, Prepare, Trigger, Stop, Close, BePrepare,
           FePrepare, Configure, Send, Configured, Start, CtlGet, CtlPut
  <1>3. CASE UNCHANGED <<todo, configured>> \/ (todo' = <<>> /\ (configured' => configured))
    BY <1>1, <1>2, <1>3 DEF FileInv
  <1>4. CASE Open \/ HwParams \/ HwFree \/ Trigger \/ Stop \/ Start \/ CtlGet
             \/ \E b \in BackEnd : BePrepare(b)
    BY <1>3, <1>4 DEF Open, HwParams, HwFree, Trigger, Stop, BePrepare, Start, CtlGet, Fail
  <1>5. CASE Close \/ CtlPut
    <2>1. todo' = todo /\ (configured' => configured)
      BY <1>5 DEF Close, CtlPut
    <2> QED BY <1>1, <1>2, <2>1 DEF FileInv
  <1>6. CASE Prepare
    <2>1. todo' = <<"back_ends">> /\ UNCHANGED configured
      BY <1>6 DEF Prepare
    <2> QED BY <1>1, <1>2, <2>1, HeadOfBackEnds DEF FileInv, Setting
  <1>7. CASE FePrepare
    <2>1. (todo' = <<>> \/ todo' = Setup) /\ UNCHANGED configured
      BY <1>7 DEF FePrepare, Setup
    <2>2. Head(Setup) \in Setting
      BY SetupSeq, RestIs, SettingHeads
    <2> QED BY <1>1, <1>2, <2>1, <2>2 DEF FileInv
  <1>8. CASE Configure
    <2>1. UNCHANGED configured /\ (todo' = <<>> \/ configured \/ profile)
      BY <1>8 DEF Configure, Fail, Broken
    <2> QED BY <1>1, <1>2, <2>1 DEF FileInv
  <1>9. CASE Send
    <2>1. UNCHANGED configured
      BY <1>9, SendDoes DEF SendIs
    <2> QED BY <1>1, <1>2, <1>9, <2>1, SendKeepsFile DEF FileInv
  <1>10. CASE Configured
    <2>1. todo # <<>> /\ Head(todo) = "configured"
      BY <1>10 DEF Configured, Doing, Idle
    <2>2. FromFile
      BY <2>1, WordSets DEF FileInv, Setting
    <2> QED BY <1>1, <2>2 DEF FileInv
  <1> QED BY <1>4, <1>5, <1>6, <1>7, <1>8, <1>9, <1>10 DEF Next, User

LEMMA FileInvStep ==
  ASSUME CardInv, TopInv, TopInv', SoundFiles, FileInv, [CardNext]_cardVars
  PROVE  FileInv'
  <1>1. UNCHANGED file
    BY DEF CardNext, Describe, Play, cardVars, topology, Tplg!Next, Tplg!Load, Tplg!LoadRoutes,
           Tplg!Remove, Tplg!Removed, Tplg!LoadModule, Tplg!LoadMixer, Tplg!UnloadWidget,
           Tplg!Switch, Tplg!Still, Tplg!Gains, Tplg!Put, Tplg!Test, Tplg!PutSends,
           Tplg!PowerUp, Tplg!EventReads, Tplg!EventSends, Tplg!PowerDown, Tplg!Unmoved
  <1>2. CASE Describe
    <2>1. profile' = Tplg!Accepts(SpeakerGraph)' /\ UNCHANGED <<todo, configured>>
      BY <1>2 DEF Describe
    <2>2. TopInv' /\ SoundFiles' /\ Tplg!Accepts(SpeakerGraph)' => FromFile'
      BY AcceptedIsFromFile, PTL
    <2> QED BY <1>1, <2>1, <2>2, FromFileSame DEF FileInv
  <1>3. CASE Next
    BY <1>1, <1>3, PlayKeepsFile
  <1>4. CASE UNCHANGED cardVars
    BY <1>1, <1>4, FromFileSame DEF cardVars, vars, FileInv
  <1> QED BY <1>2, <1>3, <1>4 DEF CardNext, Play

\* A protection is configured only by a profile one complete load of the
\* file brought, each stage once in the stream's graph: what failed loads
\* left behind is never taken for a stage (audioreach_find_stage).
THEOREM ConfiguredCorrect == SoundFiles => (CardSpec => []ConfiguredFromFile)
  <1> SUFFICES ASSUME SoundFiles PROVE CardSpec => []ConfiguredFromFile
    OBVIOUS
  <1>1. CardInit => CardInv /\ TopInv
    BY CardInvInit, TopInvInit
  <1>2. CardInit => FileInv
    BY DEF CardInit, Init, FileInv
  <1>3. CardInv /\ [CardNext]_cardVars => CardInv'
    BY CardInvStep
  <1>4. TopInv /\ [CardNext]_cardVars => TopInv'
    BY TopInvStep
  <1>5. CardInv /\ TopInv /\ TopInv' /\ FileInv /\ [CardNext]_cardVars => FileInv'
    BY FileInvStep
  <1>6. FileInv => ConfiguredFromFile
    BY DEF FileInv, FromFile, InSpeakers, ConfiguredFromFile
  <1> QED BY <1>1, <1>2, <1>3, <1>4, <1>5, <1>6, PTL DEF CardSpec

\* Both: the tree is what the file says over loads, failures and removals,
\* and a stream is protected only by what the file says.
THEOREM FollowsFileCorrect == SoundFiles => (CardSpec => []FollowsFile)
  <1>1. TreeFollowsFile /\ ConfiguredFromFile => FollowsFile
    BY DEF FollowsFile
  <1> QED BY <1>1, TreeCorrect, ConfiguredCorrect, PTL
=============================================================================
