-------------------------- MODULE SpeakerBusProofs --------------------------
\* Theorems about SpeakerBus, for any back ends, amplifiers, paths and
\* bounds: the clock that the macro lends to the bus master, the amplifiers
\* the bus knows of, the macro's registers, and the ports of the streams
\* in the two banks; and about SdwRuntimes, for any port map that the
\* amplifiers may have: the runtimes and ports a stream is made of.
EXTENDS SpeakerBus, SdwRuntimes, FiniteSetTheorems, SequenceTheorems, WellFoundedInduction, TLAPS

-----------------------------------------------------------------------------
\* Registers

Name == {"mclk", "swr", "bcl", "rx", "interp", "vbat", "softclk", "boost", "comp",
         "soft", "vi", "vol", "ear", "mute", "rate", "half"}
Regs == (Paths \cup {"top"}) \X Name
Map == [cache : SUBSET Regs, chip : SUBSET Regs, only : BOOLEAN, dirty : BOOLEAN,
        defaults : BOOLEAN, clk : BOOLEAN, stray : BOOLEAN]

\* What writes of registers leave alone, or keep true: of the map m before them
\* and n after.
Written(m, n) ==
  /\ n \in Map
  /\ n.only = m.only /\ n.clk = m.clk /\ n.defaults = m.defaults
  /\ m.dirty => n.dirty
  /\ m.only \/ m.clk => n.stray = m.stray
  /\ m.only => n.chip = m.chip
  /\ ~m.only /\ m.cache \subseteq m.chip => n.cache \subseteq n.chip
  /\ ~m.only /\ m.chip \subseteq m.cache \cup Volatile => n.chip \subseteq n.cache \cup Volatile

\* The names that say how far a path is in power, and whether one of them is on.
Stage == Name \ {"vol", "ear", "mute", "rate", "half"}
On(m, p, n) == <<p, n>> \in m.cache

LEMMA UpdateWrites ==
  ASSUME NEW m \in Map, NEW on \in SUBSET Regs, NEW off \in SUBSET Regs
  PROVE  /\ Written(m, Update(m, on, off))
         /\ Update(m, on, off).cache = (m.cache \cup (on \ Volatile)) \ off
  <1>1. CASE on \cup off = {}
    <2>1. on = {} /\ off = {}
      BY <1>1
    <2> QED BY <1>1, <2>1 DEF Update, Written, Map
  <1>2. CASE on \cup off # {}
    <2> DEFINE n == Update(m, on, off)
    <2>1. n = [m EXCEPT !.cache = (@ \cup (on \ Volatile)) \ off,
                        !.chip = IF m.only THEN @ ELSE (@ \cup on) \ off,
                        !.dirty = @ \/ m.only,
                        !.stray = @ \/ (~m.only /\ ~m.clk)]
      BY <1>2 DEF Update
    <2>2. /\ n.cache = (m.cache \cup (on \ Volatile)) \ off
          /\ n.chip = IF m.only THEN m.chip ELSE (m.chip \cup on) \ off
          /\ n.dirty = (m.dirty \/ m.only)
          /\ n.stray = (m.stray \/ (~m.only /\ ~m.clk))
          /\ n.only = m.only /\ n.clk = m.clk /\ n.defaults = m.defaults
      BY <2>1 DEF Map
    <2>3. n \in Map
      BY <2>1, <2>2 DEF Map
    <2> HIDE DEF n
    <2>4. Written(m, n)
      BY <2>2, <2>3 DEF Written, Map
    <2> QED BY <2>2, <2>4 DEF n
  <1> QED BY <1>1, <1>2

LEMMA WrittenOnce ==
  ASSUME NEW m \in Map PROVE Written(m, m)
  BY DEF Written

LEMMA WrittenTwice ==
  ASSUME NEW m \in Map, NEW n \in Map, NEW o, Written(m, n), Written(n, o)
  PROVE  o \in Map /\ Written(m, o)
  BY DEF Written, Map

LEMMA UpdateStages ==
  ASSUME NEW m \in Map, NEW on \in SUBSET Regs, NEW off \in SUBSET Regs,
         NEW p \in Paths, NEW n \in Stage
  PROVE  On(Update(m, on, off), p, n)
            <=> (On(m, p, n) \/ <<p, n>> \in on) /\ <<p, n>> \notin off
  <1>1. <<p, n>> \notin Volatile
    BY MacroAssumption DEF Volatile, Top, Stage
  <1>2. Update(m, on, off).cache = (m.cache \cup (on \ Volatile)) \ off
    BY UpdateWrites
  <1> QED BY <1>1, <1>2 DEF On

\* One register of several paths.
LEMMA OfRegs ==
  ASSUME NEW ps \in SUBSET Paths, NEW x \in Name
  PROVE  /\ Of(ps, x) \in SUBSET Regs
         /\ \A p \in Paths, n \in Name : <<p, n>> \in Of(ps, x) <=> p \in ps /\ n = x
  BY DEF Of, Regs

\* It is written, or returned to its default.
LEMMA WriteOf ==
  ASSUME NEW m \in Map, NEW ps \in SUBSET Paths, NEW x \in Name
  PROVE  /\ Update(m, Of(ps, x), {}) \in Map
         /\ Written(m, Update(m, Of(ps, x), {}))
         /\ \A p \in Paths, n \in Stage :
                On(Update(m, Of(ps, x), {}), p, n) <=> On(m, p, n) \/ (p \in ps /\ n = x)
  <1>1. Of(ps, x) \in SUBSET Regs /\ {} \in SUBSET Regs
    BY OfRegs
  <1>2. \A p \in Paths, n \in Stage : <<p, n>> \in Of(ps, x) <=> p \in ps /\ n = x
    BY OfRegs DEF Stage
  <1>3. Written(m, Update(m, Of(ps, x), {}))
    BY <1>1, UpdateWrites
  <1>4. Update(m, Of(ps, x), {}) \in Map
    BY <1>3 DEF Written
  <1>5. ASSUME NEW p \in Paths, NEW n \in Stage
        PROVE  On(Update(m, Of(ps, x), {}), p, n) <=> On(m, p, n) \/ (p \in ps /\ n = x)
    <2>1. On(Update(m, Of(ps, x), {}), p, n)
            <=> (On(m, p, n) \/ <<p, n>> \in Of(ps, x)) /\ <<p, n>> \notin {}
      BY <1>1, UpdateStages
    <2> QED BY <1>2, <2>1
  <1> QED BY <1>3, <1>4, <1>5

LEMMA UnwriteOf ==
  ASSUME NEW m \in Map, NEW ps \in SUBSET Paths, NEW x \in Name
  PROVE  /\ Update(m, {}, Of(ps, x)) \in Map
         /\ Written(m, Update(m, {}, Of(ps, x)))
         /\ \A p \in Paths, n \in Stage :
                On(Update(m, {}, Of(ps, x)), p, n) <=> On(m, p, n) /\ ~(p \in ps /\ n = x)
  <1>1. Of(ps, x) \in SUBSET Regs /\ {} \in SUBSET Regs
    BY OfRegs
  <1>2. \A p \in Paths, n \in Stage : <<p, n>> \in Of(ps, x) <=> p \in ps /\ n = x
    BY OfRegs DEF Stage
  <1>3. Written(m, Update(m, {}, Of(ps, x)))
    BY <1>1, UpdateWrites
  <1>4. Update(m, {}, Of(ps, x)) \in Map
    BY <1>3 DEF Written
  <1>5. ASSUME NEW p \in Paths, NEW n \in Stage
        PROVE  On(Update(m, {}, Of(ps, x)), p, n) <=> On(m, p, n) /\ ~(p \in ps /\ n = x)
    <2>1. On(Update(m, {}, Of(ps, x)), p, n)
            <=> (On(m, p, n) \/ <<p, n>> \in {}) /\ <<p, n>> \notin Of(ps, x)
      BY <1>1, UpdateStages
    <2> QED BY <1>2, <2>1
  <1> QED BY <1>3, <1>4, <1>5

\* The names of the registers.
LEMMA Names ==
  /\ "rx" \in Name /\ "interp" \in Name /\ "vbat" \in Name /\ "softclk" \in Name
  /\ "boost" \in Name /\ "comp" \in Name /\ "soft" \in Name /\ "vi" \in Name
  /\ "rx" \in Stage /\ "interp" \in Stage /\ "vbat" \in Stage /\ "softclk" \in Stage
  /\ "boost" \in Stage /\ "comp" \in Stage /\ "soft" \in Stage /\ "vi" \in Stage
  /\ "mute" \in Name \ Stage /\ "vol" \in Name \ Stage /\ "ear" \in Name \ Stage
  /\ "rate" \in Name \ Stage /\ "half" \in Name \ Stage
  BY DEF Stage, Name

\* What the VBAT stage writes, and the half dB and the gain of the ear
\* speaker: of a path's stages, the first alone.
LEMMA SharedRegs ==
  ASSUME NEW ps \in SUBSET Paths
  PROVE  /\ Attenuation(ps) \in SUBSET Regs /\ HalfDb(ps) \in SUBSET Regs
         /\ EarGain(ps) \in SUBSET ps
         /\ \A p \in Paths, n \in Stage :
              /\ <<p, n>> \in Attenuation(ps) <=> p \in ps /\ n = "vbat"
              /\ <<p, n>> \notin HalfDb(ps)
  <1>1. \A p \in Paths, n \in Name : <<p, n>> \notin Top("bcl")
    BY MacroAssumption DEF Top
  <1>2. Top("bcl") \in SUBSET Regs
    BY DEF Top, Regs, Name
  <1>3. \A p \in Paths, n \in Name :
            /\ <<p, n>> \in Of(ps, "vbat") <=> p \in ps /\ n = "vbat"
            /\ <<p, n>> \in Of(Paths, "half") <=> n = "half"
    BY DEF Of
  <1>4. Of(ps, "vbat") \in SUBSET Regs /\ Of(Paths, "half") \in SUBSET Regs
    BY DEF Of, Regs, Name
  <1>5. Attenuation(ps) \in SUBSET Regs /\ HalfDb(ps) \in SUBSET Regs
    BY <1>2, <1>4 DEF Attenuation, HalfDb
  <1>6. ASSUME NEW p \in Paths, NEW n \in Stage
        PROVE  /\ <<p, n>> \in Attenuation(ps) <=> p \in ps /\ n = "vbat"
               /\ <<p, n>> \notin HalfDb(ps)
    <2>1. n \in Name /\ n # "half"
      BY DEF Stage
    <2> QED BY <1>1, <1>3, <2>1 DEF Attenuation, HalfDb
  <1> QED BY <1>5, <1>6 DEF EarGain

\* The stages of a path in power, but for the sensing of its amplifier.
Full(p) == {"rx", "interp", "vbat", "softclk", "boost"}
           \cup (IF p \in ctl.comp THEN {"comp"} ELSE {})
           \cup (IF p \in ctl.soft THEN {"soft"} ELSE {})

\* Paths that power up get all their stages, if their uses of the soft
\* clipper's clock began at none; the others keep theirs.
LEMMA PathsUpWrites ==
  ASSUME NEW m \in Map, NEW ps \in SUBSET Paths, softUsers \in [Paths -> Int]
  PROVE  /\ PathsUp(ps, m) \in Map /\ Written(m, PathsUp(ps, m))
         /\ \A p \in Paths, n \in Stage :
              /\ p \notin ps => (On(PathsUp(ps, m), p, n) <=> On(m, p, n))
              /\ p \in ps /\ softUsers[p] = 0
                   => (On(PathsUp(ps, m), p, n) <=> On(m, p, n) \/ n \in Full(p))
  <1> DEFINE more == [p \in Paths |-> softUsers[p] + 1]
             s4 == {p \in ps : softUsers[p] = 0}
             s6 == ps \cap ctl.comp
             s8 == ps \cap ctl.soft
             s7 == {p \in s8 : more[p] = 0}
             s9 == EarGain(ps)
             a1 == Update(m, Of(ps, "rx"), {})
             a2 == Update(a1, Of(ps, "interp") \cup Of(ps, "mute"), {})
             a3 == Update(a2, Attenuation(ps), {})
             a4 == Update(a3, Of(s4, "softclk"), {})
             a5 == Update(a4, Of(ps, "boost"), {})
             a6 == Update(a5, Of(s6, "comp"), {})
             a7 == Update(a6, Of(s7, "softclk"), {})
             a8 == Update(a7, Of(s8, "soft"), {})
             a9 == Update(a8, HalfDb(ps) \cup Of(s9, "ear"), Of(s9, "vol"))
             a10 == Update(a9, {}, Of(ps, "mute"))
  <1>0. PathsUp(ps, m) = a10
    BY DEF PathsUp, BoostPost, InterpPost, SoftclipOn, SoftClkOn, BoostPre, VbatOn, InterpPre
  <1>1. /\ s4 \in SUBSET Paths /\ s6 \in SUBSET Paths /\ s7 \in SUBSET Paths
        /\ s8 \in SUBSET Paths /\ s9 \in SUBSET Paths
    BY SharedRegs
  <1>2. \A p \in Paths : p \in ps /\ softUsers[p] = 0 => p \in s4 /\ p \notin s7
    OBVIOUS
  <1>2a. \A p \in Paths : /\ p \in s4 \/ p \in s7 => p \in ps
                          /\ p \in s6 <=> p \in ps /\ p \in ctl.comp
                          /\ p \in s8 <=> p \in ps /\ p \in ctl.soft
    OBVIOUS
  <1> HIDE DEF more, s4, s6, s7, s8, s9
  <1>3. /\ a1 \in Map /\ Written(m, a1)
        /\ \A p \in Paths, n \in Stage : On(a1, p, n) <=> On(m, p, n) \/ (p \in ps /\ n = "rx")
    BY Names, WriteOf
  <1> HIDE DEF a1
  <1>4. /\ a2 \in Map /\ Written(a1, a2)
        /\ \A p \in Paths, n \in Stage :
              On(a2, p, n) <=> On(a1, p, n) \/ (p \in ps /\ n = "interp")
    <2> DEFINE on == Of(ps, "interp") \cup Of(ps, "mute")
    <2>1. on \in SUBSET Regs /\ {} \in SUBSET Regs
      BY Names, OfRegs
    <2>2. ASSUME NEW p \in Paths, NEW n \in Stage
          PROVE  <<p, n>> \in on <=> p \in ps /\ n = "interp"
      <3>1. n \in Name /\ n # "mute"
        BY DEF Stage
      <3> QED BY <3>1, Names, OfRegs
    <2>2a. a2 = Update(a1, on, {})
      OBVIOUS
    <2> HIDE DEF on, a2
    <2>3. \A p \in Paths, n \in Stage : On(a2, p, n)
              <=> (On(a1, p, n) \/ <<p, n>> \in on) /\ <<p, n>> \notin {}
      BY <1>3, <2>1, <2>2a, UpdateStages, ZenonT(30)
    <2>4. Written(a1, a2)
      BY <1>3, <2>1, <2>2a, UpdateWrites
    <2>5. a2 \in Map
      BY <2>4 DEF Written
    <2> QED BY <2>2, <2>3, <2>4, <2>5
  <1> HIDE DEF a2
  <1>5. /\ a3 \in Map /\ Written(a2, a3)
        /\ \A p \in Paths, n \in Stage :
              On(a3, p, n) <=> On(a2, p, n) \/ (p \in ps /\ n = "vbat")
    <2>1. Attenuation(ps) \in SUBSET Regs /\ {} \in SUBSET Regs
      BY SharedRegs
    <2>2. \A p \in Paths, n \in Stage : On(a3, p, n)
              <=> (On(a2, p, n) \/ <<p, n>> \in Attenuation(ps)) /\ <<p, n>> \notin {}
      BY <1>4, <2>1, UpdateStages, ZenonT(30)
    <2>3. ASSUME NEW p \in Paths, NEW n \in Stage
          PROVE  <<p, n>> \in Attenuation(ps) <=> p \in ps /\ n = "vbat"
      BY SharedRegs
    <2>4. Written(a2, a3)
      BY <1>4, <2>1, UpdateWrites
    <2> HIDE DEF a3
    <2>5. a3 \in Map
      BY <2>4 DEF Written
    <2> QED BY <2>2, <2>3, <2>4, <2>5
  <1> HIDE DEF a3
  <1>6. /\ a4 \in Map /\ Written(a3, a4)
        /\ \A p \in Paths, n \in Stage :
              On(a4, p, n) <=> On(a3, p, n) \/ (p \in s4 /\ n = "softclk")
    BY <1>1, <1>5, Names, WriteOf
  <1> HIDE DEF a4
  <1>7. /\ a5 \in Map /\ Written(a4, a5)
        /\ \A p \in Paths, n \in Stage :
              On(a5, p, n) <=> On(a4, p, n) \/ (p \in ps /\ n = "boost")
    BY <1>6, Names, WriteOf
  <1> HIDE DEF a5
  <1>8. /\ a6 \in Map /\ Written(a5, a6)
        /\ \A p \in Paths, n \in Stage :
              On(a6, p, n) <=> On(a5, p, n) \/ (p \in s6 /\ n = "comp")
    BY <1>1, <1>7, Names, WriteOf
  <1> HIDE DEF a6
  <1>9. /\ a7 \in Map /\ Written(a6, a7)
        /\ \A p \in Paths, n \in Stage :
              On(a7, p, n) <=> On(a6, p, n) \/ (p \in s7 /\ n = "softclk")
    BY <1>1, <1>8, Names, WriteOf
  <1> HIDE DEF a7
  <1>10. /\ a8 \in Map /\ Written(a7, a8)
         /\ \A p \in Paths, n \in Stage :
              On(a8, p, n) <=> On(a7, p, n) \/ (p \in s8 /\ n = "soft")
    BY <1>1, <1>9, Names, WriteOf
  <1> HIDE DEF a8
  <1>11. /\ a9 \in Map /\ Written(a8, a9)
         /\ \A p \in Paths, n \in Stage : On(a9, p, n) <=> On(a8, p, n)
    <2> DEFINE on == HalfDb(ps) \cup Of(s9, "ear")
               off == Of(s9, "vol")
    <2>1. Of(s9, "ear") \in SUBSET Regs /\ off \in SUBSET Regs
      BY <1>1, Names, OfRegs
    <2>2. on \in SUBSET Regs
      BY <2>1, SharedRegs
    <2>3. ASSUME NEW p \in Paths, NEW n \in Stage
          PROVE  <<p, n>> \notin on /\ <<p, n>> \notin off
      <3>1. n \in Name /\ n # "ear" /\ n # "vol"
        BY DEF Stage
      <3>2. <<p, n>> \notin Of(s9, "ear") /\ <<p, n>> \notin Of(s9, "vol")
        BY <1>1, <3>1, Names, OfRegs
      <3> QED BY <3>2, SharedRegs
    <2> HIDE DEF on, off
    <2>4. \A p \in Paths, n \in Stage : On(a9, p, n)
              <=> (On(a8, p, n) \/ <<p, n>> \in on) /\ <<p, n>> \notin off
      BY <1>10, <2>1, <2>2, UpdateStages DEF on, off
    <2>5. Written(a8, a9)
      BY <1>10, <2>1, <2>2, UpdateWrites DEF on, off
    <2> HIDE DEF a9
    <2>6. a9 \in Map
      BY <2>5 DEF Written
    <2> QED BY <2>3, <2>4, <2>5, <2>6
  <1> HIDE DEF a9
  <1>12. /\ a10 \in Map /\ Written(a9, a10)
         /\ \A p \in Paths, n \in Stage :
              On(a10, p, n) <=> On(a9, p, n) /\ ~(p \in ps /\ n = "mute")
    BY <1>11, Names, UnwriteOf
  <1> HIDE DEF a10
  <1>13. Written(m, a10)
    <2>1. Written(m, a2) /\ Written(a2, a4) /\ Written(a4, a6) /\ Written(a6, a8) /\ Written(a8, a10)
      BY <1>3, <1>4, <1>5, <1>6, <1>7, <1>8, <1>9, <1>10, <1>11, <1>12, WrittenTwice
    <2>2. Written(m, a4) /\ Written(a4, a8)
      BY <1>4, <1>6, <1>8, <1>10, <2>1, WrittenTwice
    <2>3. Written(m, a8)
      BY <1>6, <1>10, <2>2, WrittenTwice
    <2> QED BY <1>10, <1>12, <2>1, <2>3, WrittenTwice
  <1>14. ASSUME NEW p \in Paths, NEW n \in Stage, p \notin ps
         PROVE  On(a10, p, n) <=> On(m, p, n)
    BY <1>2a, <1>3, <1>4, <1>5, <1>6, <1>7, <1>8, <1>9, <1>10, <1>11, <1>12, <1>14
  <1>15. ASSUME NEW p \in Paths, NEW n \in Stage, p \in ps, softUsers[p] = 0
         PROVE  On(a10, p, n) <=> On(m, p, n) \/ n \in Full(p)
    <2>1. p \in s4 /\ p \notin s7 /\ (p \in s6 <=> p \in ctl.comp) /\ (p \in s8 <=> p \in ctl.soft)
      BY <1>2, <1>2a, <1>15
    <2>2. On(a5, p, n) <=> On(m, p, n) \/ n \in {"rx", "interp", "vbat", "softclk", "boost"}
      BY <1>3, <1>4, <1>5, <1>6, <1>7, <1>15, <2>1
    <2>3. On(a9, p, n) <=> \/ On(a5, p, n)
                           \/ p \in ctl.comp /\ n = "comp"
                           \/ p \in ctl.soft /\ n = "soft"
      BY <1>8, <1>9, <1>10, <1>11, <2>1
    <2>4. On(a10, p, n) <=> On(a9, p, n)
      BY <1>12, Names
    <2> QED BY <2>2, <2>3, <2>4 DEF Full
  <1> QED BY <1>0, <1>12, <1>13, <1>14, <1>15

\* Paths that power down lose all of them, if they had the uses that belong
\* to a path in power.
LEMMA PathsDownWrites ==
  ASSUME NEW m \in Map, NEW ps \in SUBSET Paths, softUsers \in [Paths -> Int]
  PROVE  /\ PathsDown(ps, m) \in Map /\ Written(m, PathsDown(ps, m))
         /\ \A p \in Paths, n \in Stage :
              /\ p \notin ps => (On(PathsDown(ps, m), p, n) <=> On(m, p, n))
              /\ p \in ps /\ softUsers[p] = Uses(p)
                   => (On(PathsDown(ps, m), p, n) <=> On(m, p, n) /\ n \notin Full(p))
  <1> DEFINE fewer == [p \in Paths |-> IF p \in ctl.soft THEN softUsers[p] - 1 ELSE softUsers[p]]
             s1 == ps \cap ctl.comp
             s2 == ps \cap ctl.soft
             s3 == {p \in s2 : softUsers[p] = 1}
             s4 == EarGain(ps)
             s6 == {p \in ps : fewer[p] = 1}
             gone == Of(ps, "interp") \cup HalfDb(ps) \cup Of(s4, "ear") \cup Of(s4, "vol")
             b1 == Update(m, {}, Of(s1, "comp"))
             b2 == Update(b1, {}, Of(s2, "soft"))
             b3 == Update(b2, {}, Of(s3, "softclk"))
             b4 == Update(b3, {}, gone)
             b5 == Update(b4, {}, Attenuation(ps))
             b6 == Update(b5, {}, Of(s6, "softclk"))
             b7 == Update(b6, {}, Of(ps, "boost"))
             b8 == Update(b7, {}, Of(ps, "rx"))
  <1>0. PathsDown(ps, m) = b8
    BY DEF PathsDown, BoostOff, VbatOff, InterpOff, SoftclipOff, SoftClkOff
  <1>1. /\ s1 \in SUBSET Paths /\ s2 \in SUBSET Paths /\ s3 \in SUBSET Paths
        /\ s4 \in SUBSET Paths /\ s6 \in SUBSET Paths
    BY SharedRegs
  <1>2. \A p \in Paths : p \in ps /\ softUsers[p] = Uses(p) => p \in s6
    BY DEF Uses
  <1>3. \A p \in Paths : /\ p \in s3 \/ p \in s6 => p \in ps
                         /\ p \in s1 <=> p \in ps /\ p \in ctl.comp
                         /\ p \in s2 <=> p \in ps /\ p \in ctl.soft
    OBVIOUS
  <1> HIDE DEF fewer, s1, s2, s3, s4, s6
  <1>4. /\ b1 \in Map /\ Written(m, b1)
        /\ \A p \in Paths, n \in Stage :
              On(b1, p, n) <=> On(m, p, n) /\ ~(p \in s1 /\ n = "comp")
    BY <1>1, Names, UnwriteOf
  <1> HIDE DEF b1
  <1>5. /\ b2 \in Map /\ Written(b1, b2)
        /\ \A p \in Paths, n \in Stage :
              On(b2, p, n) <=> On(b1, p, n) /\ ~(p \in s2 /\ n = "soft")
    BY <1>1, <1>4, Names, UnwriteOf
  <1> HIDE DEF b2
  <1>6. /\ b3 \in Map /\ Written(b2, b3)
        /\ \A p \in Paths, n \in Stage :
              On(b3, p, n) <=> On(b2, p, n) /\ ~(p \in s3 /\ n = "softclk")
    BY <1>1, <1>5, Names, UnwriteOf
  <1> HIDE DEF b3
  <1>7. /\ b4 \in Map /\ Written(b3, b4)
        /\ \A p \in Paths, n \in Stage :
              On(b4, p, n) <=> On(b3, p, n) /\ ~(p \in ps /\ n = "interp")
    <2>1. /\ Of(ps, "interp") \in SUBSET Regs /\ Of(s4, "ear") \in SUBSET Regs
          /\ Of(s4, "vol") \in SUBSET Regs
      BY <1>1, Names, OfRegs
    <2>2. gone \in SUBSET Regs /\ {} \in SUBSET Regs
      BY <2>1, SharedRegs
    <2>3. ASSUME NEW p \in Paths, NEW n \in Stage
          PROVE  <<p, n>> \in gone <=> p \in ps /\ n = "interp"
      <3>1. n \in Name /\ n # "ear" /\ n # "vol"
        BY DEF Stage
      <3>2. "ear" \in Name /\ "vol" \in Name
        BY Names
      <3>2a. <<p, n>> \notin Of(s4, "ear") /\ <<p, n>> \notin Of(s4, "vol")
        BY <1>1, <3>1, <3>2, OfRegs
      <3>3. <<p, n>> \in Of(ps, "interp") <=> p \in ps /\ n = "interp"
        BY <3>1, Names, OfRegs
      <3>4. <<p, n>> \notin HalfDb(ps)
        BY SharedRegs
      <3> QED BY <3>2a, <3>3, <3>4
    <2>4. b4 = Update(b3, {}, gone)
      OBVIOUS
    <2> HIDE DEF gone, b4
    <2>5. \A p \in Paths, n \in Stage : On(b4, p, n)
              <=> (On(b3, p, n) \/ <<p, n>> \in {}) /\ <<p, n>> \notin gone
      BY <1>6, <2>2, <2>4, UpdateStages
    <2>6. Written(b3, b4)
      BY <1>6, <2>2, <2>4, UpdateWrites
    <2>7. b4 \in Map
      BY <2>6 DEF Written
    <2> QED BY <2>3, <2>5, <2>6, <2>7
  <1> HIDE DEF b4
  <1>8. /\ b5 \in Map /\ Written(b4, b5)
        /\ \A p \in Paths, n \in Stage :
              On(b5, p, n) <=> On(b4, p, n) /\ ~(p \in ps /\ n = "vbat")
    <2>1. Attenuation(ps) \in SUBSET Regs /\ {} \in SUBSET Regs
      BY SharedRegs
    <2>2. \A p \in Paths, n \in Stage : On(b5, p, n)
              <=> (On(b4, p, n) \/ <<p, n>> \in {}) /\ <<p, n>> \notin Attenuation(ps)
      BY <1>7, <2>1, UpdateStages, ZenonT(30)
    <2>3. ASSUME NEW p \in Paths, NEW n \in Stage
          PROVE  <<p, n>> \in Attenuation(ps) <=> p \in ps /\ n = "vbat"
      BY SharedRegs
    <2>4. Written(b4, b5)
      BY <1>7, <2>1, UpdateWrites
    <2> HIDE DEF b5
    <2>5. b5 \in Map
      BY <2>4 DEF Written
    <2> QED BY <2>2, <2>3, <2>4, <2>5
  <1> HIDE DEF b5
  <1>9. /\ b6 \in Map /\ Written(b5, b6)
        /\ \A p \in Paths, n \in Stage :
              On(b6, p, n) <=> On(b5, p, n) /\ ~(p \in s6 /\ n = "softclk")
    BY <1>1, <1>8, Names, UnwriteOf
  <1> HIDE DEF b6
  <1>10. /\ b7 \in Map /\ Written(b6, b7)
         /\ \A p \in Paths, n \in Stage :
              On(b7, p, n) <=> On(b6, p, n) /\ ~(p \in ps /\ n = "boost")
    BY <1>9, Names, UnwriteOf
  <1> HIDE DEF b7
  <1>11. /\ b8 \in Map /\ Written(b7, b8)
         /\ \A p \in Paths, n \in Stage :
              On(b8, p, n) <=> On(b7, p, n) /\ ~(p \in ps /\ n = "rx")
    BY <1>10, Names, UnwriteOf
  <1> HIDE DEF b8
  <1>12. Written(m, b8)
    <2>1. Written(m, b2) /\ Written(b2, b4) /\ Written(b4, b6) /\ Written(b6, b8)
      BY <1>4, <1>5, <1>6, <1>7, <1>8, <1>9, <1>10, <1>11, WrittenTwice
    <2>2. Written(m, b4) /\ Written(b4, b8)
      BY <1>5, <1>7, <1>9, <1>11, <2>1, WrittenTwice
    <2> QED BY <1>7, <1>11, <2>2, WrittenTwice
  <1>13. ASSUME NEW p \in Paths, NEW n \in Stage, p \notin ps
         PROVE  On(b8, p, n) <=> On(m, p, n)
    BY <1>3, <1>4, <1>5, <1>6, <1>7, <1>8, <1>9, <1>10, <1>11, <1>13
  <1>14. ASSUME NEW p \in Paths, NEW n \in Stage, p \in ps, softUsers[p] = Uses(p)
         PROVE  On(b8, p, n) <=> On(m, p, n) /\ n \notin Full(p)
    <2>1. p \in s6 /\ (p \in s1 <=> p \in ctl.comp) /\ (p \in s2 <=> p \in ctl.soft)
      BY <1>2, <1>3, <1>14
    <2>2. On(b3, p, n) <=> /\ On(m, p, n)
                           /\ ~(p \in ctl.comp /\ n = "comp") /\ ~(p \in ctl.soft /\ n = "soft")
                           /\ ~(p \in s3 /\ n = "softclk")
      BY <1>4, <1>5, <1>6, <2>1
    <2>3. On(b8, p, n) <=> On(b3, p, n) /\ n \notin {"rx", "interp", "vbat", "softclk", "boost"}
      BY <1>7, <1>8, <1>9, <1>10, <1>11, <1>14, <2>1
    <2> QED BY <2>2, <2>3 DEF Full
  <1> QED BY <1>0, <1>11, <1>12, <1>13, <1>14

\* What a change of power does to the stages of a path whose count is true.
Powered(p, n, ps, sense, vi) ==
  \/ /\ On(rm, p, n)
     /\ ~(p \in powered \ ps /\ n \in Full(p))
     /\ ~(sensing /\ ~sense /\ p \in vi /\ n = "vi")
  \/ p \in ps \ powered /\ n \in Full(p)
  \/ sense /\ ~sensing /\ p \in vi /\ n = "vi"

\* A change of power that neither starts nor stops the macro's own clock:
\* whoever else holds it sees to that.
LEMMA PowerWrites ==
  ASSUME rm \in Map, softUsers \in [Paths -> Int], powered \in SUBSET Paths, sensing \in BOOLEAN,
         NEW ps \in SUBSET Paths, NEW sense \in BOOLEAN, NEW vi \in SUBSET Paths,
         Power(ps, sense, vi), mclkUsers \in Int,
         powered # {} \/ sensing => mclkUsers # 1,
         (ps # {} \/ sense) /\ ~(powered # {} \/ sensing) => mclkUsers # 0
  PROVE  /\ rm' \in Map /\ Written(rm, rm')
         /\ \A p \in Paths, n \in Stage :
              softUsers[p] = (IF p \in powered THEN Uses(p) ELSE 0)
                => (On(rm', p, n) <=> Powered(p, n, ps, sense, vi))
  <1> DEFINE off == powered \ ps
             up == ps \ powered
             c1 == PathsDown(off, rm)
             c2 == IF sensing /\ ~sense THEN ViOff(c1, vi) ELSE c1
             c3 == PathsUp(up, c2)
             c4 == IF sense /\ ~sensing THEN ViOn(c3, vi) ELSE c3
  <1>0. off \in SUBSET Paths /\ up \in SUBSET Paths
    OBVIOUS
  <1>1. rm' = c4
    BY DEF Power, MclkOn, MclkOff
  <1> HIDE DEF off, up
  <1>2. /\ c1 \in Map /\ Written(rm, c1)
        /\ \A p \in Paths, n \in Stage :
              /\ p \notin off => (On(c1, p, n) <=> On(rm, p, n))
              /\ p \in off /\ softUsers[p] = Uses(p)
                   => (On(c1, p, n) <=> On(rm, p, n) /\ n \notin Full(p))
    BY <1>0, PathsDownWrites
  <1> HIDE DEF c1
  <1>3. /\ c2 \in Map /\ Written(c1, c2)
        /\ \A p \in Paths, n \in Stage :
              On(c2, p, n) <=> On(c1, p, n) /\ ~(sensing /\ ~sense /\ p \in vi /\ n = "vi")
    <2>1. CASE sensing /\ ~sense
      <3>1. c2 = Update(c1, {}, Of(vi, "vi"))
        BY <2>1 DEF ViOff
      <3> HIDE DEF c2
      <3>2. /\ Update(c1, {}, Of(vi, "vi")) \in Map
            /\ Written(c1, Update(c1, {}, Of(vi, "vi")))
            /\ \A p \in Paths, n \in Stage : On(Update(c1, {}, Of(vi, "vi")), p, n)
                    <=> On(c1, p, n) /\ ~(p \in vi /\ n = "vi")
        BY <1>2, Names, UnwriteOf
      <3> QED BY <2>1, <3>1, <3>2
    <2>2. CASE ~(sensing /\ ~sense)
      BY <1>2, <2>2, WrittenOnce
    <2> QED BY <2>1, <2>2
  <1> HIDE DEF c2
  <1>4. /\ c3 \in Map /\ Written(c2, c3)
        /\ \A p \in Paths, n \in Stage :
              /\ p \notin up => (On(c3, p, n) <=> On(c2, p, n))
              /\ p \in up /\ softUsers[p] = 0
                   => (On(c3, p, n) <=> On(c2, p, n) \/ n \in Full(p))
    BY <1>0, <1>3, PathsUpWrites
  <1> HIDE DEF c3
  <1>5. /\ c4 \in Map /\ Written(c3, c4)
        /\ \A p \in Paths, n \in Stage :
              On(c4, p, n) <=> On(c3, p, n) \/ (sense /\ ~sensing /\ p \in vi /\ n = "vi")
    <2>1. CASE sense /\ ~sensing
      <3>1. c4 = Update(c3, Of(vi, "vi"), {})
        BY <2>1 DEF ViOn
      <3> HIDE DEF c4
      <3>2. /\ Update(c3, Of(vi, "vi"), {}) \in Map
            /\ Written(c3, Update(c3, Of(vi, "vi"), {}))
            /\ \A p \in Paths, n \in Stage : On(Update(c3, Of(vi, "vi"), {}), p, n)
                    <=> On(c3, p, n) \/ (p \in vi /\ n = "vi")
        BY <1>4, Names, WriteOf
      <3> QED BY <2>1, <3>1, <3>2
    <2>2. CASE ~(sense /\ ~sensing)
      BY <1>4, <2>2, WrittenOnce
    <2> QED BY <2>1, <2>2
  <1> HIDE DEF c4
  <1>6. Written(rm, c4)
    <2>1. Written(rm, c2) /\ Written(c2, c4)
      BY <1>2, <1>3, <1>4, <1>5, WrittenTwice
    <2> QED BY <1>3, <1>5, <2>1, WrittenTwice
  <1>7. ASSUME NEW p \in Paths, NEW n \in Stage,
               softUsers[p] = (IF p \in powered THEN Uses(p) ELSE 0)
        PROVE  On(c4, p, n) <=> Powered(p, n, ps, sense, vi)
    <2>1. CASE p \in off
      <3>1. p \in powered /\ p \notin ps /\ p \notin up
        BY <2>1 DEF off, up
      <3> QED BY <1>2, <1>3, <1>4, <1>5, <1>7, <2>1, <3>1 DEF Powered
    <2>2. CASE p \in up
      <3>1. p \notin powered /\ p \in ps /\ p \notin off
        BY <2>2 DEF off, up
      <3>2. n = "vi" => n \notin Full(p)
        BY DEF Full
      <3> QED BY <1>2, <1>3, <1>4, <1>5, <1>7, <2>2, <3>1, <3>2 DEF Powered
    <2>3. CASE p \notin off /\ p \notin up
      <3>1. p \notin powered \ ps /\ p \notin ps \ powered
        BY <2>3 DEF off, up
      <3> QED BY <1>2, <1>3, <1>4, <1>5, <1>7, <2>3, <3>1 DEF Powered
    <2> QED BY <2>1, <2>2, <2>3
  <1> QED BY <1>1, <1>5, <1>6, <1>7

-----------------------------------------------------------------------------
\* The calls of the back ends

Phase == {"closed", "open", "params"}

CallTyped ==
  /\ be \in [Streams -> Phase] /\ prepared \in [Streams -> BOOLEAN]
  /\ call \in [s : Streams \cup {"none"}, todo : Seq(Ops)]

\* A call in progress is of a back end with parameters, which is noted as
\* prepared at its end or never; a back end without parameters is not.
Calling ==
  /\ call.todo # <<>> =>
       /\ call.s \in Streams /\ be[call.s] = "params" /\ ~prepared[call.s]
       /\ \A i \in 1..Len(call.todo) : call.todo[i] = "enable" => i = Len(call.todo)
  /\ \A s \in Streams : prepared[s] => be[s] = "params"

SwCalls(s) ==
  \/ snd_hw_params(s) \/ snd_shutdown(s) \/ snd_hw_params_fails(s)
  \/ snd_prepare(s) \/ snd_hw_free(s)
  \/ sdw_prepare_stream(s) \/ sdw_prepare_stream_rejects(s)
  \/ sdw_enable_stream(s) \/ sdw_enable_stream_rejects(s)
  \/ sdw_disable_stream(s) \/ sdw_disable_stream_rejects(s)
  \/ sdw_deprepare_stream(s) \/ sdw_deprepare_stream_rejects(s)
  \/ sdw_stream_remove(s)

\* The operations of a call: of those that prepare, or of those that take away.
LEMMA Todos ==
  ASSUME NEW first \in {<<"disable", "deprepare">>, <<>>},
         NEW last \in {<<"prepare", "enable">>, <<"remove">>}
  PROVE  /\ first \o last \in Seq(Ops)
         /\ \A i \in 1..Len(first \o last) :
              (first \o last)[i] = "enable" => i = Len(first \o last)
  <1>1. first \in Seq(Ops) /\ last \in Seq(Ops)
    <2>1. <<"disable", "deprepare">> \in Seq(Ops)
      BY DEF Ops
    <2>2. <<"prepare", "enable">> \in Seq(Ops)
      BY DEF Ops
    <2>3. <<"remove">> \in Seq(Ops)
      BY DEF Ops
    <2>4. <<>> \in Seq(Ops)
      OBVIOUS
    <2> QED BY <2>1, <2>2, <2>3, <2>4
  <1>2. /\ first \o last \in Seq(Ops)
        /\ Len(first \o last) = Len(first) + Len(last)
        /\ \A i \in 1..(Len(first) + Len(last)) :
             (first \o last)[i] = IF i <= Len(first) THEN first[i] ELSE last[i - Len(first)]
    BY <1>1, ConcatProperties
  <1>3. Len(first) \in Nat /\ \A i \in 1..Len(first) : first[i] # "enable"
    OBVIOUS
  <1>4. Len(last) \in Nat /\ \A i \in 1..Len(last) : last[i] = "enable" => i = Len(last)
    OBVIOUS
  <1> QED BY <1>2, <1>3, <1>4

\* What is left of them after one.
LEMMA Rest ==
  ASSUME CallTyped, Calling, call.todo # <<>>, Ignored
  PROVE  /\ call' \in [s : Streams \cup {"none"}, todo : Seq(Ops)]
         /\ call'.todo # <<>> =>
              /\ call'.s = call.s
              /\ \A i \in 1..Len(call'.todo) : call'.todo[i] = "enable" => i = Len(call'.todo)
         /\ Head(call.todo) = "enable" => call'.todo = <<>>
  <1> DEFINE q == call.todo
  <1>1. /\ q \in Seq(Ops) /\ q # <<>> /\ call.s \in Streams
        /\ \A i \in 1..Len(q) : q[i] = "enable" => i = Len(q)
    BY DEF CallTyped, Calling
  <1>2. /\ Tail(q) \in Seq(Ops) /\ Len(q) \in Nat /\ Len(q) >= 1 /\ Len(Tail(q)) = Len(q) - 1
        /\ \A i \in 1..Len(Tail(q)) : Tail(q)[i] = q[i + 1]
        /\ Head(q) = q[1]
    BY <1>1, HeadTailProperties
  <1>3. CASE Len(q) = 1
    <2>1. call' = Idle
      BY <1>3 DEF Ignored
    <2> QED BY <2>1 DEF Idle
  <1>4. CASE Len(q) # 1
    <2>1. call' = [call EXCEPT !.todo = Tail(q)]
      BY <1>4 DEF Ignored
    <2>2. call'.s = call.s /\ call'.todo = Tail(q)
      BY <2>1 DEF CallTyped
    <2>3. call' \in [s : Streams \cup {"none"}, todo : Seq(Ops)]
      BY <1>2, <2>1 DEF CallTyped
    <2>4. \A i \in 1..Len(Tail(q)) : Tail(q)[i] = "enable" => i = Len(Tail(q))
      BY <1>1, <1>2
    <2>5. Head(q) # "enable"
      <3>1. 1 \in 1..Len(q) /\ 1 # Len(q)
        BY <1>2, <1>4
      <3> QED BY <1>1, <1>2, <3>1
    <2> QED BY <2>2, <2>3, <2>4, <2>5
  <1> QED BY <1>3, <1>4

\* A call that ends, or gives up, leaves nothing to enable.
LEMMA Given ==
  ASSUME CallTyped, NEW op
  PROVE  Refused(op) =>
           /\ call' \in [s : Streams \cup {"none"}, todo : Seq(Ops)]
           /\ call'.todo # <<>> =>
                /\ call'.s = call.s
                /\ \A i \in 1..Len(call'.todo) : call'.todo[i] = "enable" => i = Len(call'.todo)
  <1> SUFFICES ASSUME Refused(op)
               PROVE  /\ call' \in [s : Streams \cup {"none"}, todo : Seq(Ops)]
                      /\ call'.todo # <<>> =>
                          /\ call'.s = call.s
                          /\ \A i \in 1..Len(call'.todo) :
                                call'.todo[i] = "enable" => i = Len(call'.todo)
    OBVIOUS
  <1>1. CASE op = "enable"
    <2>1. call' = [call EXCEPT !.todo = <<"deprepare">>]
      BY <1>1 DEF Refused
    <2>2. <<"deprepare">> \in Seq(Ops)
      BY DEF Ops
    <2>3. call'.s = call.s /\ call'.todo = <<"deprepare">>
      BY <2>1 DEF CallTyped
    <2>4. call' \in [s : Streams \cup {"none"}, todo : Seq(Ops)]
      BY <2>1, <2>2 DEF CallTyped
    <2> QED BY <2>3, <2>4
  <1>2. CASE op # "enable"
    <2>1. call' = Idle
      BY <1>2 DEF Refused
    <2> QED BY <2>1 DEF Idle
  <1> QED BY <1>1, <1>2

\* What a call's operation may do to it.
Went(s) ==
  /\ be' = be
  /\ call' \in [s : Streams \cup {"none"}, todo : Seq(Ops)]
  /\ call'.todo # <<>> =>
       /\ call'.s = s
       /\ \A i \in 1..Len(call'.todo) : call'.todo[i] = "enable" => i = Len(call'.todo)
       /\ prepared' = [prepared EXCEPT ![s] = FALSE]
  /\ prepared' = [prepared EXCEPT ![s] = FALSE] \/ prepared' = [prepared EXCEPT ![s] = TRUE]

LEMMA OperationsKeep ==
  ASSUME CallTyped, Calling, NEW s \in Streams, call.s = s, call.todo # <<>>, Went(s)
  PROVE  CallTyped' /\ Calling' /\ be' = be
  <1>1. be[s] = "params"
    BY DEF Calling
  <1>2. prepared' \in [Streams -> BOOLEAN] /\ \A t \in Streams : t # s => prepared'[t] = prepared[t]
    BY DEF Went, CallTyped
  <1>3. call'.todo # <<>> => ~prepared'[s]
    BY DEF Went, CallTyped
  <1>4. CallTyped'
    BY <1>2 DEF Went, CallTyped
  <1>5. Calling'
    BY <1>1, <1>2, <1>3 DEF Went, Calling
  <1> QED BY <1>4, <1>5 DEF Went

LEMMA RejectedWent ==
  ASSUME CallTyped, Calling, NEW s \in Streams, NEW op, NEW needless, NEW allowed,
         Rejected(s, op, needless, allowed)
  PROVE  Went(s) /\ call.s = s /\ call.todo # <<>>
  <1>1. call.s = s /\ call.todo # <<>> /\ Head(call.todo) = op /\ be' = be
    BY DEF Rejected, Doing, Unmoved
  <1>2. prepared' = [prepared EXCEPT ![s] = FALSE] \/ prepared' = [prepared EXCEPT ![s] = TRUE]
    BY DEF Rejected
  <1>3. CASE op = "enable" /\ st[s] = needless
    <2>1. Ignored
      BY <1>3 DEF Rejected
    <2>2. call' \in [s : Streams \cup {"none"}, todo : Seq(Ops)] /\ call'.todo = <<>>
      BY <1>1, <1>3, <2>1, Rest
    <2> QED BY <1>1, <1>2, <2>2 DEF Went
  <1>4. CASE ~(op = "enable" /\ st[s] = needless)
    <2>1. prepared' = [prepared EXCEPT ![s] = FALSE]
      BY <1>4 DEF Rejected
    <2>2. Ignored \/ Refused(op)
      BY DEF Rejected
    <2>3. /\ call' \in [s : Streams \cup {"none"}, todo : Seq(Ops)]
          /\ call'.todo # <<>> =>
               /\ call'.s = call.s
               /\ \A i \in 1..Len(call'.todo) : call'.todo[i] = "enable" => i = Len(call'.todo)
      BY <1>1, <2>2, Rest, Given
    <2> QED BY <1>1, <2>1, <2>3 DEF Went
  <1> QED BY <1>3, <1>4

LEMMA StartupKeepsCalls ==
  ASSUME CallTyped, Calling, NEW s \in Streams, snd_startup(s)
  PROVE  CallTyped' /\ Calling'
  <1>1. be' = [be EXCEPT ![s] = "open"] /\ be[s] = "closed" /\ call = Idle
        /\ UNCHANGED <<prepared, call>>
    BY DEF snd_startup
  <1>2. be' \in [Streams -> Phase] /\ \A t \in Streams : be'[t] = IF t = s THEN "open" ELSE be[t]
    BY <1>1 DEF CallTyped, Phase
  <1>3. Idle.todo = <<>>
    BY DEF Idle
  <1> QED BY <1>1, <1>2, <1>3 DEF CallTyped, Calling

LEMMA CallsKeep ==
  ASSUME CallTyped, Calling, NEW s \in Streams, SwCalls(s)
  PROVE  /\ CallTyped' /\ Calling'
         /\ \A t \in Streams : be'[t] # "closed" => be[t] # "closed"
         /\ be[s] # "closed"
  <1> DEFINE Q == [s : Streams \cup {"none"}, todo : Seq(Ops)]
             Goal == /\ CallTyped' /\ Calling'
                     /\ \A t \in Streams : be'[t] # "closed" => be[t] # "closed"
                     /\ be[s] # "closed"
  <1>1. ASSUME Went(s), call.s = s, call.todo # <<>> PROVE Goal
    BY <1>1, OperationsKeep DEF Calling
  <1>2. Idle.todo = <<>> /\ Idle.s = "none" /\ Idle \in Q
    BY DEF Idle
  <1>4. CASE snd_hw_params(s)
    <2>1. be' = [be EXCEPT ![s] = "params"] /\ be[s] # "closed" /\ call = Idle
          /\ UNCHANGED <<prepared, call>>
      BY <1>4 DEF snd_hw_params
    <2>2. be' \in [Streams -> Phase] /\ \A t \in Streams : be'[t] = IF t = s THEN "params" ELSE be[t]
      BY <2>1 DEF CallTyped, Phase
    <2> QED BY <1>2, <2>1, <2>2 DEF CallTyped, Calling
  <1>5. CASE snd_shutdown(s) \/ snd_hw_params_fails(s)
    <2>1. be' = [be EXCEPT ![s] = "closed"] /\ be[s] = "open" /\ call = Idle
          /\ UNCHANGED <<prepared, call>>
      BY <1>5 DEF snd_shutdown, snd_hw_params_fails
    <2>2. be' \in [Streams -> Phase] /\ \A t \in Streams : be'[t] = IF t = s THEN "closed" ELSE be[t]
      BY <2>1 DEF CallTyped, Phase
    <2> QED BY <1>2, <2>1, <2>2 DEF CallTyped, Calling
  <1>6. CASE snd_prepare(s) \/ snd_hw_free(s)
    <2> DEFINE first == IF prepared[s] THEN <<"disable", "deprepare">> ELSE <<>>
    <2>1. PICK last \in {<<"prepare", "enable">>, <<"remove">>} :
            call' = [s |-> s, todo |-> first \o last]
      BY <1>6 DEF snd_prepare, snd_hw_free
    <2>2. be' = be /\ be[s] = "params" /\ prepared' = [prepared EXCEPT ![s] = FALSE]
      BY <1>6 DEF snd_prepare, snd_hw_free
    <2>3. first \in {<<"disable", "deprepare">>, <<>>}
      OBVIOUS
    <2> HIDE DEF first
    <2>4. /\ first \o last \in Seq(Ops)
          /\ \A i \in 1..Len(first \o last) :
               (first \o last)[i] = "enable" => i = Len(first \o last)
      BY <2>1, <2>3, Todos
    <2>5. call'.s = s /\ call'.todo = first \o last /\ call' \in Q
      BY <2>1, <2>4
    <2>6. /\ prepared' \in [Streams -> BOOLEAN] /\ ~prepared'[s]
          /\ \A t \in Streams : prepared'[t] => prepared[t]
      BY <2>2 DEF CallTyped
    <2>7. CallTyped'
      BY <2>2, <2>5, <2>6 DEF CallTyped
    <2>8. Calling'
      BY <2>2, <2>4, <2>5, <2>6 DEF Calling
    <2> QED BY <2>2, <2>7, <2>8
  <1>7. CASE sdw_prepare_stream(s)
    <2>1. call.s = s /\ call.todo # <<>> /\ be' = be /\ prepared' = prepared /\ (Ignored \/ Refused("prepare"))
      BY <1>7 DEF sdw_prepare_stream, Doing, Unmoved
    <2>2. prepared' = [prepared EXCEPT ![s] = FALSE]
      BY <2>1 DEF CallTyped, Calling
    <2> QED BY <1>1, <2>1, <2>2, Rest, Given DEF Went
  <1>8. CASE sdw_deprepare_stream(s) \/ sdw_disable_stream(s)
    <2>1. call.s = s /\ call.todo # <<>> /\ be' = be /\ prepared' = prepared /\ Ignored
      BY <1>8 DEF sdw_deprepare_stream, sdw_disable_stream, Doing, Unmoved
    <2>2. prepared' = [prepared EXCEPT ![s] = FALSE]
      BY <2>1 DEF CallTyped, Calling
    <2> QED BY <1>1, <2>1, <2>2, Rest DEF Went
  <1>9. CASE sdw_enable_stream(s)
    <2>1. call.s = s /\ call.todo # <<>> /\ be' = be /\ Head(call.todo) = "enable"
      BY <1>9 DEF sdw_enable_stream, Doing, Unmoved
    <2>2. \/ Refused("enable") /\ prepared' = prepared
          \/ Ignored /\ prepared' = [prepared EXCEPT ![s] = TRUE]
      BY <1>9 DEF sdw_enable_stream
    <2>3. CASE Refused("enable") /\ prepared' = prepared
      <3>1. prepared' = [prepared EXCEPT ![s] = FALSE]
        BY <2>1, <2>3 DEF CallTyped, Calling
      <3> QED BY <1>1, <2>1, <2>3, <3>1, Given DEF Went
    <2>4. CASE Ignored /\ prepared' = [prepared EXCEPT ![s] = TRUE]
      <3>1. call' \in Q /\ call'.todo = <<>>
        BY <2>1, <2>4, Rest
      <3> QED BY <1>1, <2>1, <2>4, <3>1 DEF Went
    <2> QED BY <2>2, <2>3, <2>4
  <1>10. CASE \/ sdw_prepare_stream_rejects(s) \/ sdw_enable_stream_rejects(s)
              \/ sdw_disable_stream_rejects(s) \/ sdw_deprepare_stream_rejects(s)
    <2>1. Went(s) /\ call.s = s /\ call.todo # <<>>
      BY <1>10, RejectedWent DEF sdw_prepare_stream_rejects, sdw_enable_stream_rejects,
         sdw_disable_stream_rejects, sdw_deprepare_stream_rejects
    <2> QED BY <1>1, <2>1
  <1>11. CASE sdw_stream_remove(s)
    <2>1. /\ call.s = s /\ call.todo # <<>> /\ be' = [be EXCEPT ![s] = "open"]
          /\ call' = Idle /\ prepared' = prepared
      BY <1>11 DEF sdw_stream_remove, Doing
    <2>2. be' \in [Streams -> Phase] /\ \A t \in Streams : be'[t] = IF t = s THEN "open" ELSE be[t]
      BY <2>1 DEF CallTyped, Phase
    <2>3. be[s] = "params" /\ ~prepared[s]
      BY <2>1 DEF Calling
    <2>4. CallTyped'
      BY <1>2, <2>1, <2>2 DEF CallTyped
    <2>5. Calling'
      BY <1>2, <2>1, <2>2, <2>3 DEF Calling
    <2> QED BY <2>2, <2>3, <2>4, <2>5
  <1> QED BY <1>4, <1>5, <1>6, <1>7, <1>8, <1>9, <1>10, <1>11 DEF SwCalls

-----------------------------------------------------------------------------
\* The inductive invariant

ControlType == [comp : SUBSET Paths, soft : SUBSET Paths, vi : SUBSET Paths, ear : BOOLEAN]

CodecTyped ==
  /\ keeps \in BOOLEAN /\ ctl \in ControlType /\ port \in [Paths -> 0..2]
  /\ ch \in [mask : [1..2 -> SUBSET Paths], cnt : [1..2 -> Int]]
  /\ playing \in SUBSET Streams /\ powered \in SUBSET Paths /\ sensing \in BOOLEAN
  /\ softUsers \in [Paths -> Int] /\ changed \in SUBSET Paths
ClockTyped ==
  /\ rpm \in {"active", "suspending", "suspended", "error"}
  /\ rm \in Map /\ mclkUsers \in Int /\ hclk \in Nat
  /\ mpm \in {"active", "suspended", "error"}
  /\ dead \in BOOLEAN /\ blind \in BOOLEAN
LinkTyped ==
  /\ irq \in {"idle", "sampled", "changed", "tell", "clear", "again"}
  /\ latch \in BOOLEAN /\ raced \in BOOLEAN

\* DAPM has something to power.
InUse == powered # {} \/ sensing

\* The macro's runtime PM and its registers: whether writes reach them.
Mapped ==
  /\ rm.only = (rpm # "active")
  /\ rm.clk = (rpm \in {"active", "suspending"})
  /\ rpm # "active" => rm.dirty /\ rm.defaults
  /\ ~rm.stray

\* The uses of the macro's clocks are those of the master, the interrupt thread
\* and DAPM.
Users ==
  /\ hclk > 0 => rpm = "active"
  /\ rpm # "error" => hclk = (IF mpm = "suspended" THEN 0 ELSE 1) + (IF irq = "idle" THEN 0 ELSE 1)
  /\ mclkUsers = (IF hclk = 0 THEN 0 ELSE 1) + (IF InUse THEN 1 ELSE 0)
  /\ rpm = "error" \/ mpm = "error" => dead
  /\ ~dead => ~blind

\* Whoever has a back end open, or plays, has the clock.
Opened ==
  /\ \A s \in Streams : be[s] # "closed" => mpm = "active" /\ rpm = "active"
  /\ playing # {} => mpm = "active" /\ rpm = "active"

\* DAPM powers what the streams and the routes ask for.
Routes == powered = Routed(playing, port) /\ sensing = Sensed(playing, ctl.vi)

\* The interrupt thread's notes.
Reported ==
  /\ seen = status /\ (irq # "tell" => told = seen)
  /\ irq \in {"tell", "clear"} /\ ~raced => seen = link
  /\ irq \in {"idle", "again"} /\ ~latch /\ ~raced => seen = link

\* The registers of an awake macro are as set; of a sleeping one, kept or lost.
Agrees(m) == /\ m.cache \subseteq m.chip
             /\ ~keeps => m.chip \subseteq m.cache \cup Volatile
Heard ==
  /\ rpm = "active" => Agrees(rm)
  /\ rpm \in {"suspended", "error"} /\ ~keeps => rm.chip = {}

\* The stages of a path whose switches did not move under it, and its uses of
\* the soft clipper's clock.
Wanted(p, n) ==
  \/ p \in powered /\ n \in Full(p)
  \/ sensing /\ p \in ctl.vi /\ n = "vi"
Whole ==
  \A p \in Paths \ changed :
    /\ softUsers[p] = IF p \in powered THEN Uses(p) ELSE 0
    /\ \A n \in Stage : On(rm, p, n) <=> Wanted(p, n)

BusInv ==
  /\ CodecTyped /\ ClockTyped /\ LinkTyped /\ CallTyped /\ Mapped /\ Users
  /\ Opened /\ Calling /\ Routes /\ Reported /\ Heard /\ Whole

-----------------------------------------------------------------------------
\* The clock the macro provides

\* Writes to the registers of the whole.
LEMMA TopRegs ==
  /\ Top("mclk") \in SUBSET Regs /\ Top("swr") \in SUBSET Regs
  /\ \A p \in Paths, n \in Stage : <<p, n>> \notin Top("mclk") /\ <<p, n>> \notin Top("swr")
  BY MacroAssumption DEF Top, Regs, Name

\* A write changes no path's stages, and of the rest what Written says.
Beside(m, n) ==
  /\ n \in Map /\ Written(m, n)
  /\ \A p \in Paths, x \in Stage : On(n, p, x) <=> On(m, p, x)

LEMMA WriteTop ==
  ASSUME NEW m \in Map, NEW x \in {"mclk", "swr"}
  PROVE  Beside(m, Update(m, Top(x), {})) /\ Beside(m, Update(m, {}, Top(x)))
  <1>1. Top(x) \in SUBSET Regs /\ {} \in SUBSET Regs
        /\ \A p \in Paths, n \in Stage : <<p, n>> \notin Top(x)
    BY TopRegs
  <1>2. Written(m, Update(m, Top(x), {})) /\ Written(m, Update(m, {}, Top(x)))
    BY <1>1, UpdateWrites
  <1>3. \A p \in Paths, n \in Stage :
          /\ On(Update(m, Top(x), {}), p, n)
                <=> (On(m, p, n) \/ <<p, n>> \in Top(x)) /\ <<p, n>> \notin {}
          /\ On(Update(m, {}, Top(x)), p, n)
                <=> (On(m, p, n) \/ <<p, n>> \in {}) /\ <<p, n>> \notin Top(x)
    BY <1>1, UpdateStages, ZenonT(30)
  <1> QED BY <1>1, <1>2, <1>3 DEF Beside, Written

\* A macro whose clock runs and that hears of writes.
Running(m) == m \in Map /\ ~m.only /\ m.clk /\ ~m.stray /\ Agrees(m)

LEMMA RunningOn ==
  ASSUME NEW m, NEW n, Running(m), Written(m, n)
  PROVE  Running(n)
  BY DEF Running, Written, Agrees

\* The cache is written out: what the chip had kept, or lost, is put right.
LEMMA SyncRuns ==
  ASSUME NEW m \in Map, ~m.only, m.clk, ~m.stray, m.defaults, m.dirty, keeps \in BOOLEAN,
         ~keeps => m.chip \subseteq m.cache \cup Volatile
  PROVE  /\ Running(Sync(m))
         /\ \A p \in Paths, n \in Stage : On(Sync(m), p, n) <=> On(m, p, n)
  <1>1. Sync(m) = [m EXCEPT !.chip = m.chip \cup m.cache, !.dirty = FALSE, !.defaults = FALSE,
                            !.stray = m.stray \/ (m.dirty /\ ~m.clk)]
    BY DEF Sync, Map
  <1>2. Sync(m) \in Map
    BY <1>1 DEF Map
  <1>3. /\ Sync(m).chip = m.chip \cup m.cache /\ Sync(m).cache = m.cache
        /\ Sync(m).only = m.only /\ Sync(m).clk = m.clk /\ Sync(m).stray = m.stray
    BY <1>1 DEF Map
  <1> QED BY <1>2, <1>3 DEF Running, Agrees, On

LEMMA AwakeRuns ==
  ASSUME CodecTyped, ClockTyped, Mapped, Heard, rpm \in {"active", "suspended"}
  PROVE  /\ Awake \in Map /\ Running(Awake)
         /\ \A p \in Paths, n \in Stage : On(Awake, p, n) <=> On(rm, p, n)
  <1>1. CASE rpm = "active"
    BY <1>1 DEF Awake, Running, ClockTyped, Mapped, Heard
  <1>2. CASE rpm = "suspended"
    <2> DEFINE m == [rm EXCEPT !.clk = TRUE, !.only = FALSE]
    <2>1. Awake = Sync(m)
      BY <1>2 DEF Awake, Resumed
    <2>2. /\ m \in Map /\ ~m.only /\ m.clk /\ m.stray = rm.stray /\ m.defaults = rm.defaults
          /\ m.dirty = rm.dirty /\ m.chip = rm.chip /\ m.cache = rm.cache
      BY DEF ClockTyped, Map
    <2>3. rm.dirty /\ rm.defaults /\ ~rm.stray /\ (~keeps => rm.chip = {}) /\ keeps \in BOOLEAN
      BY <1>2 DEF Mapped, Heard, CodecTyped
    <2> HIDE DEF m
    <2>4. /\ Running(Sync(m))
          /\ \A p \in Paths, n \in Stage : On(Sync(m), p, n) <=> On(m, p, n)
      BY <2>2, <2>3, SyncRuns
    <2>5. \A p \in Paths, n \in Stage : On(m, p, n) <=> On(rm, p, n)
      BY <2>2 DEF On
    <2> QED BY <2>1, <2>4, <2>5 DEF Running
  <1> QED BY <1>1, <1>2

LEMMA MclkRuns ==
  ASSUME NEW m, Running(m), keeps \in BOOLEAN, NEW users
  PROVE  /\ MclkOn(m, users) \in Map /\ Running(MclkOn(m, users))
         /\ \A p \in Paths, n \in Stage : On(MclkOn(m, users), p, n) <=> On(m, p, n)
  <1>1. CASE users # 0
    BY <1>1 DEF MclkOn, Running
  <1>2. CASE users = 0
    <2> DEFINE d == MarkDirty(m)
               e == Sync(d)
    <2>1. MclkOn(m, users) = Update(e, Top("mclk"), {})
      BY <1>2 DEF MclkOn
    <2>2. /\ d \in Map /\ ~d.only /\ d.clk /\ ~d.stray /\ d.defaults /\ d.dirty
          /\ d.chip = m.chip /\ d.cache = m.cache
      BY DEF MarkDirty, Running, Map
    <2>3. ~keeps => d.chip \subseteq d.cache \cup Volatile
      BY <2>2 DEF Running, Agrees
    <2> HIDE DEF d
    <2>4. Running(e) /\ \A p \in Paths, n \in Stage : On(e, p, n) <=> On(d, p, n)
      BY <2>2, <2>3, SyncRuns
    <2>5. \A p \in Paths, n \in Stage : On(d, p, n) <=> On(m, p, n)
      BY <2>2 DEF On
    <2> HIDE DEF e
    <2>6. Beside(e, Update(e, Top("mclk"), {}))
      BY <2>4, WriteTop DEF Running
    <2> QED BY <2>1, <2>4, <2>5, <2>6, RunningOn DEF Beside, Running
  <1> QED BY <1>1, <1>2

LEMMA RunningWakes ==
  ASSUME Running(rm'), rpm' = "active", keeps' = keeps
  PROVE  rm' \in Map /\ Mapped' /\ Heard'
  <1>1. /\ rm' \in Map /\ ~rm'.only /\ rm'.clk /\ ~rm'.stray
        /\ rm'.cache \subseteq rm'.chip
        /\ ~keeps => rm'.chip \subseteq rm'.cache \cup Volatile
    BY DEF Running, Agrees
  <1>2. rm'.only = FALSE /\ rm'.clk = TRUE
    BY <1>1 DEF Map
  <1>3. Mapped'
    BY <1>1, <1>2 DEF Mapped
  <1>4. Heard'
    BY <1>1 DEF Heard, Agrees, Volatile, Top
  <1> QED BY <1>1, <1>3, <1>4

\* wsa_swrm_clock, when a clock is taken and when one is given back.
LEMMA GetRuns ==
  ASSUME CodecTyped, ClockTyped, Mapped, Heard, HclkGet, keeps' = keeps,
         hclk > 0 => rpm = "active"
  PROVE  /\ rm' \in Map /\ Mapped' /\ Heard'
         /\ \A p \in Paths, n \in Stage : On(rm', p, n) <=> On(rm, p, n)
         /\ rpm' = "active" /\ hclk' = hclk + 1
         /\ mclkUsers' = mclkUsers + (IF hclk = 0 THEN 1 ELSE 0)
  <1>1. rpm \in {"active", "suspended"} /\ rpm' = "active" /\ hclk' = hclk + 1 /\ hclk \in Nat
    BY DEF HclkGet, ClockTyped
  <1>2. mclkUsers' = mclkUsers + (IF hclk = 0 THEN 1 ELSE 0)
    BY DEF HclkGet, ClockTyped
  <1>3. Running(rm') /\ \A p \in Paths, n \in Stage : On(rm', p, n) <=> On(rm, p, n)
    <2>1. CASE hclk > 0
      <3>1. rm' = rm /\ rpm = "active"
        BY <2>1 DEF HclkGet
      <3> QED BY <3>1 DEF Running, ClockTyped, Mapped, Heard
    <2>2. CASE hclk = 0
      <3> DEFINE m == MclkOn(Awake, mclkUsers)
      <3>1. rm' = Update(m, Top("swr"), {})
        BY <2>2 DEF HclkGet
      <3>2. Running(Awake) /\ \A p \in Paths, n \in Stage : On(Awake, p, n) <=> On(rm, p, n)
        BY <1>1, AwakeRuns
      <3>3. keeps \in BOOLEAN
        BY DEF CodecTyped
      <3>4. Running(m) /\ \A p \in Paths, n \in Stage : On(m, p, n) <=> On(Awake, p, n)
        BY <3>2, <3>3, MclkRuns
      <3> HIDE DEF m
      <3>5. m \in Map
        BY <3>4 DEF Running
      <3>6. Beside(m, Update(m, Top("swr"), {}))
        BY <3>5, WriteTop
      <3> QED BY <3>1, <3>2, <3>4, <3>6, RunningOn DEF Beside
    <2> QED BY <1>1, <2>1, <2>2
  <1>4. rm' \in Map /\ Mapped' /\ Heard'
    BY <1>1, <1>3, RunningWakes
  <1> QED BY <1>1, <1>2, <1>3, <1>4

LEMMA PutRuns ==
  ASSUME CodecTyped, ClockTyped, Mapped, Heard, HclkPut, keeps' = keeps, hclk > 0,
         rpm = "active"
  PROVE  /\ rm' \in Map /\ Mapped' /\ Heard'
         /\ \A p \in Paths, n \in Stage : On(rm', p, n) <=> On(rm, p, n)
         /\ rpm' = "active" /\ hclk' = hclk - 1
         /\ mclkUsers' = mclkUsers - (IF hclk = 1 THEN 1 ELSE 0)
  <1>1. rpm' = "active" /\ hclk' = hclk - 1
    BY DEF HclkPut, ClockTyped
  <1>2. mclkUsers' = mclkUsers - (IF hclk = 1 THEN 1 ELSE 0)
    BY DEF HclkPut, ClockTyped
  <1>3. Running(rm)
    BY DEF Running, ClockTyped, Mapped, Heard
  <1>4. Running(rm') /\ \A p \in Paths, n \in Stage : On(rm', p, n) <=> On(rm, p, n)
    <2>1. CASE hclk # 1
      <3>1. rm' = rm
        BY <2>1 DEF HclkPut
      <3> QED BY <1>3, <3>1
    <2>2. CASE hclk = 1
      <3> DEFINE m == Update(rm, {}, Top("swr"))
      <3>1. rm' = MclkOff(m, mclkUsers)
        BY <2>2 DEF HclkPut
      <3>2. rm \in Map
        BY DEF ClockTyped
      <3>3. Beside(rm, m)
        BY <3>2, WriteTop
      <3> HIDE DEF m
      <3>4. m \in Map /\ Running(m)
        BY <1>3, <3>3, RunningOn DEF Beside
      <3>5. Beside(m, Update(m, {}, Top("mclk")))
        BY <3>4, WriteTop
      <3>6. rm' = m \/ rm' = Update(m, {}, Top("mclk"))
        BY <3>1 DEF MclkOff
      <3> QED BY <3>3, <3>4, <3>5, <3>6, RunningOn DEF Beside
    <2> QED BY <2>1, <2>2
  <1>5. rm' \in Map /\ Mapped' /\ Heard'
    BY <1>1, <1>4, RunningWakes
  <1> QED BY <1>1, <1>2, <1>4, <1>5

-----------------------------------------------------------------------------
\* What a step leaves alone stays as it was

LEMMA CodecKeeps ==
  ASSUME CodecTyped, Routes, Whole, UNCHANGED Codec,
         \A p \in Paths, n \in Stage : On(rm', p, n) <=> On(rm, p, n)
  PROVE  CodecTyped' /\ Routes' /\ Whole' /\ (InUse' <=> InUse)
  <1>1. CodecTyped' /\ Routes' /\ (InUse' <=> InUse)
    BY DEF Codec, CodecTyped, Routes, Routed, Sensed, InUse
  <1>2. Whole'
    <2> SUFFICES ASSUME NEW p \in Paths \ changed'
                 PROVE  /\ softUsers'[p] = IF p \in powered' THEN Uses(p)' ELSE 0
                        /\ \A n \in Stage : On(rm', p, n) <=> Wanted(p, n)'
      BY DEF Whole, On
    <2>1. p \in Paths \ changed /\ softUsers' = softUsers /\ powered' = powered
          /\ sensing' = sensing /\ ctl' = ctl
      BY DEF Codec
    <2>2. Uses(p)' = Uses(p) /\ \A n : Wanted(p, n)' <=> Wanted(p, n)
      BY <2>1 DEF Uses, Wanted, Full
    <2> QED BY <2>1, <2>2 DEF Whole
  <1> QED BY <1>1, <1>2

LEMMA LinkKeeps ==
  ASSUME LinkTyped, Reported, UNCHANGED Link
  PROVE  LinkTyped' /\ Reported'
  BY DEF Link, LinkTyped, Reported

LEMMA CallsSame ==
  ASSUME CallTyped, Calling, UNCHANGED vars
  PROVE  CallTyped' /\ Calling' /\ be' = be
  BY DEF vars, CallTyped, Calling

\* Writes that reach the registers of an awake macro, or the cache of another's.
LEMMA WritesKeep ==
  ASSUME ClockTyped, Mapped, Heard, Written(rm, rm'), rpm' = rpm, keeps' = keeps
  PROVE  rm' \in Map /\ Mapped' /\ Heard'
  <1>1. rm' \in Map /\ rm \in Map
    BY DEF Written, ClockTyped
  <1>2. rm.only \/ rm.clk
    BY DEF Mapped
  <1>3. Mapped'
    BY <1>2 DEF Mapped, Written
  <1>4. Heard'
    <2>1. CASE rpm = "active"
      <3>1. Agrees(rm) /\ ~rm.only
        BY <2>1 DEF Heard, Mapped
      <3>2. rm'.cache \subseteq rm'.chip /\ (~keeps => rm'.chip \subseteq rm'.cache \cup Volatile)
        BY <3>1 DEF Agrees, Written
      <3> QED BY <2>1, <3>2 DEF Heard, Agrees, Volatile, Top
    <2>2. CASE rpm # "active"
      <3>1. rm'.chip = rm.chip
        BY <2>2 DEF Mapped, Written
      <3> QED BY <2>2, <3>1 DEF Heard
    <2> QED BY <2>1, <2>2
  <1> QED BY <1>1, <1>3, <1>4

\* A clock that does not start.
LEMMA RefusedKeeps ==
  ASSUME ClockTyped, Mapped, Heard, HclkRefused, keeps' = keeps
  PROVE  /\ rm' = rm /\ Mapped' /\ Heard'
         /\ rpm' = "error" /\ hclk = 0 /\ hclk' = 0 /\ mclkUsers' = mclkUsers
  BY DEF HclkRefused, ClockTyped, Mapped, Heard

-----------------------------------------------------------------------------
\* The back ends

LEMMA StartupKeeps ==
  ASSUME BusInv, NEW s \in Streams, Startup(s)
  PROVE  BusInv'
  <1>1. /\ CodecTyped /\ ClockTyped /\ LinkTyped /\ CallTyped /\ Mapped /\ Users
        /\ Opened /\ Calling /\ Routes /\ Reported /\ Heard /\ Whole
    BY DEF BusInv
  <1>2. /\ rpm # "error" /\ snd_startup(s) /\ MasterGet /\ UNCHANGED Codec /\ UNCHANGED Link
        /\ keeps' = keeps /\ irq' = irq
    BY DEF Startup, Codec, Link
  <1>3. CallTyped' /\ Calling'
    BY <1>1, <1>2, StartupKeepsCalls
  <1>4. /\ rm' \in Map /\ Mapped' /\ Heard' /\ rpm' = "active" /\ mpm' = "active"
        /\ hclk' = 1 + (IF irq = "idle" THEN 0 ELSE 1)
        /\ mclkUsers' = 1 + (IF InUse THEN 1 ELSE 0)
        /\ dead' = dead /\ (blind' = blind)
        /\ \A p \in Paths, n \in Stage : On(rm', p, n) <=> On(rm, p, n)
    <2>1. CASE mpm = "active"
      <3>1. UNCHANGED <<rpm, hclk, rm, mclkUsers, blind, dead, mpm>>
        BY <1>2, <2>1 DEF MasterGet
      <3>2. hclk = 1 + (IF irq = "idle" THEN 0 ELSE 1) /\ rpm = "active"
        BY <1>1, <1>2, <2>1 DEF Users
      <3> QED BY <1>1, <1>2, <2>1, <3>1, <3>2 DEF ClockTyped, Mapped, Heard, Agrees, Users, Volatile, Top
    <2>2. CASE mpm # "active"
      <3>1. mpm = "suspended" /\ mpm' = "active" /\ HclkGet /\ Access /\ dead' = dead
        BY <1>2, <2>2 DEF MasterGet
      <3>2. hclk > 0 => rpm = "active"
        BY <1>1 DEF Users
      <3>3. /\ rm' \in Map /\ Mapped' /\ Heard'
            /\ \A p \in Paths, n \in Stage : On(rm', p, n) <=> On(rm, p, n)
            /\ rpm' = "active" /\ hclk' = hclk + 1
            /\ mclkUsers' = mclkUsers + (IF hclk = 0 THEN 1 ELSE 0)
        BY <1>1, <1>2, <3>1, <3>2, GetRuns
      <3>4. hclk = (IF irq = "idle" THEN 0 ELSE 1)
        BY <1>1, <1>2, <3>1 DEF Users
      <3>5. mclkUsers = (IF hclk = 0 THEN 0 ELSE 1) + (IF InUse THEN 1 ELSE 0)
        BY <1>1 DEF Users
      <3>6. hclk' = 1 + (IF irq = "idle" THEN 0 ELSE 1) /\ hclk' # 0
        BY <3>3, <3>4
      <3>7. mclkUsers' = 1 + (IF InUse THEN 1 ELSE 0)
        BY <3>3, <3>4, <3>5
      <3>8. blind' = blind
        BY <1>1, <3>1, <3>6 DEF Access, ClockTyped
      <3> QED BY <3>1, <3>3, <3>6, <3>7, <3>8
    <2> QED BY <2>1, <2>2
  <1>5. CodecTyped' /\ Routes' /\ Whole' /\ (InUse' <=> InUse) /\ LinkTyped' /\ Reported'
    BY <1>1, <1>2, <1>4, CodecKeeps, LinkKeeps
  <1>6. ClockTyped' /\ Users'
    BY <1>1, <1>2, <1>4, <1>5 DEF ClockTyped, Users
  <1>7. Opened'
    BY <1>4 DEF Opened
  <1> QED BY <1>3, <1>4, <1>5, <1>6, <1>7 DEF BusInv

LEMMA StartupRefusedKeeps ==
  ASSUME BusInv, NEW s \in Streams, StartupRefused(s)
  PROVE  BusInv'
  <1>1. /\ CodecTyped /\ ClockTyped /\ LinkTyped /\ CallTyped /\ Mapped /\ Users
        /\ Opened /\ Calling /\ Routes /\ Reported /\ Heard /\ Whole
    BY DEF BusInv
  <1>2. /\ UNCHANGED vars /\ UNCHANGED Codec /\ UNCHANGED Link
        /\ keeps' = keeps /\ irq' = irq /\ playing' = playing
    BY DEF StartupRefused, Codec, Link
  <1>3. CallTyped' /\ Calling' /\ be' = be /\ LinkTyped' /\ Reported'
    BY <1>1, <1>2, CallsSame, LinkKeeps
  <1>4. CASE MasterIsAwakeUnclocked
    <2>1. mpm = "suspended" /\ mpm' = "active" /\ HclkRefused /\ Access /\ dead' = TRUE
      BY <1>4 DEF MasterIsAwakeUnclocked
    <2>2. /\ rm' = rm /\ Mapped' /\ Heard'
          /\ rpm' = "error" /\ hclk = 0 /\ hclk' = 0 /\ mclkUsers' = mclkUsers
      BY <1>1, <1>2, <2>1, RefusedKeeps
    <2>3. CodecTyped' /\ Routes' /\ Whole' /\ (InUse' <=> InUse)
      BY <1>1, <1>2, <2>2, CodecKeeps
    <2>4. ClockTyped' /\ Users'
      BY <1>1, <1>2, <2>1, <2>2, <2>3 DEF ClockTyped, Users, Access
    <2>5. Opened'
      BY <1>1, <1>2, <1>3, <2>1 DEF Opened
    <2> QED BY <1>3, <2>2, <2>3, <2>4, <2>5 DEF BusInv
  <1>5. CASE UNCHANGED <<ClockVars, mpm, dead, blind>>
    <2>1. UNCHANGED <<rpm, rm, mclkUsers, hclk, mpm, dead, blind>>
      BY <1>5 DEF ClockVars
    <2>2. CodecTyped' /\ Routes' /\ Whole' /\ (InUse' <=> InUse)
      BY <1>1, <1>2, <2>1, CodecKeeps
    <2>3. ClockTyped' /\ Users' /\ Opened'
      BY <1>1, <1>2, <1>3, <2>1, <2>2 DEF ClockTyped, Users, Opened
    <2>4. Mapped' /\ Heard'
      BY <1>1, <1>2, <2>1 DEF Mapped, Heard, Agrees, Volatile, Top
    <2> QED BY <1>3, <2>2, <2>3, <2>4 DEF BusInv
  <1> QED BY <1>4, <1>5 DEF StartupRefused

\* A call of an open back end, which may write the rate of the render paths.
LEMMA OpenKeeps ==
  ASSUME BusInv, NEW s \in Streams, SwCalls(s), UNCHANGED Codec, UNCHANGED Link, Access,
         UNCHANGED <<rpm, mclkUsers, hclk, mpm, dead>>, Beside(rm, rm')
  PROVE  BusInv'
  <1>1. /\ CodecTyped /\ ClockTyped /\ LinkTyped /\ CallTyped /\ Mapped /\ Users
        /\ Opened /\ Calling /\ Routes /\ Reported /\ Heard /\ Whole
    BY DEF BusInv
  <1>2. keeps' = keeps /\ irq' = irq /\ playing' = playing
    BY DEF Codec, Link
  <1>3. /\ CallTyped' /\ Calling'
        /\ \A t \in Streams : be'[t] # "closed" => be[t] # "closed"
        /\ be[s] # "closed"
    BY <1>1, CallsKeep
  <1>4. rm' \in Map /\ Mapped' /\ Heard'
    BY <1>1, <1>2, WritesKeep DEF Beside
  <1>5. CodecTyped' /\ Routes' /\ Whole' /\ (InUse' <=> InUse) /\ LinkTyped' /\ Reported'
    BY <1>1, CodecKeeps, LinkKeeps DEF Beside
  <1>6. mpm = "active" /\ rpm = "active"
    BY <1>1, <1>3 DEF Opened
  <1>7. hclk # 0
    BY <1>1, <1>6 DEF Users, ClockTyped
  <1>8. blind' = blind
    BY <1>1, <1>7 DEF Access, ClockTyped
  <1>9. ClockTyped' /\ Users' /\ Opened'
    BY <1>1, <1>2, <1>4, <1>5, <1>6, <1>8 DEF ClockTyped, Users, Opened
  <1> QED BY <1>3, <1>4, <1>5, <1>9 DEF BusInv

LEMMA HwParamsKeeps ==
  ASSUME BusInv, NEW s \in Streams, HwParams(s)
  PROVE  BusInv'
  <1>1. /\ SwCalls(s) /\ Access /\ UNCHANGED Link /\ UNCHANGED <<mpm, dead>>
        /\ wsa_macro_hw_params \/ UNCHANGED macroVars
    BY DEF HwParams, SwCalls
  <1>2. rm \in Map /\ ch.mask[1] \in SUBSET Paths
    BY DEF BusInv, ClockTyped, CodecTyped
  <1>3. UNCHANGED Codec /\ UNCHANGED <<rpm, mclkUsers, hclk>>
    BY <1>1 DEF wsa_macro_hw_params, macroVars, Codec
  <1>4. Beside(rm, rm')
    <2>1. CASE wsa_macro_hw_params
      <3> DEFINE ps == ch.mask[1]
      <3>1. rm' = Update(rm, Of(ps, "rate"), {})
        BY <2>1 DEF wsa_macro_hw_params
      <3>2. ps \in SUBSET Paths /\ "rate" \in Name /\ \A n \in Stage : n # "rate"
        BY <1>2 DEF Name, Stage
      <3> HIDE DEF ps
      <3>3. /\ Update(rm, Of(ps, "rate"), {}) \in Map
            /\ Written(rm, Update(rm, Of(ps, "rate"), {}))
            /\ \A p \in Paths, n \in Stage : On(Update(rm, Of(ps, "rate"), {}), p, n)
                    <=> On(rm, p, n) \/ (p \in ps /\ n = "rate")
        BY <1>2, <3>2, WriteOf
      <3> QED BY <3>1, <3>2, <3>3 DEF Beside
    <2>2. CASE UNCHANGED macroVars
      BY <1>2, <2>2, WrittenOnce DEF macroVars, Beside
    <2> QED BY <1>1, <2>1, <2>2
  <1> QED BY <1>1, <1>3, <1>4, OpenKeeps

LEMMA BusCallKeeps ==
  ASSUME BusInv, NEW s \in Streams, BusCall(s)
  PROVE  BusInv'
  <1>1. /\ SwCalls(s) /\ Access /\ UNCHANGED Link /\ UNCHANGED <<mpm, dead>>
        /\ UNCHANGED macroVars
    BY DEF BusCall, SwCalls
  <1>2. UNCHANGED Codec /\ UNCHANGED <<rpm, mclkUsers, hclk>> /\ rm' = rm
    BY <1>1 DEF macroVars, Codec
  <1>3. Beside(rm, rm')
    BY <1>2, WrittenOnce DEF Beside, BusInv, ClockTyped
  <1> QED BY <1>1, <1>2, <1>3, OpenKeeps

-----------------------------------------------------------------------------
\* DAPM and the controls

\* DAPM's change of power, when a stream plays or may, or nothing is to play.
Asked(ps, sense, vi) ==
  /\ Power(ps, sense, vi)
  /\ playing # {} \/ (rpm = "active" /\ mpm = "active") \/ ~(ps # {} \/ sense)
  /\ UNCHANGED <<rpm, keeps, hclk, mpm, irq, dead, blind>>

\* What it comes to for a path whose switches did not move under it.
Answered(ps, sense, vi) ==
  \A p \in Paths \ changed :
    /\ softUsers'[p] = IF p \in ps THEN Uses(p) ELSE 0
    /\ \A n \in Stage : On(rm', p, n) <=> Powered(p, n, ps, sense, vi)

LEMMA PowerKeeps ==
  ASSUME BusInv, NEW ps \in SUBSET Paths, NEW sense \in BOOLEAN, NEW vi \in SUBSET Paths,
         Asked(ps, sense, vi)
  PROVE  /\ ClockTyped' /\ Mapped' /\ Heard' /\ Users'
         /\ powered' = ps /\ sensing' = sense /\ softUsers' \in [Paths -> Int]
         /\ Answered(ps, sense, vi)
  <1>0. /\ Power(ps, sense, vi)
        /\ playing # {} \/ (rpm = "active" /\ mpm = "active") \/ ~(ps # {} \/ sense)
        /\ UNCHANGED <<rpm, keeps, hclk, mpm, irq, dead, blind>>
    BY DEF Asked
  <1>1. CodecTyped /\ ClockTyped /\ Mapped /\ Users /\ Opened /\ Routes /\ Heard /\ Whole
    BY DEF BusInv
  <1>2. /\ rm \in Map /\ softUsers \in [Paths -> Int] /\ powered \in SUBSET Paths
        /\ sensing \in BOOLEAN /\ mclkUsers \in Int /\ hclk \in Nat
    BY <1>1 DEF CodecTyped, ClockTyped
  <1> DEFINE is == ps # {} \/ sense
  <1>3. InUse => playing # {}
    BY <1>1 DEF Routes, InUse, Routed, Sensed
  <1>4. InUse \/ is => hclk # 0
    <2>1. InUse \/ is => rpm = "active" /\ mpm = "active"
      BY <1>0, <1>1, <1>3 DEF Opened
    <2> QED BY <1>1, <1>2, <2>1 DEF Users
  <1>5. mclkUsers = (IF hclk = 0 THEN 0 ELSE 1) + (IF InUse THEN 1 ELSE 0)
    BY <1>1 DEF Users
  <1>6. (powered # {} \/ sensing => mclkUsers # 1)
        /\ ((ps # {} \/ sense) /\ ~(powered # {} \/ sensing) => mclkUsers # 0)
    BY <1>4, <1>5 DEF InUse
  <1>7. /\ rm' \in Map /\ Written(rm, rm')
        /\ \A p \in Paths, n \in Stage :
              softUsers[p] = (IF p \in powered THEN Uses(p) ELSE 0)
                => (On(rm', p, n) <=> Powered(p, n, ps, sense, vi))
    BY <1>0, <1>2, <1>6, PowerWrites
  <1>8. Mapped' /\ Heard'
    BY <1>0, <1>1, <1>7, WritesKeep
  <1>9. powered' = ps /\ sensing' = sense
    BY <1>0 DEF Power
  <1>10. mclkUsers' = IF InUse = is THEN mclkUsers ELSE IF is THEN mclkUsers + 1 ELSE mclkUsers - 1
    BY <1>0 DEF Power, InUse
  <1>11. InUse' <=> is
    BY <1>9 DEF InUse
  <1>12. mclkUsers' = (IF hclk = 0 THEN 0 ELSE 1) + (IF is THEN 1 ELSE 0)
    <2>1. InUse \in BOOLEAN /\ is \in BOOLEAN
      BY DEF InUse
    <2> HIDE DEF is
    <2> QED BY <1>2, <1>5, <1>10, <2>1
  <1>13. Users'
    BY <1>0, <1>1, <1>11, <1>12 DEF Users
  <1>14. ClockTyped'
    BY <1>0, <1>1, <1>2, <1>7, <1>12 DEF ClockTyped
  <1>15. softUsers' = [p \in Paths |->
                        IF p \in ps \ powered THEN softUsers[p] + Uses(p)
                        ELSE IF p \in powered \ ps THEN softUsers[p] - Uses(p)
                        ELSE softUsers[p]]
    BY <1>0 DEF Power
  <1>16. softUsers' \in [Paths -> Int]
    BY <1>2, <1>15 DEF Uses
  <1>17. ASSUME NEW p \in Paths \ changed
         PROVE  /\ softUsers'[p] = IF p \in ps THEN Uses(p) ELSE 0
                /\ \A n \in Stage : On(rm', p, n) <=> Powered(p, n, ps, sense, vi)
    <2>1. softUsers[p] = IF p \in powered THEN Uses(p) ELSE 0
      BY <1>1 DEF Whole
    <2>2. Uses(p) \in Int
      BY DEF Uses
    <2>3. softUsers'[p] = IF p \in ps \ powered THEN softUsers[p] + Uses(p)
                          ELSE IF p \in powered \ ps THEN softUsers[p] - Uses(p)
                          ELSE softUsers[p]
      BY <1>15
    <2>4. softUsers'[p] = IF p \in ps THEN Uses(p) ELSE 0
      BY <2>1, <2>2, <2>3
    <2> QED BY <1>7, <2>1, <2>4
  <1> QED BY <1>8, <1>9, <1>13, <1>14, <1>16, <1>17 DEF Answered

\* A path is whole after a change of power, if what is sensed is what the mixer says.
LEMMA WholeAfter ==
  ASSUME Whole, NEW ps \in SUBSET Paths, NEW sense \in BOOLEAN, NEW vi \in SUBSET Paths,
         sensing \in BOOLEAN, changed \subseteq changed', powered' = ps, sensing' = sense,
         ctl'.comp = ctl.comp, ctl'.soft = ctl.soft,
         \A p \in Paths \ changed' : sense \/ sensing =>
             (p \in ctl'.vi <=> p \in vi) /\ (p \in ctl.vi <=> p \in vi),
         Answered(ps, sense, vi)
  PROVE  Whole'
  <1> SUFFICES ASSUME NEW p \in Paths \ changed'
               PROVE  /\ softUsers'[p] = IF p \in powered' THEN Uses(p)' ELSE 0
                      /\ \A n \in Stage : On(rm', p, n) <=> Wanted(p, n)'
    BY DEF Whole, On
  <1>1. /\ p \in Paths \ changed
        /\ sense \/ sensing => (p \in ctl'.vi <=> p \in vi) /\ (p \in ctl.vi <=> p \in vi)
        /\ softUsers'[p] = IF p \in ps THEN Uses(p) ELSE 0
        /\ \A n \in Stage : On(rm', p, n) <=> Powered(p, n, ps, sense, vi)
    BY DEF Answered
  <1>2. Uses(p)' = Uses(p) /\ Full(p)' = Full(p)
    BY DEF Uses, Full
  <1>3. ASSUME NEW n \in Stage
        PROVE  On(rm', p, n) <=> Wanted(p, n)'
    <2>1. Wanted(p, n)' <=> (p \in ps /\ n \in Full(p)) \/ (sense /\ p \in vi /\ n = "vi")
      BY <1>1, <1>2 DEF Wanted
    <2>2. On(rm', p, n) <=> Powered(p, n, ps, sense, vi)
      BY <1>1
    <2>3. On(rm, p, n) <=> (p \in powered /\ n \in Full(p)) \/ (sensing /\ p \in vi /\ n = "vi")
      BY <1>1 DEF Whole, Wanted
    <2>4. n = "vi" => n \notin Full(p)
      BY DEF Full
    <2> QED BY <2>1, <2>2, <2>3, <2>4 DEF Powered
  <1> QED BY <1>1, <1>2, <1>3

\* A stream starts or stops: the paths and sensors that play are as wanted.
LEMMA StreamEventKeeps ==
  ASSUME BusInv, NEW streams \in SUBSET Streams, StreamEvent(streams),
         UNCHANGED vars, UNCHANGED masterVars, rpm = "active", mpm = "active"
  PROVE  BusInv'
  <1>1. /\ CodecTyped /\ ClockTyped /\ LinkTyped /\ CallTyped /\ Mapped /\ Users
        /\ Opened /\ Calling /\ Routes /\ Reported /\ Heard /\ Whole
    BY DEF BusInv
  <1>2. /\ playing' = streams
        /\ UNCHANGED <<rpm, keeps, hclk, ctl, port, ch, puts, changed, mpm, irq, dead, blind>>
    BY DEF StreamEvent, masterVars
  <1> DEFINE ps == Routed(streams, port)
             sense == Sensed(streams, ctl.vi)
             vi == ctl.vi
  <1>3. Power(ps, sense, vi) /\ ps \in SUBSET Paths /\ sense \in BOOLEAN /\ vi \in SUBSET Paths
    BY <1>1 DEF StreamEvent, Routed, Sensed, CodecTyped, ControlType
  <1>4. powered' = Routed(playing', port') /\ sensing' = Sensed(playing', ctl'.vi)
    BY <1>2, <1>3 DEF Power
  <1> HIDE DEF ps, sense, vi
  <1>5. /\ ClockTyped' /\ Mapped' /\ Heard' /\ Users'
        /\ powered' = ps /\ sensing' = sense /\ softUsers' \in [Paths -> Int]
        /\ Answered(ps, sense, vi)
    <2>1. Asked(ps, sense, vi)
      BY <1>2, <1>3 DEF Asked
    <2> QED BY <1>3, <2>1, PowerKeeps
  <1>6. Whole'
    BY <1>1, <1>2, <1>3, <1>5, WholeAfter DEF CodecTyped, vi
  <1>7. CodecTyped' /\ Routes'
    BY <1>1, <1>2, <1>3, <1>4, <1>5 DEF CodecTyped, Routes
  <1>8. CallTyped' /\ Calling' /\ be' = be
    BY <1>1, CallsSame
  <1>9. LinkTyped' /\ Reported'
    BY <1>1, LinkKeeps DEF masterVars, Link
  <1>10. Opened'
    BY <1>2 DEF Opened
  <1> QED BY <1>5, <1>6, <1>7, <1>8, <1>9, <1>10 DEF BusInv

LEMMA DapmKeeps ==
  ASSUME BusInv, NEW s \in Streams, DapmStart(s) \/ DapmStop(s)
  PROVE  BusInv'
  <1>1. /\ CodecTyped /\ Opened /\ Calling
    BY DEF BusInv
  <1>2. UNCHANGED vars /\ UNCHANGED masterVars
    BY DEF DapmStart, DapmStop
  <1>3. CASE DapmStart(s)
    <2>1. rpm = "active" /\ mpm = "active"
      BY <1>1, <1>3 DEF DapmStart, Calling, Opened
    <2>2. playing \cup {s} \in SUBSET Streams
      BY <1>1 DEF CodecTyped
    <2> DEFINE streams == playing \cup {s}
    <2>3. StreamEvent(streams) /\ streams \in SUBSET Streams
      BY <1>3, <2>2 DEF DapmStart
    <2> HIDE DEF streams
    <2> QED BY <1>2, <2>1, <2>3, StreamEventKeeps
  <1>4. CASE DapmStop(s)
    <2>1. rpm = "active" /\ mpm = "active"
      BY <1>1, <1>4 DEF DapmStop, Opened
    <2> DEFINE streams == playing \ {s}
    <2>2. StreamEvent(streams) /\ streams \in SUBSET Streams
      BY <1>1, <1>4 DEF DapmStop, CodecTyped
    <2> HIDE DEF streams
    <2> QED BY <1>2, <2>1, <2>2, StreamEventKeeps
  <1> QED BY <1>3, <1>4

\* A control is the macro's alone.
LEMMA Aside ==
  ASSUME BusInv, UNCHANGED vars, UNCHANGED masterVars, UNCHANGED <<rpm, playing>>
  PROVE  CallTyped' /\ Calling' /\ LinkTyped' /\ Reported' /\ Opened'
  <1>1. LinkTyped /\ CallTyped /\ Opened /\ Calling /\ Reported
    BY DEF BusInv
  <1>2. CallTyped' /\ Calling' /\ be' = be /\ mpm' = mpm
    BY <1>1, CallsSame DEF masterVars
  <1>3. LinkTyped' /\ Reported'
    BY <1>1, LinkKeeps DEF masterVars, Link
  <1> QED BY <1>1, <1>2, <1>3 DEF Opened

\* A switch: of the path it is about, if that has power, nothing is said after.
LEMMA PutSwitchKeeps ==
  ASSUME BusInv, NEW p \in Paths, PutSwitch(p), UNCHANGED vars, UNCHANGED masterVars
  PROVE  BusInv'
  <1>1. /\ CodecTyped /\ ClockTyped /\ Mapped /\ Users /\ Routes /\ Heard /\ Whole
    BY DEF BusInv
  <1>2. /\ UNCHANGED <<rpm, rm, keeps, mclkUsers, hclk, port, ch, playing, powered, sensing, softUsers>>
        /\ UNCHANGED <<mpm, irq, dead, blind>>
        /\ Taint(p, p \in powered)
    BY DEF PutSwitch, masterVars
  <1>3. /\ ctl' \in ControlType /\ ctl'.vi = ctl.vi
        /\ \A q \in Paths : q # p =>
             /\ q \in ctl'.comp <=> q \in ctl.comp
             /\ q \in ctl'.soft <=> q \in ctl.soft
    <2>1. /\ ctl \in ControlType
          /\ Toggle(ctl.comp, p) \in SUBSET Paths /\ Toggle(ctl.soft, p) \in SUBSET Paths
          /\ \A q \in Paths : q # p =>
               /\ q \in Toggle(ctl.comp, p) <=> q \in ctl.comp
               /\ q \in Toggle(ctl.soft, p) <=> q \in ctl.soft
      BY <1>1 DEF Toggle, CodecTyped, ControlType
    <2>2. CASE ctl' = [ctl EXCEPT !.comp = Toggle(@, p)]
      <3>1. /\ ctl' \in ControlType /\ ctl'.vi = ctl.vi /\ ctl'.soft = ctl.soft
            /\ ctl'.comp = Toggle(ctl.comp, p)
        BY <2>1, <2>2 DEF ControlType
      <3> QED BY <2>1, <3>1
    <2>3. CASE ctl' = [ctl EXCEPT !.soft = Toggle(@, p)]
      <3>1. /\ ctl' \in ControlType /\ ctl'.vi = ctl.vi /\ ctl'.comp = ctl.comp
            /\ ctl'.soft = Toggle(ctl.soft, p)
        BY <2>1, <2>3 DEF ControlType
      <3> QED BY <2>1, <3>1
    <2>4. CASE ctl' = [ctl EXCEPT !.ear = ~@]
      BY <2>1, <2>4 DEF ControlType
    <2> QED BY <2>2, <2>3, <2>4 DEF PutSwitch
  <1>4. /\ changed' \in SUBSET Paths /\ changed \subseteq changed'
        /\ p \in powered => p \in changed'
    BY <1>1, <1>2 DEF Taint, CodecTyped
  <1>5. CodecTyped' /\ ClockTyped' /\ Routes'
    BY <1>1, <1>2, <1>3, <1>4 DEF CodecTyped, ClockTyped, Routes, Routed, Sensed
  <1>6. Mapped' /\ Heard' /\ Users'
    BY <1>1, <1>2 DEF Mapped, Heard, Agrees, Volatile, Top, Users, InUse
  <1>7. Whole'
    <2> SUFFICES ASSUME NEW q \in Paths \ changed'
                 PROVE  /\ softUsers'[q] = IF q \in powered' THEN Uses(q)' ELSE 0
                        /\ \A n \in Stage : On(rm', q, n) <=> Wanted(q, n)'
      BY DEF Whole, On
    <2>1. q \in Paths \ changed /\ (q = p => p \notin powered)
      BY <1>4
    <2>2. q \in powered => (q \in ctl'.comp <=> q \in ctl.comp) /\ (q \in ctl'.soft <=> q \in ctl.soft)
      BY <1>3, <2>1
    <2>3. q \in powered => Uses(q)' = Uses(q)
      BY <2>2 DEF Uses
    <2>4. q \in powered => Full(q)' = Full(q)
      BY <2>2 DEF Full
    <2>5. ASSUME NEW n \in Stage
          PROVE  Wanted(q, n)' <=> Wanted(q, n)
      BY <1>2, <1>3, <2>4 DEF Wanted
    <2> QED BY <1>1, <1>2, <2>1, <2>3, <2>5 DEF Whole
  <1>8. CallTyped' /\ Calling' /\ LinkTyped' /\ Reported' /\ Opened'
    BY <1>2, Aside
  <1> QED BY <1>5, <1>6, <1>7, <1>8 DEF BusInv

\* Volume and mute are no stages.
LEMMA PutRegisterKeeps ==
  ASSUME BusInv, NEW p \in Paths, PutRegister(p), UNCHANGED vars, UNCHANGED masterVars
  PROVE  BusInv'
  <1>1. /\ CodecTyped /\ ClockTyped /\ Mapped /\ Users /\ Routes /\ Heard /\ Whole
    BY DEF BusInv
  <1>2. /\ UNCHANGED <<rpm, keeps, mclkUsers, hclk, ctl, port, ch, playing, powered,
                       sensing, softUsers, changed>>
        /\ UNCHANGED <<mpm, irq, dead, blind>>
    BY DEF PutRegister, masterVars
  <1>3. rm \in Map
    BY <1>1 DEF ClockTyped
  <1>4. PICK name \in {"vol", "mute"} :
          \/ rm' = Update(rm, {<<p, name>>}, {})
          \/ rm' = Update(rm, {}, Of({p}, name) \cup (IF name = "vol" THEN Of({p}, "ear") ELSE {}))
    BY DEF PutRegister
  <1>5. Beside(rm, rm')
    <2>1. ASSUME NEW on \in SUBSET Regs, NEW off \in SUBSET Regs, rm' = Update(rm, on, off),
                 \A q \in Paths, n \in Stage : <<q, n>> \notin on /\ <<q, n>> \notin off
          PROVE  Beside(rm, rm')
      <3>1. Written(rm, rm')
        BY <1>3, <2>1, UpdateWrites
      <3>2. \A q \in Paths, n \in Stage :
              On(rm', q, n) <=> (On(rm, q, n) \/ <<q, n>> \in on) /\ <<q, n>> \notin off
        BY <1>3, <2>1, UpdateStages, ZenonT(30)
      <3> QED BY <2>1, <3>1, <3>2 DEF Beside, Written
    <2>2. {} \in SUBSET Regs
      OBVIOUS
    <2>3. CASE rm' = Update(rm, {<<p, name>>}, {})
      <3> DEFINE on == {<<p, name>>}
      <3>1. on \in SUBSET Regs /\ \A q \in Paths, n \in Stage : <<q, n>> \notin on
        BY DEF Regs, Name, Stage
      <3>2. rm' = Update(rm, on, {})
        BY <2>3
      <3> HIDE DEF on
      <3> QED BY <2>1, <2>2, <3>1, <3>2
    <2>4. CASE rm' = Update(rm, {}, Of({p}, name) \cup (IF name = "vol" THEN Of({p}, "ear") ELSE {}))
      <3> DEFINE off == Of({p}, name) \cup (IF name = "vol" THEN Of({p}, "ear") ELSE {})
      <3>1. off \in SUBSET Regs /\ \A q \in Paths, n \in Stage : <<q, n>> \notin off
        BY DEF Of, Regs, Name, Stage
      <3>2. rm' = Update(rm, {}, off)
        BY <2>4
      <3> HIDE DEF off
      <3> QED BY <2>1, <2>2, <3>1, <3>2
    <2> QED BY <1>4, <2>3, <2>4
  <1>6. rm' \in Map /\ Mapped' /\ Heard'
    BY <1>1, <1>2, <1>5, WritesKeep DEF Beside
  <1>8. Whole'
    <2> SUFFICES ASSUME NEW q \in Paths \ changed'
                 PROVE  /\ softUsers'[q] = IF q \in powered' THEN Uses(q)' ELSE 0
                        /\ \A n \in Stage : On(rm', q, n) <=> Wanted(q, n)'
      BY DEF Whole, On
    <2>1. Uses(q)' = Uses(q) /\ \A n : Wanted(q, n)' <=> Wanted(q, n)
      BY <1>2 DEF Uses, Wanted, Full
    <2> QED BY <1>1, <1>2, <1>5, <2>1 DEF Whole, Beside
  <1>9. CodecTyped' /\ ClockTyped' /\ Routes' /\ Users'
    BY <1>1, <1>2, <1>6 DEF CodecTyped, ClockTyped, Routes, Routed, Sensed, Users, InUse, PutRegister
  <1>10. CallTyped' /\ Calling' /\ LinkTyped' /\ Reported' /\ Opened'
    BY <1>2, Aside
  <1> QED BY <1>6, <1>8, <1>9, <1>10 DEF BusInv

LEMMA RxMuxKeeps ==
  ASSUME BusInv, NEW p \in Paths, NEW value \in 0..2, wsa_macro_rx_mux_put(p, value),
         UNCHANGED vars, UNCHANGED masterVars
  PROVE  BusInv'
  <1>1. /\ CodecTyped /\ ClockTyped /\ Mapped /\ Users /\ Routes /\ Heard /\ Whole
    BY DEF BusInv
  <1>2. /\ UNCHANGED <<rpm, keeps, hclk, ctl, playing, changed, mpm, irq, dead, blind>>
        /\ port' = [port EXCEPT ![p] = value]
    BY DEF wsa_macro_rx_mux_put, masterVars
  <1>3. port' \in [Paths -> 0..2] /\ port[p] \in 0..2
    BY <1>1, <1>2 DEF CodecTyped
  <1>4. ch' \in [mask : [1..2 -> SUBSET Paths], cnt : [1..2 -> Int]]
    <2>1. ch \in [mask : [1..2 -> SUBSET Paths], cnt : [1..2 -> Int]]
      BY <1>1 DEF CodecTyped
    <2>2. CASE value # 0
      <3>1. ch' = [ch EXCEPT !.mask = [ch.mask EXCEPT ![value] = ch.mask[value] \cup {p}],
                             !.cnt = [ch.cnt EXCEPT ![value] = ch.cnt[value] + 1]]
        BY <2>2 DEF wsa_macro_rx_mux_put
      <3>2. value \in 1..2
        BY <2>2
      <3>3. /\ [ch.mask EXCEPT ![value] = ch.mask[value] \cup {p}] \in [1..2 -> SUBSET Paths]
            /\ [ch.cnt EXCEPT ![value] = ch.cnt[value] + 1] \in [1..2 -> Int]
        BY <2>1, <3>2
      <3> QED BY <2>1, <3>1, <3>3
    <2>3. CASE value = 0
      <3> DEFINE old == port[p]
      <3>1. \/ ch' = ch
            \/ ch' = [ch EXCEPT !.mask = [ch.mask EXCEPT ![old] = ch.mask[old] \ {p}],
                                !.cnt = [ch.cnt EXCEPT ![old] = ch.cnt[old] - 1]]
        BY <2>3 DEF wsa_macro_rx_mux_put
      <3>2. old \in 1..2
        BY <1>3, <2>3 DEF wsa_macro_rx_mux_put
      <3> HIDE DEF old
      <3>3. /\ [ch.mask EXCEPT ![old] = ch.mask[old] \ {p}] \in [1..2 -> SUBSET Paths]
            /\ [ch.cnt EXCEPT ![old] = ch.cnt[old] - 1] \in [1..2 -> Int]
        BY <2>1, <3>2
      <3> QED BY <2>1, <3>1, <3>3
    <2> QED BY <2>2, <2>3
  <1> DEFINE ps == Routed(playing, port')
             vi == ctl.vi
  <1>5. /\ Power(ps, sensing, vi) /\ ps \in SUBSET Paths /\ vi \in SUBSET Paths
        /\ sensing \in BOOLEAN
        /\ ps # {} \/ sensing => playing # {}
    <2>1. Power(ps, sensing, vi)
      BY <1>2 DEF wsa_macro_rx_mux_put
    <2>2. ps \in SUBSET Paths /\ vi \in SUBSET Paths /\ sensing \in BOOLEAN
      BY <1>1 DEF Routed, CodecTyped, ControlType
    <2>3. ps # {} => playing # {}
      BY DEF Routed
    <2>4. sensing => playing # {}
      BY <1>1 DEF Routes, Sensed
    <2> QED BY <2>1, <2>2, <2>3, <2>4
  <1>6. powered' = Routed(playing', port') /\ sensing' = Sensed(playing', ctl'.vi)
    BY <1>1, <1>2, <1>5 DEF Power, Routes
  <1> DEFINE sense == sensing
  <1>7. /\ Power(ps, sense, vi) /\ sense \in BOOLEAN
        /\ playing # {} \/ (rpm = "active" /\ mpm = "active") \/ ~(ps # {} \/ sense)
    BY <1>5
  <1> HIDE DEF ps, vi, sense
  <1>8. /\ ClockTyped' /\ Mapped' /\ Heard' /\ Users'
        /\ powered' = ps /\ sensing' = sense /\ softUsers' \in [Paths -> Int]
        /\ Answered(ps, sense, vi)
    <2>1. Asked(ps, sense, vi)
      BY <1>2, <1>7 DEF Asked
    <2> QED BY <1>5, <1>7, <2>1, PowerKeeps
  <1>9. Whole'
    BY <1>1, <1>2, <1>5, <1>7, <1>8, WholeAfter DEF CodecTyped, vi
  <1>10. CodecTyped' /\ Routes'
    BY <1>1, <1>2, <1>3, <1>4, <1>5, <1>6, <1>7, <1>8 DEF CodecTyped, Routes
  <1>11. CallTyped' /\ Calling' /\ LinkTyped' /\ Reported' /\ Opened'
    BY <1>2, Aside
  <1> QED BY <1>8, <1>9, <1>10, <1>11 DEF BusInv

\* The VI mixer: of the path it is about, if any is sensed, nothing is said after.
LEMMA ViMixerKeeps ==
  ASSUME BusInv, NEW p \in Paths, wsa_macro_vi_feed_mixer_put(p),
         UNCHANGED vars, UNCHANGED masterVars
  PROVE  BusInv'
  <1>1. /\ CodecTyped /\ ClockTyped /\ Mapped /\ Users /\ Routes /\ Heard /\ Whole
    BY DEF BusInv
  <1> DEFINE vi == Toggle(ctl.vi, p)
             sense == Sensed(playing, vi)
             ps == powered
  <1>2. /\ UNCHANGED <<rpm, keeps, hclk, port, ch, playing, mpm, irq, dead, blind>>
        /\ ctl' = [ctl EXCEPT !.vi = vi] /\ Power(ps, sense, vi)
        /\ Taint(p, sensing \/ "vi" \in playing)
    BY DEF wsa_macro_vi_feed_mixer_put, masterVars
  <1>3. /\ vi \in SUBSET Paths /\ sense \in BOOLEAN /\ ctl \in ControlType
        /\ sensing \in BOOLEAN /\ ps \in SUBSET Paths
        /\ \A q \in Paths : q # p => (q \in vi <=> q \in ctl.vi)
    BY <1>1 DEF Toggle, Sensed, CodecTyped, ControlType
  <1>4. playing # {} \/ (rpm = "active" /\ mpm = "active") \/ ~(ps # {} \/ sense)
    BY <1>1 DEF Routes, Routed, Sensed
  <1>5. sense => "vi" \in playing
    BY DEF Sensed
  <1>6. powered' = ps /\ ps = Routed(playing, port) /\ sensing' = Sensed(playing', vi)
    BY <1>1, <1>2 DEF Power, Routes
  <1> HIDE DEF vi, sense, ps
  <1>7. /\ ctl' \in ControlType /\ ctl'.vi = vi /\ ctl'.comp = ctl.comp /\ ctl'.soft = ctl.soft
    BY <1>2, <1>3 DEF ControlType
  <1>8. /\ changed' \in SUBSET Paths /\ changed \subseteq changed'
        /\ sensing \/ sense => p \in changed'
    BY <1>1, <1>2, <1>5 DEF Taint, CodecTyped
  <1>9. /\ ClockTyped' /\ Mapped' /\ Heard' /\ Users'
        /\ powered' = ps /\ sensing' = sense /\ softUsers' \in [Paths -> Int]
        /\ Answered(ps, sense, vi)
    <2>1. Asked(ps, sense, vi)
      BY <1>2, <1>4 DEF Asked
    <2> QED BY <1>3, <2>1, PowerKeeps
  <1>10. \A q \in Paths \ changed' : sense \/ sensing =>
             (q \in ctl'.vi <=> q \in vi) /\ (q \in ctl.vi <=> q \in vi)
    BY <1>3, <1>7, <1>8
  <1>11. Whole'
    BY <1>1, <1>3, <1>7, <1>8, <1>9, <1>10, WholeAfter
  <1>12. CodecTyped' /\ Routes'
    BY <1>1, <1>2, <1>3, <1>6, <1>7, <1>8, <1>9 DEF CodecTyped, Routes
  <1>13. CallTyped' /\ Calling' /\ LinkTyped' /\ Reported' /\ Opened'
    BY <1>2, Aside
  <1> QED BY <1>9, <1>11, <1>12, <1>13 DEF BusInv

LEMMA BusControlKeeps ==
  ASSUME BusInv, BusControl
  PROVE  BusInv'
  <1>1. UNCHANGED vars /\ UNCHANGED masterVars
    BY DEF BusControl
  <1>2. PICK p \in Paths :
          \/ PutSwitch(p) \/ PutRegister(p)
          \/ \E value \in 0..2 : wsa_macro_rx_mux_put(p, value)
          \/ wsa_macro_vi_feed_mixer_put(p)
    BY DEF BusControl, Control
  <1> QED BY <1>1, <1>2, PutSwitchKeeps, PutRegisterKeeps, RxMuxKeeps, ViMixerKeeps

-----------------------------------------------------------------------------
\* Runtime PM

LEMMA MasterSleepsKeeps ==
  ASSUME BusInv, MasterSleeps
  PROVE  BusInv'
  <1>1. /\ CodecTyped /\ ClockTyped /\ LinkTyped /\ CallTyped /\ Mapped /\ Users
        /\ Opened /\ Calling /\ Routes /\ Reported /\ Heard /\ Whole
    BY DEF BusInv
  <1>2. /\ UNCHANGED vars /\ UNCHANGED Codec /\ keeps' = keeps /\ playing' = {}
        /\ \A s \in Streams : be[s] = "closed"
    BY DEF MasterSleeps, AllClosed, Codec
  <1>3. UNCHANGED Link /\ dead' \in {dead, TRUE} /\ irq' = irq /\ mpm = "active"
    BY DEF MasterSleeps, swrm_runtime_suspend, swrm_runtime_suspend_fails, Link
  <1>4. CallTyped' /\ Calling' /\ LinkTyped' /\ Reported' /\ Opened'
    BY <1>1, <1>2, <1>3, CallsSame, LinkKeeps DEF Opened
  <1>5. mclkUsers = (IF hclk = 0 THEN 0 ELSE 1) + (IF InUse THEN 1 ELSE 0)
    BY <1>1 DEF Users
  <1>6. CASE swrm_runtime_suspend
    <2>1. mpm' = "suspended" /\ blind' = (blind \/ hclk = 0) /\ HclkPut /\ dead' = dead
      BY <1>6 DEF swrm_runtime_suspend
    <2>2. CASE rpm = "error"
      <3>1. hclk = 0 /\ dead
        BY <1>1, <2>2 DEF Users, ClockTyped
      <3>2. UNCHANGED <<rm, rpm, mclkUsers>> /\ hclk' = 0
        BY <2>1, <3>1 DEF HclkPut
      <3>3. Mapped' /\ Heard'
        BY <1>1, <1>2, <2>2, <3>2 DEF Mapped, Heard
      <3>4. CodecTyped' /\ Routes' /\ Whole' /\ (InUse' <=> InUse)
        BY <1>1, <1>2, <3>2, CodecKeeps
      <3>5. ClockTyped' /\ Users'
        BY <1>1, <2>1, <2>2, <3>1, <3>2, <3>4 DEF ClockTyped, Users
      <3> QED BY <1>4, <3>3, <3>4, <3>5 DEF BusInv
    <2>3. CASE rpm # "error"
      <3>1. /\ hclk = 1 + (IF irq = "idle" THEN 0 ELSE 1)
            /\ rpm = "active"
        BY <1>1, <1>3, <2>3 DEF Users
      <3>2. hclk > 0
        BY <3>1
      <3>3. /\ rm' \in Map /\ Mapped' /\ Heard'
            /\ \A p \in Paths, n \in Stage : On(rm', p, n) <=> On(rm, p, n)
            /\ rpm' = "active" /\ hclk' = hclk - 1
            /\ mclkUsers' = mclkUsers - (IF hclk = 1 THEN 1 ELSE 0)
        BY <1>1, <1>2, <2>1, <3>1, <3>2, PutRuns
      <3>4. CodecTyped' /\ Routes' /\ Whole' /\ (InUse' <=> InUse)
        BY <1>1, <1>2, <3>3, CodecKeeps
      <3>5. hclk' = (IF irq = "idle" THEN 0 ELSE 1) /\ hclk' \in Nat
        BY <3>1, <3>3
      <3>6. mclkUsers' = (IF hclk' = 0 THEN 0 ELSE 1) + (IF InUse THEN 1 ELSE 0)
        BY <1>5, <3>1, <3>3, <3>5
      <3>7. blind' = blind
        BY <1>1, <2>1, <3>2 DEF ClockTyped
      <3>8. ClockTyped' /\ Users'
        BY <1>1, <1>3, <2>1, <3>3, <3>4, <3>5, <3>6, <3>7 DEF ClockTyped, Users
      <3> QED BY <1>4, <3>3, <3>4, <3>8 DEF BusInv
    <2> QED BY <2>2, <2>3
  <1>7. CASE swrm_runtime_suspend_fails
    <2>1. /\ mpm' = "error" /\ dead' = TRUE /\ blind' = (blind \/ hclk = 0)
          /\ UNCHANGED <<rpm, hclk, rm, mclkUsers>>
      BY <1>7 DEF swrm_runtime_suspend_fails
    <2>2. CodecTyped' /\ Routes' /\ Whole' /\ (InUse' <=> InUse)
      BY <1>1, <1>2, <2>1, CodecKeeps
    <2>3. Mapped' /\ Heard'
      BY <1>1, <1>2, <2>1 DEF Mapped, Heard, Agrees, Volatile, Top
    <2>4. ClockTyped' /\ Users'
      BY <1>1, <1>3, <2>1, <2>2 DEF ClockTyped, Users
    <2> QED BY <1>4, <2>2, <2>3, <2>4 DEF BusInv
  <1> QED BY <1>6, <1>7 DEF MasterSleeps

\* The macro's clocks stop when nobody has them.
LEMMA MacroSleepsKeeps ==
  ASSUME BusInv, MacroSleeps
  PROVE  BusInv'
  <1>1. /\ CodecTyped /\ ClockTyped /\ LinkTyped /\ CallTyped /\ Mapped /\ Users
        /\ Opened /\ Calling /\ Routes /\ Reported /\ Heard /\ Whole
    BY DEF BusInv
  <1>2. /\ UNCHANGED vars /\ UNCHANGED Codec /\ keeps' = keeps /\ playing' = playing
        /\ UNCHANGED Link /\ UNCHANGED <<mclkUsers, hclk, mpm, dead, blind, irq>>
    BY DEF MacroSleeps, Suspend_CacheOnly, Suspend_Clocks, Codec, Link, masterVars
  <1>3. CallTyped' /\ Calling' /\ LinkTyped' /\ Reported' /\ be' = be
    BY <1>1, <1>2, CallsSame, LinkKeeps
  <1>4. rpm \in {"active", "suspending"} /\ rpm' \in {"suspending", "suspended"} /\ hclk = 0
    BY <1>1 DEF MacroSleeps, Suspend_CacheOnly, Suspend_Clocks, Users, ClockTyped
  <1>5. mpm = "suspended"
    BY <1>1, <1>4 DEF Users, ClockTyped
  <1>6. Opened'
    BY <1>1, <1>2, <1>3, <1>5 DEF Opened
  <1>7. rm' \in Map /\ rm'.cache = rm.cache /\ Mapped' /\ Heard'
    <2>1. rm \in Map /\ ~rm.stray
      BY <1>1 DEF ClockTyped, Mapped
    <2>2. CASE Suspend_CacheOnly
      <3>1. rm' = [rm EXCEPT !.only = TRUE, !.dirty = TRUE, !.defaults = TRUE]
        BY <2>1, <2>2 DEF Suspend_CacheOnly, MarkDirty, Map
      <3>2. rpm = "active" /\ rpm' = "suspending"
        BY <2>2 DEF Suspend_CacheOnly
      <3>3. /\ rm' \in Map /\ rm'.cache = rm.cache /\ rm'.only = TRUE /\ rm'.clk = rm.clk
            /\ rm'.dirty /\ rm'.defaults /\ rm'.stray = rm.stray
        BY <2>1, <3>1 DEF Map
      <3> QED BY <1>1, <2>1, <3>2, <3>3 DEF Mapped, Heard
    <2>3. CASE Suspend_Clocks
      <3>1. rm' = [rm EXCEPT !.clk = FALSE, !.chip = IF keeps THEN rm.chip ELSE {}]
        BY <2>3 DEF Suspend_Clocks, Unclock
      <3>2. rpm = "suspending" /\ rpm' = "suspended"
        BY <2>3 DEF Suspend_Clocks
      <3>3. /\ rm' \in Map /\ rm'.cache = rm.cache /\ rm'.only = rm.only /\ rm'.clk = FALSE
            /\ rm'.dirty = rm.dirty /\ rm'.defaults = rm.defaults /\ rm'.stray = rm.stray
            /\ ~keeps => rm'.chip = {}
        BY <2>1, <3>1 DEF Map
      <3>4. rm.only = TRUE /\ rm.dirty /\ rm.defaults
        BY <1>1, <3>2 DEF Mapped
      <3>5. Mapped'
        <4>1. (rpm' # "active") = TRUE /\ (rpm' \in {"active", "suspending"}) = FALSE
          BY <3>2
        <4> QED BY <2>1, <3>3, <3>4, <4>1, Zenon DEF Mapped
      <3>6. Heard'
        BY <1>2, <3>2, <3>3 DEF Heard
      <3> QED BY <3>3, <3>5, <3>6
    <2> QED BY <2>2, <2>3 DEF MacroSleeps
  <1>8. CodecTyped' /\ Routes' /\ Whole' /\ (InUse' <=> InUse)
    BY <1>1, <1>2, <1>7, CodecKeeps DEF On
  <1>9. ClockTyped' /\ Users'
    BY <1>1, <1>2, <1>4, <1>7, <1>8 DEF ClockTyped, Users
  <1> QED BY <1>3, <1>6, <1>7, <1>8, <1>9 DEF BusInv

-----------------------------------------------------------------------------
\* The interrupt thread

LEMMA BusLinkKeeps ==
  ASSUME BusInv, BusLink
  PROVE  BusInv'
  <1>1. /\ CodecTyped /\ ClockTyped /\ LinkTyped /\ CallTyped /\ Mapped /\ Users
        /\ Opened /\ Calling /\ Routes /\ Reported /\ Heard /\ Whole
    BY DEF BusInv
  <1>2. /\ UNCHANGED vars /\ UNCHANGED macroVars /\ UNCHANGED <<mpm, irq, seen, status, told, dead, blind>>
        /\ latch' = TRUE /\ raced' = (raced \/ irq \in {"tell", "clear"})
    BY DEF BusLink, LinkChanges
  <1>3. UNCHANGED Codec /\ UNCHANGED <<rpm, rm, mclkUsers, hclk, keeps, playing>>
    BY <1>2 DEF macroVars, Codec
  <1>4. CallTyped' /\ Calling' /\ be' = be
    BY <1>1, <1>2, CallsSame
  <1>5. CodecTyped' /\ Routes' /\ Whole' /\ (InUse' <=> InUse)
    BY <1>1, <1>3, CodecKeeps
  <1>6. LinkTyped' /\ Reported'
    BY <1>1, <1>2 DEF LinkTyped, Reported
  <1>7. ClockTyped' /\ Users' /\ Opened'
    BY <1>1, <1>2, <1>3, <1>4, <1>5 DEF ClockTyped, Users, Opened
  <1>8. Mapped' /\ Heard'
    BY <1>1, <1>3 DEF Mapped, Heard, Agrees, Volatile, Top
  <1> QED BY <1>4, <1>5, <1>6, <1>7, <1>8 DEF BusInv

\* The thread's steps between taking the clock and giving it back.
LEMMA ThreadKeeps ==
  ASSUME BusInv, UNCHANGED vars, UNCHANGED Codec, Thread, irq # "idle", irq' # "idle",
         LinkTyped', Reported'
  PROVE  BusInv'
  <1>1. /\ CodecTyped /\ ClockTyped /\ LinkTyped /\ CallTyped /\ Mapped /\ Users
        /\ Opened /\ Calling /\ Routes /\ Heard /\ Whole
    BY DEF BusInv
  <1>2. /\ UNCHANGED <<mpm, rpm, hclk, rm, mclkUsers, dead, keeps, playing>>
        /\ blind' = (blind \/ hclk' = 0)
    BY DEF Thread, Access, Codec
  <1>3. CallTyped' /\ Calling' /\ be' = be
    BY <1>1, CallsSame
  <1>4. CodecTyped' /\ Routes' /\ Whole' /\ (InUse' <=> InUse)
    BY <1>1, <1>2, CodecKeeps
  <1>5. ~dead => hclk # 0
    BY <1>1 DEF Users, ClockTyped
  <1>6. ClockTyped' /\ Users' /\ Opened'
    BY <1>1, <1>2, <1>3, <1>4, <1>5 DEF ClockTyped, Users, Opened
  <1>7. Mapped' /\ Heard'
    BY <1>1, <1>2 DEF Mapped, Heard, Agrees, Volatile, Top
  <1> QED BY <1>3, <1>4, <1>6, <1>7 DEF BusInv

LEMMA EnterKeeps ==
  ASSUME BusInv, UNCHANGED vars, UNCHANGED Codec, irq_enter \/ irq_enter_refused
  PROVE  BusInv'
  <1>1. /\ CodecTyped /\ ClockTyped /\ LinkTyped /\ CallTyped /\ Mapped /\ Users
        /\ Opened /\ Calling /\ Routes /\ Reported /\ Heard /\ Whole
    BY DEF BusInv
  <1>2. /\ irq = "idle" /\ irq' = "sampled"
        /\ UNCHANGED <<mpm, link, latch, seen, status, told, raced>>
        /\ blind' = (blind \/ hclk' = 0) /\ keeps' = keeps /\ playing' = playing
    BY DEF irq_enter, irq_enter_refused, Access, Codec
  <1>3. CallTyped' /\ Calling' /\ be' = be
    BY <1>1, CallsSame
  <1>4. LinkTyped' /\ Reported'
    BY <1>1, <1>2 DEF LinkTyped, Reported
  <1>5. CASE irq_enter
    <2>1. HclkGet /\ dead' = dead
      BY <1>5 DEF irq_enter
    <2>2. hclk > 0 => rpm = "active"
      BY <1>1 DEF Users
    <2>3. /\ rm' \in Map /\ Mapped' /\ Heard'
          /\ \A p \in Paths, n \in Stage : On(rm', p, n) <=> On(rm, p, n)
          /\ rpm' = "active" /\ hclk' = hclk + 1
          /\ mclkUsers' = mclkUsers + (IF hclk = 0 THEN 1 ELSE 0)
      BY <1>1, <1>2, <2>1, <2>2, GetRuns
    <2>4. CodecTyped' /\ Routes' /\ Whole' /\ (InUse' <=> InUse)
      BY <1>1, <2>3, CodecKeeps
    <2>5. hclk = (IF mpm = "suspended" THEN 0 ELSE 1) /\ rpm # "error"
      BY <1>1, <1>2, <2>1, <2>2 DEF HclkGet, Users
    <2>6. hclk' = (IF mpm' = "suspended" THEN 0 ELSE 1) + 1 /\ hclk' \in Nat /\ hclk' # 0
      BY <1>2, <2>3, <2>5
    <2>7. mclkUsers' = 1 + (IF InUse THEN 1 ELSE 0)
      BY <1>1, <2>3, <2>5 DEF Users
    <2>8. blind' = blind
      BY <1>1, <1>2, <2>6 DEF ClockTyped
    <2>9. ClockTyped' /\ Users'
      BY <1>1, <1>2, <2>1, <2>3, <2>4, <2>5, <2>6, <2>7, <2>8 DEF ClockTyped, Users
    <2>10. Opened'
      BY <1>1, <1>2, <1>3, <2>3 DEF Opened
    <2> QED BY <1>3, <1>4, <2>3, <2>4, <2>9, <2>10 DEF BusInv
  <1>6. CASE irq_enter_refused
    <2>1. HclkRefused /\ dead' = TRUE
      BY <1>6 DEF irq_enter_refused
    <2>2. /\ rm' = rm /\ Mapped' /\ Heard'
          /\ rpm' = "error" /\ hclk = 0 /\ hclk' = 0 /\ mclkUsers' = mclkUsers
      BY <1>1, <1>2, <2>1, RefusedKeeps
    <2>3. CodecTyped' /\ Routes' /\ Whole' /\ (InUse' <=> InUse)
      BY <1>1, <2>2, CodecKeeps
    <2>4. ClockTyped' /\ Users'
      BY <1>1, <1>2, <2>1, <2>2, <2>3 DEF ClockTyped, Users
    <2>5. rpm # "active"
      BY <2>1 DEF HclkRefused
    <2>6. Opened'
      BY <1>1, <1>2, <1>3, <2>5 DEF Opened
    <2> QED BY <1>3, <1>4, <2>2, <2>3, <2>4, <2>6 DEF BusInv
  <1> QED BY <1>5, <1>6

LEMMA ReturnKeeps ==
  ASSUME BusInv, UNCHANGED vars, UNCHANGED Codec, irq_return
  PROVE  BusInv'
  <1>1. /\ CodecTyped /\ ClockTyped /\ LinkTyped /\ CallTyped /\ Mapped /\ Users
        /\ Opened /\ Calling /\ Routes /\ Reported /\ Heard /\ Whole
    BY DEF BusInv
  <1>2. /\ irq = "again" /\ irq' = "idle" /\ HclkPut
        /\ UNCHANGED <<mpm, link, latch, seen, status, told, raced, dead>>
        /\ blind' = (blind \/ hclk = 0) /\ keeps' = keeps /\ playing' = playing
    BY DEF irq_return, Codec
  <1>3. CallTyped' /\ Calling' /\ be' = be
    BY <1>1, CallsSame
  <1>4. LinkTyped' /\ Reported'
    BY <1>1, <1>2 DEF LinkTyped, Reported
  <1>5. rpm' = rpm
    BY <1>2 DEF HclkPut
  <1>6. Opened'
    BY <1>1, <1>2, <1>3, <1>5 DEF Opened
  <1>7. CASE rpm = "error"
    <2>1. hclk = 0 /\ dead
      BY <1>1, <1>7 DEF Users, ClockTyped
    <2>2. UNCHANGED <<rm, mclkUsers>> /\ hclk' = 0
      BY <1>2, <2>1 DEF HclkPut
    <2>3. Mapped' /\ Heard'
      BY <1>1, <1>2, <1>5, <1>7, <2>2 DEF Mapped, Heard
    <2>4. CodecTyped' /\ Routes' /\ Whole' /\ (InUse' <=> InUse)
      BY <1>1, <2>2, CodecKeeps
    <2>5. ClockTyped' /\ Users'
      BY <1>1, <1>2, <1>5, <1>7, <2>1, <2>2, <2>4 DEF ClockTyped, Users
    <2> QED BY <1>3, <1>4, <1>6, <2>3, <2>4, <2>5 DEF BusInv
  <1>8. CASE rpm # "error"
    <2>1. hclk = (IF mpm = "suspended" THEN 0 ELSE 1) + 1 /\ hclk > 0 /\ rpm = "active"
      BY <1>1, <1>2, <1>8 DEF Users
    <2>2. /\ rm' \in Map /\ Mapped' /\ Heard'
          /\ \A p \in Paths, n \in Stage : On(rm', p, n) <=> On(rm, p, n)
          /\ rpm' = "active" /\ hclk' = hclk - 1
          /\ mclkUsers' = mclkUsers - (IF hclk = 1 THEN 1 ELSE 0)
      BY <1>1, <1>2, <2>1, PutRuns
    <2>3. CodecTyped' /\ Routes' /\ Whole' /\ (InUse' <=> InUse)
      BY <1>1, <2>2, CodecKeeps
    <2>4. hclk' = (IF mpm' = "suspended" THEN 0 ELSE 1) + 0 /\ hclk' \in Nat
      BY <1>2, <2>1, <2>2
    <2>5. mclkUsers = 1 + (IF InUse THEN 1 ELSE 0)
      BY <1>1, <2>1 DEF Users
    <2>6. mclkUsers' = (IF hclk' = 0 THEN 0 ELSE 1) + (IF InUse THEN 1 ELSE 0)
      BY <1>2, <2>1, <2>2, <2>4, <2>5
    <2>7. blind' = blind
      BY <1>1, <1>2, <2>1 DEF ClockTyped
    <2>8. ClockTyped' /\ Users'
      BY <1>1, <1>2, <2>1, <2>2, <2>3, <2>4, <2>6, <2>7 DEF ClockTyped, Users
    <2> QED BY <1>3, <1>4, <1>6, <2>2, <2>3, <2>8 DEF BusInv
  <1> QED BY <1>7, <1>8

LEMMA BusInterruptKeeps ==
  ASSUME BusInv, BusInterrupt
  PROVE  BusInv'
  <1>1. UNCHANGED vars /\ UNCHANGED Codec /\ Interrupt
    BY DEF BusInterrupt
  <1>2. LinkTyped /\ Reported
    BY DEF BusInv
  <1>3. CASE irq_enter \/ irq_enter_refused
    BY <1>1, <1>3, EnterKeeps
  <1>4. CASE irq_compare
    <2>1. Thread /\ irq # "idle" /\ irq' # "idle"
      BY <1>4 DEF irq_compare
    <2>2. LinkTyped' /\ Reported'
      BY <1>2, <1>4 DEF irq_compare, Thread, LinkTyped, Reported
    <2> QED BY <1>1, <2>1, <2>2, ThreadKeeps
  <1>5. CASE qcom_swrm_get_device_status
    <2>1. Thread /\ irq # "idle" /\ irq' # "idle"
      BY <1>5 DEF qcom_swrm_get_device_status
    <2>2. LinkTyped' /\ Reported'
      BY <1>2, <1>5 DEF qcom_swrm_get_device_status, Thread, LinkTyped, Reported
    <2> QED BY <1>1, <2>1, <2>2, ThreadKeeps
  <1>6. CASE qcom_swrm_enumerate
    <2>1. Thread /\ irq # "idle" /\ irq' # "idle"
      BY <1>6 DEF qcom_swrm_enumerate
    <2>2. LinkTyped' /\ Reported'
      BY <1>2, <1>6 DEF qcom_swrm_enumerate, Thread, LinkTyped, Reported
    <2> QED BY <1>1, <2>1, <2>2, ThreadKeeps
  <1>7. CASE irq_clear
    <2>1. Thread /\ irq # "idle" /\ irq' # "idle"
      BY <1>7 DEF irq_clear
    <2>2. LinkTyped' /\ Reported'
      BY <1>2, <1>7 DEF irq_clear, Thread, LinkTyped, Reported
    <2> QED BY <1>1, <2>1, <2>2, ThreadKeeps
  <1>8. CASE irq_again
    <2>1. Thread /\ irq # "idle" /\ irq' # "idle"
      BY <1>8 DEF irq_again
    <2>2. LinkTyped' /\ Reported'
      BY <1>2, <1>8 DEF irq_again, Thread, LinkTyped, Reported
    <2> QED BY <1>1, <2>1, <2>2, ThreadKeeps
  <1>9. CASE irq_return
    BY <1>1, <1>9, ReturnKeeps
  <1> QED BY <1>1, <1>3, <1>4, <1>5, <1>6, <1>7, <1>8, <1>9 DEF Interrupt

-----------------------------------------------------------------------------
\* The theorems

LEMMA InitHolds ==
  BusInit => BusInv
  <1> SUFFICES ASSUME BusInit PROVE BusInv
    OBVIOUS
  <1>1. Init /\ MacroInit /\ MasterInit
    BY DEF BusInit
  <1>2. CodecTyped
    <2>1. /\ keeps \in BOOLEAN /\ port \in [Paths -> 0..2]
          /\ playing \in SUBSET Streams /\ powered \in SUBSET Paths /\ sensing \in BOOLEAN
          /\ softUsers \in [Paths -> Int] /\ changed \in SUBSET Paths
      <3>1. /\ keeps \in BOOLEAN /\ port = [p \in Paths |-> 1] /\ playing = {} /\ powered = {}
            /\ sensing = FALSE /\ softUsers = [p \in Paths |-> 0] /\ changed = {}
        BY <1>1 DEF MacroInit
      <3>2. [p \in Paths |-> 1] \in [Paths -> 0..2] /\ [p \in Paths |-> 0] \in [Paths -> Int]
        OBVIOUS
      <3> QED BY <3>1, <3>2
    <2>2. ctl \in ControlType
      BY <1>1 DEF MacroInit, ControlType
    <2>3. <<Paths, {}>> \in [1..2 -> SUBSET Paths]
      OBVIOUS
    <2>4. Cardinality(Paths) \in Int
      BY MacroAssumption, FS_CardinalityType
    <2>5. <<Cardinality(Paths), 0>> \in [1..2 -> Int]
      BY <2>4
    <2>6. ch \in [mask : [1..2 -> SUBSET Paths], cnt : [1..2 -> Int]]
      BY <1>1, <2>3, <2>5 DEF MacroInit
    <2> QED BY <2>1, <2>2, <2>6 DEF CodecTyped
  <1>3. rm \in Map
    <2>1. Top("mclk") \cup Top("swr") \in SUBSET Regs
      BY TopRegs
    <2> QED BY <1>1, <2>1 DEF MacroInit, Map
  <1>4. ClockTyped /\ LinkTyped
    <2>1. /\ rpm = "active" /\ mclkUsers = 1 /\ hclk = 1 /\ mpm = "active" /\ dead = FALSE
          /\ blind = FALSE /\ irq = "idle" /\ latch = FALSE /\ raced = FALSE
      BY <1>1 DEF MacroInit, MasterInit
    <2>2. dead \in BOOLEAN /\ blind \in BOOLEAN /\ latch \in BOOLEAN /\ raced \in BOOLEAN
      BY <2>1, Zenon
    <2>3. mclkUsers \in Int /\ hclk \in Nat
      BY <2>1
    <2> QED BY <1>3, <2>1, <2>2, <2>3 DEF ClockTyped, LinkTyped
  <1>5. CallTyped /\ Calling
    BY <1>1 DEF Init, CallTyped, Calling, Phase, Idle
  <1>6. Mapped /\ Heard
    BY <1>1 DEF MacroInit, Mapped, Heard, Agrees
  <1>7. Users
    BY <1>1 DEF MacroInit, MasterInit, Users, InUse
  <1>8. Opened /\ Routes /\ Reported
    BY <1>1 DEF Init, MacroInit, MasterInit, Opened, Routes, Reported, Routed, Sensed
  <1>9. Whole
    <2>1. \A p \in Paths : p \notin powered /\ ~sensing /\ softUsers[p] = 0
      BY <1>1 DEF MacroInit
    <2>2. \A p \in Paths, n \in Stage : ~On(rm, p, n)
      BY <1>1, TopRegs DEF MacroInit, On
    <2> QED BY <2>1, <2>2 DEF Whole, Wanted
  <1> QED BY <1>2, <1>4, <1>5, <1>6, <1>7, <1>8, <1>9 DEF BusInv

LEMMA StutterKeeps ==
  ASSUME BusInv, UNCHANGED busVars
  PROVE  BusInv'
  <1>1. /\ CodecTyped /\ ClockTyped /\ LinkTyped /\ CallTyped /\ Mapped /\ Users
        /\ Opened /\ Calling /\ Routes /\ Reported /\ Heard /\ Whole
    BY DEF BusInv
  <1>2. /\ UNCHANGED vars /\ UNCHANGED Codec /\ UNCHANGED Link
        /\ UNCHANGED <<rpm, rm, mclkUsers, hclk, mpm, irq, dead, blind, keeps, playing>>
    BY DEF busVars, macroVars, masterVars, Codec, Link
  <1>3. CallTyped' /\ Calling' /\ be' = be /\ LinkTyped' /\ Reported'
    BY <1>1, <1>2, CallsSame, LinkKeeps
  <1>4. CodecTyped' /\ Routes' /\ Whole' /\ (InUse' <=> InUse)
    BY <1>1, <1>2, CodecKeeps
  <1>5. ClockTyped' /\ Users' /\ Opened'
    BY <1>1, <1>2, <1>3, <1>4 DEF ClockTyped, Users, Opened
  <1>6. Mapped' /\ Heard'
    BY <1>1, <1>2 DEF Mapped, Heard, Agrees, Volatile, Top
  <1> QED BY <1>3, <1>4, <1>5, <1>6 DEF BusInv

LEMMA StepKeeps ==
  BusInv /\ [BusNext]_busVars => BusInv'
  <1> SUFFICES ASSUME BusInv, BusNext PROVE BusInv'
    BY StutterKeeps
  <1>1. ASSUME NEW s \in Streams,
               Startup(s) \/ StartupRefused(s) \/ HwParams(s) \/ BusCall(s)
        PROVE  BusInv'
    BY <1>1, StartupKeeps, StartupRefusedKeeps, HwParamsKeeps, BusCallKeeps
  <1>2. ASSUME NEW s \in Streams, DapmStart(s) \/ DapmStop(s)
        PROVE  BusInv'
    BY <1>2, DapmKeeps
  <1> QED
    BY <1>1, <1>2, MasterSleepsKeeps, MacroSleepsKeeps, BusControlKeeps, BusLinkKeeps,
       BusInterruptKeeps DEF BusNext

\* The inductive invariant: who holds the clock, what DAPM has powered, what
\* the thread has seen, and what the registers are.
THEOREM BusInvCorrect == BusSpec => []BusInv
  BY InitHolds, StepKeeps, PTL DEF BusSpec

\* Unless a clock was refused or the bus did not stop, no register of the
\* macro or of the master is used without its clock, whoever uses it and
\* whatever runtime PM of the two devices does in between.
THEOREM ClockedCorrect == BusSpec => []Clocked
  <1>1. BusInv => Clocked
    BY DEF BusInv, Mapped, Users, Clocked
  <1> QED BY <1>1, BusInvCorrect, PTL

\* When the interrupt thread has nothing to do, the bus knows which
\* amplifiers are there, unless one came or went between its last look and
\* the clearing of the bit.
THEOREM StatusIsSeenCorrect == BusSpec => []StatusIsSeen
  <1>1. BusInv => StatusIsSeen
    BY DEF BusInv, Reported, StatusIsSeen
  <1> QED BY <1>1, BusInvCorrect, PTL

\* The invariant says of a path's stages what the property says.
LEMMA StagesAreWanted ==
  ASSUME BusInv, NEW p \in Paths \ changed
  PROVE  {r[2] : r \in {x \in rm.cache : x[1] = p}} \ {"vol", "ear", "mute", "rate", "half"}
           = (IF p \in powered
              THEN {"rx", "interp", "vbat", "softclk", "boost"}
                   \cup (IF p \in ctl.comp THEN {"comp"} ELSE {})
                   \cup (IF p \in ctl.soft THEN {"soft"} ELSE {})
              ELSE {})
             \cup (IF sensing /\ p \in ctl.vi THEN {"vi"} ELSE {})
  <1> DEFINE on == {r[2] : r \in {x \in rm.cache : x[1] = p}}
             gains == {"vol", "ear", "mute", "rate", "half"}
             due == (IF p \in powered THEN Full(p) ELSE {})
                    \cup (IF sensing /\ p \in ctl.vi THEN {"vi"} ELSE {})
  <1>1. rm.cache \in SUBSET Regs /\ Whole
    BY DEF BusInv, ClockTyped, Map
  <1>2. ASSUME NEW n PROVE n \in on <=> n \in Name /\ On(rm, p, n)
    <2>1. ASSUME n \in on PROVE n \in Name /\ On(rm, p, n)
      <3>1. PICK r \in rm.cache : r[1] = p /\ r[2] = n
        BY <2>1
      <3>2. r \in Regs
        BY <1>1
      <3>3. r = <<r[1], r[2]>> /\ r[2] \in Name
        BY <3>2 DEF Regs
      <3> QED BY <3>1, <3>3 DEF On
    <2>2. ASSUME n \in Name, On(rm, p, n) PROVE n \in on
      <3>1. <<p, n>> \in rm.cache /\ <<p, n>>[1] = p /\ <<p, n>>[2] = n
        BY <2>2 DEF On
      <3> QED BY <3>1
    <2> QED BY <2>1, <2>2
  <1> HIDE DEF on
  <1>3. ASSUME NEW n PROVE n \in on \ gains <=> n \in due
    <2>1. n \in Stage <=> n \in Name /\ n \notin gains
      BY DEF Stage
    <2>2. n \in due => n \in Stage
      BY DEF Full, Stage, Name
    <2>3. n \in Stage => (On(rm, p, n) <=> Wanted(p, n))
      BY <1>1 DEF Whole
    <2>4. Wanted(p, n) <=> n \in due
      BY DEF Wanted
    <2> HIDE DEF due, gains
    <2> QED BY <1>2, <2>1, <2>2, <2>3, <2>4
  <1>4. on \ gains = due
    <2> HIDE DEF due, gains
    <2> QED BY <1>3
  <1> QED BY <1>4 DEF on, Full

\* While the macro is awake its registers hold what was set, before or
\* during its sleep, and a path whose switches did not move under it has all
\* its stages in power and none out of it, whatever the other path did.
THEOREM MacroIsWholeCorrect == BusSpec => []MacroIsWhole
  <1>1. BusInv => HeardAsSet
    BY DEF BusInv, Heard, Agrees, HeardAsSet
  <1>2. BusInv => PathIsWhole
    BY StagesAreWanted DEF PathIsWhole
  <1>3. BusInv => MacroIsWhole
    BY <1>1, <1>2 DEF MacroIsWhole
  <1> QED BY <1>3, BusInvCorrect, PTL

-----------------------------------------------------------------------------
\* The ports of the streams

\* A stream that has been set up: its runtimes and ports are in place.
SetUp == {"configured", "prepared", "enabled", "disabled", "deprepared"}
States == SetUp \cup {"allocated", "released"}
Side == [par : SUBSET Ends, on : SUBSET Ends]
Writes == [what : {"par", "on", "off"}, end : Ends, bank : Bank]

PlacesTyped ==
  slaves \in [Streams -> SUBSET Amps] /\ list \in Seq(Streams) /\ curr \in Bank
PortsTyped ==
  PlacesTyped /\ st \in [Streams -> States] /\ regs \in [Bank -> Side]

InPlace ==
  \A s \in Streams : st[s] \in SetUp =>
    /\ slaves[s] = Amps /\ s \in mport
    /\ \E i \in 1..Len(list) : list[i] = s

\* A stream that runs is noted as prepared, or about to be taken down.
Noted ==
  \A s \in Streams \ failed : st[s] = "enabled" => prepared[s] \/ Doing(s, "disable")

\* The bank software believes in use is whole.  The hardware need not use it.
Live ==
  \A s \in Streams : st[s] = "enabled" =>
    \A d \in Devices : <<d, s>> \in regs[curr].par /\ <<d, s>> \in regs[curr].on

PortInv == PortsTyped /\ InPlace /\ PreparedIsEnabled /\ Noted /\ Live /\ QuietInBothBanks

\* A set in a sequence: all of it and nothing else.
LEMMA SetInSeq ==
  ASSUME NEW S, IsFiniteSet(S)
  PROVE  /\ SetToSeq(S) \in Seq(S)
         /\ \A x \in S : \E i \in 1..Len(SetToSeq(S)) : SetToSeq(S)[i] = x
  <1> DEFINE n == Cardinality(S)
             f == SetToSeq(S)
  <1>1. n \in Nat /\ ExistsBijection(1..n, S)
    BY FS_CardinalityType
  <1>2. PICK g : g \in Bijection(1..n, S)
    BY <1>1 DEF ExistsBijection
  <1>3. g \in [1..n -> S] /\ IsInjective(g)
    BY <1>2 DEF Bijection, Injection
  <1>4. f \in [1..n -> S] /\ IsInjective(f)
    BY <1>3 DEF SetToSeq
  <1>5. f \in Injection(1..n, S)
    BY <1>4 DEF Injection
  <1>6. Cardinality(1..n) = n
    BY <1>1, FS_Interval
  <1>7. f \in Surjection(1..n, S)
    <2> HIDE DEF f
    <2> QED BY <1>5, <1>6, FS_Injection
  <1>8. f \in Seq(S) /\ Len(f) = n
    <2> HIDE DEF f, n
    <2> QED BY <1>1, <1>4
  <1> QED BY <1>7, <1>8 DEF Surjection

\* The ends of a stream: its amplifiers and, if its port is there, the master.
LEMMA EndsOfStream ==
  ASSUME PlacesTyped, NEW s \in Streams
  PROVE  /\ EndsOf(s) \in Seq(Ends)
         /\ \A i \in 1..Len(EndsOf(s)) : EndsOf(s)[i][2] = s
         /\ \A d \in slaves[s] \cup (IF s \in mport THEN {Swr} ELSE {}) :
              \E i \in 1..Len(EndsOf(s)) : EndsOf(s)[i] = <<d, s>>
  <1> DEFINE amps == SetToSeq(slaves[s])
             own == IF s \in mport THEN <<Swr>> ELSE <<>>
             devs == amps \o own
  <1>1. slaves[s] \in SUBSET Amps /\ IsFiniteSet(slaves[s])
    BY ConstantsAssumption, FS_Subset DEF PlacesTyped
  <1>2. amps \in Seq(slaves[s]) /\ \A x \in slaves[s] : \E i \in 1..Len(amps) : amps[i] = x
    BY <1>1, SetInSeq
  <1>3. amps \in Seq(Devices) /\ own \in Seq(Devices)
    <2>1. slaves[s] \subseteq Devices /\ Swr \in Devices
      BY <1>1 DEF Devices
    <2>2. own \in Seq(Devices)
      BY <2>1
    <2> HIDE DEF amps
    <2> QED BY <1>2, <2>1, <2>2, SeqMonotonic
  <1>4. Len(own) = (IF s \in mport THEN 1 ELSE 0) /\ (s \in mport => own[1] = Swr)
    OBVIOUS
  <1> HIDE DEF amps, own
  <1>5. /\ devs \in Seq(Devices) /\ Len(devs) = Len(amps) + Len(own)
        /\ \A i \in 1..(Len(amps) + Len(own)) :
             devs[i] = IF i <= Len(amps) THEN amps[i] ELSE own[i - Len(amps)]
    BY <1>3, ConcatProperties
  <1>6. ASSUME NEW d \in slaves[s] \cup (IF s \in mport THEN {Swr} ELSE {})
        PROVE  \E i \in 1..Len(devs) : devs[i] = d
    <2>1. Len(amps) \in Nat /\ Len(own) \in Nat
      BY <1>3
    <2>2. CASE d \in slaves[s]
      <3>1. PICK i \in 1..Len(amps) : amps[i] = d
        BY <1>2, <2>2
      <3>2. i \in 1..(Len(amps) + Len(own)) /\ i <= Len(amps)
        BY <2>1
      <3> QED BY <1>5, <3>1, <3>2
    <2>3. CASE s \in mport /\ d = Swr
      <3>1. LET i == Len(amps) + 1
            IN  i \in 1..(Len(amps) + Len(own)) /\ ~(i <= Len(amps)) /\ i - Len(amps) = 1
        BY <1>4, <2>1, <2>3
      <3> QED BY <1>4, <1>5, <2>3, <3>1
    <2> QED BY <2>2, <2>3
  <1>7. EndsOf(s) = [i \in DOMAIN devs |-> <<devs[i], s>>]
    BY DEF EndsOf, devs, amps, own
  <1> HIDE DEF devs
  <1>8. /\ Len(devs) \in Nat /\ DOMAIN devs = 1..Len(devs)
        /\ \A i \in 1..Len(devs) : devs[i] \in Devices
    BY <1>5
  <1>9. EndsOf(s) \in Seq(Ends) /\ Len(EndsOf(s)) = Len(devs)
    <2>1. EndsOf(s) \in [1..Len(devs) -> Ends]
      BY <1>7, <1>8 DEF Ends
    <2> QED BY <1>8, <2>1
  <1>10. \A i \in 1..Len(devs) : EndsOf(s)[i] = <<devs[i], s>>
    BY <1>7, <1>8
  <1> QED BY <1>6, <1>9, <1>10

\* Some write of the set does this.
Does(ws, what, e, bank) == \E w \in ws : w.what = what /\ w.end = e /\ w.bank = bank

LEMMA Applied ==
  ASSUME NEW r, NEW off, NEW par, NEW on
  PROVE  Apply(r, off, par, on)
           = [par |-> r.par \cup par,
              on |-> ((r.on \ off) \ {e \in par : e[1] = Swr}) \cup on]
  <1> DEFINE masters == {e \in par : e[1] = Swr}
  <1>1. (r.par \cup masters) \cup (par \ masters) = r.par \cup par
    OBVIOUS
  <1> QED BY <1>1 DEF Apply, port_enable, qcom_swrm_transport_params,
              sdw_program_slave_port_params

\* What writes leave in a bank.
LEMMA AfterWrites ==
  ASSUME NEW ws \in SUBSET Writes, NEW b \in Bank, regs \in [Bank -> Side]
  PROVE  /\ After(regs, ws) \in [Bank -> Side]
         /\ \A e \in After(regs, ws)[b].on : e \in regs[b].on \/ Does(ws, "on", e, b)
         /\ \A e : Does(ws, "on", e, b) => e \in After(regs, ws)[b].on
         /\ \A e : Does(ws, "off", e, b) /\ ~Does(ws, "on", e, b) =>
                     e \notin After(regs, ws)[b].on
         /\ \A e : e \in regs[b].par \/ Does(ws, "par", e, b) =>
                     e \in After(regs, ws)[b].par
         /\ \A e \in regs[b].on :
              Does(ws, "off", e, b) \/ Does(ws, "par", e, b) \/ e \in After(regs, ws)[b].on
  <1> DEFINE ends(what, bank) == {w.end : w \in {x \in ws : x.what = what /\ x.bank = bank}}
             New(c) == Apply(regs[c], ends("off", c), ends("par", c), ends("on", c))
  <1>1. \A what, c, e : e \in ends(what, c) <=> Does(ws, what, e, c)
    BY DEF Does
  <1>2. \A what, c : ends(what, c) \subseteq Ends
    BY DEF Writes
  <1>3. After(regs, ws) = [c \in Bank |-> New(c)]
    BY DEF After
  <1> HIDE DEF ends
  <1>4. ASSUME NEW c \in Bank
        PROVE  New(c) = [par |-> regs[c].par \cup ends("par", c),
                         on |-> ((regs[c].on \ ends("off", c))
                                  \ {e \in ends("par", c) : e[1] = Swr}) \cup ends("on", c)]
    BY Applied DEF New
  <1> HIDE DEF New
  <1>5. ASSUME NEW c \in Bank PROVE New(c) \in Side
    <2>1. regs[c] \in Side
      OBVIOUS
    <2> QED BY <1>2, <1>4, <2>1 DEF Side
  <1>6. After(regs, ws) \in [Bank -> Side]
    BY <1>3, <1>5
  <1>7. /\ After(regs, ws)[b].par = regs[b].par \cup ends("par", b)
        /\ After(regs, ws)[b].on = ((regs[b].on \ ends("off", b))
             \ {e \in ends("par", b) : e[1] = Swr}) \cup ends("on", b)
    BY <1>3, <1>4
  <1> QED BY <1>1, <1>6, <1>7

\* The writes of one loop over a stream's ports.
LEMMA LoopWrites ==
  ASSUME PlacesTyped, NEW s \in Streams, NEW bank \in Bank, NEW what \in {"par", "on", "off"},
         NEW ws, ws = [i \in DOMAIN EndsOf(s) |-> Write(what, EndsOf(s)[i], bank)]
  PROVE  /\ ws \in Seq(Writes) /\ ToSet(ws) \in SUBSET Writes
         /\ \A w \in ToSet(ws) : w.what = what /\ w.bank = bank /\ w.end[2] = s
         /\ \A d \in slaves[s] \cup (IF s \in mport THEN {Swr} ELSE {}) :
              Does(ToSet(ws), what, <<d, s>>, bank)
  <1> DEFINE ends == EndsOf(s)
  <1>1. /\ ends \in Seq(Ends)
        /\ \A i \in 1..Len(ends) : ends[i][2] = s
        /\ \A d \in slaves[s] \cup (IF s \in mport THEN {Swr} ELSE {}) :
             \E i \in 1..Len(ends) : ends[i] = <<d, s>>
    BY EndsOfStream
  <1>2. ws = [i \in DOMAIN ends |-> Write(what, ends[i], bank)]
    OBVIOUS
  <1> HIDE DEF ends
  <1>3. Len(ends) \in Nat /\ DOMAIN ends = 1..Len(ends) /\ \A i \in 1..Len(ends) : ends[i] \in Ends
    BY <1>1
  <1>4. \A e \in Ends : Write(what, e, bank) \in Writes
    BY DEF Write, Writes
  <1>5. ws \in [1..Len(ends) -> Writes]
    BY <1>2, <1>3, <1>4
  <1>6. ws \in Seq(Writes) /\ DOMAIN ws = 1..Len(ends)
    BY <1>3, <1>5
  <1>7. \A i \in 1..Len(ends) : ws[i].what = what /\ ws[i].bank = bank /\ ws[i].end = ends[i]
    BY <1>2, <1>3 DEF Write
  <1>8. ToSet(ws) \in SUBSET Writes
    BY <1>5 DEF ToSet
  <1>9. \A w \in ToSet(ws) : w.what = what /\ w.bank = bank /\ w.end[2] = s
    BY <1>1, <1>6, <1>7 DEF ToSet
  <1>10. \A i \in 1..Len(ends) : Does(ToSet(ws), what, ends[i], bank)
    BY <1>6, <1>7 DEF ToSet, Does
  <1> QED BY <1>1, <1>6, <1>8, <1>9, <1>10

LEMMA PortWrites ==
  ASSUME PlacesTyped, NEW s \in Streams, NEW bank \in Bank, NEW en \in BOOLEAN,
         NEW ws, ws = sdw_enable_disable_ports(s, bank, en),
         NEW what \in {"par", "on", "off"}, what = IF en THEN "on" ELSE "off"
  PROVE  /\ ws \in Seq(Writes) /\ ToSet(ws) \in SUBSET Writes
         /\ \A w \in ToSet(ws) : w.what = what /\ w.bank = bank /\ w.end[2] = s
         /\ \A d \in slaves[s] \cup (IF s \in mport THEN {Swr} ELSE {}) :
              Does(ToSet(ws), what, <<d, s>>, bank)
  <1>1. ws = [i \in DOMAIN EndsOf(s) |-> Write(what, EndsOf(s)[i], bank)]
    BY DEF sdw_enable_disable_ports
  <1> QED BY <1>1, LoopWrites

LEMMA ParamWrites ==
  ASSUME PlacesTyped, NEW s \in Streams, NEW bank \in Bank
  PROVE  LET ws == sdw_program_port_params(s, bank)
         IN  /\ ws \in Seq(Writes) /\ ToSet(ws) \in SUBSET Writes
             /\ \A w \in ToSet(ws) : w.what = "par" /\ w.bank = bank /\ w.end[2] = s
             /\ \A d \in slaves[s] \cup (IF s \in mport THEN {Swr} ELSE {}) :
                  Does(ToSet(ws), "par", <<d, s>>, bank)
  <1> DEFINE ws == sdw_program_port_params(s, bank)
  <1>1. ws = [i \in DOMAIN EndsOf(s) |-> Write("par", EndsOf(s)[i], bank)]
    BY DEF sdw_program_port_params
  <1> HIDE DEF ws
  <1>3. /\ ws \in Seq(Writes) /\ ToSet(ws) \in SUBSET Writes
        /\ \A w \in ToSet(ws) : w.what = "par" /\ w.bank = bank /\ w.end[2] = s
        /\ \A d \in slaves[s] \cup (IF s \in mport THEN {Swr} ELSE {}) :
             Does(ToSet(ws), "par", <<d, s>>, bank)
    BY <1>1, LoopWrites
  <1> QED BY <1>3 DEF ws

LEMMA Joined ==
  ASSUME NEW S, NEW p \in Seq(S), NEW q \in Seq(S)
  PROVE  p \o q \in Seq(S) /\ ToSet(p \o q) = ToSet(p) \cup ToSet(q)
  <1>1. /\ p \o q \in Seq(S) /\ Len(p \o q) = Len(p) + Len(q)
        /\ \A i \in 1..(Len(p) + Len(q)) :
             (p \o q)[i] = IF i <= Len(p) THEN p[i] ELSE q[i - Len(p)]
    BY ConcatProperties
  <1>2. /\ Len(p) \in Nat /\ Len(q) \in Nat /\ DOMAIN p = 1..Len(p) /\ DOMAIN q = 1..Len(q)
        /\ DOMAIN (p \o q) = 1..(Len(p) + Len(q))
    BY <1>1
  <1>3. ASSUME NEW x \in ToSet(p) PROVE x \in ToSet(p \o q)
    <2>1. PICK i \in 1..Len(p) : p[i] = x
      BY <1>2 DEF ToSet
    <2>2. i \in 1..(Len(p) + Len(q)) /\ i <= Len(p)
      BY <1>2
    <2> QED BY <1>1, <1>2, <2>1, <2>2 DEF ToSet
  <1>4. ASSUME NEW x \in ToSet(q) PROVE x \in ToSet(p \o q)
    <2>1. PICK i \in 1..Len(q) : q[i] = x
      BY <1>2 DEF ToSet
    <2> DEFINE j == Len(p) + i
    <2>2. j \in 1..(Len(p) + Len(q)) /\ ~(j <= Len(p)) /\ j - Len(p) = i
      BY <1>2
    <2> HIDE DEF j
    <2> QED BY <1>1, <1>2, <2>1, <2>2 DEF ToSet
  <1>5. ASSUME NEW x \in ToSet(p \o q) PROVE x \in ToSet(p) \cup ToSet(q)
    <2>1. PICK i \in 1..(Len(p) + Len(q)) : (p \o q)[i] = x
      BY <1>2 DEF ToSet
    <2>2. CASE i <= Len(p)
      <3>1. i \in 1..Len(p)
        BY <1>2, <2>2
      <3> QED BY <1>1, <1>2, <2>1, <2>2, <3>1 DEF ToSet
    <2>3. CASE ~(i <= Len(p))
      <3>1. i - Len(p) \in 1..Len(q)
        BY <1>2, <2>3
      <3> QED BY <1>1, <1>2, <2>1, <2>3, <3>1 DEF ToSet
    <2> QED BY <2>2, <2>3
  <1> QED BY <1>1, <1>3, <1>4, <1>5

\* What is written to program all streams for the next bank.
LEMMA ProgramWrites ==
  ASSUME PlacesTyped, NEW prepare, NEW state, NEW bank \in Bank,
         NEW batches, batches = sdw_program_params(prepare, state, bank)
  PROVE  /\ batches \in Seq(Seq(Writes)) /\ All(batches) \in SUBSET Writes
         /\ \A w \in All(batches) :
              /\ w.bank = bank /\ w.what \in {"par", "on"}
              /\ w.what = "on" => state[w.end[2]] = "enabled"
         /\ \A i \in 1..Len(list) :
              \A d \in slaves[list[i]] \cup (IF list[i] \in mport THEN {Swr} ELSE {}) :
                /\ prepare \/ state[list[i]] # "configured" =>
                     Does(All(batches), "par", <<d, list[i]>>, bank)
                /\ state[list[i]] = "enabled" => Does(All(batches), "on", <<d, list[i]>>, bank)
  <1> DEFINE Ports(t) == slaves[t] \cup (IF t \in mport THEN {Swr} ELSE {})
             Par(t) == sdw_program_port_params(t, bank)
             On2(t) == sdw_enable_disable_ports(t, bank, TRUE)
             Batch(t) == IF ~prepare /\ state[t] = "configured" THEN <<>>
                         ELSE Par(t) \o (IF state[t] = "enabled" THEN On2(t) ELSE <<>>)
  <1>1. /\ Len(list) \in Nat /\ DOMAIN list = 1..Len(list)
        /\ \A i \in 1..Len(list) : list[i] \in Streams
    BY DEF PlacesTyped
  <1>2. batches = [i \in DOMAIN list |-> Batch(list[i])]
    BY DEF sdw_program_params
  <1>3. ASSUME NEW t \in Streams
        PROVE  /\ Batch(t) \in Seq(Writes) /\ ToSet(Batch(t)) \in SUBSET Writes
               /\ \A w \in ToSet(Batch(t)) :
                    /\ w.bank = bank /\ w.what \in {"par", "on"}
                    /\ w.what = "on" => state[w.end[2]] = "enabled"
               /\ \A d \in Ports(t) :
                    /\ prepare \/ state[t] # "configured" =>
                         Does(ToSet(Batch(t)), "par", <<d, t>>, bank)
                    /\ state[t] = "enabled" => Does(ToSet(Batch(t)), "on", <<d, t>>, bank)
    <2>1. /\ Par(t) \in Seq(Writes) /\ ToSet(Par(t)) \in SUBSET Writes
          /\ \A w \in ToSet(Par(t)) : w.what = "par" /\ w.bank = bank /\ w.end[2] = t
          /\ \A d \in Ports(t) : Does(ToSet(Par(t)), "par", <<d, t>>, bank)
      BY ParamWrites
    <2>2. /\ On2(t) \in Seq(Writes) /\ ToSet(On2(t)) \in SUBSET Writes
          /\ \A w \in ToSet(On2(t)) : w.what = "on" /\ w.bank = bank /\ w.end[2] = t
          /\ \A d \in Ports(t) : Does(ToSet(On2(t)), "on", <<d, t>>, bank)
      <3> DEFINE ws == On2(t)
                 en == TRUE
                 what == "on"
      <3>1. /\ ws = sdw_enable_disable_ports(t, bank, en) /\ en \in BOOLEAN
            /\ what \in {"par", "on", "off"} /\ what = IF en THEN "on" ELSE "off"
        OBVIOUS
      <3> HIDE DEF ws, en, what
      <3>2. /\ ws \in Seq(Writes) /\ ToSet(ws) \in SUBSET Writes
            /\ \A w \in ToSet(ws) : w.what = what /\ w.bank = bank /\ w.end[2] = t
            /\ \A d \in Ports(t) : Does(ToSet(ws), what, <<d, t>>, bank)
        BY <3>1, PortWrites
      <3> QED BY <3>2 DEF ws, what
    <2> HIDE DEF Par, On2, Ports
    <2>3. <<>> \in Seq(Writes) /\ ToSet(<<>>) = {}
      BY DEF ToSet
    <2>4. CASE ~prepare /\ state[t] = "configured"
      <3>1. Batch(t) = <<>>
        BY <2>4
      <3> HIDE DEF Batch
      <3> QED BY <2>3, <2>4, <3>1
    <2>5. CASE ~(~prepare /\ state[t] = "configured") /\ state[t] = "enabled"
      <3>1. Batch(t) = Par(t) \o On2(t)
        BY <2>5
      <3> HIDE DEF Batch
      <3>2. Batch(t) \in Seq(Writes) /\ ToSet(Batch(t)) = ToSet(Par(t)) \cup ToSet(On2(t))
        BY <2>1, <2>2, <3>1, Joined
      <3> QED BY <2>1, <2>2, <2>5, <3>2 DEF Does
    <2>6. CASE ~(~prepare /\ state[t] = "configured") /\ state[t] # "enabled"
      <3>1. Batch(t) = Par(t) \o <<>>
        BY <2>6
      <3> HIDE DEF Batch
      <3>2. Batch(t) \in Seq(Writes) /\ ToSet(Batch(t)) = ToSet(Par(t))
        BY <2>1, <2>3, <3>1, ConcatEmptySeq
      <3> QED BY <2>1, <2>6, <3>2
    <2> QED BY <2>4, <2>5, <2>6
  <1> HIDE DEF Batch, Ports
  <1>4. batches \in [1..Len(list) -> Seq(Writes)] /\ \A i \in 1..Len(list) : batches[i] = Batch(list[i])
    BY <1>1, <1>2, <1>3
  <1>5. batches \in Seq(Seq(Writes)) /\ DOMAIN batches = 1..Len(list)
    BY <1>1, <1>4
  <1>6. \A w : w \in All(batches) <=> \E i \in 1..Len(list) : w \in ToSet(Batch(list[i]))
    BY <1>4, <1>5 DEF All
  <1>7. /\ All(batches) \in SUBSET Writes
        /\ \A w \in All(batches) :
             /\ w.bank = bank /\ w.what \in {"par", "on"}
             /\ w.what = "on" => state[w.end[2]] = "enabled"
    BY <1>1, <1>3, <1>6
  <1>8. ASSUME NEW i \in 1..Len(list), NEW d \in Ports(list[i])
        PROVE  /\ prepare \/ state[list[i]] # "configured" =>
                    Does(All(batches), "par", <<d, list[i]>>, bank)
               /\ state[list[i]] = "enabled" => Does(All(batches), "on", <<d, list[i]>>, bank)
    <2>1. list[i] \in Streams /\ ToSet(Batch(list[i])) \subseteq All(batches)
      BY <1>1, <1>6
    <2>2. /\ prepare \/ state[list[i]] # "configured" =>
               Does(ToSet(Batch(list[i])), "par", <<d, list[i]>>, bank)
          /\ state[list[i]] = "enabled" => Does(ToSet(Batch(list[i])), "on", <<d, list[i]>>, bank)
      BY <1>3, <2>1
    <2> QED BY <2>1, <2>2 DEF Does
  <1> QED BY <1>5, <1>7, <1>8 DEF Ports

\* Writes cut short are some of them.
LEMMA SomeWrites ==
  ASSUME NEW S, NEW batches \in Seq(Seq(S)), NEW made \in Partly(batches)
  PROVE  made \subseteq All(batches)
  <1>0. PICK i \in DOMAIN batches : \E n \in 0..(Len(batches[i]) - 1) : made = Made(batches, i, n)
    BY DEF Partly
  <1>1. PICK n \in 0..(Len(batches[i]) - 1) : made = Made(batches, i, n)
    BY <1>0
  <1>2. DOMAIN batches = 1..Len(batches) /\ Len(batches) \in Nat /\ batches[i] \in Seq(S)
    BY <1>1
  <1>3. \A j \in 1..(i - 1) : ToSet(batches[j]) \subseteq All(batches)
    BY <1>1, <1>2 DEF All
  <1>4. ToSet(SubSeq(batches[i], 1, n)) \subseteq ToSet(batches[i])
    <2> DEFINE q == batches[i]
    <2>1. Len(q) \in Nat /\ DOMAIN q = 1..Len(q) /\ n \in 0..(Len(q) - 1) /\ q \in Seq(S)
      BY <1>1, <1>2
    <2> HIDE DEF q
    <2>2. n \in Int /\ 1 \in Int /\ \A j \in 1..n : j \in 1..Len(q) /\ q[j] \in S
      BY <2>1
    <2>3. /\ SubSeq(q, 1, n) \in Seq(S) /\ Len(SubSeq(q, 1, n)) = IF 1 <= n THEN n - 1 + 1 ELSE 0
          /\ \A j \in 1..(n - 1 + 1) : SubSeq(q, 1, n)[j] = q[1 + j - 1]
      BY <2>2, SubSeqProperties
    <2>4. DOMAIN SubSeq(q, 1, n) = 1..n /\ \A j \in 1..n : SubSeq(q, 1, n)[j] = q[j]
      BY <2>1, <2>3
    <2>5. ToSet(SubSeq(q, 1, n)) \subseteq ToSet(q)
      BY <2>1, <2>2, <2>4 DEF ToSet
    <2> QED BY <2>5 DEF q
  <1>5. ToSet(batches[i]) \subseteq All(batches)
    BY <1>1 DEF All
  <1> DEFINE before == UNION {ToSet(batches[j]) : j \in 1..(i - 1)}
             last == ToSet(SubSeq(batches[i], 1, n))
  <1>6. made = before \cup last
    BY <1>1 DEF Made
  <1>7. before \subseteq All(batches) /\ last \subseteq All(batches)
    BY <1>3, <1>4, <1>5
  <1> HIDE DEF before, last
  <1> QED BY <1>6, <1>7

-----------------------------------------------------------------------------
\* The operations of a call

\* The writes of a program: into one bank, where they switch on what runs.
ProgramOf(batches, state, bank) ==
  /\ batches \in Seq(Seq(Writes)) /\ All(batches) \in SUBSET Writes
  /\ \A w \in All(batches) :
       /\ w.bank = bank /\ w.what \in {"par", "on"}
       /\ w.what = "on" => state[w.end[2]] = "enabled"
  /\ \A t \in Streams, d \in Devices :
       /\ state[t] \in {"prepared", "disabled", "enabled"} =>
            Does(All(batches), "par", <<d, t>>, bank)
       /\ state[t] = "enabled" => Does(All(batches), "on", <<d, t>>, bank)

\* The ports of a stream that is set up are at every device.
LEMMA Programmed ==
  ASSUME PortsTyped, InPlace, NEW prepare, NEW state, NEW bank \in Bank,
         \A t \in Streams : state[t] \in SetUp => st[t] \in SetUp,
         NEW batches, batches = sdw_program_params(prepare, state, bank)
  PROVE  ProgramOf(batches, state, bank)
  <1> DEFINE Ports(t) == slaves[t] \cup (IF t \in mport THEN {Swr} ELSE {})
  <1>1. PlacesTyped
    BY DEF PortsTyped
  <1>2. /\ batches \in Seq(Seq(Writes)) /\ All(batches) \in SUBSET Writes
        /\ \A w \in All(batches) :
             /\ w.bank = bank /\ w.what \in {"par", "on"}
             /\ w.what = "on" => state[w.end[2]] = "enabled"
    BY <1>1, ProgramWrites
  <1>3. \A i \in 1..Len(list) : \A d \in Ports(list[i]) :
          /\ prepare \/ state[list[i]] # "configured" =>
               Does(All(batches), "par", <<d, list[i]>>, bank)
          /\ state[list[i]] = "enabled" => Does(All(batches), "on", <<d, list[i]>>, bank)
    BY <1>1, ProgramWrites
  <1>4. ASSUME NEW t \in Streams, NEW d \in Devices,
               state[t] \in {"prepared", "disabled", "enabled"}
        PROVE  /\ Does(All(batches), "par", <<d, t>>, bank)
               /\ state[t] = "enabled" => Does(All(batches), "on", <<d, t>>, bank)
    <2>1. state[t] \in SetUp /\ state[t] # "configured"
      BY <1>4 DEF SetUp
    <2>2. st[t] \in SetUp
      BY <2>1
    <2>3. slaves[t] = Amps /\ t \in mport
      BY <2>2 DEF InPlace
    <2>4. PICK i \in 1..Len(list) : list[i] = t
      BY <2>2 DEF InPlace
    <2>5. d \in Ports(t)
      BY <2>3 DEF Devices
    <2> HIDE DEF Ports
    <2> QED BY <1>3, <2>1, <2>4, <2>5
  <1>5. \A t \in Streams, d \in Devices :
          /\ state[t] \in {"prepared", "disabled", "enabled"} =>
               Does(All(batches), "par", <<d, t>>, bank)
          /\ state[t] = "enabled" => Does(All(batches), "on", <<d, t>>, bank)
    BY <1>4
  <1> QED BY <1>2, <1>5 DEF ProgramOf

\* What any operation must see to: which bank it writes, and what it switches on.
LEMMA OperationSafe ==
  ASSUME PortsTyped, InPlace, Live, QuietInBothBanks,
         NEW s \in Streams, NEW ws \in SUBSET Writes,
         UNCHANGED <<slaves, list, mport>>,
         regs' = After(regs, ws),
         st[s] \in SetUp, st' \in [Streams -> States],
         \A t \in Streams \ {s} : st'[t] = st[t] /\ (t \in failed => t \in failed'),
         \/ /\ curr' = curr /\ \A w \in ws : w.bank = 1 - curr
            /\ st'[s] = "enabled" => st[s] = "enabled"
         \/ /\ curr' = 1 - curr
            /\ \A t \in Streams, d \in Devices : st'[t] = "enabled" =>
                 Does(ws, "par", <<d, t>>, 1 - curr) /\ Does(ws, "on", <<d, t>>, 1 - curr),
         \A w \in ws : w.what = "on" => st[w.end[2]] = "enabled" \/ w.end[2] = s,
         \/ s \in failed' \/ st'[s] = "enabled"
         \/ /\ s \notin failed /\ st[s] # "enabled"
            /\ \A w \in ws : w.what = "on" => w.end[2] # s
         \/ /\ \A w \in ws : w.what = "on" => w.end[2] # s
            /\ \A d \in Devices, b \in Bank : Does(ws, "off", <<d, s>>, b)
  PROVE  PortsTyped' /\ InPlace' /\ Live' /\ QuietInBothBanks'
  <1> DEFINE rs == After(regs, ws)
  <1>1. curr \in Bank /\ 1 - curr \in Bank /\ curr # 1 - curr
    BY DEF PortsTyped, PlacesTyped, Bank
  <1>2. regs \in [Bank -> Side]
    BY DEF PortsTyped
  <1>3. \A b \in Bank :
          /\ rs \in [Bank -> Side]
          /\ \A e \in rs[b].on : e \in regs[b].on \/ Does(ws, "on", e, b)
          /\ \A e : Does(ws, "on", e, b) => e \in rs[b].on
          /\ \A e : Does(ws, "off", e, b) /\ ~Does(ws, "on", e, b) => e \notin rs[b].on
          /\ \A e : e \in regs[b].par \/ Does(ws, "par", e, b) => e \in rs[b].par
          /\ \A e \in regs[b].on : Does(ws, "off", e, b) \/ Does(ws, "par", e, b) \/ e \in rs[b].on
    BY <1>2, AfterWrites
  <1> HIDE DEF rs
  <1>4. regs' = rs
    BY DEF rs
  <1>5. PortsTyped'
    BY <1>1, <1>3, <1>4 DEF PortsTyped, PlacesTyped
  <1>6. InPlace'
    <2> SUFFICES ASSUME NEW t \in Streams, st'[t] \in SetUp
                 PROVE  slaves[t] = Amps /\ t \in mport /\ \E i \in 1..Len(list) : list[i] = t
      BY DEF InPlace
    <2>1. st[t] \in SetUp
      OBVIOUS
    <2> QED BY <2>1 DEF InPlace
  <1>7. Live'
    <2> SUFFICES ASSUME NEW t \in Streams, st'[t] = "enabled", NEW d \in Devices
                 PROVE  <<d, t>> \in rs[curr'].par /\ <<d, t>> \in rs[curr'].on
      BY <1>4 DEF Live
    <2>1. CASE /\ curr' = curr /\ \A w \in ws : w.bank = 1 - curr
               /\ st'[s] = "enabled" => st[s] = "enabled"
      <3>1. st[t] = "enabled"
        BY <2>1
      <3>2. <<d, t>> \in regs[curr].par /\ <<d, t>> \in regs[curr].on
        BY <3>1 DEF Live
      <3>3. \A what, e : ~Does(ws, what, e, curr)
        BY <1>1, <2>1 DEF Does
      <3> QED BY <1>1, <1>3, <2>1, <3>2, <3>3
    <2>2. CASE /\ curr' = 1 - curr
               /\ \A u \in Streams, x \in Devices : st'[u] = "enabled" =>
                    Does(ws, "par", <<x, u>>, 1 - curr) /\ Does(ws, "on", <<x, u>>, 1 - curr)
      BY <1>1, <1>3, <2>2
    <2> QED BY <2>1, <2>2
  <1>8. QuietInBothBanks'
    <2> SUFFICES ASSUME NEW t \in Streams \ failed', st'[t] # "enabled",
                        NEW b \in Bank, NEW d \in Devices
                 PROVE  <<d, t>> \notin rs[b].on
      BY <1>4 DEF QuietInBothBanks
    <2>1. <<d, t>>[2] = t
      OBVIOUS
    <2>2. ASSUME t \notin failed, st[t] # "enabled",
                 \A w \in ws : w.what = "on" => w.end[2] # t
          PROVE  <<d, t>> \notin rs[b].on
      <3>1. <<d, t>> \notin regs[b].on
        BY <2>2 DEF QuietInBothBanks
      <3>2. ~Does(ws, "on", <<d, t>>, b)
        BY <2>1, <2>2 DEF Does
      <3> QED BY <1>3, <3>1, <3>2
    <2>3. CASE t # s
      <3>1. t \notin failed /\ st[t] # "enabled"
        BY <2>3
      <3>2. \A w \in ws : w.what = "on" => w.end[2] # t
        BY <2>3, <3>1
      <3> QED BY <2>2, <3>1, <3>2
    <2>4. CASE t = s /\ s \notin failed /\ st[s] # "enabled"
               /\ \A w \in ws : w.what = "on" => w.end[2] # s
      BY <2>2, <2>4
    <2>5. CASE t = s /\ (\A w \in ws : w.what = "on" => w.end[2] # s)
               /\ \A x \in Devices, c \in Bank : Does(ws, "off", <<x, s>>, c)
      <3>1. ~Does(ws, "on", <<d, t>>, b)
        BY <2>1, <2>5 DEF Does
      <3>2. Does(ws, "off", <<d, t>>, b)
        BY <2>5
      <3> QED BY <1>3, <3>1, <3>2
    <2> QED BY <2>3, <2>4, <2>5
  <1> QED BY <1>5, <1>6, <1>7, <1>8

\* And what it must leave the card's note at.
LEMMA OperationNoted ==
  ASSUME PreparedIsEnabled, Noted, NEW s \in Streams, call.s = s, call.todo # <<>>,
         \A t \in Streams \ {s} :
           st'[t] = st[t] /\ (t \in failed => t \in failed') /\ (prepared'[t] = prepared[t]),
         s \in failed' \/ st'[s] # "enabled" \/ prepared'[s],
         prepared'[s] => st'[s] = "enabled"
  PROVE  PreparedIsEnabled' /\ Noted'
  <1>1. PreparedIsEnabled'
    BY DEF PreparedIsEnabled
  <1>2. Noted'
    <2> SUFFICES ASSUME NEW t \in Streams \ failed', st'[t] = "enabled", t # s
                 PROVE  prepared'[t]
      BY DEF Noted
    <2> QED BY DEF Noted, Doing
  <1> QED BY <1>1, <1>2

\* A call that is not about to disable finds its stream off, or failed.
LEMMA OffOrFailed ==
  ASSUME Noted, NEW s \in Streams \ failed, ~prepared[s], ~Doing(s, "disable")
  PROVE  st[s] # "enabled"
  BY DEF Noted

\* Steps that write no register.
LEMMA Unwritten ==
  ASSUME Live, QuietInBothBanks, Noted, NEW s \in Streams,
         regs' = regs, curr' = curr, failed' = failed,
         \A t \in Streams \ {s} : st'[t] = st[t],
         \/ st'[s] = st[s]
         \/ st'[s] # "enabled" /\ ~prepared[s] /\ ~Doing(s, "disable")
  PROVE  Live' /\ QuietInBothBanks'
  <1>1. Live'
    BY DEF Live
  <1>2. QuietInBothBanks'
    <2> SUFFICES ASSUME NEW t \in Streams \ failed, st'[t] # "enabled"
                 PROVE  \A b \in Bank, d \in Devices : <<d, t>> \notin regs[b].on
      BY DEF QuietInBothBanks
    <2>1. st[t] # "enabled"
      BY OffOrFailed
    <2> QED BY <2>1 DEF QuietInBothBanks
  <1> QED BY <1>1, <1>2

CallsAndPorts == CallTyped /\ Calling /\ PortInv

LEMMA PrepareKeepsPorts ==
  ASSUME CallsAndPorts, NEW s \in Streams, sdw_prepare_stream(s)
  PROVE  PortInv'
  <1> DEFINE bank == 1 - curr
             prep == TRUE
             ws == sdw_program_params(prep, st, bank)
  <1>1. /\ CallTyped /\ Calling /\ PortsTyped /\ InPlace /\ PreparedIsEnabled /\ Noted
        /\ Live /\ QuietInBothBanks
    BY DEF CallsAndPorts, PortInv
  <1>2. /\ call.s = s /\ call.todo # <<>> /\ st[s] \in {"configured", "deprepared", "disabled"}
        /\ UNCHANGED <<slaves, list, mport, prepared, failed>>
    BY DEF sdw_prepare_stream, Doing, Unmoved
  <1>3. bank \in Bank
    BY <1>1 DEF PortsTyped, PlacesTyped, Bank
  <1>4. st \in [Streams -> States]
    BY <1>1 DEF PortsTyped
  <1>5. \/ \E made \in Partly(ws) : regs' = After(regs, made) /\ st' = st /\ curr' = curr
        \/ /\ regs' = After(regs, All(ws))
           /\ \/ st' = st /\ curr' = curr
              \/ st' = [st EXCEPT ![s] = "prepared"] /\ curr' = bank
    BY DEF sdw_prepare_stream, NoSwitch, do_bank_switch, SwitchOutcomes
  <1> HIDE DEF bank, prep, ws
  <1>6. ProgramOf(ws, st, bank)
    <2>1. ws = sdw_program_params(prep, st, bank)
      BY DEF ws
    <2> QED BY <1>1, <1>3, <2>1, Programmed
  <1>7. st[s] \in SetUp /\ st[s] # "enabled" /\ "prepared" \in States
    BY <1>2 DEF SetUp, States
  <1>8. st' \in [Streams -> States] /\ st'[s] # "enabled"
        /\ \A t \in Streams \ {s} : st'[t] = st[t]
    BY <1>4, <1>5, <1>7
  <1>9. PICK some \in SUBSET All(ws) :
          /\ regs' = After(regs, some)
          /\ curr' = curr \/ (curr' = bank /\ some = All(ws))
    <2>1. \A made \in Partly(ws) : made \subseteq All(ws)
      BY <1>6, SomeWrites DEF ProgramOf
    <2> QED BY <1>5, <2>1
  <1>10. /\ some \in SUBSET Writes
         /\ \A w \in some : w.bank = bank /\ (w.what = "on" => st[w.end[2]] = "enabled")
         /\ \A w \in some : w.what = "on" => w.end[2] # s
    BY <1>6, <1>7 DEF ProgramOf
  <1>11. \/ curr' = curr
         \/ /\ curr' = bank
            /\ \A t \in Streams, d \in Devices : st'[t] = "enabled" =>
                 Does(some, "par", <<d, t>>, bank) /\ Does(some, "on", <<d, t>>, bank)
    BY <1>6, <1>8, <1>9 DEF ProgramOf
  <1>12. PortsTyped' /\ InPlace' /\ Live' /\ QuietInBothBanks'
    <2>1. \/ s \in failed' \/ st'[s] = "enabled"
          \/ /\ s \notin failed /\ st[s] # "enabled"
             /\ \A w \in some : w.what = "on" => w.end[2] # s
      BY <1>2, <1>7, <1>10
    <2>2. bank = 1 - curr
      BY DEF bank
    <2> QED BY <1>1, <1>2, <1>7, <1>8, <1>9, <1>10, <1>11, <2>1, <2>2, OperationSafe
  <1>13. PreparedIsEnabled' /\ Noted'
    <2>1. ~prepared[s] /\ prepared' = prepared /\ failed' = failed
      BY <1>1, <1>2 DEF Calling
    <2> QED BY <1>1, <1>2, <1>8, <2>1, OperationNoted
  <1> QED BY <1>12, <1>13 DEF PortInv

LEMMA OneMore ==
  ASSUME NEW S, NEW batches \in Seq(Seq(S)), NEW x \in Seq(S)
  PROVE  /\ Append(batches, x) \in Seq(Seq(S))
         /\ All(Append(batches, x)) = All(batches) \cup ToSet(x)
  <1> DEFINE more == Append(batches, x)
             n == Len(batches)
  <1>1. /\ n \in Nat /\ DOMAIN batches = 1..n
        /\ more \in Seq(Seq(S)) /\ DOMAIN more = 1..(n + 1)
        /\ \A i \in 1..n : more[i] = batches[i]
        /\ more[n + 1] = x
    OBVIOUS
  <1> HIDE DEF more, n
  <1>2. \A i \in 1..(n + 1) : i \in 1..n \/ i = n + 1
    BY <1>1
  <1>3. \A w : w \in All(more) <=> \E i \in 1..(n + 1) : w \in ToSet(more[i])
    BY <1>1 DEF All
  <1>4. \A w : w \in All(batches) <=> \E i \in 1..n : w \in ToSet(batches[i])
    BY <1>1 DEF All
  <1>5. \A w : w \in All(more) <=> w \in All(batches) \/ w \in ToSet(x)
    <2>1. n + 1 \in 1..(n + 1) /\ \A i \in 1..n : i \in 1..(n + 1)
      BY <1>1
    <2> QED BY <1>1, <1>2, <1>3, <1>4, <2>1
  <1>6. All(more) = All(batches) \cup ToSet(x)
    BY <1>5
  <1> QED BY <1>1, <1>6 DEF more

LEMMA EnableKeepsPorts ==
  ASSUME CallsAndPorts, NEW s \in Streams, sdw_enable_stream(s)
  PROVE  PortInv'
  <1> DEFINE bank == 1 - curr
             prep == FALSE
             en == TRUE
             what == "on"
             prog == sdw_program_params(prep, st, bank)
             on == sdw_enable_disable_ports(s, bank, en)
             ws == Append(prog, on)
  <1>1. /\ CallTyped /\ Calling /\ PortsTyped /\ InPlace /\ PreparedIsEnabled /\ Noted
        /\ Live /\ QuietInBothBanks
    BY DEF CallsAndPorts, PortInv
  <1>2. /\ call.s = s /\ call.todo # <<>> /\ st[s] \in {"prepared", "disabled"}
        /\ UNCHANGED <<slaves, list, mport>>
    BY DEF sdw_enable_stream, Doing, Unmoved
  <1>3. bank \in Bank
    BY <1>1 DEF PortsTyped, PlacesTyped, Bank
  <1>4. st \in [Streams -> States] /\ prepared \in [Streams -> BOOLEAN]
    BY <1>1 DEF PortsTyped, CallTyped
  <1>5. \/ \E made \in Partly(ws) :
             /\ regs' = After(regs, made) /\ st' = st /\ curr' = curr
             /\ failed' = failed \cup {s} /\ prepared' = prepared
        \/ /\ regs' = After(regs, All(ws))
           /\ \/ st' = st /\ curr' = curr /\ failed' = failed \cup {s} /\ prepared' = prepared
              \/ /\ st' = [st EXCEPT ![s] = "enabled"] /\ curr' = bank
                 /\ failed' = failed /\ prepared' = [prepared EXCEPT ![s] = TRUE]
    BY DEF sdw_enable_stream, NoSwitch, do_bank_switch, SwitchOutcomes
  <1>6. /\ prog = sdw_program_params(prep, st, bank)
        /\ on = sdw_enable_disable_ports(s, bank, en) /\ en \in BOOLEAN
        /\ what \in {"par", "on", "off"} /\ what = IF en THEN "on" ELSE "off"
        /\ ws = Append(prog, on) /\ what = "on" /\ bank = 1 - curr
    OBVIOUS
  <1> HIDE DEF bank, prep, en, what, prog, on, ws
  <1>7. ProgramOf(prog, st, bank)
    BY <1>1, <1>3, <1>6, Programmed
  <1>8. /\ on \in Seq(Writes) /\ ToSet(on) \in SUBSET Writes
        /\ \A w \in ToSet(on) : w.what = "on" /\ w.bank = bank /\ w.end[2] = s
        /\ \A d \in Devices : Does(ToSet(on), "on", <<d, s>>, bank)
    <2>1. PlacesTyped
      BY <1>1 DEF PortsTyped
    <2>2. slaves[s] = Amps /\ s \in mport
      BY <1>1, <1>2 DEF InPlace, SetUp
    <2>3. /\ on \in Seq(Writes) /\ ToSet(on) \in SUBSET Writes
          /\ \A w \in ToSet(on) : w.what = what /\ w.bank = bank /\ w.end[2] = s
          /\ \A d \in slaves[s] \cup (IF s \in mport THEN {Swr} ELSE {}) :
               Does(ToSet(on), what, <<d, s>>, bank)
      BY <1>3, <1>6, <2>1, PortWrites
    <2> QED BY <1>6, <2>2, <2>3 DEF Devices
  <1>9. ws \in Seq(Seq(Writes)) /\ All(ws) = All(prog) \cup ToSet(on)
    BY <1>6, <1>7, <1>8, OneMore DEF ProgramOf
  <1>10. /\ All(ws) \in SUBSET Writes
         /\ \A w \in All(ws) :
              w.bank = bank /\ (w.what = "on" => st[w.end[2]] = "enabled" \/ w.end[2] = s)
         /\ \A t \in Streams, d \in Devices : st[t] = "enabled" \/ t = s =>
              Does(All(ws), "par", <<d, t>>, bank) /\ Does(All(ws), "on", <<d, t>>, bank)
    <2>1. \A what2, e, b : Does(All(prog), what2, e, b) \/ Does(ToSet(on), what2, e, b)
                             => Does(All(ws), what2, e, b)
      BY <1>9 DEF Does
    <2> QED BY <1>2, <1>7, <1>8, <1>9, <2>1 DEF ProgramOf
  <1>11. /\ st' \in [Streams -> States]
         /\ \A t \in Streams \ {s} :
              st'[t] = st[t] /\ (t \in failed => t \in failed') /\ (prepared'[t] = prepared[t])
         /\ \/ s \in failed' /\ st'[s] = st[s] /\ prepared'[s] = prepared[s]
            \/ st'[s] = "enabled" /\ prepared'[s] = TRUE
    <2>1. "enabled" \in States
      BY DEF States, SetUp
    <2> QED BY <1>4, <1>5, <2>1
  <1>12. PICK some \in SUBSET All(ws) :
          /\ regs' = After(regs, some)
          /\ \/ curr' = curr /\ st' = st
             \/ curr' = bank /\ some = All(ws)
    <2>1. \A made \in Partly(ws) : made \subseteq All(ws)
      BY <1>9, SomeWrites
    <2> QED BY <1>5, <2>1
  <1>13. /\ some \in SUBSET Writes
         /\ \A w \in some :
              w.bank = bank /\ (w.what = "on" => st[w.end[2]] = "enabled" \/ w.end[2] = s)
    BY <1>10
  <1>14. \/ curr' = curr /\ st' = st
         \/ /\ curr' = bank
            /\ \A t \in Streams, d \in Devices : st'[t] = "enabled" =>
                 Does(some, "par", <<d, t>>, bank) /\ Does(some, "on", <<d, t>>, bank)
    BY <1>10, <1>11, <1>12
  <1>15. st[s] \in SetUp /\ st[s] # "enabled" /\ ~prepared[s]
    BY <1>1, <1>2 DEF SetUp, Calling
  <1>16. PortsTyped' /\ InPlace' /\ Live' /\ QuietInBothBanks'
    <2>1. s \in failed' \/ st'[s] = "enabled"
      BY <1>11
    <2> QED BY <1>1, <1>2, <1>6, <1>11, <1>12, <1>13, <1>14, <1>15, <2>1, OperationSafe
  <1>17. PreparedIsEnabled' /\ Noted'
    BY <1>1, <1>2, <1>11, <1>15, OperationNoted
  <1> QED BY <1>16, <1>17 DEF PortInv

LEMMA DeprepareKeepsPorts ==
  ASSUME CallsAndPorts, NEW s \in Streams, sdw_deprepare_stream(s)
  PROVE  PortInv'
  <1> DEFINE bank == 1 - curr
             prep == FALSE
             state == [st EXCEPT ![s] = "deprepared"]
             ws == sdw_program_params(prep, state, bank)
  <1>1. /\ CallTyped /\ Calling /\ PortsTyped /\ InPlace /\ PreparedIsEnabled /\ Noted
        /\ Live /\ QuietInBothBanks
    BY DEF CallsAndPorts, PortInv
  <1>2. /\ call.s = s /\ call.todo # <<>> /\ st[s] \in {"prepared", "disabled"}
        /\ UNCHANGED <<slaves, list, mport, prepared, failed>>
    BY DEF sdw_deprepare_stream, Doing, Unmoved
  <1>3. bank \in Bank
    BY <1>1 DEF PortsTyped, PlacesTyped, Bank
  <1>4. st \in [Streams -> States]
    BY <1>1 DEF PortsTyped
  <1>5. \/ \E made \in Partly(ws) : regs' = After(regs, made) /\ st' = st /\ curr' = curr
        \/ /\ regs' = After(regs, All(ws)) /\ st' = state
           /\ curr' = curr \/ curr' = bank
    BY DEF sdw_deprepare_stream, NoSwitch, do_bank_switch, SwitchOutcomes
  <1>6. state \in [Streams -> States] /\ state[s] = "deprepared"
        /\ \A t \in Streams \ {s} : state[t] = st[t]
    BY <1>4 DEF States, SetUp
  <1>7. ws = sdw_program_params(prep, state, bank) /\ bank = 1 - curr
    OBVIOUS
  <1> HIDE DEF bank, prep, ws, state
  <1>8. st[s] \in SetUp /\ st[s] # "enabled"
    BY <1>2 DEF SetUp
  <1>9. ProgramOf(ws, state, bank)
    <2>1. \A t \in Streams : state[t] \in SetUp => st[t] \in SetUp
      BY <1>6, <1>8
    <2> QED BY <1>1, <1>3, <1>7, <2>1, Programmed
  <1>10. st' \in [Streams -> States] /\ st'[s] # "enabled"
         /\ \A t \in Streams \ {s} : st'[t] = st[t]
    BY <1>4, <1>5, <1>6, <1>8
  <1>11. PICK some \in SUBSET All(ws) :
          /\ regs' = After(regs, some)
          /\ curr' = curr \/ (curr' = bank /\ some = All(ws))
    <2>1. \A made \in Partly(ws) : made \subseteq All(ws)
      BY <1>9, SomeWrites DEF ProgramOf
    <2> QED BY <1>5, <2>1
  <1>12. /\ some \in SUBSET Writes
         /\ \A w \in some : w.bank = bank /\ (w.what = "on" => st[w.end[2]] = "enabled")
         /\ \A w \in some : w.what = "on" => w.end[2] # s
    <2>1. \A w \in Writes : w.end[2] \in Streams
      BY DEF Writes, Ends
    <2> QED BY <1>6, <1>8, <1>9, <2>1 DEF ProgramOf
  <1>13. \/ curr' = curr
         \/ /\ curr' = bank
            /\ \A t \in Streams, d \in Devices : st'[t] = "enabled" =>
                 Does(some, "par", <<d, t>>, bank) /\ Does(some, "on", <<d, t>>, bank)
    BY <1>6, <1>9, <1>10, <1>11 DEF ProgramOf
  <1>14. PortsTyped' /\ InPlace' /\ Live' /\ QuietInBothBanks'
    <2>1. \/ s \in failed' \/ st'[s] = "enabled"
          \/ /\ s \notin failed /\ st[s] # "enabled"
             /\ \A w \in some : w.what = "on" => w.end[2] # s
      BY <1>2, <1>8, <1>12
    <2> QED BY <1>1, <1>2, <1>7, <1>8, <1>10, <1>11, <1>12, <1>13, <2>1, OperationSafe
  <1>15. PreparedIsEnabled' /\ Noted'
    <2>1. ~prepared[s] /\ prepared' = prepared /\ failed' = failed
      BY <1>1, <1>2 DEF Calling
    <2> QED BY <1>1, <1>2, <1>10, <2>1, OperationNoted
  <1> QED BY <1>14, <1>15 DEF PortInv

LEMMA OneBatch ==
  ASSUME NEW S, NEW x \in Seq(S)
  PROVE  \A made \in Partly(<<x>>) : made \subseteq ToSet(x)
  <1> DEFINE one == <<x>>
  <1>1. one \in Seq(Seq(S)) /\ DOMAIN one = {1} /\ one[1] = x
    OBVIOUS
  <1> HIDE DEF one
  <1>2. \A made \in Partly(one) : made \subseteq All(one)
    BY <1>1, SomeWrites
  <1>3. All(one) \subseteq ToSet(x)
    BY <1>1 DEF All
  <1> QED BY <1>2, <1>3 DEF one

LEMMA DisableKeepsPorts ==
  ASSUME CallsAndPorts, NEW s \in Streams, sdw_disable_stream(s)
  PROVE  PortInv'
  <1> DEFINE bank == 1 - curr
             prep == FALSE
             en == FALSE
             what == "off"
             state == [st EXCEPT ![s] = "disabled"]
             off == sdw_enable_disable_ports(s, bank, en)
             back == sdw_enable_disable_ports(s, curr, en)
             ws == sdw_program_params(prep, state, bank)
             whole == ToSet(off) \cup All(ws)
  <1>1. /\ CallTyped /\ Calling /\ PortsTyped /\ InPlace /\ PreparedIsEnabled /\ Noted
        /\ Live /\ QuietInBothBanks
    BY DEF CallsAndPorts, PortInv
  <1>2. /\ call.s = s /\ call.todo # <<>> /\ st[s] = "enabled"
        /\ UNCHANGED <<slaves, list, mport, prepared>>
    BY DEF sdw_disable_stream, Doing, Unmoved
  <1>3. bank \in Bank /\ curr \in Bank /\ bank # curr /\ \A b \in Bank : b = bank \/ b = curr
    BY <1>1 DEF PortsTyped, PlacesTyped, Bank
  <1>4. st \in [Streams -> States]
    BY <1>1 DEF PortsTyped
  <1>5. \/ \E made \in Partly(<<off>>) :
             /\ regs' = After(regs, made) /\ st' = st /\ curr' = curr
             /\ failed' = failed \cup {s}
        \/ \E made \in Partly(ws) :
             /\ regs' = After(regs, ToSet(off) \cup made) /\ st' = state /\ curr' = curr
             /\ failed' = failed \cup {s}
        \/ /\ regs' = After(regs, whole) /\ st' = state /\ curr' = curr
           /\ failed' = failed \cup {s}
        \/ /\ regs' = After(regs, whole \cup ToSet(back)) /\ st' = state /\ curr' = bank
           /\ failed' = failed \ {s}
        \/ \E made \in Partly(<<back>>) :
             /\ regs' = After(regs, whole \cup made) /\ st' = state /\ curr' = bank
             /\ failed' = failed \cup {s}
    BY DEF sdw_disable_stream, NoSwitch, do_bank_switch, SwitchOutcomes, AlternateOff
  <1>6. state \in [Streams -> States] /\ state[s] = "disabled"
        /\ \A t \in Streams \ {s} : state[t] = st[t]
    BY <1>4 DEF States, SetUp
  <1>7. /\ ws = sdw_program_params(prep, state, bank) /\ bank = 1 - curr
        /\ off = sdw_enable_disable_ports(s, bank, en) /\ en \in BOOLEAN
        /\ back = sdw_enable_disable_ports(s, curr, en)
        /\ what \in {"par", "on", "off"} /\ what = IF en THEN "on" ELSE "off"
        /\ what = "off" /\ whole = ToSet(off) \cup All(ws)
    OBVIOUS
  <1> HIDE DEF bank, prep, en, what, state, off, back, ws, whole
  <1>8. st[s] \in SetUp
    BY <1>2 DEF SetUp
  <1>9. ProgramOf(ws, state, bank)
    <2>1. \A t \in Streams : state[t] \in SetUp => st[t] \in SetUp
      BY <1>6, <1>8
    <2> QED BY <1>1, <1>3, <1>7, <2>1, Programmed
  <1>10. ASSUME NEW b \in Bank, NEW q, q = sdw_enable_disable_ports(s, b, en)
         PROVE  /\ q \in Seq(Writes) /\ ToSet(q) \in SUBSET Writes
                /\ \A w \in ToSet(q) : w.what = "off" /\ w.bank = b
                /\ \A d \in Devices : Does(ToSet(q), "off", <<d, s>>, b)
    <2>1. PlacesTyped
      BY <1>1 DEF PortsTyped
    <2>2. slaves[s] = Amps /\ s \in mport
      BY <1>1, <1>8 DEF InPlace
    <2>3. /\ q \in Seq(Writes) /\ ToSet(q) \in SUBSET Writes
          /\ \A w \in ToSet(q) : w.what = what /\ w.bank = b /\ w.end[2] = s
          /\ \A d \in slaves[s] \cup (IF s \in mport THEN {Swr} ELSE {}) :
               Does(ToSet(q), what, <<d, s>>, b)
      BY <1>7, <1>10, <2>1, PortWrites
    <2> QED BY <1>7, <2>2, <2>3 DEF Devices
  <1>11. /\ off \in Seq(Writes) /\ ToSet(off) \in SUBSET Writes
         /\ \A w \in ToSet(off) : w.what = "off" /\ w.bank = bank
         /\ \A d \in Devices : Does(ToSet(off), "off", <<d, s>>, bank)
    BY <1>3, <1>7, <1>10
  <1>12. /\ back \in Seq(Writes) /\ ToSet(back) \in SUBSET Writes
         /\ \A w \in ToSet(back) : w.what = "off" /\ w.bank = curr
         /\ \A d \in Devices : Does(ToSet(back), "off", <<d, s>>, curr)
    BY <1>3, <1>7, <1>10
  <1>13. /\ \A made \in Partly(ws) : made \subseteq All(ws)
         /\ \A made \in Partly(<<off>>) : made \subseteq ToSet(off)
         /\ \A made \in Partly(<<back>>) : made \subseteq ToSet(back)
    BY <1>9, <1>11, <1>12, SomeWrites, OneBatch DEF ProgramOf
  <1>14. PICK some \in SUBSET (whole \cup ToSet(back)) :
          /\ regs' = After(regs, some)
          /\ \/ curr' = curr /\ some \subseteq whole
             \/ curr' = bank /\ whole \subseteq some
          /\ \/ s \in failed'
             \/ whole \cup ToSet(back) \subseteq some
    <2>1. CASE \E made \in Partly(<<off>>) :
                 /\ regs' = After(regs, made) /\ curr' = curr /\ failed' = failed \cup {s}
      BY <1>7, <1>13, <2>1
    <2>2. CASE \E made \in Partly(ws) :
                 /\ regs' = After(regs, ToSet(off) \cup made) /\ curr' = curr
                 /\ failed' = failed \cup {s}
      <3>1. PICK made \in Partly(ws) :
              regs' = After(regs, ToSet(off) \cup made) /\ curr' = curr /\ failed' = failed \cup {s}
        BY <2>2
      <3>2. ToSet(off) \cup made \subseteq whole
        BY <1>7, <1>13
      <3> QED BY <3>1, <3>2
    <2>3. CASE regs' = After(regs, whole) /\ curr' = curr /\ failed' = failed \cup {s}
      BY <2>3
    <2>4. CASE regs' = After(regs, whole \cup ToSet(back)) /\ curr' = bank
      BY <2>4
    <2>5. CASE \E made \in Partly(<<back>>) :
                 /\ regs' = After(regs, whole \cup made) /\ curr' = bank
                 /\ failed' = failed \cup {s}
      BY <1>13, <2>5
    <2> QED BY <1>5, <2>1, <2>2, <2>3, <2>4, <2>5
  <1>15. \/ st' = st /\ s \in failed' /\ curr' = curr
         \/ st' = state
    BY <1>5
  <1>16. st' \in [Streams -> States]
         /\ \A t \in Streams \ {s} : st'[t] = st[t] /\ (t \in failed => t \in failed')
    <2>1. \A t \in Streams \ {s} : t \in failed => t \in failed'
      BY <1>5
    <2> QED BY <1>4, <1>6, <1>15, <2>1
  <1>17. /\ some \in SUBSET Writes
         /\ \A w \in some : w.what = "on" => st[w.end[2]] = "enabled" /\ w.end[2] # s
         /\ some \subseteq whole => \A w \in some : w.bank = bank
    <2>1. \A w \in Writes : w.end[2] \in Streams
      BY DEF Writes, Ends
    <2>2. \A w \in whole \cup ToSet(back) :
            w \in Writes /\ (w.what = "on" => w \in All(ws))
      BY <1>7, <1>9, <1>11, <1>12 DEF ProgramOf
    <2>3. \A w \in All(ws) : w.what = "on" => st[w.end[2]] = "enabled" /\ w.end[2] # s
      BY <1>6, <1>9, <2>1 DEF ProgramOf
    <2>4. \A w \in whole : w.bank = bank
      BY <1>7, <1>9, <1>11 DEF ProgramOf
    <2> QED BY <2>2, <2>3, <2>4
  <1>18. \/ /\ curr' = curr /\ \A w \in some : w.bank = bank
         \/ /\ curr' = bank
            /\ \A t \in Streams, d \in Devices : st'[t] = "enabled" =>
                 Does(some, "par", <<d, t>>, bank) /\ Does(some, "on", <<d, t>>, bank)
    <2>1. CASE curr' = curr /\ some \subseteq whole
      BY <1>17, <2>1
    <2>2. CASE curr' = bank /\ whole \subseteq some
      <3>1. st' = state
        BY <1>3, <1>15, <2>2
      <3>2. All(ws) \subseteq some
        BY <1>7, <2>2
      <3> QED BY <1>9, <2>2, <3>1, <3>2 DEF ProgramOf, Does
    <2> QED BY <1>14, <2>1, <2>2
  <1>19. s \in failed' \/ \A d \in Devices, b \in Bank : Does(some, "off", <<d, s>>, b)
    <2>1. CASE whole \cup ToSet(back) \subseteq some
      <3>1. ToSet(off) \subseteq some /\ ToSet(back) \subseteq some
        BY <1>7, <2>1
      <3> QED BY <1>3, <1>11, <1>12, <3>1 DEF Does
    <2> QED BY <1>14, <2>1
  <1>20. PortsTyped' /\ InPlace' /\ Live' /\ QuietInBothBanks'
    <2>1. /\ regs' = After(regs, some) /\ some \in SUBSET Writes
          /\ \A w \in some : w.what = "on" => st[w.end[2]] = "enabled" \/ w.end[2] = s
          /\ \/ s \in failed' \/ st'[s] = "enabled"
             \/ /\ \A w \in some : w.what = "on" => w.end[2] # s
                /\ \A d \in Devices, b \in Bank : Does(some, "off", <<d, s>>, b)
      BY <1>14, <1>17, <1>19
    <2> QED BY <1>1, <1>2, <1>7, <1>8, <1>16, <1>18, <2>1, OperationSafe
  <1>21. PreparedIsEnabled' /\ Noted'
    <2>1. ~prepared[s] /\ prepared' = prepared
      BY <1>1, <1>2 DEF Calling
    <2>2. s \in failed' \/ st'[s] # "enabled"
      BY <1>6, <1>15
    <2> QED BY <1>1, <1>2, <1>16, <2>1, <2>2, OperationNoted
  <1> QED BY <1>20, <1>21 DEF PortInv

LEMMA RejectedKeepsPorts ==
  ASSUME CallsAndPorts, NEW s \in Streams, NEW op, NEW needless, NEW allowed,
         op = "disable" => "enabled" \in allowed,
         op = "enable" => needless = "enabled",
         Rejected(s, op, needless, allowed)
  PROVE  PortInv'
  <1>1. /\ CallTyped /\ Calling /\ PortsTyped /\ InPlace /\ PreparedIsEnabled /\ Noted
        /\ Live /\ QuietInBothBanks
    BY DEF CallsAndPorts, PortInv
  <1>2. /\ call.s = s /\ call.todo # <<>> /\ Head(call.todo) = op
        /\ st[s] \notin allowed
        /\ UNCHANGED <<slaves, list, mport, curr, st, regs, failed>>
    BY DEF Rejected, Doing, Unmoved, NoSwitch
  <1>3. prepared' = [prepared EXCEPT ![s] = (op = "enable" /\ st[s] = needless)]
    BY DEF Rejected
  <1>4. PortsTyped' /\ InPlace' /\ Live' /\ QuietInBothBanks'
    BY <1>1, <1>2 DEF PortsTyped, PlacesTyped, InPlace, Live, QuietInBothBanks
  <1>5. ~prepared[s] /\ prepared \in [Streams -> BOOLEAN]
    BY <1>1, <1>2 DEF Calling, CallTyped
  <1>6. \/ s \in failed' \/ st'[s] # "enabled" \/ prepared'[s]
    <2>1. CASE op = "disable"
      BY <1>2, <2>1
    <2>2. CASE op = "enable" /\ st[s] = "enabled"
      BY <1>3, <1>5, <2>2
    <2>3. CASE op # "disable" /\ s \notin failed
      <3>1. ~Doing(s, "disable")
        BY <1>2, <2>3 DEF Doing
      <3>2. st[s] # "enabled"
        BY <1>1, <1>5, <2>3, <3>1, OffOrFailed
      <3> QED BY <1>2, <3>2
    <2> QED BY <1>2, <2>1, <2>2, <2>3
  <1>7. prepared'[s] => st'[s] = "enabled"
    BY <1>2, <1>3, <1>5
  <1>8. \A t \in Streams \ {s} : prepared'[t] = prepared[t]
    BY <1>3, <1>5
  <1>9. PreparedIsEnabled' /\ Noted'
    BY <1>1, <1>2, <1>6, <1>7, <1>8, OperationNoted
  <1> QED BY <1>4, <1>9 DEF PortInv

-----------------------------------------------------------------------------
\* The card's own calls, and the end of a stream

\* What call is free to begin, or begun.
LEMMA NoneBegun ==
  ASSUME CallsAndPorts, call = Idle
  PROVE  \A t : ~Doing(t, "disable")
  BY DEF Idle, Doing

LEMMA StartupKeepsPorts ==
  ASSUME CallsAndPorts, NEW s \in Streams, snd_startup(s)
  PROVE  PortInv'
  <1>1. /\ CallTyped /\ Calling /\ PortsTyped /\ InPlace /\ PreparedIsEnabled /\ Noted
        /\ Live /\ QuietInBothBanks
    BY DEF CallsAndPorts, PortInv
  <1>2. /\ call = Idle /\ be[s] = "closed" /\ st' = [st EXCEPT ![s] = "allocated"]
        /\ UNCHANGED <<slaves, list, mport, curr, regs, prepared, call, failed>>
    BY DEF snd_startup
  <1>3. st' \in [Streams -> States] /\ st'[s] = "allocated"
        /\ \A t \in Streams \ {s} : st'[t] = st[t]
    BY <1>1, <1>2 DEF PortsTyped, States
  <1>4. ~prepared[s] /\ \A t : ~Doing(t, "disable")
    BY <1>1, <1>2, NoneBegun DEF Calling
  <1>5. PortsTyped' /\ InPlace'
    BY <1>1, <1>2, <1>3 DEF PortsTyped, PlacesTyped, InPlace, SetUp
  <1>6. Live' /\ QuietInBothBanks'
    BY <1>1, <1>2, <1>3, <1>4, Unwritten
  <1>7. PreparedIsEnabled' /\ Noted'
    BY <1>1, <1>2, <1>3, <1>4 DEF PreparedIsEnabled, Noted
  <1> QED BY <1>5, <1>6, <1>7 DEF PortInv

LEMMA ClosedKeepsPorts ==
  ASSUME CallsAndPorts, NEW s \in Streams, snd_shutdown(s) \/ snd_hw_params_fails(s)
  PROVE  PortInv'
  <1>1. /\ CallTyped /\ Calling /\ PortsTyped /\ InPlace /\ PreparedIsEnabled /\ Noted
        /\ Live /\ QuietInBothBanks
    BY DEF CallsAndPorts, PortInv
  <1>2. UNCHANGED <<st, slaves, list, mport, curr, regs, prepared, call, failed>>
    BY DEF snd_shutdown, snd_hw_params_fails
  <1> QED BY <1>1, <1>2 DEF PortInv, PortsTyped, PlacesTyped, InPlace, PreparedIsEnabled,
              Noted, Live, QuietInBothBanks, Doing

LEMMA HwParamsKeepsPorts ==
  ASSUME CallsAndPorts, NEW s \in Streams, snd_hw_params(s)
  PROVE  PortInv'
  <1>1. /\ CallTyped /\ Calling /\ PortsTyped /\ InPlace /\ PreparedIsEnabled /\ Noted
        /\ Live /\ QuietInBothBanks
    BY DEF CallsAndPorts, PortInv
  <1>2. /\ call = Idle /\ (be[s] = "open" \/ ~prepared[s])
        /\ st' = [st EXCEPT ![s] = "configured"]
        /\ slaves' = [slaves EXCEPT ![s] = Amps] /\ mport' = mport \cup {s}
        /\ list' = IF s \in ToSet(list) THEN list ELSE Append(list, s)
        /\ UNCHANGED <<curr, regs, prepared, call, failed>>
    BY DEF snd_hw_params
  <1>3. st' \in [Streams -> States] /\ st'[s] = "configured"
        /\ \A t \in Streams \ {s} : st'[t] = st[t]
    BY <1>1, <1>2 DEF PortsTyped, States, SetUp
  <1>4. ~prepared[s] /\ \A t : ~Doing(t, "disable")
    BY <1>1, <1>2, NoneBegun DEF Calling
  <1>5. slaves' \in [Streams -> SUBSET Amps] /\ slaves'[s] = Amps
        /\ \A t \in Streams \ {s} : slaves'[t] = slaves[t]
    BY <1>1, <1>2 DEF PortsTyped, PlacesTyped
  <1>6. /\ list' \in Seq(Streams)
        /\ \A t \in Streams :
             t = s \/ (\E i \in 1..Len(list) : list[i] = t) => \E i \in 1..Len(list') : list'[i] = t
    <2>1. list \in Seq(Streams) /\ DOMAIN list = 1..Len(list) /\ Len(list) \in Nat
      BY <1>1 DEF PortsTyped, PlacesTyped
    <2>2. CASE s \in ToSet(list)
      BY <1>2, <2>1, <2>2 DEF ToSet
    <2>3. CASE s \notin ToSet(list)
      <3>1. /\ list' \in Seq(Streams) /\ Len(list') = Len(list) + 1
            /\ \A i \in 1..Len(list) : list'[i] = list[i]
            /\ list'[Len(list) + 1] = s
        BY <1>2, <2>1, <2>3
      <3>2. \A i \in 1..Len(list) : i \in 1..(Len(list) + 1)
        BY <2>1
      <3>3. Len(list) + 1 \in 1..(Len(list) + 1)
        BY <2>1
      <3> QED BY <3>1, <3>2, <3>3
    <2> QED BY <2>2, <2>3
  <1>7. PortsTyped' /\ InPlace'
    <2>1. PortsTyped'
      BY <1>1, <1>2, <1>3, <1>5, <1>6 DEF PortsTyped, PlacesTyped
    <2>2. \A t \in Streams : t = s \/ st[t] \in SetUp =>
            slaves'[t] = Amps /\ t \in mport' /\ \E i \in 1..Len(list') : list'[i] = t
      BY <1>1, <1>2, <1>5, <1>6 DEF InPlace
    <2>3. InPlace'
      BY <1>3, <2>2 DEF InPlace
    <2> QED BY <2>1, <2>3
  <1>8. Live' /\ QuietInBothBanks'
    BY <1>1, <1>2, <1>3, <1>4, Unwritten
  <1>9. PreparedIsEnabled' /\ Noted'
    BY <1>1, <1>2, <1>3, <1>4 DEF PreparedIsEnabled, Noted
  <1> QED BY <1>7, <1>8, <1>9 DEF PortInv

LEMMA HeadOfJoined ==
  ASSUME NEW S, NEW p \in Seq(S), NEW q \in Seq(S), p # <<>>
  PROVE  p \o q # <<>> /\ Head(p \o q) = Head(p)
  <1>1. /\ p \o q \in Seq(S) /\ Len(p \o q) = Len(p) + Len(q)
        /\ \A i \in 1..(Len(p) + Len(q)) :
             (p \o q)[i] = IF i <= Len(p) THEN p[i] ELSE q[i - Len(p)]
    BY ConcatProperties
  <1>2. Len(p) \in Nat /\ Len(q) \in Nat /\ Len(p) >= 1
    OBVIOUS
  <1> DEFINE r == p \o q
  <1> HIDE DEF r
  <1>3. r \in Seq(S) /\ Len(r) >= 1 /\ r[1] = p[1]
    BY <1>1, <1>2 DEF r
  <1>4. r # <<>> /\ Head(r) = r[1] /\ Head(p) = p[1]
    BY <1>3
  <1> QED BY <1>3, <1>4 DEF r

LEMMA BegunKeepsPorts ==
  ASSUME CallsAndPorts, NEW s \in Streams, snd_prepare(s) \/ snd_hw_free(s)
  PROVE  PortInv'
  <1> DEFINE first == IF prepared[s] THEN <<"disable", "deprepare">> ELSE <<>>
  <1>1. /\ CallTyped /\ Calling /\ PortsTyped /\ InPlace /\ PreparedIsEnabled /\ Noted
        /\ Live /\ QuietInBothBanks
    BY DEF CallsAndPorts, PortInv
  <1>2. PICK last \in {<<"prepare", "enable">>, <<"remove">>} :
          call' = [s |-> s, todo |-> first \o last]
    BY DEF snd_prepare, snd_hw_free
  <1>3. /\ call = Idle /\ prepared' = [prepared EXCEPT ![s] = FALSE]
        /\ UNCHANGED <<st, slaves, list, mport, curr, regs, failed>>
    BY DEF snd_prepare, snd_hw_free
  <1>4. PortsTyped' /\ InPlace' /\ Live' /\ QuietInBothBanks'
    BY <1>1, <1>3 DEF PortsTyped, PlacesTyped, InPlace, Live, QuietInBothBanks
  <1>5. ~prepared'[s] /\ \A t \in Streams \ {s} : prepared'[t] = prepared[t]
    BY <1>1, <1>3 DEF CallTyped
  <1>6. \A t : ~Doing(t, "disable")
    BY <1>3, NoneBegun
  <1>7. prepared[s] => Doing(s, "disable")'
    <2> SUFFICES ASSUME prepared[s] PROVE Doing(s, "disable")'
      OBVIOUS
    <2> DEFINE op == <<"disable", "deprepare">>
    <2>1. /\ op \in Seq(Ops) /\ last \in Seq(Ops)
          /\ op # <<>> /\ Head(op) = "disable"
      <3>1. "disable" \in Ops /\ "deprepare" \in Ops
        BY DEF Ops
      <3>2. op \in Seq(Ops)
        BY <3>1
      <3>3. <<"prepare", "enable">> \in Seq(Ops) /\ <<"remove">> \in Seq(Ops)
        <4>1. "prepare" \in Ops /\ "enable" \in Ops /\ "remove" \in Ops
          BY DEF Ops
        <4> HIDE DEF op
        <4>2. <<"prepare", "enable">> \in Seq(Ops)
          BY <4>1
        <4>3. <<"remove">> \in Seq(Ops)
          BY <4>1
        <4> QED BY <4>2, <4>3
      <3>4. last \in Seq(Ops)
        BY <3>3
      <3>5. op # <<>> /\ Head(op) = "disable"
        OBVIOUS
      <3> QED BY <3>2, <3>4, <3>5
    <2>2. call' = [s |-> s, todo |-> op \o last]
      BY <1>2
    <2> HIDE DEF op
    <2>3. op \o last # <<>> /\ Head(op \o last) = "disable"
      BY <2>1, HeadOfJoined
    <2> QED BY <2>2, <2>3 DEF Doing
  <1>8. PreparedIsEnabled' /\ Noted'
    BY <1>1, <1>3, <1>5, <1>6, <1>7 DEF PreparedIsEnabled, Noted
  <1> QED BY <1>4, <1>8 DEF PortInv

LEMMA Removed ==
  ASSUME NEW S, NEW q \in Seq(S), NEW k \in DOMAIN q
  PROVE  /\ RemoveAt(q, k) \in Seq(S)
         /\ \A j \in 1..Len(q) : j # k =>
              \E i \in 1..Len(RemoveAt(q, k)) : RemoveAt(q, k)[i] = q[j]
  <1> DEFINE p == SubSeq(q, 1, k - 1)
             n == Len(q)
             r == SubSeq(q, k + 1, n)
  <1>1. n \in Nat /\ k \in 1..n /\ k - 1 \in Int /\ k + 1 \in Int /\ \A i \in 1..n : q[i] \in S
    OBVIOUS
  <1> HIDE DEF n
  <1>2. /\ p \in Seq(S) /\ Len(p) = k - 1
        /\ \A i \in 1..(k - 1) : p[i] = q[i]
    <2>1. \A i \in 1..(k - 1) : q[i] \in S
      BY <1>1
    <2>2. /\ p \in Seq(S) /\ Len(p) = IF 1 <= k - 1 THEN k - 1 - 1 + 1 ELSE 0
          /\ \A i \in 1..(k - 1 - 1 + 1) : p[i] = q[1 + i - 1]
      BY <1>1, <2>1, SubSeqProperties
    <2> HIDE DEF p
    <2>3. k - 1 - 1 + 1 = k - 1 /\ \A i \in 1..(k - 1) : 1 + i - 1 = i
      BY <1>1
    <2>4. Len(p) = k - 1
      BY <1>1, <2>2
    <2> QED BY <2>2, <2>3, <2>4
  <1>3. /\ r \in Seq(S) /\ Len(r) = n - k
        /\ \A i \in 1..(n - k) : r[i] = q[k + i]
    <2>1. \A i \in (k + 1)..n : q[i] \in S
      BY <1>1
    <2>2. /\ r \in Seq(S) /\ Len(r) = IF k + 1 <= n THEN n - (k + 1) + 1 ELSE 0
          /\ \A i \in 1..(n - (k + 1) + 1) : r[i] = q[(k + 1) + i - 1]
      BY <1>1, <2>1, SubSeqProperties
    <2> HIDE DEF r
    <2>0. k \in Int /\ n \in Int
      BY <1>1
    <2>3. n - (k + 1) + 1 = n - k /\ \A i \in 1..(n - k) : (k + 1) + i - 1 = k + i
      BY <2>0
    <2>4. Len(r) = n - k
      BY <1>1, <2>2
    <2> QED BY <2>2, <2>3, <2>4
  <1>4. RemoveAt(q, k) = p \o r
    BY DEF RemoveAt, n
  <1> HIDE DEF p, r
  <1>5. /\ p \o r \in Seq(S) /\ Len(p \o r) = Len(p) + Len(r)
        /\ \A i \in 1..(Len(p) + Len(r)) :
             (p \o r)[i] = IF i <= Len(p) THEN p[i] ELSE r[i - Len(p)]
    BY <1>2, <1>3, ConcatProperties
  <1>6. ASSUME NEW j \in 1..n, j # k
        PROVE  \E i \in 1..Len(p \o r) : (p \o r)[i] = q[j]
    <2>1. CASE j < k
      <3>1. j \in 1..(k - 1) /\ j \in 1..(Len(p) + Len(r)) /\ j <= Len(p)
        BY <1>1, <1>2, <1>3, <2>1
      <3> QED BY <1>2, <1>5, <3>1
    <2>2. CASE j > k
      <3> DEFINE i == j - 1
      <3>0. /\ k \in Int /\ n \in Int /\ j \in Int /\ 1 <= k /\ k <= n /\ j <= n
            /\ Len(p) = k - 1 /\ Len(r) = n - k
        BY <1>1, <1>2, <1>3
      <3> DEFINE lp == Len(p)
                 lr == Len(r)
      <3> HIDE DEF lp, lr
      <3>1. /\ i \in 1..(Len(p) + Len(r)) /\ ~(i <= Len(p)) /\ i - Len(p) = j - k
            /\ j - k \in 1..(n - k) /\ k + (j - k) = j
        <4>1. lp = k - 1 /\ lr = n - k
          BY <3>0 DEF lp, lr
        <4>2. i \in 1..(lp + lr)
          BY <2>2, <3>0, <4>1
        <4>3. ~(i <= lp) /\ i - lp = j - k
          BY <2>2, <3>0, <4>1
        <4>4. j - k \in 1..(n - k) /\ k + (j - k) = j
          BY <2>2, <3>0
        <4> QED BY <4>2, <4>3, <4>4 DEF lp, lr
      <3> HIDE DEF i
      <3>2. (p \o r)[i] = r[j - k] /\ r[j - k] = q[j]
        BY <1>3, <1>5, <3>1
      <3> QED BY <1>5, <3>1, <3>2
    <2> QED BY <1>1, <1>6, <2>1, <2>2
  <1> QED BY <1>4, <1>5, <1>6 DEF n

LEMMA RemoveKeepsPorts ==
  ASSUME CallsAndPorts, NEW s \in Streams, sdw_stream_remove(s)
  PROVE  PortInv'
  <1>1. /\ CallTyped /\ Calling /\ PortsTyped /\ InPlace /\ PreparedIsEnabled /\ Noted
        /\ Live /\ QuietInBothBanks
    BY DEF CallsAndPorts, PortInv
  <1>2. /\ call.s = s /\ call.todo # <<>> /\ Head(call.todo) = "remove"
        /\ slaves' = [slaves EXCEPT ![s] = {}] /\ mport' = mport \ {s}
        /\ st' = [st EXCEPT ![s] = "released"]
        /\ UNCHANGED <<curr, regs, prepared, failed>>
    BY DEF sdw_stream_remove, Doing, NoSwitch
  <1>3. PICK k \in DOMAIN list : list[k] = s /\ list' = RemoveAt(list, k)
    BY DEF sdw_stream_remove
  <1>4. st' \in [Streams -> States] /\ st'[s] = "released"
        /\ \A t \in Streams \ {s} : st'[t] = st[t]
    BY <1>1, <1>2 DEF PortsTyped, States
  <1>5. ~prepared[s] /\ ~Doing(s, "disable")
    BY <1>1, <1>2 DEF Calling, Doing
  <1>6. /\ list' \in Seq(Streams)
        /\ \A t \in Streams \ {s} :
             (\E i \in 1..Len(list) : list[i] = t) => \E i \in 1..Len(list') : list'[i] = t
    <2>1. list \in Seq(Streams)
      BY <1>1 DEF PortsTyped, PlacesTyped
    <2>2. /\ list' \in Seq(Streams)
          /\ \A j \in 1..Len(list) : j # k => \E i \in 1..Len(list') : list'[i] = list[j]
      BY <1>3, <2>1, Removed
    <2> QED BY <1>3, <2>2
  <1>7. slaves' \in [Streams -> SUBSET Amps]
        /\ \A t \in Streams \ {s} : slaves'[t] = slaves[t]
    BY <1>1, <1>2 DEF PortsTyped, PlacesTyped
  <1>8. PortsTyped'
    BY <1>1, <1>2, <1>4, <1>6, <1>7 DEF PortsTyped, PlacesTyped
  <1>9. InPlace'
    <2> SUFFICES ASSUME NEW t \in Streams, st'[t] \in SetUp
                 PROVE  slaves'[t] = Amps /\ t \in mport' /\ \E i \in 1..Len(list') : list'[i] = t
      BY DEF InPlace
    <2>1. t # s
      BY <1>4 DEF SetUp
    <2>2. st[t] \in SetUp
      BY <1>4, <2>1
    <2> QED BY <1>1, <1>2, <1>6, <1>7, <2>1, <2>2 DEF InPlace
  <1>10. Live' /\ QuietInBothBanks'
    BY <1>1, <1>2, <1>4, <1>5, Unwritten
  <1>11. PreparedIsEnabled' /\ Noted'
    BY <1>1, <1>2, <1>4, <1>5, OperationNoted
  <1> QED BY <1>8, <1>9, <1>10, <1>11 DEF PortInv

\* No call of the bus disturbs the ports.
LEMMA CallKeepsPorts ==
  ASSUME CallsAndPorts, NEW s \in Streams,
         \/ snd_startup(s) \/ snd_shutdown(s) \/ snd_hw_params(s) \/ snd_hw_params_fails(s)
         \/ snd_prepare(s) \/ snd_hw_free(s)
         \/ sdw_prepare_stream(s) \/ sdw_prepare_stream_rejects(s)
         \/ sdw_enable_stream(s) \/ sdw_enable_stream_rejects(s)
         \/ sdw_disable_stream(s) \/ sdw_disable_stream_rejects(s)
         \/ sdw_deprepare_stream(s) \/ sdw_deprepare_stream_rejects(s)
         \/ sdw_stream_remove(s)
  PROVE  PortInv'
  <1>1. ASSUME \/ sdw_prepare_stream_rejects(s) \/ sdw_enable_stream_rejects(s)
               \/ sdw_disable_stream_rejects(s) \/ sdw_deprepare_stream_rejects(s)
        PROVE  PortInv'
    <2>1. PICK op, needless, allowed :
            /\ op = "disable" => "enabled" \in allowed
            /\ op = "enable" => needless = "enabled"
            /\ Rejected(s, op, needless, allowed)
      BY <1>1 DEF sdw_prepare_stream_rejects, sdw_enable_stream_rejects,
         sdw_disable_stream_rejects, sdw_deprepare_stream_rejects
    <2> QED BY <2>1, RejectedKeepsPorts
  <1> QED BY <1>1, StartupKeepsPorts, ClosedKeepsPorts, HwParamsKeepsPorts, BegunKeepsPorts,
              PrepareKeepsPorts, EnableKeepsPorts, DisableKeepsPorts, DeprepareKeepsPorts,
              RemoveKeepsPorts

LEMMA VarsKeepPorts ==
  ASSUME PortInv, UNCHANGED vars
  PROVE  PortInv'
  <1>1. UNCHANGED <<st, slaves, list, mport, curr, regs, prepared, call, failed>>
    BY DEF vars
  <1> QED BY <1>1 DEF PortInv, PortsTyped, PlacesTyped, InPlace, PreparedIsEnabled,
              Noted, Live, QuietInBothBanks, Doing

LEMMA PortsInit ==
  ASSUME Init
  PROVE  PortInv
  <1>1. /\ st = [s \in Streams |-> "allocated"] /\ slaves = [s \in Streams |-> {}]
        /\ list = <<>> /\ curr = 0 /\ regs = [b \in Bank |-> [par |-> {}, on |-> {}]]
        /\ prepared = [s \in Streams |-> FALSE]
    BY DEF Init
  <1>2. [par |-> {}, on |-> {}] \in Side
    BY DEF Side
  <1>3. PortsTyped
    BY <1>1, <1>2 DEF PortsTyped, PlacesTyped, States, Bank
  <1>4. \A s \in Streams : st[s] = "allocated" /\ ~prepared[s]
    BY <1>1
  <1>5. \A b \in Bank : regs[b].on = {}
    BY <1>1
  <1>6. InPlace /\ PreparedIsEnabled /\ Noted /\ Live
    BY <1>4 DEF InPlace, PreparedIsEnabled, Noted, Live, SetUp
  <1>7. QuietInBothBanks
    BY <1>5 DEF QuietInBothBanks
  <1> QED BY <1>3, <1>6, <1>7 DEF PortInv

LEMMA PortsStep ==
  BusInv /\ PortInv /\ [BusNext]_busVars => PortInv'
  <1> SUFFICES ASSUME BusInv, PortInv, [BusNext]_busVars PROVE PortInv'
    OBVIOUS
  <1>1. CallsAndPorts
    BY DEF CallsAndPorts, BusInv
  <1>2. ASSUME UNCHANGED vars PROVE PortInv'
    BY <1>2, VarsKeepPorts
  <1>3. ASSUME NEW s \in Streams,
               Startup(s) \/ StartupRefused(s) \/ HwParams(s) \/ BusCall(s)
        PROVE  PortInv'
    <2>1. CASE Startup(s)
      BY <1>1, <2>1, CallKeepsPorts DEF Startup
    <2>2. CASE StartupRefused(s)
      BY <1>2, <2>2 DEF StartupRefused
    <2>3. CASE HwParams(s)
      BY <1>1, <2>3, CallKeepsPorts DEF HwParams
    <2>4. CASE BusCall(s)
      BY <1>1, <2>4, CallKeepsPorts DEF BusCall
    <2> QED BY <1>3, <2>1, <2>2, <2>3, <2>4
  <1>4. ASSUME NEW s \in Streams, DapmStart(s) \/ DapmStop(s) PROVE UNCHANGED vars
    BY <1>4 DEF DapmStart, DapmStop
  <1>5. ASSUME MasterSleeps \/ MacroSleeps \/ BusControl \/ BusLink PROVE UNCHANGED vars
    BY <1>5 DEF MasterSleeps, MacroSleeps, BusControl, BusLink
  <1>6. ASSUME BusInterrupt PROVE UNCHANGED vars
    BY <1>6 DEF BusInterrupt
  <1>7. ASSUME UNCHANGED busVars PROVE UNCHANGED vars
    BY <1>7 DEF busVars
  <1> QED BY <1>2, <1>3, <1>4, <1>5, <1>6, <1>7 DEF BusNext

\* A stream that runs is programmed and enabled at all its ends in the bank
\* that hardware uses, once software agrees with it; one that was stopped
\* without error is on in neither bank; and the card's note that a stream is
\* prepared is true: for any number of streams and amplifiers, with every
\* write, broadcast and allocation that may fail.
THEOREM PortsCorrect == BusSpec => []PortsFollowStreams
  <1>1. PortInv => PortsFollowStreams
    <2> SUFFICES ASSUME PortInv PROVE PortsFollowStreams
      OBVIOUS
    <2>1. PlacesTyped /\ Live /\ QuietInBothBanks /\ PreparedIsEnabled
      BY DEF PortInv, PortsTyped
    <2>2. EnabledIsLive
      <3> SUFFICES ASSUME hw = curr, NEW s \in Streams, st[s] = "enabled",
                          NEW e \in ToSet(EndsOf(s))
                   PROVE  e \in regs[hw].par \cap regs[hw].on
        BY DEF EnabledIsLive
      <3> DEFINE ends == EndsOf(s)
      <3>1. ends \in Seq(Ends) /\ \A i \in 1..Len(ends) : ends[i][2] = s
        BY <2>1, EndsOfStream
      <3>2. e \in ToSet(ends)
        OBVIOUS
      <3> HIDE DEF ends
      <3>3. e \in Ends /\ e[2] = s
        BY <3>1, <3>2 DEF ToSet
      <3>4. e = <<e[1], s>> /\ e[1] \in Devices
        BY <3>3 DEF Ends
      <3> QED BY <2>1, <3>4 DEF Live
    <2> QED BY <2>1, <2>2 DEF PortsFollowStreams
  <1>2. BusSpec => []PortInv
    <2>1. BusInit => PortInv
      BY PortsInit DEF BusInit
    <2> QED BY <2>1, BusInvCorrect, PortsStep, PTL DEF BusSpec
  <1> QED BY <1>1, <1>2, PTL

-----------------------------------------------------------------------------
\* Folds

LEMMA LeastIs ==
  ASSUME NEW S, S \subseteq Nat, S # {}
  PROVE  \E x \in S : \A y \in S : x <= y
  <1>1. \E x \in S : \A y \in S : ~(<<y, x>> \in OpToRel(<, Nat))
    BY NatLessThanWellFounded, WFMin, Zenon
  <1>2. PICK x \in S : \A y \in S : ~(<<y, x>> \in OpToRel(<, Nat))
    BY <1>1
  <1>3. ASSUME NEW y \in S PROVE x <= y
    <2>1. <<y, x>> \in Nat \X Nat
      OBVIOUS
    <2>2. ~(y < x)
      BY <1>2, <2>1 DEF OpToRel
    <2> QED BY <2>2
  <1> QED BY <1>3

\* What holds of 0, and of each number if of the one before, holds up to n.
LEMMA GoesUp ==
  ASSUME NEW n \in Nat, NEW S, 0 \in S, \A k \in 1 .. n : k - 1 \in S => k \in S
  PROVE  \A k \in 0 .. n : k \in S
  <1> SUFFICES ASSUME NEW T, T = (0 .. n) \ S, T # {} PROVE FALSE
    OBVIOUS
  <1>1. T \subseteq Nat
    OBVIOUS
  <1>2. PICK k \in T : \A y \in T : k <= y
    BY <1>1, LeastIs
  <1>3. k \in 0 .. n /\ k \notin S /\ k # 0
    BY <1>2
  <1>4. k \in 1 .. n /\ k - 1 \in 0 .. n /\ ~(k <= k - 1)
    BY <1>3
  <1>5. k - 1 \in S
    BY <1>2, <1>4
  <1> QED BY <1>3, <1>4, <1>5

LEMMA HighestIs ==
  ASSUME NEW k \in Nat, NEW s, s \subseteq 1 .. k, k \in s
  PROVE  Max(s) = k
  <1>0. \A y \in s : y \in Int /\ y <= k
    OBVIOUS
  <1>1. \E x \in s : \A y \in s : x >= y
    BY <1>0
  <1>2. Max(s) \in s /\ \A y \in s : Max(s) >= y
    BY <1>1, Zenon DEF Max
  <1>3. PICK x \in s : x = Max(s)
    BY <1>2
  <1>4. x >= k /\ x \in Int /\ x <= k
    BY <1>0, <1>2, <1>3
  <1> QED BY <1>3, <1>4

LEMMA HighestOf ==
  ASSUME NEW n \in Nat, NEW s, s \subseteq 1 .. n, s # {}
  PROVE  Max(s) \in s
  <1>1. PICK T : T = {i \in 0 .. n : \A y \in s : n - i >= y \/ \E x \in s : \A z \in s : x >= z}
    OBVIOUS
  <1>2. 0 \in T
    BY <1>1
  <1>3. ASSUME NEW i \in 1 .. n, i - 1 \in T PROVE i \in T
    <2>1. CASE \E x \in s : \A z \in s : x >= z
      BY <1>1, <2>1
    <2>2. CASE ~\E x \in s : \A z \in s : x >= z
      <3>1. \A y \in s : n - (i - 1) >= y /\ y \in 1 .. n
        BY <1>1, <1>3, <2>2
      <3>2. n - (i - 1) \notin s
        BY <2>2, <3>1
      <3>3. \A y \in s : n - i >= y
        BY <3>1, <3>2
      <3> QED BY <1>1, <3>3
    <2> QED BY <2>1, <2>2
  <1>4. n \in T
    BY <1>2, <1>3, GoesUp
  <1>6. \A y \in s : ~(n - n >= y)
    OBVIOUS
  <1>5. \E x \in s : \A z \in s : x >= z
    BY <1>1, <1>4, <1>6
  <1> QED BY <1>5, Zenon DEF Max

Folded(h, G, base, m) ==
  \A s \in SUBSET (1 .. m) : h[s] = IF s = {} THEN base ELSE G[<<h[s \ {Max(s)}], Max(s)>>]

\* The recursion that a fold over n elements is defined by has a solution.
LEMMA FoldExists ==
  ASSUME NEW n \in Nat, NEW V, NEW base \in V, NEW G \in [V \X (1 .. n) -> V]
  PROVE  \E h \in [SUBSET (1 .. n) -> V] : Folded(h, G, base, n)
  <1>1. PICK S : S = {m \in 0 .. n : \E h \in [SUBSET (1 .. m) -> V] : Folded(h, G, base, m)}
    OBVIOUS
  <1>2. 0 \in S
    <2>0. 0 \in 0 .. n
      OBVIOUS
    <2>1. PICK h : h = [s \in SUBSET (1 .. 0) |-> base]
      OBVIOUS
    <2>3. \A s \in SUBSET (1 .. 0) : s = {}
      OBVIOUS
    <2>2. h \in [SUBSET (1 .. 0) -> V] /\ Folded(h, G, base, 0)
      BY <2>1, <2>3 DEF Folded
    <2> QED BY <1>1, <2>0, <2>2
  <1>3. ASSUME NEW k \in 1 .. n, k - 1 \in S PROVE k \in S
    <2>1. PICK m \in 0 .. n : m = k - 1 /\ k = m + 1
      OBVIOUS
    <2>2. PICK h \in [SUBSET (1 .. m) -> V] : Folded(h, G, base, m)
      BY <1>1, <1>3, <2>1
    <2>3. PICK g : g = [s \in SUBSET (1 .. k) |-> IF k \in s THEN G[<<h[s \ {k}], k>>] ELSE h[s]]
      OBVIOUS
    <2>4. ASSUME NEW s \in SUBSET (1 .. k)
          PROVE  /\ g[s] \in V
                 /\ g[s] = IF s = {} THEN base ELSE G[<<g[s \ {Max(s)}], Max(s)>>]
      <3>1. CASE k \in s
        <4>1. Max(s) = k
          <5>1. k \in Nat /\ s \subseteq 1 .. k
            OBVIOUS
          <5> QED BY <3>1, <5>1, HighestIs
        <4>2. s \ {k} \in SUBSET (1 .. m)
          BY <2>1
        <4>5. s \ {k} \in SUBSET (1 .. k) /\ k \notin s \ {k}
          OBVIOUS
        <4>3. h[s \ {k}] \in V /\ g[s \ {k}] = h[s \ {k}] /\ g[s] = G[<<h[s \ {k}], k>>]
          BY <2>2, <2>3, <3>1, <4>2, <4>5
        <4> QED BY <3>1, <4>1, <4>3
      <3>2. CASE k \notin s
        <4>1. s \in SUBSET (1 .. m)
          BY <2>1, <3>2
        <4>2. g[s] = h[s] /\ h[s] \in V
          BY <2>2, <2>3, <3>2, <4>1
        <4>3. PICK r : r = s \ {Max(s)}
          OBVIOUS
        <4>4. r \in SUBSET (1 .. m) /\ r \in SUBSET (1 .. k) /\ k \notin r
          BY <3>2, <4>1, <4>3
        <4>5. g[r] = h[r]
          BY <2>3, <4>4
        <4>6. h[s] = IF s = {} THEN base ELSE G[<<h[r], Max(s)>>]
          BY <2>2, <4>1, <4>3 DEF Folded
        <4> QED BY <4>2, <4>3, <4>5, <4>6
      <3> QED BY <3>1, <3>2
    <2>5. g \in [SUBSET (1 .. k) -> V] /\ Folded(g, G, base, k)
      BY <2>3, <2>4 DEF Folded
    <2> QED BY <1>1, <2>5
  <1>4. n \in S
    BY <1>2, <1>3, GoesUp
  <1> QED BY <1>1, <1>4

LEMMA Prefix ==
  ASSUME NEW n \in Nat, NEW k \in 1 .. n
  PROVE  /\ 1 .. k \in SUBSET (1 .. n) /\ 1 .. k # {} /\ Max(1 .. k) = k
         /\ (1 .. k) \ {k} = 1 .. (k - 1) /\ k - 1 \in 0 .. n
  <1>1. k \in 1 .. k /\ 1 .. k \subseteq 1 .. k /\ k \in Nat
    OBVIOUS
  <1>2. PICK s : s = 1 .. k
    OBVIOUS
  <1>3. Max(s) = k
    BY <1>1, <1>2, HighestIs
  <1> QED BY <1>2, <1>3


-----------------------------------------------------------------------------
\* The runtimes

AmpCount == Len(AmpSeq)
Labels == Kinds \cup {Garbage}
SlaveRec == [amp : Speakers, ports : Seq(Labels)]
PortRec == [num : 0 .. MaxPort, mask : SUBSET (Speakers \X Labels)]
Rt == [slaves : Seq(SlaveRec), ports : Seq(PortRec)]
Todo(j) == SubSeq(Append(AmpSeq, Master), j + 1, AmpCount + 1)
LaneSet(s) == IF s = "render" THEN {"dac", "comp", "boost"} ELSE {s}

\* What the slaves send, on which ports of the master; and the ports it has.
Sent(m) ==
  {q \in Speakers \X Labels :
     \E i \in DOMAIN m.slaves :
        m.slaves[i].amp = q[1] /\ \E k \in DOMAIN m.slaves[i].ports : m.slaves[i].ports[k] = q[2]}
Numbers(m) == {PortMap[q[1]][q[2]] : q \in Sent(m)}
PortNums(m) == {m.ports[i].num : i \in DOMAIN m.ports}

Chosen(s, p) ==
  /\ p \in Seq(LaneSet(s))
  /\ \A i, j \in DOMAIN p : p[i] = p[j] => i = j

Carries(m) ==
  /\ \A q \in Sent(m) : \E i \in DOMAIN m.ports :
        m.ports[i].num = PortMap[q[1]][q[2]] /\ q \in m.ports[i].mask
  /\ \A i, j \in DOMAIN m.ports : m.ports[i].num = m.ports[j].num => i = j

Amped(m, n) ==
  /\ Len(m.slaves) = n
  /\ \A i \in 1 .. n : m.slaves[i].amp = AmpSeq[i] /\ m.slaves[i].ports # <<>>

\* A runtime of stream s of which n amplifiers are done: in phase ph, counted
\* mc times; re are the streams resized, who is being added to, sy whether strayed.
RtOk(s, n, m, ph, mc, re, who, sy) ==
  /\ Amped(m, n)
  /\ ph = "open" => m.ports = <<>>
  /\ m.ports = <<>> => mc <= 0
  /\ s \notin re =>
       /\ \A i \in 1 .. n : Chosen(s, m.slaves[i].ports)
       /\ m.ports # <<>> => Len(m.ports) = Cardinality(Numbers(m))
       /\ m.ports # <<>> /\ who # s => Carries(m)
  /\ ~sy /\ m.ports # <<>> => PortNums(m) = Numbers(m)

StreamOk(s, n, R, ph, mc, re, who, sy) ==
  /\ \A m, k \in R : m = k
  /\ ph = "closed" => R = {}
  /\ n > 0 => R # {}
  /\ mc <= 1 /\ (R = {} => mc <= 0)
  /\ \A m \in R : RtOk(s, n, m, ph, mc, re, who, sy)

Stands(s, n, ph, who, todo) ==
  /\ ph = "closed" => n = 0
  /\ ph \in {"params", "prepared"} => n = AmpCount
  /\ ph = "open" => IF who = s THEN todo = Todo(n) ELSE n = 0

Typed ==
  /\ enabled \in [Speakers -> SUBSET Kinds] /\ \A a \in Speakers : "cps" \in enabled[a]
  /\ phase \in [Dais -> {"closed", "open", "params", "prepared"}]
  /\ rt \in [Dais -> SUBSET Rt]
  /\ refs \in Int /\ mcount \in [Dais -> Int] /\ taken \in SUBSET (0 .. MaxPort)
  /\ orphaned \in Int /\ broken \in Int /\ switched \in Int
  /\ resized \in SUBSET Dais /\ strayed \in BOOLEAN
  /\ \/ adding = Nobody
     \/ \E s \in Dais, j \in 0 .. AmpCount :
          adding = [s |-> s, todo |-> Todo(j)] /\ phase[s] \in {"open", "params"}

Streamed(s) ==
  \E n \in 0 .. AmpCount :
    /\ Stands(s, n, phase[s], adding.s, adding.todo)
    /\ StreamOk(s, n, rt[s], phase[s], mcount[s], resized, adding.s, strayed)

Held == {s \in Dais : rt[s] # {}}
Counted == refs = orphaned + Cardinality(Held)

Used(n) == \E s \in Dais : \E m \in rt[s] : n \in PortNums(m)
Returned ==
  ~strayed => resized = {} /\ \A n \in 0 .. MaxPort : n \in taken <=> n = 0 \/ Used(n)

RtInv == Typed /\ (\A s \in Dais : Streamed(s)) /\ Counted /\ Returned

-----------------------------------------------------------------------------
\* The ports of the master

Acc == [mask : SUBSET (0 .. MaxPort), entries : Seq(PortRec)]

LEMMA LowestOf ==
  ASSUME NEW s, s \subseteq Nat, s # {}
  PROVE  Min(s) \in s
  <1>1. \E x \in s : \A z \in s : x =< z
    BY LeastIs
  <1> QED BY <1>1, Zenon DEF Min

LEMMA FirstFreeIs ==
  ASSUME NEW mask
  PROVE  FirstFree(mask) \in 0 .. MaxPort
  <1>0. MaxPort \in Nat
    BY RuntimesAssumption
  <1>1. PICK s : s = {n \in 0 .. (MaxPort - 1) : n \notin mask} \cup {MaxPort}
    OBVIOUS
  <1>2. s \subseteq 0 .. MaxPort /\ s \subseteq Nat /\ s # {}
    BY <1>0, <1>1
  <1>3. Min(s) \in s
    BY <1>2, LowestOf
  <1> QED BY <1>1, <1>2, <1>3 DEF FirstFree

\* The port of the master that port p of amplifier a goes to.
PortOf(acc, a, p) == IF p \in Kinds THEN PortMap[a][p] ELSE FirstFree(acc.mask)
Same(acc, n) == {i \in DOMAIN acc.entries : acc.entries[i].num = n}

LEMMA PortOfIs ==
  ASSUME NEW acc, NEW a \in Speakers, NEW p \in Labels
  PROVE  PortOf(acc, a, p) \in 0 .. MaxPort
  <1>1. CASE p \in Kinds
    BY <1>1, RuntimesAssumption DEF PortOf
  <1>2. CASE p \notin Kinds
    BY <1>2, FirstFreeIs DEF PortOf
  <1> QED BY <1>1, <1>2

\* A port that is chosen already carries more; another one comes last.
MergesTo(acc, n, q, mask, entries) ==
  \/ \E j \in DOMAIN acc.entries :
        /\ acc.entries[j].num = n
        /\ mask = acc.mask
        /\ DOMAIN entries = DOMAIN acc.entries
        /\ \A i \in DOMAIN acc.entries :
             entries[i] = IF i = j THEN Port(n, acc.entries[i].mask \cup {q}) ELSE acc.entries[i]
  \/ /\ \A i \in DOMAIN acc.entries : acc.entries[i].num # n
     /\ mask = acc.mask \cup {n}
     /\ entries = Append(acc.entries, Port(n, {q}))

LEMMA MergeDoes ==
  ASSUME NEW acc \in Acc, NEW a \in Speakers, NEW p \in Labels, NEW n, n = PortOf(acc, a, p)
  PROVE  /\ Merge(acc, a, p) \in Acc
         /\ MergesTo(acc, n, <<a, p>>, Merge(acc, a, p).mask, Merge(acc, a, p).entries)
  <1>0. n \in 0 .. MaxPort
    BY PortOfIs
  <1>1. PICK same : same = Same(acc, n)
    OBVIOUS
  <1>2. Merge(acc, a, p) =
          IF same # {}
          THEN [acc EXCEPT !.entries =
                  [i \in DOMAIN @ |->
                      IF i = Min(same) THEN Port(n, @[i].mask \cup {<<a, p>>})
                      ELSE @[i]]]
          ELSE [mask |-> acc.mask \cup {n},
                entries |-> Append(acc.entries, Port(n, {<<a, p>>}))]
    BY <1>1, Zenon DEF Merge, PortOf, Same
  <1>3. CASE same # {}
    <2>1. same \subseteq Nat
      BY <1>1 DEF Same, Acc
    <2>2. PICK j \in same : j = Min(same)
      BY <1>3, <2>1, LowestOf
    <2>3. j \in DOMAIN acc.entries /\ acc.entries[j].num = n
      BY <1>1 DEF Same
    <2>4. PICK e : e = [i \in DOMAIN acc.entries |->
                          IF i = j THEN Port(n, acc.entries[i].mask \cup {<<a, p>>})
                          ELSE acc.entries[i]]
      OBVIOUS
    <2>5. Merge(acc, a, p) = [acc EXCEPT !.entries = e]
      BY <1>2, <1>3, <2>2, <2>4, Zenon
    <2>6. \A i \in DOMAIN acc.entries : acc.entries[i] \in PortRec
      BY DEF Acc
    <2>7. ASSUME NEW i \in DOMAIN acc.entries
          PROVE  /\ e[i] \in PortRec
                 /\ e[i] = IF i = j THEN Port(n, acc.entries[i].mask \cup {<<a, p>>})
                           ELSE acc.entries[i]
      <3>1. PICK x \in PortRec : x = acc.entries[i]
        BY <2>6
      <3>2. Port(n, x.mask \cup {<<a, p>>}) \in PortRec
        BY <1>0 DEF PortRec, Port
      <3> QED BY <2>4, <3>1, <3>2
    <2>8. e \in Seq(PortRec) /\ DOMAIN e = DOMAIN acc.entries
      <3>1. acc.entries \in Seq(PortRec)
        BY DEF Acc
      <3>2. DOMAIN acc.entries = 1 .. Len(acc.entries) /\ Len(acc.entries) \in Nat
        BY <3>1
      <3>3. e \in [1 .. Len(acc.entries) -> PortRec]
        BY <2>4, <2>7, <3>2
      <3> QED BY <3>2, <3>3, IsASeq
    <2>9. /\ Merge(acc, a, p) \in Acc /\ Merge(acc, a, p).mask = acc.mask
          /\ Merge(acc, a, p).entries = e
      BY <2>5, <2>8 DEF Acc
    <2> QED BY <2>3, <2>7, <2>8, <2>9 DEF MergesTo
  <1>4. CASE same = {}
    <2>1. \A i \in DOMAIN acc.entries : acc.entries[i].num # n
      BY <1>1, <1>4 DEF Same
    <2>2. Port(n, {<<a, p>>}) \in PortRec
      BY <1>0 DEF Port, PortRec
    <2>3. Append(acc.entries, Port(n, {<<a, p>>})) \in Seq(PortRec)
      BY <2>2, AppendProperties DEF Acc
    <2>4. acc.mask \cup {n} \in SUBSET (0 .. MaxPort)
      BY <1>0 DEF Acc
    <2>5. /\ Merge(acc, a, p).mask = acc.mask \cup {n}
          /\ Merge(acc, a, p).entries = Append(acc.entries, Port(n, {<<a, p>>}))
          /\ Merge(acc, a, p) \in Acc
      BY <1>2, <1>4, <2>3, <2>4 DEF Acc
    <2> QED BY <2>1, <2>5 DEF MergesTo
  <1> QED BY <1>3, <1>4

LEMMA MergeTyped ==
  ASSUME NEW acc \in Acc, NEW a \in Speakers, NEW p \in Labels
  PROVE  Merge(acc, a, p) \in Acc
  BY MergeDoes

\* What has been merged: each of S is carried, on a port of its own number, and
\* the ports are those of S.
AccOk(acc, S, base) ==
  /\ \A i, j \in DOMAIN acc.entries : acc.entries[i].num = acc.entries[j].num => i = j
  /\ \A q \in S : \E i \in DOMAIN acc.entries :
        acc.entries[i].num = PortMap[q[1]][q[2]] /\ q \in acc.entries[i].mask
  /\ \A i \in DOMAIN acc.entries : \E q \in S : acc.entries[i].num = PortMap[q[1]][q[2]]
  /\ \A n \in 0 .. MaxPort : n \in acc.mask <=> n \in base \/ \E q \in S : n = PortMap[q[1]][q[2]]

LEMMA AppendIs ==
  ASSUME NEW V, NEW s \in Seq(V), NEW e \in V, NEW r, r = Append(s, e)
  PROVE  /\ r \in Seq(V) /\ Len(r) = Len(s) + 1 /\ Len(s) \in Nat
         /\ DOMAIN s = 1 .. Len(s) /\ DOMAIN r = 1 .. (Len(s) + 1)
         /\ \A i \in 1 .. Len(s) : r[i] = s[i]
         /\ r[Len(s) + 1] = e
  BY AppendProperties

LEMMA MergeLonger ==
  ASSUME NEW acc \in Acc, NEW a \in Speakers, NEW p \in Labels
  PROVE  Merge(acc, a, p).entries # <<>>
  <1>1. PICK n : n = PortOf(acc, a, p)
    OBVIOUS
  <1>2. acc.entries \in Seq(PortRec) /\ n \in 0 .. MaxPort /\ Port(n, {<<a, p>>}) \in PortRec
    BY <1>1, PortOfIs DEF Acc, Port, PortRec
  <1>3. PICK r : r = Merge(acc, a, p)
    OBVIOUS
  <1>7. MergesTo(acc, n, <<a, p>>, r.mask, r.entries)
    BY <1>1, <1>3, MergeDoes
  <1>4. \/ \E j \in DOMAIN acc.entries : DOMAIN r.entries = DOMAIN acc.entries
        \/ r.entries = Append(acc.entries, Port(n, {<<a, p>>}))
    BY <1>7, Zenon DEF MergesTo
  <1>5. CASE \E j \in DOMAIN acc.entries : DOMAIN r.entries = DOMAIN acc.entries
    BY <1>2, <1>3, <1>5
  <1>6. CASE r.entries = Append(acc.entries, Port(n, {<<a, p>>}))
    <2>1. DOMAIN r.entries = 1 .. (Len(acc.entries) + 1) /\ Len(acc.entries) \in Nat
      BY <1>2, <1>6, AppendIs
    <2> QED BY <1>3, <2>1
  <1> QED BY <1>4, <1>5, <1>6

LEMMA MergeCarries ==
  ASSUME NEW acc \in Acc, NEW a \in Speakers, NEW p \in Kinds,
         NEW S \in SUBSET (Speakers \X Kinds), NEW base, AccOk(acc, S, base)
  PROVE  AccOk(Merge(acc, a, p), S \cup {<<a, p>>}, base)
  <1>1. PICK n : n = PortOf(acc, a, p)
    OBVIOUS
  <1>2. PICK q : q = <<a, p>>
    OBVIOUS
  <1>3. n = PortMap[q[1]][q[2]] /\ n \in 0 .. MaxPort /\ p \in Labels /\ Port(n, {q}) \in PortRec
    BY <1>1, <1>2, PortOfIs DEF PortOf, Labels, Port, PortRec
  <1>4. PICK r : r = Merge(acc, a, p)
    OBVIOUS
  <1>5. PICK e : e = acc.entries
    OBVIOUS
  <1>6. e \in Seq(PortRec)
    BY <1>5 DEF Acc
  <1>7. PICK f : f = r.entries
    OBVIOUS
  <1>8. \/ \E j \in DOMAIN e :
             /\ e[j].num = n
             /\ r.mask = acc.mask
             /\ DOMAIN f = DOMAIN e
             /\ \A i \in DOMAIN e : f[i] = IF i = j THEN Port(n, e[i].mask \cup {q}) ELSE e[i]
        \/ /\ \A i \in DOMAIN e : e[i].num # n
           /\ r.mask = acc.mask \cup {n}
           /\ f = Append(e, Port(n, {q}))
    <2>1. MergesTo(acc, n, q, r.mask, f)
      BY <1>1, <1>2, <1>3, <1>4, <1>7, MergeDoes
    <2> QED BY <1>5, <2>1 DEF MergesTo
  <1>9. /\ \A i, j \in DOMAIN e : e[i].num = e[j].num => i = j
        /\ \A x \in S : \E i \in DOMAIN e : e[i].num = PortMap[x[1]][x[2]] /\ x \in e[i].mask
        /\ \A i \in DOMAIN e : \E x \in S : e[i].num = PortMap[x[1]][x[2]]
        /\ \A k \in 0 .. MaxPort : k \in acc.mask <=> k \in base \/ \E x \in S : k = PortMap[x[1]][x[2]]
    BY <1>5 DEF AccOk
  <1>10. \A m, z : Port(m, z).num = m /\ Port(m, z).mask = z
    BY DEF Port
  <1>11. CASE \E j \in DOMAIN e :
             /\ e[j].num = n
             /\ r.mask = acc.mask
             /\ DOMAIN f = DOMAIN e
             /\ \A i \in DOMAIN e : f[i] = IF i = j THEN Port(n, e[i].mask \cup {q}) ELSE e[i]
    <2>1. PICK j \in DOMAIN e :
             /\ e[j].num = n
             /\ r.mask = acc.mask
             /\ DOMAIN f = DOMAIN e
             /\ \A i \in DOMAIN e : f[i] = IF i = j THEN Port(n, e[i].mask \cup {q}) ELSE e[i]
      BY <1>11
    <2>0. f[j] = Port(n, e[j].mask \cup {q})
      BY <2>1
    <2>3. f[j].num = n /\ f[j].mask = e[j].mask \cup {q}
      BY <2>0 DEF Port
    <2>2. \A i \in DOMAIN e : f[i].num = e[i].num /\ e[i].mask \subseteq f[i].mask
      BY <2>1, <2>3
    <2>4. PICK y \in S : n = PortMap[y[1]][y[2]]
      BY <1>9, <2>1
    <2>5. \A i, k \in DOMAIN f : f[i].num = f[k].num => i = k
      BY <1>9, <2>1, <2>2
    <2>6. ASSUME NEW x \in S \cup {q}
          PROVE  \E i \in DOMAIN f : f[i].num = PortMap[x[1]][x[2]] /\ x \in f[i].mask
      <3>1. CASE x = q
        BY <1>3, <2>1, <2>3, <3>1
      <3>2. CASE x \in S
        BY <1>9, <2>1, <2>2, <3>2
      <3> QED BY <3>1, <3>2
    <2>7. \A i \in DOMAIN f : \E x \in S \cup {q} : f[i].num = PortMap[x[1]][x[2]]
      BY <1>9, <2>1, <2>2
    <2>8. \A k \in 0 .. MaxPort :
             k \in r.mask <=> k \in base \/ \E x \in S \cup {q} : k = PortMap[x[1]][x[2]]
      <3>1. \A k : (\E x \in S \cup {q} : k = PortMap[x[1]][x[2]])
                    <=> (\E x \in S : k = PortMap[x[1]][x[2]])
        BY <1>3, <2>4
      <3>2. r.mask = acc.mask
        BY <2>1
      <3>3. \A k \in 0 .. MaxPort :
               k \in acc.mask <=> k \in base \/ \E x \in S : k = PortMap[x[1]][x[2]]
        BY <1>9
      <3> QED BY <3>1, <3>2, <3>3, Zenon
    <2> QED BY <1>2, <1>4, <1>7, <2>5, <2>6, <2>7, <2>8 DEF AccOk
  <1>12. CASE /\ \A i \in DOMAIN e : e[i].num # n
              /\ r.mask = acc.mask \cup {n}
              /\ f = Append(e, Port(n, {q}))
    <2>0. PICK l \in Nat : l = Len(e)
      BY <1>6
    <2>1. /\ DOMAIN e = 1 .. l /\ DOMAIN f = 1 .. (l + 1)
          /\ \A i \in 1 .. l : f[i] = e[i]
          /\ f[l + 1] = Port(n, {q})
      BY <1>3, <1>6, <1>12, <2>0, AppendIs
    <2>2. f[l + 1].num = n /\ q \in f[l + 1].mask /\ l + 1 \in DOMAIN f
      BY <1>10, <2>1
    <2>3. \A i \in DOMAIN f : i \in DOMAIN e \/ i = l + 1
      BY <2>1
    <2>5. \A i, k \in DOMAIN f : f[i].num = f[k].num => i = k
      BY <1>9, <1>12, <2>1, <2>2, <2>3
    <2>6. ASSUME NEW x \in S \cup {q}
          PROVE  \E i \in DOMAIN f : f[i].num = PortMap[x[1]][x[2]] /\ x \in f[i].mask
      <3>1. CASE x = q
        BY <1>3, <2>2, <3>1
      <3>2. CASE x \in S
        <4>1. PICK i \in DOMAIN e : e[i].num = PortMap[x[1]][x[2]] /\ x \in e[i].mask
          BY <1>9, <3>2
        <4>2. i \in DOMAIN f /\ f[i] = e[i]
          BY <2>1
        <4> QED BY <4>1, <4>2
      <3> QED BY <3>1, <3>2
    <2>7. \A i \in DOMAIN f : \E x \in S \cup {q} : f[i].num = PortMap[x[1]][x[2]]
      BY <1>3, <1>9, <2>1, <2>2, <2>3
    <2>8. \A k \in 0 .. MaxPort :
             k \in r.mask <=> k \in base \/ \E x \in S \cup {q} : k = PortMap[x[1]][x[2]]
      BY <1>3, <1>9, <1>12
    <2> QED BY <1>2, <1>4, <1>7, <2>5, <2>6, <2>7, <2>8 DEF AccOk
  <1> QED BY <1>8, <1>11, <1>12

\* The ports of a slave are merged one by one.
LEMMA MergeSlaveGoes ==
  ASSUME NEW acc \in Acc, NEW x \in SlaveRec, NEW n, n = Len(x.ports)
  PROVE  \E t : /\ t[0] = acc /\ t[n] = MergeSlave(acc, x)
                /\ \A k \in 1 .. n : t[k] = Merge(t[k - 1], x.amp, x.ports[k])
  <1> DEFINE s == x.ports
             Eq(g) == g = [z \in SUBSET DOMAIN s |->
                             IF z = {} THEN acc ELSE Merge(g[z \ {Max(z)}], x.amp, s[Max(z)])]
  <1>0. n \in Nat /\ DOMAIN s = 1 .. n /\ x.amp \in Speakers /\ \A k \in 1 .. n : s[k] \in Labels
    BY DEF SlaveRec
  <1>1. PICK G : G = [z \in Acc \X (1 .. n) |-> Merge(z[1], x.amp, s[z[2]])]
    OBVIOUS
  <1>2. G \in [Acc \X (1 .. n) -> Acc]
    <2>1. ASSUME NEW z \in Acc \X (1 .. n) PROVE Merge(z[1], x.amp, s[z[2]]) \in Acc
      <3>1. z[1] \in Acc /\ s[z[2]] \in Labels
        BY <1>0
      <3> QED BY <1>0, <3>1, MergeTyped
    <2> QED BY <1>1, <2>1
  <1>3. \E g : Eq(g)
    <2>1. PICK h \in [SUBSET (1 .. n) -> Acc] : Folded(h, G, acc, n)
      BY <1>0, <1>2, FoldExists
    <2>2. ASSUME NEW z \in SUBSET DOMAIN s
          PROVE  h[z] = IF z = {} THEN acc ELSE Merge(h[z \ {Max(z)}], x.amp, s[Max(z)])
      <3>1. h[z] = IF z = {} THEN acc ELSE G[<<h[z \ {Max(z)}], Max(z)>>]
        BY <1>0, <2>1 DEF Folded
      <3>2. z # {} => Max(z) \in 1 .. n
        BY <1>0, HighestOf
      <3>3. PICK r \in SUBSET (1 .. n) : r = z \ {Max(z)}
        BY <1>0
      <3>4. h[r] \in Acc
        BY <2>1
      <3>5. z # {} => G[<<h[r], Max(z)>>] = Merge(h[r], x.amp, s[Max(z)])
        BY <1>1, <3>2, <3>4
      <3> QED BY <3>1, <3>3, <3>5
    <2>3. h = [z \in SUBSET DOMAIN s |-> h[z]]
      BY <1>0, <2>1
    <2>4. Eq(h)
      BY <2>2, <2>3, Zenon
    <2> QED BY <2>4
  <1>4. PICK g : Eq(g) /\ MergeSlave(acc, x) = g[DOMAIN s]
    <2>1. MergeSlave(acc, x) = (CHOOSE g : Eq(g))[DOMAIN s]
      BY Zenon DEF MergeSlave, FoldLeft, MapThenFoldSet
    <2>2. Eq(CHOOSE g : Eq(g))
      BY <1>3, Zenon
    <2> QED BY <2>1, <2>2, Zenon
  <1>5. PICK t : t = [k \in 0 .. n |-> g[1 .. k]]
    OBVIOUS
  <1>6. t[0] = acc
    <2>1. {} \in SUBSET DOMAIN s /\ 1 .. 0 = {} /\ 0 \in 0 .. n
      BY <1>0
    <2>2. g[{}] = acc
      BY <1>4, <2>1
    <2> QED BY <1>5, <2>1, <2>2
  <1>7. t[n] = MergeSlave(acc, x)
    BY <1>0, <1>4, <1>5
  <1>8. ASSUME NEW k \in 1 .. n PROVE t[k] = Merge(t[k - 1], x.amp, s[k])
    <2>1. /\ 1 .. k \in SUBSET DOMAIN s /\ 1 .. k # {} /\ Max(1 .. k) = k
          /\ (1 .. k) \ {k} = 1 .. (k - 1) /\ k - 1 \in 0 .. n
      BY <1>0, Prefix
    <2>2. g[1 .. k] = Merge(g[1 .. (k - 1)], x.amp, s[k])
      BY <1>4, <2>1
    <2> QED BY <1>5, <2>1, <2>2
  <1> QED BY <1>6, <1>7, <1>8

SlaveSent(x) == {<<x.amp, x.ports[k]>> : k \in DOMAIN x.ports}

LEMMA MergeSlaveTyped ==
  ASSUME NEW acc \in Acc, NEW x \in SlaveRec
  PROVE  /\ MergeSlave(acc, x) \in Acc
         /\ x.ports # <<>> => MergeSlave(acc, x).entries # <<>>
  <1>0. PICK n \in Nat : n = Len(x.ports)
    BY DEF SlaveRec
  <1>00. x.amp \in Speakers /\ \A k \in 1 .. n : x.ports[k] \in Labels
    BY <1>0 DEF SlaveRec
  <1>1. PICK t : /\ t[0] = acc /\ t[n] = MergeSlave(acc, x)
                 /\ \A k \in 1 .. n : t[k] = Merge(t[k - 1], x.amp, x.ports[k])
    BY <1>0, MergeSlaveGoes
  <1>2. PICK S : S = {k \in 0 .. n : t[k] \in Acc /\ (k > 0 => t[k].entries # <<>>)}
    OBVIOUS
  <1>3. 0 \in S
    BY <1>1, <1>2
  <1>4. ASSUME NEW k \in 1 .. n, k - 1 \in S PROVE k \in S
    <2>1. t[k - 1] \in Acc
      BY <1>2, <1>4
    <2>2. t[k] \in Acc /\ t[k].entries # <<>>
      BY <1>00, <1>1, <2>1, MergeTyped, MergeLonger
    <2> QED BY <1>2, <2>2
  <1>5. n \in S
    BY <1>3, <1>4, GoesUp
  <1>6. x.ports # <<>> => n > 0
    BY <1>0, EmptySeq DEF SlaveRec
  <1> QED BY <1>1, <1>2, <1>5, <1>6

LEMMA MergeSlaveCarries ==
  ASSUME NEW acc \in Acc, NEW x \in SlaveRec, x.ports \in Seq(Kinds),
         NEW S \in SUBSET (Speakers \X Kinds), NEW base, AccOk(acc, S, base)
  PROVE  AccOk(MergeSlave(acc, x), S \cup SlaveSent(x), base)
  <1>0. PICK n \in Nat : n = Len(x.ports)
    BY DEF SlaveRec
  <1>00. /\ x.amp \in Speakers /\ DOMAIN x.ports = 1 .. n
         /\ \A k \in 1 .. n : x.ports[k] \in Labels /\ x.ports[k] \in Kinds
    BY <1>0 DEF SlaveRec, Labels
  <1>1. PICK t : /\ t[0] = acc /\ t[n] = MergeSlave(acc, x)
                 /\ \A k \in 1 .. n : t[k] = Merge(t[k - 1], x.amp, x.ports[k])
    BY <1>0, MergeSlaveGoes
  <1>11. PICK u : u = [k \in 0 .. n |-> S \cup {<<x.amp, x.ports[i]>> : i \in 1 .. k}]
    OBVIOUS
  <1>2. PICK T : T = {k \in 0 .. n : t[k] \in Acc /\ AccOk(t[k], u[k], base)}
    OBVIOUS
  <1>3. 0 \in T
    <2>1. 0 \in 0 .. n /\ u[0] = S
      BY <1>11
    <2> QED BY <1>1, <1>2, <2>1
  <1>4. ASSUME NEW k \in 1 .. n, k - 1 \in T PROVE k \in T
    <2>0. k \in 0 .. n /\ k - 1 \in 0 .. n
      OBVIOUS
    <2>1. t[k - 1] \in Acc /\ AccOk(t[k - 1], u[k - 1], base)
      BY <1>2, <1>4
    <2>2. u[k - 1] \in SUBSET (Speakers \X Kinds)
      BY <1>00, <1>11, <2>0
    <2>3. u[k] = u[k - 1] \cup {<<x.amp, x.ports[k]>>}
      BY <1>11, <2>0
    <2>4. t[k] \in Acc
      BY <1>00, <1>1, <2>1, MergeTyped
    <2>5. AccOk(t[k], u[k], base)
      <3>1. PICK b \in Acc, V \in SUBSET (Speakers \X Kinds) : b = t[k - 1] /\ V = u[k - 1] /\ AccOk(b, V, base)
        BY <2>1, <2>2
      <3>2. PICK a \in Speakers, p \in Kinds : a = x.amp /\ p = x.ports[k]
        BY <1>00
      <3>3. AccOk(Merge(b, a, p), V \cup {<<a, p>>}, base)
        BY <3>1, MergeCarries
      <3>4. t[k] = Merge(b, a, p) /\ u[k] = V \cup {<<a, p>>}
        BY <1>1, <2>3, <3>1, <3>2
      <3> QED BY <3>3, <3>4
    <2> QED BY <1>2, <2>0, <2>4, <2>5
  <1>5. n \in T
    BY <1>3, <1>4, GoesUp
  <1>6. u[n] = S \cup SlaveSent(x)
    BY <1>00, <1>11 DEF SlaveSent
  <1> QED BY <1>1, <1>2, <1>5, <1>6

\* The slaves of a runtime, one by one.
LEMMA MasterPortsGo ==
  ASSUME NEW acc \in Acc, acc = [mask |-> taken, entries |-> <<>>],
         NEW m \in Rt, NEW n, n = Len(m.slaves)
  PROVE  \E t : /\ t[0] = acc /\ t[n] = MasterPorts(m)
                /\ \A k \in 1 .. n : t[k] = MergeSlave(t[k - 1], m.slaves[k])
  <1> DEFINE s == m.slaves
             Eq(g) == g = [z \in SUBSET DOMAIN s |->
                             IF z = {} THEN [mask |-> taken, entries |-> <<>>]
                             ELSE MergeSlave(g[z \ {Max(z)}], s[Max(z)])]
  <1>0. n \in Nat /\ DOMAIN s = 1 .. n /\ \A k \in 1 .. n : s[k] \in SlaveRec
    BY DEF Rt
  <1>1. PICK G : G = [z \in Acc \X (1 .. n) |-> MergeSlave(z[1], s[z[2]])]
    OBVIOUS
  <1>2. G \in [Acc \X (1 .. n) -> Acc]
    <2>1. ASSUME NEW z \in Acc \X (1 .. n) PROVE MergeSlave(z[1], s[z[2]]) \in Acc
      <3>1. z[1] \in Acc /\ s[z[2]] \in SlaveRec
        BY <1>0
      <3> QED BY <3>1, MergeSlaveTyped
    <2> QED BY <1>1, <2>1
  <1>3. \E g : Eq(g)
    <2>1. PICK h \in [SUBSET (1 .. n) -> Acc] : Folded(h, G, acc, n)
      BY <1>0, <1>2, FoldExists
    <2>2. ASSUME NEW z \in SUBSET DOMAIN s
          PROVE  h[z] = IF z = {} THEN acc ELSE MergeSlave(h[z \ {Max(z)}], s[Max(z)])
      <3>1. h[z] = IF z = {} THEN acc ELSE G[<<h[z \ {Max(z)}], Max(z)>>]
        BY <1>0, <2>1 DEF Folded
      <3>2. z # {} => Max(z) \in 1 .. n
        BY <1>0, HighestOf
      <3>3. PICK r \in SUBSET (1 .. n) : r = z \ {Max(z)}
        BY <1>0
      <3>4. h[r] \in Acc
        BY <2>1
      <3>5. z # {} => G[<<h[r], Max(z)>>] = MergeSlave(h[r], s[Max(z)])
        BY <1>1, <3>2, <3>4
      <3> QED BY <3>1, <3>3, <3>5
    <2>3. h = [z \in SUBSET DOMAIN s |-> h[z]]
      BY <1>0, <2>1
    <2>4. Eq(h)
      BY <2>2, <2>3, Zenon
    <2> QED BY <2>4
  <1>4. PICK g : Eq(g) /\ MasterPorts(m) = g[DOMAIN s]
    <2>1. MasterPorts(m) = (CHOOSE g : Eq(g))[DOMAIN s]
      BY Zenon DEF MasterPorts, FoldLeft, MapThenFoldSet
    <2>2. Eq(CHOOSE g : Eq(g))
      BY <1>3, Zenon
    <2> QED BY <2>1, <2>2, Zenon
  <1>5. PICK t : t = [k \in 0 .. n |-> g[1 .. k]]
    OBVIOUS
  <1>6. t[0] = acc
    <2>1. {} \in SUBSET DOMAIN s /\ 1 .. 0 = {} /\ 0 \in 0 .. n
      BY <1>0
    <2>2. g[{}] = acc
      BY <1>4, <2>1
    <2> QED BY <1>5, <2>1, <2>2
  <1>7. t[n] = MasterPorts(m)
    BY <1>0, <1>4, <1>5
  <1>8. ASSUME NEW k \in 1 .. n PROVE t[k] = MergeSlave(t[k - 1], s[k])
    <2>1. /\ 1 .. k \in SUBSET DOMAIN s /\ 1 .. k # {} /\ Max(1 .. k) = k
          /\ (1 .. k) \ {k} = 1 .. (k - 1) /\ k - 1 \in 0 .. n
      BY <1>0, Prefix
    <2>2. g[1 .. k] = MergeSlave(g[1 .. (k - 1)], s[k])
      BY <1>4, <2>1
    <2> QED BY <1>5, <2>1, <2>2
  <1> QED BY <1>6, <1>7, <1>8

\* What hw_params of the master works out: of the ports of its own numbers one
\* each, which carries what the slaves send, if these send real ports.
LEMMA MasterPortsAre ==
  ASSUME NEW m \in Rt, taken \in SUBSET (0 .. MaxPort), NEW got, got = MasterPorts(m)
  PROVE  /\ got \in Acc
         /\ m.slaves # <<>> /\ (\A i \in DOMAIN m.slaves : m.slaves[i].ports # <<>>)
              => got.entries # <<>>
         /\ (\A i \in DOMAIN m.slaves : m.slaves[i].ports \in Seq(Kinds))
              => AccOk(got, Sent(m), taken) /\ Sent(m) \in SUBSET (Speakers \X Kinds)
  <1>0. PICK n \in Nat : n = Len(m.slaves)
    BY DEF Rt
  <1>00. DOMAIN m.slaves = 1 .. n /\ \A k \in 1 .. n : m.slaves[k] \in SlaveRec
    BY <1>0 DEF Rt
  <1>000. PICK acc \in Acc : acc = [mask |-> taken, entries |-> <<>>]
    BY EmptySeq DEF Acc
  <1>1. PICK t : /\ t[0] = acc /\ t[n] = MasterPorts(m)
                 /\ \A k \in 1 .. n : t[k] = MergeSlave(t[k - 1], m.slaves[k])
    BY <1>0, <1>000, MasterPortsGo
  <1>2. got \in Acc /\ (m.slaves # <<>> /\ (\A i \in DOMAIN m.slaves : m.slaves[i].ports # <<>>)
                          => got.entries # <<>>)
    <2>2. PICK T : T = {k \in 0 .. n :
                          /\ t[k] \in Acc
                          /\ k > 0 /\ (\A i \in 1 .. n : m.slaves[i].ports # <<>>)
                               => t[k].entries # <<>>}
      OBVIOUS
    <2>3. 0 \in T
      BY <1>1, <2>2
    <2>4. ASSUME NEW k \in 1 .. n, k - 1 \in T PROVE k \in T
      <3>1. t[k - 1] \in Acc
        BY <2>2, <2>4
      <3>2. t[k] \in Acc /\ (m.slaves[k].ports # <<>> => t[k].entries # <<>>)
        BY <1>00, <1>1, <3>1, MergeSlaveTyped
      <3> QED BY <2>2, <3>2
    <2>5. n \in T
      BY <2>3, <2>4, GoesUp
    <2>6. m.slaves # <<>> => n > 0
      BY <1>0, EmptySeq DEF Rt
    <2> QED BY <1>00, <1>1, <2>2, <2>5, <2>6
  <1>3. ASSUME \A i \in DOMAIN m.slaves : m.slaves[i].ports \in Seq(Kinds)
        PROVE  AccOk(got, Sent(m), taken) /\ Sent(m) \in SUBSET (Speakers \X Kinds)
    <2>1. PICK u : u = [k \in 0 .. n |-> UNION {SlaveSent(m.slaves[i]) : i \in 1 .. k}]
      OBVIOUS
    <2>2. PICK T : T = {k \in 0 .. n : t[k] \in Acc /\ AccOk(t[k], u[k], taken)}
      OBVIOUS
    <2>3. 0 \in T
      <3>1. 0 \in 0 .. n /\ u[0] = {}
        BY <2>1
      <3>2. t[0] \in Acc /\ t[0].entries = <<>> /\ t[0].mask = taken /\ DOMAIN t[0].entries = {}
        BY <1>000, <1>1
      <3>3. AccOk(t[0], {}, taken)
        BY <3>2 DEF AccOk
      <3> QED BY <2>2, <3>1, <3>2, <3>3
    <2>30. ASSUME NEW i \in 1 .. n PROVE SlaveSent(m.slaves[i]) \in SUBSET (Speakers \X Kinds)
      <3>1. m.slaves[i] \in SlaveRec /\ m.slaves[i].ports \in Seq(Kinds)
        BY <1>00, <1>3
      <3> QED BY <3>1 DEF SlaveSent, SlaveRec
    <2>4. ASSUME NEW k \in 1 .. n, k - 1 \in T PROVE k \in T
      <3>0. k \in 0 .. n /\ k - 1 \in 0 .. n
        OBVIOUS
      <3>1. t[k - 1] \in Acc /\ AccOk(t[k - 1], u[k - 1], taken)
        BY <2>2, <2>4
      <3>2. u[k - 1] \in SUBSET (Speakers \X Kinds)
        BY <2>1, <2>30, <3>0
      <3>3. u[k] = u[k - 1] \cup SlaveSent(m.slaves[k])
        BY <2>1, <3>0
      <3>4. m.slaves[k] \in SlaveRec /\ m.slaves[k].ports \in Seq(Kinds)
        BY <1>00, <1>3
      <3>5. t[k] = MergeSlave(t[k - 1], m.slaves[k])
        BY <1>1
      <3>6. t[k] \in Acc
        BY <3>1, <3>4, <3>5, MergeSlaveTyped
      <3>7. AccOk(t[k], u[k], taken)
        BY <3>1, <3>2, <3>3, <3>4, <3>5, MergeSlaveCarries
      <3> QED BY <2>2, <3>0, <3>6, <3>7
    <2>5. n \in T
      BY <2>3, <2>4, GoesUp
    <2>6. u[n] = Sent(m)
      <3>1. u[n] = UNION {SlaveSent(m.slaves[i]) : i \in 1 .. n}
        BY <2>1
      <3>2. ASSUME NEW q \in u[n] PROVE q \in Sent(m)
        <4>1. PICK i \in 1 .. n : q \in SlaveSent(m.slaves[i])
          BY <3>1
        <4>2. PICK x \in SlaveRec : x = m.slaves[i]
          BY <1>00
        <4>3. PICK k \in DOMAIN x.ports : q = <<x.amp, x.ports[k]>>
          BY <4>1, <4>2 DEF SlaveSent
        <4>4. x.amp \in Speakers /\ x.ports[k] \in Labels
          BY DEF SlaveRec
        <4> QED BY <1>00, <4>2, <4>3, <4>4 DEF Sent
      <3>3. ASSUME NEW q \in Sent(m) PROVE q \in u[n]
        <4>1. PICK i \in 1 .. n : m.slaves[i].amp = q[1] /\ \E k \in DOMAIN m.slaves[i].ports : m.slaves[i].ports[k] = q[2]
          BY <1>00 DEF Sent
        <4>2. PICK k \in DOMAIN m.slaves[i].ports : m.slaves[i].ports[k] = q[2]
          BY <4>1
        <4>3. q = <<m.slaves[i].amp, m.slaves[i].ports[k]>>
          BY <4>1, <4>2 DEF Sent
        <4>4. q \in SlaveSent(m.slaves[i])
          BY <4>3 DEF SlaveSent
        <4> QED BY <3>1, <4>4
      <3> QED BY <3>2, <3>3
    <2>7. u[n] \in SUBSET (Speakers \X Kinds)
      BY <2>1, <2>30
    <2> QED BY <1>1, <2>2, <2>5, <2>6, <2>7
  <1> QED BY <1>2, <1>3

\* As many ports as numbers.
LEMMA PortsCounted ==
  ASSUME NEW e \in Seq(PortRec), \A i, j \in DOMAIN e : e[i].num = e[j].num => i = j
  PROVE  Len(e) = Cardinality({e[i].num : i \in DOMAIN e})
  <1>1. PICK n \in Nat : n = Len(e) /\ DOMAIN e = 1 .. n
    OBVIOUS
  <1>2. PICK S : S = {e[i].num : i \in DOMAIN e}
    OBVIOUS
  <1>3. PICK f : f = [i \in 1 .. n |-> e[i].num]
    OBVIOUS
  <1>4. f \in Bijection(1 .. n, S)
    BY <1>1, <1>2, <1>3 DEF Bijection, Injection, Surjection, IsInjective
  <1>5. IsFiniteSet(1 .. n) /\ Cardinality(1 .. n) = n
    BY FS_Interval
  <1>6. ExistsBijection(1 .. n, S)
    BY <1>4 DEF ExistsBijection
  <1>7. Cardinality(1 .. n) = Cardinality(S)
    BY <1>5, <1>6, FS_Bijection
  <1> QED BY <1>1, <1>2, <1>5, <1>7

LEMMA CarriesAfter ==
  ASSUME NEW m, NEW acc \in Acc, NEW base, AccOk(acc, Sent(m), base), acc.entries = m.ports
  PROVE  /\ Carries(m) /\ PortNums(m) = Numbers(m)
         /\ Len(m.ports) = Cardinality(Numbers(m))
  <1>1. PICK e \in Seq(PortRec) : e = m.ports
    BY DEF Acc
  <1>2. /\ \A i, j \in DOMAIN e : e[i].num = e[j].num => i = j
        /\ \A q \in Sent(m) : \E i \in DOMAIN e :
              e[i].num = PortMap[q[1]][q[2]] /\ q \in e[i].mask
        /\ \A i \in DOMAIN e : \E q \in Sent(m) : e[i].num = PortMap[q[1]][q[2]]
    BY <1>1 DEF AccOk
  <1>3. Carries(m)
    BY <1>1, <1>2 DEF Carries
  <1>4. PortNums(m) = Numbers(m)
    BY <1>1, <1>2 DEF PortNums, Numbers
  <1>5. Len(e) = Cardinality(PortNums(m))
    BY <1>1, <1>2, PortsCounted DEF PortNums
  <1> QED BY <1>1, <1>3, <1>4, <1>5

LEMMA RemovesAll ==
  ASSUME NEW m \in Rt, NEW amps, \A i \in DOMAIN m.slaves : m.slaves[i].amp \in amps
  PROVE  RemoveSlaves(m, amps) = [slaves |-> <<>>, ports |-> m.ports]
  <1> DEFINE s == m.slaves
             Eq(g) == g = [z \in SUBSET DOMAIN s |->
                             IF z = {} THEN <<>>
                             ELSE IF s[Max(z)].amp \in amps THEN g[z \ {Max(z)}]
                             ELSE Append(g[z \ {Max(z)}], s[Max(z)])]
             Remaining == FoldLeft(LAMBDA kept, x : IF x.amp \in amps THEN kept ELSE Append(kept, x), <<>>, m.slaves)
  <1>0. PICK n \in Nat : n = Len(s) /\ DOMAIN s = 1 .. n
    BY DEF Rt
  <1>1. PICK h : h = [z \in SUBSET DOMAIN s |-> <<>>]
    OBVIOUS
  <1>2. Eq(h)
    <2>1. ASSUME NEW z \in SUBSET DOMAIN s
          PROVE  h[z] = IF z = {} THEN <<>>
                        ELSE IF s[Max(z)].amp \in amps THEN h[z \ {Max(z)}]
                        ELSE Append(h[z \ {Max(z)}], s[Max(z)])
      <3>1. z # {} => Max(z) \in DOMAIN s
        BY <1>0, HighestOf
      <3>2. z \ {Max(z)} \in SUBSET DOMAIN s
        OBVIOUS
      <3>3. h[z] = <<>> /\ h[z \ {Max(z)}] = <<>>
        BY <1>1, <3>2
      <3>4. z # {} => s[Max(z)].amp \in amps
        BY <3>1
      <3> QED BY <3>3, <3>4, Zenon
    <2>2. h = [z \in SUBSET DOMAIN s |-> h[z]]
      BY <1>1
    <2> QED BY <2>1, <2>2, Zenon
  <1>4. PICK g : Eq(g) /\ Remaining = g[DOMAIN s]
    <2>1. Remaining = (CHOOSE g : Eq(g))[DOMAIN s]
      BY Zenon DEF FoldLeft, MapThenFoldSet
    <2>2. Eq(CHOOSE g : Eq(g))
      BY <1>2, Zenon
    <2> QED BY <2>1, <2>2, Zenon
  <1>5. PICK T : T = {k \in 0 .. n : g[1 .. k] = <<>>}
    OBVIOUS
  <1>6. 0 \in T
    <2>1. {} \in SUBSET DOMAIN s /\ 1 .. 0 = {} /\ 0 \in 0 .. n
      BY <1>0
    <2>2. g[{}] = <<>>
      BY <1>4, <2>1
    <2> QED BY <1>5, <2>1, <2>2
  <1>7. ASSUME NEW k \in 1 .. n, k - 1 \in T PROVE k \in T
    <2>1. /\ 1 .. k \in SUBSET DOMAIN s /\ 1 .. k # {} /\ Max(1 .. k) = k
          /\ (1 .. k) \ {k} = 1 .. (k - 1) /\ k - 1 \in 0 .. n
      BY <1>0, Prefix
    <2>2. s[k].amp \in amps
      BY <1>0
    <2>3. g[1 .. k] = g[1 .. (k - 1)]
      BY <1>4, <2>1, <2>2
    <2> QED BY <1>5, <1>7, <2>3
  <1>8. n \in T
    BY <1>6, <1>7, GoesUp
  <1>9. Remaining = <<>>
    BY <1>0, <1>4, <1>5, <1>8
  <1>10. RemoveSlaves(m, amps) = [m EXCEPT !.slaves = Remaining]
    BY DEF RemoveSlaves
  <1> QED BY <1>9, <1>10 DEF Rt

-----------------------------------------------------------------------------
\* What an amplifier offers

LEMMA LanesAre ==
  ASSUME NEW s \in Dais
  PROVE  /\ Lanes[s] \in Seq(LaneSet(s)) /\ LaneSet(s) \subseteq Kinds
         /\ \A i, j \in DOMAIN Lanes[s] : Lanes[s][i] = Lanes[s][j] => i = j
  <1>1. s \in {"render", "vi", "cps"}
    BY RuntimesAssumption
  <1>2. CASE s = "render"
    <2>1. Lanes[s] = <<"dac", "comp", "boost">> /\ LaneSet(s) = {"dac", "comp", "boost"}
      BY <1>2 DEF Lanes, LaneSet
    <2> QED BY <2>1 DEF Kinds
  <1>3. CASE s \in {"vi", "cps"}
    <2>1. Lanes[s] = <<s>> /\ LaneSet(s) = {s}
      BY <1>3 DEF Lanes, LaneSet
    <2> QED BY <1>3, <2>1 DEF Kinds
  <1> QED BY <1>1, <1>2, <1>3

Takes(a, ports, k) == IF k \in enabled[a] THEN Append(ports, k) ELSE ports

LEMMA SelectedGoes ==
  ASSUME NEW s \in Dais, NEW a \in Speakers, NEW n, n = Len(Lanes[s])
  PROVE  \E t : /\ t[0] = <<>> /\ t[n] = Selected(s, a)
                /\ \A k \in 1 .. n : t[k] = Takes(a, t[k - 1], Lanes[s][k])
  <1> DEFINE l == Lanes[s]
             V == Seq(LaneSet(s))
             Eq(g) == g = [z \in SUBSET DOMAIN l |->
                             IF z = {} THEN <<>>
                             ELSE IF l[Max(z)] \in enabled[a] THEN Append(g[z \ {Max(z)}], l[Max(z)])
                             ELSE g[z \ {Max(z)}]]
  <1>0. n \in Nat /\ DOMAIN l = 1 .. n /\ \A k \in 1 .. n : l[k] \in LaneSet(s)
    BY LanesAre
  <1>1. PICK G : G = [z \in V \X (1 .. n) |-> Takes(a, z[1], l[z[2]])]
    OBVIOUS
  <1>2. G \in [V \X (1 .. n) -> V]
    <2>1. ASSUME NEW z \in V \X (1 .. n) PROVE Takes(a, z[1], l[z[2]]) \in V
      <3>1. z[1] \in V /\ l[z[2]] \in LaneSet(s)
        BY <1>0
      <3>2. Append(z[1], l[z[2]]) \in V
        BY <3>1, AppendProperties
      <3> QED BY <3>1, <3>2 DEF Takes
    <2> QED BY <1>1, <2>1
  <1>3. \E g : Eq(g)
    <2>0. PICK e \in V : e = <<>>
      BY EmptySeq
    <2>1. PICK h \in [SUBSET (1 .. n) -> V] : Folded(h, G, e, n)
      <3> HIDE DEF V
      <3> QED BY <1>0, <1>2, FoldExists
    <2>2. ASSUME NEW z \in SUBSET DOMAIN l
          PROVE  h[z] = IF z = {} THEN <<>>
                        ELSE IF l[Max(z)] \in enabled[a] THEN Append(h[z \ {Max(z)}], l[Max(z)])
                        ELSE h[z \ {Max(z)}]
      <3>1. h[z] = IF z = {} THEN e ELSE G[<<h[z \ {Max(z)}], Max(z)>>]
        BY <1>0, <2>1 DEF Folded
      <3>2. z # {} => Max(z) \in 1 .. n
        BY <1>0, HighestOf
      <3>3. PICK r \in SUBSET (1 .. n) : r = z \ {Max(z)}
        BY <1>0
      <3>4. h[r] \in V
        BY <2>1
      <3> HIDE DEF V
      <3>5. z # {} => G[<<h[r], Max(z)>>] = Takes(a, h[r], l[Max(z)])
        BY <1>1, <3>2, <3>4
      <3> QED BY <2>0, <3>1, <3>3, <3>5 DEF Takes
    <2>3. h = [z \in SUBSET DOMAIN l |-> h[z]]
      BY <1>0, <2>1
    <2>4. Eq(h)
      BY <2>2, <2>3, Zenon
    <2> QED BY <2>4
  <1>4. PICK g : Eq(g) /\ Selected(s, a) = g[DOMAIN l]
    <2>1. Selected(s, a) = (CHOOSE g : Eq(g))[DOMAIN l]
      BY Zenon DEF Selected, FoldLeft, MapThenFoldSet
    <2>2. Eq(CHOOSE g : Eq(g))
      BY <1>3, Zenon
    <2> QED BY <2>1, <2>2, Zenon
  <1>5. PICK t : t = [k \in 0 .. n |-> g[1 .. k]]
    OBVIOUS
  <1>6. t[0] = <<>>
    <2>1. {} \in SUBSET DOMAIN l /\ 1 .. 0 = {} /\ 0 \in 0 .. n
      BY <1>0
    <2>2. g[{}] = <<>>
      BY <1>4, <2>1
    <2> QED BY <1>5, <2>1, <2>2
  <1>7. t[n] = Selected(s, a)
    BY <1>0, <1>4, <1>5
  <1>8. ASSUME NEW k \in 1 .. n PROVE t[k] = Takes(a, t[k - 1], l[k])
    <2>1. /\ 1 .. k \in SUBSET DOMAIN l /\ 1 .. k # {} /\ Max(1 .. k) = k
          /\ (1 .. k) \ {k} = 1 .. (k - 1) /\ k - 1 \in 0 .. n
      BY <1>0, Prefix
    <2>2. g[1 .. k] = Takes(a, g[1 .. (k - 1)], l[k])
      BY <1>4, <2>1 DEF Takes
    <2> QED BY <1>5, <2>1, <2>2
  <1> QED BY <1>6, <1>7, <1>8

LEMMA SelectedIs ==
  ASSUME NEW s \in Dais, NEW a \in Speakers
  PROVE  Chosen(s, Selected(s, a)) /\ Selected(s, a) \in Seq(Kinds)
  <1>0. /\ Lanes[s] \in Seq(LaneSet(s)) /\ LaneSet(s) \subseteq Kinds
        /\ \A i, j \in DOMAIN Lanes[s] : Lanes[s][i] = Lanes[s][j] => i = j
    BY LanesAre
  <1>1. PICK l \in Seq(LaneSet(s)) : l = Lanes[s]
    BY <1>0
  <1>2. PICK n \in Nat : n = Len(l) /\ DOMAIN l = 1 .. n
    OBVIOUS
  <1>3. PICK t : /\ t[0] = <<>> /\ t[n] = Selected(s, a)
                 /\ \A k \in 1 .. n : t[k] = Takes(a, t[k - 1], l[k])
    BY <1>1, <1>2, SelectedGoes
  <1>4. PICK T : T = {k \in 0 .. n :
                       /\ t[k] \in Seq(LaneSet(s))
                       /\ \A i \in DOMAIN t[k] : \E j \in 1 .. k : t[k][i] = l[j]
                       /\ \A i, j \in DOMAIN t[k] : t[k][i] = t[k][j] => i = j}
    OBVIOUS
  <1>5. 0 \in T
    <2>1. 0 \in 0 .. n /\ t[0] \in Seq(LaneSet(s)) /\ DOMAIN t[0] = {}
      BY <1>3, EmptySeq
    <2> QED BY <1>4, <2>1
  <1>6. ASSUME NEW k \in 1 .. n, k - 1 \in T PROVE k \in T
    <2>0. k \in 0 .. n /\ k - 1 \in 0 .. n
      OBVIOUS
    <2>1. PICK p \in Seq(LaneSet(s)) :
             /\ p = t[k - 1]
             /\ \A i \in DOMAIN p : \E j \in 1 .. (k - 1) : p[i] = l[j]
             /\ \A i, j \in DOMAIN p : p[i] = p[j] => i = j
      BY <1>4, <1>6
    <2>2. CASE l[k] \notin enabled[a]
      <3>1. t[k] = p
        BY <1>3, <2>1, <2>2 DEF Takes
      <3> QED BY <1>4, <2>0, <2>1, <3>1
    <2>3. CASE l[k] \in enabled[a]
      <3>0. l[k] \in LaneSet(s) /\ t[k] = Takes(a, t[k - 1], l[k])
        BY <1>2, <1>3
      <3>1. t[k] = Append(p, l[k]) /\ l[k] \in LaneSet(s)
        BY <2>1, <2>3, <3>0, Zenon DEF Takes
      <3>2. PICK r \in Seq(LaneSet(s)) : r = t[k]
        BY <3>1, AppendProperties
      <3>3. PICK c \in Nat : c = Len(p)
        OBVIOUS
      <3>4. /\ DOMAIN p = 1 .. c /\ DOMAIN r = 1 .. (c + 1)
            /\ \A i \in 1 .. c : r[i] = p[i]
            /\ r[c + 1] = l[k]
        BY <3>1, <3>2, <3>3, AppendIs
      <3>5. \A i \in 1 .. c : r[i] # l[k]
        <4>1. ASSUME NEW i \in 1 .. c PROVE r[i] # l[k]
          <5>1. PICK j \in 1 .. (k - 1) : p[i] = l[j]
            BY <2>1, <3>4
          <5>2. j \in DOMAIN l /\ k \in DOMAIN l /\ j # k
            BY <1>2
          <5> QED BY <1>0, <1>1, <3>4, <5>1, <5>2
        <4> QED BY <4>1
      <3>6. \A i, j \in DOMAIN r : r[i] = r[j] => i = j
        BY <2>1, <3>4, <3>5
      <3>7. \A i \in DOMAIN r : \E j \in 1 .. k : r[i] = l[j]
        BY <2>1, <3>4
      <3> QED BY <1>4, <2>0, <3>2, <3>6, <3>7
    <2> QED BY <2>2, <2>3
  <1>7. n \in T
    <2>1. \A k \in 0 .. n : k \in T
      BY <1>5, <1>6, GoesUp, Zenon
    <2> QED BY <2>1
  <1>8. Chosen(s, Selected(s, a))
    BY <1>3, <1>4, <1>7 DEF Chosen
  <1>9. Selected(s, a) \in Seq(Kinds)
    BY <1>0, <1>8, SeqMonotonic DEF Chosen
  <1> QED BY <1>8, <1>9

\* But for playback there is one choice.
LEMMA ChosenOne ==
  ASSUME NEW s, s # "render", NEW p, Chosen(s, p), p # <<>>
  PROVE  p = <<s>>
  <1>1. p \in Seq({s}) /\ \A i, j \in DOMAIN p : p[i] = p[j] => i = j
    BY DEF Chosen, LaneSet
  <1>2. PICK n \in Nat : n = Len(p) /\ DOMAIN p = 1 .. n /\ n # 0
    BY <1>1, EmptySeq
  <1>3. \A i \in 1 .. n : p[i] = s
    BY <1>1, <1>2
  <1>4. n = 1
    <2>1. 1 \in 1 .. n /\ n \in 1 .. n
      BY <1>2
    <2> QED BY <1>1, <1>2, <1>3, <2>1
  <1> QED BY <1>1, <1>2, <1>3, <1>4

LEMMA ChosenKinds ==
  ASSUME NEW s \in Dais, NEW p, Chosen(s, p)
  PROVE  p \in Seq(Kinds) /\ p \in Seq(Labels)
  <1>1. LaneSet(s) \subseteq Kinds /\ Kinds \subseteq Labels
    BY LanesAre DEF Labels
  <1> QED BY <1>1, SeqMonotonic DEF Chosen

LEMMA PortMapIs ==
  /\ \A a \in Speakers : \A k \in Kinds : PortMap[a][k] \in 1 .. MaxPort
  /\ \A a, b \in Speakers : \A j, k \in Kinds :
       PortMap[a][j] = PortMap[b][k] => j = k /\ (a = b \/ j \in {"pbr", "cps"})
  /\ MaxPort \in Nat
  <1>1. PortMap \in [Speakers -> [Kinds -> 1..MaxPort]]
    BY RuntimesAssumption
  <1>2. \A a, b \in Speakers : \A j, k \in Kinds :
       PortMap[a][j] = PortMap[b][k] => j = k /\ (a = b \/ j \in {"pbr", "cps"})
    BY RuntimesAssumption, Zenon
  <1> QED BY <1>1, <1>2, RuntimesAssumption

LEMMA AmpsAre ==
  /\ AmpCount \in Nat /\ AmpCount # 0 /\ DOMAIN AmpSeq = 1 .. AmpCount
  /\ \A i \in 1 .. AmpCount : AmpSeq[i] \in Speakers /\ AmpSeq[i] # Master
  /\ \A i, j \in 1 .. AmpCount : AmpSeq[i] = AmpSeq[j] => i = j
  <1>1. AmpSeq \in Seq(Speakers) /\ AmpSeq # <<>>
    BY RuntimesAssumption
  <1>2. AmpCount \in Nat /\ AmpCount # 0 /\ DOMAIN AmpSeq = 1 .. AmpCount
    BY <1>1, EmptySeq DEF AmpCount
  <1>3. \A i, j \in 1 .. AmpCount : AmpSeq[i] = AmpSeq[j] => i = j
    BY <1>2, RuntimesAssumption, Zenon DEF IsInjective
  <1>4. Master \notin Speakers
    BY RuntimesAssumption DEF Master
  <1>5. \A i \in 1 .. AmpCount : AmpSeq[i] \in Speakers
    BY <1>1, <1>2
  <1> QED BY <1>2, <1>3, <1>4, <1>5

OwnOf(x) == {PortMap[x.amp][x.ports[k]] : k \in DOMAIN x.ports}

LEMMA NumbersAre ==
  ASSUME NEW m \in Rt
  PROVE  \A n : n \in Numbers(m) <=> \E i \in DOMAIN m.slaves : n \in OwnOf(m.slaves[i])
  <1>0. \A i \in DOMAIN m.slaves : m.slaves[i] \in SlaveRec
    BY DEF Rt
  <1>1. ASSUME NEW n \in Numbers(m) PROVE \E i \in DOMAIN m.slaves : n \in OwnOf(m.slaves[i])
    <2>1. PICK q \in Sent(m) : n = PortMap[q[1]][q[2]]
      BY DEF Numbers
    <2>2. PICK i \in DOMAIN m.slaves : m.slaves[i].amp = q[1] /\ \E k \in DOMAIN m.slaves[i].ports : m.slaves[i].ports[k] = q[2]
      BY DEF Sent
    <2>3. PICK k \in DOMAIN m.slaves[i].ports : m.slaves[i].ports[k] = q[2]
      BY <2>2
    <2> QED BY <2>1, <2>2, <2>3 DEF OwnOf
  <1>2. ASSUME NEW n, NEW i \in DOMAIN m.slaves, n \in OwnOf(m.slaves[i]) PROVE n \in Numbers(m)
    <2>1. PICK x \in SlaveRec : x = m.slaves[i]
      BY <1>0
    <2>2. PICK k \in DOMAIN x.ports : n = PortMap[x.amp][x.ports[k]]
      BY <1>2, <2>1 DEF OwnOf
    <2>3. PICK q : q = <<x.amp, x.ports[k]>>
      OBVIOUS
    <2>4. q \in Speakers \X Labels /\ q[1] = x.amp /\ q[2] = x.ports[k]
      BY <2>3 DEF SlaveRec
    <2>5. q \in Sent(m)
      BY <2>1, <2>4 DEF Sent
    <2> QED BY <2>2, <2>4, <2>5 DEF Numbers
  <1> QED BY <1>1, <1>2

LEMMA OwnCounted ==
  ASSUME NEW x \in SlaveRec, Chosen("render", x.ports), "render" \in Dais
  PROVE  /\ IsFiniteSet(OwnOf(x)) /\ Cardinality(OwnOf(x)) = Len(x.ports)
         /\ OwnOf(x) \subseteq 0 .. MaxPort
  <1>1. PICK n \in Nat : n = Len(x.ports) /\ DOMAIN x.ports = 1 .. n
    BY DEF SlaveRec
  <1>2. /\ x.amp \in Speakers /\ x.ports \in Seq(Kinds)
        /\ \A i, j \in DOMAIN x.ports : x.ports[i] = x.ports[j] => i = j
    BY ChosenKinds DEF SlaveRec, Chosen
  <1>3. PICK f : f = [k \in 1 .. n |-> PortMap[x.amp][x.ports[k]]]
    OBVIOUS
  <1>4. \A i, j \in 1 .. n : f[i] = f[j] => i = j
    <2>1. ASSUME NEW i \in 1 .. n, NEW j \in 1 .. n, f[i] = f[j] PROVE i = j
      <3>1. x.ports[i] \in Kinds /\ x.ports[j] \in Kinds
        BY <1>1, <1>2
      <3>2. PortMap[x.amp][x.ports[i]] = PortMap[x.amp][x.ports[j]]
        BY <1>3, <2>1
      <3>3. x.ports[i] = x.ports[j]
        BY <1>2, <3>1, <3>2, PortMapIs
      <3> QED BY <1>1, <1>2, <3>3
    <2> QED BY <2>1
  <1>5. f \in Bijection(1 .. n, OwnOf(x))
    BY <1>1, <1>3, <1>4 DEF OwnOf, Bijection, Injection, Surjection, IsInjective
  <1>6. IsFiniteSet(1 .. n) /\ Cardinality(1 .. n) = n
    BY FS_Interval
  <1>7. ExistsBijection(1 .. n, OwnOf(x))
    BY <1>5 DEF ExistsBijection
  <1>8. OwnOf(x) \subseteq 0 .. MaxPort
    <2>1. \A k \in 1 .. n : PortMap[x.amp][x.ports[k]] \in 0 .. MaxPort
      BY <1>1, <1>2, PortMapIs
    <2> QED BY <1>1, <2>1 DEF OwnOf
  <1> QED BY <1>1, <1>6, <1>7, <1>8, FS_Bijection

LEMMA NumbersSame ==
  ASSUME NEW s \in Dais, NEW m \in Rt, NEW r \in Rt, Amped(m, AmpCount), Amped(r, AmpCount),
         NEW e \in 1 .. AmpCount,
         \A i \in 1 .. AmpCount : i # e => r.slaves[i] = m.slaves[i],
         Len(r.slaves[e].ports) = Len(m.slaves[e].ports),
         \A i \in 1 .. AmpCount : Chosen(s, m.slaves[i].ports) /\ Chosen(s, r.slaves[i].ports)
  PROVE  Cardinality(Numbers(r)) = Cardinality(Numbers(m))
  <1>0. /\ DOMAIN m.slaves = 1 .. AmpCount /\ DOMAIN r.slaves = 1 .. AmpCount
        /\ \A i \in 1 .. AmpCount : m.slaves[i] \in SlaveRec /\ r.slaves[i] \in SlaveRec
        /\ \A i \in 1 .. AmpCount : m.slaves[i].amp = AmpSeq[i] /\ r.slaves[i].amp = AmpSeq[i]
        /\ \A i \in 1 .. AmpCount : m.slaves[i].ports # <<>> /\ r.slaves[i].ports # <<>>
    BY DEF Amped, Rt
  <1>1. CASE s # "render"
    <2>1. r.slaves[e].ports = m.slaves[e].ports
      BY <1>0, <1>1, ChosenOne
    <2>2. OwnOf(r.slaves[e]) = OwnOf(m.slaves[e])
      BY <1>0, <2>1 DEF OwnOf
    <2>3. \A i \in 1 .. AmpCount : OwnOf(r.slaves[i]) = OwnOf(m.slaves[i])
      BY <2>2
    <2>4. Numbers(r) = Numbers(m)
      BY <1>0, <2>3, NumbersAre
    <2> QED BY <2>4
  <1>2. CASE s = "render"
    <2>1. PICK O : O = UNION {OwnOf(m.slaves[i]) : i \in (1 .. AmpCount) \ {e}}
      OBVIOUS
    <2>2. O = UNION {OwnOf(r.slaves[i]) : i \in (1 .. AmpCount) \ {e}}
      BY <2>1
    <2>3. \A i \in 1 .. AmpCount : OwnOf(m.slaves[i]) \subseteq 0 .. MaxPort
      BY <1>0, <1>2, OwnCounted
    <2>4. IsFiniteSet(O)
      <3>1. O \subseteq 0 .. MaxPort
        BY <2>1, <2>3
      <3>2. IsFiniteSet(0 .. MaxPort)
        BY RuntimesAssumption, FS_Interval
      <3> QED BY <3>1, <3>2, FS_Subset
    <2>5. ASSUME NEW k \in {m, r}
          PROVE  Cardinality(Numbers(k)) = Cardinality(O) + Len(m.slaves[e].ports)
      <3>0. /\ k \in Rt /\ DOMAIN k.slaves = 1 .. AmpCount
            /\ \A i \in 1 .. AmpCount : k.slaves[i] \in SlaveRec /\ k.slaves[i].amp = AmpSeq[i]
            /\ \A i \in 1 .. AmpCount : Chosen("render", k.slaves[i].ports)
            /\ Len(k.slaves[e].ports) = Len(m.slaves[e].ports)
            /\ O = UNION {OwnOf(k.slaves[i]) : i \in (1 .. AmpCount) \ {e}}
        BY <1>0, <1>2, <2>1, <2>2
      <3>1. PICK X : X = OwnOf(k.slaves[e])
        OBVIOUS
      <3>2. IsFiniteSet(X) /\ Cardinality(X) = Len(m.slaves[e].ports)
        BY <1>2, <3>0, <3>1, OwnCounted
      <3>3. Numbers(k) = O \cup X
        <4>1. \A n : n \in Numbers(k) <=> \E i \in 1 .. AmpCount : n \in OwnOf(k.slaves[i])
          BY <3>0, NumbersAre
        <4>2. \A n : n \in O <=> \E i \in (1 .. AmpCount) \ {e} : n \in OwnOf(k.slaves[i])
          BY <3>0
        <4> QED BY <3>1, <4>1, <4>2, Zenon
      <3>4. O \cap X = {}
        <4>1. ASSUME NEW n \in O, n \in X PROVE FALSE
          <5>1. PICK i \in (1 .. AmpCount) \ {e} : n \in OwnOf(k.slaves[i])
            BY <3>0
          <5>2. PICK x \in SlaveRec : x = k.slaves[i] /\ x.amp = AmpSeq[i] /\ Chosen("render", x.ports)
            BY <3>0
          <5>3. PICK y \in SlaveRec : y = k.slaves[e] /\ y.amp = AmpSeq[e] /\ Chosen("render", y.ports)
            BY <3>0
          <5>4. PICK j \in DOMAIN x.ports : n = PortMap[x.amp][x.ports[j]]
            BY <5>1, <5>2 DEF OwnOf
          <5>5. PICK l \in DOMAIN y.ports : n = PortMap[y.amp][y.ports[l]]
            BY <3>1, <4>1, <5>3 DEF OwnOf
          <5>6. x.ports[j] \in {"dac", "comp", "boost"} /\ y.ports[l] \in {"dac", "comp", "boost"}
            BY <5>2, <5>3 DEF Chosen, LaneSet
          <5>7. x.amp \in Speakers /\ y.amp \in Speakers
            BY DEF SlaveRec
          <5>8. x.amp = y.amp
            <6>1. x.ports[j] \in Kinds /\ y.ports[l] \in Kinds /\ x.ports[j] \notin {"pbr", "cps"}
              BY <5>6 DEF Kinds
            <6>2. PICK b \in Speakers, c \in Speakers, u \in Kinds, v \in Kinds :
                     b = x.amp /\ c = y.amp /\ u = x.ports[j] /\ v = y.ports[l]
              BY <5>7, <6>1
            <6>3. PortMap[b][u] = PortMap[c][v] /\ u \notin {"pbr", "cps"}
              BY <5>4, <5>5, <6>1, <6>2
            <6>4. b = c
              BY <6>3, PortMapIs
            <6> QED BY <6>2, <6>4
          <5>9. i = e
            BY <5>2, <5>3, <5>8, AmpsAre
          <5> QED BY <5>9
        <4> QED BY <4>1
      <3>5. Cardinality(O \cup X) = Cardinality(O) + Cardinality(X) - Cardinality(O \cap X)
        BY <2>4, <3>2, FS_Union
      <3>6. Cardinality(O \cap X) = 0
        BY <3>4, FS_EmptySet
      <3>7. Cardinality(O) \in Nat /\ Cardinality(X) \in Nat
        BY <2>4, <3>2, FS_CardinalityType
      <3> QED BY <3>2, <3>3, <3>5, <3>6, <3>7
    <2> QED BY <2>5
  <1> QED BY <1>1, <1>2

-----------------------------------------------------------------------------
\* An amplifier's slave runtime

LEMMA AddsSlave ==
  ASSUME NEW m \in Rt, NEW j \in Nat, j < AmpCount, Amped(m, j),
         NEW x \in SlaveRec, x.amp = AmpSeq[j + 1], x.ports # <<>>, NEW r, r = PutSlave(m, x)
  PROVE  /\ SlaveOf(m, x.amp) = {}
         /\ r \in Rt /\ r.ports = m.ports /\ Amped(r, j + 1)
         /\ \A i \in 1 .. j : r.slaves[i] = m.slaves[i]
         /\ r.slaves[j + 1] = x
  <1>0. PICK sl \in Seq(SlaveRec) : sl = m.slaves /\ Len(sl) = j /\ DOMAIN sl = 1 .. j
    BY DEF Rt, Amped
  <1>1. SlaveOf(m, x.amp) = {}
    <2>1. ASSUME NEW i \in 1 .. j PROVE m.slaves[i].amp # x.amp
      <3>1. i \in 1 .. AmpCount /\ j + 1 \in 1 .. AmpCount /\ i # j + 1
        BY AmpsAre
      <3> QED BY <3>1, AmpsAre DEF Amped
    <2> QED BY <1>0, <2>1 DEF SlaveOf, ToSet
  <1>2. r = [m EXCEPT !.slaves = Append(sl, x)]
    BY <1>0, <1>1, Zenon DEF PutSlave
  <1>3. PICK f : f = Append(sl, x)
    OBVIOUS
  <1>4. f \in Seq(SlaveRec) /\ Len(f) = j + 1 /\ f[j + 1] = x /\ \A i \in 1 .. j : f[i] = sl[i]
    BY <1>0, <1>3, AppendIs, AppendProperties
  <1>5. r \in Rt /\ r.slaves = f /\ r.ports = m.ports
    BY <1>2, <1>3, <1>4 DEF Rt
  <1>6. Amped(r, j + 1)
    <2>1. \A i \in 1 .. (j + 1) : i \in 1 .. j \/ i = j + 1
      OBVIOUS
    <2>2. \A i \in 1 .. j : sl[i].amp = AmpSeq[i] /\ sl[i].ports # <<>>
      BY <1>0 DEF Amped
    <2> QED BY <1>4, <1>5, <2>1, <2>2 DEF Amped
  <1> QED BY <1>0, <1>1, <1>4, <1>5, <1>6

LEMMA PutsSlave ==
  ASSUME NEW m \in Rt, Amped(m, AmpCount), NEW e \in 1 .. AmpCount,
         NEW x \in SlaveRec, x.amp = AmpSeq[e], x.ports # <<>>, NEW r, r = PutSlave(m, x)
  PROVE  /\ SlaveOf(m, x.amp) = {m.slaves[e]}
         /\ r \in Rt /\ r.ports = m.ports /\ Amped(r, AmpCount)
         /\ \A i \in 1 .. AmpCount : r.slaves[i] = IF i = e THEN x ELSE m.slaves[i]
  <1>0. PICK sl \in Seq(SlaveRec) : sl = m.slaves /\ Len(sl) = AmpCount /\ DOMAIN sl = 1 .. AmpCount
    BY DEF Rt, Amped
  <1>00. \A i \in 1 .. AmpCount : sl[i].amp = AmpSeq[i] /\ sl[i].ports # <<>> /\ sl[i] \in SlaveRec
    BY <1>0 DEF Amped
  <1>01. \A i \in 1 .. AmpCount : sl[i].amp = x.amp <=> i = e
    BY <1>00, AmpsAre
  <1>1. SlaveOf(m, x.amp) = {sl[e]}
    BY <1>0, <1>00, <1>01 DEF SlaveOf, ToSet
  <1>2. r = [m EXCEPT !.slaves = [i \in DOMAIN sl |-> IF sl[i].amp = x.amp THEN x ELSE sl[i]]]
    <2>1. SlaveOf(m, x.amp) # {}
      BY <1>1
    <2> QED BY <1>0, <2>1, Zenon DEF PutSlave
  <1>3. PICK f : f = [i \in DOMAIN sl |-> IF sl[i].amp = x.amp THEN x ELSE sl[i]]
    OBVIOUS
  <1>4. \A i \in 1 .. AmpCount : f[i] = (IF i = e THEN x ELSE sl[i]) /\ f[i] \in SlaveRec
    BY <1>0, <1>00, <1>01, <1>3
  <1>5. f \in Seq(SlaveRec) /\ Len(f) = AmpCount
    <2>1. f \in [1 .. AmpCount -> SlaveRec]
      BY <1>0, <1>3, <1>4
    <2> QED BY <2>1, AmpsAre, IsASeq
  <1>6. r \in Rt /\ r.slaves = f /\ r.ports = m.ports
    BY <1>2, <1>3, <1>5 DEF Rt
  <1>7. Amped(r, AmpCount)
    BY <1>00, <1>4, <1>5, <1>6 DEF Amped
  <1> QED BY <1>0, <1>1, <1>4, <1>6, <1>7

\* A list filled in from as many entries holds the entries.
LEMMA FilledSame ==
  ASSUME NEW V, NEW ports \in Seq(V), NEW W, NEW entries \in Seq(W), Len(ports) = Len(entries), NEW rest
  PROVE  Filled(ports, entries, rest) = entries
  <1>1. PICK n \in Nat : n = Len(ports) /\ DOMAIN ports = 1 .. n /\ DOMAIN entries = 1 .. n
    OBVIOUS
  <1>2. Filled(ports, entries, rest) = [i \in 1 .. n |-> entries[i]]
    BY <1>1 DEF Filled
  <1> QED BY <1>1, <1>2

Completes(ports, entries, rest, V) ==
  \A i \in DOMAIN ports : i \notin DOMAIN entries => rest[i] \in V

LEMMA FilledIs ==
  ASSUME NEW V, NEW ports \in Seq(V), NEW entries \in Seq(V), NEW rest,
         Completes(ports, entries, rest, V)
  PROVE  Filled(ports, entries, rest) \in Seq(V) /\ Len(Filled(ports, entries, rest)) = Len(ports)
  <1>1. PICK n \in Nat : n = Len(ports) /\ DOMAIN ports = 1 .. n
    OBVIOUS
  <1>2. PICK f : f = Filled(ports, entries, rest)
    OBVIOUS
  <1>3. \A i \in 1 .. n : (IF i \in DOMAIN entries THEN entries[i] ELSE rest[i]) \in V
    BY <1>1 DEF Completes
  <1>4. f \in [1 .. n -> V]
    BY <1>1, <1>2, <1>3 DEF Filled
  <1>5. f \in Seq(V) /\ Len(f) = n
    BY <1>4, IsASeq
  <1> QED BY <1>1, <1>2, <1>5

\* Whose turn it is in hw_params.
LEMMA TodoIs ==
  ASSUME NEW j \in 0 .. AmpCount
  PROVE  /\ Todo(j) # <<>> /\ Len(Todo(j)) = AmpCount + 1 - j
         /\ j < AmpCount => Head(Todo(j)) = AmpSeq[j + 1] /\ Tail(Todo(j)) = Todo(j + 1)
         /\ j = AmpCount => Head(Todo(j)) = Master
  <1>0. AmpCount \in Nat /\ AmpSeq \in Seq(Speakers)
    BY AmpsAre, RuntimesAssumption
  <1>1. PICK V : V = Speakers \cup {Master}
    OBVIOUS
  <1>2. PICK l \in Seq(V) : l = Append(AmpSeq, Master)
    <2>1. AmpSeq \in Seq(V) /\ Master \in V
      BY <1>0, <1>1, SeqMonotonic
    <2> QED BY <2>1, AppendProperties
  <1>3. /\ Len(l) = AmpCount + 1 /\ l[AmpCount + 1] = Master
        /\ \A i \in 1 .. AmpCount : l[i] = AmpSeq[i]
    BY <1>0, <1>2, AppendProperties DEF AmpCount
  <1>4. Todo(j) = SubSeq(l, j + 1, AmpCount + 1)
    BY <1>2 DEF Todo
  <1>50. PICK b \in Int, c \in Int : b = j + 1 /\ c = AmpCount + 1
    BY <1>0
  <1>51. /\ b \in 1 .. Len(l) /\ c \in b .. Len(l) /\ c = Len(l) /\ c - b + 1 = AmpCount + 1 - j
         /\ b <= c /\ \A i \in b .. c : l[i] \in V
    BY <1>0, <1>3, <1>50
  <1>5. Len(SubSeq(l, b, c)) = c - b + 1
    BY <1>51, SubSeqProperties
  <1>6. Todo(j) # <<>> /\ Len(Todo(j)) = AmpCount + 1 - j
    <2>1. Todo(j) = SubSeq(l, b, c)
      BY <1>4, <1>50
    <2>2. Len(Todo(j)) = AmpCount + 1 - j /\ AmpCount + 1 - j # 0
      BY <1>0, <1>5, <1>51, <2>1
    <2>3. Len(<<>>) = 0
      BY EmptySeq
    <2> QED BY <2>2, <2>3
  <1>7. Head(Todo(j)) = l[j + 1] /\ Tail(Todo(j)) = SubSeq(l, b + 1, c)
    BY <1>4, <1>50, <1>51, HeadTailOfSubSeq
  <1>8. Todo(j + 1) = SubSeq(l, b + 1, c)
    <2>1. PICK k \in Int : k = j + 1 /\ k + 1 = b + 1
      BY <1>50
    <2>2. Todo(k) = SubSeq(l, k + 1, AmpCount + 1)
      BY <1>2, Zenon DEF Todo
    <2> QED BY <1>50, <2>1, <2>2
  <1>9. j < AmpCount => j + 1 \in 1 .. AmpCount
    BY <1>0
  <1> QED BY <1>0, <1>3, <1>6, <1>7, <1>8, <1>9

LEMMA NextIs ==
  ASSUME Typed, NEW d, IsNext(d), NEW s \in Dais, adding.s = s
  PROVE  \E j \in 0 .. AmpCount :
           /\ adding = [s |-> s, todo |-> Todo(j)] /\ phase[s] \in {"open", "params"}
           /\ d = Master <=> j = AmpCount
           /\ j < AmpCount => d = AmpSeq[j + 1] /\ j + 1 \in 1 .. AmpCount
  <1>1. PICK t \in Dais, j \in 0 .. AmpCount :
           adding = [s |-> t, todo |-> Todo(j)] /\ phase[t] \in {"open", "params"}
    BY DEF Typed, IsNext
  <1>2. t = s /\ adding.todo = Todo(j) /\ Head(Todo(j)) = d
    BY <1>1 DEF IsNext
  <1>3. j < AmpCount => d = AmpSeq[j + 1] /\ j + 1 \in 1 .. AmpCount /\ d # Master
    BY <1>2, TodoIs, AmpsAre
  <1>4. j = AmpCount => d = Master
    BY <1>2, TodoIs
  <1>5. j < AmpCount \/ j = AmpCount
    BY AmpsAre
  <1> QED BY <1>1, <1>2, <1>3, <1>4, <1>5

LEMMA EarlierAre ==
  ASSUME NEW j \in 0 .. AmpCount, j < AmpCount
  PROVE  \A i \in 1 .. j : AmpSeq[i] \in ToSet(Earlier(AmpSeq[j + 1]))
  <1>0. /\ AmpCount \in Nat /\ AmpSeq \in Seq(Speakers) /\ j + 1 \in 1 .. AmpCount
        /\ Len(AmpSeq) = AmpCount
    BY AmpsAre, RuntimesAssumption DEF AmpCount
  <1>1. PICK I : I = {i \in 1 .. Len(AmpSeq) : AmpSeq[i] = AmpSeq[j + 1]}
    OBVIOUS
  <1>2. I = {j + 1}
    BY <1>0, <1>1, AmpsAre
  <1>3. Min(I) \in I
    BY <1>0, <1>2, LowestOf
  <1>4. Before(AmpSeq[j + 1]) = j + 1
    <2>1. Before(AmpSeq[j + 1]) = IF I # {} THEN Min(I) ELSE 0
      BY <1>1, Zenon DEF Before, SelectInSeq
    <2> QED BY <1>2, <1>3, <2>1
  <1>5. Earlier(AmpSeq[j + 1]) = SubSeq(AmpSeq, 1, j)
    BY <1>0, <1>4 DEF Earlier
  <1>60. \A i \in 1 .. j : AmpSeq[i] \in Speakers
    BY AmpsAre
  <1>61. j \in Int /\ 1 \in Int /\ j - 1 + 1 = j /\ (1 <= j \/ j = 0) /\ \A i \in 1 .. j : 1 + i - 1 = i
    BY <1>0
  <1>62. /\ SubSeq(AmpSeq, 1, j) \in Seq(Speakers)
         /\ Len(SubSeq(AmpSeq, 1, j)) = IF 1 <= j THEN j - 1 + 1 ELSE 0
         /\ \A i \in 1 .. j - 1 + 1 : SubSeq(AmpSeq, 1, j)[i] = AmpSeq[1 + i - 1]
    BY <1>60, <1>61, SubSeqProperties
  <1>6. PICK u \in Seq(Speakers) : u = SubSeq(AmpSeq, 1, j)
    BY <1>62
  <1>7. Len(u) = j /\ \A i \in 1 .. j : u[i] = AmpSeq[i]
    BY <1>6, <1>61, <1>62
  <1>8. \A i \in 1 .. j : i \in DOMAIN u
    BY <1>7
  <1> QED BY <1>5, <1>6, <1>7, <1>8 DEF ToSet

-----------------------------------------------------------------------------
\* How many there are

LEMMA AtMostOne ==
  ASSUME NEW R, \A m, k \in R : m = k
  PROVE  IsFiniteSet(R) /\ Cardinality(R) = IF R = {} THEN 0 ELSE 1
  <1>1. CASE R = {}
    BY <1>1, FS_EmptySet
  <1>2. CASE R # {}
    <2>1. PICK x : x \in R
      BY <1>2
    <2>2. R = {x}
      BY <2>1
    <2> QED BY <1>2, <2>2, FS_Singleton
  <1> QED BY <1>1, <1>2

LEMMA DaisFinite ==
  ASSUME NEW S, S \subseteq Dais
  PROVE  IsFiniteSet(S) /\ Cardinality(S) \in Nat
  <1>1. IsFiniteSet({"render", "vi", "cps"})
    <2>1. IsFiniteSet({}) /\ IsFiniteSet({} \cup {"render"})
      BY FS_EmptySet, FS_AddElement
    <2>2. IsFiniteSet(({} \cup {"render"}) \cup {"vi"})
      BY <2>1, FS_AddElement
    <2>3. IsFiniteSet((({} \cup {"render"}) \cup {"vi"}) \cup {"cps"})
      BY <2>2, FS_AddElement
    <2>4. (({} \cup {"render"}) \cup {"vi"}) \cup {"cps"} = {"render", "vi", "cps"}
      OBVIOUS
    <2> QED BY <2>3, <2>4
  <1>2. S \in SUBSET {"render", "vi", "cps"}
    BY RuntimesAssumption
  <1>3. IsFiniteSet(S)
    BY <1>1, <1>2, FS_Subset
  <1> QED BY <1>3, FS_CardinalityType

One(R) == IF R = {} THEN 0 ELSE 1

LEMMA HeldSteps ==
  ASSUME rt \in [Dais -> SUBSET Rt], NEW s \in Dais, NEW R, rt' = [rt EXCEPT ![s] = R]
  PROVE  /\ Cardinality(Held') = Cardinality(Held) + One(R) - One(rt[s])
         /\ Cardinality(Held) \in Nat
  <1>1. Held \subseteq Dais /\ Held' = {t \in Dais : rt'[t] # {}}
    BY DEF Held
  <1>2. IsFiniteSet(Held) /\ Cardinality(Held) \in Nat
    BY <1>1, DaisFinite
  <1>3. rt'[s] = R /\ \A t \in Dais : t # s => rt'[t] = rt[t]
    OBVIOUS
  <1>4. CASE R = {}
    <2>1. Held' = Held \ {s}
      BY <1>1, <1>3, <1>4 DEF Held
    <2>2. Cardinality(Held \ {s}) = IF s \in Held THEN Cardinality(Held) - 1 ELSE Cardinality(Held)
      BY <1>2, FS_RemoveElement
    <2>3. s \in Held <=> rt[s] # {}
      BY DEF Held
    <2> QED BY <1>2, <1>4, <2>1, <2>2, <2>3 DEF One
  <1>5. CASE R # {}
    <2>1. Held' = Held \cup {s}
      BY <1>1, <1>3, <1>5 DEF Held
    <2>2. Cardinality(Held \cup {s}) = IF s \in Held THEN Cardinality(Held) ELSE Cardinality(Held) + 1
      BY <1>2, FS_AddElement
    <2>3. s \in Held <=> rt[s] # {}
      BY DEF Held
    <2> QED BY <1>2, <1>5, <2>1, <2>2, <2>3 DEF One
  <1> QED BY <1>4, <1>5

-----------------------------------------------------------------------------
\* The streams that a step leaves alone

LEMMA OtherStream ==
  ASSUME NEW t \in Dais, Streamed(t),
         rt'[t] = rt[t], phase'[t] = phase[t], mcount'[t] = mcount[t],
         t \in resized' <=> t \in resized, strayed => strayed',
         adding.s # t, adding'.s # t
  PROVE  Streamed(t)'
  <1>1. PICK n \in 0 .. AmpCount :
           /\ Stands(t, n, phase[t], adding.s, adding.todo)
           /\ StreamOk(t, n, rt[t], phase[t], mcount[t], resized, adding.s, strayed)
    BY DEF Streamed
  <1>2. Stands(t, n, phase'[t], adding'.s, adding'.todo)
    BY <1>1 DEF Stands
  <1>3. \A m \in rt[t] : RtOk(t, n, m, phase[t], mcount[t], resized, adding.s, strayed)
    BY <1>1 DEF StreamOk
  <1>4. \A m \in rt[t] : RtOk(t, n, m, phase[t], mcount[t], resized', adding'.s, strayed')
    BY <1>3, Zenon DEF RtOk
  <1>5. StreamOk(t, n, rt'[t], phase'[t], mcount'[t], resized', adding'.s, strayed')
    BY <1>1, <1>4, Zenon DEF StreamOk
  <1> QED BY <1>2, <1>5 DEF Streamed

\* A step of stream s.
LEMMA Together ==
  ASSUME RtInv, NEW s \in Dais,
         Typed', Streamed(s)', Counted', Returned',
         \A t \in Dais \ {s} : rt'[t] = rt[t] /\ phase'[t] = phase[t] /\ mcount'[t] = mcount[t],
         \A t \in Dais \ {s} : t \in resized' <=> t \in resized,
         strayed => strayed', adding = Nobody \/ adding.s = s, adding' = Nobody \/ adding'.s = s
  PROVE  RtInv'
  <1>0. "none" \notin Dais
    BY RuntimesAssumption
  <1>1. ASSUME NEW t \in Dais, t # s PROVE Streamed(t)'
    <2>1. adding.s # t /\ adding'.s # t
      BY <1>0, <1>1 DEF Nobody
    <2>2. Streamed(t)
      BY DEF RtInv
    <2> QED BY <1>1, <2>1, <2>2, OtherStream
  <1>2. \A t \in Dais : Streamed(t)'
    BY <1>1
  <1> QED BY <1>2 DEF RtInv

-----------------------------------------------------------------------------
\* The ports handed out

\* A step that changes the runtimes of s alone, whose ports are as before.
LEMMA UsedSame ==
  ASSUME NEW s \in Dais, \A t \in Dais \ {s} : rt'[t] = rt[t],
         \A n : (\E m \in rt'[s] : n \in PortNums(m)) <=> (\E m \in rt[s] : n \in PortNums(m))
  PROVE  \A n : Used(n)' <=> Used(n)
  <1>1. ASSUME NEW n PROVE (\E t \in Dais : \E m \in rt'[t] : n \in PortNums(m))
                       <=> (\E t \in Dais : \E m \in rt[t] : n \in PortNums(m))
    OBVIOUS
  <1>2. \A n : Used(n)' <=> \E t \in Dais : \E m \in rt'[t] : n \in PortNums(m)
    BY DEF Used
  <1> QED BY <1>1, <1>2 DEF Used

LEMMA ReturnedSame ==
  ASSUME Returned, NEW s \in Dais, \A t \in Dais \ {s} : rt'[t] = rt[t],
         ~strayed' => /\ ~strayed /\ resized' \subseteq resized /\ taken' = taken
                      /\ \A n : (\E m \in rt'[s] : n \in PortNums(m))
                                   <=> (\E m \in rt[s] : n \in PortNums(m))
  PROVE  Returned'
  <1>1. SUFFICES ASSUME ~strayed'
                 PROVE  resized' = {} /\ \A n \in 0 .. MaxPort : n \in taken' <=> n = 0 \/ Used(n)'
    BY DEF Returned
  <1>2. resized = {} /\ \A n \in 0 .. MaxPort : n \in taken <=> n = 0 \/ Used(n)
    BY <1>1 DEF Returned
  <1>3. \A n : Used(n)' <=> Used(n)
    BY <1>1, UsedSame
  <1> QED BY <1>1, <1>2, <1>3

LEMMA NoPortsNoNumbers ==
  ASSUME NEW m, m.ports = <<>>
  PROVE  PortNums(m) = {}
  BY EmptySeq DEF PortNums

\* The ports of a stream are its own: no other's, and not the one that is 0.
LEMMA PortsOwn ==
  ASSUME Typed, NEW s \in Dais, Streamed(s), ~strayed, resized = {}, NEW m \in rt[s],
         NEW x \in PortNums(m)
  PROVE  \E a \in Speakers : \E k \in LaneSet(s) : x = PortMap[a][k]
  <1>1. PICK n \in 0 .. AmpCount :
           StreamOk(s, n, rt[s], phase[s], mcount[s], resized, adding.s, strayed)
    BY DEF Streamed
  <1>2. RtOk(s, n, m, phase[s], mcount[s], resized, adding.s, strayed) /\ m \in Rt
    BY <1>1 DEF StreamOk, Typed
  <1>3. m.ports # <<>>
    BY NoPortsNoNumbers
  <1>4. PortNums(m) = Numbers(m) /\ Amped(m, n) /\ \A i \in 1 .. n : Chosen(s, m.slaves[i].ports)
    BY <1>2, <1>3, Zenon DEF RtOk
  <1>5. PICK i \in DOMAIN m.slaves : x \in OwnOf(m.slaves[i])
    BY <1>2, <1>4, NumbersAre
  <1>6. i \in 1 .. n /\ m.slaves[i] \in SlaveRec
    BY <1>2, <1>4 DEF Amped, Rt
  <1>7. PICK y \in SlaveRec : y = m.slaves[i] /\ Chosen(s, y.ports)
    BY <1>4, <1>6
  <1>8. PICK k \in DOMAIN y.ports : x = PortMap[y.amp][y.ports[k]]
    BY <1>5, <1>7 DEF OwnOf
  <1>9. y.ports[k] \in LaneSet(s) /\ y.amp \in Speakers
    BY <1>7 DEF Chosen, SlaveRec
  <1> QED BY <1>8, <1>9

LEMMA LanesApart ==
  ASSUME NEW s \in Dais, NEW t \in Dais, s # t
  PROVE  LaneSet(s) \cap LaneSet(t) = {} /\ LaneSet(s) \subseteq Kinds /\ LaneSet(t) \subseteq Kinds
  <1>1. s \in {"render", "vi", "cps"} /\ t \in {"render", "vi", "cps"}
    BY RuntimesAssumption
  <1>2. LaneSet(s) \subseteq Kinds /\ LaneSet(t) \subseteq Kinds
    BY LanesAre
  <1>3. \A u \in {"render", "vi", "cps"} : LaneSet(u) =
           IF u = "render" THEN {"dac", "comp", "boost"} ELSE {u}
    BY Zenon DEF LaneSet
  <1>4. ASSUME NEW x \in LaneSet(s), x \in LaneSet(t) PROVE FALSE
    <2>1. CASE s = "render" /\ t # "render"
      BY <1>1, <1>3, <1>4, <2>1
    <2>2. CASE s # "render" /\ t = "render"
      BY <1>1, <1>3, <1>4, <2>2
    <2>3. CASE s # "render" /\ t # "render"
      BY <1>1, <1>3, <1>4, <2>3
    <2> QED BY <2>1, <2>2, <2>3
  <1> QED BY <1>2, <1>4

LEMMA PortsApart ==
  ASSUME Typed, NEW s \in Dais, NEW t \in Dais, s # t, Streamed(s), Streamed(t), ~strayed, resized = {},
         NEW m \in rt[s], NEW k \in rt[t]
  PROVE  0 \notin PortNums(m) /\ PortNums(m) \cap PortNums(k) = {}
  <1>1. ASSUME NEW x \in PortNums(m) PROVE x # 0 /\ x \notin PortNums(k)
    <2>1. PICK a \in Speakers, i \in LaneSet(s) : x = PortMap[a][i]
      BY PortsOwn
    <2>2. i \in Kinds
      BY LanesApart
    <2>3. x # 0
      BY <2>1, <2>2, PortMapIs
    <2>4. ASSUME x \in PortNums(k) PROVE FALSE
      <3>1. PICK b \in Speakers, j \in LaneSet(t) : x = PortMap[b][j]
        BY <2>4, PortsOwn
      <3>2. j \in Kinds /\ j # i
        BY LanesApart
      <3>3. PICK u \in Kinds, v \in Kinds : u = i /\ v = j /\ u # v
        BY <2>2, <3>2
      <3>4. PortMap[a][u] = PortMap[b][v]
        BY <2>1, <3>1, <3>3
      <3> QED BY <3>3, <3>4, PortMapIs
    <2> QED BY <2>3, <2>4
  <1> QED BY <1>1

LEMMA PortsNotZero ==
  ASSUME Typed, NEW s \in Dais, Streamed(s), ~strayed, resized = {}, NEW m \in rt[s]
  PROVE  0 \notin PortNums(m)
  <1>1. ASSUME 0 \in PortNums(m) PROVE FALSE
    <2>1. PICK a \in Speakers, i \in LaneSet(s) : 0 = PortMap[a][i]
      BY <1>1, PortsOwn
    <2>2. i \in Kinds
      BY LanesAre
    <2> QED BY <2>1, <2>2, PortMapIs
  <1> QED BY <1>1

LEMMA FreePortsAre ==
  ASSUME NEW m
  PROVE  FreePorts(m) = taken \ PortNums(m)
  <1>1. {p.num : p \in ToSet(m.ports)} = PortNums(m)
    BY DEF ToSet, PortNums
  <1> QED BY <1>1 DEF FreePorts

-----------------------------------------------------------------------------
\* What several steps do

\* A stream gives back all it has.
LEMMA FreedKeeps ==
  ASSUME RtInv, NEW s \in Dais, phase[s] \in {"params", "prepared"},
         adding = Nobody \/ adding.s = s, adding' = Nobody,
         phase' = [phase EXCEPT ![s] = "open"],
         rt' = [rt EXCEPT ![s] = {}], refs' = refs - 1,
         mcount' = [mcount EXCEPT ![s] = @ - 1],
         resized' = resized \ {s}, orphaned' = orphaned, enabled' = enabled,
         broken' \in Int, switched' \in Int, strayed' \in BOOLEAN, strayed => strayed',
         taken' \in SUBSET (0 .. MaxPort),
         ~strayed' => \E m \in rt[s] : taken' = FreePorts(m)
  PROVE  RtInv'
  <1>1. Typed /\ Streamed(s) /\ Counted /\ Returned
    BY DEF RtInv
  <1>2. PICK n \in 0 .. AmpCount :
           /\ Stands(s, n, phase[s], adding.s, adding.todo)
           /\ StreamOk(s, n, rt[s], phase[s], mcount[s], resized, adding.s, strayed)
    BY <1>1 DEF Streamed
  <1>3. n = AmpCount /\ AmpCount \in Nat /\ AmpCount # 0
    BY <1>2, AmpsAre DEF Stands
  <1>4. rt[s] # {} /\ mcount[s] <= 1 /\ mcount[s] \in Int
    BY <1>1, <1>2, <1>3 DEF StreamOk, Typed
  <1>5. /\ rt \in [Dais -> SUBSET Rt] /\ mcount \in [Dais -> Int] /\ refs \in Int /\ orphaned \in Int
        /\ phase \in [Dais -> {"closed", "open", "params", "prepared"}]
        /\ enabled \in [Speakers -> SUBSET Kinds] /\ \A a \in Speakers : "cps" \in enabled[a]
        /\ resized \in SUBSET Dais
    BY <1>1 DEF Typed
  <1>6. Typed'
    <2>1. rt' \in [Dais -> SUBSET Rt] /\ mcount' \in [Dais -> Int]
      BY <1>5
    <2> QED BY <1>5, <2>1 DEF Typed
  <1>7. Streamed(s)'
    <2>1. rt'[s] = {} /\ mcount'[s] <= 0 /\ phase'[s] = "open" /\ adding'.s # s
      <3>1. "none" \notin Dais
        BY RuntimesAssumption
      <3> QED BY <1>4, <1>5, <3>1 DEF Nobody
    <2>2. Stands(s, 0, phase'[s], adding'.s, adding'.todo)
      BY <2>1 DEF Stands
    <2>3. mcount'[s] <= 1
      BY <1>4, <1>5
    <2>4. StreamOk(s, 0, rt'[s], phase'[s], mcount'[s], resized', adding'.s, strayed')
      BY <2>1, <2>3 DEF StreamOk
    <2>5. 0 \in 0 .. AmpCount
      BY <1>3
    <2> QED BY <2>2, <2>4, <2>5 DEF Streamed
  <1>8. Counted'
    <2>1. Cardinality(Held') = Cardinality(Held) + One({}) - One(rt[s]) /\ Cardinality(Held) \in Nat
      BY <1>5, HeldSteps
    <2>2. One({}) = 0 /\ One(rt[s]) = 1
      BY <1>4 DEF One
    <2>3. refs = orphaned + Cardinality(Held)
      BY <1>1 DEF Counted
    <2>4. refs' = orphaned' + Cardinality(Held')
      BY <1>5, <2>1, <2>2, <2>3
    <2> QED BY <2>4 DEF Counted
  <1>9. Returned'
    <2>1. SUFFICES ASSUME ~strayed'
                   PROVE  resized' = {} /\ \A x \in 0 .. MaxPort : x \in taken' <=> x = 0 \/ Used(x)'
      BY DEF Returned
    <2>2. ~strayed /\ resized = {} /\ \A x \in 0 .. MaxPort : x \in taken <=> x = 0 \/ Used(x)
      BY <1>1, <2>1 DEF Returned
    <2>3. PICK m \in rt[s] : taken' = taken \ PortNums(m)
      BY <2>1, FreePortsAre
    <2>4. \A k \in rt[s] : k = m
      BY <1>2 DEF StreamOk
    <2>5. 0 \notin PortNums(m)
      BY <1>1, <2>2, PortsNotZero
    <2>6. ASSUME NEW t \in Dais, t # s, NEW k \in rt[t] PROVE PortNums(m) \cap PortNums(k) = {}
      <3>1. Streamed(t)
        BY DEF RtInv
      <3> QED BY <1>1, <2>2, <2>6, <3>1, PortsApart
    <2>7. \A x : Used(x)' <=> \E t \in Dais : \E k \in rt'[t] : x \in PortNums(k)
      BY DEF Used
    <2>8. rt'[s] = {} /\ \A t \in Dais : t # s => rt'[t] = rt[t]
      BY <1>5
    <2>9. \A x : Used(x)' <=> Used(x) /\ x \notin PortNums(m)
      BY <2>4, <2>6, <2>7, <2>8 DEF Used
    <2> QED BY <2>2, <2>3, <2>5, <2>9
  <1>10. /\ \A t \in Dais \ {s} : rt'[t] = rt[t] /\ phase'[t] = phase[t] /\ mcount'[t] = mcount[t]
         /\ \A t \in Dais \ {s} : t \in resized' <=> t \in resized
    BY <1>5
  <1> QED BY <1>6, <1>7, <1>8, <1>9, <1>10, Together

\* A stream whose parameters were never set is left with an empty runtime.
LEMMA EmptiedKeeps ==
  ASSUME RtInv, NEW s \in Dais, phase[s] = "open", adding.s = s, adding' = Nobody,
         phase' = [phase EXCEPT ![s] = "open"],
         NEW R, \A r \in R : r = [slaves |-> <<>>, ports |-> <<>>], R = {} <=> rt[s] = {},
         rt' = [rt EXCEPT ![s] = R], refs' = refs, mcount' = mcount, taken' = taken,
         resized' = resized \ {s}, orphaned' = orphaned, enabled' = enabled,
         broken' \in Int, switched' \in Int, strayed' \in BOOLEAN, strayed => strayed'
  PROVE  RtInv'
  <1>1. Typed /\ Streamed(s) /\ Counted /\ Returned
    BY DEF RtInv
  <1>2. PICK n \in 0 .. AmpCount :
           /\ Stands(s, n, phase[s], adding.s, adding.todo)
           /\ StreamOk(s, n, rt[s], phase[s], mcount[s], resized, adding.s, strayed)
    BY <1>1 DEF Streamed
  <1>5. /\ rt \in [Dais -> SUBSET Rt] /\ mcount \in [Dais -> Int] /\ refs \in Int /\ orphaned \in Int
        /\ phase \in [Dais -> {"closed", "open", "params", "prepared"}]
        /\ enabled \in [Speakers -> SUBSET Kinds] /\ \A a \in Speakers : "cps" \in enabled[a]
        /\ resized \in SUBSET Dais /\ taken \in SUBSET (0 .. MaxPort)
    BY <1>1 DEF Typed
  <1>3. PICK f : f = [slaves |-> <<>>, ports |-> <<>>]
    OBVIOUS
  <1>4. f \in Rt /\ f.slaves = <<>> /\ f.ports = <<>>
    BY <1>3, EmptySeq DEF Rt
  <1>40. \A m \in rt[s] : m.ports = <<>> /\ (m.ports = <<>> => mcount[s] <= 0)
    BY <1>2, Zenon DEF StreamOk, RtOk
  <1>41. mcount[s] <= 0 /\ mcount[s] \in Int
    <2>1. CASE rt[s] = {}
      BY <1>2, <1>5, <2>1 DEF StreamOk
    <2>2. CASE rt[s] # {}
      BY <1>40, <1>5, <2>2
    <2> QED BY <2>1, <2>2
  <1>6. Typed'
    <2>1. rt' \in [Dais -> SUBSET Rt]
      BY <1>3, <1>4, <1>5
    <2> QED BY <1>5, <2>1 DEF Typed
  <1>7. Streamed(s)'
    <2>1. rt'[s] = R /\ phase'[s] = "open" /\ adding'.s # s
      <3>1. "none" \notin Dais
        BY RuntimesAssumption
      <3> QED BY <1>5, <3>1 DEF Nobody
    <2>2. Stands(s, 0, phase'[s], adding'.s, adding'.todo)
      BY <2>1 DEF Stands
    <2>3. Amped(f, 0)
      BY <1>4, EmptySeq DEF Amped
    <2>4. RtOk(s, 0, f, phase'[s], mcount'[s], resized', adding'.s, strayed')
      BY <1>4, <1>41, <2>3 DEF RtOk
    <2>5. StreamOk(s, 0, rt'[s], phase'[s], mcount'[s], resized', adding'.s, strayed')
      BY <1>3, <1>41, <2>1, <2>4 DEF StreamOk
    <2>6. 0 \in 0 .. AmpCount
      BY AmpsAre
    <2> QED BY <2>2, <2>5, <2>6 DEF Streamed
  <1>8. Counted'
    <2>1. Cardinality(Held') = Cardinality(Held) + One(R) - One(rt[s]) /\ Cardinality(Held) \in Nat
      BY <1>5, HeldSteps
    <2>2. One(R) = One(rt[s]) /\ One(R) \in Int
      BY DEF One
    <2>3. refs = orphaned + Cardinality(Held)
      BY <1>1 DEF Counted
    <2>4. refs' = orphaned' + Cardinality(Held')
      BY <1>5, <2>1, <2>2, <2>3
    <2> QED BY <2>4 DEF Counted
  <1>9. Returned'
    <2>1. \A m \in rt[s] : PortNums(m) = {}
      BY <1>40, NoPortsNoNumbers
    <2>2. \A m \in rt'[s] : PortNums(m) = {}
      BY <1>3, <1>4, <1>5, NoPortsNoNumbers
    <2>3. \A t \in Dais \ {s} : rt'[t] = rt[t]
      BY <1>5
    <2>4. /\ resized' \subseteq resized
          /\ \A x : (\E m \in rt'[s] : x \in PortNums(m)) <=> (\E m \in rt[s] : x \in PortNums(m))
      BY <2>1, <2>2
    <2> QED BY <1>1, <2>3, <2>4, ReturnedSame
  <1>10. /\ \A t \in Dais \ {s} : rt'[t] = rt[t] /\ phase'[t] = phase[t] /\ mcount'[t] = mcount[t]
         /\ \A t \in Dais \ {s} : t \in resized' <=> t \in resized
    BY <1>5
  <1> QED BY <1>6, <1>7, <1>8, <1>9, <1>10, Together

-----------------------------------------------------------------------------
\* Opening and closing

LEMMA InitRuntimes ==
  ASSUME RuntimesInit
  PROVE  RtInv
  <1>1. Typed
    <2>1. PICK on \in {{"cps", "dac"}, {"cps", "dac", "comp", "boost", "vi"}} :
             enabled = [a \in Speakers |-> on]
      BY DEF RuntimesInit
    <2>2. on \in SUBSET Kinds /\ "cps" \in on
      BY DEF Kinds
    <2>3. 0 \in 0 .. MaxPort
      BY RuntimesAssumption
    <2>4. enabled \in [Speakers -> SUBSET Kinds] /\ \A a \in Speakers : "cps" \in enabled[a]
      BY <2>1, <2>2
    <2>5. /\ phase \in [Dais -> {"closed", "open", "params", "prepared"}]
          /\ rt \in [Dais -> SUBSET Rt] /\ mcount \in [Dais -> Int]
      BY DEF RuntimesInit
    <2>6. /\ refs \in Int /\ orphaned \in Int /\ broken \in Int /\ switched \in Int
          /\ resized \in SUBSET Dais /\ adding = Nobody
      BY DEF RuntimesInit
    <2>8. strayed \in BOOLEAN
      BY Zenon DEF RuntimesInit
    <2>7. taken \in SUBSET (0 .. MaxPort)
      BY <2>3 DEF RuntimesInit
    <2> QED BY <2>4, <2>5, <2>6, <2>7, <2>8 DEF Typed
  <1>2. ASSUME NEW s \in Dais PROVE Streamed(s)
    <2>1. rt[s] = {} /\ phase[s] = "closed" /\ mcount[s] = 0
      BY DEF RuntimesInit
    <2>2. Stands(s, 0, phase[s], adding.s, adding.todo)
      BY <2>1 DEF Stands
    <2>3. StreamOk(s, 0, rt[s], phase[s], mcount[s], resized, adding.s, strayed)
      BY <2>1 DEF StreamOk
    <2>4. 0 \in 0 .. AmpCount
      BY AmpsAre
    <2> QED BY <2>2, <2>3, <2>4 DEF Streamed
  <1>3. Counted
    <2>1. Held = {}
      BY DEF Held, RuntimesInit
    <2>2. Cardinality(Held) = 0
      BY <2>1, FS_EmptySet
    <2> QED BY <2>2 DEF Counted, RuntimesInit
  <1>4. Returned
    <2>1. \A n : ~Used(n)
      BY DEF Used, RuntimesInit
    <2> QED BY <2>1 DEF Returned, RuntimesInit
  <1> QED BY <1>1, <1>2, <1>3, <1>4 DEF RtInv

LEMMA RuntimeIs ==
  ASSUME NEW s \in Dais, \A m, k \in rt[s] : m = k
  PROVE  /\ rt[s] = {} => Runtime(s) = [slaves |-> <<>>, ports |-> <<>>]
         /\ \A m \in rt[s] : Runtime(s) = m
  BY Zenon DEF Runtime, Fresh

LEMMA AllocKeeps ==
  ASSUME RtInv, NEW s \in Dais, sdw_alloc_stream(s)
  PROVE  RtInv'
  <1>1. Typed /\ Streamed(s) /\ Counted /\ Returned
    BY DEF RtInv
  <1>2. /\ adding = Nobody /\ phase[s] = "closed" /\ phase' = [phase EXCEPT ![s] = "open"]
        /\ mcount' = [mcount EXCEPT ![s] = 0]
        /\ UNCHANGED <<enabled, rt, refs, taken, adding, orphaned, broken, switched, resized, strayed>>
    BY DEF sdw_alloc_stream
  <1>3. PICK n \in 0 .. AmpCount :
           /\ Stands(s, n, phase[s], adding.s, adding.todo)
           /\ StreamOk(s, n, rt[s], phase[s], mcount[s], resized, adding.s, strayed)
    BY <1>1 DEF Streamed
  <1>4. n = 0 /\ rt[s] = {}
    BY <1>2, <1>3 DEF Stands, StreamOk
  <1>5. phase' \in [Dais -> {"closed", "open", "params", "prepared"}] /\ mcount' \in [Dais -> Int]
    BY <1>1, <1>2 DEF Typed
  <1>6. phase'[s] = "open" /\ mcount'[s] = 0
    BY <1>1, <1>2 DEF Typed
  <1>7. Typed'
    <2>1. enabled \in [Speakers -> SUBSET Kinds] /\ \A a \in Speakers : "cps" \in enabled[a]
      BY <1>1 DEF Typed
    <2>2. /\ rt \in [Dais -> SUBSET Rt] /\ refs \in Int /\ taken \in SUBSET (0 .. MaxPort)
          /\ orphaned \in Int /\ broken \in Int /\ switched \in Int /\ resized \in SUBSET Dais
      BY <1>1 DEF Typed
    <2>3. strayed \in BOOLEAN
      BY <1>1, Zenon DEF Typed
    <2> QED BY <1>2, <1>5, <2>1, <2>2, <2>3 DEF Typed
  <1>8. Streamed(s)'
    <2>0. adding.s # s
      <3>1. "none" \notin Dais
        BY RuntimesAssumption
      <3> QED BY <1>2, <3>1 DEF Nobody
    <2>1. Stands(s, 0, phase'[s], adding'.s, adding'.todo)
      BY <1>2, <1>6, <2>0 DEF Stands
    <2>2. StreamOk(s, 0, rt'[s], phase'[s], mcount'[s], resized', adding'.s, strayed')
      BY <1>2, <1>4, <1>6 DEF StreamOk
    <2> QED BY <1>3, <1>4, <2>1, <2>2 DEF Streamed
  <1>9. Counted'
    BY <1>1, <1>2 DEF Counted, Held
  <1>10. Returned'
    <2>1. \A t \in Dais \ {s} : rt'[t] = rt[t]
      BY <1>2
    <2> QED BY <1>1, <1>2, <2>1, ReturnedSame
  <1>11. /\ \A t \in Dais \ {s} : rt'[t] = rt[t] /\ phase'[t] = phase[t] /\ mcount'[t] = mcount[t]
         /\ \A t \in Dais \ {s} : t \in resized' <=> t \in resized
    BY <1>1, <1>2 DEF Typed
  <1> QED BY <1>2, <1>7, <1>8, <1>9, <1>10, <1>11, Together

LEMMA ReleaseKeeps ==
  ASSUME RtInv, NEW s \in Dais, sdw_release_stream(s)
  PROVE  RtInv'
  <1>1. Typed /\ Streamed(s) /\ Counted /\ Returned
    BY DEF RtInv
  <1>2. /\ adding = Nobody /\ phase[s] = "open" /\ phase' = [phase EXCEPT ![s] = "closed"]
        /\ rt' = [rt EXCEPT ![s] = {}] /\ orphaned' = orphaned + Cardinality(rt[s])
        /\ resized' = resized \ {s}
        /\ UNCHANGED <<enabled, refs, mcount, taken, adding, broken, switched, strayed>>
    BY DEF sdw_release_stream
  <1>3. PICK n \in 0 .. AmpCount :
           /\ Stands(s, n, phase[s], adding.s, adding.todo)
           /\ StreamOk(s, n, rt[s], phase[s], mcount[s], resized, adding.s, strayed)
    BY <1>1 DEF Streamed
  <1>4. /\ rt \in [Dais -> SUBSET Rt] /\ mcount \in [Dais -> Int] /\ refs \in Int /\ orphaned \in Int
        /\ phase \in [Dais -> {"closed", "open", "params", "prepared"}]
        /\ enabled \in [Speakers -> SUBSET Kinds] /\ \A a \in Speakers : "cps" \in enabled[a]
        /\ resized \in SUBSET Dais /\ taken \in SUBSET (0 .. MaxPort)
        /\ broken \in Int /\ switched \in Int
    BY <1>1 DEF Typed
  <1>5. \A m \in rt[s] : m.ports = <<>> /\ (m.ports = <<>> => mcount[s] <= 0)
    BY <1>2, <1>3, Zenon DEF StreamOk, RtOk
  <1>6. mcount[s] <= 0 /\ mcount[s] \in Int
    <2>1. CASE rt[s] = {}
      BY <1>3, <1>4, <2>1 DEF StreamOk
    <2>2. CASE rt[s] # {}
      BY <1>4, <1>5, <2>2
    <2> QED BY <2>1, <2>2
  <1>7. Cardinality(rt[s]) = One(rt[s])
    <2>1. \A m, k \in rt[s] : m = k
      BY <1>3 DEF StreamOk
    <2> QED BY <2>1, AtMostOne DEF One
  <1>8. phase'[s] = "closed" /\ rt'[s] = {}
    BY <1>2, <1>4
  <1>9. Typed'
    <2>1. /\ rt' \in [Dais -> SUBSET Rt]
          /\ phase' \in [Dais -> {"closed", "open", "params", "prepared"}]
      BY <1>2, <1>4
    <2>2. orphaned' \in Int /\ resized' \in SUBSET Dais
      BY <1>2, <1>4, <1>7 DEF One
    <2>3. strayed \in BOOLEAN
      BY <1>1, Zenon DEF Typed
    <2> QED BY <1>2, <1>4, <2>1, <2>2, <2>3 DEF Typed
  <1>10. Streamed(s)'
    <2>1. Stands(s, 0, phase'[s], adding'.s, adding'.todo)
      BY <1>8 DEF Stands
    <2>2. mcount'[s] <= 1 /\ mcount'[s] <= 0
      BY <1>2, <1>6
    <2>3. StreamOk(s, 0, rt'[s], phase'[s], mcount'[s], resized', adding'.s, strayed')
      BY <1>8, <2>2 DEF StreamOk
    <2>4. 0 \in 0 .. AmpCount
      BY AmpsAre
    <2> QED BY <2>1, <2>3, <2>4 DEF Streamed
  <1>11. Counted'
    <2>1. Cardinality(Held') = Cardinality(Held) + One({}) - One(rt[s]) /\ Cardinality(Held) \in Nat
      BY <1>2, <1>4, HeldSteps
    <2>2. One({}) = 0 /\ One(rt[s]) \in Int
      BY DEF One
    <2>3. refs = orphaned + Cardinality(Held)
      BY <1>1 DEF Counted
    <2>4. refs' = orphaned' + Cardinality(Held')
      BY <1>2, <1>4, <1>7, <2>1, <2>2, <2>3
    <2> QED BY <2>4 DEF Counted
  <1>12. Returned'
    <2>1. \A m \in rt[s] : PortNums(m) = {}
      BY <1>5, NoPortsNoNumbers
    <2>2. \A t \in Dais \ {s} : rt'[t] = rt[t]
      BY <1>2, <1>4
    <2>3. /\ resized' \subseteq resized
          /\ \A x : (\E m \in rt'[s] : x \in PortNums(m)) <=> (\E m \in rt[s] : x \in PortNums(m))
      BY <1>2, <1>8, <2>1
    <2> QED BY <1>1, <1>2, <2>2, <2>3, ReturnedSame
  <1>13. /\ \A t \in Dais \ {s} : rt'[t] = rt[t] /\ phase'[t] = phase[t] /\ mcount'[t] = mcount[t]
         /\ \A t \in Dais \ {s} : t \in resized' <=> t \in resized
    BY <1>2, <1>4
  <1> QED BY <1>2, <1>9, <1>10, <1>11, <1>12, <1>13, Together

LEMMA SetPortKeeps ==
  ASSUME RtInv, NEW a \in Speakers, NEW k \in Kinds, SetPort(a, k)
  PROVE  RtInv'
  <1>1. Typed /\ Counted /\ Returned /\ \A s \in Dais : Streamed(s)
    BY DEF RtInv
  <1>2. /\ k # "cps" /\ switched' = switched + 1
        /\ enabled' = [enabled EXCEPT ![a] = IF k \in @ THEN @ \ {k} ELSE @ \cup {k}]
        /\ UNCHANGED <<phase, rt, refs, mcount, taken, adding, orphaned, broken, resized, strayed>>
    BY DEF SetPort
  <1>3. enabled' \in [Speakers -> SUBSET Kinds] /\ \A b \in Speakers : "cps" \in enabled'[b]
    <2>1. enabled \in [Speakers -> SUBSET Kinds] /\ \A b \in Speakers : "cps" \in enabled[b]
      BY <1>1 DEF Typed
    <2> QED BY <1>2, <2>1
  <1>4. switched' \in Int
    BY <1>1, <1>2 DEF Typed
  <1>5. Typed'
    BY <1>1, <1>2, <1>3, <1>4, Zenon DEF Typed
  <1>6. \A s \in Dais : Streamed(s)'
    BY <1>1, <1>2 DEF Streamed
  <1>7. Counted'
    BY <1>1, <1>2 DEF Counted, Held
  <1>8. Returned'
    BY <1>1, <1>2, Zenon DEF Returned, Used
  <1> QED BY <1>5, <1>6, <1>7, <1>8 DEF RtInv

\* Only whose turn it is, or the phase, of a stream changes.
LEMMA BeginKeeps ==
  ASSUME RtInv, NEW s \in Dais, ParamsBegin(s)
  PROVE  RtInv'
  <1>1. Typed /\ Streamed(s) /\ Counted /\ Returned
    BY DEF RtInv
  <1>2. /\ adding = Nobody /\ phase[s] \in {"open", "params"}
        /\ adding' = [s |-> s, todo |-> Append(AmpSeq, Master)]
        /\ UNCHANGED <<enabled, phase, rt, refs, mcount, taken, orphaned, broken,
                       switched, resized, strayed>>
    BY DEF ParamsBegin
  <1>3. PICK n \in 0 .. AmpCount :
           /\ Stands(s, n, phase[s], adding.s, adding.todo)
           /\ StreamOk(s, n, rt[s], phase[s], mcount[s], resized, adding.s, strayed)
    BY <1>1 DEF Streamed
  <1>4. Todo(0) = Append(AmpSeq, Master)
    <2>1. PICK V : V = Speakers \cup {Master}
      OBVIOUS
    <2>2. AmpSeq \in Seq(V) /\ Master \in V
      BY <2>1, RuntimesAssumption, SeqMonotonic
    <2>3. PICK l \in Seq(V) : l = Append(AmpSeq, Master) /\ Len(l) = AmpCount + 1
      BY <2>2, AppendProperties DEF AmpCount
    <2>4. SubSeq(l, 1, Len(l)) = l
      BY SubSeqFull
    <2>5. Todo(0) = SubSeq(l, 0 + 1, AmpCount + 1) /\ 0 + 1 = 1
      BY <2>3 DEF Todo
    <2> QED BY <2>3, <2>4, <2>5
  <1>5. adding.s # s
    <2>1. "none" \notin Dais
      BY RuntimesAssumption
    <2> QED BY <1>2, <2>1 DEF Nobody
  <1>6. Typed'
    <2>1. 0 \in 0 .. AmpCount
      BY AmpsAre
    <2>2. \E t \in Dais, j \in 0 .. AmpCount :
             adding' = [s |-> t, todo |-> Todo(j)] /\ phase'[t] \in {"open", "params"}
      BY <1>2, <1>4, <2>1
    <2> QED BY <1>1, <1>2, <2>2, Zenon DEF Typed
  <1>7. Streamed(s)'
    <2>1. phase[s] = "open" => n = 0
      BY <1>3, <1>5 DEF Stands
    <2>2. adding'.s = s /\ adding'.todo = Todo(0)
      BY <1>2, <1>4
    <2>3. Stands(s, n, phase'[s], adding'.s, adding'.todo)
      BY <1>2, <1>3, <2>1, <2>2 DEF Stands
    <2>4. \A m \in rt[s] : RtOk(s, n, m, phase[s], mcount[s], resized, adding.s, strayed)
      BY <1>3 DEF StreamOk
    <2>5. \A m \in rt[s] : RtOk(s, n, m, phase[s], mcount[s], resized, s, strayed)
      BY <2>4, Zenon DEF RtOk
    <2>6. StreamOk(s, n, rt'[s], phase'[s], mcount'[s], resized', adding'.s, strayed')
      BY <1>2, <1>3, <2>2, <2>5, Zenon DEF StreamOk
    <2> QED BY <2>3, <2>6 DEF Streamed
  <1>8. Counted'
    BY <1>1, <1>2 DEF Counted, Held
  <1>9. Returned'
    <2>1. \A t \in Dais \ {s} : rt'[t] = rt[t]
      BY <1>2
    <2> QED BY <1>1, <1>2, <2>1, ReturnedSame
  <1>10. /\ \A t \in Dais \ {s} : rt'[t] = rt[t] /\ phase'[t] = phase[t] /\ mcount'[t] = mcount[t]
         /\ \A t \in Dais \ {s} : t \in resized' <=> t \in resized
    BY <1>2
  <1>11. adding'.s = s
    BY <1>2
  <1> QED BY <1>2, <1>6, <1>7, <1>8, <1>9, <1>10, <1>11, Together

LEMMA PrepareKeeps ==
  ASSUME RtInv, NEW s \in Dais, RuntimesPrepare(s)
  PROVE  RtInv'
  <1>1. Typed /\ Streamed(s) /\ Counted /\ Returned
    BY DEF RtInv
  <1>2. /\ adding = Nobody /\ phase[s] = "params" /\ phase' = [phase EXCEPT ![s] = "prepared"]
        /\ UNCHANGED <<enabled, rt, refs, mcount, taken, adding, orphaned, broken, switched, resized, strayed>>
    BY DEF RuntimesPrepare
  <1>3. PICK n \in 0 .. AmpCount :
           /\ Stands(s, n, phase[s], adding.s, adding.todo)
           /\ StreamOk(s, n, rt[s], phase[s], mcount[s], resized, adding.s, strayed)
    BY <1>1 DEF Streamed
  <1>4. /\ phase \in [Dais -> {"closed", "open", "params", "prepared"}]
        /\ phase' \in [Dais -> {"closed", "open", "params", "prepared"}]
        /\ phase'[s] = "prepared"
    BY <1>1, <1>2 DEF Typed
  <1>5. Typed'
    BY <1>1, <1>2, <1>4, Zenon DEF Typed
  <1>6. Streamed(s)'
    <2>1. Stands(s, n, phase'[s], adding'.s, adding'.todo)
      BY <1>2, <1>3, <1>4 DEF Stands
    <2>2. \A m \in rt[s] : RtOk(s, n, m, phase[s], mcount[s], resized, adding.s, strayed)
      BY <1>3 DEF StreamOk
    <2>3. \A m \in rt[s] : RtOk(s, n, m, phase'[s], mcount[s], resized, adding.s, strayed)
      <3>1. phase'[s] # "open"
        BY <1>4
      <3> QED BY <2>2, <3>1, Zenon DEF RtOk
    <2>4. phase'[s] # "closed"
      BY <1>4
    <2>5. StreamOk(s, n, rt'[s], phase'[s], mcount'[s], resized', adding'.s, strayed')
      BY <1>2, <1>3, <2>3, <2>4, Zenon DEF StreamOk
    <2> QED BY <2>1, <2>5 DEF Streamed
  <1>8. Counted'
    BY <1>1, <1>2 DEF Counted, Held
  <1>9. Returned'
    <2>1. \A t \in Dais \ {s} : rt'[t] = rt[t]
      BY <1>2
    <2> QED BY <1>1, <1>2, <2>1, ReturnedSame
  <1>10. /\ \A t \in Dais \ {s} : rt'[t] = rt[t] /\ phase'[t] = phase[t] /\ mcount'[t] = mcount[t]
         /\ \A t \in Dais \ {s} : t \in resized' <=> t \in resized
    BY <1>2, <1>4
  <1> QED BY <1>2, <1>5, <1>6, <1>8, <1>9, <1>10, Together

LEMMA FreeKeeps ==
  ASSUME RtInv, NEW s \in Dais, RuntimesFree(s)
  PROVE  RtInv'
  <1>1. Typed /\ Streamed(s)
    BY DEF RtInv
  <1>2. /\ adding = Nobody /\ phase[s] \in {"params", "prepared"}
        /\ phase' = [phase EXCEPT ![s] = "open"] /\ taken' = FreePorts(Runtime(s))
        /\ rt' = [rt EXCEPT ![s] = {}] /\ refs' = refs - 1
        /\ mcount' = [mcount EXCEPT ![s] = @ - 1] /\ resized' = resized \ {s}
        /\ UNCHANGED <<enabled, adding, orphaned, broken, switched, strayed>>
    BY DEF RuntimesFree
  <1>3. PICK n \in 0 .. AmpCount :
           /\ Stands(s, n, phase[s], adding.s, adding.todo)
           /\ StreamOk(s, n, rt[s], phase[s], mcount[s], resized, adding.s, strayed)
    BY <1>1 DEF Streamed
  <1>4. PICK m : m \in rt[s]
    BY <1>2, <1>3, AmpsAre DEF Stands, StreamOk
  <1>5. taken' = FreePorts(m)
    BY <1>2, <1>3, <1>4, RuntimeIs DEF StreamOk
  <1>6. broken' \in Int /\ switched' \in Int /\ taken' \in SUBSET (0 .. MaxPort)
    BY <1>1, <1>2, <1>5, FreePortsAre DEF Typed
  <1>7. strayed' \in BOOLEAN
    BY <1>1, <1>2, Zenon DEF Typed
  <1> QED BY <1>2, <1>4, <1>5, <1>6, <1>7, FreedKeeps

\* ALSA takes back what has accepted: after a later hw_params, all.
LEMMA RollsBackAll ==
  ASSUME RtInv, NEW s \in Dais, phase[s] = "params", adding.s = s,
         NEW m, NEW amps, RollBack(s, m, amps), enabled' = enabled, orphaned' = orphaned,
         broken' \in Int, switched' \in Int, strayed' \in BOOLEAN, strayed => strayed',
         ~strayed' => m = rt[s]
  PROVE  RtInv'
  <1>1. Typed /\ Streamed(s)
    BY DEF RtInv
  <1>2. /\ adding' = Nobody /\ phase' = [phase EXCEPT ![s] = "open"] /\ resized' = resized \ {s}
        /\ rt' = [rt EXCEPT ![s] = {}] /\ refs' = refs - 1
        /\ mcount' = [mcount EXCEPT ![s] = @ - 1]
        /\ taken' = FreePorts(CHOOSE x \in m : TRUE)
    BY DEF RollBack
  <1>3. PICK n \in 0 .. AmpCount :
           /\ Stands(s, n, phase[s], adding.s, adding.todo)
           /\ StreamOk(s, n, rt[s], phase[s], mcount[s], resized, adding.s, strayed)
    BY <1>1 DEF Streamed
  <1>4. rt[s] # {}
    BY <1>3, AmpsAre DEF Stands, StreamOk
  <1>5. taken' \in SUBSET (0 .. MaxPort)
    BY <1>1, <1>2, FreePortsAre DEF Typed
  <1>6. ~strayed' => \E k \in rt[s] : taken' = FreePorts(k)
    BY <1>2, <1>4
  <1> QED BY <1>2, <1>5, <1>6, FreedKeeps

\* After a first one, those before the one that refused.
LEMMA RollsBackSome ==
  ASSUME RtInv, NEW s \in Dais, phase[s] = "open", NEW j \in 0 .. AmpCount,
         adding = [s |-> s, todo |-> Todo(j)],
         NEW amps, RollBack(s, rt[s], amps), \A i \in 1 .. j : AmpSeq[i] \in ToSet(amps),
         enabled' = enabled, orphaned' = orphaned,
         broken' \in Int, switched' \in Int, strayed' \in BOOLEAN, strayed => strayed'
  PROVE  RtInv'
  <1>1. Typed /\ Streamed(s)
    BY DEF RtInv
  <1>2. /\ adding' = Nobody /\ phase' = [phase EXCEPT ![s] = "open"] /\ resized' = resized \ {s}
        /\ rt' = [rt EXCEPT ![s] = {RemoveSlaves(x, ToSet(amps)) : x \in rt[s]}]
        /\ refs' = refs + Cardinality(rt[s]) - Cardinality(rt[s])
        /\ mcount' = mcount /\ taken' = taken
    BY DEF RollBack
  <1>3. PICK n \in 0 .. AmpCount :
           /\ Stands(s, n, phase[s], adding.s, adding.todo)
           /\ StreamOk(s, n, rt[s], phase[s], mcount[s], resized, adding.s, strayed)
    BY <1>1 DEF Streamed
  <1>4. n = j
    <2>1. Todo(n) = Todo(j)
      BY <1>3 DEF Stands
    <2>2. Len(Todo(n)) = AmpCount + 1 - n /\ Len(Todo(j)) = AmpCount + 1 - j /\ AmpCount \in Nat
      BY TodoIs, AmpsAre
    <2> QED BY <2>1, <2>2
  <1>5. refs' = refs
    <2>1. Cardinality(rt[s]) \in Int
      BY <1>3, AtMostOne DEF StreamOk
    <2> QED BY <1>1, <1>2, <2>1 DEF Typed
  <1>6. PICK R : R = {RemoveSlaves(x, ToSet(amps)) : x \in rt[s]}
    OBVIOUS
  <1>7. ASSUME NEW x \in rt[s]
        PROVE  RemoveSlaves(x, ToSet(amps)) = [slaves |-> <<>>, ports |-> <<>>]
    <2>1. x \in Rt /\ Amped(x, j) /\ x.ports = <<>>
      <3>1. RtOk(s, j, x, phase[s], mcount[s], resized, adding.s, strayed)
        BY <1>3, <1>4 DEF StreamOk
      <3>2. x \in Rt
        BY <1>1 DEF Typed
      <3> QED BY <3>1, <3>2, Zenon DEF RtOk
    <2>2. \A i \in DOMAIN x.slaves : x.slaves[i].amp \in ToSet(amps)
      <3>1. DOMAIN x.slaves = 1 .. j
        BY <2>1 DEF Amped, Rt
      <3>2. \A i \in 1 .. j : x.slaves[i].amp = AmpSeq[i]
        BY <2>1 DEF Amped
      <3> QED BY <3>1, <3>2
    <2>3. RemoveSlaves(x, ToSet(amps)) = [slaves |-> <<>>, ports |-> x.ports]
      BY <2>1, <2>2, RemovesAll
    <2> QED BY <2>1, <2>3
  <1>8. \A r \in R : r = [slaves |-> <<>>, ports |-> <<>>]
    BY <1>6, <1>7
  <1>9. R = {} <=> rt[s] = {}
    BY <1>6
  <1>10. rt' = [rt EXCEPT ![s] = R] /\ adding.s = s
    BY <1>2, <1>6
  <1> QED BY <1>2, <1>5, <1>8, <1>9, <1>10, EmptiedKeeps

\* An amplifier or the master refuses.
LEMMA RollBackKeeps ==
  ASSUME RtInv, NEW s \in Dais, NEW d, IsNext(d), adding.s = s,
         NEW amps, RollBack(s, rt[s], amps),
         \A j \in 0 .. AmpCount : j < AmpCount /\ d = AmpSeq[j + 1] => amps = Earlier(d),
         d = Master => amps = AmpSeq,
         UNCHANGED <<enabled, orphaned, switched, strayed>>, broken' \in Int
  PROVE  RtInv'
  <1>1. Typed
    BY DEF RtInv
  <1>2. PICK j \in 0 .. AmpCount :
           /\ adding = [s |-> s, todo |-> Todo(j)] /\ phase[s] \in {"open", "params"}
           /\ d = Master <=> j = AmpCount
           /\ j < AmpCount => d = AmpSeq[j + 1] /\ j + 1 \in 1 .. AmpCount
    BY <1>1, NextIs
  <1>3. switched' \in Int
    BY <1>1 DEF Typed
  <1>30. strayed' \in BOOLEAN
    BY <1>1, Zenon DEF Typed
  <1>4. CASE phase[s] = "params"
    BY <1>3, <1>30, <1>4, RollsBackAll
  <1>5. CASE phase[s] = "open"
    <2>1. \A i \in 1 .. j : AmpSeq[i] \in ToSet(amps)
      <3>1. CASE j < AmpCount
        BY <1>2, <3>1, EarlierAre
      <3>2. CASE j = AmpCount
        BY <1>2, <3>2, AmpsAre DEF ToSet
      <3>3. j < AmpCount \/ j = AmpCount
        BY AmpsAre
      <3> QED BY <3>1, <3>2, <3>3
    <2> QED BY <1>2, <1>3, <1>30, <1>5, <2>1, RollsBackSome
  <1> QED BY <1>2, <1>4, <1>5

LEMMA NoPortsKeeps ==
  ASSUME RtInv, NEW s \in Dais, NEW a \in Speakers, wsa884x_hw_params_no_ports(s, a)
  PROVE  RtInv'
  <1>1. /\ IsNext(a) /\ adding.s = s /\ RollBack(s, rt[s], Earlier(a))
        /\ UNCHANGED <<enabled, orphaned, broken, switched, strayed>>
    BY DEF wsa884x_hw_params_no_ports
  <1>2. a # Master /\ broken' \in Int
    BY <1>1, RuntimesAssumption DEF Master, RtInv, Typed
  <1> QED BY <1>1, <1>2, RollBackKeeps

LEMMA SlaveNoMemKeeps ==
  ASSUME RtInv, NEW s \in Dais, NEW a \in Speakers, sdw_stream_add_slave_nomem(s, a)
  PROVE  RtInv'
  <1>1. /\ IsNext(a) /\ adding.s = s /\ RollBack(s, rt[s], Earlier(a)) /\ broken' = broken + 1
        /\ UNCHANGED <<enabled, orphaned, switched, strayed>>
    BY DEF sdw_stream_add_slave_nomem, Fails
  <1>2. a # Master /\ broken' \in Int
    BY <1>1, RuntimesAssumption DEF Master, RtInv, Typed
  <1> QED BY <1>1, <1>2, RollBackKeeps

LEMMA MasterNoMemKeeps ==
  ASSUME RtInv, NEW s \in Dais, qcom_swrm_hw_params_nomem(s)
  PROVE  RtInv'
  <1>1. /\ IsNext(Master) /\ adding.s = s /\ RollBack(s, rt[s], AmpSeq) /\ broken' = broken + 1
        /\ UNCHANGED <<enabled, orphaned, switched, strayed>>
    BY DEF qcom_swrm_hw_params_nomem, Fails
  <1>2. broken' \in Int
    BY <1>1 DEF RtInv, Typed
  <1>3. ASSUME NEW j \in 0 .. AmpCount, j < AmpCount PROVE Master # AmpSeq[j + 1]
    <2>1. j + 1 \in 1 .. AmpCount
      BY <1>3, AmpsAre
    <2> QED BY <2>1, AmpsAre
  <1> QED BY <1>1, <1>2, <1>3, RollBackKeeps

-----------------------------------------------------------------------------
\* An amplifier accepts

\* What a step that puts runtime r has to show, whoever it is that took it.
LEMMA PutKeeps ==
  ASSUME RtInv, NEW s \in Dais, adding.s = s, NEW r \in Rt, NEW n \in 0 .. AmpCount,
         rt' = [rt EXCEPT ![s] = {r}], refs' = refs + 1 - Cardinality(rt[s]),
         Typed', Stands(s, n, phase'[s], adding'.s, adding'.todo), phase'[s] # "closed",
         mcount'[s] <= 1,
         RtOk(s, n, r, phase'[s], mcount'[s], resized', adding'.s, strayed'),
         \A t \in Dais \ {s} : phase'[t] = phase[t] /\ mcount'[t] = mcount[t],
         \A t \in Dais \ {s} : t \in resized' <=> t \in resized,
         strayed => strayed', adding' = Nobody \/ adding'.s = s, orphaned' = orphaned,
         Returned'
  PROVE  RtInv'
  <1>1. Typed /\ Streamed(s) /\ Counted
    BY DEF RtInv
  <1>2. rt \in [Dais -> SUBSET Rt] /\ refs \in Int /\ orphaned \in Int
    BY <1>1 DEF Typed
  <1>3. rt'[s] = {r} /\ \A t \in Dais \ {s} : rt'[t] = rt[t]
    BY <1>2
  <1>4. Streamed(s)'
    <2>1. StreamOk(s, n, rt'[s], phase'[s], mcount'[s], resized', adding'.s, strayed')
      BY <1>3 DEF StreamOk
    <2> QED BY <2>1 DEF Streamed
  <1>5. Cardinality(rt[s]) = One(rt[s])
    <2>1. \A m, k \in rt[s] : m = k
      BY <1>1 DEF Streamed, StreamOk
    <2> QED BY <2>1, AtMostOne DEF One
  <1>6. Counted'
    <2>1. Cardinality(Held') = Cardinality(Held) + One({r}) - One(rt[s]) /\ Cardinality(Held) \in Nat
      BY <1>2, HeldSteps
    <2>2. One({r}) = 1 /\ One(rt[s]) \in Int
      BY DEF One
    <2>3. refs = orphaned + Cardinality(Held)
      BY <1>1 DEF Counted
    <2>4. refs' = orphaned' + Cardinality(Held')
      BY <1>2, <1>5, <2>1, <2>2, <2>3
    <2> QED BY <2>4 DEF Counted
  <1> QED BY <1>3, <1>4, <1>6, Together

\* The ports of amplifier a in stream s are filled in from its selection.
PortsOf(s, a) ==
  IF SlaveOf(Runtime(s), a) = {} THEN Selected(s, a)
  ELSE (CHOOSE x \in SlaveOf(Runtime(s), a) : TRUE).ports
Behind(s, a) == (Len(Selected(s, a)) + 1) .. Len(PortsOf(s, a))
Put(s, a, rest) == PutSlave(Runtime(s), Slave(a, Filled(PortsOf(s, a), Selected(s, a), rest)))
Accepted(s, a) ==
  /\ \E rest \in [Behind(s, a) -> {"comp", "cps", Garbage}] : rt' = [rt EXCEPT ![s] = {Put(s, a, rest)}]
  /\ refs' = refs + 1 - Cardinality(rt[s])
  /\ adding' = [adding EXCEPT !.todo = Tail(@)]
  /\ resized' = IF Len(PortsOf(s, a)) # Len(Selected(s, a)) THEN resized \cup {s} ELSE resized
  /\ strayed' = (strayed \/ PortsOf(s, a) # Selected(s, a))
  /\ UNCHANGED <<phase, mcount, taken, broken>>
TurnedDown(s, a) ==
  /\ Len(PortsOf(s, a)) > Len(Selected(s, a))
  /\ RollBack(s, {Put(s, a, [i \in Behind(s, a) |-> Garbage])}, Earlier(a))
  /\ strayed' = TRUE
  /\ UNCHANGED broken

LEMMA AddSlaveDoes ==
  ASSUME NEW s, NEW a, sdw_stream_add_slave(s, a)
  PROVE  /\ IsNext(a) /\ adding.s = s /\ Selected(s, a) # <<>>
         /\ UNCHANGED <<enabled, orphaned, switched>>
         /\ Accepted(s, a) \/ TurnedDown(s, a)
  BY Zenon DEF sdw_stream_add_slave, Accepted, TurnedDown, Put, Behind, PortsOf

\* In a first hw_params the amplifier is new, and gets the ports selected.
LEMMA AddsKeeps ==
  ASSUME RtInv, NEW s \in Dais, NEW a \in Speakers, phase[s] = "open", sdw_stream_add_slave(s, a)
  PROVE  RtInv'
  <1>1. Typed /\ Streamed(s) /\ Counted /\ Returned
    BY DEF RtInv
  <1>2. /\ IsNext(a) /\ adding.s = s /\ Selected(s, a) # <<>>
        /\ UNCHANGED <<enabled, orphaned, switched>>
        /\ Accepted(s, a) \/ TurnedDown(s, a)
    BY AddSlaveDoes
  <1>3. PICK j \in 0 .. AmpCount :
           /\ adding = [s |-> s, todo |-> Todo(j)] /\ (a = Master <=> j = AmpCount)
           /\ j < AmpCount => a = AmpSeq[j + 1] /\ j + 1 \in 1 .. AmpCount
    BY <1>1, <1>2, NextIs
  <1>4. a # Master /\ j < AmpCount /\ j \in Nat /\ j + 1 \in 0 .. AmpCount /\ a = AmpSeq[j + 1]
    <2>1. a # Master
      BY RuntimesAssumption DEF Master
    <2> QED BY <1>3, <2>1, AmpsAre
  <1>5. PICK n \in 0 .. AmpCount :
           /\ Stands(s, n, phase[s], adding.s, adding.todo)
           /\ StreamOk(s, n, rt[s], phase[s], mcount[s], resized, adding.s, strayed)
    BY <1>1 DEF Streamed
  <1>6. n = j
    <2>1. Todo(n) = Todo(j)
      BY <1>2, <1>3, <1>5 DEF Stands
    <2>2. /\ Len(Todo(n)) = AmpCount + 1 - n /\ Len(Todo(j)) = AmpCount + 1 - j
          /\ AmpCount \in Int /\ n \in Int /\ j \in Int
      BY <1>4, TodoIs, AmpsAre
    <2> QED BY <2>1, <2>2
  <1>7. /\ rt \in [Dais -> SUBSET Rt] /\ mcount[s] \in Int /\ resized \in SUBSET Dais
        /\ mcount \in [Dais -> Int] /\ refs \in Int
    BY <1>1 DEF Typed
  <1>8. PICK m \in Rt : m = Runtime(s) /\ Amped(m, j) /\ m.ports = <<>> /\ mcount[s] <= 0
           /\ (s \notin resized => \A i \in 1 .. j : Chosen(s, m.slaves[i].ports))
    <2>1. CASE rt[s] = {}
      <3>1. PICK f : f = [slaves |-> <<>>, ports |-> <<>>]
        OBVIOUS
      <3>2. f \in Rt /\ f.slaves = <<>> /\ f.ports = <<>>
        BY <3>1, EmptySeq DEF Rt
      <3>3. j = 0 /\ mcount[s] <= 0
        BY <1>5, <1>6, <2>1 DEF StreamOk
      <3>4. Amped(f, j)
        BY <3>2, <3>3, EmptySeq DEF Amped
      <3>5. Runtime(s) = f
        BY <2>1, <3>1, RuntimeIs
      <3> QED BY <3>2, <3>3, <3>4, <3>5
    <2>2. CASE rt[s] # {}
      <3>1. PICK m \in rt[s] : TRUE
        BY <2>2
      <3>2. m \in Rt /\ Runtime(s) = m
        BY <1>5, <1>7, <3>1, RuntimeIs DEF StreamOk
      <3>3. RtOk(s, j, m, phase[s], mcount[s], resized, adding.s, strayed)
        BY <1>5, <1>6, <3>1 DEF StreamOk
      <3>4. /\ Amped(m, j) /\ m.ports = <<>> /\ mcount[s] <= 0
            /\ (s \notin resized => \A i \in 1 .. j : Chosen(s, m.slaves[i].ports))
        BY <3>3, Zenon DEF RtOk
      <3> QED BY <3>2, <3>4
    <2> QED BY <2>1, <2>2
  <1>9. PICK e \in Seq(Kinds) : e = Selected(s, a) /\ Chosen(s, e) /\ e # <<>>
    BY <1>2, SelectedIs
  <1>10. PICK x : x = Slave(a, e)
    OBVIOUS
  <1>11. x \in SlaveRec /\ x.amp = AmpSeq[j + 1] /\ x.ports = e
    <2>1. e \in Seq(Labels)
      BY <1>9, ChosenKinds
    <2> QED BY <1>4, <1>10, <2>1 DEF Slave, SlaveRec
  <1>12. PICK r : r = PutSlave(m, x)
    OBVIOUS
  <1>13. /\ SlaveOf(m, x.amp) = {} /\ r \in Rt /\ r.ports = m.ports /\ Amped(r, j + 1)
         /\ \A i \in 1 .. j : r.slaves[i] = m.slaves[i]
         /\ r.slaves[j + 1] = x
    BY <1>4, <1>8, <1>9, <1>11, <1>12, AddsSlave
  <1>14. PortsOf(s, a) = e
    BY <1>4, <1>8, <1>9, <1>11, <1>13 DEF PortsOf
  <1>15. Accepted(s, a)
    <2>1. Len(e) \in Nat
      BY <1>9
    <2>2. ~(Len(e) > Len(e))
      BY <2>1
    <2> QED BY <1>2, <1>9, <1>14, <2>2 DEF TurnedDown
  <1>16. rt' = [rt EXCEPT ![s] = {r}]
    <2>1. PICK rest : rt' = [rt EXCEPT ![s] = {Put(s, a, rest)}]
      BY <1>15 DEF Accepted
    <2>2. Filled(e, e, rest) = e
      BY FilledSame
    <2>3. Put(s, a, rest) = r
      BY <1>8, <1>9, <1>10, <1>12, <1>14, <2>2 DEF Put
    <2> QED BY <2>1, <2>3
  <1>17. /\ refs' = refs + 1 - Cardinality(rt[s]) /\ adding' = [s |-> s, todo |-> Todo(j + 1)]
         /\ resized' = resized /\ UNCHANGED <<phase, mcount, taken, broken>>
    BY <1>3, <1>4, <1>9, <1>14, <1>15, TodoIs DEF Accepted
  <1>170. strayed' = strayed
    <2>1. strayed' = (strayed \/ PortsOf(s, a) # Selected(s, a)) /\ strayed \in BOOLEAN
      BY <1>1, <1>15, Zenon DEF Accepted, Typed
    <2> QED BY <1>9, <1>14, <2>1
  <1>18. Typed'
    <2>1. rt' \in [Dais -> SUBSET Rt]
      BY <1>7, <1>13, <1>16
    <2>2. refs' \in Int
      <3>1. Cardinality(rt[s]) \in Int
        BY <1>5, AtMostOne DEF StreamOk
      <3> QED BY <1>7, <1>17, <3>1
    <2>3. \E t \in Dais, i \in 0 .. AmpCount :
             adding' = [s |-> t, todo |-> Todo(i)] /\ phase'[t] \in {"open", "params"}
      BY <1>4, <1>17
    <2> QED BY <1>1, <1>2, <1>17, <1>170, <2>1, <2>2, <2>3, Zenon DEF Typed
  <1>19. Stands(s, j + 1, phase'[s], adding'.s, adding'.todo) /\ phase'[s] # "closed"
    BY <1>17 DEF Stands
  <1>20. RtOk(s, j + 1, r, phase'[s], mcount'[s], resized', adding'.s, strayed')
    <2>1. \A i \in 1 .. (j + 1) : i = j + 1 \/ i \in 1 .. j
      BY <1>4
    <2>2. s \notin resized => \A i \in 1 .. (j + 1) : Chosen(s, r.slaves[i].ports)
      BY <1>8, <1>9, <1>11, <1>13, <2>1
    <2>3. r.ports = <<>> /\ Amped(r, j + 1) /\ mcount'[s] <= 0 /\ resized' = resized
      BY <1>8, <1>13, <1>17
    <2> QED BY <2>2, <2>3, Zenon DEF RtOk
  <1>21. Returned'
    <2>1. PortNums(r) = {} /\ \A k \in rt[s] : PortNums(k) = {}
      <3>1. PortNums(r) = {}
        BY <1>8, <1>13, NoPortsNoNumbers
      <3>2. ASSUME NEW k \in rt[s] PROVE PortNums(k) = {}
        BY <1>5, <1>8, NoPortsNoNumbers, RuntimeIs DEF StreamOk
      <3> QED BY <3>1, <3>2
    <2>2. \A t \in Dais \ {s} : rt'[t] = rt[t]
      BY <1>7, <1>16
    <2>3. /\ resized' \subseteq resized
          /\ \A z : (\E k \in rt'[s] : z \in PortNums(k)) <=> (\E k \in rt[s] : z \in PortNums(k))
      BY <1>7, <1>16, <1>17, <2>1
    <2>4. ~strayed' => ~strayed
      BY <1>170
    <2> QED BY <1>1, <1>17, <2>2, <2>3, <2>4, ReturnedSame
  <1>22. /\ mcount'[s] <= 1 /\ adding'.s = s /\ orphaned' = orphaned
         /\ \A t \in Dais \ {s} : phase'[t] = phase[t] /\ mcount'[t] = mcount[t]
         /\ \A t \in Dais \ {s} : t \in resized' <=> t \in resized
    BY <1>2, <1>7, <1>8, <1>17
  <1>23. strayed => strayed'
    BY <1>170
  <1> QED BY <1>2, <1>4, <1>13, <1>16, <1>17, <1>18, <1>19, <1>20, <1>21, <1>22, <1>23, PutKeeps

LEMMA SentSame ==
  ASSUME NEW m, NEW r, DOMAIN r.slaves = DOMAIN m.slaves,
         \A i \in DOMAIN m.slaves : r.slaves[i] = m.slaves[i]
  PROVE  Sent(r) = Sent(m)
  BY DEF Sent

LEMMA SlaveAt ==
  ASSUME NEW m \in Rt, Amped(m, AmpCount), NEW e \in 1 .. AmpCount
  PROVE  SlaveOf(m, AmpSeq[e]) = {m.slaves[e]}
  <1>0. PICK sl \in Seq(SlaveRec) : sl = m.slaves /\ Len(sl) = AmpCount /\ DOMAIN sl = 1 .. AmpCount
    BY DEF Rt, Amped
  <1>1. \A i \in 1 .. AmpCount : sl[i].amp = AmpSeq[i]
    BY <1>0 DEF Amped
  <1>2. \A i \in 1 .. AmpCount : sl[i].amp = AmpSeq[e] <=> i = e
    BY <1>1, AmpsAre
  <1> QED BY <1>0, <1>2 DEF SlaveOf, ToSet

\* In a later one it keeps as many ports as it had, whatever is in them.
LEMMA PutsKeeps ==
  ASSUME RtInv, NEW s \in Dais, NEW a \in Speakers, phase[s] = "params", sdw_stream_add_slave(s, a)
  PROVE  RtInv'
  <1>1. Typed /\ Streamed(s) /\ Counted /\ Returned
    BY DEF RtInv
  <1>2. /\ IsNext(a) /\ adding.s = s /\ Selected(s, a) # <<>>
        /\ UNCHANGED <<enabled, orphaned, switched>>
        /\ Accepted(s, a) \/ TurnedDown(s, a)
    BY AddSlaveDoes
  <1>3. CASE TurnedDown(s, a)
    <2>1. /\ RollBack(s, {Put(s, a, [i \in Behind(s, a) |-> Garbage])}, Earlier(a))
          /\ strayed' = TRUE /\ broken' = broken
      BY <1>3, Zenon DEF TurnedDown
    <2>2. PICK M : RollBack(s, M, Earlier(a))
      BY <2>1
    <2>3. broken' \in Int /\ switched' \in Int
      BY <1>1, <1>2, <2>1 DEF Typed
    <2> QED BY <1>2, <2>1, <2>2, <2>3, RollsBackAll
  <1>4. CASE Accepted(s, a)
    <2>1. PICK j \in 0 .. AmpCount :
             /\ adding = [s |-> s, todo |-> Todo(j)] /\ (a = Master <=> j = AmpCount)
             /\ j < AmpCount => a = AmpSeq[j + 1] /\ j + 1 \in 1 .. AmpCount
      BY <1>1, <1>2, NextIs
    <2>2. /\ a # Master /\ j < AmpCount /\ j \in Nat /\ j + 1 \in 0 .. AmpCount
          /\ j + 1 \in 1 .. AmpCount /\ a = AmpSeq[j + 1] /\ AmpCount \in 0 .. AmpCount
      <3>1. a # Master
        BY RuntimesAssumption DEF Master
      <3> QED BY <2>1, <3>1, AmpsAre
    <2>3. PICK n \in 0 .. AmpCount :
             /\ Stands(s, n, phase[s], adding.s, adding.todo)
             /\ StreamOk(s, n, rt[s], phase[s], mcount[s], resized, adding.s, strayed)
      BY <1>1 DEF Streamed
    <2>4. n = AmpCount
      BY <2>3 DEF Stands
    <2>5. /\ rt \in [Dais -> SUBSET Rt] /\ mcount[s] \in Int /\ resized \in SUBSET Dais
          /\ mcount \in [Dais -> Int] /\ refs \in Int
      BY <1>1 DEF Typed
    <2>6. PICK m \in rt[s] : TRUE
      BY <2>3, <2>4, AmpsAre DEF StreamOk
    <2>7. m \in Rt /\ m = Runtime(s) /\ mcount[s] <= 1
      BY <2>3, <2>5, <2>6, RuntimeIs DEF StreamOk
    <2>8. /\ Amped(m, AmpCount) /\ (m.ports = <<>> => mcount[s] <= 0)
          /\ (s \notin resized =>
                /\ \A i \in 1 .. AmpCount : Chosen(s, m.slaves[i].ports)
                /\ m.ports # <<>> => Len(m.ports) = Cardinality(Numbers(m)))
          /\ (~strayed /\ m.ports # <<>> => PortNums(m) = Numbers(m))
      <3>1. RtOk(s, AmpCount, m, phase[s], mcount[s], resized, adding.s, strayed)
        BY <2>3, <2>4, <2>6 DEF StreamOk
      <3> QED BY <3>1, Zenon DEF RtOk
    <2>9. PICK e \in Seq(Kinds) : e = Selected(s, a) /\ Chosen(s, e) /\ e # <<>>
      BY <1>2, SelectedIs
    <2>10. PICK c \in 1 .. AmpCount : c = j + 1 /\ a = AmpSeq[c]
      BY <2>2
    <2>11. PICK y \in SlaveRec : y = m.slaves[c] /\ y.ports # <<>> /\ y.amp = a
      <3>1. DOMAIN m.slaves = 1 .. AmpCount
        BY <2>7, <2>8 DEF Amped, Rt
      <3> QED BY <2>7, <2>8, <2>10, <3>1 DEF Amped, Rt
    <2>12. PICK p \in Seq(Labels) : p = y.ports /\ p # <<>>
      BY <2>11 DEF SlaveRec
    <2>13. PortsOf(s, a) = p
      <3>1. SlaveOf(m, a) = {y}
        <4>1. SlaveOf(m, AmpSeq[c]) = {m.slaves[c]}
          BY <2>7, <2>8, <2>10, SlaveAt
        <4> QED BY <2>10, <2>11, <4>1
      <3>2. (CHOOSE x \in {y} : TRUE) = y
        OBVIOUS
      <3> QED BY <2>7, <2>12, <3>1, <3>2 DEF PortsOf
    <2>14. PICK rest \in [Behind(s, a) -> {"comp", "cps", Garbage}] : rt' = [rt EXCEPT ![s] = {Put(s, a, rest)}]
      BY <1>4 DEF Accepted
    <2>15. PICK f : f = Filled(p, e, rest)
      OBVIOUS
    <2>16. f \in Seq(Labels) /\ Len(f) = Len(p) /\ f # <<>>
      <3>1. e \in Seq(Labels)
        BY <2>9, ChosenKinds
      <3>2. ASSUME NEW i \in DOMAIN p, i \notin DOMAIN e PROVE rest[i] \in Labels
        <4>1. i \in (Len(e) + 1) .. Len(p)
          BY <2>9, <3>2
        <4>2. i \in Behind(s, a)
          BY <2>9, <2>13, <4>1 DEF Behind
        <4>3. {"comp", "cps", Garbage} \subseteq Labels
          BY DEF Labels, Kinds
        <4> QED BY <4>2, <4>3
      <3>3. f \in Seq(Labels) /\ Len(f) = Len(p)
        <4>1. Completes(p, e, rest, Labels)
          BY <3>2, Zenon DEF Completes
        <4>2. p \in Seq(Labels)
          BY <2>12
        <4> QED BY <2>15, <3>1, <4>1, <4>2, FilledIs
      <3>4. Len(p) # 0
        BY <2>12, EmptySeq
      <3>5. Len(<<>>) = 0
        BY EmptySeq
      <3> QED BY <3>3, <3>4, <3>5
    <2>17. PICK x \in SlaveRec : x = Slave(a, f) /\ x.amp = a /\ x.ports = f
      <3>1. PICK g : g = Slave(a, f)
        OBVIOUS
      <3>2. g = [amp |-> a, ports |-> f]
        BY <3>1 DEF Slave
      <3>3. g \in SlaveRec /\ g.amp = a /\ g.ports = f
        BY <2>16, <3>2 DEF SlaveRec
      <3> QED BY <3>1, <3>3
    <2>18. PICK r : r = PutSlave(m, x)
      OBVIOUS
    <2>19. /\ r \in Rt /\ r.ports = m.ports /\ Amped(r, AmpCount)
           /\ \A i \in 1 .. AmpCount : r.slaves[i] = IF i = c THEN x ELSE m.slaves[i]
      <3>1. x \in SlaveRec /\ x.amp = AmpSeq[c] /\ x.ports # <<>>
        BY <2>10, <2>16, <2>17
      <3>2. m \in Rt /\ Amped(m, AmpCount) /\ c \in 1 .. AmpCount
        BY <2>7, <2>8, <2>10
      <3> QED BY <2>18, <3>1, <3>2, PutsSlave
    <2>20. rt' = [rt EXCEPT ![s] = {r}]
      <3>1. Put(s, a, rest) = r
        BY <2>7, <2>9, <2>13, <2>15, <2>17, <2>18 DEF Put
      <3> QED BY <2>14, <3>1
    <2>21. /\ refs' = refs + 1 - Cardinality(rt[s]) /\ adding' = [s |-> s, todo |-> Todo(j + 1)]
           /\ resized' = (IF Len(p) # Len(e) THEN resized \cup {s} ELSE resized)
           /\ UNCHANGED <<phase, mcount, taken, broken>>
      BY <1>4, <2>1, <2>2, <2>9, <2>13, TodoIs DEF Accepted
    <2>22. strayed' = (strayed \/ p # e) /\ strayed \in BOOLEAN
      BY <1>1, <1>4, <2>9, <2>13, Zenon DEF Accepted, Typed
    <2>23. strayed' \in BOOLEAN /\ (strayed => strayed') /\ (~strayed' => ~strayed /\ p = e)
      BY <2>22, Zenon
    <2>24. Typed'
      <3>1. rt' \in [Dais -> SUBSET Rt] /\ resized' \in SUBSET Dais
        BY <2>5, <2>19, <2>20, <2>21
      <3>2. refs' \in Int
        <4>1. Cardinality(rt[s]) \in Int
          BY <2>3, AtMostOne DEF StreamOk
        <4> QED BY <2>5, <2>21, <4>1
      <3>3. \E t \in Dais, i \in 0 .. AmpCount :
               adding' = [s |-> t, todo |-> Todo(i)] /\ phase'[t] \in {"open", "params"}
        BY <2>2, <2>21
      <3> QED BY <1>1, <1>2, <2>21, <2>23, <3>1, <3>2, <3>3, Zenon DEF Typed
    <2>25. Stands(s, AmpCount, phase'[s], adding'.s, adding'.todo) /\ phase'[s] # "closed"
      BY <2>21 DEF Stands
    <2>26. RtOk(s, AmpCount, r, phase'[s], mcount'[s], resized', adding'.s, strayed')
      <3>1. ASSUME s \notin resized'
            PROVE  /\ \A i \in 1 .. AmpCount : Chosen(s, r.slaves[i].ports)
                   /\ r.ports # <<>> => Len(r.ports) = Cardinality(Numbers(r))
        <4>1. s \notin resized /\ Len(p) = Len(e)
          BY <2>21, <3>1
        <4>2. f = e
          BY <2>9, <2>12, <2>15, <4>1, FilledSame
        <4>3. \A i \in 1 .. AmpCount : Chosen(s, r.slaves[i].ports)
          BY <2>8, <2>9, <2>17, <2>19, <4>1, <4>2
        <4>4. Len(r.slaves[c].ports) = Len(m.slaves[c].ports)
          BY <2>11, <2>12, <2>16, <2>17, <2>19
        <4>5. Cardinality(Numbers(r)) = Cardinality(Numbers(m))
          <5>1. /\ \A i \in 1 .. AmpCount : i # c => r.slaves[i] = m.slaves[i]
                /\ \A i \in 1 .. AmpCount : Chosen(s, m.slaves[i].ports) /\ Chosen(s, r.slaves[i].ports)
            BY <2>8, <2>19, <4>1, <4>3
          <5> QED BY <2>7, <2>8, <2>10, <2>19, <4>4, <5>1, NumbersSame
        <4> QED BY <2>8, <2>19, <4>1, <4>3, <4>5
      <3>2. ASSUME ~strayed', r.ports # <<>> PROVE PortNums(r) = Numbers(r)
        <4>1. ~strayed /\ p = e
          BY <2>23, <3>2
        <4>2. f = p
          BY <2>9, <2>12, <2>15, <4>1, FilledSame
        <4>3. x = y
          <5>1. x.amp = y.amp /\ x.ports = y.ports
            BY <2>11, <2>12, <2>17, <4>2
          <5> QED BY <2>11, <2>17, <5>1 DEF SlaveRec
        <4>4. \A i \in 1 .. AmpCount : r.slaves[i] = m.slaves[i]
          BY <2>11, <2>19, <4>3
        <4>5. DOMAIN r.slaves = 1 .. AmpCount /\ DOMAIN m.slaves = 1 .. AmpCount
          BY <2>7, <2>8, <2>19 DEF Amped, Rt
        <4>6. Sent(r) = Sent(m)
          <5>1. DOMAIN r.slaves = DOMAIN m.slaves /\ \A i \in DOMAIN m.slaves : r.slaves[i] = m.slaves[i]
            BY <4>4, <4>5
          <5> QED BY <5>1, SentSame
        <4>7. Numbers(r) = Numbers(m) /\ PortNums(r) = PortNums(m)
          BY <2>19, <4>6 DEF Numbers, PortNums
        <4> QED BY <2>8, <2>19, <3>2, <4>1, <4>7
      <3>3. phase'[s] = "params" /\ mcount'[s] = mcount[s] /\ adding'.s = s
        BY <2>21
      <3> QED BY <2>8, <2>19, <3>1, <3>2, <3>3, Zenon DEF RtOk
    <2>27. Returned'
      <3>1. \A k \in rt[s] : k = m
        BY <2>3, <2>6 DEF StreamOk
      <3>2. PortNums(r) = PortNums(m)
        BY <2>19 DEF PortNums
      <3>3. \A t \in Dais \ {s} : rt'[t] = rt[t]
        BY <2>5, <2>20
      <3>4. \A z : (\E k \in rt'[s] : z \in PortNums(k)) <=> (\E k \in rt[s] : z \in PortNums(k))
        BY <2>5, <2>6, <2>20, <3>1, <3>2
      <3>5. ~strayed' => ~strayed /\ resized' \subseteq resized
        BY <2>21, <2>23
      <3> QED BY <1>1, <2>21, <3>3, <3>4, <3>5, ReturnedSame
    <2>28. /\ mcount'[s] <= 1 /\ adding'.s = s /\ orphaned' = orphaned
           /\ \A t \in Dais \ {s} : phase'[t] = phase[t] /\ mcount'[t] = mcount[t]
           /\ \A t \in Dais \ {s} : t \in resized' <=> t \in resized
      BY <1>2, <2>7, <2>21
    <2> QED BY <1>2, <2>2, <2>19, <2>20, <2>21, <2>23, <2>24, <2>25, <2>26, <2>27, <2>28, PutKeeps
  <1> QED BY <1>2, <1>3, <1>4

\* The master takes its ports, or finds them; or only some could be allocated.
Got(s) == MasterPorts(Runtime(s))
Took(s) ==
  /\ rt' = [rt EXCEPT ![s] = {[Runtime(s) EXCEPT !.ports =
        IF @ = <<>> THEN Got(s).entries ELSE Filled(@, Got(s).entries, [i \in DOMAIN @ |-> Port(0, {})])]}]
  /\ mcount' = [mcount EXCEPT ![s] = IF Runtime(s).ports = <<>> THEN @ + 1 ELSE @]
  /\ UNCHANGED <<broken, resized, strayed>>
Short(s) ==
  /\ Runtime(s).ports = <<>>
  /\ broken' = broken + 1
  /\ \E k \in 0 .. (Len(Got(s).entries) - 1) :
        /\ rt' = [rt EXCEPT ![s] = {[Runtime(s) EXCEPT !.ports = [i \in 1 .. k |-> Port(0, {})]]}]
        /\ resized' = IF k > 0 THEN resized \cup {s} ELSE resized
  /\ strayed' = TRUE
  /\ UNCHANGED mcount

LEMMA MasterDoes ==
  ASSUME NEW s, qcom_swrm_hw_params(s)
  PROVE  /\ IsNext(Master) /\ adding.s = s /\ taken' = Got(s).mask /\ adding' = Nobody
         /\ phase' = [phase EXCEPT ![s] = "params"]
         /\ UNCHANGED <<enabled, refs, orphaned, switched>>
         /\ Took(s) \/ Short(s)
  BY Zenon DEF qcom_swrm_hw_params, Took, Short, Got, Fails

\* Where it stands when it is the master's turn.
LEMMA MastersTurn ==
  ASSUME RtInv, NEW s \in Dais, IsNext(Master), adding.s = s
  PROVE  /\ rt \in [Dais -> SUBSET Rt] /\ mcount \in [Dais -> Int] /\ refs \in Int /\ orphaned \in Int
         /\ phase \in [Dais -> {"closed", "open", "params", "prepared"}]
         /\ enabled \in [Speakers -> SUBSET Kinds] /\ (\A a \in Speakers : "cps" \in enabled[a])
         /\ resized \in SUBSET Dais /\ taken \in SUBSET (0 .. MaxPort)
         /\ broken \in Int /\ switched \in Int /\ strayed \in BOOLEAN
         /\ \E m \in Rt :
              /\ m = Runtime(s) /\ rt[s] = {m} /\ Cardinality(rt[s]) = 1 /\ mcount[s] <= 1
              /\ RtOk(s, AmpCount, m, phase[s], mcount[s], resized, adding.s, strayed)
  <1>1. Typed /\ Streamed(s)
    BY DEF RtInv
  <1>2. PICK j \in 0 .. AmpCount :
           /\ adding = [s |-> s, todo |-> Todo(j)] /\ j = AmpCount
           /\ phase[s] \in {"open", "params"}
    BY <1>1, NextIs
  <1>3. PICK n \in 0 .. AmpCount :
           /\ Stands(s, n, phase[s], adding.s, adding.todo)
           /\ StreamOk(s, n, rt[s], phase[s], mcount[s], resized, adding.s, strayed)
    BY <1>1 DEF Streamed
  <1>4. n = AmpCount /\ AmpCount \in Nat /\ AmpCount > 0
    <2>1. CASE phase[s] = "open"
      <3>1. Todo(n) = Todo(j)
        BY <1>2, <1>3, <2>1 DEF Stands
      <3>2. /\ Len(Todo(n)) = AmpCount + 1 - n /\ Len(Todo(j)) = AmpCount + 1 - j
            /\ AmpCount \in Nat /\ n \in Int /\ j \in Int /\ AmpCount > 0
        BY TodoIs, AmpsAre
      <3>3. AmpCount + 1 - n = AmpCount + 1 - j
        BY <3>1, <3>2
      <3>4. n = j
        BY <3>2, <3>3
      <3> QED BY <1>2, <3>2, <3>4
    <2>2. CASE phase[s] = "params"
      BY <1>3, <2>2, AmpsAre DEF Stands
    <2> QED BY <1>2, <2>1, <2>2
  <1>5. /\ rt \in [Dais -> SUBSET Rt] /\ mcount \in [Dais -> Int] /\ refs \in Int /\ orphaned \in Int
        /\ phase \in [Dais -> {"closed", "open", "params", "prepared"}]
        /\ enabled \in [Speakers -> SUBSET Kinds] /\ (\A a \in Speakers : "cps" \in enabled[a])
        /\ resized \in SUBSET Dais /\ taken \in SUBSET (0 .. MaxPort)
        /\ broken \in Int /\ switched \in Int
    BY <1>1 DEF Typed
  <1>6. strayed \in BOOLEAN
    BY <1>1, Zenon DEF Typed
  <1>7. rt[s] # {} /\ mcount[s] <= 1 /\ \A m, k \in rt[s] : m = k
    BY <1>3, <1>4 DEF StreamOk
  <1>8. PICK m : m \in rt[s]
    BY <1>7
  <1>9. m \in Rt /\ m = Runtime(s) /\ rt[s] = {m}
    BY <1>5, <1>7, <1>8, RuntimeIs
  <1>10. Cardinality(rt[s]) = 1
    BY <1>7, AtMostOne
  <1>11. RtOk(s, AmpCount, m, phase[s], mcount[s], resized, adding.s, strayed)
    BY <1>3, <1>4, <1>8 DEF StreamOk
  <1> QED BY <1>5, <1>6, <1>7, <1>9, <1>10, <1>11, Zenon

\* What is the same whichever way it goes.
LEMMA MasterTyped ==
  ASSUME RtInv, NEW s \in Dais, IsNext(Master), adding.s = s, adding' = Nobody,
         phase' = [phase EXCEPT ![s] = "params"], NEW r \in Rt, rt' = [rt EXCEPT ![s] = {r}],
         UNCHANGED <<enabled, refs, orphaned, switched>>, broken' \in Int,
         mcount' \in [Dais -> Int], resized' \in SUBSET Dais, taken' \in SUBSET (0 .. MaxPort),
         strayed' \in BOOLEAN
  PROVE  Typed'
  <1>1. /\ rt' \in [Dais -> SUBSET Rt] /\ refs' \in Int /\ orphaned' \in Int
        /\ phase' \in [Dais -> {"closed", "open", "params", "prepared"}]
    BY MastersTurn
  <1>2. enabled' \in [Speakers -> SUBSET Kinds] /\ (\A a \in Speakers : "cps" \in enabled'[a])
    BY MastersTurn
  <1>3. switched' \in Int
    BY MastersTurn
  <1> QED BY <1>1, <1>2, <1>3, Zenon DEF Typed

LEMMA ShortKeeps ==
  ASSUME RtInv, NEW s \in Dais, qcom_swrm_hw_params(s), Short(s)
  PROVE  RtInv'
  <1>1. /\ IsNext(Master) /\ adding.s = s /\ taken' = Got(s).mask /\ adding' = Nobody
        /\ phase' = [phase EXCEPT ![s] = "params"]
        /\ UNCHANGED <<enabled, refs, orphaned, switched>>
    BY MasterDoes
  <1>2. PICK m \in Rt :
           /\ m = Runtime(s) /\ rt[s] = {m} /\ Cardinality(rt[s]) = 1 /\ mcount[s] <= 1
           /\ RtOk(s, AmpCount, m, phase[s], mcount[s], resized, adding.s, strayed)
    BY <1>1, MastersTurn
  <1>3. /\ rt \in [Dais -> SUBSET Rt] /\ mcount \in [Dais -> Int] /\ refs \in Int
        /\ phase \in [Dais -> {"closed", "open", "params", "prepared"}]
        /\ resized \in SUBSET Dais /\ taken \in SUBSET (0 .. MaxPort) /\ broken \in Int
    BY <1>1, MastersTurn
  <1>4. /\ m.ports = <<>> /\ broken' = broken + 1 /\ strayed' = TRUE /\ mcount' = mcount
        /\ \E k \in 0 .. (Len(Got(s).entries) - 1) :
              /\ rt' = [rt EXCEPT ![s] = {[m EXCEPT !.ports = [i \in 1 .. k |-> Port(0, {})]]}]
              /\ resized' = IF k > 0 THEN resized \cup {s} ELSE resized
    BY <1>2, Zenon DEF Short
  <1>5. PICK k \in 0 .. (Len(Got(s).entries) - 1) :
           /\ rt' = [rt EXCEPT ![s] = {[m EXCEPT !.ports = [i \in 1 .. k |-> Port(0, {})]]}]
           /\ resized' = IF k > 0 THEN resized \cup {s} ELSE resized
    BY <1>4
  <1>6. Got(s) \in Acc
    BY <1>2, <1>3, MasterPortsAre DEF Got
  <1>7. k \in Nat
    BY <1>6 DEF Acc
  <1>8. PICK g : g = [i \in 1 .. k |-> Port(0, {})]
    OBVIOUS
  <1>9. g \in Seq(PortRec) /\ (k = 0 => g = <<>>)
    <2>1. Port(0, {}) \in PortRec
      BY RuntimesAssumption DEF Port, PortRec
    <2>2. g \in [1 .. k -> PortRec]
      BY <1>8, <2>1
    <2>3. g \in Seq(PortRec) /\ Len(g) = k
      BY <1>7, <2>2, IsASeq
    <2> QED BY <2>3, EmptySeq
  <1>10. PICK r : r = [m EXCEPT !.ports = g]
    OBVIOUS
  <1>11. r \in Rt /\ r.slaves = m.slaves /\ r.ports = g /\ rt' = [rt EXCEPT ![s] = {r}]
    BY <1>5, <1>8, <1>9, <1>10 DEF Rt
  <1>12. strayed' \in BOOLEAN /\ strayed' /\ (strayed => strayed')
    BY <1>4, Zenon
  <1>13. /\ broken' \in Int /\ mcount' \in [Dais -> Int] /\ resized' \in SUBSET Dais
         /\ taken' \in SUBSET (0 .. MaxPort) /\ AmpCount \in 0 .. AmpCount
         /\ phase'[s] = "params" /\ mcount'[s] <= 1
         /\ refs' = refs + 1 - Cardinality(rt[s])
         /\ (s \notin resized' => k = 0 /\ s \notin resized)
    BY <1>1, <1>2, <1>3, <1>4, <1>5, <1>6, <1>7, AmpsAre DEF Acc
  <1>14. Typed'
    BY <1>1, <1>11, <1>12, <1>13, MasterTyped
  <1>15. Stands(s, AmpCount, phase'[s], adding'.s, adding'.todo) /\ phase'[s] # "closed"
    BY <1>13 DEF Stands
  <1>16. RtOk(s, AmpCount, r, phase'[s], mcount'[s], resized', adding'.s, strayed')
    <2>1. /\ Amped(m, AmpCount) /\ mcount[s] <= 0
          /\ s \notin resized => \A i \in 1 .. AmpCount : Chosen(s, m.slaves[i].ports)
      BY <1>2, <1>4, Zenon DEF RtOk
    <2>2. /\ Amped(r, AmpCount) /\ mcount'[s] <= 0
          /\ s \notin resized' => /\ \A i \in 1 .. AmpCount : Chosen(s, r.slaves[i].ports)
                                  /\ r.ports = <<>>
      BY <1>4, <1>9, <1>11, <1>13, <2>1 DEF Amped
    <2>3. phase'[s] # "open"
      BY <1>13
    <2> QED BY <1>12, <2>2, <2>3, Zenon DEF RtOk
  <1>17. Returned'
    BY <1>12, Zenon DEF Returned
  <1>18. /\ \A t \in Dais \ {s} : phase'[t] = phase[t] /\ mcount'[t] = mcount[t]
         /\ \A t \in Dais \ {s} : t \in resized' <=> t \in resized
    BY <1>1, <1>3, <1>4, <1>5
  <1>19. orphaned' = orphaned
    BY <1>1
  <1> QED BY <1>1, <1>11, <1>12, <1>13, <1>14, <1>15, <1>16, <1>17, <1>18, <1>19, PutKeeps

\* The ports of a runtime whose amplifiers offer what they have selected.
LEMMA MastersPorts ==
  ASSUME NEW s \in Dais, NEW m \in Rt, Amped(m, AmpCount), taken \in SUBSET (0 .. MaxPort),
         NEW got, got = MasterPorts(m)
  PROVE  /\ got \in Acc /\ got.entries # <<>>
         /\ (\A i \in 1 .. AmpCount : Chosen(s, m.slaves[i].ports)) =>
              /\ AccOk(got, Sent(m), taken)
              /\ Len(got.entries) = Cardinality(Numbers(m))
  <1>1. DOMAIN m.slaves = 1 .. AmpCount /\ AmpCount \in Nat /\ AmpCount > 0
    BY AmpsAre DEF Amped, Rt
  <1>2. m.slaves # <<>> /\ \A i \in DOMAIN m.slaves : m.slaves[i].ports # <<>>
    BY <1>1 DEF Amped
  <1>3. got \in Acc /\ got.entries # <<>>
    BY <1>2, MasterPortsAre
  <1>4. ASSUME \A i \in 1 .. AmpCount : Chosen(s, m.slaves[i].ports)
        PROVE  /\ AccOk(got, Sent(m), taken)
               /\ Len(got.entries) = Cardinality(Numbers(m))
    <2>1. \A i \in DOMAIN m.slaves : m.slaves[i].ports \in Seq(Kinds)
      BY <1>1, <1>4, ChosenKinds
    <2>2. AccOk(got, Sent(m), taken)
      BY <2>1, MasterPortsAre
    <2>3. PICK r : r = [m EXCEPT !.ports = got.entries]
      OBVIOUS
    <2>4. r.slaves = m.slaves /\ r.ports = got.entries
      BY <2>3 DEF Rt
    <2>5. Sent(r) = Sent(m) /\ Numbers(r) = Numbers(m)
      BY <2>4 DEF Sent, Numbers
    <2>6. AccOk(got, Sent(r), taken) /\ got.entries = r.ports
      BY <2>2, <2>4, <2>5
    <2>7. Len(r.ports) = Cardinality(Numbers(r))
      BY <1>3, <2>6, CarriesAfter
    <2> QED BY <2>2, <2>4, <2>5, <2>7
  <1> QED BY <1>3, <1>4

LEMMA TookKeeps ==
  ASSUME RtInv, NEW s \in Dais, qcom_swrm_hw_params(s), Took(s)
  PROVE  RtInv'
  <1>1. /\ IsNext(Master) /\ adding.s = s /\ taken' = Got(s).mask /\ adding' = Nobody
        /\ phase' = [phase EXCEPT ![s] = "params"]
        /\ UNCHANGED <<enabled, refs, orphaned, switched>>
    BY MasterDoes
  <1>2. PICK m \in Rt :
           /\ m = Runtime(s) /\ rt[s] = {m} /\ Cardinality(rt[s]) = 1 /\ mcount[s] <= 1
           /\ RtOk(s, AmpCount, m, phase[s], mcount[s], resized, adding.s, strayed)
    BY <1>1, MastersTurn
  <1>3. /\ rt \in [Dais -> SUBSET Rt] /\ mcount \in [Dais -> Int] /\ refs \in Int
        /\ phase \in [Dais -> {"closed", "open", "params", "prepared"}]
        /\ resized \in SUBSET Dais /\ taken \in SUBSET (0 .. MaxPort) /\ broken \in Int
    BY <1>1, MastersTurn
  <1>30. strayed \in BOOLEAN
    BY <1>1, MastersTurn, Zenon
  <1>4. PICK got : got = MasterPorts(m) /\ got = Got(s)
    BY <1>2 DEF Got
  <1>5. /\ rt' = [rt EXCEPT ![s] = {[m EXCEPT !.ports =
              IF @ = <<>> THEN got.entries ELSE Filled(@, got.entries, [i \in DOMAIN @ |-> Port(0, {})])]}]
        /\ mcount' = [mcount EXCEPT ![s] = IF m.ports = <<>> THEN @ + 1 ELSE @]
        /\ broken' = broken /\ resized' = resized /\ strayed' = strayed
    BY <1>2, <1>4, Zenon DEF Took
  <1>6. /\ Amped(m, AmpCount) /\ (m.ports = <<>> => mcount[s] <= 0)
        /\ (s \notin resized =>
              /\ \A i \in 1 .. AmpCount : Chosen(s, m.slaves[i].ports)
              /\ m.ports # <<>> => Len(m.ports) = Cardinality(Numbers(m)))
        /\ (~strayed /\ m.ports # <<>> => PortNums(m) = Numbers(m))
    BY <1>2, Zenon DEF RtOk
  <1>7. /\ got \in Acc /\ got.entries # <<>>
        /\ (\A i \in 1 .. AmpCount : Chosen(s, m.slaves[i].ports)) =>
              /\ AccOk(got, Sent(m), taken)
              /\ Len(got.entries) = Cardinality(Numbers(m))
    BY <1>3, <1>4, <1>6, MastersPorts
  <1>8. PICK e \in Seq(PortRec) : e = got.entries /\ e # <<>>
    BY <1>7 DEF Acc
  <1>9. PICK p \in Seq(PortRec) : p = m.ports
    BY DEF Rt
  <1>10. PICK rest : rest = [i \in DOMAIN p |-> Port(0, {})]
    OBVIOUS
  <1>11. PICK g : g = IF p = <<>> THEN e ELSE Filled(p, e, rest)
    OBVIOUS
  <1>12. g \in Seq(PortRec) /\ g # <<>>
    <2>1. CASE p = <<>>
      BY <1>8, <1>11, <2>1
    <2>2. CASE p # <<>>
      <3>1. Port(0, {}) \in PortRec
        BY RuntimesAssumption DEF Port, PortRec
      <3>2. Completes(p, e, rest, PortRec)
        BY <1>10, <3>1 DEF Completes
      <3>3. g \in Seq(PortRec) /\ Len(g) = Len(p)
        BY <1>8, <1>9, <1>11, <2>2, <3>2, FilledIs
      <3>4. Len(p) # 0 /\ Len(<<>>) = 0
        BY <1>9, <2>2, EmptySeq
      <3> QED BY <3>3, <3>4
    <2> QED BY <2>1, <2>2
  <1>13. PICK r : r = [m EXCEPT !.ports = g]
    OBVIOUS
  <1>14. r \in Rt /\ r.slaves = m.slaves /\ r.ports = g /\ Amped(r, AmpCount)
    BY <1>6, <1>12, <1>13 DEF Rt, Amped
  <1>15. rt' = [rt EXCEPT ![s] = {r}]
    <2>1. r = [m EXCEPT !.ports =
              IF @ = <<>> THEN got.entries ELSE Filled(@, got.entries, [i \in DOMAIN @ |-> Port(0, {})])]
      BY <1>8, <1>9, <1>10, <1>11, <1>13, Zenon
    <2> QED BY <1>5, <2>1, Zenon
  <1>16. Sent(r) = Sent(m) /\ Numbers(r) = Numbers(m)
    BY <1>14 DEF Sent, Numbers
  <1>17. ASSUME s \notin resized
         PROVE  /\ g = e /\ AccOk(got, Sent(r), taken)
                /\ Carries(r) /\ PortNums(r) = Numbers(r) /\ Len(r.ports) = Cardinality(Numbers(r))
    <2>1. AccOk(got, Sent(m), taken) /\ Len(got.entries) = Cardinality(Numbers(m))
      BY <1>6, <1>7, <1>17
    <2>2. g = e
      <3>1. CASE p = <<>>
        BY <1>11, <3>1
      <3>2. CASE p # <<>>
        <4>1. Len(p) = Len(e)
          BY <1>6, <1>8, <1>9, <1>17, <2>1, <3>2
        <4>2. Filled(p, e, rest) = e
          BY <1>8, <1>9, <4>1, FilledSame
        <4> QED BY <1>11, <3>2, <4>2
      <3> QED BY <3>1, <3>2
    <2>3. AccOk(got, Sent(r), taken) /\ got.entries = r.ports /\ got \in Acc
      BY <1>7, <1>8, <1>14, <1>16, <2>1, <2>2
    <2>4. Carries(r) /\ PortNums(r) = Numbers(r) /\ Len(r.ports) = Cardinality(Numbers(r))
      BY <2>3, CarriesAfter
    <2> QED BY <2>2, <2>3, <2>4
  <1>18. mcount'[s] <= 1 /\ mcount' \in [Dais -> Int] /\ \A t \in Dais \ {s} : mcount'[t] = mcount[t]
    BY <1>2, <1>3, <1>5, <1>6
  <1>19. /\ broken' \in Int /\ resized' \in SUBSET Dais /\ taken' \in SUBSET (0 .. MaxPort)
         /\ AmpCount \in 0 .. AmpCount /\ phase'[s] = "params"
         /\ refs' = refs + 1 - Cardinality(rt[s])
    BY <1>1, <1>2, <1>3, <1>4, <1>5, <1>7, AmpsAre DEF Acc
  <1>20. strayed' \in BOOLEAN /\ (strayed => strayed')
    BY <1>5, <1>30, Zenon
  <1>21. Typed'
    BY <1>1, <1>14, <1>15, <1>18, <1>19, <1>20, MasterTyped
  <1>22. Stands(s, AmpCount, phase'[s], adding'.s, adding'.todo) /\ phase'[s] # "closed"
    BY <1>19 DEF Stands
  <1>23. Returned
    BY DEF RtInv
  <1>24. ~strayed => resized = {}
    BY <1>23, Zenon DEF Returned
  <1>25. RtOk(s, AmpCount, r, phase'[s], mcount'[s], resized', adding'.s, strayed')
    <2>1. r.ports # <<>>
      BY <1>12, <1>14
    <2>2. phase'[s] # "open" /\ resized' = resized
      BY <1>5, <1>19
    <2>3. s \notin resized => \A i \in 1 .. AmpCount : Chosen(s, r.slaves[i].ports)
      BY <1>6, <1>14
    <2>4. ~strayed => PortNums(r) = Numbers(r)
      BY <1>17, <1>24
    <2>5. strayed' = strayed
      BY <1>5
    <2> QED BY <1>14, <1>17, <2>1, <2>2, <2>3, <2>4, <2>5, Zenon DEF RtOk
  <1>26. Returned'
    <2>1. SUFFICES ASSUME ~strayed'
                   PROVE  resized' = {} /\ \A x \in 0 .. MaxPort : x \in taken' <=> x = 0 \/ Used(x)'
      BY DEF Returned
    <2>2. ~strayed /\ resized = {} /\ \A x \in 0 .. MaxPort : x \in taken <=> x = 0 \/ Used(x)
      BY <1>5, <1>23, <2>1 DEF Returned
    <2>3. AccOk(got, Sent(r), taken) /\ PortNums(r) = Numbers(r)
      BY <1>17, <2>2
    <2>4. \A x \in 0 .. MaxPort : x \in taken' <=> x \in taken \/ x \in Numbers(r)
      BY <1>1, <1>4, <2>3 DEF AccOk, Numbers
    <2>5. \A x \in PortNums(m) : x \in PortNums(r)
      <3>1. CASE m.ports = <<>>
        BY <3>1, NoPortsNoNumbers
      <3>2. CASE m.ports # <<>>
        BY <1>6, <1>16, <2>2, <2>3, <3>2
      <3> QED BY <3>1, <3>2
    <2>6. \A x : Used(x)' <=> \E t \in Dais : \E k \in rt'[t] : x \in PortNums(k)
      BY DEF Used
    <2>7. rt'[s] = {r} /\ \A t \in Dais : t # s => rt'[t] = rt[t]
      BY <1>3, <1>15
    <2>8. \A x : Used(x)' <=> Used(x) \/ x \in PortNums(r)
      <3>1. ASSUME NEW x, Used(x)' PROVE Used(x) \/ x \in PortNums(r)
        BY <2>6, <2>7, <3>1 DEF Used
      <3>2. ASSUME NEW x, Used(x) PROVE Used(x)'
        <4>1. PICK t \in Dais : \E k \in rt[t] : x \in PortNums(k)
          BY <3>2 DEF Used
        <4>2. CASE t = s
          BY <1>2, <2>5, <2>6, <2>7, <4>1, <4>2
        <4>3. CASE t # s
          BY <2>6, <2>7, <4>1, <4>3
        <4> QED BY <4>2, <4>3
      <3>3. ASSUME NEW x, x \in PortNums(r) PROVE Used(x)'
        BY <2>6, <2>7, <3>3
      <3> QED BY <3>1, <3>2, <3>3
    <2>9. resized' = {}
      BY <1>5, <2>2
    <2> QED BY <2>2, <2>3, <2>4, <2>8, <2>9
  <1>27. \A t \in Dais \ {s} : phase'[t] = phase[t]
    BY <1>1, <1>3
  <1>28. \A t \in Dais \ {s} : t \in resized' <=> t \in resized
    BY <1>5
  <1>29. orphaned' = orphaned
    BY <1>1
  <1> QED BY <1>1, <1>14, <1>15, <1>18, <1>19, <1>20, <1>21, <1>22, <1>25, <1>26, <1>27, <1>28, <1>29, PutKeeps

-----------------------------------------------------------------------------
\* Every step

LEMMA RuntimesStep ==
  ASSUME RtInv, [RuntimesNext]_rtVars
  PROVE  RtInv'
  <1>1. CASE UNCHANGED rtVars
    BY <1>1 DEF rtVars, RtInv, Typed, Streamed, Counted, Held, Returned, Used
  <1>2. ASSUME NEW s \in Dais,
               \/ sdw_alloc_stream(s) \/ sdw_release_stream(s)
               \/ ParamsBegin(s) \/ RuntimesPrepare(s) \/ RuntimesFree(s)
               \/ qcom_swrm_hw_params(s) \/ qcom_swrm_hw_params_nomem(s)
        PROVE  RtInv'
    <2>1. CASE qcom_swrm_hw_params(s)
      BY <2>1, MasterDoes, TookKeeps, ShortKeeps
    <2> QED
      BY <1>2, <2>1, AllocKeeps, ReleaseKeeps, BeginKeeps, PrepareKeeps, FreeKeeps, MasterNoMemKeeps
  <1>3. ASSUME NEW s \in Dais, NEW a \in Speakers,
               \/ wsa884x_hw_params_no_ports(s, a)
               \/ sdw_stream_add_slave(s, a) \/ sdw_stream_add_slave_nomem(s, a)
        PROVE  RtInv'
    <2>1. CASE sdw_stream_add_slave(s, a)
      <3>1. IsNext(a) /\ adding.s = s /\ Typed
        BY <2>1, AddSlaveDoes DEF RtInv
      <3>2. phase[s] \in {"open", "params"}
        BY <3>1, NextIs
      <3> QED BY <2>1, <3>2, AddsKeeps, PutsKeeps
    <2> QED BY <1>3, <2>1, NoPortsKeeps, SlaveNoMemKeeps
  <1>4. ASSUME NEW a \in Speakers, NEW k \in Kinds, SetPort(a, k)
        PROVE  RtInv'
    BY <1>4, SetPortKeeps
  <1>5. CASE RuntimesNext
    BY <1>2, <1>3, <1>4, <1>5 DEF RuntimesNext
  <1> QED BY <1>1, <1>5

LEMMA RuntimesShape ==
  ASSUME RtInv
  PROVE  RuntimesAreWhole
  <1>1. Typed /\ Counted /\ Returned /\ \A s \in Dais : Streamed(s)
    BY DEF RtInv
  <1>2. rt \in [Dais -> SUBSET Rt] /\ mcount \in [Dais -> Int]
    BY <1>1 DEF Typed
  <1>3. ListsAreCounted
    <2>1. refs = orphaned + Cardinality({s \in Dais : rt[s] # {}})
      BY <1>1 DEF Counted, Held
    <2>2. ASSUME NEW s \in Dais PROVE mcount[s] <= Cardinality(rt[s])
      <3>1. PICK n : StreamOk(s, n, rt[s], phase[s], mcount[s], resized, adding.s, strayed)
        BY <1>1 DEF Streamed
      <3>2. /\ \A m, k \in rt[s] : m = k
            /\ mcount[s] <= 1 /\ (rt[s] = {} => mcount[s] <= 0)
        BY <3>1 DEF StreamOk
      <3>3. Cardinality(rt[s]) = One(rt[s])
        BY <3>2, AtMostOne DEF One
      <3> QED BY <3>2, <3>3 DEF One
    <2> QED BY <2>1, <2>2 DEF ListsAreCounted
  <1>4. PortsAreReturned
    <2>1. SUFFICES ASSUME ~strayed
                   PROVE  taken = {0} \cup UNION {{p.num : p \in ToSet(m.ports)} : m \in UNION Range(rt)}
      BY DEF PortsAreReturned
    <2>2. \A x \in 0 .. MaxPort : x \in taken <=> x = 0 \/ Used(x)
      BY <1>1, <2>1 DEF Returned
    <2>3. UNION Range(rt) = UNION {rt[s] : s \in Dais}
      BY <1>2 DEF Range
    <2>4. PICK U : U = UNION {{p.num : p \in ToSet(m.ports)} : m \in UNION Range(rt)}
      OBVIOUS
    <2>5. \A m : {p.num : p \in ToSet(m.ports)} = PortNums(m)
      BY DEF ToSet, PortNums
    <2>6. \A x : x \in U <=> Used(x)
      BY <2>3, <2>4, <2>5 DEF Used
    <2>7. \A x : Used(x) => x \in 0 .. MaxPort
      <3>1. ASSUME NEW s \in Dais, NEW m \in rt[s], NEW i \in DOMAIN m.ports
            PROVE  m.ports[i].num \in 0 .. MaxPort
        <4>1. m.ports \in Seq(PortRec)
          BY <1>2 DEF Rt
        <4>2. m.ports[i] \in PortRec
          BY <4>1
        <4> QED BY <4>2 DEF PortRec
      <3> QED BY <3>1 DEF Used, PortNums
    <2>8. taken \subseteq 0 .. MaxPort /\ 0 \in 0 .. MaxPort
      BY <1>1, RuntimesAssumption DEF Typed
    <2>9. \A x : x \in taken <=> x \in {0} \cup U
      BY <2>2, <2>6, <2>7, <2>8
    <2> QED BY <2>4, <2>9
  <1>5. ASSUME adding = Nobody, NEW s \in Dais \ resized, phase[s] \in {"params", "prepared"}
        PROVE  rt[s] # {} /\ StreamIsWhole(s)
    <2>0. adding.s # s
      <3>1. "none" \notin Dais
        BY RuntimesAssumption
      <3> QED BY <1>5, <3>1 DEF Nobody
    <2>1. PICK n \in 0 .. AmpCount :
             /\ Stands(s, n, phase[s], adding.s, adding.todo)
             /\ StreamOk(s, n, rt[s], phase[s], mcount[s], resized, adding.s, strayed)
      BY <1>1 DEF Streamed
    <2>2. n = AmpCount /\ AmpCount > 0 /\ AmpCount \in Nat
      BY <1>5, <2>1, AmpsAre DEF Stands
    <2>3. rt[s] # {}
      BY <2>1, <2>2 DEF StreamOk
    <2>4. ASSUME NEW m \in rt[s]
          PROVE  /\ [i \in DOMAIN m.slaves |-> m.slaves[i].amp] = AmpSeq
                 /\ m.ports # <<>> =>
                      /\ \A x \in ToSet(m.slaves) : \A p \in ToSet(x.ports) :
                            Cardinality(Carriers(m, x.amp, p)) = 1
                      /\ \A i, j \in DOMAIN m.ports : m.ports[i].num = m.ports[j].num => i = j
      <3>1. RtOk(s, AmpCount, m, phase[s], mcount[s], resized, adding.s, strayed) /\ m \in Rt
        BY <1>2, <2>1, <2>2 DEF StreamOk
      <3>2. Amped(m, AmpCount) /\ (m.ports # <<>> => Carries(m))
        BY <1>5, <2>0, <3>1, Zenon DEF RtOk
      <3>3. PICK sl \in Seq(SlaveRec) : sl = m.slaves /\ DOMAIN sl = 1 .. AmpCount
        BY <3>1, <3>2 DEF Rt, Amped
      <3>4. [i \in DOMAIN m.slaves |-> m.slaves[i].amp] = AmpSeq
        <4>1. \A i \in 1 .. AmpCount : sl[i].amp = AmpSeq[i]
          BY <3>2, <3>3 DEF Amped
        <4>2. AmpSeq = [i \in 1 .. AmpCount |-> AmpSeq[i]]
          BY RuntimesAssumption DEF AmpCount
        <4> QED BY <3>3, <4>1, <4>2
      <3>5. ASSUME m.ports # <<>>, NEW x \in ToSet(m.slaves), NEW p \in ToSet(x.ports)
            PROVE  Cardinality(Carriers(m, x.amp, p)) = 1
        <4>1. PICK i \in DOMAIN sl : x = sl[i]
          BY <3>3 DEF ToSet
        <4>2. x \in SlaveRec
          <5>1. Len(sl) = AmpCount
            BY <3>2, <3>3 DEF Amped
          <5>2. i \in 1 .. AmpCount
            BY <3>3, <4>1
          <5>3. sl[i] \in SlaveRec
            BY <3>3, <5>1, <5>2
          <5> QED BY <4>1, <5>3
        <4>3. PICK k \in DOMAIN x.ports : p = x.ports[k]
          BY DEF ToSet
        <4>4. p \in Labels /\ x.amp \in Speakers
          BY <4>2, <4>3 DEF SlaveRec
        <4>5. PICK q \in Speakers \X Labels : q = <<x.amp, p>> /\ q[1] = x.amp /\ q[2] = p
          <5>1. PICK u \in Speakers, v \in Labels : u = x.amp /\ v = p
            BY <4>4
          <5>2. <<u, v>> \in Speakers \X Labels /\ <<u, v>>[1] = u /\ <<u, v>>[2] = v
            BY <5>1
          <5> QED BY <5>1, <5>2, Zenon
        <4>6. q \in Sent(m)
          BY <3>3, <4>1, <4>3, <4>5 DEF Sent
        <4>7. PICK c \in DOMAIN m.ports : m.ports[c].num = PortMap[q[1]][q[2]] /\ q \in m.ports[c].mask
          BY <3>2, <3>5, <4>6 DEF Carries
        <4>8. Carriers(m, x.amp, p) = {c}
          <5>1. c \in Carriers(m, x.amp, p)
            BY <4>5, <4>7 DEF Carriers
          <5>2. ASSUME NEW d \in Carriers(m, x.amp, p) PROVE d = c
            <6>1. d \in DOMAIN m.ports /\ m.ports[d].num = m.ports[c].num
              BY <4>5, <4>7, <5>2 DEF Carriers
            <6> QED BY <3>2, <3>5, <6>1 DEF Carries
          <5> QED BY <5>1, <5>2
        <4> QED BY <4>8, FS_Singleton
      <3>6. m.ports # <<>> => \A i, j \in DOMAIN m.ports : m.ports[i].num = m.ports[j].num => i = j
        BY <3>2 DEF Carries
      <3> QED BY <3>4, <3>5, <3>6
    <2> QED BY <2>3, <2>4 DEF StreamIsWhole
  <1> QED BY <1>3, <1>4, <1>5, Zenon DEF RuntimesAreWhole

\* The invariant of the runtimes is inductive: at most one runtime per
\* stream, of the amplifiers whose turn in hw_params is over, in their order,
\* each with the ports it had selected, and of the master's ports for them.
THEOREM RuntimesInvCorrect == RuntimesSpec => []RtInv
  <1>1. RuntimesInit => RtInv
    BY InitRuntimes
  <1>2. RtInv /\ [RuntimesNext]_rtVars => RtInv'
    BY RuntimesStep
  <1> QED BY <1>1, <1>2, PTL DEF RuntimesSpec

\* The bus counts its streams; a stream with parameters has each amplifier
\* once, and each port they offer is carried by one port of the master; the
\* ports handed out are those of the masters: for any amplifiers, streams
\* and port map that RuntimesAssumption allows, with the allocations that
\* fail and the switches that move between two calls of hw_params.
THEOREM RuntimesAreWholeCorrect == RuntimesSpec => []RuntimesAreWhole
  <1>1. RtInv => RuntimesAreWhole
    BY RuntimesShape
  <1> QED BY <1>1, RuntimesInvCorrect, PTL
=============================================================================
