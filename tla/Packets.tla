------------------------------ MODULE Packets -------------------------------
(***************************************************************************)
(* The packets audioreach.c writes for the DSP.  A packet is allocated     *)
(* first, with a size computed from what is to go into it, and filled      *)
(* afterwards by code that keeps cursors of its own; the DSP reads it by   *)
(* the counts and sizes it finds in it.  GRAPH_OPEN holds a whole graph,   *)
(* SET_CFG one or more parameters, and the volume controls bring ready     *)
(* made parameters from user space, which the kernel checks.               *)
(*                                                                         *)
(* A packet's contents are the objects in it, by address; numbers are      *)
(* bytes, counted from the end of the packet's headers.                    *)
(***************************************************************************)
EXTENDS Integers, Sequences, SequencesExt, TLC

CONSTANTS
  Shapes,         \* modules a topology file may have: see ShapeAssumption
  MaxContainers,
  MaxModules,
  Kinds,          \* module kinds that are given a media format
  Formats,        \* what a stream may be coded in
  MaxChannels,
  InjectSizes     \* bytes an inject control may bring

(* Per output port the module it goes to, or 0; how many of the ports the  *)
(* module has; its control links' sizes, "none" without a description.     *)
ShapeAssumption ==
  \A m \in Shapes : /\ m.max \in 0 .. Len(m.ports)
                    /\ m.links = "none" \/ \A i \in DOMAIN m.links : m.links[i] \in Nat

PacketsAssumption ==
  /\ ShapeAssumption
  /\ Kinds \subseteq {"logging", "pcm", "display port", "i2s", "shared memory", "gain",
                      "codec dma", "sal", "mfc", "gapless", "sp", "vi"}
  /\ Formats \subseteq {"pcm", "mp3", "aac", "flac", "opus"}
  /\ {MaxContainers, MaxModules, MaxChannels} \cup InjectSizes \subseteq Nat

VARIABLES
  graph,    \* the containers in order; "first" where a sub graph begins
  joined,   \* a connection from the front end's graph to the back end's
  doing,    \* describing the graph, filling the packet, sent; or setting parameters
  cursor,   \* the containers done
  memory,   \* where each section's next object goes; what lies at an address
  todo,     \* parameters still to be set
  packet,   \* the last SET_CFG
  accepted  \* a volume transaction, and whether the kernel took it

packetVars == <<graph, joined, doing, cursor, memory, todo, packet, accepted>>

-----------------------------------------------------------------------------
(* Sizes of the packed structures.                                         *)
Word == 4
Frame == 4 * Word            \* apm_module_param_data
Preface == Frame + Word      \* ... and the count that comes first in a section
SubGraphSize == 2 * Word + 3 * 3 * Word
ContainerSize(c) == (2 + 4 + 3 * 3 + (IF c.ext THEN 2 * 3 ELSE 0)) * Word
ListSize(n) == 3 * Word + n * 2 * Word
PropSize == 6 * Word
ConnSize == 4 * Word

AlignedTo(k, n) == ((n + k - 1) \div k) * k
Aligned(n) == AlignedTo(8, n)

Total(seq, size(_)) == FoldLeft(LAMBDA n, x : n + size(x), 0, seq)

(* audioreach_parse_common_tokens: the ports that go nowhere are left out. *)
Connections(m) == SelectSeq(SubSeq(m.ports, 1, m.max), LAMBDA d : d # 0)
Links(m) == IF m.links = "none" THEN <<>> ELSE m.links
LinkBytes(m) == Total(Links(m), LAMBDA n : n)

-----------------------------------------------------------------------------
(* audioreach_alloc_graph_pkt: what there will be of each kind, and the    *)
(* sections' sizes; a module list is counted with a head of its own.       *)
Sections == <<"sub", "cont", "list", "prop", "conn", "link">>

Count ==
  [sub |-> Len(SelectSeq(graph, LAMBDA c : c.first)), cont |-> Len(graph),
   list |-> Len(graph), prop |-> Total(graph, LAMBDA c : Len(c.modules)),
   conn |-> (IF joined THEN 1 ELSE 0)
            + Total(graph, LAMBDA c : Total(c.modules, LAMBDA m : Len(Connections(m)))),
   link |-> Total(graph, LAMBDA c : Total(c.modules, LAMBDA m : Len(Links(m))))]

AllLinkBytes == Total(graph, LAMBDA c : Total(c.modules, LinkBytes))

(* Mutant: an extended container is counted like any other.                *)
Size_Plain ==
  [sub |-> Aligned(Preface + Count.sub * SubGraphSize),
   cont |-> Aligned(Preface + Total(graph, LAMBDA c : ContainerSize([c EXCEPT !.ext = FALSE]))),
   list |-> Aligned(Total(graph, LAMBDA c : Preface + ListSize(Len(c.modules)))),
   prop |-> Aligned(Preface + Count.prop * PropSize),
   conn |-> Aligned(Preface + Count.conn * ConnSize),
   link |-> IF Count.link = 0 THEN 0 ELSE Aligned(Preface + AllLinkBytes)]

Size ==
  [sub |-> Aligned(Preface + Count.sub * SubGraphSize),
   cont |-> Aligned(Preface + Total(graph, ContainerSize)),
   list |-> Aligned(Total(graph, LAMBDA c : Preface + ListSize(Len(c.modules)))),
   prop |-> Aligned(Preface + Count.prop * PropSize),
   conn |-> Aligned(Preface + Count.conn * ConnSize),
   link |-> IF Count.link = 0 THEN 0 ELSE Aligned(Preface + AllLinkBytes)]

(* param_size; the alignment of the links is left out of it.               *)
Announced(sizes) ==
  [s \in DOMAIN sizes |-> IF s = "link" THEN Word + AllLinkBytes ELSE sizes[s] - Frame]

Start(sizes, i) == Total(SubSeq(Sections, 1, i - 1), LAMBDA s : sizes[s])

-----------------------------------------------------------------------------
(* audioreach_populate_graph, which is handed the sections' addresses.     *)
Put(p, section, size, what) ==
  [at |-> [p.at EXCEPT ![section] = @ + size],
   holds |-> (p.at[section] :> [size |-> size, what |-> <<section, what>>]) @@ p.holds]

Opened ==
  LET sizes == Size
      bare == [at |-> [s \in DOMAIN sizes |->
                         Start(sizes, CHOOSE i \in DOMAIN Sections : Sections[i] = s) + Preface],
               holds |-> <<>>]
  IN  IF joined THEN Put(bare, "conn", ConnSize, <<"front end">>) ELSE bare

(* A module without output ports is done with its properties.              *)
Module(p, m) ==
  LET prop == Put(p, "prop", PropSize, m)
      conn == FoldLeft(LAMBDA q, d : Put(q, "conn", ConnSize, <<m, d>>), prop, Connections(m))
  IN  IF m.max = 0 THEN prop
      ELSE FoldLeft(LAMBDA q, n : Put(q, "link", n, n), conn, Links(m))

(* The objects stand for what is written into them: a container's in it is *)
(* named by its place, its list holds its modules.                         *)
Container(p, k) ==
  LET c == graph[k]
      sub == IF c.first THEN Put(p, "sub", SubGraphSize, k) ELSE p
      cont == Put(sub, "cont", ContainerSize(c), k)
      list == Put(cont, "list", ListSize(Len(c.modules)), c.modules)
  IN  FoldLeft(Module, list, c.modules)

-----------------------------------------------------------------------------
(* SET_CFG: a packet's size and its parameters, each with the address it   *)
(* is written at, the size it announces and the bytes filled in.  A media  *)
(* format has a head with a size of its own, of what comes after the head. *)
Param(at, size, bytes) ==
  [at |-> at, size |-> size, bytes |-> bytes, format |-> "none", inner |-> 0]
One(payload, size, bytes) == [payload |-> payload, params |-> <<Param(0, size, bytes)>>]
WithHead(p, format, inner) ==
  [p EXCEPT !.params[1].format = format, !.params[1].inner = inner]

(* Parameters one after the other, sized with their heads and aligned.     *)
Chained(sized, bytes) ==
  LET size(n) == Aligned(Frame + n)
      before(i) == Total(SubSeq(sized, 1, i - 1), size)
  IN  [payload |-> Total(sized, size),
       params |-> [i \in DOMAIN sized |->
                     Param(before(i), size(sized[i]) - Frame, bytes[i])]]
Chain(bytes) == Chained(bytes, bytes)

EndpointFormat == 3 * Word
FrameFactor == Word
U32 == One(Word + Frame, Word, Word)

(* audioreach_set_compr_media_format: the bytes after the format's head,   *)
(* and how many of them the head announces.                                *)
FormatHead == 3 * Word
Pcm == 4 * Word
Coded(format) ==
  CASE format = "mp3" -> Pcm [] format = "aac" -> 3 * Word
    [] format = "flac" -> 5 * Word [] format = "opus" -> 7 * Word
Inner(format) == IF format = "mp3" THEN 0 ELSE Coded(format)

(* Mutant: the map of the channels is not counted.                         *)
SharedMemory_NoMap(n, format) ==
  LET payload == FormatHead + Pcm + Frame
      bytes == FormatHead + (IF format = "pcm" THEN Pcm + n ELSE Coded(format))
  IN  WithHead(One(payload, payload - Frame, bytes), format,
               IF format = "pcm" THEN payload - FormatHead ELSE Inner(format))

(* audioreach_shmem_set_media_format: sized for PCM whatever the format;   *)
(* what a PCM head announces is taken from the whole payload.              *)
SharedMemory(n, format) ==
  LET payload == Aligned(FormatHead + Pcm + n) + Frame
      bytes == FormatHead + (IF format = "pcm" THEN Pcm + n ELSE Coded(format))
  IN  WithHead(One(payload, payload - Frame, bytes), format,
               IF format = "pcm" THEN payload - FormatHead ELSE Inner(format))

(* audioreach_compr_set_param, the format of the next track: a command of  *)
(* its own, in which the head begins where others have their header.       *)
CmdHeader == 4 * Word
NextTrack(format) ==
  LET room == CmdHeader + FormatHead + Pcm
  IN  WithHead([payload |-> room,
                params |-> <<Param(-Frame, room, FormatHead + Coded(format))>>],
               format, Inner(format))

(* audioreach_pcm_set_media_format, audioreach_mfc_set_media_format.       *)
PcmModule(n) ==
  LET payload == Aligned(Frame + FormatHead + Pcm + n)
  IN  WithHead(One(payload, payload - Frame, FormatHead + Pcm + n),
               "output", AlignedTo(4, Pcm + n))
Mfc(n) == LET size == AlignedTo(4, 2 * Word + 2 * n) IN One(size + Frame, size, 2 * Word + 2 * n)

(* Mutant: one sense a channel.                                            *)
Vi_Once(n) ==
  Chained(<<3 * Word + n * Word, Word + n * Word, Word>>, <<2 * Word, Word + 2 * n * Word, Word>>)

(* audioreach_speaker_protection_vi: the mode, a map of two senses for     *)
(* each channel, the factory mode.                                         *)
Vi(n) ==
  Chained(<<3 * Word + n * Word, Word + 2 * n * Word, Word>>, <<2 * Word, Word + 2 * n * Word, Word>>)

(* The other endpoints, the gains, the logger.                             *)
DisplayPort == Chain(<<EndpointFormat, FrameFactor, 3 * Word>>)
CodecDma == Chain(<<EndpointFormat, FrameFactor, 3 * Word, Word>>)
I2s == Chain(<<3 * Word, EndpointFormat, FrameFactor>>)
Gain == Chain(<<Word>>)
MasterGain == One(Word + Frame, Word, Word)
Logging == One(3 * Word + Frame, 3 * Word, 3 * Word)

(* audioreach_sp11_send_module_param: the final volume and mute, and       *)
(* whatever the inject control brings.                                     *)
MaxInject == 1024
FinalVolume == Word + 8 * 3 * Word + Word
Inject(n) == One(Aligned(n) + Frame, Aligned(n), n)

(* Set one at a time: a decoder's own module and silences, the volume, the *)
(* next track's format.                                                    *)
Singles ==
  {U32, MasterGain, Inject(FinalVolume)} \cup {NextTrack(f) : f \in Formats \ {"pcm"}}

(* audioreach_set_media_format: what is sent for a module, in order.       *)
Refused(kind, n) ==
  (n > 4 /\ kind \in {"pcm", "shared memory"}) \/ (n > 2 /\ kind = "vi")

Packets(kind, n, format) ==
  CASE kind = "logging" -> <<U32, Logging>>
    [] kind = "pcm" -> <<PcmModule(n)>>
    [] kind = "display port" -> <<DisplayPort>>
    [] kind = "i2s" -> <<I2s>>
    [] kind = "shared memory" -> <<SharedMemory(n, format)>>
    [] kind = "gain" -> <<Gain>>
    [] kind = "codec dma" -> <<CodecDma>>
    [] kind \in {"sal", "sp"} -> <<U32, U32>>
    [] kind = "mfc" -> <<Mfc(n)>>
    [] kind = "gapless" -> <<U32>>
    [] kind = "vi" -> <<Vi(n), U32>>

-----------------------------------------------------------------------------
(* q6apm_sp11_volume_transaction_put, q6apm_sp11_validate_gainstep_delta:  *)
(* one gain or two and the four parameters of a gain step, by ids.         *)
Ids == <<"enable", "pregain", "coefficients", "module enable">>
Normal == 96
Large == 152
FrameSize(id, coefficients) ==
  CASE id = "enable" -> 28 [] id = "pregain" -> 16
    [] id = "coefficients" -> coefficients [] id = "module enable" -> 4

DeltaSize(frames) == Total(frames, LAMBDA f : Aligned(Frame + f.size))
NormalSize == 216
LargeSize == 272

(* The gains a control of this size holds: none if the kernel refuses it.  *)
GainsIn(size) == {g \in {1, 2} : size - g * Word \in {NormalSize, LargeSize}}

(* Mutant: the last parameter is not looked at.                            *)
Validated_Three(frames) ==
  LET size == DeltaSize(frames)
      coefficients == IF size = NormalSize THEN Normal ELSE Large
      at(i) == DeltaSize(SubSeq(frames, 1, i))
  IN  /\ size \in {NormalSize, LargeSize}
      /\ \A i \in 1 .. 3 :
           /\ i <= Len(frames) /\ frames[i].id = Ids[i]
           /\ frames[i].size = FrameSize(Ids[i], coefficients)

Validated(frames) ==
  LET size == DeltaSize(frames)
      coefficients == IF size = NormalSize THEN Normal ELSE Large
      at(i) == DeltaSize(SubSeq(frames, 1, i))
  IN  /\ size \in {NormalSize, LargeSize}
      /\ \A i \in DOMAIN Ids :
           /\ i <= Len(frames) /\ frames[i].id = Ids[i]
           /\ frames[i].size = FrameSize(Ids[i], coefficients)
           /\ at(i) <= size
      /\ at(Len(Ids)) = size

-----------------------------------------------------------------------------
Nothing == [payload |-> 0, params |-> <<>>]

Init ==
  /\ graph = <<>> /\ joined = FALSE /\ doing = "describing"
  /\ cursor = 0 /\ memory = [at |-> <<>>, holds |-> <<>>]
  /\ todo = <<>> /\ packet = Nothing /\ accepted = Nothing

(* The topology's description, module by module: the first module of a     *)
(* container brings the container, its first container the sub graph.      *)
Describe(m) ==
  /\ doing = "describing"
  /\ Total(graph, LAMBDA c : Len(c.modules)) < MaxModules
  /\ \/ /\ Len(graph) < MaxContainers
        /\ \E ext \in BOOLEAN, first \in BOOLEAN :
             /\ graph = <<>> => first
             /\ graph' = Append(graph, [ext |-> ext, first |-> first, modules |-> <<m>>])
     \/ /\ graph # <<>>
        /\ graph' = [graph EXCEPT ![Len(graph)].modules = Append(@, m)]
  /\ joined' \in (IF graph = <<>> THEN BOOLEAN ELSE {joined})
  /\ UNCHANGED <<doing, cursor, memory, todo, packet, accepted>>

Allocate ==
  /\ doing = "describing" /\ graph # <<>>
  /\ doing' = "filling" /\ memory' = Opened
  /\ UNCHANGED <<graph, joined, cursor, todo, packet, accepted>>

Fill ==
  /\ doing = "filling"
  /\ cursor' = cursor + 1 /\ memory' = Container(memory, cursor')
  /\ doing' = IF cursor' = Len(graph) THEN "sent" ELSE doing
  /\ UNCHANGED <<graph, joined, todo, packet, accepted>>

(* A module's parameters; one the DSP refuses is the last.                 *)
Idle == doing = "describing" /\ graph = <<>>

SetFormat(kind, n, format) ==
  /\ Idle
  /\ doing' = "setting"
  /\ todo' = IF Refused(kind, n) THEN <<>> ELSE Packets(kind, n, format)
  /\ UNCHANGED <<graph, joined, cursor, memory, packet, accepted>>

SetParameter(p) ==
  /\ Idle
  /\ doing' = "setting" /\ todo' = <<p>>
  /\ UNCHANGED <<graph, joined, cursor, memory, packet, accepted>>

Send ==
  /\ todo # <<>>
  /\ packet' = Head(todo) /\ todo' \in {Tail(todo), <<>>}
  /\ UNCHANGED <<graph, joined, doing, cursor, memory, accepted>>

(* A transaction of some gains and parameters, each as long as it should   *)
(* be or as the one in its place should.                                   *)
Transact(gains, ids, sized, coefficients) ==
  LET frames == [i \in DOMAIN ids |->
                   [id |-> ids[i], size |-> FrameSize(sized[i], coefficients)]]
      size == gains * Word + DeltaSize(frames)
  IN  /\ Idle
      /\ doing' = "controlled"
      /\ accepted' = [gains |-> gains, ids |-> ids,
                      taken |-> GainsIn(size) = {gains} /\ Validated(frames)]
      /\ UNCHANGED <<graph, joined, cursor, memory, todo, packet>>

Next ==
  \/ \E m \in Shapes : Describe(m)
  \/ Allocate \/ Fill \/ Send
  \/ \E kind \in Kinds, n \in 1 .. MaxChannels, format \in Formats : SetFormat(kind, n, format)
  \/ \E p \in Singles \cup {Inject(n) : n \in InjectSizes \cap (1 .. MaxInject)} :
       SetParameter(p)
  \/ \E gains \in {1, 2}, coefficients \in {Normal, Large}, n \in 3 .. 4 :
       \E ids \in [1 .. n -> Range(Ids)] : \E sized \in {ids, Ids} :
         Transact(gains, ids, sized, coefficients)

-----------------------------------------------------------------------------
(* What the DSP makes of GRAPH_OPEN: a section begins where the one before *)
(* it ends by its announced size, its objects follow one another.          *)
Read(i, announced, counts) ==
  LET s == Sections[i]
      start == Total(SubSeq(Sections, 1, i - 1), LAMBDA r : Aligned(Frame + announced[r]))
      next(r, k) == IF r.at \in DOMAIN memory.holds
                    THEN [at |-> r.at + memory.holds[r.at].size,
                          seen |-> Append(r.seen, memory.holds[r.at].what)]
                    ELSE r
      all == FoldLeft(next, [at |-> start + Preface, seen |-> <<>>],
                      [k \in 1 .. counts[s] |-> k])
  IN  [seen |-> all.seen, end |-> start + Frame + announced[s],
       inside |-> all.at <= start + Frame + announced[s]]

Flat(of(_)) == FoldLeft(LAMBDA l, c : l \o of(c), <<>>, graph)
FlatModules(of(_)) == Flat(LAMBDA c : FoldLeft(LAMBDA l, m : l \o of(m), <<>>, c.modules))

Described ==
  [sub |-> SelectSeq([k \in DOMAIN graph |-> k], LAMBDA k : graph[k].first),
   cont |-> [k \in DOMAIN graph |-> k], list |-> [k \in DOMAIN graph |-> graph[k].modules],
   prop |-> FlatModules(LAMBDA m : <<m>>),
   conn |-> (IF joined THEN <<<<"front end">>>> ELSE <<>>)
            \o FlatModules(LAMBDA m : [i \in DOMAIN Connections(m) |-> <<m, Connections(m)[i]>>]),
   link |-> FlatModules(Links)]

(* The code leaves before the links of a module that has no output.        *)
LinksHaveOutputs ==
  \A k \in DOMAIN graph : \A i \in DOMAIN graph[k].modules :
    graph[k].modules[i].max = 0 => Links(graph[k].modules[i]) = <<>>

(* GRAPH_OPEN holds the graph that was described, each section complete and*)
(* at its place, all of it within the packet.                              *)
GraphIsRead ==
  doing = "sent" =>
    LET sizes == Size
        announced == Announced(sizes)
        payload == Start(sizes, Len(Sections) + 1)
        counts == Count
        described == Described
    IN  \A i \in DOMAIN Sections :
          counts[Sections[i]] > 0 =>
            LET r == Read(i, announced, counts)
                d == described[Sections[i]]
            IN  /\ r.seen = [k \in DOMAIN d |-> <<Sections[i], d[k]>>]
                /\ r.inside /\ r.end <= payload

OpenIsRead == LinksHaveOutputs => GraphIsRead

(* A parameter begins where the one before ends, what it announces ends in *)
(* the packet, and it is whole inside it; an Opus format, whose packet is  *)
(* sized for PCM, ends up to two words later, and no other.                *)
ParametersFit ==
  \A i \in DOMAIN packet.params :
    LET p == packet.params[i]
        end == p.at + Aligned(Frame + p.size)
        past == IF p.format = "opus" THEN 2 * Word ELSE 0
    IN  /\ p.bytes <= p.size + past /\ p.at + Frame + p.size <= packet.payload
        /\ IF i = Len(packet.params) THEN TRUE ELSE packet.params[i + 1].at = end

(* By its head a media format is what was written, and lies within its     *)
(* parameter.  Three heads say something else: an MP3 format's announces   *)
(* none of what follows it, that of PCM in shared memory a frame more than *)
(* the parameter has, and Opus's the bytes that do not fit.                *)
FormatsAreRead ==
  \A i \in DOMAIN packet.params :
    LET p == packet.params[i]
        end == FormatHead + p.inner
    IN  CASE p.format = "none" -> p.inner = 0
          [] p.format = "mp3" -> p.inner = 0
          [] p.format = "pcm" -> end = p.size + Frame /\ p.bytes <= end
          [] p.format = "opus" -> end = p.bytes
          [] OTHER -> p.bytes <= end /\ end <= p.size

(* The kernel takes the two exact volume steps, with one gain or with two, *)
(* and nothing else.                                                       *)
StepsAreExact == doing = "controlled" => (accepted.taken <=> accepted.ids = Ids)

(* What the DSP reads is what was described: every object of a graph, every*)
(* byte of a parameter but the last eight of an Opus format, what a media  *)
(* format's head says of it (with the exceptions of FormatsAreRead), and   *)
(* no volume step but a whole one.                                         *)
PacketsAreRead == OpenIsRead /\ ParametersFit /\ FormatsAreRead /\ StepsAreExact

(* What one would like, and the code does not do: no format is written past*)
(* its parameter, and no head announces more than there is.                *)
FormatsFit ==
  \A i \in DOMAIN packet.params :
    LET p == packet.params[i]
    IN  p.bytes <= p.size /\ (p.format # "none" => FormatHead + p.inner <= p.size)
=============================================================================
