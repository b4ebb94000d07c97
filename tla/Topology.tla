------------------------------ MODULE Topology ------------------------------
(***************************************************************************)
(* The graph description q6apm keeps, built from the topology file by the  *)
(* call-backs of topology.c and torn down by them: graphs hold sub graphs, *)
(* those hold containers, those hold modules, each found by id in a table. *)
(* A widget of the file brings its module, and whatever of its container,  *)
(* sub graph and graph is not there yet.  A load may fail at any widget,   *)
(* is then undone widget by widget, and may be tried again (a card that    *)
(* defers its probe, a driver bound anew) on what the last one left.       *)
(*                                                                         *)
(* Once loaded, two kinds of control act on the description: the mixer     *)
(* switches that connect a front end's graph to a back end's, and gains.   *)
(*                                                                         *)
(* The core's part (soc-topology.c, soc-dapm.c) is external: it unloads a  *)
(* widget whose load failed, then every widget loaded before.              *)
(***************************************************************************)
EXTENDS Integers

CONSTANTS
  Module,    \* the widgets that bring a module
  Mixer,     \* the virtual mixer widgets, one for each back end's graph
  Stage,     \* the stages of the protection profile
  Files,     \* topology files: see FileAssumption
  Flaws,     \* what may go wrong with a widget
  Gain,      \* the gain control's values
  None

(* A file says where each module goes: its sub graph, container, instance  *)
(* id and class, the stages it carries; the graph of each sub graph; each  *)
(* mixer's graph and the modules it joins.  "expected" says that the       *)
(* stages have the sizes, ids and parameters the driver insists on.        *)
FileAssumption ==
  \A f \in Files :
    /\ \A field \in {"sub", "cont", "id", "class", "stages"} : DOMAIN f[field] = Module
    /\ DOMAIN f.mix = Mixer /\ f.expected \in BOOLEAN
    /\ \A v, w \in Module : f.cont[v] = f.cont[w] => f.sub[v] = f.sub[w]
    /\ \A w \in Module : f.sub[w] \in DOMAIN f.graph
                         /\ f.class[w] \in {"buffer", "codec", "pga"}

(* Out of memory for one of the objects; a malformed private block, found  *)
(* at the module's own data, its control links or a stage; a module id or  *)
(* an event the driver does not know; a control of a type it does not.     *)
FlawAssumption ==
  Flaws \subseteq {"sub", "info", "cont", "mod", "mixer", "cfg", "links",
                   "stages", "kind", "event", "control"}

TopologyAssumption == FileAssumption /\ FlawAssumption /\ Module \cap Mixer = {}

VARIABLES
  file,      \* the topology file
  phase,     \* absent, loading, loaded, unloading
  made,      \* the widgets soc-topology has created
  tree,      \* graph_info_idr, sub_graphs_idr, containers_idr, the modules and modules_idr
  mixers,    \* widget_list: for each mixer, the instance ids its routes have bound
  good,      \* the last load came to its end
  oops,      \* the kernel has followed a null pointer or freed something twice
  on,        \* the mixer switches DAPM has on
  vol        \* a module's gain: see Quiet

vars == <<file, phase, made, tree, mixers, good, oops, on, vol>>

Empty == <<>>
Bare == [infos |-> Empty, subs |-> Empty, conts |-> Empty, mods |-> Empty, ids |-> Empty]
Apart == [src |-> 0, dst |-> 0]

(* The gain stored, whether the widget is powered, what the DSP has; where *)
(* a put and a power-up are in their handlers; whether two overlapped or   *)
(* a command failed since the power-up.                                    *)
Quiet(g) == [gain |-> g, power |-> FALSE, dsp |-> None, put |-> "idle",
             event |-> "idle", value |-> None, mixed |-> FALSE]

Init ==
  /\ file \in Files /\ phase = "absent" /\ made = {} /\ tree = Bare
  /\ mixers = Empty /\ good = TRUE /\ oops = FALSE /\ on = {}
  /\ \E g \in Gain : vol = Quiet(g)

-----------------------------------------------------------------------------
(* Loading a module widget: each stage yields the description it leaves,   *)
(* and whether the load goes on.                                           *)
ModulesIn(t, c) == {w \in DOMAIN t.mods : t.mods[w].cont = c}
ContainersIn(t, s) == {c \in DOMAIN t.conts : t.conts[c] = s}
SubsIn(t, g) == {s \in DOMAIN t.subs : t.subs[s] = g}

Entered(f, x, v) == [y \in DOMAIN f \cup {x} |-> IF y = x THEN v ELSE f[y]]

Got(t) == [tree |-> t, ok |-> TRUE]
Failed(t) == [tree |-> t, ok |-> FALSE]

(* audioreach_tplg_alloc_sub_graph; audioreach_tplg_alloc_graph_info,      *)
(* which keeps a graph that is there already.                              *)
AllocSub(t, s, flaw) ==
  IF flaw = "sub" THEN Failed(t) ELSE Got([t EXCEPT !.subs = Entered(@, s, None)])
AllocInfo(t, g, flaw) ==
  IF g \in DOMAIN t.infos THEN Got(t)
  ELSE IF flaw = "info" THEN Failed(t)
  ELSE Got([t EXCEPT !.infos = Entered(@, g, Apart)])

(* Mutant: a sub graph joins its graph only if the graph is new.           *)
AddSub_FirstOnly(t, s, g) ==
  IF SubsIn(t, g) = {} THEN [t EXCEPT !.subs[s] = g] ELSE t

(* audioreach_tplg_add_sub_graph.                                          *)
AddSub(t, s, g) == [t EXCEPT !.subs[s] = g]

(* audioreach_parse_sg_tokens: a sub graph seen before is taken as it is;  *)
(* a new one is entered in its table before its graph is looked for.       *)
SubGraph(t, w, flaw) ==
  LET s == file.sub[w]
      g == file.graph[s]
      a == AllocSub(t, s, flaw)
      b == AllocInfo(a.tree, g, flaw)
  IN IF s \in DOMAIN t.subs THEN Got(t)
     ELSE IF ~a.ok \/ g = None THEN a
     ELSE IF ~b.ok THEN b ELSE Got(AddSub(b.tree, s, g))

(* audioreach_tplg_alloc_container, which enters the container in its sub  *)
(* graph too; audioreach_parse_cont_tokens.                                *)
AllocContainer(t, c, s, flaw) ==
  IF flaw = "cont" THEN Failed(t) ELSE Got([t EXCEPT !.conts = Entered(@, c, s)])
Container(t, w, flaw) ==
  IF file.cont[w] \in DOMAIN t.conts THEN Got(t)
  ELSE AllocContainer(t, file.cont[w], file.sub[w], flaw)

(* audioreach_tplg_alloc_module.  A widget without an id is given one in   *)
(* the table, which its module does not remember.                          *)
Dynamic == 1000 .. 1001
AllocModule(t, w, flaw) ==
  LET id == file.id[w]
      key == IF id = 0 THEN CHOOSE k \in Dynamic : k \notin DOMAIN t.ids ELSE id
  IN IF flaw = "mod" THEN Failed(t)
     ELSE Got([t EXCEPT !.ids = Entered(@, key, w),
                        !.mods = Entered(@, w, [cont |-> file.cont[w], id |-> id, ptr |-> {},
                                                held |-> {}, stages |-> {}])])

(* audioreach_parse_common_tokens: an instance id may be used once.        *)
ModuleOf(t, w, flaw) ==
  IF file.id[w] \in DOMAIN t.ids THEN Failed(t) ELSE AllocModule(t, w, flaw)

(* audioreach_get_module_priv_data and the two validations.                *)
Blocks == {"cfg", "links", "stages"}
Malformed(flaw) == flaw \in Blocks

(* The private blocks, one kind after the other; a failure frees those     *)
(* taken before it and clears the pointers, since the unload that follows  *)
(* frees what the module holds as well.                                    *)
Data(t, w, flaw) ==
  IF Malformed(flaw) THEN Failed(t)
  ELSE Got([t EXCEPT !.mods[w] = [t.mods[w] EXCEPT !.held = Blocks, !.ptr = Blocks,
                                                   !.stages = file.stages[w]]])

(* What audioreach_widget_load_buffer and _pga refuse after the part they  *)
(* have in common with _enc_dec_cnv.                                       *)
UnknownModule(w, flaw) == file.class[w] = "buffer" /\ flaw = "kind"
UnknownEvent(w, flaw) == file.class[w] = "pga" /\ flaw = "event"
Specific(t, w, flaw) ==
  IF UnknownModule(w, flaw) \/ UnknownEvent(w, flaw) THEN Failed(t) ELSE Got(t)

(* audioreach_widget_load_module_common and the loader of its class.       *)
Loaded(t, w, flaw) ==
  LET a == SubGraph(t, w, flaw)
      b == IF a.ok THEN Container(a.tree, w, flaw) ELSE a
      c == IF b.ok THEN ModuleOf(b.tree, w, flaw) ELSE b
      d == IF c.ok THEN Data(c.tree, w, flaw) ELSE c
  IN IF d.ok THEN Specific(d.tree, w, flaw) ELSE d

-----------------------------------------------------------------------------
(* Unloading one.                                                          *)
Without(f, x) == [y \in DOMAIN f \ {x} |-> f[y]]

(* audioreach_widget_unload for a module: its entry, then each parent that *)
(* has become empty.                                                       *)
DropModule(t, w) == [t EXCEPT !.mods = Without(@, w), !.ids = Without(@, t.mods[w].id)]
DropInfo(t, g) ==
  IF SubsIn(t, g) = {} THEN [t EXCEPT !.infos = Without(@, g)] ELSE t

(* Mutant: the graph is not looked at when its last sub graph goes.        *)
DropSub_KeepsInfo(t, s) ==
  IF ContainersIn(t, s) = {} THEN [t EXCEPT !.subs = Without(@, s)] ELSE t

DropSub(t, s) ==
  IF ContainersIn(t, s) = {}
  THEN DropInfo([t EXCEPT !.subs = Without(@, s)], t.subs[s]) ELSE t
DropContainer(t, c) ==
  IF ModulesIn(t, c) = {}
  THEN DropSub([t EXCEPT !.conts = Without(@, c)], t.conts[c]) ELSE t

Unloaded(t, w) ==
  IF w \in DOMAIN t.mods THEN DropContainer(DropModule(t, w), t.mods[w].cont) ELSE t

(* It frees every pointer of the module that is not null, whether or not   *)
(* something is there, and follows the graph pointer of a sub graph it     *)
(* drops.                                                                  *)
Crashes(t, w) ==
  w \in DOMAIN t.mods
  /\ LET c == t.mods[w].cont
         s == t.conts[c]
     IN \/ ~(t.mods[w].ptr \subseteq t.mods[w].held)
        \/ ModulesIn(t, c) = {w} /\ ContainersIn(t, s) = {c} /\ t.subs[s] = None

-----------------------------------------------------------------------------
(* audioreach_tplg_init and soc-topology's passes.                         *)
Still == UNCHANGED <<file, on, vol>>

Load ==
  /\ phase = "absent" /\ ~oops
  /\ phase' = "loading" /\ good' = FALSE
  /\ UNCHANGED <<made, tree, mixers, oops>> /\ Still

(* A failed widget is unloaded at once, the others after it.               *)
LoadModule(w) ==
  /\ phase = "loading" /\ w \notin made /\ ~oops
  /\ \E flaw \in Flaws \cup {"none"} :
       LET r == Loaded(tree, w, flaw) IN
       IF r.ok
       THEN tree' = r.tree /\ made' = made \cup {w} /\ UNCHANGED <<phase, oops>>
       ELSE /\ phase' = "unloading" /\ oops' = Crashes(r.tree, w)
            /\ tree' = Unloaded(r.tree, w) /\ UNCHANGED made
  /\ UNCHANGED <<mixers, good>> /\ Still

(* audioreach_control_load for the mixer's switches, then                  *)
(* audioreach_widget_load_mixer, whose unload does not expect it to have   *)
(* failed.                                                                 *)
LoadMixer(m) ==
  /\ phase = "loading" /\ m \notin made /\ ~oops
  /\ \E flaw \in (Flaws \cap {"control", "mixer"}) \cup {"none"} :
       IF flaw = "none"
       THEN /\ made' = made \cup {m} /\ UNCHANGED <<phase, oops>>
            /\ mixers' = Entered(mixers, m,
                            [sink |-> 0, src |-> [s \in file.mix[m].sources |-> 0]])
       ELSE phase' = "unloading" /\ oops' = (flaw = "mixer") /\ UNCHANGED <<made, mixers>>
  /\ UNCHANGED <<tree, good>> /\ Still

(* audioreach_route_load for each route, at the end of the load; looking a *)
(* module up by its widget's name visits every entry of the table.         *)
LoadRoutes ==
  /\ phase = "loading" /\ made = Module \cup Mixer /\ ~oops
  /\ phase' = "loaded" /\ good' = TRUE
  /\ oops' = (\E k \in DOMAIN tree.ids : tree.ids[k] \notin DOMAIN tree.mods)
  /\ mixers' = [m \in Mixer |->
       [sink |-> file.id[file.mix[m].sink],
        src |-> [s \in file.mix[m].sources |-> file.id[s]]]]
  /\ UNCHANGED <<made, tree>> /\ Still

Remove ==
  /\ phase = "loaded" /\ ~vol.power /\ vol.put = "idle" /\ ~oops
  /\ phase' = "unloading" /\ on' = {}
  /\ UNCHANGED <<file, made, tree, mixers, good, oops, vol>>

UnloadWidget(w) ==
  /\ phase = "unloading" /\ w \in made /\ ~oops
  /\ made' = made \ {w}
  /\ IF w \in Mixer THEN mixers' = Without(mixers, w) /\ UNCHANGED <<tree, oops>>
     ELSE tree' = Unloaded(tree, w) /\ oops' = Crashes(tree, w) /\ UNCHANGED mixers
  /\ UNCHANGED <<phase, good>> /\ Still

Removed ==
  /\ phase = "unloading" /\ made = {} /\ ~oops /\ phase' = "absent"
  /\ UNCHANGED <<made, tree, mixers, good, oops>> /\ Still

-----------------------------------------------------------------------------
(* Controls of a loaded card.                                              *)
Live == phase = "loaded" /\ ~oops

(* audioreach_put_audio_mixer: the back end's graph has room for one       *)
(* connection, which any of its switches makes and unmakes.                *)
Switch(m, s) ==
  /\ Live /\ s \in file.mix[m].sources
  /\ LET g == file.mix[m].graph IN
     IF <<m, s>> \in on
     THEN on' = on \ {<<m, s>>} /\ tree' = [tree EXCEPT !.infos[g] = Apart]
     ELSE /\ on' = on \cup {<<m, s>>}
          /\ tree' = [tree EXCEPT !.infos[g] =
                        [src |-> mixers[m].src[s], dst |-> mixers[m].sink]]
  /\ UNCHANGED <<file, phase, made, mixers, good, oops, vol>>

Unmoved == UNCHANGED <<file, phase, made, tree, mixers, good, oops, on>>

(* A put stores the gain and, if it finds the widget powered, sends it.    *)
Put(v) ==
  /\ Live /\ vol.put = "idle" /\ v # vol.gain
  /\ vol' = [vol EXCEPT !.gain = v, !.put = "test",
                        !.mixed = @ \/ vol.event # "idle"]
  /\ Unmoved

(* Mutant: a put only stores, as upstream does.                            *)
Test_OnlyStores ==
  /\ vol.put = "test" /\ vol' = [vol EXCEPT !.put = "idle"] /\ Unmoved

Test ==
  /\ vol.put = "test"
  /\ vol' = [vol EXCEPT !.put = IF vol.power THEN "send" ELSE "idle"]
  /\ Unmoved

(* The DSP takes the gain or not; neither handler asks.                    *)
PutSends ==
  /\ vol.put = "send"
  /\ \E taken \in BOOLEAN :
       vol' = [vol EXCEPT !.put = "idle", !.mixed = @ \/ ~taken,
                          !.dsp = IF taken /\ vol.power THEN vol.gain ELSE @]
  /\ Unmoved

(* DAPM marks the widget powered and calls audioreach_pga_event.           *)
PowerUp ==
  /\ Live /\ ~vol.power
  /\ vol' = [vol EXCEPT !.power = TRUE, !.event = "read", !.mixed = vol.put # "idle"]
  /\ Unmoved

EventReads ==
  /\ vol.event = "read"
  /\ vol' = [vol EXCEPT !.event = "send", !.value = vol.gain]
  /\ Unmoved

EventSends ==
  /\ vol.event = "send"
  /\ \E taken \in BOOLEAN :
       vol' = [vol EXCEPT !.event = "idle", !.value = None, !.mixed = @ \/ ~taken,
                          !.dsp = IF taken THEN vol.value ELSE @]
  /\ Unmoved

PowerDown ==
  /\ vol.power /\ vol.event = "idle"
  /\ vol' = [vol EXCEPT !.power = FALSE, !.dsp = None, !.mixed = FALSE]
  /\ Unmoved

Gains == (\E v \in Gain : Put(v)) \/ Test \/ PutSends
         \/ PowerUp \/ EventReads \/ EventSends \/ PowerDown

Next ==
  \/ Load \/ LoadRoutes \/ Remove \/ Removed \/ Gains
  \/ \E w \in Module : LoadModule(w)
  \/ \E m \in Mixer : LoadMixer(m)
  \/ \E w \in Module \cup Mixer : UnloadWidget(w)
  \/ \E m \in Mixer, s \in Module : Switch(m, s)
Spec == Init /\ [][Next]_vars

-----------------------------------------------------------------------------
(* What other parts read of the description.                               *)

(* audioreach_find_stage walks a graph's lists.                            *)
InGraph(g) ==
  {w \in DOMAIN tree.mods :
     LET c == tree.mods[w].cont IN
     tree.conts[c] \in DOMAIN tree.subs /\ tree.subs[tree.conts[c]] = g}

(* Mutant: the first module with the stage is taken.                       *)
Accepts_Any(g) ==
  /\ phase = "loaded" /\ file.expected
  /\ \A s \in Stage : \E w \in InGraph(g) : s \in tree.mods[w].stages

(* audioreach_validate_protection_profile: each stage is found, in one     *)
(* module of the graph, and is laid out as expected.                       *)
Accepts(g) ==
  /\ phase = "loaded" /\ file.expected
  /\ \A s \in Stage :
       \E w \in Module : {v \in InGraph(g) : s \in tree.mods[v].stages} = {w}

-----------------------------------------------------------------------------
(* Properties.                                                             *)

(* A load that comes to its end describes the file, whatever loads failed  *)
(* before it and whatever they left: every module is in its container,     *)
(* sub graph and graph, and nothing else is there.                         *)
LoadedIsFile ==
  phase = "loaded" =>
    /\ \A w \in Module :
         /\ w \in InGraph(file.graph[file.sub[w]])
         /\ tree.mods[w].cont = file.cont[w]
         /\ tree.conts[file.cont[w]] = file.sub[w]
         /\ tree.mods[w].stages = file.stages[w]
    /\ DOMAIN tree.conts = {file.cont[w] : w \in Module}
    /\ DOMAIN tree.subs = {file.sub[w] : w \in Module}

(* A teardown frees each object once and follows no null pointer.  It      *)
(* leaves no module, and nothing at all when the load had been complete,   *)
(* even if loads before it had failed and left empty containers.           *)
UnloadIsClean ==
  /\ ~oops
  /\ phase = "absent" =>
       /\ tree.ids = Empty /\ tree.mods = Empty /\ mixers = Empty
       /\ good => tree = Bare

(* A powered gain widget has the gain last put, unless a put overlapped    *)
(* the power-up or a command failed: audioreach_put_vol_ctrl_audio_mixer's *)
(* comment on what upstream dropped.                                       *)
GainIsHeard ==
  vol.power /\ vol.event = "idle" /\ vol.put = "idle" /\ ~vol.mixed
    => vol.dsp = vol.gain

(* What the comment hopes for, without the exception: false.  The event    *)
(* may send the gain it read before a put that has already sent its own.   *)
GainIsAlwaysHeard ==
  vol.power /\ vol.event = "idle" /\ vol.put = "idle" => vol.dsp = vol.gain

(* A back end with a switch on is connected through one that is on: false. *)
(* Turning off one of two switches unmakes the other's connection.         *)
OnIsConnected ==
  \A m \in DOMAIN mixers :
    (\E s \in Module : <<m, s>> \in on) =>
      \E s \in Module : <<m, s>> \in on
                        /\ tree.infos[file.mix[m].graph].src = mixers[m].src[s]
=============================================================================
