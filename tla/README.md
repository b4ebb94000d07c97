# Verification project: Surface Pro 11 audio

TLA+ specifications of the control logic in this repository, model-checked with TLC and
proved with TLAPS. The repository carries sound on the Surface Pro 11: a kernel overlay
for Qualcomm's AudioReach DSP, its SoundWire bus and its speaker amplifiers
(`repro/golden-v32/source-overlay`), a speaker engine called UbiG (`ubig/`), and services that tie
PipeWire's volume to both (`deploy/ubig/`).

What is here is about control: who holds what, which step follows which, what happens when
one of them fails, comes late or never comes; of signal processing it is about what is computed
from what, and of the Fourier transforms, which are exact. What a filter does to the sound and what
a register's bits mean are not modelled.

Paths below are relative to the repository. `K` is `repro/golden-v32/source-overlay`, `Q` is
`K/sound/soc/qcom/qdsp6`, and `V` is `deploy/ubig/sp11_windows_volume_transaction_sync.py`.

## 1. Inventory

### How the parts interact

```
 user, WirePlumber        PipeWire graph: visible sink -> UbiG (LADSPA) -> hidden hardware sink
      |  pw-dump -m / wpctl     |                ^ control page (shared memory)     | PCM
      v                         |                |                                  v
 volume daemon (V) -------------+----------------+                      ALSA PCM core
      |  mixer controls                                             trigger, ack, pointer
      v                                                                             v
 q6apm mixer controls --- struct audioreach_graph (graph_idr, refcount) --- q6apm-dai.c (front end)
      |                       |      ^                                       q6apm-lpass-dais.c (back end)
 topology.c (description) ----+------+                                              |
                              v                                    x1e80100.c, DPCM, DAPM (back ends)
      audioreach_send_cmd_sync: one mutex, one result slot, one wait queue          |
                              |                          lpass-wsa-macro.c -- clock --> qcom.c (master)
                              v  GPR packets                                              | SoundWire
                         AudioReach DSP                                       stream.c -> wsa884x.c
```

### Components, their state and what is hard about them

| Part | State it keeps | Operations | What is hard | What makes it correct |
|---|---|---|---|---|
| Graph life, `Q/q6apm.c`, `q6apm-dai.c`, `q6apm-lpass-dais.c` | `graph_idr`, `refcount`, `start_count`, DSP resources, `is_port_started`, `prtd->state` | open, prepare, start, stop, close of front and back end; mixer controls that borrow the graph | lookup and reference are two steps; opens fail half way; start and stop are counted by two sides | no use after free; one graph per id; nothing leaks; counts balance |
| Command channel, `Q/audioreach.c`, `q6apm.c` | mutex, result slot, wait queue | send and wait, callback, completions | answers have no sequence number; two unordered stores; late answers; the worker takes the sender's mutex | what a return code means; everybody gets on |
| Soft pause, `Q/q6apm-dai.c` | `prtd->state`, `soft_paused`, two completions | pause, release, stop triggers; watermarks | a trigger waits under the stream lock for what a worker delivers that takes the same lock | no deadlock; host and DSP agree on the pause |
| Shared buffers, `Q/q6apm.c`, `q6apm-dai.c` | ring, position page, out-of-band buffer; their handles | map and unmap around GRAPH_OPEN, GRAPH_CLOSE and the PCM's life | the handle comes by token after the result; an answer may be late, an unmapping refused | no buffer is freed while the DSP has it |
| Packets, `Q/audioreach.c`, `q6apm.c` | none | allocate, fill and send GRAPH_OPEN and SET_CFG; check what user space brings | sizes are computed in one place and used up in another | what the DSP reads is what was described |
| Stream rings, `Q/q6apm-dai.c`, `q6apm.c` | `queue_ptr`, `dsp_buf`, `hw_ptr`; the position page; `bytes_sent`, `bytes_received`, `copied_total` | write, read, ack, completions, pointer, pause, drain, stop, next track | cursors advance apart, in several units, on several threads; a page is read while it is written | what is heard or recorded is the stream in order; the pointer tells the truth; drains end |
| Topology, `Q/topology.c` | graphs, sub graphs, containers, modules, each in an id table; mixer connections | load a widget, unload, controls | a load fails at any widget and is tried again over what is left | the description is the file's, or nothing of it |
| Speaker protection, `Q/audioreach.c`, `x1e80100.c`, `Q/q6apm.c` | two feedback flags, `protection_configured`, what the DSP's modules were told | prepare of three back ends and of the front end, free, close | eighteen commands in order, each of which may fail; a decision taken once from flags that change | the graph that runs is protected or bypassed, never half of it |
| SoundWire streams, `K/drivers/soundwire/stream.c`, `qcom.c` | stream and master runtimes, bus parameters, two register banks, runtime PM, `slave_status` | startup, hw_params, prepare, trigger, free of each back end; suspend, resume, interrupt | several streams share the bus and the bank switch; a write or a broadcast fails between two steps; the clock is another driver's | ports enabled are those of enabled streams; no register is used without clock |
| WSA macro, `K/sound/soc/codecs/lpass-wsa-macro.c` | `wsa_mclk_users`, register cache, DAPM state, controls | path and VI power events, controls, clock provider, runtime PM | two clients of one clock, counters shared by two paths, cache-only writes | the registers are what was set; a powered path is whole |
| WSA884x amplifier, `K/sound/soc/codecs/wsa884x.c` | register cache, `hw_init`, supply, health worker | mute, power events, recovery, temperature, bus status, PM | four threads, two owners of the cache's mode | the chip has what the cache says; a stopped amplifier stays off |
| Control page, `ubig/control_page.c`, engine side in `ubig/src/integration/sp11_ladspa_candidate.c` | a page of words in shared memory | writers under a file lock; lock-free reader on the audio thread | torn reads; writers and engines that die; restarts | the newest request is applied whole and acknowledged |
| UbiG engine, `ubig/src/core`, plugin in `ubig/src/integration/sp11_ladspa_candidate.c` | requested and live parameters; blocks in progress; bands, histories, running sums, scratch rows, events | run, activate, a profile or equalizer requested; a block of each stage | cursors and phases that turn at different rates; values computed in place, delayed by a block, or kept over a switch | what is applied is whole; the delay is fixed; every value is of the blocks it is taken for; nothing exceeds the ceiling |
| Volume daemon, `V` | variables of `run()`, three mute and two volume actuators | reconcile on every event | every external call is a step; state read is stale when used; failures; termination | never full volume; the volume heard is the user's; it comes to rest |

`PROJECT.json` lists every part with its sources, the ones left out with the reason, and the
hazards at their lines.

## 2. Modules, and the plan

| Module | Models | Composes | Status |
|---|---|---|---|
| `ApmGraph` | the graph's life, all threads | instantiates `SharedGraph` | checked and proved |
| `SharedGraph` | what q6apm promises a graph's clients | | abstract specification |
| `ApmGraphProofs` | | extends `ApmGraph` | counting, books, refinement |
| `MCApmGraph` | model values | extends `ApmGraph` | |
| `CmdSync` | one command channel | | checked and proved |
| `SoftPause` | pause triggers and the receive worker | | checked and proved |
| `SharedMaps` | the buffers mapped for the DSP | | checked and proved |
| `Packets` | what is put into GRAPH_OPEN and SET_CFG, and read | | checked |
| `DspCalls`, `MCDspCalls` | what is asked of the DSP and waited for | extends `CmdSync`, instantiates `SoftPause`, `SharedMaps`, `Packets` | checked |
| `DspCallsProofs` | | extends `DspCalls` | what a result means; host and DSP agree; maps follow buffers |
| `PcmRing` | push-mode playback ring | | checked; proved in the whole |
| `CaptureRing` | the ring the other way round | extends `PcmRing` | checked; proved in the whole |
| `PullRing` | the ring the DSP reads by itself, its position page | extends `CaptureRing` | checked; proved in the whole |
| `ComprStream` | compressed playback | | checked; proved in the whole |
| `DaiStreams` | a stream of any of the four kinds | extends `PullRing`, instantiates `ComprStream` | checked and proved |
| `DaiStreamsProofs` | | extends `DaiStreams` | streams whole, pointer, drains |
| `ControlPage`, `MCControlPage` | control page, writers, engine | | checked; safety proved |
| `VolumeDaemon` | the volume transaction daemon | | checked; safety proved |
| `VolumeDaemonProofs` | | extends `VolumeDaemon` | what the daemon believes; never full, quiet on failure, the user's volume |
| `Protection` | speaker protection of the pull graph | | checked; proved in the whole |
| `Topology` | load and removal of the graph description | | checked; proved in the whole |
| `SpeakerCard`, `MCSpeakerCard` | the protected stream over the topology's life | extends `Protection`, instantiates `Topology` | checked and proved |
| `SpeakerCardProofs` | | extends `SpeakerCard` | protection whole, tree and file, gain |
| `SoundWire` | the streams of one bus | | checked; proved in the whole |
| `WsaMacro` | the macro's paths, cache and clocks | | checked and proved |
| `SwrMaster` | runtime PM and interrupts of the bus master | extends `WsaMacro` | checked and proved |
| `SpeakerBus` | streams over master and macro | extends `SoundWire`, `SwrMaster` | checked; its own properties proved |
| `SpeakerBusProofs` | | extends `SpeakerBus`, `SdwRuntimes` | ports, clocks, status, registers; runtimes |
| `SdwRuntimes` | master and stream runtimes and their ports | | checked and proved |
| `MCSpeakerBus` | the board's amplifiers; a behaviour is of one of the two | extends `SpeakerBus`, `SdwRuntimes` | |
| `Wsa884x` | one amplifier | | checked and proved |
| `Wsa884xProofs` | | extends `Wsa884x` | cache and chip, driven PA, no circle of waits |
| `UbigChain` | the plugin: profiles, blocks, the two stages' adapters | | checked; settings proved |
| `StageA` | filter bank and limiter | | checked; proved in the whole |
| `StageBAnalysis` | the analysis controller's histories | | checked; proved in the whole |
| `StageBWindows` | the dialog enhancer's sums and scratch | | checked; proved in the whole |
| `StageBLeveler` | the leveler and its events | | checked; proved in the whole |
| `StageBLate` | deep controller, synthesis, late limiter | | checked; proved in the whole |
| `Transforms` | the Fourier transforms of both stages | | checked |
| `UbigEngine` | one of these pieces | extends `Transforms`, instantiates the others | checked; all but delay and transforms proved |
| `UbigProofs` | | extends `ControlPage`, `UbigEngine` | the newest request is whole, nothing goes back; limiters, filter bank, histories, settings, events |

Of the plan's theorems `DelayIsFixed` and `PacketsAreRead` are left to TLC, with `BinsAreDft` and liveness; section 5 says why.

## 3. Models and code

### ApmGraph

State: `idr` is `apm->graph_idr`; `mem` and `ref` are allocation and `refcount` of each
address, a freed address being reused; `starts` is `start_count`; `res` is what an open has
obtained so far (position buffer, DSP graph, out-of-band buffer); `dsp` and `ring` are what the
DSP knows. `pc[t]` is where thread `t` is; each command to the DSP, and each lock taken and
dropped, ends a step, so other threads run in between.

Actions: `FeOpen` and `Find` to `AllocPort` are `q6apm_graph_open` with its allocation,
commands and four-stage unwinding (`UnmapOob`, `GraphClose`, `UnmapPosition`, `IdrRemove`,
which the last `Put` also runs). `BePrepare` to `BeConfigure` and `FePrepare` to `FeStart` are the
two prepares; `BeStart`, `TriggerStart`, `TriggerStop` the triggers; `BeShutdown` to `FeCloseStop`
the closes; `CtlGet`, `CtlSend`, `Put` a mixer control. A command is accepted, refused, or
accepted with a late answer (`Outcome`), the caller seeing an error in both last cases.

`CallsEnd` has two parts. Whatever call is in progress ends; and once the stream is closed its graph is
given back, though controls may hold it then: each drops its reference, and none can take a new one,
which `sp11_get_running_protected_graph` refuses unless `start_count` is positive. That start_count is
back at zero is `Balanced`; with a close that forgets its stop, two controls can keep the graph in turns
for ever. `Owed` is what the two sides owe: a pull graph is owed exactly its count; a push stream may owe
a stop of what its failed prepare stopped already (`OnlyStopStarted` below), never the other way round.

Abstracted: ASoC runs the operations of one PCM one at a time (DPCM holds the card's pcm
mutex), so front and back end of the one stream never overlap, and mixer controls are the only
concurrent threads. Memory maps succeed or fail. A control that finds no graph does nothing.

`raced` is a history variable: a reference was taken on a graph whose last reference had been
dropped. `q6apm_get_audioreach_graph` looks the graph up under `apm->lock` and takes the
reference after dropping it (`Q/q6apm.c:374`), so with mixer controls this can happen, and the
properties are stated up to it. `PushNeverRaces` proves that it cannot for an ordinary stream.

`SharedGraph` is the promise: a graph comes up with its first user, goes down with its last, is
not touched while it goes. `ApmGraph` implements it with the mapping `Phase` and `Users`.

### CmdSync

`audioreach_send_cmd_sync` and the callbacks in `q6apm.c`: `Call` (take the mutex, clear the
slot), `Send`, `Evaluate` (the wait's condition), `Expire` (the five seconds), `Read` (the
status, read without a lock). The callback is four steps: `Receive`, `StoreOpcode`,
`StoreStatus`, `WakeUp`; a buffer completion first takes the mutex (`LookUp`). `log` is the
history of commands: what the DSP said, what the caller was told.

### SoftPause

The pull stream after its first prepare. `Pause`, `Release`, `Stop` are ALSA's triggers under
the stream lock (`pc # "idle"`), `Enter` to `Completed` the stages of `q6apm_dai_trigger` and
`q6apm_dai_sp11_soft_pause`; `Failed` includes ALSA's undo of a failed trigger. `Deliver` is the receive
worker, `Elapse` the part of `event_handler` that takes the stream lock and may find an
underrun, which runs the stop trigger on the worker itself. Answers are matched to their
command here; how they can be confused is the subject of `CmdSync`.

### SharedMaps

A region is the ring, the position page or the out-of-band buffer; `step` walks the call that
maps or unmaps it (`Send`, `Return`, `GiveUp`), `wire` and `answers` are what is under way to and from
the DSP. `Fill` and `Record` are the two halves of `apm_callback`: the result first, and then, by the
answer's token, the handle, which whoever looks in between finds zero. An open maps the page, opens
the graph, maps the out-of-band buffer and calibrates; its failures unwind in the other order, as the
last put does. `apm_callback` takes a refused unmapping for done. ASoC takes the components away
before it frees the PCM, and then the ring may be left mapped (`Unbind`). A buffer is freed when the
host has asked for its unmapping, whatever became of it.

### Packets

A packet is a size, computed first, and objects put at addresses by cursors that go their own way.
`Count` and `Size` are the sums of `audioreach_alloc_graph_pkt`, `Announced` what it writes into the
sections' heads, `Container` and `Module` the walk of `audioreach_populate_graph`. `Read` is the DSP,
which knows the heads alone: a section begins where the one before ends by its announced size, and its
objects follow one another. The same for SET_CFG: `Chained` for packets of several parameters, and one
operator a media format or gain with the size it reserves and the bytes it fills. `Validated` and
`GainsIn` are the kernel's check of a volume transaction: its size alone tells one gain from two.
A media format's head says how long what follows it is: `Inner` is that count, as the code writes it
(`Q/audioreach.c:1802` and the like). `FormatsAreRead` says it agrees with what was written, for every
format `q6apm-dai.c` and the compressed stream offer and for the next track (`NextTrack`), with three
exceptions that are stated as they are: PCM's head announces a frame too many, MP3's nothing of what follows
it, and an Opus format is longer than the packet sized for PCM, its last two words lying behind the parameter.
Other values within a parameter are not modelled, nor is the block of SMECNS_V2, which is copied whole.
The structures' sizes are those of `audioreach.h`. A module list is counted with a head of its own for
every container, so its section has room to spare.

`DspCalls` joins channel, pause, maps and packets: they share nothing but the command channel, whose
confusions `CmdSync` has, and a behaviour is that of one.

### PcmRing, CaptureRing, PullRing, ComprStream: the streams of `q6apm-dai.c`

`PcmRing` has the four cursors of a push-mode playback stream: ALSA's `appl_ptr` and `hw_ptr`, the
driver's `queue_ptr` and `dsp_buf`, and the callback's `hw_ptr`. `Write` is an application's write of
any number of frames with the whole of `q6apm_dai_ack`; `WriteRefused` the same with a packet the GPR
core refuses; `Play` and `GiveBack` the DSP and the write-done callback; `Elapsed` and `Status` ALSA's
two occasions to ask `q6apm_dai_pointer`. ALSA's arithmetic around the pointer (`Reported`,
`Refresh`) is external and modelled without its jiffies test and without the wrap at the
boundary. Prepare neither resets the callback's pointer nor, after a drop from PREPARED,
`queue_ptr`; `clean` is the history that says a life found none of that and no packet was refused.

`CaptureRing` is the same ring in the other direction: prepare queues every buffer, each one that
comes back is queued again if `prtd->state` says RUNNING. A capture records from prepare on and
through a pause, since the trigger of a push graph ignores pause; whole laps can vanish unseen
(`blind`, `first`), and a buffer that comes back before prepare has set the state is never queued
again (`missed`). A drained capture is left out.

`PullRing` is the protected stream's ring: the DSP reads it by itself and tells where it is in a page
of shared memory, which `q6apm_get_pull_hw_pointer` reads in three steps (`Look`) against the DSP's
two stores in either order. ALSA begins at frame 0 at every prepare, the DSP goes on where it is
(`origin`). ALSA looks at the pointer at least once a round while the stream runs: the watermarks
at each half see to that.

`ComprStream` is compressed playback: `Begin`, `Kicked` and `Count` are `q6apm_compr_copy`,
`HandOver` is `q6apm_write_async`, `WriteDone` and `EosDone` the two
callbacks; triggers, `Drain`, `NextTrack` and `Stop` with what the compress core does around them.
Start and release each hand over a fragment that no counter notes, so `fed` records when
the decoder was given something stale; `vain` when a drain began with nothing to wait for, or with a driver that
counts the stream stopped (`active`).

`DaiStreams` joins the four: a stream's kind is fixed when it is opened.

### ControlPage

Writers hold a file lock, so one writer stands for all. A request is a list of stores done in
program order (`Store`), which a death can cut short (`Dies`); the engine's copy reads the
words of the page in any order between two samples of the generations (`Copy`, `Resample`),
retries, applies and acknowledges. `Test`, `Seed`, `Publish` are the engine's cold start. The
adjacent loads of one sample of the generations are one step. The legacy page layout, its
detection and the `Profile` port are not modelled: the production services set the layout.

### VolumeDaemon

The daemon is sequential; `d.pc` names the next helper process (`wpctl`, `tlv_write`,
`amixer`), and each run of one is a step, between which the user, PipeWire and the PCM go on.
Volumes are a few levels and `Full`, which is unity. Assumed, and why:

- a production kernel with the three mixer controls; `--once`, bootstrap retries and kernels
  without them are left out;
- a helper that raises an exception ends the daemon: `Terminate`. The other failures are those
  of `Faults`, the return codes of the kernel's writes. A replaced node is looked up first (`found`) and
  restored by two runs of `wpctl`, before or between which it may be replaced again: `wpctl` then fails, which nothing
  catches (`RestoreFails`), and the daemon exits;
- the one-second guard after a restart outlasts the events queued before it;
- `pw-dump` merges consecutive events and prints only real changes; the hardware sink's state
  is announced after the PCM has changed state;
- WirePlumber's restoring of a node's properties is a `User` step, and has happened before the
  daemon boots;
- the GainStep table is coarser than the volumes: `StepOf(v) == (v + 1) \div 2`;
- `lapse` is history, read by no action: that a PCM reopened before the daemon saw it closed, or that the daemon was
  ended with the sink at unity and its transaction unrecorded, since `HostMute` last gave the volume to the sink.
  `volume_faults` lets both happen; `volume_restart`, whose `VolumeIsUsers` is false after a reopening, takes
  `QuickReopen = FALSE`.

### Protection

The render stream as its three back ends and the front end see it. `BePrepare` is
`x1e80100_snd_prepare` with the port's own prepare; `FePrepare` is `q6apm_dai_prepare`, which either
arms a graph again or queues in `todo` the commands still to send: `PullSetup`, then what `Configure`
(`audioreach_configure_protection`) decides, then the start. `Send` is one command with any outcome;
the first that fails ends the prepare, as the `goto out` do. `Close`, `Open` and `CtlPut` decide
whether the next stream meets a new graph or the old one. `dsp` is what the DSP's modules were told.

Abstracted: DPCM prepares the back ends in any order and skips one that is prepared already; the
topology's profile is good or broken as a whole (`Broken`); whether the DSP creates the protection
modules enabled is left open; the calibration sent when the graph is opened is in `ApmGraph`. The
comment in `q6apm_dai_prepare` says that the DSP refuses a second pull ring, and the model takes it
at its word: a prepare that failed after the ring was accepted fails until the stream is closed.

### Topology, SpeakerCard

A topology file is a record: where each module goes, its ids, class and calibration stages, each
mixer's graph. `LoadModule` is a widget's call-backs in order, each creating what is not there yet; a
`flaw` makes one of them fail, after which the core unloads that widget and then the others in any
order (`UnloadWidget`), and the load is tried again, perhaps with another file, over what is left. `tree`
is the driver's id tables. `Switch` and `Gains` are the two kinds of control. Assumed of a file:
every sub graph names its graph, ids are not zero, every widget brings its three arrays.

`SpeakerCard` plays the protected stream over that life: the stream's `profile` is what
`audioreach_protection_profile` finds in the loaded tables, the stream needs its mixer switch on, and
a card with an open PCM is not unbound.

### SoundWire

Every function of `stream.c` holds `bus_lock` from first line to last and is one step; `call` walks
one back end's call (`snd_startup`, `snd_hw_params`, `snd_prepare`, `snd_hw_free`, `snd_shutdown`)
through them, since DPCM runs one call of the card at a time. A broadcast names the bank it switches to.
The writes of an operation are a list of batches, one for each stream of the bus; a write that fails
leaves the batches before it and the first writes of its own (`Partly`). Any slave write may fail, any
broadcast be lost, any allocation fail, `MaxFaults` times. What follows from the code and is part of
the model: a lost broadcast is `-ENODATA`, taken for success, so software's bank and hardware's differ
until the next one that arrives; a failed enable leaves channels enabled in the spare bank; a failed
disable leaves ports on and is ignored by its caller; a failed deprepare has given the bandwidth
back; `hw_params` that fails at the second amplifier leaves a master runtime on the bus's list.

### SdwRuntimes

What a stream of the bus is made of: master runtime, slave runtimes and ports, which `hw_params` allocates
going over the amplifiers in order and then the master (`sdw_stream_add_slave`, `qcom_swrm_hw_params`,
each refused or out of memory at any allocation). `SetPort` is a mixer switch, which moves under no lock
that `hw_params` takes, and `hw_params` may come again and then finds its runtimes: their ports are filled
in anew, from a selection that may have another length. `RollBack` is what ALSA takes back, `taken` the
master's `port_mask`. The check of the rate and the bulk transport are left out: no stream of this machine
fails the one or uses the other. `SoundWire` takes runtimes as given; the two meet in `hw_params` and
`hw_free` alone, and `MCSpeakerBus` runs one or the other. `RuntimesAssumption` says of `PortMap` what the board's
`qcom,port-mapping` has (`x1-microsoft-denali.dtsi`: 1, 2, 3, 7, 10, 13 and 4, 5, 6, 7, 11, 13): two amplifiers share
a port of the master for the same kind of port only, and only one that no mixer switch moves.

### WsaMacro, SwrMaster, SpeakerBus

`WsaMacro`: `rm` has registers, their cache, its mode and whether the clock runs. `MclkOn` and
`MclkOff` are `wsa_macro_mclk_enable`; `PathsUp`, `PathsDown`, `ViOn`, `ViOff` the DAPM events of the paths
that change together, stage by stage in the order DAPM sends them; `Control` the mixer controls; `HclkGet`, `HclkPut` the clock it provides;
`Suspend_CacheOnly`, `Suspend_Clocks` (two halves: the cache is switched before the clocks stop) and
`Resumed` its runtime PM.

`SwrMaster`: the master's runtime suspend stops the bus clock and gives the macro's clock back;
its resume takes it again; the interrupt thread takes it for itself, samples, handles and clears. The
hardware latches one bit for all changes. A clock may be refused at any time, and the bus may not stop.
A failed stop leaves runtime PM in error and the speakers cannot be opened again; `dead` is that
history, and that of a resume whose clock was refused, which the driver does not notice.

`SpeakerBus` drives both from the back ends' calls. A behaviour is disturbed by faults of the bus, by
control writes, or by amplifiers coming and going (`BusInit`); any may meet a refused clock. DAPM
hears of a stream after it is prepared and after it is closed (`Waits`, `Turn`), which the autosuspend
delay of three seconds outlasts. The link changes while the back ends are closed: what the
SoundWire core does to a running stream when a device leaves is not this driver's. The user's
Digital Mute is the bit that a path's start clears, so a mute ends when a path starts.

### Wsa884x

`job[t]` is the program thread `t` has still to run, one register access, lock or sleep per step;
the programs are those of the power events and mutes (`PostPmu`, `PrePmd`), of the health worker and
its recovery (`Look`, `Attempt`, `Retry`), of a reading of the temperature, of runtime PM and of the
bus's reports (`update_status_attached`, `update_status_unattached`). `chip` and `cache` are the registers; a write reaches the cache first
and is lost if it fails or the cache is "only"; a volatile write in that mode is an error. The chip
keeps its registers while the link is gone. `sp_lock` is held where the driver holds it;
`wsa884x_update_status` does not take it.

### UbigEngine and its pieces

UbiG's signal path is one thread. What can go wrong in it is not an interleaving but a value of the
wrong block: the pieces turn phases, cursors and flags at their own rates and overwrite in place.
Values are therefore what they were computed from (a frame its number, a sum its terms, a row the
blocks it has something of), and where arithmetic itself is the question it is exact.

- `UbigChain`: `core` are the words a profile asks for and their dirty flags, `live` the words the core
  runs with. `Switch`, `Requested` and `ApplyProfile` follow the plugin field by field; `Follow` is
  what the next block copies. `StreamTurn` and `AdapterTurn` are the two blocks in a row, around
  which the host cuts its runs anywhere; a failure of Stage A makes it be built again.
- `StageA`: `FilterBlock` is analysis, gains and synthesis of one block, the delayed bands and the five
  phases included; `LimitFrame` the limiter's predictor, envelope and ramp. The predictor's weights are
  those of `stage_a_limiter.c`: the newest peak weighs nothing, all together one.
- `StageBAnalysis`: `Update` advances eight histories, `LowerA`, `LowerB` and `FeaturesDue` the two halves
  of a summary, `Decide` the decision that follows. The start the plugin's parameters give decides how
  the two counters stand to each other; for an aligned start every decision is of summaries of one
  update. A start of zero, which the unit test uses, is not aligned; what the deployed pack holds is
  private. The first decision is taken on features that are still zero.
- `StageBWindows`: four running sums are corrected by what comes and goes and replaced once a round by
  one that was only added to; a fifth is summed anew. `Scratch` is the order in which the steps of the
  enhancer use the rows of its scratch. A sum is not reset when the enhancer is enabled again.
- `StageBLeveler`: `Heard` is a block's flow of sound through thirteen stages, `oldest` the oldest block a
  row of one may still hold. An event resets nine of them and the histogram; the writer's primary
  record, the lookup's feedback and answer, and the producer's count and mode are left alone, as
  `stage_b_leveler.h:31` says of the record (`Lasting`). What a row is only weighed by is not counted as held, nor
  is the curve's bias, one number of the primary record that three stages add in every block: through
  it the sound from before an event does reach them. The rows a drop is seen by are two blocks', a free choice.
- `StageBLate`: `DeepCall`, `Synthesise` and `LateBlock` are one block; levels are logarithms.
- `Transforms`: each pass of each transform over residues modulo `Prime`, where a 320th root of unity,
  its cosines and sines exist; `TransformsAreDft` compares every bin with the definition.

What one sees in the code on the way: a Stage A failure is heard as silence for the chunk, and
after the rebuild up to one block from before it is played; an error of the whole process passes the
input through until the next activation; a port moved to nothing and back to the same profile is not
noticed by a profile set over the page meanwhile. Stage A's regulator and lowband code and
`stage_a_fft320.c` are used by tests alone; the last is in `Transforms` all the same.
## 4. Runs

| Run | Instance | Distinct states | Question |
|---|---|---|---|
| `graph_pull` | pull graph, two mixer controls, fair | 69k | counting, use after free, leaks, balanced starts, `SharedGraph`; calls end and the graph is given back |
| `graph_push` | two graph ids, two addresses | 4.5k | leaks and starts of a stream with two graphs |
| `dsp_calls` | two senders, two opcodes, two commands, two completions, slow DSP; three pauses, one watermark; three buffers, two lives of the PCM; graphs of three modules, every kind of parameter | 236k | what results mean; host and DSP agree on a pause; no buffer is freed while mapped; packets hold what is read from them; everybody gets on |
| `streams` | rings of three periods, nearly three laps, two prepares; two readings of the page; eight units in three fragments | 1.2M | what is heard, read and decoded is the stream in order; the pointer; drains end |
| `protection` | four modules, five files, nine flaws, one stream, any failure | 198k | whole or bypassed; order of the enables; the description is the file's; gains |
| `soundwire` | two streams, two amplifiers, two faults or puts or changes; or the runtimes of two streams, one failed allocation, one switch moved, one orphan | 1.27M | ports follow streams; nothing is used without clock; registers are what was set; runtimes have each amplifier's ports once |
| `ubig_engine` | seven pieces, one at a time; histories of six rows for 32, blocks of two or four frames | 131k | profiles are applied whole; the delay is fixed; windows, histories, scratch rows and events belong to what uses them; limits hold; transforms are the DFT |
| `amplifier` | two retries, one failure, two mishaps | 1.3M | cache and chip; stopped is off; no circle of waits |
| `control_safe` | two bands, two values, two requests, one postgain, dying writers | 840k | the newest request is whole |
| `control_restart` | one request of each kind, two engines, every failure | 189k | nothing goes back; acknowledged in the end |
| `volume_faults` | two levels, three failing calls, reopenings, terminations | 5.6M | full volume only after a lapse; quiet on failure, mute holds |
| `volume_restart` | two levels, three nodes, protected or not, terminations | 2.5M | volume is the user's; it comes to rest |

Why the bounds are enough:

- Graph: a property relates a graph to its holders. A pull graph
  has one id, so at most one is alive (`Named`) and one address, used again, is enough until an open
  meets a dying graph; a push stream has two. Two controls are two concurrent borrowers, who can hand the
  graph to each other. There is no symmetry, which is not sound for liveness. The theorems remove the
  bound for the safety properties. `StopBound` lets a push graph's `start_count` fall to -2, from where
  further stops repeat.
- Channel: each property relates a command to one earlier one, or to one completion between;
  the second of each makes the overlap of two callbacks possible.
- Maps: two opens of the graph and two lives of the PCM make a late answer meet a second life; one
  late answer at most.
- Packets: two containers (plain and extended, in one sub graph or two) and three modules put each
  section's cursor past another's objects. A transaction is any three or four parameters.
- Engine: the histories keep the relation of the code's sizes (an update before the summary, a step
  that does and does not divide the depth; `Steps` holds all three cases), and run for five rounds.
  The transforms have their real lengths, and one sample at a time is enough since they are linear.
- Pause: three commands are a pause, its undo and a stop, the longest chain ALSA makes by itself.
- Streams: with three periods of two frames, writes end inside, at and across a period; 17 frames
  are nearly three laps of the ring of six. `Followed` keeps TLC out of lives that are not
  clean, of which no property speaks. `Wrap` (four) is smaller than the counter's 2^32, so that
  the page's counter comes round while it is read. The driver asks for four fragments at least;
  three are enough for one with the DSP, one to hand over and one being written. Eight units are
  a partial fragment after a whole lap.
- SoundWire: two faults are one and the failure of what undoes it; two streams are one that
  moves the other's bank. Three streams with one fault, without master and macro, passed too. Runtimes: two
  streams (three ports, one port) contend for the master's ports, the amplifiers share one; one failure and
  one moved switch are what one call and its repetition can meet.
- Amplifier: two retries are one and the last; one failure is the limit; two mishaps are an error
  and a detachment, or either twice.
- Protection: the stream's life is not bounded. Four modules in three containers and two
  sub graphs of one graph share at every level; the five files are a sound one and those with a
  stage missing, twice, laid out otherwise, or an id used twice. Loads may be repeated for ever.
- Page: the mixtures arise from one request over another; retries are cut from eight to one, after
  which a snapshot gives up as it does after eight.
- Daemon: two levels are the least that tell a stale volume from a fresh one; two nodes make one
  replacement, and three, in `volume_restart`, a node that is found and replaced again while it is being
  restored; one event in the queue is one the daemon has not seen, and its own echoes are not
  counted.

Fairness, where liveness is claimed:

- A call in progress goes on and its timers expire (`wait_event_timeout`, five seconds;
  `SP11_SOFT_PAUSE_TIMEOUT_MS`, 50 ms): weak fairness of the caller's steps and of the timers.
- The receive worker runs while packets are queued: weak fairness. Where it takes a mutex others
  take again and again it needs strong fairness (`LookUp`, `Elapse`): the kernel's mutexes hand
  over to a waiter.
- The DSP is fair only in an instance without faults or delays; the liveness runs of `CmdSync` and
  `SoftPause` do not assume it.
- The engine's blocks come while a stream plays; a writer that holds the lock goes on.
- The daemon's steps, its start (`Restart=on-failure` in its unit) and the announcement of PCM states.
- No fairness for users, applications or the PCM.

### Stated and false

The modules also state the properties one would like and the code does not have. No run
checks them; to see the counterexample, put the property alone in a configuration with the
constants given.

| Property | Constants | What happens |
|---|---|---|
| `ApmGraph!OnlyStopStarted` | `Pull = FALSE`, two ids, `Ctl = {}` | prepare's error paths leave `prtd->state` set (`Q/q6apm-dai.c:294`); the next prepare or the close stops a graph that is not started, though line 586 says "only stop graph that is started" |
| `ApmGraph!PreparedIsStarted` | `Pull = FALSE`, two ids, `Ctl = {}` | after `start_count` fell to -1 the next prepare counts it to 0 and sends no GRAPH_START |
| `ApmGraph!RingSentOnce` | as `graph_pull` | a prepare that fails after the ring was accepted sends it again |
| `CmdSync!ZeroMeansDone` | `Slow`, `Data = FALSE`, `Silent = {}`, `MaxCmd = 2` | the waiter sees the opcode before the status is stored (`Q/q6apm.c:1336`) |
| `CmdSync!ZeroIsAnswered` | `Slow = TRUE` | a late answer is taken for that of a later command with the same opcode (`Q/audioreach.c:695`) |
| `SoftPause!WatermarkNeverBlocks` | `Faulty = FALSE`, `MaxCmd = 4` | the worker tests the state before the trigger changes it (`Q/q6apm-dai.c:177`); it then waits out a timeout |
| `SoftPause!StopCleansUp` | the same | stopping after a pause that failed with the DSP paused |
| `SharedMaps!MapsAlwaysFollow` | as `dsp_calls` | a map answered after its sender gave up leaves the DSP with a freed buffer (`Q/q6apm.c:194`) |
| `Packets!GraphIsRead` | as `dsp_calls`, a module without outputs and with a control link added to `Forms` | the link is counted and not copied (`Q/audioreach.c:489`); the deployed topologies have none |
| `Packets!FormatsFit` | as `dsp_calls` | the packet is sized for PCM: an Opus format's 40 bytes do not fit the 32 of `Q/audioreach.c:1781`; and a PCM head announces a frame more than follows it (1802) |
| `PcmRing!FreshPointer` | `Refuses = FALSE`, `MaxLives = 2` | the callback's pointer outlives prepare: a new life starts at the old position |
| `PcmRing!DrainIsPrompt`, `UnderrunIsReported` | `Refuses = FALSE`, `MaxLives = 1` | the pointer stays one frame short of the last period: a drain ends by ALSA's timer, an underrun is not reported |
| `PcmRing!NextIsQueued` | `N = 2` | with two periods the second is handed over only after the first is given back, less one frame |
| `ControlPage!NeverTwoRequests` | `MaxReq = 2`, `MaxPg = 0`, `MaxStarts = 1`, `MaxRetry = 2`, no faults | a copy between a store and the generation mixes two curves (`ubig/control_page.c:97`) |
| `ControlPage!StartKeepsQueued` | `MaxReq = 1`, `MaxStarts = 1` | the cold start's store of the profile crosses a writer's |
| `ControlPage!AppliedIsTrue` | `MaxReq = 1`, `MaxStarts = 2` | the page outlives the engine that acknowledged |
| `ControlPage!AppliedNeedsEngine` | `Crashes = TRUE`, `MaxReq = 1` | the live flag outlives a crash |
| `VolumeDaemon!UnmuteIsHeard` | `Targets = {TRUE}`, `Levels = 1`, `MaxNodes = 1`, `MaxEvents = 1`, no faults | a mute of the idle sink stays when a graph is taken over (`V:589`), and the unmute then clears only the DSP's |
| `VolumeDaemon!ExitIsQuiet` | `Exits = TRUE`, `Levels = 1`, `MaxNodes = 1` | a termination before the transaction is recorded leaves the sink at unity |
| `VolumeDaemon!FallbackIsThisGraphs` | `Levels = 1`, no faults | the fallback taken for one graph is kept for the next |
| `VolumeDaemon!Attenuated` | as `volume_faults` | a graph that is closed and opened between two looks plays at full volume until the next gesture; so does one opened after a termination in a take-over |
| `Protection!EnabledIsFed` | as `protection` | protection is decided at a graph's first prepare: a stream stopped, and prepared again while its feedback fails, starts with the protection still enabled |
| `Topology!GainIsAlwaysHeard` | as `protection` | the power event sends a gain it read before a put that has sent its own |
| `Topology!OnIsConnected` | as `protection` | turning one of two switches off unmakes the other's connection |
| `Topology!UnloadIsClean` | as `protection`, with the flaw `"info"` | a graph that could not be allocated leaves its sub graph behind |
| `SoundWire!SameBank` | as `soundwire` | a lost broadcast is taken for success (`K/drivers/soundwire/stream.c:867`) until the next one arrives |
| `SoundWire!BandwidthIsUsed` | as `soundwire` | a deprepare that fails has already given its bandwidth back |
| `SdwRuntimes!NothingIsOrphaned` | as `soundwire` | a stream whose `hw_params` failed at its second amplifier is freed with its master runtime on the bus's list (`sdw.h`: "number of streams currently using this bus") |
| `SdwRuntimes!MastersAreCounted` | as `soundwire` | a master whose ports could not be allocated was never counted, and is counted out (`sdw.h`: "Count of Master runtime(s) in this stream") |
| `SdwRuntimes!NothingIsResized` | as `soundwire` | parameters set again after a switch was moved fill the old ports |
| `WsaMacro!MaskIsMux` | as `soundwire` | a multiplexer moved from one DAI to the other leaves the first's mask |
| `WsaMacro!UsesAreUsers`, `SensedAreOn` | as `soundwire` | a compander, soft clip or VI switch changed while its path is powered is undone by what it is now |
| `WsaMacro!AttenuatedWhilePlaying` | as `soundwire` | the end of one path takes the VBAT block the other uses |
| `SwrMaster!NothingIsMissed` | as `soundwire` | a change of status between the last look and the clearing of the bit is lost |
| `Wsa884x!AwayIsCacheOnly` | as `amplifier` | a runtime resume turns the cache's mode off while the chip is away (the comment at `wsa884x.c:2013`) |
| `Wsa884x!InitIsWhole` | as `amplifier` | the cold transaction's writes are not checked, and it is not repeated |
| `Wsa884x!StoppedIsOff` | as `amplifier` | the health worker recovers, after the stop, from an error latched at it |
| `CaptureRing!OverrunIsReported` | as `streams` | ALSA reports an overrun when it next looks; the frames in between are those of a later lap |
| `CaptureRing!AllBuffersRecord` | as `streams` | a buffer that comes back before prepare has set the state is not queued again |
| `PullRing!StartIsHeard` | as `streams` | a second prepare starts ALSA at frame 0 and the DSP where it was |
| `ComprStream!DrainIsClean` | as `streams` | start and release hand over a fragment no counter notes; the drain plays it once more |
| `ComprStream!EveryDrainEnds` | as `streams` | a drain that begins with nothing unsent hands nothing over and waits for ever; so does one after two end-of-streams, of a stopped drain and of the next, the second of which made the driver count the stream stopped |
| `ComprStream!StarvingIsKicked` | as `streams` | a DSP with nothing left is not always given the next fragment (`Q/q6apm-dai.c:1067`) |

## 5. What is proved

Each theorem holds for every value of the constants that the module's assumption allows (`GraphAssumption`,
`ChannelAssumption`, `SoftPauseAssumption`, `MapsAssumption`, `RingAssumption`, `PullAssumption`, `ComprAssumption`,
`TopologyAssumption`, `ControlAssumption`, `VolumeAssumption`, `ConstantsAssumption`, `MacroAssumption`,
`MasterAssumption`, `RuntimesAssumption`; each is evaluated by a run) and under the further
hypotheses named below, if any. Bounds such as `MaxCmd` or `MaxFaults` are any natural numbers. Invariants were
checked by TLC on the instances of section 4 before they were proved.

### ApmGraphProofs

For any sets of addresses and mixer controls and any two graph ids:

- `CountCorrect` (`CountIsUsers`): the reference count is the number of holders;
- `NoUseAfterFree` (`UsersHaveLiveGraph`); `PushNeverRaces`: an ordinary stream never takes a reference on a
  dying graph;
- `BooksBalanceCorrect` (`BooksBalance`): nothing leaks; the starts are at most what the users owe, and a pull
  graph's exactly that;
- `SharedGraphImplemented` (`ImplementsSharedGraph`), for `Pull`, the only kind with one id: the initial states
  are `SharedGraph`'s, and each action is one of its steps or a stutter.

`CountIsUsers` is not inductive: a `Put` that drops the last reference must find no other thread in the middle of
an open of the same graph. `IInv` therefore has, beyond types, `OneCall` (which stages of which call can be
current, from DPCM's serialisation), `Pointers` (which stages have a graph in hand) and, up to a race, `Sound`:
the table names each live graph once, a holder's graph is live and is that one, whoever opens or releases a
graph is alone with it, the count is the holders. `raced => Pull` says that only a mixer control, or an open that
meets one, can race. `BooksInv` adds which stage of the calls owes the graph a stop (`StreamBooks`, `Balanced`)
and what the DSP may hold of it (`Stages`, `FoundStays`). Settled steps that move one thread are one lemma
(`SoundWalk`), each step that changes table, memory or count has its own; `Recount` is the lemma on
cardinalities.

### DspCallsProofs

- Of the channel, `AnswersRealCorrect` (`AnswersAreReal`, an action property). `CmdInv`: one command is pending, that of the
  mutex's holder (`Exclusive`); a queued packet is a completion or one command's answer, once (`Queued`); what is
  in the slot came from where the waiter thinks or from a twin that timed out (`Sourced`); an opcode stays until
  the caller has looked (`Kept`); an error was stored in full (`Real`).
- Of the maps, `MapsFollowCorrect` (`MapsFollowBuffers`). `MapsInv` has fresh handles, each naming one mapping (`Base`); and
  until an answer is late, that one command is under way (`OneAtATime`), that the DSP plays from what is on
  record (`Configured`), and for each region what the DSP has mapped and what the driver knows of it at each step
  of its life (`RegionKept`).
- Of the pause, `PauseIsAgreedCorrect` (`PauseIsAgreed`). `PauseInv`: which ALSA state a trigger runs in and what it has done
  so far (`Host`), and, until an answer is late, that the command waited for is the only one under way, is answered
  once and is what changes the DSP (`Followed`).
- `CallsAnswersCorrect`, `CallsMapsCorrect` and `CallsPauseCorrect` say the same of `DspCalls`, which the run
  checks: each of its steps is a step of the part or leaves the part alone (`PartsGoOn`).

### DaiStreamsProofs

For rings of any number of periods and periods of any number of frames, both at least 2 (the driver's minima are
2 periods and 32 bytes to the period), any number of fragments of any length, and a stream of any of the four kinds:
`StreamsCorrect` (`StreamsAreWhole`), `PointerCorrect` (`PointerIsTheDevices`, an action property) and
`DrainEndsCorrect` (`DrainEnds`). `StreamsInv` has one part for each kind, under the history that names what the
property excepts (`clean`, `blind`, `fed`, `vain`):

- playback: buffers go round in turn, the callback's after the DSP's (`InTurn`), every whole period written has been
  handed over and the application is less than a ring ahead of what came back (`Written`). That the pointer is
  right follows only with both;
- capture: the last round is on the tape (`Taped`), every buffer is with the DSP, on its way or the callback's
  (`AllAround`), and ALSA's pointer is at most a period behind the callback's unless it has not looked (`Looked`);
- pull: ALSA's frames are the DSP's up to whole rings, and an index that was read is of a moment since the last look
  (`Seen`), because a look is repeated when the counter moved;
- compressed: the decoder has the next fragments after those heard (`InLine`), what came back is counted
  (`Returned`, `Counted`), and a drain that is not in vain has its end-of-stream on the way or a fragment that will come
  back and send what is left (`Comes`).

Arithmetic of rings is in lemmas of its own (`SamePlace`: two numbers less than a round apart at the same place
are the same; `PlaceIs`, `PeriodIs`).

The proof found `DrainEnds` false as it was first stated, in a history longer than the bound of the run allowed: a
drain is stopped, the next one sends a second end-of-stream, and whichever comes when nobody drains makes the
driver count the stream stopped (`q6apm-dai.c`, `event_handler_compr`); nothing sets it running again, and a later
drain waits for ever. `vain` now names that history.

### SpeakerCardProofs

For any topology files, modules, stages and gains, and whichever command fails: `ProtectedCorrect`
(`ProtectedOrBypassed`), `EnabledWholeCorrect` (`EnabledWhole`, an action property), `FollowsFileCorrect` (`FollowsFile`, from
`TreeCorrect` and `ConfiguredCorrect`) and `GainCorrect` (`GainIsHeard`).

- `CardInv`: a prepare in progress is at a place of one of two scripts, the protection's or the bypass's (`Where`), and
  every command before that place has been done (`Half`); a graph that has not taken the ring has taken
  nothing (`RingFirst`).
- `TopInv`: the modules entered are the widgets made, each with its stages, the tree has exactly the containers, sub
  graphs and graphs these lie in, and after a load that came to its end nothing in it is empty (`Tree`, `Full`).
- `FileInv`: a profile in use was accepted from a file that has each stage once (`FromFile`).

`TreeCorrect` and `ConfiguredCorrect` are under `SoundFiles`: no allocation of a graph's or a mixer's record fails,
every widget has an id, and every sub graph names its graph. The run's files and flaws satisfy it, and without it
the loaders and the teardown follow a null pointer (`UnloadIsClean` with the flaw `"info"` in "Stated and false").

### UbigProofs

Of `ControlPage`, `NewestWholeCorrect` (`NewestIsWhole`) and `NothingGoesBackCorrect` (`NothingGoesBack`), for any bands, values and
retries, whoever dies or crashes. `IInv` (in `ControlPage`) has what a writer has still to store (`InOrder`,
`Stored`), and that page, copy and engine hold what was asked for wherever their generation is the newest
(`PageIsWanted`, `CopyIsWanted`, `EngineIsWanted`).

Of `UbigEngine`, each property of a piece for any lengths, depths, periods and levels (`EngineRuns`: a step of the
engine is one of a piece or leaves that alone):

- `EventCorrect` (`EventForgets`), by `LevelerInv`: no row of a stage outside `Lasting` and no entry of the histogram's
  ring is older than the event, the entries are distinct, and the bins are those of the ring. `HeardIs` follows a
  block through the stages: with an event all that is read was copied or reset in this block, and without
  one nothing read is older than the event. Nothing is claimed of `Lasting`, nor of the bias.
- `FramesCorrect` (`FramesAreWhole`), by `FilterInv`: between blocks the present phase holds the last window's bands
  and gains, the edge is the end of the frames so far, and the overlap has the parts still to be added to.
- `LimitCorrect` (`NeverOverLimit`), for both limiters. `LimiterInv`, of Stage A's: every group's peak covers what the
  delay line has of it (`PeaksCover`), each entry of the predictor covers the peaks of its own group and of all
  before it (`PredictorCovers`), and the gain the ramp comes from and the one it goes to are both low enough for what
  is left of the group coming out, the second for all of the next (`GainsCover`). `LateInv`, of Stage B's: the
  reduction held is enough for the block held back (`HeldIsCovered`), both ends of one played were enough for it
  (`PlayedIsCovered`), the deep controller's bounds stay apart (`BoundsAreApart`), and each coefficient has gathered the
  terms of its step (`TapsGather`).
- `AppliedCorrect` (`AppliedWhole`), by `ChainInv`: the core was asked for the profile in force and its equalizer, and
  what is not marked dirty it already runs with (`Follows`), at every end of a call, failed ones included.
- `HistoriesCorrect` (`HistoriesAreWhole`), by `AnalysisInv` and `DialogInv`. Each ring holds the last rows, told by its
  cursor alone (`HistoryHolds`, `RingHolds`; `HeldIs`: so it is the window). `AnalysisInv` finds the calls since the last
  update and the updates since the last summary in every counter (`ClockHolds`), every cursor and phase that many
  places apart (`PhasesHold`), the zeroed row just where the next one goes (`RowsHold`), a sum that is due short of
  just that row (`SumsHold`), and the first half of a summary still standing when the second is made (`HalfHolds`).
  `DialogInv` has each window's sum and the one gathered afresh to replace it (`IsWindow`), and the rings behind the
  correlation (`CorrelationHolds`).

### VolumeDaemonProofs

- `KnownCorrect`, without hypotheses: the daemon's setting is the user's, never the unity at which a node is
  born, and the last event it has not read is the present setting.
- `BeliefCorrect` and `FailsSafeCorrect` (`FailsSafe`), without hypotheses: what `run()` remembers of the DSP and of
  the hidden sink is true of them, unless `"reopened"` is among the lapses.
- `NeverFullCorrect` (`NeverFull`), without hypotheses, with `UnityInv`: with no lapse the hidden sink is at unity
  only while the DSP attenuates.
- `VolumeIsUsersCorrect` (`VolumeIsUsers`), under `~QuickReopen` and `Faults = {}`, with `ExactHeld`.

`lapse` is a history variable for the two things the daemon does not provide for, a PCM that reopens before it saw
it closed and an end in the middle of a take-over; in both the code does play at full volume ("Stated and false":
`Attenuated`, `ExitIsQuiet`). The theorems say that nothing else leads there, whatever fails, and that the next
hand-over to the hidden sink (`HostMute`, which empties `lapse`) ends it (`HandedBack`). After a failed write the
volume is safe (`FailsSafe`), not the user's.

### SpeakerBusProofs

For any amplifiers and paths and any numbers of faults, control writes and changes, over every action of bus,
master and macro: `ClockedCorrect` (`Clocked`), `StatusIsSeenCorrect` (`StatusIsSeen`), `MacroIsWholeCorrect`
(`MacroIsWhole`). `BusInv` says which call each back end is in and what it has opened (`Calling`, `Opened`); that
the users of the macro's clocks are the master, the interrupt thread and DAPM (`Users`); that the register map
reaches the chip exactly while the macro is awake (`Mapped`); that DAPM powers what streams and routes ask for
(`Routes`); what the interrupt thread has noted (`Reported`); what chip and cache hold (`Heard`); and that a path
whose switches did not move under it has its stages and its uses of the soft clipper's clock (`Whole`).

`PortsCorrect` (`PortsFollowStreams`) is of the streams, for any number of them: master and macro write no
port register. `PortInv` has where runtimes and ports of a stream that is set up are (`InPlace`), that a
running stream is on the card's note unless its call is under way or has failed (`Noted`), that a stopped
one is on in neither bank (`QuietInBothBanks`), and `Live`: the bank that *software* believes in use is whole
for every enabled stream, whatever hardware uses. That is what makes it inductive: partial writes go to the other bank only, and every
switch is preceded by a full program of that bank, which sets every register of every stream whatever a failed operation
left there (`ProgramWrites`, from `AfterWrites`, the lemma on what a list of writes leaves; `OperationSafe`).

`RuntimesAreWholeCorrect` (`RuntimesAreWhole`) is of `SdwRuntimes`, for any streams, amplifiers in any order and any
port map that `RuntimesAssumption` allows. `RtInv` finds each stream with a number of amplifiers done (`Streamed`): that
of `hw_params`' progress or all of them, at most one master runtime, with just these amplifiers in their order
(`Amped`), each with ports it had selected (`Chosen`). The property alone is not inductive where parameters are set
again: the master's list is then filled in from an array made anew, and is whole only because as many different ports
are wanted as before (`NumbersSame`), although the playback switches may have exchanged them. That holds
because no two amplifiers share a port that a switch moves, which is where the assumption on `PortMap` is needed.
What folds over the lists compute is in `MasterPortsAre`, `SelectedIs` and `RemovesAll`, each from `FoldExists`: the
library's fold is the value of a function that exists, and is followed element by element (`GoesUp`).

### Wsa884xProofs

For any retries, failures and mishaps, and any interleaving of the threads: `CacheIsChipCorrect` (`CacheIsChip`),
`OnlyDrivenCorrect` (`OnlyDriven`), `NoDeadlockCorrect` (`NoDeadlock`). `WsaInv`: each thread is at a place of
one of its programs, written out (`Placed`); `sp_lock` is held from a program's lock to its unlock and `pa_on` is
what the phase says (`Locked`); a PA outside a running stream is quiet (`Quiet`); `CacheHeld` is about the
registers.

### What stays with TLC

- Liveness and `ENABLED`: `CallsEnd`, `EveryCallEnds`, `RequestsAreAcked`, `ComesToRest`.
- `BinsAreDft` is arithmetic in a field of residues at fixed lengths: the run computes it, and a proof would have
  to find the same sums symbolically.
- What folds over data compute, for which the provers have no induction: `PacketsAreRead` (a packet's blocks laid
  end to end and walked again) and `DelayIsFixed` (the frames of a run passed through two adapters one at a time).

The modules declare no recursive operators.
## 6. What is not modelled

- Signal processing as numbers: filters, compressor curves, loudness, rounding. Of UbiG's parts the
  models have what is computed from what; the compressor and the regulator of Stage A, the rank and
  slope statistics of Stage B and the generic helpers have no state worth a model.
- Values within parameters but for the formats' counts, calibration payloads, the SMECNS_V2 block; register values and tables
  of the codec, macro and bus master.
- Of the WSA macro: mixing inputs, echo reference, sidetone. Of the bus master: device-tree parsing,
  the wake interrupt (not wired on this machine), FIFO errors, debug files. Of the rings: a drained
  capture, compressed capture. Of the page: its legacy layout and its detection.
- Device trees, build files, scripts run by hand, capture tools; wireless and other drivers of the
  kernel overlay; the Dolby deployment, which is the daemon under another name.
- The other volume services: the dispatcher replaces itself, in one step, by the transaction daemon where the
  kernel has the control, as the production kernel does, and by the generation 1 service where it has not;
  the MSIIR service is never started. Either is one loop that applies a state when it differs from the last,
  and never runs beside the daemon. What the daemon calls of the two is in `VolumeDaemon`.
- The monitor link service: one loop that makes the links that are missing.

Kernel memory ordering is modelled only where a data race decides the outcome (the result slot,
the control page); there, stores are seen in program order; the copy of the page reads
its words in any order.

The mapped kernel lines are those of `repro/golden-v32/source-overlay`. The build adds patches 0069
to 0071, which touch the codec and SoundWire drivers and leave `snd-q6apm` unchanged
(`repro/golden-v32/README.md`); later patches of `patches/` are not part of the model.
