# A verification of the UA-4FX driver in TLA+

The driver is a user-space CoreAudio plug-in that streams isochronous USB audio
(`src/driver/`), with a MIDI daemon beside it (`src/midi/`).  This directory
models its concurrent core, checks it with TLC on small instances and proves
the safety of most of it with TLAPS for every value of the constants.  Line
numbers are those of `src/driver/UA4FX_USB.c` unless another file is named.

## The system

| component | state | operations | hard because | module |
|---|---|---|---|---|
| capture stream | transfers (`xf`: frame list, `ready`, `inFlight`, `done`), `nextFrame`, `nextHarvestFrame`, input ring | submit, resync, refill, harvest, completion callback | two threads harvest; the host controller writes shared memory under them; transfers are recycled; frames may end without a trace | `Capture` |
| playback stream | transfers with positions, position map, `txSubmitted`, `outAccum`, output ring | late fill, poll, feedback, realign | data are filled in a few milliseconds before the bus takes them; positions jump on resync | `Playback` |
| tick thread | planned wake, frame estimate | one turn per millisecond | late wake-ups, disagreeing estimates | `PlaybackPunctual` |
| device clock | `rxCompleted`, zero timestamp under a sequence counter | `clock_advance`, `zts_publish`, readers | lock-free readers; the origin is fixed after timestamps are out | `Clock` |
| start, stop, hot-plug | `dev`, `present`, `running`, run loop with nested run loops | `job_start`, `job_stop`, `device_attach`, `device_detach` | notifications and jobs run inside each other | `Lifecycle` |
| HAL plug-in | `gStateMutex`, `gDevicePresent`, `gIOCount` | `StartIO`, `StopIO`, `Initialize`, `hotplug` | calls of many host threads against the USB thread | `Lifecycle` |
| configuration, gains | pending geometry, gains, level, storage | property setters, geometry change, load, save, migration | two-phase change through the host, concurrent setters, restarts | `Config` |
| MIDI bridge | interface, running status, SysEx state | encode, send, read, attach, detach, configure | CoreMIDI's thread against the run loop; another process opens the same device | `Midi` |
| pure parts | none | descriptor parsing, rate detection, 24-bit conversion, volume mapping | boundary values | none |

Threads and what they share: host threads call the plug-in, which holds
`gStateMutex` and hands jobs to the USB thread (`engine_sync`) and waits.  The
USB thread owns every IOKit object; its run loop delivers jobs, kernel
notifications and completion callbacks, and it calls the plug-in back on
hot-plug.  The tick thread shares the streams with the USB thread under one lock
per stream.  The HAL's IO thread reads and writes the rings, and reads the zero
timestamp, without locks.  The MIDI daemon is a process of its own, with a run
loop and CoreMIDI's thread; it meets the plug-in only at the device.

What makes each part correct, in one line each: capture loses, repeats and
reorders nothing; playback fills each frame once and before the bus takes it;
timestamps are whole and never run back; the engine runs exactly while clients
are counted and the device is there; a setting that is accepted takes effect, is
saved, and comes back; MIDI bytes arrive in order and input falls silent only
where a named failure ends it.

## Modules

* **Capture** models the capture stream, from the host controller to the ring.
  A frame-list entry is one of four states: pending, audio, error with a stamp, and
  "silent": an error with neither stamp nor data, which looks pending
  (`frame_finished`, 377-383).  Audio is abstracted to the bus frame it came in,
  so that the ring is a sequence of frame numbers.  `lock` is `in.lock`; the
  variables `tick` and `usb` say where the two threads are.  Every turn of the harvest
  loop is an action, and so is every submission of the refill loop, and the bus moves between them.
  Submission errors (`Refused`), too-late submissions with
  their resync and single retry (343-351), aborted transfers, unplug, replug, start, join, abort,
  drain and the release of buffers are all there.  `owed` is a history variable:
  the audio frames the controller delivered and nobody has taken yet.
  The clock and feedback in the tail of the harvest loop are in `Clock` and `Playback`.
* **OrderedDelivery** is what the stream promises a reader: frames get into the
  log one at a time, oldest first, and are only dropped while the stream is down.
  It knows nothing of transfers, threads and locks.  `Capture` implements it
  with `log <- inRing`, `pending <- owed`, `up <- running /\ plugged`.
* **Playback** models the playback stream: transfers queued with silence, their
  planned ring positions (`pos`, `cnt`, `posMap`), the late fill, the poll, the
  feedback's decision to realign and the realign itself, whose two reads of the
  capture counters are two steps (`Realign`, `Place`), as the harvest's two
  updates are (`HarvestCount`, `HarvestMark`).  Audio is its ring position, and
  `buf` holds the positions copied into a buffer, so that what the controller
  fetches (`sent`) can be compared with what was planned.  The controller fetches
  a frame at any moment of it.  `current` is the tick thread's estimate, here any
  number within `ESTIMATE_ERROR` of the bus, and it gets stale while the thread waits.
  A frame may end sent, with a byte count but no stamp (the poll passes it and counts nothing), or silent;
  `Faults` says which submissions may fail whatever their frame, out of resources or as too new (347).
  The fractional rate accumulator is a choice of packet sizes.  The two stores and two loads of a map entry (316,
  420-421) are one step each: `MapIsPlan` compares the entry with the queue, and the feedback only draws a choice from it.
  Stop and unplug run the same functions as for capture and are in `Capture`.
* **PlaybackPunctual** puts the estimate of 507-523 into `Playback`: the cadence of
  one frame per tick, the disagreement counter `driftSign * driftCount`, the jump
  when the reference is far off.  Ticks may come in quick succession after a late
  one, the reference may be off, callbacks may be late; the bus does not finish a
  frame in which the tick thread had no turn.
* **Lifecycle** composes the plug-in (`StartIO`, `StopIO`, `hotplug`,
  `Initialize`; `driver/UA4FX_Driver.c` 143-161, 276-300, 683-707) with the USB thread
  (178-186, 550-835).  `stack` is what the USB thread is inside of: the nested
  run loops of a start that waits for its first frames (651), of the drains in
  `stream_stop` (588) after a failed start, a stop or a detach, and the plug-in's callback.
  Jobs and notifications are dispatched whenever the innermost entry is a run loop.
  `evq` is the kernel's notification queue; each plug-in of the cable is a new
  service, so that stale arrivals exist.  A stream is here only whether it runs.
* **Config** models the settings (`driver/UA4FX_Driver.c` 171-241, 276-337, 609-655 and
  850-859 of the engine): a setter in two steps under `gStateMutex` (the level is
  computed, then stored and the geometry accepted), the copy and the write of
  `save_config` in three steps without it, the request to the host, the host's
  stopping of IO and `PerformDeviceConfigurationChange` or its abort, loading,
  clamping and migration in `Initialize`, and the end of the host's process at any
  moment (`Initialize` may follow any step, the storage survives).  One direction
  stands for both.  Stored numbers are whole and in range of `uint32_t` (the conversion at 225-228 of what a hand-edited
  dictionary may hold besides is left out), and the copy of trim, volume and mute is one read, though the code
  reads them one by one: a setter that comes in between saves a copy of its own later.  `waiting` and `newest` are history variables.
* **Midi** models the daemon (`midi/ua4fx_midid.c`): the encoder byte by byte with
  the real USB-MIDI code indices, each turn of `encode_bytes` an action; `usb_send`
  in two steps, the check of `gIf` and its use; the run loop with the iterator of
  devices, `attach` in two steps, `detach`, and reads with all their results; the
  plug-in as the other opener of the device.  Every call to the kernel may fail on a device that is there: a `WritePipe`
  (62-63: the events are dropped, some may have got out), a submission (37-38) and a read (42, with
  `Aborted` or `NotResponding`, after which none follows, or with an error, after which one does), the
  opening of device and interface (119-122), the pipes (128) and the configuration (147), and those of the plug-in (725-767);
  `givenUp` is the history of what was thereby given up on the device that is there.  Also there is the crash that a write through a
  closed interface is, followed by launchd's restart.  A cable from MIDI OUT to
  MIDI IN makes what is heard comparable with what was said.  A packet is a sequence of
  pieces, each with its bytes, what they say (running status spelled out), and the place of the stream it may follow;
  `MidiAssumption` says which pieces are legal.  `owed` is a history variable: what was sent to the
  attached device and not heard yet; `cut` says that a message was cut, by an attach or a failing write.
* **Clock** models zero timestamps load by load and store by store: the publishing
  thread's pending stores are `prog`, a reader's pending loads `todo`.  With `WEAK`
  a plain store may pass the increment before it (a release) and the plain loads the load after them
  (an acquire), as C11 and arm64 allow; without it the program's order is kept, as
  on x86.  Sample times count periods; a frame's stamp is any of a few host times,
  in any order, which stands for jitter and for the changing rate.
* **MCConfig** and **MCMidi** give the requests, the stored dictionaries and the
  MIDI packets of the runs.
* **CaptureProofs**, **PlaybackProofs**, **PunctualProofs**, **LifecycleProofs**, **ConfigProofs**,
  **ClockProofs** and **MidiProofs** hold the theorems; **Induction** holds one lemma for them, that a set of
  naturals that is not empty has a least element.

Operators named `X_variant` stand beside the `X` of the model.  They are not part of
it: each is `X` with a plausible mistake, used to see that a property would
notice it.

## What the runs check

| run | instance | shows |
|---|---|---|
| `capture_queue` | 2 transfers of 2 frames, both leads 1, 8 bus frames, outcomes audio and silent, fairness; 600 thousand states | no frame lost, early, repeated or out of order; the refinement of `OrderedDelivery`; delivered frames are taken or dropped; stop ends |
| `playback_queue` | 2 transfers of 1 frame, leads 1, position map of 3, 6 bus frames, with and without capture, refusals, frames without a stamp; 12 million states | no audio twice, nothing left behind the fill, the position map is right, where a realign lands, positions not behind the clock |
| `playback_punctual` | 5 transfers of 1 frame, fill lead 2, reference off by one, callbacks one frame late, 11 bus frames; 6 million states | every frame is filled in time, three of them in recycled transfers; no frame is given up further ahead than the reference may err |
| `lifecycle` | 3 clients, 4 plug-ins, failing calls, fairness; 40 thousand states | count, publication and engine agree over all interleavings; every call returns or ends in the lock cycle |
| `config_settings` | 2 setters and the host, 3 requests, 2 stored dictionaries, fairness; 600 thousand states | geometry legal, level follows gains, nothing forgotten in the storage, changes take effect, gains survive a restart at any step with the two exceptions below |
| `midi_bridge` | 2 packets out of 8, 2 plug-ins, with and without the plug-in, failing calls, fairness; 520 thousand states | bytes in order but for a message that was cut; input flows or a named failure ended it; the device is attached in the end or a named call failed |
| `clock_timestamps` | 1 reader, 2 starts, 2 host times, program order, fairness; 410 thousand states | once the origin is fixed, pairs are whole and the last published and the timeline goes on; readers end |
| `lifecycle_lock_cycle` (violation) | 2 clients, one replug | hot-plug callback and synchronous job wait on each other |
| `lifecycle_replug` (violation) | the same | a quick replug is lost |
| `config_persist` (violation) | 1 setter | the migration changes a depth that was set and saved |
| `midi_open_race` (violation) | no packets, 1 plug-in | the plug-in gives up a device the daemon has open for a moment |
| `clock_torn` (violation) | 1 start, weak order | half of one pair with half of another |

**Bounds.**  `MaxFrame` ends the bus in `Capture` and `Playback`; beyond it
submissions are refused, which is a behaviour of the code too.  Eight frames let a capture
queue of four frames be refilled after a failure, overtaken, resynced, stopped and
started again; one and three frames per transfer, three transfers, stamped errors and nine
frames were also checked (up to ten million states) without a difference.
In `Playback`, six frames are what it takes to realign twice, so that the read
position really goes back over audio already played: with five, `SentOnce` holds
even if the copy does not clear the ring.  The position map of three is smaller than
the frames in play, so that entries are overwritten.
With both faults `playback_queue` was checked to five frames (12 million states), as the too-new
one makes six frames too many; the theorems hold for any.  Without each of its three corrections `RealignLands` fails in this run.
`playback_punctual` has five transfers of one frame, a start and fill lead of two and eleven bus frames: the first five
transfers take frames 3 to 7, and the refills 8 to 10, so that three transfers are recycled, filled
by a lead that moves with the bus and fetched.  The bounds are tight: with four transfers, or with callbacks two frames late,
`InTime` fails, since the estimate may stand at a frame that is just being queued; with four transfers and an exact reference it holds.
With later callbacks the queue must be deeper.
The defaults (8 transfers, lead 2) leave ample room; the
smallest geometry the clamp at 857 admits (2 transfers, lead 1) does not.
`MaxPlugs` bounds replugging: with four in `Lifecycle`, a
stale arrival, a stale terminated message and a fresh one can be queued at once; with two in
`Midi`, a stale interface and a fresh one.  `MaxRequests` lets one change wait while the two
setters already inside bring two more, which is when one pending geometry replaces another.
Two MIDI packets are two halves of a system exclusive, or a message
after one that was cut, over an attach, a crash or a failing write; `InStep` is proved for any number.  In `Clock` two starts make a timeline follow another; each has its
origin twice (at the start, and from the stamps) and one period.

**Deadlock** is checked in `capture_queue`, `playback_queue`, `playback_punctual` and `config_settings`.
It is not where the system really may stop: in `Lifecycle`, because the
code deadlocks there, which `lifecycle_lock_cycle` shows while `CallsReturn` shows that it is
the only way for a call not to return; in `Midi` and `Clock`, when packets, plug-ins or starts run out.

**Fairness.**  In `Capture` time passes, and each thread that has a step keeps
taking it.  Taking `in.lock` and the delivery of callbacks are strongly fair: either
thread holds the lock for microseconds of a millisecond, so that it is free again
and again.  Nothing is assumed of the user, of the device or of submissions.
`Playback` has no liveness property; `PunctualSpec` states instead that
the bus does not finish a frame before the tick thread had its turn in it, which is
what the real-time policy of that thread is for, and bounds how late a callback may be.
In `Lifecycle` the threads are weakly fair, and waiting for `gStateMutex` is
strongly fair: the host's start and stop calls are rare, so no waiter is
overtaken for ever.  In `Config` threads in the middle of a call go on, the host stops IO for a
change it was asked for, and performs it if it again and again could (the mutex is
held for moments); nobody is made to set anything, and `GeometryTakesEffect` presumes that the host does not go on aborting.
In `Midi` the daemon's two threads go on, a read whose data is there does not fail
for ever (one that ends with `Aborted` may end the input for good, and then `givenUp` says so), and a plug-in that
has opened the device goes on with it; that it begins is not assumed.  In `Clock` the publishing thread and the readers take
their steps; neither the bus nor the host need go on.

**Assumptions** made of code outside the repository: the host controller finishes and
completes isochronous transfers in the order of their frames; after its drain
ran out of turns, callbacks still outstanding come before the next start; the
host forgets the clients of a device it was told is gone, and starts a client
only when it is stopped; a device does not vanish in the middle of
`device_attach`; the host calls `Initialize` before any property, performs configuration changes
one at a time and with IO stopped; IOKit delivers a notification once, in
order; a read of the MIDI pipe that fails brought nothing; a MIDI packet of a client consists of
whole legal messages, and only a system exclusive goes on in the next packet.

## What is proved

Each proof rests on the one named assumption of its module, and nothing else; two of the three
theorems about the clock add program order to it.

`CaptureProofs`, from `CaptureAssumption` (sizes and leads are positive):
`TypeCorrect`, `NoFrameLostTheorem`, `RingTheorem` (order, no repetition),
`NothingEarlyTheorem`, `QueueDisjointTheorem`, `NoLateHarvestTheorem`,
`QueueFullTheorem`, `ReleasedIsQuietTheorem`, and `CaptureImplementsDelivery`,
the refinement of `OrderedDelivery`.
The properties are not inductive by themselves.  `IInv` adds
* `Locking` and `Phases`: which thread holds the lock in which phase, and the
  life cycle of start, stop and tick thread;
* `QueueShape`: a ready transfer is in flight or is the one whose callback
  runs, and that one is complete and the oldest.  Without it a jump of the
  harvest could pass frames that are still to come;
* `Cursor`: a frame of a ready transfer is done exactly if it is below
  `nextHarvestFrame`, and only frames below the bus have an entry.  It connects the per-transfer
  `done` flags with the one cursor the two threads share;
* `Filled` and `OwedExact`: how far the refill has come, and that no audio beyond the cursor has been forgotten.

Each conjunct has a lemma that no step breaks it, by cases on the actions.
`RecycledIsDone` is the key of the callback's half: the harvest stops short only at a frame that is
not finished, and for a transfer whose callback fired every frame is.
For the refinement every action is a step of `OrderedDelivery` or leaves its
variables alone; that the cursor's frame is the oldest owed one follows from
`NoFrameLost` and `Cursor`.

`PlaybackProofs`, from `PlaybackAssumption`, for every geometry, lead, position map and error of the
estimate: `TypeCorrect`, `SentOnceTheorem`, `NothingSkippedTheorem`, `MapIsPlanTheorem`, `RingNotBehindClockTheorem`
and `RealignLandsTheorem`.  `IInv` adds `QueueOK`
(queued transfers are disjoint runs of frames below the schedule position), `Cursor` (a frame
beyond the queue that the fill has passed was given up by the estimate: otherwise a later
submission could land behind the fill), and `AudioOK`.  The last is the argument for `SentOnce`:
whatever a buffer holds has been cleared in the ring (`consumed`), no two buffers hold the same audio, and a
buffer still pending holds nothing that was sent.  A realign may move the read position anywhere; what it
finds again is silence.
The other two properties need `Timeline`.  Its `Captured` ties the audio count to the harvest: it is that of the
frames harvested, or of one more between the tick thread's two stores (`HarvestCount`, `HarvestMark`), and the last
harvested frame is 0 or the one before the cursor.  `Landing` is the arithmetic from there: the place of the
frame, less what was harvested between the two loads, and beyond it by the frame between the stores or, before any harvest, by `f0 - 1`.  Its `Played` orders the queue without
capture: transfers lie in the ring in the order of their frames, and whatever is not polled yet lies at or after the
clock.  What `submit_xfer`'s loop computes for the packets of a transfer is a recursive function over the offset
(`StartsFacts`); it exists and has its order by induction, as a set of counterexamples with no least element.

`PunctualProofs`, from the same and `PunctualAssumption`: `NoFutureGivenUpTheorem`.  `PunctualSpec` implements `Spec` of
`Playback`, so `IInv` holds.  `AheadOK` says that the estimate is at most one frame beyond what the
reference may err: a tick that adds a frame to the cadence does so only while that is within one of the reference.

`ClockProofs`, from `ClockAssumption`: `TypeCorrect` in either memory order and, with `WEAK = FALSE`, `WholeStamps` and
`TimelineNeverBack`, for any number of readers.  The invariant says of the publisher which stores are still to come
(`prog` is always the rest of one publication), and of a reader that between an even `s1` and an equal `s2` the
counter stood still, so that both halves are those of the pair `current`.  Off program order it does not hold, which
`clock_torn` shows.

`LifecycleProofs`, from `LifecycleAssumption`, for any number of clients and replugs: `TypeCorrect`,
`RunningNeedsDeviceTheorem`, `NoOvercountTheorem`, `CountIsActiveTheorem`, `EngineFollowsCountTheorem`, `GhostOnlyAtInitTheorem`, and two more
(`CountNeedsDeviceTheorem`, `RunningIsCountedTheorem`) that `lifecycle` does not run.
`IInv` adds what the nesting of run loops can look like: at most one job and one detach
on the stack (`Sync`, `Doom`), the callback only on top (`Callback`), nothing before `Initialize` is done
(`Setup`); `Doomed`, that a device being torn down is already unplugged, so that no step can
start an engine on it that would survive; and `Follows`, that a start in progress or just
answered still runs unless its device is gone.
`Whole` is what `CountIsActive` needs: until the first unplug no count is reset and no caller
leaves with a count that is not its own.

`ConfigProofs`, from `ConfigAssumption`, for any threads, requests and stored dictionaries: `TypeCorrect`,
`EngineGeometryLegalTheorem`, `GainFollowsTheorem`, `NothingForgottenTheorem`, `GainsPersistTheorem`.
`ClampIsLegal` is the arithmetic: any four numbers become a legal geometry.  `Levels` says that
the setter inside the lock carries the level of the current gains.  `Saving` says that, when no
caller is between a change and its copy, the newest copy, wherever it is, holds the
settings: since every change is followed by a copy of its own, a copy is stale only while a newer one is on its way.
While nothing was copied since the start the storage is what was loaded, so a restart changes nothing then either
(`Restored`).  `GainsPersist` is therefore about every restart, not only one at rest, and leaves out exactly
what the code loses: a change whose save is not done, and a save that was overtaken.

`MidiProofs`, from `MidiAssumption` (what a legal packet is), for any set of packets, of any length, any buffer sizes and
any number of plugs: `TypeCorrect` and `InStepTheorem`.  The codings of `Midi` are `FlattenSeq` of an
image of a sequence.  `FlattenSeq` is a recursive function too: it exists, and it distributes over concatenation, by
induction on the length (`FlattenExists`, `FlattenConcat`).  `TurnSays` is the heart: on a legal stream, one turn of
`encode_bytes` consumes exactly the first piece and leaves its bytes, in order, in the event it emits or in
`gSyx`.  `Agrees` carries this through the buffers: what is owed is what was read, then what is on the wire, then what is in `out`, then
what `gSyx` keeps, then what the pieces not yet encoded tell.  `Transport` says that only the open interface has
data on the way, and that a dead one is told once; `Closed`, that an encoder left in a system exclusive by
an attach on the other thread gets to its end with the packet, so that the message after a cut one is whole; `Paid`
covers the time when the device is gone.

Only model-checked: liveness under fairness (`FramesAreTaken`, `StopReturns`, `CallsReturn` of `Lifecycle` and of `Clock`,
`GeometryTakesEffect`, `InputFlows`, `Reattaches`), which this prover cannot reach; `InTime` of `PlaybackPunctual`, which
rests on when the bus and the tick thread take turns and for which a general relation of queue depth, lead and
errors is still to be found; and the five violations.  Every other invariant and action property of the passing runs is a
theorem.

## Findings

1. *Deadlock on hot-plug*: `hotplug` (`UA4FX_Driver.c:145`) against
   `StartIO`/`StopIO` (687, 702) and `engine_sync` (184).
2. *Lost replug*: `device_attach` (723) drops an arrival dispatched inside the drain of
   a detach (588).
3. *A capture depth does not survive a restart*: `UA4FX_Driver.c:287` takes the control app's presets for
   an old version's settings.
4. *Audio lost to the MIDI daemon*: `midi/ua4fx_midid.c:147` holds the device open while the plug-in
   tries (731-732), which does not try again.
5. *Torn timestamps on arm64*: 247-248 and 868-869 lack the fences a sequence lock needs.
6. *Where a realign lands*: 303 says on the capture timeline; the loads at 304 are in the order of the stores at 412-413, so
   that it lands early by what is harvested in between, or a frame beyond, and before the first harvest (305, 610)
   the bus frame number is taken for a distance.  `RealignLands` is the equation.
7. *Saves overtake each other*: `UA4FX_Driver.c:236-240`; the older settings stay in the storage, against `README.md:132`.
8. *lateHarvests is always zero*: 363-364, against `UA4FX_USB.h:102`; a theorem.

What modelling showed besides, stated by no run of its own:

* `UA4FX_Initialize` (297) checks that a device is there and publishes it in two steps; one that leaves in
  between stays published until the next unplug.  `GhostOnlyAtInit` says that this is the only way.
* The daemon tries everything once: a read that ends with `Aborted` or `NotResponding`, or is not accepted, while the device
  is there (42, 37-38) ends MIDI input until the device is plugged in again; so does a failed open, missing pipes or a failed
  configuration (119-128, 147) for the whole interface; a failed write drops its events (62-63).
* A realign drops its request whether or not its submission is then accepted (302).
* Playback without capture: each refused or too-late submission moves the ring position (314) but not the clock.
  `RingNotBehindClock` says that it only ever moves ahead.
* A gap of the schedule is counted at 332 and again at 392, against `UA4FX_USB.h:91`.
* `StartIO` may return before the origin is fixed: after 100 ms without stamps (651), and, as the
  wait looks at the count of stamps, while the origin is being published.
  `README.md:122-123` says it is fixed before.
* `attach` of the daemon ignores the result of its interest registration (`ua4fx_midid.c:130`): a device
  that goes at that moment leaves the daemon with a dead interface for good (`Deaf` in `Midi`).
* A `StopIO` that waited over an unplug and replug takes the place of another client's: the count may be too low, never too high.

## Not modelled

* *HAL property dispatch*: has, size and get for fixed selectors; stateless tables over the state modelled elsewhere.
* *HAL IO*: conversion between 24-bit samples and floats, and copies at a position of a ring; sequential, nothing is decided.
* *Descriptor parsing and rate detection* (`parse_config`, `rate_from_maxpacket`): sequential functions of one device's
  bytes; `Lifecycle` has their outcomes.
* *The phase of the tick thread's wake-up* (528-542) and *the measured rate* (260-267, 424-433): floating point; abstracted
  to a turn in every frame, any host time and any packet size.  `ref_publish`/`ref_read` have the shape of
  `zts_publish` and its reader and serve only these.
* *Shutting down* (`ua4fx_engine_destroy`, the quit path of the USB thread): the plug-in never calls it.  The NULL interface
  that a detach inside a stop's drain leaves (590) can be met only without a hot-plug callback, as in `tools/ua4fx_test.c`.
* *The alternate setting* left by a failed `stream_prepare` (567): the next start sets it again.
* *The control app* is a view; *tools and scripts* are run by hand.

## Plan

1. `InTime` for every depth: the tightest queue that `playback_punctual` checks suggests that the depth
   must exceed the lead by the error of the reference and the latency of callbacks.
2. A specification of the daemon's output as one ordered stream, as `OrderedDelivery` is of capture, and `Midi` and
   `Playback` shown to implement theirs.
3. The structure of the deadlock: that `LockCycle` is the only way for `Lifecycle` to stop, as an invariant.
