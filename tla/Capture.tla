------------------------------ MODULE Capture ------------------------------
(***************************************************************************)
(* The capture stream of driver/UA4FX_USB.c: a queue of NB isochronous     *)
(* transfers of NF bus frames each, that the USB thread keeps scheduled    *)
(* ahead of the bus, and the harvest that copies every finished frame into *)
(* the input ring.  The harvest runs in two threads under in.lock: in the  *)
(* tick thread every millisecond, and in the USB thread from the           *)
(* completion callback of a transfer.  The host controller (HC) finishes   *)
(* frames while either thread is inside its critical section.              *)
(*                                                                         *)
(* Audio is abstracted to the number of the bus frame that carried it; the *)
(* ring is the sequence of the frames copied so far, so that rxCompleted   *)
(* is Len(inRing).  Transfers are written by their slot in s->xf.          *)
(*                                                                         *)
(* A definition named X_variant is no part of the model: it is X with a    *)
(* plausible mistake, for which some property below must fail.             *)
(***************************************************************************)
EXTENDS Integers, Sequences

CONSTANTS
  NF,                  \* e->nf: bus frames in a transfer
  NB,                  \* e->nbuf: transfers in the queue
  START_LEAD_FRAMES,   \* distance of the first scheduled frame from the bus
  RESYNC_LEAD_FRAMES,  \* the same after falling behind
  Outcomes,            \* what the HC may report of a frame, see Status
  MaxFrame             \* bound of the model: the bus stops at this frame

(* What a frame-list entry says.  "pending": no stamp, no data.  "data":   *)
(* audio arrived.  "error": stamped, with a bad status.  "silent": a bad   *)
(* status and neither stamp nor data, so that the entry looks pending.     *)
Status == {"pending", "data", "error", "silent"}

ASSUME CaptureAssumption ==
  /\ NF \in Nat \ {0} /\ NB \in Nat \ {0}
  /\ START_LEAD_FRAMES \in Nat \ {0} /\ RESYNC_LEAD_FRAMES \in Nat \ {0}
  /\ Outcomes \subseteq Status \ {"pending"}
  /\ MaxFrame \in Nat

Slots == 0 .. NB - 1
Offsets == 0 .. NF - 1

VARIABLES
  \* the bus and the host controller
  bus,               \* the bus frame in progress
  plugged,           \* the device is on the bus
  fl,                \* x->fl: the frame list of each transfer
  \* xfer_t
  frame, ready, inFlight, done,
  \* stream_t and engine
  nextFrame, stopping, streaming, running, tickRun,
  nextHarvestFrame, inRing, anchorFrame,
  rxErrors, lostInFrames, lateHarvests, harvestedByCallback,
  \* control: the owner of in.lock and where each thread is
  lock, tick,
  usb,               \* "loop" is the run loop, "drain" the one in stream_stop
  cb,                \* the transfer whose completion callback runs
  slot, starting, kr,\* loop index, caller and result of stream_fill_queue
  \* history
  owed               \* frames the HC delivered, still owed to the ring

bufVars == <<fl, frame, ready, inFlight, done>>
streamVars == <<stopping, streaming, running, tickRun, anchorFrame>>
harvestVars == <<nextHarvestFrame, inRing, rxErrors, harvestedByCallback>>
fillVars == <<slot, starting, kr>>
vars == <<bus, plugged, bufVars, nextFrame, streamVars, harvestVars,
          lostInFrames, lateHarvests, lock, tick, usb, cb, fillVars, owed>>

----------------------------------------------------------------------------
(* The transfer that holds bus frame f, and the frames of a transfer.      *)
FramesOf(b) == frame[b] .. frame[b] + NF - 1
find_xfer(f) == {b \in Slots : ready[b] /\ f \in FramesOf(b)}

(* First frames of the ready transfers beyond frame f.                     *)
ReadyAfter_anywhere(f) == {frame[b] : b \in {c \in Slots : ready[c]}}
ReadyAfter_none(f) == {}
ReadyAfter(f) == {frame[b] : b \in {c \in Slots : ready[c] /\ frame[c] > f}}
next_ready_frame_unordered(f, g) == g \in ReadyAfter(f)
next_ready_frame_after(f, g) ==
  g \in ReadyAfter(f) /\ \A h \in ReadyAfter(f) : g <= h

(* A frame is final when the HC stamped it or delivered data; once the     *)
(* callback of its transfer fired, whatever its entry says.                *)
frame_finished_unforced(st, forced) == st \in {"data", "error"}
frame_finished(st, forced) == st \in {"data", "error"} \/ forced

----------------------------------------------------------------------------
Init ==
  /\ bus = 1 /\ plugged = TRUE
  /\ fl = [b \in Slots |-> [i \in Offsets |-> "pending"]]
  /\ frame = [b \in Slots |-> 0]
  /\ ready = [b \in Slots |-> FALSE] /\ inFlight = [b \in Slots |-> FALSE]
  /\ done = [b \in Slots |-> [i \in Offsets |-> FALSE]]
  /\ nextFrame = 0 /\ nextHarvestFrame = 0 /\ anchorFrame = 0
  /\ stopping = FALSE /\ streaming = FALSE
  /\ running = FALSE /\ tickRun = FALSE
  /\ inRing = <<>> /\ owed = {}
  /\ rxErrors = 0 /\ lostInFrames = 0
  /\ lateHarvests = 0 /\ harvestedByCallback = 0
  /\ lock = "free" /\ tick = "none" /\ usb = "loop"
  /\ cb = 0 /\ slot = 0 /\ starting = FALSE /\ kr = FALSE

----------------------------------------------------------------------------
(* The host controller and the device.                                     *)

(* A millisecond passes: the HC finishes the frame in progress, if a       *)
(* transfer covers it and neither the pipe was aborted nor the device left.*)
BusFrame ==
  /\ bus < MaxFrame
  /\ bus' = bus + 1
  /\ \/ \E b \in Slots, o \in Outcomes :
          /\ inFlight[b] /\ bus \in FramesOf(b) /\ plugged /\ ~stopping
          /\ fl' = [fl EXCEPT ![b][bus - frame[b]] = o]
          /\ owed' = IF o = "data" THEN owed \cup {bus} ELSE owed
     \/ /\ \/ ~plugged \/ stopping
           \/ \A b \in Slots : ~(inFlight[b] /\ bus \in FramesOf(b))
        /\ UNCHANGED <<fl, owed>>
  /\ UNCHANGED <<plugged, frame, ready, inFlight, done, nextFrame, streamVars,
                 harvestVars, lostInFrames, lateHarvests, lock, tick, usb, cb,
                 fillVars>>

Unplug == plugged /\ plugged' = FALSE
          /\ UNCHANGED <<bus, bufVars, nextFrame, streamVars, harvestVars,
                         lostInFrames, lateHarvests, lock, tick, usb, cb,
                         fillVars, owed>>

(* The device comes back after the engine has let go of the old one.       *)
Replug == ~plugged /\ ~running /\ usb = "loop" /\ plugged' = TRUE
          /\ UNCHANGED <<bus, bufVars, nextFrame, streamVars, harvestVars,
                         lostInFrames, lateHarvests, lock, tick, usb, cb,
                         fillVars, owed>>

----------------------------------------------------------------------------
(* stream_fill_queue_locked: every slot that is not in flight is submitted *)
(* at nextFrame, once more after a resync if the bus has overtaken it.     *)

(* submit_xfer writes the transfer before it asks the kernel to queue it;  *)
(* the old contents of the frame list are cleared.                         *)
Prepare_staleFrameList(b) ==
  /\ frame' = [frame EXCEPT ![b] = nextFrame]
  /\ done' = [done EXCEPT ![b] = [i \in Offsets |-> FALSE]]
  /\ fl' = fl
Prepare(b) ==
  /\ frame' = [frame EXCEPT ![b] = nextFrame]
  /\ done' = [done EXCEPT ![b] = [i \in Offsets |-> FALSE]]
  /\ fl' = [fl EXCEPT ![b] = [i \in Offsets |-> "pending"]]

Accepted_noAdvance(b) ==
  /\ plugged /\ nextFrame > bus /\ nextFrame + NF <= MaxFrame
  /\ inFlight' = [inFlight EXCEPT ![b] = TRUE]
  /\ ready' = [ready EXCEPT ![b] = TRUE]
  /\ UNCHANGED <<nextFrame, kr>>
Accepted(b) ==
  /\ plugged /\ nextFrame > bus /\ nextFrame + NF <= MaxFrame
  /\ inFlight' = [inFlight EXCEPT ![b] = TRUE]
  /\ ready' = [ready EXCEPT ![b] = TRUE]
  /\ nextFrame' = nextFrame + NF
  /\ UNCHANGED kr

(* A refusal that is not a matter of schedule: the device is gone, or the  *)
(* kernel is out of resources.  At MaxFrame the model always refuses.      *)
Refused == kr' = TRUE /\ UNCHANGED <<inFlight, ready, nextFrame>>

TooOld == plugged /\ nextFrame <= bus

submit_xfer ==
  /\ usb = "fill" /\ slot \in Slots /\ ~inFlight[slot]
  /\ Prepare(slot)
  /\ \/ (Accepted(slot) \/ Refused) /\ usb' = "fill" /\ slot' = slot + 1
     \/ /\ TooOld /\ usb' = "resync"
        /\ UNCHANGED <<inFlight, ready, nextFrame, kr, slot>>
  /\ UNCHANGED <<bus, plugged, streamVars, harvestVars, lostInFrames,
                 lateHarvests, lock, tick, cb, starting, owed>>

SkipSlot ==
  /\ usb = "fill" /\ slot \in Slots /\ inFlight[slot]
  /\ slot' = slot + 1
  /\ UNCHANGED <<bus, plugged, bufVars, nextFrame, streamVars, harvestVars,
                 lostInFrames, lateHarvests, lock, tick, usb, cb, starting,
                 kr, owed>>

(* GetBusFrameNumberWithTime answers, or fails and nothing moves.          *)
stream_resync ==
  LET R == bus + RESYNC_LEAD_FRAMES IN
  /\ usb = "resync" /\ usb' = "resubmit"
  /\ \/ /\ plugged /\ R > nextFrame
        /\ lostInFrames' = lostInFrames + (R - nextFrame) /\ nextFrame' = R
     \/ UNCHANGED <<lostInFrames, nextFrame>>
  /\ UNCHANGED <<bus, plugged, bufVars, streamVars, harvestVars, lateHarvests,
                 lock, tick, cb, fillVars, owed>>

resubmit_xfer ==
  /\ usb = "resubmit" /\ usb' = "fill" /\ slot' = slot + 1
  /\ Prepare(slot)
  /\ Accepted(slot) \/ Refused
  /\ UNCHANGED <<bus, plugged, streamVars, harvestVars, lostInFrames,
                 lateHarvests, lock, tick, cb, starting, owed>>

----------------------------------------------------------------------------
(* harvest_locked, one turn of its loop.  `forced` is the set of transfers *)
(* whose callback fired: {} in the tick thread, {cb} in the callback.      *)

HarvestFrame(forced) ==
  \E b \in find_xfer(nextHarvestFrame) :
    LET i == nextHarvestFrame - frame[b]
        st == fl[b][i] IN
    /\ done[b][i] \/ frame_finished(st, b \in forced)
    /\ nextHarvestFrame' = nextHarvestFrame + 1
    /\ done' = [done EXCEPT ![b][i] = TRUE]
    /\ inRing' = IF st = "data" /\ ~done[b][i]
                 THEN Append(inRing, nextHarvestFrame) ELSE inRing
    /\ rxErrors' = IF st = "data" \/ done[b][i] THEN rxErrors ELSE rxErrors + 1
    /\ harvestedByCallback' = IF forced = {} \/ done[b][i]
                              THEN harvestedByCallback
                              ELSE harvestedByCallback + 1
    /\ owed' = owed \ {nextHarvestFrame}
    /\ UNCHANGED lostInFrames

(* No ready transfer holds the next frame: it was never scheduled, or its  *)
(* transfer was dropped.  Go on with the first one that is ready.          *)
HarvestJump_swapped ==
  /\ find_xfer(nextHarvestFrame) = {}
  /\ \E g \in ReadyAfter(nextHarvestFrame) :
       /\ next_ready_frame_after(nextHarvestFrame, g)
       /\ nextHarvestFrame' = g
       /\ lostInFrames' = lostInFrames + (nextHarvestFrame - g)
  /\ UNCHANGED <<done, inRing, rxErrors, harvestedByCallback, owed>>
HarvestJump ==
  /\ find_xfer(nextHarvestFrame) = {}
  /\ \E g \in ReadyAfter(nextHarvestFrame) :
       /\ next_ready_frame_after(nextHarvestFrame, g)
       /\ nextHarvestFrame' = g
       /\ lostInFrames' = lostInFrames + (g - nextHarvestFrame)
  /\ UNCHANGED <<done, inRing, rxErrors, harvestedByCallback, owed>>

HarvestReturns(forced) ==
  \/ \E b \in find_xfer(nextHarvestFrame) :
       LET i == nextHarvestFrame - frame[b] IN
       ~done[b][i] /\ ~frame_finished(fl[b][i], b \in forced)
  \/ find_xfer(nextHarvestFrame) = {} /\ ReadyAfter(nextHarvestFrame) = {}

HarvestStep(forced) ==
  /\ HarvestFrame(forced) \/ HarvestJump
  /\ UNCHANGED <<bus, plugged, fl, frame, ready, inFlight, nextFrame,
                 streamVars, lateHarvests, lock, tick, usb, cb, fillVars>>

----------------------------------------------------------------------------
(* xfer_complete.  The HC completes transfers in the order of their frames *)
(* and the run loop delivers the callbacks in that order; an abort or an   *)
(* unplug completes a transfer early.                                      *)

Oldest(b) == inFlight[b] /\ \A c \in Slots : inFlight[c] => frame[b] <= frame[c]
Complete(b) == \A i \in Offsets : fl[b][i] # "pending"
Aborted == stopping \/ ~plugged
Callback(b) == /\ usb \in {"loop", "drain"} /\ lock = "free" /\ Oldest(b)
               /\ inFlight' = [inFlight EXCEPT ![b] = FALSE]

(* While the engine stops, and for a transfer that came back aborted, the  *)
(* callback drops the transfer, with the frames nobody harvested yet.      *)
Discard(b) ==
  /\ Callback(b)
  /\ Aborted \/ (Complete(b) /\ ~running)
  /\ ready' = [ready EXCEPT ![b] = FALSE]
  /\ owed' = owed \ FramesOf(b)
  /\ UNCHANGED <<bus, plugged, fl, frame, done, nextFrame, streamVars,
                 harvestVars, lostInFrames, lateHarvests, lock, tick, usb, cb,
                 fillVars>>

xfer_complete(b) ==
  /\ Callback(b) /\ Complete(b) /\ running /\ ~stopping
  /\ lock' = "usb" /\ usb' = "harvest" /\ cb' = b
  /\ UNCHANGED <<bus, plugged, fl, frame, ready, done, nextFrame, streamVars,
                 harvestVars, lostInFrames, lateHarvests, tick, fillVars, owed>>

CallbackHarvest == usb = "harvest" /\ HarvestStep({cb})

(* The refill looks at every slot, not only at that of the callback.       *)
FirstSlot_behind == cb + 1
FirstSlot == 0

(* Then the transfer is taken out of the ready set, frames left in it are  *)
(* counted, and the queue is filled up.                                    *)
Recycle ==
  /\ usb = "harvest" /\ HarvestReturns({cb})
  /\ ready' = [ready EXCEPT ![cb] = FALSE]
  /\ lateHarvests' = IF \E i \in Offsets : ~done[cb][i]
                     THEN lateHarvests + 1 ELSE lateHarvests
  /\ usb' = "fill" /\ slot' = FirstSlot /\ kr' = FALSE
  /\ UNCHANGED <<bus, plugged, fl, frame, inFlight, done, nextFrame,
                 streamVars, harvestVars, lostInFrames, lock, tick, cb,
                 starting, owed>>

FillReturns ==
  /\ usb = "fill" /\ slot = NB /\ ~starting
  /\ usb' = "loop" /\ lock' = "free"
  /\ UNCHANGED <<bus, plugged, bufVars, nextFrame, streamVars, harvestVars,
                 lostInFrames, lateHarvests, tick, cb, fillVars, owed>>

----------------------------------------------------------------------------
(* job_start and job_stop, on the USB thread; stream_stop inside them.     *)

(* Start refuses an absent device.  The anchor keeps its old value when    *)
(* the bus frame cannot be read.  Callbacks that an abort left outstanding *)
(* after its time limit are assumed to have come by now.                   *)
job_start ==
  /\ usb = "loop" /\ ~running /\ plugged
  /\ \A b \in Slots : ~inFlight[b]
  /\ \E anchor \in {bus, anchorFrame} :
       LET f0 == anchor + START_LEAD_FRAMES IN
       anchorFrame' = anchor /\ nextFrame' = f0 /\ nextHarvestFrame' = f0
  /\ inRing' = <<>> /\ owed' = {}
  /\ rxErrors' = 0 /\ lostInFrames' = 0
  /\ lateHarvests' = 0 /\ harvestedByCallback' = 0
  /\ ready' = [b \in Slots |-> FALSE]
  /\ stopping' = FALSE /\ running' = TRUE /\ streaming' = TRUE
  /\ lock' = "usb" /\ usb' = "fill"
  /\ starting' = TRUE /\ slot' = 0 /\ kr' = FALSE
  /\ UNCHANGED <<bus, plugged, fl, frame, inFlight, done, tickRun, tick, cb>>

(* The queue is primed: the tick thread starts, unless a submission of     *)
(* this stream or of the playback stream failed.                           *)
Started ==
  /\ usb = "fill" /\ slot = NB /\ starting
  /\ lock' = "free" /\ starting' = FALSE
  /\ \/ /\ ~kr /\ tickRun' = TRUE /\ tick' = "sleep" /\ usb' = "loop"
        /\ UNCHANGED running
     \/ /\ running' = FALSE /\ usb' = "stop"
        /\ UNCHANGED <<tickRun, tick>>
  /\ UNCHANGED <<bus, plugged, bufVars, nextFrame, stopping, streaming,
                 anchorFrame, harvestVars, lostInFrames, lateHarvests, cb,
                 slot, kr, owed>>

StopTick_missing == UNCHANGED tickRun
StopTick == tickRun' = FALSE
job_stop ==
  /\ usb = "loop" /\ running
  /\ running' = FALSE /\ StopTick /\ usb' = "stop"
  /\ UNCHANGED <<bus, plugged, bufVars, nextFrame, stopping, streaming,
                 anchorFrame, harvestVars, lostInFrames, lateHarvests, lock,
                 tick, cb, fillVars, owed>>

(* After pthread_join of the tick thread: set stopping, abort the pipe and *)
(* run the loop for the callbacks.                                         *)
JoinGuard_missing == TRUE
JoinGuard == tick = "none"
stream_stop ==
  /\ usb = "stop" /\ JoinGuard /\ lock = "free"
  /\ stopping' = TRUE /\ usb' = "drain"
  /\ UNCHANGED <<bus, plugged, bufVars, nextFrame, streaming, running, tickRun,
                 anchorFrame, harvestVars, lostInFrames, lateHarvests, lock,
                 tick, cb, fillVars, owed>>

(* All callbacks came, or the time limit passed: the buffers are freed.    *)
stream_release_buffers ==
  /\ usb = "drain" /\ usb' = "loop"
  /\ streaming' = FALSE
  /\ ready' = [b \in Slots |-> FALSE]
  /\ owed' = {}
  /\ UNCHANGED <<bus, plugged, fl, frame, inFlight, done, nextFrame, stopping,
                 running, tickRun, anchorFrame, harvestVars, lostInFrames,
                 lateHarvests, lock, tick, cb, fillVars>>

----------------------------------------------------------------------------
(* tick_thread: once per millisecond, under in.lock.                       *)

TickWake ==
  /\ tick = "sleep" /\ tickRun /\ lock = "free"
  /\ lock' = "tick" /\ tick' = "harvest"
  /\ UNCHANGED <<bus, plugged, bufVars, nextFrame, streamVars, harvestVars,
                 lostInFrames, lateHarvests, usb, cb, fillVars, owed>>

TickHarvest == tick = "harvest" /\ HarvestStep({})

TickSleep ==
  /\ tick = "harvest" /\ HarvestReturns({})
  /\ lock' = "free" /\ tick' = "sleep"
  /\ UNCHANGED <<bus, plugged, bufVars, nextFrame, streamVars, harvestVars,
                 lostInFrames, lateHarvests, usb, cb, fillVars, owed>>

TickExit ==
  /\ tick = "sleep" /\ ~tickRun /\ tick' = "none"
  /\ UNCHANGED <<bus, plugged, bufVars, nextFrame, streamVars, harvestVars,
                 lostInFrames, lateHarvests, lock, usb, cb, fillVars, owed>>

----------------------------------------------------------------------------
Fill == submit_xfer \/ SkipSlot \/ stream_resync \/ resubmit_xfer \/ FillReturns
Stop == stream_stop \/ stream_release_buffers
Deliver == \E b \in Slots : Discard(b) \/ xfer_complete(b)
Next == \/ BusFrame \/ Unplug \/ Replug
        \/ Fill \/ Deliver \/ CallbackHarvest \/ Recycle
        \/ job_start \/ Started \/ job_stop \/ Stop
        \/ TickWake \/ TickHarvest \/ TickSleep \/ TickExit
Spec == Init /\ [][Next]_vars

(* Bus time passes.  Each thread keeps running; a thread that waits for    *)
(* in.lock gets it in the end, because the tick thread holds it for        *)
(* microseconds of every millisecond and the callback once per transfer.   *)
Fairness ==
  /\ WF_vars(BusFrame)
  /\ WF_vars(Fill) /\ WF_vars(CallbackHarvest) /\ WF_vars(Recycle)
  /\ WF_vars(Started) /\ SF_vars(Deliver) /\ WF_vars(stream_stop)
  /\ WF_vars(stream_release_buffers)
  /\ SF_vars(TickWake) /\ WF_vars(TickHarvest) /\ WF_vars(TickSleep)
  /\ WF_vars(TickExit)
FairSpec == Spec /\ Fairness
----------------------------------------------------------------------------
TypeOK ==
  /\ bus \in Nat /\ plugged \in BOOLEAN
  /\ fl \in [Slots -> [Offsets -> Status]]
  /\ frame \in [Slots -> Nat]
  /\ ready \in [Slots -> BOOLEAN] /\ inFlight \in [Slots -> BOOLEAN]
  /\ done \in [Slots -> [Offsets -> BOOLEAN]]
  /\ nextFrame \in Nat /\ nextHarvestFrame \in Nat /\ anchorFrame \in Nat
  /\ stopping \in BOOLEAN /\ streaming \in BOOLEAN
  /\ running \in BOOLEAN /\ tickRun \in BOOLEAN
  /\ inRing \in Seq(Nat) /\ owed \subseteq Nat
  /\ rxErrors \in Nat /\ lostInFrames \in Nat
  /\ lateHarvests \in Nat /\ harvestedByCallback \in Nat
  /\ lock \in {"free", "tick", "usb"}
  /\ tick \in {"none", "sleep", "harvest"}
  /\ usb \in {"loop", "harvest", "fill", "resync", "resubmit", "stop", "drain"}
  /\ cb \in Slots /\ slot \in 0 .. NB /\ starting \in BOOLEAN /\ kr \in BOOLEAN

(* The frames the harvest can still reach: delivered, in a ready transfer, *)
(* at or beyond the harvest cursor.                                        *)
Harvestable ==
  {f \in owed : \E b \in Slots : /\ ready[b] /\ f \in FramesOf(b)
                                 /\ fl[b][f - frame[b]] = "data"
                                 /\ f >= nextHarvestFrame}

(* No frame the HC delivered is lost between the poll, the callback, the   *)
(* recycling of its transfer, a refused submission, a resync jump and an   *)
(* unplug: until it is in the ring, or its transfer came back aborted, the *)
(* harvest can still reach it (harvest_locked, xfer_complete).             *)
NoFrameLost == owed = Harvestable

(* Each frame gets into the ring at most once and in bus order, whichever  *)
(* of the two threads harvests it.                                         *)
RingInOrder ==
  /\ \A k \in 1 .. Len(inRing) : inRing[k] < nextHarvestFrame
  /\ \A k, m \in 1 .. Len(inRing) : k < m => inRing[k] < inRing[m]

(* No audio is taken before its frame is over: a recycled transfer never   *)
(* shows the frame list of its former use (submit_xfer clears it).         *)
NothingEarly == \A k \in 1 .. Len(inRing) : inRing[k] < bus

(* No two queued transfers hold the same bus frame, and the schedule       *)
(* position is beyond them all: find_xfer has at most one answer.          *)
QueueDisjoint ==
  /\ \A b \in Slots : ready[b] \/ inFlight[b] => frame[b] + NF <= nextFrame
  /\ \A b, c \in Slots :
       b # c /\ (ready[b] \/ inFlight[b]) /\ (ready[c] \/ inFlight[c])
         => frame[b] + NF <= frame[c] \/ frame[c] + NF <= frame[b]

(* A transfer leaves the queue with every frame harvested: the counter of  *)
(* frames the callback could not save stays at zero.                       *)
NoLateHarvest == lateHarvests = 0

(* The threads that touch transfer buffers are out when the buffers are    *)
(* freed, also if the abort ran into its time limit.                       *)
ReleasedIsQuiet ==
  ~streaming => /\ tick = "none" /\ lock = "free"
                /\ \A b \in Slots : ~ready[b]

(* Back in the run loop the queue is full, unless a submission failed: a   *)
(* callback refills every idle slot and not only its own.                  *)
QueueFull == usb = "loop" /\ running /\ plugged /\ ~kr
               => \A b \in Slots : inFlight[b]

(* What the HC delivered reaches the ring, or its transfer is dropped,     *)
(* even when a silent frame before it blocks the poll: as long as frames   *)
(* are owed, one is taken again and again (the oldest: RefinesDelivery).   *)
Taken == owed' # owed /\ owed' \subseteq owed
FramesAreTaken == []<><<Taken>>_vars \/ <>[](owed = {})

(* job_stop comes back to the run loop: the join and the drain end.        *)
StopReturns == usb \in {"stop", "drain"} ~> usb = "loop"

(* The stream implements an ordered delivery that drops nothing while the  *)
(* device is there and the engine runs.                                    *)
Delivery == INSTANCE OrderedDelivery
              WITH clock <- bus, up <- running /\ plugged, pending <- owed,
                   log <- inRing
RefinesDelivery == Delivery!Spec
=============================================================================
