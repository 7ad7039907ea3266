------------------------------ MODULE Playback ------------------------------
(***************************************************************************)
(* The playback stream of driver/UA4FX_USB.c.  Transfers are queued ahead  *)
(* of the bus with silence in them, each frame with the positions of the   *)
(* output ring it is to play; the tick thread copies the audio in ("late   *)
(* fill") a few frames before the host controller (HC) fetches it.         *)
(* Positions advance with every packet planned, and are moved to the       *)
(* capture timeline after the schedule slipped ("realign").                *)
(*                                                                         *)
(* Audio is abstracted to its ring position; the host is assumed to have   *)
(* written each position in time, so that the ring is known by the set     *)
(* `consumed` of the positions copied out of it and cleared.  The capture  *)
(* stream is here only as the two counters the realign reads.  Stopping,   *)
(* unplugging and the callback of an aborted transfer are code shared with *)
(* capture, and are modelled in Capture.  Variables that stand for a local *)
(* variable of a function are reset when it returns.                       *)
(*                                                                         *)
(* A definition named X_variant is no part of the model: it is X with a    *)
(* plausible mistake, for which some property below must fail.             *)
(***************************************************************************)
EXTENDS Integers

CONSTANTS
  NF,                  \* e->nf: bus frames in a transfer
  NB,                  \* e->nbufOut: transfers in the queue
  START_LEAD_FRAMES,   \* distance of the first scheduled frame from the bus
  RESYNC_LEAD_FRAMES,  \* the same after falling behind
  outLead,             \* fill this many frames ahead
  POSMAP,              \* entries of the position map
  nominalPerMs,        \* audio frames of a bus frame at the nominal rate
  Packets,             \* sizes the rate accumulator gives a packet
  ESTIMATE_ERROR,      \* of the tick thread's estimate of the bus frame
  Outcomes,            \* how the HC may end a frame
  Faults,              \* why a submission may fail whatever its frame
  Masters,             \* values of captureMaster: is there a capture stream
  FEEDBACK_AFTER,      \* feedback starts after so many captured frames
  REALIGN_LIMIT,       \* phase error that asks for a realign
  MaxFrame             \* bound of the model: the bus stops at this frame

ASSUME PlaybackAssumption ==
  /\ NF \in Nat \ {0} /\ NB \in Nat \ {0} /\ POSMAP \in Nat \ {0}
  /\ NF <= POSMAP
  /\ START_LEAD_FRAMES \in Nat \ {0} /\ RESYNC_LEAD_FRAMES \in Nat \ {0}
  /\ outLead \in Nat \ {0} /\ outLead <= NB * NF - 1
  /\ nominalPerMs \in Nat \ {0} /\ Packets \subseteq Nat /\ Packets # {}
  /\ ESTIMATE_ERROR \in Nat /\ Masters \subseteq BOOLEAN
  /\ Outcomes \subseteq {"sent", "counted", "silent"} /\ Outcomes # {}
  /\ Faults \subseteq {"noResources", "tooNew"}
  /\ FEEDBACK_AFTER \in Nat /\ REALIGN_LIMIT \in Nat /\ MaxFrame \in Nat

Slots == 0 .. NB - 1
Offsets == 0 .. NF - 1

(* A frame-list entry: nothing yet; its audio fetched by the HC; stamped;  *)
(* ended with a byte count but no stamp; or with neither, which looks      *)
(* pending.                                                                *)
Status == {"pending", "fetched", "sent", "counted", "silent"}
frame_finished == {"sent", "counted"}

VARIABLES
  bus,                     \* the bus frame in progress
  fl,                      \* x->fl: the frame list of each transfer
  frame, ready, inFlight,  \* xfer_t
  pos, cnt,                \* x->pos, x->cnt: ring positions planned
  done, buf,               \* x->done; x->buf as the positions copied in
  nextFrame, f0,           \* next frame to schedule, first one of the session
  txSubmitted, posMap, realignRequest,
  nextFillFrame, nextTxPollFrame,
  consumed,                \* positions copied out of outRing and cleared
  captureMaster,
  rxCompleted, lastHarvestFrame, nextHarvestFrame,
  current,                 \* the tick thread's estimate of the bus frame
  lock,                    \* owner of out.lock
  tick,                    \* where the tick thread is
  usb,                     \* where the USB thread is
  slot, starting, again, kr, \* state of stream_fill_queue_locked
  readRx,                  \* rxCompleted as submit_xfer read it
  sent, late               \* history: <<frame, position>> the HC took;
                           \* frames the fill gave up

planVars == <<frame, pos, cnt, done, buf, posMap, txSubmitted>>
queueVars == <<ready, inFlight, nextFrame>>
fillVars == <<nextFillFrame, consumed, late>>
rxVars == <<rxCompleted, lastHarvestFrame, nextHarvestFrame>>
loopVars == <<slot, starting, again, kr, readRx>>
session == <<f0, captureMaster>>
vars == <<bus, fl, planVars, queueVars, fillVars, rxVars, loopVars, session,
          realignRequest, nextTxPollFrame, current, lock, tick, usb, sent>>

----------------------------------------------------------------------------
FramesOf(b) == frame[b] .. frame[b] + NF - 1
find_xfer(f) == {b \in Slots : ready[b] /\ f \in FramesOf(b)}
ReadyAfter(f) == {frame[b] : b \in {c \in Slots : ready[c] /\ frame[c] > f}}
next_ready_frame_after(f, g) ==
  g \in ReadyAfter(f) /\ \A h \in ReadyAfter(f) : g <= h

(* The ring positions that frame i of transfer b is to play.               *)
Audio(b, i) == pos[b][i] .. pos[b][i] + cnt[b][i] - 1

Init ==
  /\ bus = 1 /\ f0 = 0 /\ nextFrame = 0 /\ captureMaster = FALSE
  /\ fl = [b \in Slots |-> [i \in Offsets |-> "pending"]]
  /\ frame = [b \in Slots |-> 0]
  /\ ready = [b \in Slots |-> FALSE] /\ inFlight = [b \in Slots |-> FALSE]
  /\ pos = [b \in Slots |-> [i \in Offsets |-> 0]] /\ cnt = pos
  /\ done = [b \in Slots |-> [i \in Offsets |-> FALSE]]
  /\ buf = [b \in Slots |-> [i \in Offsets |-> {}]]
  /\ posMap = [k \in 0 .. POSMAP - 1 |-> [frame |-> 0, posEnd |-> 0]]
  /\ txSubmitted = 0 /\ realignRequest = FALSE
  /\ nextFillFrame = 0 /\ nextTxPollFrame = 0 /\ consumed = {}
  /\ rxCompleted = 0 /\ lastHarvestFrame = 0 /\ nextHarvestFrame = 0
  /\ current = 0 /\ lock = "free" /\ tick = "none"
  /\ usb = "off"
  /\ slot = 0 /\ starting = FALSE /\ again = FALSE /\ kr = FALSE /\ readRx = 0
  /\ sent = {} /\ late = {}

----------------------------------------------------------------------------
(* The host controller fetches the data of the frame in progress at some   *)
(* moment of it, and stamps its entry, or not, when the frame is over.     *)
OnBus(b) == inFlight[b] /\ bus \in FramesOf(b)

Fetch == \E b \in Slots :
  LET i == bus - frame[b] IN
  /\ OnBus(b) /\ fl[b][i] = "pending"
  /\ fl' = [fl EXCEPT ![b][i] = "fetched"]
  /\ sent' = sent \cup ({bus} \X buf[b][i])
  /\ UNCHANGED <<bus, planVars, queueVars, fillVars, rxVars, loopVars, session,
                 realignRequest, nextTxPollFrame, current, lock, tick,
                 usb>>

BusFrame ==
  /\ bus < MaxFrame /\ bus' = bus + 1
  /\ \/ \E b \in Slots, o \in Outcomes :
          LET i == bus - frame[b] IN
          /\ OnBus(b) /\ fl[b][i] = "fetched"
          /\ fl' = [fl EXCEPT ![b][i] = o]
     \/ (\A b \in Slots : ~OnBus(b)) /\ fl' = fl
  /\ UNCHANGED <<planVars, queueVars, fillVars, rxVars, loopVars, session,
                 realignRequest, nextTxPollFrame, current, lock, tick, usb,
                 sent>>

----------------------------------------------------------------------------
(* submit_xfer for playback.                                               *)

(* The plan of one transfer: each packet takes the next positions, and the *)
(* map gets the end position of each frame.  All of it happens whether or  *)
(* not the kernel then accepts the transfer.                               *)
MapEntry_start(f, p, n) == [frame |-> f, posEnd |-> p]
MapEntry(f, p, n) == [frame |-> f, posEnd |-> p + n]

ClearBuffer_missing(b) == UNCHANGED buf
ClearBuffer(b) == buf' = [buf EXCEPT ![b] = [i \in Offsets |-> {}]]

(* Where each packet starts: the packets before it are played first.       *)
Starts(tx, n) ==
  LET start[i \in 0 .. NF] == IF i = 0 THEN tx ELSE start[i-1] + n[i-1] IN start

Plan(b, tx) ==
  \E n \in [Offsets -> Packets] :
    LET start == Starts(tx, n) IN
    /\ frame' = [frame EXCEPT ![b] = nextFrame]
    /\ pos' = [pos EXCEPT ![b] = [i \in Offsets |-> start[i]]]
    /\ cnt' = [cnt EXCEPT ![b] = n]
    /\ done' = [done EXCEPT ![b] = [i \in Offsets |-> FALSE]]
    /\ ClearBuffer(b)
    /\ fl' = [fl EXCEPT ![b] = [i \in Offsets |-> "pending"]]
    /\ txSubmitted' = start[NF]
    /\ posMap' = [k \in DOMAIN posMap |->
                   IF \E i \in Offsets : (nextFrame + i) % POSMAP = k
                   THEN LET i == CHOOSE i \in Offsets : (nextFrame + i) % POSMAP = k
                        IN MapEntry(nextFrame + i, start[i], n[i])
                   ELSE posMap[k]]

Accepted(b) ==
  /\ nextFrame > bus /\ nextFrame + NF <= MaxFrame
  /\ inFlight' = [inFlight EXCEPT ![b] = TRUE]
  /\ ready' = [ready EXCEPT ![b] = TRUE]
  /\ nextFrame' = nextFrame + NF
  /\ usb' = "fill" /\ slot' = slot + 1 /\ again' = FALSE /\ UNCHANGED kr

(* The kernel is out of resources, or the retry was too old or too new as  *)
(* well.  At MaxFrame the model always refuses.                            *)
Refused ==
  /\ \/ "noResources" \in Faults \/ nextFrame + NF > MaxFrame
     \/ again /\ (nextFrame <= bus \/ "tooNew" \in Faults)
  /\ usb' = "fill" /\ slot' = slot + 1 /\ again' = FALSE /\ kr' = TRUE
  /\ UNCHANGED queueVars

(* IsoTooOld, or IsoTooNew, which the kernel may give to any frame.        *)
TooOld ==
  /\ ~again /\ (nextFrame <= bus \/ "tooNew" \in Faults)
  /\ usb' = "resync" /\ UNCHANGED <<queueVars, slot, again, kr>>

Queue(tx) ==
  /\ Plan(slot, tx)
  /\ Accepted(slot) \/ Refused \/ TooOld
  /\ UNCHANGED <<bus, fillVars, rxVars, session, nextTxPollFrame, current,
                 lock, tick, sent, starting>>

submit_xfer ==
  /\ usb = "fill" /\ slot \in Slots /\ ~inFlight[slot]
  /\ ~(realignRequest /\ captureMaster)
  /\ realignRequest' = FALSE
  /\ Queue(txSubmitted) /\ UNCHANGED readRx

(* A realign reads the two counters of the capture side one after the      *)
(* other; the tick thread may move them in between.                        *)
Realign ==
  /\ usb = "fill" /\ slot \in Slots /\ ~inFlight[slot]
  /\ realignRequest /\ captureMaster
  /\ realignRequest' = FALSE /\ readRx' = rxCompleted /\ usb' = "place"
  /\ UNCHANGED <<bus, fl, planVars, queueVars, fillVars, rxVars, session,
                 slot, starting, again, kr, nextTxPollFrame, current, lock,
                 tick, sent>>

Ahead_offByOne == nextFrame - lastHarvestFrame
Ahead == IF nextFrame <= lastHarvestFrame THEN 0
         ELSE nextFrame - lastHarvestFrame - 1

Place ==
  /\ usb = "place"
  /\ Queue(readRx + Ahead * nominalPerMs)
  /\ readRx' = 0 /\ UNCHANGED realignRequest

SkipSlot ==
  /\ usb = "fill" /\ slot \in Slots /\ inFlight[slot]
  /\ slot' = slot + 1
  /\ UNCHANGED <<bus, fl, planVars, queueVars, fillVars, rxVars, session,
                 starting, again, kr, readRx, realignRequest, nextTxPollFrame,
                 current, lock, tick, usb, sent>>

(* stream_resync: the bus frame can be read, or nothing moves.             *)
stream_resync ==
  LET R == bus + RESYNC_LEAD_FRAMES IN
  /\ usb = "resync" /\ usb' = "fill" /\ again' = TRUE
  /\ \/ /\ nextFrame' = IF R > nextFrame THEN R ELSE nextFrame
        /\ realignRequest' = TRUE
     \/ UNCHANGED <<nextFrame, realignRequest>>
  /\ UNCHANGED <<bus, fl, planVars, ready, inFlight, fillVars, rxVars, session,
                 slot, starting, kr, readRx, nextTxPollFrame, current, lock,
                 tick, sent>>

FillReturns ==
  /\ usb = "fill" /\ slot = NB /\ ~starting
  /\ usb' = "loop" /\ lock' = "free" /\ slot' = 0 /\ kr' = FALSE
  /\ UNCHANGED <<bus, fl, planVars, queueVars, fillVars, rxVars, session,
                 starting, again, readRx, realignRequest, nextTxPollFrame,
                 current, tick, sent>>

(* xfer_complete for playback, in the order of the bus; the statistics it  *)
(* counts are left out.  The slot goes back to the queue.                  *)
Oldest(b) == inFlight[b] /\ \A c \in Slots : inFlight[c] => frame[b] <= frame[c]
Complete(b) == \A i \in Offsets : fl[b][i] \notin {"pending", "fetched"}
Due(b) == Oldest(b) /\ Complete(b)

xfer_complete(b) ==
  /\ usb = "loop" /\ lock = "free" /\ Due(b)
  /\ inFlight' = [inFlight EXCEPT ![b] = FALSE]
  /\ ready' = [ready EXCEPT ![b] = FALSE]
  /\ lock' = "usb" /\ usb' = "fill"
  /\ UNCHANGED <<bus, fl, planVars, nextFrame, fillVars, rxVars, loopVars,
                 session, realignRequest, nextTxPollFrame, current,
                 tick, sent>>

----------------------------------------------------------------------------
(* job_start: new buffers and counters.  Nothing says where capture is:    *)
(* lastHarvestFrame is 0.                                                  *)
job_start ==
  /\ usb = "off" /\ usb' = "fill" /\ lock' = "usb"
  /\ captureMaster' \in Masters
  /\ f0' = bus + START_LEAD_FRAMES
  /\ nextFrame' = f0' /\ nextHarvestFrame' = f0'
  /\ nextFillFrame' = f0' /\ nextTxPollFrame' = f0'
  /\ rxCompleted' = 0 /\ lastHarvestFrame' = 0 /\ txSubmitted' = 0
  /\ posMap' = [k \in DOMAIN posMap |-> [frame |-> 0, posEnd |-> 0]]
  /\ realignRequest' = FALSE /\ consumed' = {} /\ sent' = {} /\ late' = {}
  /\ starting' = TRUE
  /\ fl' = [b \in Slots |-> [i \in Offsets |-> "pending"]]
  /\ buf' = [b \in Slots |-> [i \in Offsets |-> {}]]
  /\ UNCHANGED <<bus, frame, pos, cnt, done, ready, inFlight, current,
                 tick, slot, again, kr, readRx>>

(* The tick thread starts, unless a submission failed: then the stream is  *)
(* stopped again and its transfers are aborted.                            *)
Started ==
  /\ usb = "fill" /\ slot = NB /\ starting
  /\ starting' = FALSE /\ lock' = "free" /\ slot' = 0 /\ kr' = FALSE
  /\ \/ /\ ~kr /\ usb' = "loop" /\ tick' = "sleep"
        /\ UNCHANGED <<ready, inFlight>>
     \/ /\ kr /\ usb' = "off" /\ tick' = tick
        /\ ready' = [b \in Slots |-> FALSE]
        /\ inFlight' = [b \in Slots |-> FALSE]
  /\ UNCHANGED <<bus, fl, planVars, nextFrame, fillVars, rxVars, session,
                 again, readRx, realignRequest, nextTxPollFrame, current, sent>>

----------------------------------------------------------------------------
(* tick_thread.  It estimates the current frame when it wakes up, harvests *)
(* capture, then polls and fills playback under out.lock.                  *)

TickWake ==
  /\ tick = "sleep"
  /\ \E e \in -ESTIMATE_ERROR .. ESTIMATE_ERROR : current' = bus + e
  /\ tick' = IF captureMaster THEN "harvest" ELSE "lock"
  /\ UNCHANGED <<bus, fl, planVars, queueVars, fillVars, rxVars, loopVars,
                 session, realignRequest, nextTxPollFrame, lock, usb,
                 sent>>

(* harvest_locked stores the audio count first and the frame later.        *)
HarvestCount ==
  /\ tick = "harvest" /\ nextHarvestFrame < bus
  /\ rxCompleted' = rxCompleted + nominalPerMs /\ tick' = "mark"
  /\ UNCHANGED <<bus, fl, planVars, queueVars, fillVars, lastHarvestFrame,
                 nextHarvestFrame, loopVars, session, realignRequest,
                 nextTxPollFrame, current, lock, usb, sent>>

(* The implicit feedback: the phase error at the frame just harvested, if  *)
(* the map still has it.  A large one asks for a realign, unless there was *)
(* one in the last 100 ms; a small one changes the rate, that is, Packets. *)
Feedback(rx) ==
  LET F == nextHarvestFrame
      entry == posMap[F % POSMAP]
      err == entry.posEnd - rx IN
  \/ /\ F - f0 + 1 >= FEEDBACK_AFTER /\ usb # "off"
     /\ entry.frame = F /\ (err > REALIGN_LIMIT \/ err < -REALIGN_LIMIT)
     /\ realignRequest' = TRUE
  \/ UNCHANGED realignRequest

HarvestMark ==
  /\ tick = "mark" /\ tick' = "harvest"
  /\ lastHarvestFrame' = nextHarvestFrame
  /\ nextHarvestFrame' = nextHarvestFrame + 1
  /\ Feedback(rxCompleted)
  /\ UNCHANGED <<bus, fl, planVars, queueVars, fillVars, rxCompleted, loopVars,
                 session, nextTxPollFrame, current, lock, usb, sent>>

HarvestEnds ==
  /\ tick = "harvest" /\ nextHarvestFrame >= bus /\ tick' = "lock"
  /\ UNCHANGED <<bus, fl, planVars, queueVars, fillVars, rxVars, loopVars,
                 session, realignRequest, nextTxPollFrame, current, lock, usb, sent>>

(* A completion callback of capture harvests as well, in the USB thread.   *)
CallbackHarvest ==
  /\ usb = "loop" /\ captureMaster /\ tick \notin {"harvest", "mark"}
  /\ nextHarvestFrame < bus
  /\ rxCompleted' = rxCompleted + nominalPerMs
  /\ lastHarvestFrame' = nextHarvestFrame
  /\ nextHarvestFrame' = nextHarvestFrame + 1
  /\ Feedback(rxCompleted')
  /\ UNCHANGED <<bus, fl, planVars, queueVars, fillVars, loopVars, session,
                 nextTxPollFrame, current, lock, tick, usb, sent>>

----------------------------------------------------------------------------
(* poll_tx_locked: without capture, the stamped playback frames are the    *)
(* device clock.  With capture the poll moves a cursor that nothing reads, *)
(* and is left out.                                                        *)
TickLock ==
  /\ tick = "lock" /\ lock = "free" /\ lock' = "tick" /\ tick' = "poll"
  /\ UNCHANGED <<bus, fl, planVars, queueVars, fillVars, rxVars, loopVars,
                 session, realignRequest, nextTxPollFrame, current,
                 usb, sent>>

PollFrame == \E b \in find_xfer(nextTxPollFrame) :
  LET i == nextTxPollFrame - frame[b] IN
  /\ fl[b][i] \in frame_finished
  /\ nextTxPollFrame' = nextTxPollFrame + 1
  /\ rxCompleted' = rxCompleted + IF fl[b][i] = "sent" THEN cnt[b][i] ELSE 0

PollGap_counted(g) ==
  /\ nextTxPollFrame' = g
  /\ rxCompleted' = rxCompleted + (g - nextTxPollFrame) * nominalPerMs
PollGap(g) == nextTxPollFrame' = g /\ UNCHANGED rxCompleted

PollStep ==
  \/ PollFrame
  \/ /\ find_xfer(nextTxPollFrame) = {}
     /\ \E g \in ReadyAfter(nextTxPollFrame) :
          next_ready_frame_after(nextTxPollFrame, g) /\ PollGap(g)

TickPoll ==
  /\ tick = "poll" /\ ~captureMaster /\ PollStep
  /\ UNCHANGED <<bus, fl, planVars, queueVars, fillVars, lastHarvestFrame,
                 nextHarvestFrame, loopVars, session, realignRequest, current,
                 lock, tick, usb, sent>>

PollReturns ==
  \/ captureMaster
  \/ \E b \in find_xfer(nextTxPollFrame) :
       fl[b][nextTxPollFrame - frame[b]] \notin frame_finished
  \/ find_xfer(nextTxPollFrame) = {} /\ ReadyAfter(nextTxPollFrame) = {}

(* fill_locked begins: frames before the current one are given up.         *)
GiveUp == {f \in f0 .. MaxFrame + 1 : nextFillFrame <= f /\ f < current}
BeginFill ==
  /\ tick = "poll" /\ PollReturns /\ tick' = "fill"
  /\ nextFillFrame' = IF nextFillFrame < current THEN current ELSE nextFillFrame
  /\ late' = late \cup GiveUp
  /\ UNCHANGED <<bus, fl, planVars, queueVars, consumed, rxVars, loopVars,
                 session, realignRequest, nextTxPollFrame, current, lock, usb, sent>>

target_short == current + outLead - 1
target == current + outLead

(* The copy clears what it took from the ring.                             *)
Cleared_kept(b, i) == consumed
Cleared(b, i) == consumed \cup Audio(b, i)

FillFrame == \E b \in find_xfer(nextFillFrame) :
  LET i == nextFillFrame - frame[b] IN
  /\ nextFillFrame <= target
  /\ buf' = IF done[b][i] THEN buf
            ELSE [buf EXCEPT ![b][i] = Audio(b, i) \ consumed]
  /\ consumed' = IF done[b][i] THEN consumed ELSE Cleared(b, i)
  /\ done' = [done EXCEPT ![b][i] = TRUE]
  /\ nextFillFrame' = nextFillFrame + 1
  /\ UNCHANGED <<frame, pos, cnt, posMap, txSubmitted>>

FillJump ==
  /\ nextFillFrame <= target /\ find_xfer(nextFillFrame) = {}
  /\ \E g \in ReadyAfter(nextFillFrame) :
       /\ next_ready_frame_after(nextFillFrame, g) /\ g <= target
       /\ nextFillFrame' = g
  /\ UNCHANGED <<planVars, consumed>>

TickFill ==
  /\ tick = "fill"
  /\ FillFrame \/ FillJump
  /\ UNCHANGED <<bus, fl, queueVars, late, rxVars, loopVars, session,
                 realignRequest, nextTxPollFrame, current, lock, tick,
                 usb, sent>>

(* A frame that is not queued yet is tried again at the next tick.         *)
NotQueued_skipped ==
  /\ find_xfer(nextFillFrame) = {} /\ nextFillFrame' = target + 1
NotQueued ==
  /\ find_xfer(nextFillFrame) = {}
  /\ \A g \in ReadyAfter(nextFillFrame) : g > target
  /\ UNCHANGED nextFillFrame

TickSleep ==
  /\ tick = "fill"
  /\ \/ nextFillFrame > target /\ UNCHANGED nextFillFrame
     \/ nextFillFrame <= target /\ NotQueued
  /\ tick' = "sleep" /\ lock' = "free" /\ current' = 0
  /\ UNCHANGED <<bus, fl, planVars, queueVars, consumed, late, rxVars,
                 loopVars, session, realignRequest, nextTxPollFrame,
                 usb, sent>>

----------------------------------------------------------------------------
Fill == submit_xfer \/ Realign \/ Place \/ SkipSlot \/ stream_resync
        \/ FillReturns
Harvest == HarvestCount \/ HarvestMark \/ HarvestEnds \/ CallbackHarvest
Deliver == \E b \in Slots : xfer_complete(b)
Next == \/ Fetch \/ BusFrame
        \/ job_start \/ Started \/ Fill \/ Deliver
        \/ TickWake \/ Harvest \/ TickLock \/ TickPoll \/ BeginFill
        \/ TickFill \/ TickSleep
Spec == Init /\ [][Next]_vars

----------------------------------------------------------------------------
TypeOK ==
  /\ bus \in Nat /\ f0 \in Nat /\ nextFrame \in Nat /\ captureMaster \in BOOLEAN
  /\ fl \in [Slots -> [Offsets -> Status]]
  /\ frame \in [Slots -> Nat]
  /\ ready \in [Slots -> BOOLEAN] /\ inFlight \in [Slots -> BOOLEAN]
  /\ pos \in [Slots -> [Offsets -> Nat]] /\ cnt \in [Slots -> [Offsets -> Nat]]
  /\ done \in [Slots -> [Offsets -> BOOLEAN]]
  /\ \A b \in Slots, i \in Offsets : buf[b][i] \subseteq consumed
  /\ posMap \in [0 .. POSMAP - 1 -> [frame : Nat, posEnd : Nat]]
  /\ txSubmitted \in Nat /\ realignRequest \in BOOLEAN
  /\ nextFillFrame \in Nat /\ nextTxPollFrame \in Nat /\ consumed \subseteq Nat
  /\ rxCompleted \in Nat /\ lastHarvestFrame \in Nat /\ nextHarvestFrame \in Nat
  /\ current \in Int /\ lock \in {"free", "tick", "usb"}
  /\ tick \in {"none", "sleep", "harvest", "mark", "lock", "poll", "fill"}
  /\ usb \in {"off", "loop", "fill", "place", "resync"}
  /\ slot \in 0 .. NB /\ starting \in BOOLEAN /\ again \in BOOLEAN
  /\ kr \in BOOLEAN /\ readRx \in Nat
  /\ sent \subseteq Nat \X Nat /\ late \subseteq Nat

(* No audio is played twice: not by a recycled buffer that was not filled  *)
(* in time (submit_xfer clears it), and not when a realign moves the read  *)
(* position back (fill_locked clears what it copied).                      *)
SentOnce == \A s, t \in sent : s[2] = t[2] => s = t

(* A queued frame that the fill cursor has passed was filled, or counted   *)
(* as late: a frame that is queued late is not lost behind the cursor.     *)
NothingSkipped ==
  \A b \in Slots, i \in Offsets :
    ready[b] /\ frame[b] + i < nextFillFrame
      => done[b][i] \/ frame[b] + i \in late

(* What the feedback reads for a frame is the plan of the transfer that    *)
(* carries the frame, also after submissions that failed half-way.         *)
MapIsPlan ==
  \A b \in Slots, i \in Offsets :
    LET entry == posMap[(frame[b] + i) % POSMAP] IN
    ready[b] /\ entry.frame = frame[b] + i
      => entry.posEnd = pos[b][i] + cnt[b][i]

(* A realign "put[s] the read pointer where the capture timeline says this *)
(* frame will be" (UA4FX_USB.c:303): frame f0 is at 0.  What the code does  *)
(* is this place, exactly,                                                  *)
(*  - less what was harvested between its two loads (304), the count first; *)
(*  - plus a frame while the tick thread is between its two stores, the     *)
(*    count first as well (412-413);                                        *)
(*  - plus f0 - 1 frames before the first harvest: lastHarvestFrame is 0    *)
(*    then, and the number of the bus frame is taken for a distance.        *)
Lag == rxCompleted - readRx
HalfStored == IF tick = "mark" THEN nominalPerMs ELSE 0
NoHarvestYet == IF lastHarvestFrame = 0 THEN (f0 - 1) * nominalPerMs ELSE 0

RealignLands ==
  [][usb = "place" /\ inFlight'[slot]
       => pos'[slot][0] = (frame'[slot] - f0) * nominalPerMs
                            - Lag + HalfStored + NoHarvestYet]_vars

(* "Rings are indexed by absolute device sample time" (UA4FX_USB.c:22), and *)
(* without capture the device clock is the audio of the frames polled so    *)
(* far.  Gaps in the schedule and refused transfers move the two apart:     *)
(* the audio read is that of the clock or later, never older.               *)
RingNotBehindClock ==
  ~captureMaster /\ usb = "loop" =>
    \A b \in find_xfer(nextTxPollFrame) :
      pos[b][nextTxPollFrame - frame[b]] >= rxCompleted
=============================================================================
