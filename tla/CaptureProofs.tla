--------------------------- MODULE CaptureProofs ---------------------------
(***************************************************************************)
(* Safety of the capture stream for every size of the queue and of its     *)
(* transfers, every lead and every set of frame outcomes.                  *)
(***************************************************************************)
EXTENDS Capture, TLAPS

(* Who holds in.lock, and which phase of the life cycle each thread is in. *)
Critical == {"harvest", "fill", "resync", "resubmit"}
Locking ==
  /\ lock = "usb" <=> usb \in Critical
  /\ lock = "tick" <=> tick = "harvest"
Phases ==
  /\ running => streaming /\ ~stopping
  /\ usb \in Critical => running
  /\ usb = "stop" => ~running /\ ~stopping /\ ~tickRun /\ streaming
  /\ usb = "drain" => ~running /\ stopping /\ tick = "none"
  /\ usb = "loop" /\ ~running => ~streaming
  /\ tickRun => running /\ tick # "none"
  /\ starting => tick = "none" /\ usb \in Critical \ {"harvest"}
  /\ ~streaming => tick = "none" /\ \A b \in Slots : ~ready[b]

(* A ready transfer is in flight, or the callback is at work on it, and    *)
(* then it is complete and older than every other ready transfer.          *)
QueueShape ==
  /\ \A b \in Slots : ready[b] => inFlight[b] \/ (usb = "harvest" /\ b = cb)
  /\ \A b \in Slots : inFlight[b] => ready[b] \/ stopping
  /\ usb = "harvest" =>
       /\ ready[cb] /\ ~inFlight[cb] /\ Complete(cb)
       /\ \A c \in Slots : ready[c] /\ c # cb => frame[cb] + NF <= frame[c]
  /\ usb \in {"resync", "resubmit"} => slot \in Slots /\ ~inFlight[slot]

(* The harvest cursor splits the queue: the frames below it are done.      *)
Cursor ==
  /\ running => nextHarvestFrame <= nextFrame
  /\ \A b \in Slots, i \in Offsets :
       ready[b] => /\ fl[b][i] # "pending" => frame[b] + i < bus
                   /\ done[b][i] => frame[b] + i < bus
                   /\ done[b][i] <=> frame[b] + i < nextHarvestFrame

Filled ==
  /\ usb \in {"fill", "resync", "resubmit"} /\ ~kr
       => \A b \in Slots : b < slot => inFlight[b]
  /\ QueueFull

(* The history variable lists every delivered frame beyond the cursor.     *)
OwedExact ==
  \A b \in Slots, i \in Offsets :
    /\ ready[b] /\ fl[b][i] = "data" /\ frame[b] + i >= nextHarvestFrame
    => frame[b] + i \in owed

IInv ==
  /\ TypeOK /\ Locking /\ Phases /\ QueueShape /\ QueueDisjoint /\ Cursor
  /\ NoFrameLost /\ RingInOrder /\ NothingEarly /\ NoLateHarvest /\ Filled
  /\ OwedExact

----------------------------------------------------------------------------
(* What one turn of the harvest loop does, in the tick thread or in the    *)
(* callback of the transfer cb.                                            *)
HarvestContext(forced) ==
  forced = {} \/ (usb = "harvest" /\ forced = {cb})

(* A turn that takes a frame takes the one at the cursor, which is over.   *)
LEMMA HarvestFrameFacts ==
  ASSUME TypeOK, QueueShape, Cursor, NEW forced, HarvestContext(forced),
         HarvestFrame(forced)
  PROVE  \E b \in Slots, i \in Offsets :
           /\ ready[b] /\ ~done[b][i]
           /\ frame[b] + i = nextHarvestFrame /\ nextHarvestFrame < bus
           /\ nextHarvestFrame' = nextHarvestFrame + 1
           /\ done' = [done EXCEPT ![b][i] = TRUE]
           /\ inRing' = IF fl[b][i] = "data"
                        THEN Append(inRing, nextHarvestFrame) ELSE inRing
           /\ rxErrors' \in {rxErrors, rxErrors + 1}
           /\ harvestedByCallback' \in
                {harvestedByCallback, harvestedByCallback + 1}
           /\ owed' = owed \ {nextHarvestFrame}
           /\ lostInFrames' = lostInFrames
<1>1. PICK b \in find_xfer(nextHarvestFrame) : HarvestFrame(forced)!(b)
  BY DEF HarvestFrame
<1> DEFINE i == nextHarvestFrame - frame[b]
<1>2. /\ b \in Slots /\ ready[b] /\ i \in Offsets
      /\ frame[b] + i = nextHarvestFrame
  BY CaptureAssumption DEF find_xfer, FramesOf, Offsets, TypeOK
<1>3. ~done[b][i]
  BY <1>2 DEF Cursor, TypeOK
<1>4. frame_finished(fl[b][i], b \in forced)
  BY <1>1, <1>3
<1>5. fl[b][i] # "pending"
  BY <1>2, <1>4 DEF frame_finished, QueueShape, Complete, HarvestContext
<1>6. nextHarvestFrame < bus
  BY <1>2, <1>5 DEF Cursor
<1> QED BY <1>1, <1>2, <1>3, <1>6

(* A jump of the cursor passes over no frame of a ready transfer.          *)
LEMMA HarvestJumpFacts ==
  ASSUME TypeOK, QueueDisjoint, HarvestJump
  PROVE  \E g \in Nat :
           /\ nextHarvestFrame < g /\ g <= nextFrame
           /\ \A b \in Slots :
                ready[b] => \/ frame[b] + NF <= nextHarvestFrame
                            \/ g <= frame[b]
           /\ nextHarvestFrame' = g
           /\ lostInFrames' \in Nat
           /\ UNCHANGED <<done, inRing, rxErrors, harvestedByCallback, owed>>
<1> USE CaptureAssumption
<1>1. PICK g \in ReadyAfter(nextHarvestFrame) :
         /\ next_ready_frame_after(nextHarvestFrame, g)
         /\ nextHarvestFrame' = g
         /\ lostInFrames' = lostInFrames + (g - nextHarvestFrame)
  BY DEF HarvestJump
<1>2. PICK c \in Slots : ready[c] /\ frame[c] = g /\ g > nextHarvestFrame
  BY <1>1 DEF ReadyAfter
<1>3. g \in Nat /\ g <= nextFrame
  BY <1>2 DEF TypeOK, QueueDisjoint
<1>4. ASSUME NEW b \in Slots, ready[b]
      PROVE  frame[b] + NF <= nextHarvestFrame \/ g <= frame[b]
  <2>1. ~(nextHarvestFrame \in FramesOf(b))
    BY <1>4 DEF HarvestJump, find_xfer
  <2>2. frame[b] > nextHarvestFrame => frame[b] \in ReadyAfter(nextHarvestFrame)
    BY <1>4 DEF ReadyAfter
  <2> QED BY <1>1, <1>3, <2>1, <2>2 DEF next_ready_frame_after, FramesOf, TypeOK
<1> QED BY <1>1, <1>2, <1>3, <1>4 DEF HarvestJump, TypeOK

(* No action leaves the types; Recycle and the jump need the queue's shape.*)
LEMMA TypeOKStep ==
  TypeOK /\ QueueShape /\ QueueDisjoint /\ Cursor /\ Next => TypeOK'
<1> SUFFICES ASSUME TypeOK, QueueShape, QueueDisjoint, Cursor, Next
             PROVE  TypeOK'
  OBVIOUS
<1> USE CaptureAssumption DEF bufVars, streamVars, harvestVars, fillVars
<1>1. CASE BusFrame
  <2>1. fl' \in [Slots -> [Offsets -> Status]] /\ owed' \subseteq Nat
    <3>1. CASE UNCHANGED <<fl, owed>>
      BY <3>1 DEF TypeOK
    <3>2. ASSUME NEW b \in Slots, NEW o \in Outcomes, bus \in FramesOf(b),
                 fl' = [fl EXCEPT ![b][bus - frame[b]] = o],
                 owed' = IF o = "data" THEN owed \cup {bus} ELSE owed
          PROVE  fl' \in [Slots -> [Offsets -> Status]] /\ owed' \subseteq Nat
      <4>1. bus - frame[b] \in Offsets
        BY <3>2 DEF TypeOK, FramesOf, Offsets
      <4>2. o \in Status
        BY CaptureAssumption
      <4> QED BY <3>2, <4>1, <4>2 DEF TypeOK
    <3> QED BY <1>1, <3>1, <3>2 DEF BusFrame
  <2> QED BY <1>1, <2>1 DEF TypeOK, BusFrame
<1>2. CASE submit_xfer
  <2>1. slot + 1 \in 0 .. NB /\ nextFrame + NF \in Nat
    BY <1>2 DEF submit_xfer, Slots, TypeOK
  <2>2. "pending" \in Status
    BY DEF Status
  <2>3. fl' \in [Slots -> [Offsets -> Status]]
    BY <1>2, <2>2 DEF submit_xfer, Prepare, TypeOK
  <2>4. done' \in [Slots -> [Offsets -> BOOLEAN]] /\ frame' \in [Slots -> Nat]
    BY <1>2 DEF submit_xfer, Prepare, TypeOK
  <2> QED BY <1>2, <2>1, <2>3, <2>4 DEF TypeOK, submit_xfer, Accepted, Refused
<1>3. CASE resubmit_xfer
  <2>1. slot + 1 \in 0 .. NB /\ nextFrame + NF \in Nat
    BY <1>3 DEF resubmit_xfer, Slots, TypeOK, QueueShape
  <2>2. "pending" \in Status
    BY DEF Status
  <2>3. fl' \in [Slots -> [Offsets -> Status]]
    BY <1>3, <2>2 DEF resubmit_xfer, Prepare, TypeOK
  <2>4. done' \in [Slots -> [Offsets -> BOOLEAN]] /\ frame' \in [Slots -> Nat]
    BY <1>3 DEF resubmit_xfer, Prepare, TypeOK
  <2> QED BY <1>3, <2>1, <2>3, <2>4 DEF TypeOK, resubmit_xfer, Accepted, Refused
<1>4. CASE SkipSlot
  BY <1>4 DEF TypeOK, SkipSlot, Slots
<1>5. CASE stream_resync
  BY <1>5 DEF TypeOK, stream_resync
<1>6. CASE Deliver
  BY <1>6 DEF TypeOK, Deliver, Discard, xfer_complete, Callback
<1>7. ASSUME NEW forced, HarvestContext(forced), HarvestStep(forced)
      PROVE  TypeOK'
  <2>1. CASE HarvestFrame(forced)
    <3>1. PICK b \in Slots, i \in Offsets :
            /\ done' = [done EXCEPT ![b][i] = TRUE]
            /\ nextHarvestFrame' = nextHarvestFrame + 1
            /\ inRing' = IF fl[b][i] = "data"
                         THEN Append(inRing, nextHarvestFrame) ELSE inRing
            /\ rxErrors' \in {rxErrors, rxErrors + 1}
            /\ harvestedByCallback' \in
                 {harvestedByCallback, harvestedByCallback + 1}
            /\ owed' = owed \ {nextHarvestFrame}
            /\ lostInFrames' = lostInFrames
      BY <1>7, <2>1, HarvestFrameFacts
    <3>2. done' \in [Slots -> [Offsets -> BOOLEAN]]
      BY <3>1 DEF TypeOK
    <3>3. inRing' \in Seq(Nat)
      <4>1. inRing \in Seq(Nat) /\ nextHarvestFrame \in Nat
        BY DEF TypeOK
      <4>2. Append(inRing, nextHarvestFrame) \in Seq(Nat)
        BY <4>1
      <4> QED BY <3>1, <4>1, <4>2
    <3>4. /\ rxErrors' \in Nat /\ harvestedByCallback' \in Nat
          /\ lostInFrames' \in Nat /\ nextHarvestFrame' \in Nat
          /\ owed' \subseteq Nat
      BY <3>1 DEF TypeOK
    <3> QED BY <1>7, <3>2, <3>3, <3>4 DEF TypeOK, HarvestStep
  <2>2. CASE HarvestJump
    <3>1. /\ nextHarvestFrame' \in Nat /\ lostInFrames' \in Nat
          /\ UNCHANGED <<done, inRing, rxErrors, harvestedByCallback, owed>>
      BY <2>2, HarvestJumpFacts
    <3> QED BY <1>7, <3>1 DEF TypeOK, HarvestStep
  <2> QED BY <1>7, <2>1, <2>2 DEF HarvestStep
<1>8. CASE Recycle
  <2>1. lateHarvests' \in Nat /\ slot' \in 0 .. NB
    BY <1>8 DEF TypeOK, Recycle, FirstSlot
  <2>2. kr' \in BOOLEAN
    BY <1>8 DEF Recycle
  <2> QED BY <1>8, <2>1, <2>2 DEF TypeOK, Recycle
<1>9. CASE job_start
  <2>1. anchorFrame' \in Nat /\ nextFrame' \in Nat /\ nextHarvestFrame' \in Nat
    BY <1>9 DEF TypeOK, job_start
  <2>2. stopping' \in BOOLEAN /\ kr' \in BOOLEAN
    BY <1>9 DEF job_start
  <2>3. ready' \in [Slots -> BOOLEAN]
    BY <1>9 DEF job_start
  <2>4. slot' \in 0 .. NB /\ inRing' \in Seq(Nat)
    BY <1>9 DEF job_start
  <2> QED BY <1>9, <2>1, <2>2, <2>3, <2>4 DEF TypeOK, job_start
<1>10. CASE Unplug
  BY <1>10 DEF TypeOK, Unplug
<1>11. CASE Replug
  BY <1>11 DEF TypeOK, Replug
<1>12. CASE FillReturns
  BY <1>12 DEF TypeOK, FillReturns
<1>13. CASE Started
  BY <1>13 DEF TypeOK, Started
<1>14. CASE job_stop
  BY <1>14 DEF TypeOK, job_stop, StopTick
<1>15. CASE stream_stop
  BY <1>15 DEF TypeOK, stream_stop
<1>16. CASE stream_release_buffers
  BY <1>16 DEF TypeOK, stream_release_buffers
<1>17. CASE TickWake
  BY <1>17 DEF TypeOK, TickWake
<1>18. CASE TickSleep
  BY <1>18 DEF TypeOK, TickSleep
<1>19. CASE TickExit
  BY <1>19 DEF TypeOK, TickExit
<1> QED
  BY <1>1, <1>2, <1>3, <1>4, <1>5, <1>6, <1>7, <1>8, <1>9, <1>10, <1>11,
     <1>12, <1>13, <1>14, <1>15, <1>16, <1>17, <1>18, <1>19
     DEF Next, Fill, Stop, CallbackHarvest, TickHarvest, HarvestContext

(* The phases of the two threads follow who holds in.lock.                 *)
LEMMA LockingStep ==
  TypeOK /\ Locking /\ Phases /\ Next => Locking'
<1> SUFFICES ASSUME TypeOK, Locking, Phases, Next PROVE Locking'
  OBVIOUS
<1> USE DEF Locking, Critical
<1>1. CASE UNCHANGED <<lock, tick, usb>>
  BY <1>1
<1>2. CASE submit_xfer \/ stream_resync \/ resubmit_xfer
  BY <1>2 DEF submit_xfer, stream_resync, resubmit_xfer
<1>3. CASE FillReturns \/ Started
  BY <1>3 DEF FillReturns, Started
<1>4. ASSUME NEW b, xfer_complete(b) PROVE Locking'
  BY <1>4 DEF xfer_complete, Callback
<1>5. CASE Recycle
  BY <1>5 DEF Recycle
<1>6. CASE job_start
  BY <1>6 DEF job_start, Phases
<1>8. CASE job_stop \/ Stop
  BY <1>8 DEF job_stop, Stop, stream_stop, stream_release_buffers
<1>7. CASE TickWake \/ TickSleep \/ TickExit
  BY <1>7 DEF TickWake, TickSleep, TickExit
<1> QED
  BY <1>1, <1>2, <1>3, <1>4, <1>5, <1>6, <1>7, <1>8
     DEF Next, Fill, Deliver, BusFrame, Unplug, Replug, SkipSlot, Discard,
         CallbackHarvest, TickHarvest, HarvestStep

(* The life cycle of job_start, job_stop and the tick thread.              *)
LEMMA PhasesStep ==
  TypeOK /\ Locking /\ Phases /\ Next => Phases'
<1> SUFFICES ASSUME TypeOK, Locking, Phases, Next PROVE Phases'
  OBVIOUS
<1> USE DEF Phases, Critical, streamVars, fillVars
<1>1. CASE UNCHANGED <<ready, streamVars, tick, usb, starting>>
  BY <1>1
<1>2. CASE submit_xfer
  BY <1>2 DEF submit_xfer, Accepted, Refused
<1>3. CASE stream_resync \/ resubmit_xfer
  BY <1>3 DEF stream_resync, resubmit_xfer, Accepted, Refused, bufVars
<1>4. CASE FillReturns
  BY <1>4 DEF FillReturns, bufVars
<1>5. CASE Started
  <2>1. ready' = ready
    BY <1>5 DEF Started, bufVars
  <2>2. running /\ tick = "none"
    BY <1>5 DEF Started
  <2>3. UNCHANGED <<stopping, streaming>> /\ ~starting'
    BY <1>5 DEF Started
  <2>4. CASE ~running' /\ usb' = "stop" /\ UNCHANGED <<tickRun, tick>>
    <3>1. ~tickRun
      BY <2>2
    <3> QED BY <2>1, <2>2, <2>3, <2>4, <3>1
  <2>5. CASE tickRun' /\ tick' = "sleep" /\ usb' = "loop" /\ UNCHANGED running
    BY <2>1, <2>2, <2>3, <2>5
  <2> QED BY <1>5, <2>4, <2>5 DEF Started
<1>6. ASSUME NEW b \in Slots, Discard(b) PROVE Phases'
  BY <1>6 DEF Discard, Callback, TypeOK
<1>7. ASSUME NEW b \in Slots, xfer_complete(b) PROVE Phases'
  BY <1>7 DEF xfer_complete, Callback
<1>8. CASE Recycle
  BY <1>8 DEF Recycle
<1>9. CASE job_start
  BY <1>9 DEF job_start, Locking
<1>10. CASE job_stop
  BY <1>10 DEF job_stop, StopTick, bufVars
<1>11. CASE stream_stop
  BY <1>11 DEF stream_stop, JoinGuard, bufVars
<1>12. CASE stream_release_buffers
  BY <1>12 DEF stream_release_buffers
<1>13. CASE TickWake \/ TickSleep \/ TickExit
  BY <1>13 DEF TickWake, TickSleep, TickExit, bufVars, Locking
<1> QED
  BY <1>1, <1>2, <1>3, <1>4, <1>5, <1>6, <1>7, <1>8, <1>9, <1>10, <1>11,
     <1>12, <1>13
     DEF Next, Fill, Stop, Deliver, BusFrame, Unplug, Replug, SkipSlot,
         CallbackHarvest, TickHarvest, HarvestStep, bufVars

(* Transfers enter and leave the queue in order.                           *)
LEMMA QueueShapeStep ==
  /\ TypeOK /\ Locking /\ Phases /\ QueueShape /\ QueueDisjoint /\ Cursor
  /\ Next
  => QueueShape'
<1> SUFFICES ASSUME TypeOK, Locking, Phases, QueueShape, QueueDisjoint, Cursor,
                    Next
             PROVE  QueueShape'
  OBVIOUS
<1> USE CaptureAssumption 
    DEF QueueShape, Complete, bufVars, streamVars, fillVars
<1>1. CASE UNCHANGED <<fl, frame, ready, inFlight, stopping, usb, cb, slot>>
  BY <1>1
<1>2. CASE BusFrame
  BY <1>2 DEF BusFrame, Phases, Critical, TypeOK, FramesOf, Offsets
<1>3. CASE submit_xfer
  BY <1>3 DEF submit_xfer, Prepare, Accepted, Refused, TypeOK
<1>4. CASE resubmit_xfer
  BY <1>4 DEF resubmit_xfer, Prepare, Accepted, Refused, TypeOK
<1>5. CASE SkipSlot \/ stream_resync \/ FillReturns
  BY <1>5 DEF SkipSlot, stream_resync, FillReturns
<1>6. ASSUME NEW b \in Slots, Discard(b) PROVE QueueShape'
  BY <1>6 DEF Discard, Callback, TypeOK
<1>7. ASSUME NEW b \in Slots, xfer_complete(b) PROVE QueueShape'
  BY <1>7 DEF xfer_complete, Callback, Oldest, QueueDisjoint, TypeOK
<1>8. CASE Recycle
  BY <1>8 DEF Recycle, TypeOK
<1>9. CASE job_start
  BY <1>9 DEF job_start
<1>10. CASE Started \/ job_stop \/ stream_stop
  BY <1>10 DEF Started, job_stop, stream_stop
<1>11. CASE stream_release_buffers
  BY <1>11 DEF stream_release_buffers, Phases
<1> QED
  BY <1>1, <1>2, <1>3, <1>4, <1>5, <1>6, <1>7, <1>8, <1>9, <1>10, <1>11
     DEF Next, Fill, Stop, Deliver, Unplug, Replug, CallbackHarvest,
         TickHarvest, HarvestStep, TickWake, TickSleep, TickExit

(* A submission takes the frames beyond every queued transfer.             *)
LEMMA QueueDisjointStep ==
  /\ TypeOK /\ Phases /\ QueueShape /\ QueueDisjoint /\ Next
  => QueueDisjoint'
<1> SUFFICES ASSUME TypeOK, Phases, QueueShape, QueueDisjoint, Next
             PROVE  QueueDisjoint'
  OBVIOUS
<1> USE CaptureAssumption DEF QueueDisjoint, bufVars
<1>1. CASE UNCHANGED <<frame, ready, inFlight, nextFrame>>
  BY <1>1
<1>2. CASE \E b \in Slots : Prepare(b) /\ ~ready[b] /\ ~inFlight[b]
                             /\ (Accepted(b) \/ Refused)
  BY <1>2 DEF Prepare, Accepted, Refused, TypeOK
<1>3. CASE submit_xfer
  <2>1. ~ready[slot]
    BY <1>3 DEF submit_xfer, QueueShape
  <2>2. CASE Accepted(slot) \/ Refused
    BY <1>2, <1>3, <2>1, <2>2 DEF submit_xfer
  <2>3. CASE UNCHANGED <<inFlight, ready, nextFrame>>
    BY <1>3, <2>1, <2>3 DEF submit_xfer, Prepare, TypeOK
  <2> QED BY <1>3, <2>2, <2>3 DEF submit_xfer
<1>4. CASE resubmit_xfer
  BY <1>2, <1>4 DEF resubmit_xfer, QueueShape
<1>5. CASE stream_resync
  BY <1>5 DEF stream_resync, TypeOK
<1>6. ASSUME NEW b \in Slots,
             inFlight' = [inFlight EXCEPT ![b] = FALSE],
             ready' \in {ready, [ready EXCEPT ![b] = FALSE]},
             UNCHANGED <<frame, nextFrame>>
      PROVE  QueueDisjoint'
  BY <1>6 DEF TypeOK
<1>7. CASE Deliver
  BY <1>6, <1>7 DEF Deliver, Discard, xfer_complete, Callback
<1>8. CASE Recycle
  BY <1>8 DEF Recycle, TypeOK
<1>9. CASE job_start
  BY <1>9 DEF job_start
<1>10. CASE stream_release_buffers
  BY <1>10 DEF stream_release_buffers
<1> QED
  BY <1>1, <1>3, <1>4, <1>5, <1>7, <1>8, <1>9, <1>10
     DEF Next, Fill, Stop, BusFrame, Unplug, Replug, SkipSlot, FillReturns,
         Started, job_stop, stream_stop, CallbackHarvest, TickHarvest,
         HarvestStep, TickWake, TickSleep, TickExit
(* When the harvest of a callback returns, the cursor is past its transfer:*)
(* the harvest stops short only at a frame that is not finished, and all   *)
(* frames of a transfer whose callback fired are.                          *)
LEMMA RecycledIsDone ==
  ASSUME TypeOK, QueueShape, usb = "harvest", HarvestReturns({cb})
  PROVE  nextHarvestFrame >= frame[cb] + NF
<1> USE CaptureAssumption
<1> DEFINE F == nextHarvestFrame
<1>1. ready[cb] /\ cb \in Slots
  BY DEF QueueShape, TypeOK
<1>2. ASSUME NEW b \in find_xfer(F),
             ~frame_finished(fl[b][F - frame[b]], b \in {cb})
      PROVE  F >= frame[cb] + NF
  <2>1. b # cb
    BY <1>2 DEF frame_finished
  <2>2. b \in Slots /\ frame[cb] + NF <= frame[b] /\ frame[b] <= F
    BY <1>2, <2>1 DEF QueueShape, find_xfer, FramesOf, TypeOK
  <2> QED BY <1>1, <2>2 DEF TypeOK
<1>3. CASE find_xfer(F) = {} /\ ReadyAfter(F) = {}
  <2>1. ~(F \in FramesOf(cb)) /\ ~(frame[cb] > F)
    BY <1>1, <1>3 DEF find_xfer, ReadyAfter
  <2> QED BY <1>1, <2>1 DEF FramesOf, TypeOK
<1> QED BY <1>2, <1>3 DEF HarvestReturns

(* The harvest cursor moves past a frame only when the frame is over.      *)
LEMMA CursorStep ==
  /\ TypeOK /\ Locking /\ Phases /\ QueueShape /\ QueueDisjoint /\ Cursor
  /\ Next
  => Cursor'
<1> SUFFICES ASSUME TypeOK, Locking, Phases, QueueShape, QueueDisjoint, Cursor,
                    Next
             PROVE  Cursor'
  OBVIOUS
<1> USE CaptureAssumption DEF Cursor, bufVars, streamVars, harvestVars
<1>1. CASE UNCHANGED <<bus, fl, frame, ready, done, nextFrame, running,
                       nextHarvestFrame>>
  BY <1>1
<1>2. CASE BusFrame
  <2>1. CASE UNCHANGED fl
    BY <1>2, <2>1 DEF BusFrame, TypeOK, Offsets
  <2>2. ASSUME NEW b \in Slots, NEW o, bus \in FramesOf(b),
               fl' = [fl EXCEPT ![b][bus - frame[b]] = o]
        PROVE  Cursor'
    <3>1. bus' = bus + 1 /\ UNCHANGED <<frame, ready, done, nextFrame, running,
                                        nextHarvestFrame>>
      BY <1>2 DEF BusFrame
    <3>2. ASSUME NEW c \in Slots, NEW i \in Offsets, ready[c],
                 fl'[c][i] # "pending"
          PROVE  frame[c] + i < bus + 1
      BY <2>2, <3>2 DEF TypeOK, Offsets, FramesOf
    <3>3. ASSUME NEW c \in Slots, NEW i \in Offsets, ready[c], done[c][i]
          PROVE  frame[c] + i < bus + 1
      BY <3>3 DEF TypeOK, Offsets
    <3> QED BY <3>1, <3>2, <3>3
  <2> QED BY <1>2, <2>1, <2>2 DEF BusFrame
<1>3. ASSUME NEW s \in Slots, ~ready[s], Prepare(s), running,
             UNCHANGED <<bus, running, nextHarvestFrame>>,
             Accepted(s) \/ UNCHANGED <<ready, nextFrame>>
      PROVE  Cursor'
  <2>1. CASE UNCHANGED <<ready, nextFrame>>
    BY <1>3, <2>1 DEF Prepare, TypeOK
  <2>2. CASE Accepted(s)
    <3>1. nextHarvestFrame <= nextFrame /\ nextFrame' = nextFrame + NF
      BY <1>3, <2>2 DEF Accepted
    <3>2. ASSUME NEW c \in Slots, NEW i \in Offsets, ready'[c], c # s
          PROVE  ready[c] /\ UNCHANGED <<frame[c], fl[c][i], done[c][i]>>
      BY <1>3, <2>2, <3>2 DEF Prepare, Accepted, TypeOK
    <3>3. ASSUME NEW i \in Offsets
          PROVE  /\ fl'[s][i] = "pending" /\ ~done'[s][i]
                 /\ ~(frame'[s] + i < nextHarvestFrame)
      BY <1>3, <3>1 DEF Prepare, TypeOK, Offsets
    <3> QED BY <1>3, <3>1, <3>2, <3>3 DEF TypeOK
  <2> QED BY <1>3, <2>1, <2>2
<1>4. CASE submit_xfer \/ resubmit_xfer
  BY <1>3, <1>4 DEF submit_xfer, resubmit_xfer, Refused, QueueShape, Phases,
     Critical
<1>5. CASE stream_resync
  BY <1>5 DEF stream_resync, TypeOK
<1>6. ASSUME NEW forced, HarvestContext(forced), HarvestStep(forced)
      PROVE  Cursor'
  <2> USE <1>6 DEF HarvestStep
  <2>1. CASE HarvestFrame(forced)
    <3>1. PICK b \in Slots, i \in Offsets :
            /\ ready[b] /\ frame[b] + i = nextHarvestFrame
            /\ nextHarvestFrame < bus
            /\ nextHarvestFrame' = nextHarvestFrame + 1
            /\ done' = [done EXCEPT ![b][i] = TRUE]
      BY <2>1, HarvestFrameFacts
    <3>2. ASSUME NEW c \in Slots, NEW j \in Offsets, ready[c]
          PROVE  done'[c][j] <=> frame[c] + j < nextHarvestFrame'
      <4>1. CASE c = b /\ j = i
        BY <3>1, <4>1 DEF TypeOK
      <4>2. CASE c = b /\ j # i
        BY <3>1, <3>2, <4>2 DEF TypeOK, Offsets
      <4>3. CASE c # b
        <5>1. frame[b] + NF <= frame[c] \/ frame[c] + NF <= frame[b]
          BY <3>1, <3>2, <4>3 DEF QueueDisjoint
        <5>2. done'[c][j] = done[c][j]
          BY <3>1, <4>3 DEF TypeOK
        <5>3. frame[c] + j # nextHarvestFrame
          BY <3>1, <5>1 DEF Offsets, TypeOK
        <5>4. done[c][j] <=> frame[c] + j < nextHarvestFrame
          BY <3>2
        <5>5. frame[c] + j < nextHarvestFrame + 1
                <=> frame[c] + j < nextHarvestFrame
          <6>1. frame[c] + j \in Int /\ nextHarvestFrame \in Int
            BY DEF TypeOK, Offsets
          <6> QED BY <5>3, <6>1
        <5> QED BY <3>1, <5>2, <5>4, <5>5
      <4> QED BY <4>1, <4>2, <4>3
    <3>3. nextHarvestFrame' <= nextFrame
      BY <3>1 DEF QueueDisjoint, Offsets, TypeOK
    <3>4. ASSUME NEW c \in Slots, NEW j \in Offsets, ready[c], done'[c][j]
          PROVE  frame[c] + j < bus
      BY <3>1, <3>2, <3>4 DEF TypeOK, Offsets
    <3> QED BY <3>2, <3>3, <3>4
  <2>2. CASE HarvestJump
    <3>1. PICK g \in Nat :
            /\ nextHarvestFrame < g /\ g <= nextFrame
            /\ \A b \in Slots :
                 ready[b] => \/ frame[b] + NF <= nextHarvestFrame
                             \/ g <= frame[b]
            /\ nextHarvestFrame' = g /\ done' = done
      BY <2>2, HarvestJumpFacts
    <3>2. ASSUME NEW c \in Slots, NEW j \in Offsets, ready[c]
          PROVE  frame[c] + j < nextHarvestFrame <=> frame[c] + j < g
      <4>1. frame[c] + NF <= nextHarvestFrame \/ g <= frame[c]
        BY <3>1, <3>2
      <4> QED BY <3>1, <4>1 DEF TypeOK, Offsets
    <3> QED BY <3>1, <3>2
  <2> QED BY <2>1, <2>2
<1>7. ASSUME NEW s \in Slots, ready' = [ready EXCEPT ![s] = FALSE],
             UNCHANGED <<bus, fl, frame, done, nextFrame, running,
                         nextHarvestFrame>>
      PROVE  Cursor'
  BY <1>7 DEF TypeOK
<1>8. ASSUME NEW s \in Slots, Discard(s) \/ xfer_complete(s) PROVE Cursor'
  BY <1>1, <1>7, <1>8 DEF Discard, xfer_complete
<1>9. CASE Recycle
  BY <1>7, <1>9 DEF Recycle, TypeOK
<1>11. CASE job_start
  BY <1>11 DEF job_start, TypeOK
<1>10. CASE Started \/ job_stop \/ stream_release_buffers
  BY <1>10 DEF Started, job_stop, stream_release_buffers
<1> QED
  BY <1>1, <1>2, <1>4, <1>5, <1>6, <1>8, <1>9, <1>10, <1>11
     DEF Next, Fill, Deliver, Stop, Unplug, Replug, SkipSlot,
         FillReturns, stream_stop, CallbackHarvest, TickHarvest, TickWake,
         TickSleep, TickExit, HarvestContext

(* Every action keeps what is owed reachable, or pays or drops it.         *)
LEMMA NoFrameLostStep ==
  /\ TypeOK /\ QueueShape /\ QueueDisjoint /\ Cursor /\ NoFrameLost
  /\ Next
  => NoFrameLost'
<1> SUFFICES ASSUME TypeOK, QueueShape, QueueDisjoint, Cursor, NoFrameLost,
                    Next, NEW f \in owed'
             PROVE  \E b \in Slots : /\ ready'[b]
                                     /\ f \in frame'[b] .. frame'[b] + NF - 1
                                     /\ fl'[b][f - frame'[b]] = "data"
                                     /\ f >= nextHarvestFrame'
  BY DEF NoFrameLost, Harvestable, FramesOf
<1> DEFINE Goal == \E b \in Slots : /\ ready'[b]
                                    /\ f \in frame'[b] .. frame'[b] + NF - 1
                                    /\ fl'[b][f - frame'[b]] = "data"
                                    /\ f >= nextHarvestFrame'
<1> USE CaptureAssumption DEF bufVars, streamVars, harvestVars
<1>0. f \in owed => \E b \in Slots : /\ ready[b] /\ f \in FramesOf(b)
                                     /\ fl[b][f - frame[b]] = "data"
                                     /\ f >= nextHarvestFrame
  BY DEF NoFrameLost, Harvestable
<1>1. CASE UNCHANGED <<fl, frame, ready, nextHarvestFrame, owed>>
  BY <1>0, <1>1 DEF FramesOf
<1>2. CASE BusFrame
  <2>1. CASE UNCHANGED <<fl, owed>>
    BY <1>0, <1>2, <2>1 DEF BusFrame, FramesOf
  <2>2. ASSUME NEW b \in Slots, NEW o, inFlight[b], ~stopping,
               bus \in FramesOf(b),
               fl' = [fl EXCEPT ![b][bus - frame[b]] = o],
               owed' = IF o = "data" THEN owed \cup {bus} ELSE owed
        PROVE  Goal
    <3>1. UNCHANGED <<frame, ready, nextHarvestFrame>>
      BY <1>2 DEF BusFrame
    <3>2. CASE f = bus /\ o = "data"
      <4>1. ready[b] /\ bus - frame[b] \in Offsets
        BY <2>2 DEF QueueShape, FramesOf, Offsets, TypeOK
      <4>2. bus >= nextHarvestFrame
        BY <4>1 DEF Cursor, TypeOK
      <4> QED BY <2>2, <3>1, <3>2, <4>1, <4>2 DEF FramesOf, TypeOK
    <3>3. CASE f \in owed
      <4>1. PICK c \in Slots : /\ ready[c] /\ f \in FramesOf(c)
                               /\ fl[c][f - frame[c]] = "data"
                               /\ f >= nextHarvestFrame
        BY <1>0, <3>3
      <4>2. f - frame[c] \in Offsets
        BY <4>1 DEF FramesOf, Offsets, TypeOK
      <4>3. frame[c] + (f - frame[c]) < bus
        BY <4>1, <4>2 DEF Cursor
      <4>4. f # bus
        BY <4>1, <4>3 DEF FramesOf, TypeOK
      <4>5. fl'[c][f - frame[c]] = "data"
        BY <2>2, <4>1, <4>2, <4>4 DEF TypeOK, FramesOf
      <4> QED BY <3>1, <4>1, <4>5 DEF FramesOf
    <3> QED BY <2>2, <3>2, <3>3
  <2> QED BY <1>2, <2>1, <2>2 DEF BusFrame
<1>3. ASSUME NEW s \in Slots, ~ready[s], Prepare(s), owed' = owed,
             UNCHANGED nextHarvestFrame,
             Accepted(s) \/ UNCHANGED ready
      PROVE  Goal
  BY <1>0, <1>3 DEF Prepare, Accepted, FramesOf, TypeOK
<1>4. CASE submit_xfer
  BY <1>3, <1>4 DEF submit_xfer, Refused, QueueShape
<1>5. CASE resubmit_xfer
  BY <1>3, <1>5 DEF resubmit_xfer, Refused, QueueShape
<1>6. ASSUME NEW forced, HarvestContext(forced), HarvestStep(forced)
      PROVE  Goal
  <2> USE <1>6 DEF HarvestStep
  <2>1. CASE HarvestFrame(forced)
    <3>1. nextHarvestFrame' = nextHarvestFrame + 1
          /\ owed' = owed \ {nextHarvestFrame}
      BY <2>1, HarvestFrameFacts
    <3> QED BY <1>0, <3>1 DEF FramesOf, TypeOK
  <2>2. CASE HarvestJump
    <3>1. PICK g \in Nat :
            /\ nextHarvestFrame < g
            /\ \A b \in Slots :
                 ready[b] => \/ frame[b] + NF <= nextHarvestFrame
                             \/ g <= frame[b]
            /\ nextHarvestFrame' = g /\ owed' = owed
      BY <2>2, HarvestJumpFacts
    <3>2. PICK b \in Slots : /\ ready[b] /\ f \in FramesOf(b)
                             /\ fl[b][f - frame[b]] = "data"
                             /\ f >= nextHarvestFrame
      BY <1>0, <3>1
    <3>3. frame[b] + NF <= nextHarvestFrame \/ g <= frame[b]
      BY <3>1, <3>2
    <3>4. f >= g
      BY <3>1, <3>2, <3>3 DEF FramesOf, TypeOK
    <3> QED BY <3>1, <3>2, <3>4 DEF FramesOf
  <2> QED BY <2>1, <2>2
<1>7. ASSUME NEW b \in Slots, Discard(b) PROVE Goal
  BY <1>0, <1>7 DEF Discard, FramesOf, TypeOK
<1>8. ASSUME NEW b \in Slots, xfer_complete(b) PROVE Goal
  BY <1>0, <1>8 DEF xfer_complete, FramesOf, TypeOK
<1>9. CASE Recycle
  <2>1. nextHarvestFrame >= frame[cb] + NF
    BY <1>9, RecycledIsDone DEF Recycle
  <2> QED BY <1>0, <1>9, <2>1 DEF Recycle, FramesOf, TypeOK
<1>10. CASE job_start \/ stream_release_buffers
  BY <1>10 DEF job_start, stream_release_buffers
<1> QED
  BY <1>1, <1>2, <1>4, <1>5, <1>6, <1>7, <1>8, <1>9, <1>10
     DEF Next, Fill, Deliver, Stop, Unplug, Replug, SkipSlot, stream_resync,
         FillReturns, Started, job_stop, stream_stop, CallbackHarvest,
         TickHarvest, TickWake, TickSleep, TickExit, HarvestContext

(* The ring only grows, by the frame at the cursor.                        *)
LEMMA RingInOrderStep ==
  TypeOK /\ QueueShape /\ QueueDisjoint /\ Cursor /\ RingInOrder /\ Next
  => RingInOrder'
<1> SUFFICES ASSUME TypeOK, QueueShape, QueueDisjoint, Cursor, RingInOrder,
                    Next
             PROVE  RingInOrder'
  OBVIOUS
<1> USE DEF RingInOrder, harvestVars
<1>1. CASE UNCHANGED <<inRing, nextHarvestFrame>>
  BY <1>1
<1>2. ASSUME NEW forced, HarvestContext(forced), HarvestStep(forced)
      PROVE  RingInOrder'
  <2>1. CASE HarvestFrame(forced)
    <3>1. /\ nextHarvestFrame' = nextHarvestFrame + 1
          /\ inRing' = inRing \/ inRing' = Append(inRing, nextHarvestFrame)
      BY <1>2, <2>1, HarvestFrameFacts
    <3>2. CASE inRing' = inRing
      BY <3>1, <3>2 DEF TypeOK
    <3>3. CASE inRing' = Append(inRing, nextHarvestFrame)
      BY <3>1, <3>3 DEF TypeOK
    <3> QED BY <3>1, <3>2, <3>3
  <2>2. CASE HarvestJump
    <3>1. nextHarvestFrame' > nextHarvestFrame /\ nextHarvestFrame' \in Nat
          /\ inRing' = inRing
      BY <2>2, HarvestJumpFacts
    <3> QED BY <3>1 DEF TypeOK
  <2> QED BY <1>2, <2>1, <2>2 DEF HarvestStep
<1>3. CASE job_start
  BY <1>3 DEF job_start
<1> QED
  BY <1>1, <1>2, <1>3
     DEF Next, Fill, Deliver, Stop, BusFrame, Unplug, Replug, submit_xfer,
         SkipSlot, stream_resync, resubmit_xfer, FillReturns, Discard,
         xfer_complete, CallbackHarvest, Recycle, Started, job_stop,
         stream_stop, stream_release_buffers, TickWake, TickHarvest,
         TickSleep, TickExit, HarvestContext

(* A frame that goes into the ring is older than the bus.                  *)
LEMMA NothingEarlyStep ==
  TypeOK /\ QueueShape /\ QueueDisjoint /\ Cursor /\ NothingEarly /\ Next
  => NothingEarly'
<1> SUFFICES ASSUME TypeOK, QueueShape, QueueDisjoint, Cursor, NothingEarly,
                    Next
             PROVE  NothingEarly'
  OBVIOUS
<1> USE DEF NothingEarly, harvestVars
<1>1. CASE UNCHANGED <<inRing, bus>>
  BY <1>1
<1>2. CASE BusFrame
  BY <1>2 DEF BusFrame, TypeOK
<1>3. ASSUME NEW forced, HarvestContext(forced), HarvestStep(forced)
      PROVE  NothingEarly'
  <2>1. CASE HarvestFrame(forced)
    <3>1. /\ nextHarvestFrame < bus
          /\ inRing' = inRing \/ inRing' = Append(inRing, nextHarvestFrame)
      BY <1>3, <2>1, HarvestFrameFacts
    <3>2. bus' = bus
      BY <1>3 DEF HarvestStep
    <3> QED BY <3>1, <3>2 DEF TypeOK
  <2>2. CASE HarvestJump
    BY <1>3, <2>2 DEF HarvestStep, HarvestJump
  <2> QED BY <1>3, <2>1, <2>2 DEF HarvestStep
<1>4. CASE job_start
  BY <1>4 DEF job_start
<1> QED
  BY <1>1, <1>2, <1>3, <1>4
     DEF Next, Fill, Deliver, Stop, Unplug, Replug, submit_xfer,
         SkipSlot, stream_resync, resubmit_xfer, FillReturns, Discard,
         xfer_complete, CallbackHarvest, Recycle, Started, job_stop,
         stream_stop, stream_release_buffers, TickWake, TickHarvest,
         TickSleep, TickExit, HarvestContext

(* Recycling finds every frame of its transfer done.                       *)
LEMMA NoLateHarvestStep ==
  TypeOK /\ QueueShape /\ Cursor /\ NoLateHarvest /\ Next => NoLateHarvest'
<1> SUFFICES ASSUME TypeOK, QueueShape, Cursor, NoLateHarvest, Next
             PROVE  NoLateHarvest'
  OBVIOUS
<1> USE DEF NoLateHarvest
<1>1. CASE UNCHANGED lateHarvests
  BY <1>1
<1>2. CASE Recycle
  <2>1. nextHarvestFrame >= frame[cb] + NF /\ ready[cb] /\ cb \in Slots
    BY <1>2, RecycledIsDone DEF Recycle, QueueShape, TypeOK
  <2>2. \A i \in Offsets : done[cb][i]
    BY <2>1, CaptureAssumption DEF Cursor, Offsets, TypeOK
  <2> QED BY <1>2, <2>2 DEF Recycle
<1>3. CASE job_start
  BY <1>3 DEF job_start
<1> QED
  BY <1>1, <1>2, <1>3
     DEF Next, Fill, Deliver, Stop, BusFrame, Unplug, Replug, submit_xfer,
         SkipSlot, stream_resync, resubmit_xfer, FillReturns, Discard,
         xfer_complete, CallbackHarvest, Started, job_stop, stream_stop,
         stream_release_buffers, TickWake, TickHarvest, HarvestStep,
         TickSleep, TickExit

(* The fill loop leaves no slot idle behind it, unless it failed.          *)
LEMMA FilledStep ==
  TypeOK /\ Phases /\ QueueShape /\ Filled /\ Next => Filled'
<1> SUFFICES ASSUME TypeOK, Phases, QueueShape, Filled, Next PROVE Filled'
  OBVIOUS
<1> USE CaptureAssumption
    DEF Filled, QueueFull, bufVars, streamVars, fillVars
<1>1. CASE UNCHANGED <<inFlight, usb, running, plugged, kr, slot>>
  BY <1>1
<1>2. CASE submit_xfer
  <2>1. CASE Accepted(slot) \/ Refused
    BY <1>2, <2>1 DEF submit_xfer, Accepted, Refused, TypeOK, Slots
  <2>2. CASE UNCHANGED <<inFlight, kr, slot>>
    BY <1>2, <2>2 DEF submit_xfer
  <2> QED BY <1>2, <2>1, <2>2 DEF submit_xfer
<1>3. CASE resubmit_xfer
  BY <1>3 DEF resubmit_xfer, Accepted, Refused, TypeOK, Slots, QueueShape
<1>4. CASE SkipSlot
  BY <1>4 DEF SkipSlot, TypeOK, Slots
<1>5. CASE stream_resync
  BY <1>5 DEF stream_resync
<1>6. CASE FillReturns \/ Started
  BY <1>6 DEF FillReturns, Started, Slots
<1>7. ASSUME NEW b \in Slots, Discard(b) PROVE Filled'
  <2>1. usb' = usb /\ usb \in {"loop", "drain"}
    BY <1>7 DEF Discard, Callback
  <2>2. ~(running' /\ plugged')
    BY <1>7, <2>1 DEF Discard, Aborted, Phases
  <2> QED BY <2>1, <2>2
<1>8. ASSUME NEW b \in Slots, xfer_complete(b) PROVE Filled'
  BY <1>8 DEF xfer_complete
<1>9. CASE Recycle
  BY <1>9 DEF Recycle, FirstSlot, Slots
<1>10. CASE job_start
  BY <1>10 DEF job_start, Slots
<1>11. CASE Unplug \/ Replug
  BY <1>11 DEF Unplug, Replug
<1>12. CASE job_stop \/ Stop
  BY <1>12 DEF job_stop, Stop, stream_stop, stream_release_buffers, Phases
<1> QED
  BY <1>1, <1>2, <1>3, <1>4, <1>5, <1>6, <1>7, <1>8, <1>9, <1>10, <1>11, <1>12
     DEF Next, Fill, Deliver, BusFrame, CallbackHarvest, TickWake,
         TickHarvest, HarvestStep, TickSleep, TickExit

(* Audio beyond the cursor stays owed.                                     *)
LEMMA OwedExactStep ==
  /\ TypeOK /\ QueueShape /\ QueueDisjoint /\ Cursor /\ OwedExact /\ Next
  => OwedExact'
<1> SUFFICES ASSUME TypeOK, QueueShape, QueueDisjoint, Cursor, OwedExact, Next
             PROVE  OwedExact'
  OBVIOUS
<1> USE CaptureAssumption DEF OwedExact, bufVars, streamVars, harvestVars
<1>1. CASE UNCHANGED <<fl, frame, ready, nextHarvestFrame, owed>>
  BY <1>1
<1>2. CASE BusFrame
  <2>1. CASE UNCHANGED <<fl, owed>>
    BY <1>2, <2>1 DEF BusFrame
  <2>2. ASSUME NEW b \in Slots, NEW o, bus \in FramesOf(b),
               fl' = [fl EXCEPT ![b][bus - frame[b]] = o],
               owed' = IF o = "data" THEN owed \cup {bus} ELSE owed
        PROVE  OwedExact'
    <3>1. UNCHANGED <<frame, ready, nextHarvestFrame>>
      BY <1>2 DEF BusFrame
    <3>2. bus - frame[b] \in Offsets
      BY <2>2 DEF FramesOf, Offsets, TypeOK
    <3>3. ASSUME NEW c \in Slots, NEW i \in Offsets, fl'[c][i] = "data"
          PROVE  fl[c][i] = "data" \/ (frame[c] + i = bus /\ bus \in owed')
      <4>1. CASE c = b /\ i = bus - frame[b]
        <5>1. o = "data"
          BY <2>2, <3>2, <3>3, <4>1 DEF TypeOK
        <5> QED BY <2>2, <4>1, <5>1 DEF TypeOK, Offsets
      <4>2. CASE ~(c = b /\ i = bus - frame[b])
        BY <2>2, <3>2, <3>3, <4>2 DEF TypeOK
      <4> QED BY <4>1, <4>2
    <3> QED BY <2>2, <3>1, <3>3
  <2> QED BY <1>2, <2>1, <2>2 DEF BusFrame
<1>3. ASSUME NEW s \in Slots, ~ready[s], Prepare(s), owed' = owed,
             UNCHANGED nextHarvestFrame,
             Accepted(s) \/ UNCHANGED ready
      PROVE  OwedExact'
  BY <1>3 DEF Prepare, Accepted, TypeOK
<1>4. CASE submit_xfer \/ resubmit_xfer
  BY <1>3, <1>4 DEF submit_xfer, resubmit_xfer, Refused, QueueShape
<1>5. ASSUME NEW forced, HarvestContext(forced), HarvestStep(forced)
      PROVE  OwedExact'
  <2> USE <1>5 DEF HarvestStep
  <2>1. CASE HarvestFrame(forced)
    <3>1. nextHarvestFrame' = nextHarvestFrame + 1
          /\ owed' = owed \ {nextHarvestFrame}
      BY <2>1, HarvestFrameFacts
    <3> QED BY <3>1 DEF TypeOK, Offsets
  <2>2. CASE HarvestJump
    <3>1. /\ nextHarvestFrame' > nextHarvestFrame /\ nextHarvestFrame' \in Nat
          /\ owed' = owed
      BY <2>2, HarvestJumpFacts
    <3> QED BY <3>1 DEF TypeOK, Offsets
  <2> QED BY <2>1, <2>2
<1>6. ASSUME NEW s \in Slots, Discard(s) PROVE OwedExact'
  <2>1. /\ ready' = [ready EXCEPT ![s] = FALSE] /\ inFlight[s]
        /\ owed' = owed \ FramesOf(s)
        /\ UNCHANGED <<fl, frame, nextHarvestFrame>>
    BY <1>6 DEF Discard, Callback, Oldest
  <2>2. ASSUME NEW c \in Slots, NEW i \in Offsets, ready'[c]
        PROVE  ready[c] /\ ~(frame[c] + i \in FramesOf(s))
    <3>1. c # s /\ ready[c]
      BY <2>1, <2>2 DEF TypeOK
    <3>2. frame[c] + NF <= frame[s] \/ frame[s] + NF <= frame[c]
      BY <2>1, <3>1 DEF QueueDisjoint
    <3> QED BY <3>1, <3>2 DEF FramesOf, Offsets, TypeOK
  <2> QED BY <2>1, <2>2
<1>7. ASSUME NEW s \in Slots, xfer_complete(s) PROVE OwedExact'
  BY <1>7 DEF xfer_complete
<1>8. CASE Recycle
  BY <1>8 DEF Recycle, TypeOK
<1>9. CASE job_start \/ stream_release_buffers
  BY <1>9 DEF job_start, stream_release_buffers
<1> QED
  BY <1>1, <1>2, <1>4, <1>5, <1>6, <1>7, <1>8, <1>9
     DEF Next, Fill, Deliver, Stop, Unplug, Replug, SkipSlot, stream_resync,
         FillReturns, Started, job_stop, stream_stop, CallbackHarvest,
         TickHarvest, TickWake, TickSleep, TickExit, HarvestContext

----------------------------------------------------------------------------
(* The invariant holds when the engine is created.                         *)
LEMMA InitIInv == Init => IInv
<1> SUFFICES ASSUME Init PROVE IInv
  OBVIOUS
<1> USE CaptureAssumption DEF Init
<1>1. TypeOK
  <2>1. cb \in Slots /\ slot \in 0 .. NB
    BY DEF Slots
  <2>2. fl \in [Slots -> [Offsets -> Status]]
    BY DEF Status
  <2>3. inRing \in Seq(Nat) /\ owed \subseteq Nat
    OBVIOUS
  <2> QED BY <2>1, <2>2, <2>3 DEF TypeOK
<1>2. Locking /\ Phases
  BY DEF Locking, Phases, Critical
<1>3. QueueShape /\ QueueDisjoint /\ Cursor
  BY DEF QueueShape, QueueDisjoint, Cursor
<1>4. NoFrameLost /\ RingInOrder /\ NothingEarly /\ NoLateHarvest
  BY DEF NoFrameLost, Harvestable, RingInOrder, NothingEarly, NoLateHarvest
<1>6. OwedExact
  BY DEF OwedExact
<1>5. Filled
  BY DEF Filled, QueueFull
<1> QED BY <1>1, <1>2, <1>3, <1>4, <1>5, <1>6 DEF IInv

(* Every step keeps the invariant.                                         *)
LEMMA NextIInv == IInv /\ [Next]_vars => IInv'
<1>1. ASSUME IInv, Next PROVE IInv'
  BY <1>1, TypeOKStep, LockingStep, PhasesStep, QueueShapeStep,
     QueueDisjointStep, CursorStep, NoFrameLostStep, RingInOrderStep,
     NothingEarlyStep, NoLateHarvestStep, FilledStep, OwedExactStep DEF IInv
<1>2. ASSUME IInv, UNCHANGED vars PROVE IInv'
  BY <1>2
     DEF IInv, vars, bufVars, streamVars, harvestVars, fillVars, TypeOK,
         Locking, Phases, QueueShape, QueueDisjoint, Cursor, NoFrameLost,
         Harvestable, RingInOrder, NothingEarly, NoLateHarvest, Filled,
         QueueFull, Complete, FramesOf, OwedExact
<1> QED BY <1>1, <1>2

(* The invariant holds in every reachable state.                           *)
LEMMA Inductive == Spec => []IInv
  BY InitIInv, NextIInv, PTL DEF Spec

(* Every variable keeps its type. *)
THEOREM TypeCorrect == Spec => []TypeOK
<1>1. IInv => TypeOK
  BY DEF IInv
<1> QED BY <1>1, Inductive, PTL

(* A delivered frame stays within reach of the harvest until it is in the  *)
(* ring or its transfer came back aborted, across polls, callbacks,        *)
(* refused submissions, resyncs and unplugs.                               *)
THEOREM NoFrameLostTheorem == Spec => []NoFrameLost
<1>1. IInv => NoFrameLost
  BY DEF IInv
<1> QED BY <1>1, Inductive, PTL

(* The two harvesting threads together write every frame at most once and  *)
(* in bus order.                                                           *)
THEOREM RingTheorem == Spec => []RingInOrder
<1>1. IInv => RingInOrder
  BY DEF IInv
<1> QED BY <1>1, Inductive, PTL

(* Neither thread writes a frame to the ring before the HC finished it: the *)
(* position that transfer_done's poll trusts is never ahead of the bus.     *)
THEOREM NothingEarlyTheorem == Spec => []NothingEarly
<1>1. IInv => NothingEarly
  BY DEF IInv
<1> QED BY <1>1, Inductive, PTL

(* Queued transfers hold disjoint bus frames, below the schedule position. *)
THEOREM QueueDisjointTheorem == Spec => []QueueDisjoint
<1>1. IInv => QueueDisjoint
  BY DEF IInv
<1> QED BY <1>1, Inductive, PTL

(* xfer_complete never recycles a transfer with a frame left in it.        *)
THEOREM NoLateHarvestTheorem == Spec => []NoLateHarvest
<1>1. IInv => NoLateHarvest
  BY DEF IInv
<1> QED BY <1>1, Inductive, PTL

(* The run loop finds the queue full unless a submission failed.           *)
THEOREM QueueFullTheorem == Spec => []QueueFull
<1>1. IInv => QueueFull
  BY DEF IInv, Filled
<1> QED BY <1>1, Inductive, PTL

(* When the buffers are freed the tick thread is gone, nobody holds the    *)
(* lock and no transfer is left to be found.                               *)
THEOREM ReleasedIsQuietTheorem == Spec => []ReleasedIsQuiet
<1>1. IInv => ReleasedIsQuiet
  BY DEF IInv, TypeOK, Locking, Phases, Critical, ReleasedIsQuiet
<1> QED BY <1>1, Inductive, PTL
----------------------------------------------------------------------------
(* Every step of the stream is a step of the ordered delivery or leaves    *)
(* what its reader can see unchanged.                                      *)
LEMMA StepRefines ==
  IInv /\ [Next]_vars => [Delivery!Next]_(Delivery!vars)
<1> SUFFICES ASSUME IInv, [Next]_vars
             PROVE  \/ Delivery!Next
                    \/ UNCHANGED <<bus, running /\ plugged, owed, inRing>>
  BY DEF Delivery!vars
<1> USE DEF IInv, streamVars, harvestVars
<1>1. CASE UNCHANGED <<bus, running, plugged, owed, inRing>>
  BY <1>1
<1>2. CASE BusFrame
  <2>1. bus' = bus + 1 /\ UNCHANGED <<running, plugged, inRing>>
    BY <1>2 DEF BusFrame
  <2>2. owed' \in {owed, owed \cup {bus}}
    BY <1>2 DEF BusFrame
  <2> QED BY <2>1, <2>2 DEF Delivery!Next, Delivery!Deliver
<1>3. CASE Unplug
  BY <1>3 DEF Unplug, Delivery!Next, Delivery!GoDown
<1>4. CASE Replug
  BY <1>4 DEF Replug
<1>5. ASSUME NEW forced, HarvestContext(forced), HarvestStep(forced)
      PROVE  \/ Delivery!Next
             \/ UNCHANGED <<bus, running /\ plugged, owed, inRing>>
  <2>1. CASE HarvestFrame(forced)
    <3>1. \A f \in owed : nextHarvestFrame <= f
      BY DEF NoFrameLost, Harvestable, TypeOK
    <3>2. PICK b \in Slots, i \in Offsets :
            /\ ready[b] /\ frame[b] + i = nextHarvestFrame
            /\ owed' = owed \ {nextHarvestFrame}
            /\ inRing' = IF fl[b][i] = "data"
                         THEN Append(inRing, nextHarvestFrame) ELSE inRing
      BY <1>5, <2>1, HarvestFrameFacts
    <3>3. UNCHANGED <<bus, running, plugged>>
      BY <1>5 DEF HarvestStep
    <3>4. CASE fl[b][i] = "data"
      <4>1. nextHarvestFrame \in owed
        BY <3>2, <3>4 DEF OwedExact, TypeOK
      <4> QED BY <3>1, <3>2, <3>3, <3>4, <4>1 DEF Delivery!Next, Delivery!Take
    <3>5. CASE fl[b][i] # "data"
      <4>1. ASSUME nextHarvestFrame \in owed PROVE FALSE
        <5>1. PICK c \in Slots : /\ ready[c] /\ nextHarvestFrame \in FramesOf(c)
                                 /\ fl[c][nextHarvestFrame - frame[c]] = "data"
          BY <4>1 DEF NoFrameLost, Harvestable
        <5>2. c = b
          <6>1. c # b => \/ frame[c] + NF <= frame[b]
                         \/ frame[b] + NF <= frame[c]
            BY <3>2, <5>1 DEF QueueDisjoint
          <6> QED BY <3>2, <5>1, <6>1, CaptureAssumption
                  DEF FramesOf, Offsets, TypeOK
        <5> QED BY <3>2, <3>5, <5>1, <5>2 DEF TypeOK, Offsets
      <4> QED BY <3>2, <3>3, <3>5, <4>1
    <3> QED BY <3>4, <3>5
  <2>2. CASE HarvestJump
    BY <1>5, <2>2 DEF HarvestStep, HarvestJump
  <2> QED BY <1>5, <2>1, <2>2 DEF HarvestStep
<1>6. ASSUME NEW s \in Slots, Discard(s)
      PROVE  \/ Delivery!Next
             \/ UNCHANGED <<bus, running /\ plugged, owed, inRing>>
  <2>1. ~(running /\ plugged)
    BY <1>6 DEF Discard, Callback, Aborted, Phases
  <2> QED BY <1>6, <2>1 DEF Discard, Delivery!Next, Delivery!Drop
<1>7. ASSUME NEW s \in Slots, xfer_complete(s)
      PROVE  UNCHANGED <<bus, running, plugged, owed, inRing>>
  BY <1>7 DEF xfer_complete
<1>8. CASE job_start
  BY <1>8 DEF job_start, Delivery!Next, Delivery!GoUp
<1>9. CASE Started
  BY <1>9 DEF Started, Phases, Critical, Delivery!Next, Delivery!GoDown
<1>10. CASE job_stop
  BY <1>10 DEF job_stop, Delivery!Next, Delivery!GoDown
<1>11. CASE stream_release_buffers
  BY <1>11 DEF stream_release_buffers, Phases, Delivery!Next, Delivery!Drop
<1>12. CASE UNCHANGED vars
  BY <1>12 DEF vars
<1> QED
  BY <1>1, <1>2, <1>3, <1>4, <1>5, <1>6, <1>7, <1>8, <1>9, <1>10, <1>11, <1>12
     DEF Next, Fill, Deliver, Stop, submit_xfer, SkipSlot, stream_resync,
         resubmit_xfer, FillReturns, Recycle, stream_stop, CallbackHarvest,
         TickHarvest, TickWake, TickSleep, TickExit, HarvestContext

(* The two threads, the queue and the lock implement an ordered delivery   *)
(* that drops no frame while the device is there and the engine runs.      *)
THEOREM CaptureImplementsDelivery == Spec => RefinesDelivery
<1>1. Init => Delivery!Init
  BY DEF Init, Delivery!Init
<1> QED BY <1>1, StepRefines, Inductive, PTL
       DEF Spec, RefinesDelivery, Delivery!Spec

=============================================================================
