--------------------------- MODULE PlaybackProofs ---------------------------
(* Proofs about Playback, for every geometry of the queue, every lead, any  *)
(* error of the frame estimate and any timing of the threads.  The queue    *)
(* holds disjoint runs of frames below nextFrame (QueueOK); a frame beyond  *)
(* the queue that the fill cursor has passed was given up (Cursor); and a   *)
(* buffer holds audio that is in no other buffer, was cleared in the ring,  *)
(* and was not sent before as long as the buffer is pending (AudioOK).      *)
(* The positions follow the clock (Timeline): with capture, the audio count *)
(* is that of the frames harvested; without, the queue is in the order of   *)
(* the ring, from the clock on.  Both need the whole types, and what        *)
(* submit_xfer's loop computes, which induction on the offset gives.        *)
EXTENDS Playback, Induction

Frames ==
  /\ fl \in [Slots -> [Offsets -> Status]]
  /\ DOMAIN buf = Slots /\ \A b \in Slots : DOMAIN buf[b] = Offsets
  /\ done \in [Slots -> [Offsets -> BOOLEAN]]
  /\ ready \in [Slots -> BOOLEAN] /\ frame \in [Slots -> Nat]
  /\ DOMAIN pos = Slots /\ DOMAIN cnt = Slots /\ DOMAIN posMap = 0 .. POSMAP - 1
  /\ bus \in Nat \ {0} /\ f0 \in Nat /\ nextFrame \in Nat
  /\ nextFillFrame \in Int /\ current \in Int
  /\ slot \in 0 .. NB

Disjoint(b, c) == frame[b] + NF <= frame[c] \/ frame[c] + NF <= frame[b]
QueueOK ==
  /\ inFlight = ready
  /\ usb = "off" => \A b \in Slots : ~ready[b]
  /\ usb # "off" => 0 < f0 /\ f0 <= nextFrame
  /\ usb = "place" => slot \in Slots /\ ~ready[slot]
  /\ \A b \in Slots : ready[b] =>
       f0 <= frame[b] /\ frame[b] + NF <= nextFrame /\ frame[b] + NF <= MaxFrame
  /\ \A b, c \in Slots : ready[b] /\ ready[c] /\ b # c => Disjoint(b, c)

Cursor ==
  /\ \A f \in Int :
       usb # "off" /\ nextFrame <= f /\ f < nextFillFrame /\ f <= MaxFrame => f \in late
  /\ NothingSkipped

AudioOK ==
  /\ \A b \in Slots, i \in Offsets : buf[b][i] \subseteq consumed
  /\ \A s \in sent : s[2] \in consumed
  /\ \A b, c \in Slots, i, j \in Offsets :
       b # c \/ i # j => buf[b][i] \cap buf[c][j] = {}
  /\ \A b \in Slots, i \in Offsets :
       fl[b][i] = "pending" => \A s \in sent : s[2] \notin buf[b][i]
  /\ SentOnce

IInv == Frames /\ QueueOK /\ Cursor /\ AudioOK /\ MapIsPlan
----------------------------------------------------------------------------
LEMMA Geometry ==
  /\ NF \in Nat \ {0} /\ NB \in Nat \ {0} /\ POSMAP \in Nat \ {0} /\ MaxFrame \in Nat
  /\ Slots \subseteq Int /\ Offsets \subseteq Int
  /\ \A i \in Offsets : i \in Nat /\ i < NF
  BY PlaybackAssumption DEF Slots, Offsets

LEMMA InitIInv == Init => IInv
<1> SUFFICES ASSUME Init PROVE IInv
  OBVIOUS
<1>1. Frames
  BY PlaybackAssumption DEF Init, Frames, Status, Slots
<1>2. QueueOK
  BY DEF Init, QueueOK
<1>3. Cursor /\ AudioOK /\ MapIsPlan
  BY DEF Init, Cursor, AudioOK, MapIsPlan, NothingSkipped, SentOnce
<1> QED BY <1>1, <1>2, <1>3 DEF IInv

(* An action that touches neither queue, buffers nor cursor.                *)
queueAndBuffers == <<fl, buf, consumed, done, ready, inFlight, frame, pos, cnt, posMap, bus,
                     f0, nextFrame, nextFillFrame, late, sent>>
LEMMA OtherStep ==
  ASSUME IInv, UNCHANGED queueAndBuffers, slot' \in 0 .. NB, current' \in Int,
         usb' = "off" <=> usb = "off", usb' = "place" => slot' \in Slots /\ ~ready[slot']
  PROVE  IInv'
<1>1. Frames'
  BY DEF IInv, Frames, queueAndBuffers
<1>2. QueueOK'
  BY DEF IInv, QueueOK, Disjoint, queueAndBuffers
<1>3. Cursor' /\ MapIsPlan'
  BY DEF IInv, Cursor, NothingSkipped, MapIsPlan, queueAndBuffers
<1>4. AudioOK'
  BY DEF IInv, AudioOK, SentOnce, queueAndBuffers
<1> QED BY <1>1, <1>2, <1>3, <1>4 DEF IInv

Others == \/ Realign \/ SkipSlot \/ FillReturns \/ TickWake \/ Harvest \/ TickLock
          \/ TickPoll \/ TickSleep
LEMMA OthersStep == ASSUME IInv, Others PROVE IInv'
<1> USE DEF queueAndBuffers, planVars, queueVars, fillVars, rxVars, loopVars, session
<1>1. CASE Realign
  BY <1>1, OtherStep DEF Realign, IInv, Frames, QueueOK
<1>2. CASE SkipSlot
  <2>1. slot' \in 0 .. NB
    BY <1>2, Geometry DEF SkipSlot, Slots
  <2> QED BY <1>2, <2>1, OtherStep DEF SkipSlot, IInv, Frames
<1>3. CASE FillReturns
  BY <1>3, Geometry, OtherStep DEF FillReturns, IInv, Frames
<1>4. CASE TickWake
  <2>1. current' \in Int
    BY <1>4, PlaybackAssumption DEF TickWake, IInv, Frames
  <2> QED BY <1>4, <2>1, OtherStep DEF TickWake, IInv, Frames, QueueOK
<1>5. CASE Harvest
  BY <1>5, OtherStep DEF Harvest, HarvestCount, HarvestMark, HarvestEnds, CallbackHarvest,
     IInv, Frames, QueueOK
<1>6. CASE TickLock \/ TickPoll
  BY <1>6, OtherStep DEF TickLock, TickPoll, IInv, Frames, QueueOK
<1>7. CASE TickSleep
  BY <1>7, OtherStep DEF TickSleep, NotQueued, IInv, Frames, QueueOK
<1> QED BY <1>1, <1>2, <1>3, <1>4, <1>5, <1>6, <1>7 DEF Others

(* A queued frame belongs to one transfer only, and find_xfer finds it.     *)
LEMMA Found ==
  ASSUME IInv, NEW f \in Int, NEW b \in find_xfer(f)
  PROVE  /\ b \in Slots /\ ready[b] /\ f - frame[b] \in Offsets
         /\ frame[b] + (f - frame[b]) = f /\ f < nextFrame
         /\ \A c \in Slots, j \in Offsets :
              ready[c] /\ frame[c] + j = f => c = b /\ j = f - frame[b]
<1>1. /\ b \in Slots /\ ready[b] /\ frame[b] \in Int /\ NF \in Int /\ nextFrame \in Int
      /\ frame[b] <= f /\ f <= frame[b] + NF - 1 /\ frame[b] + NF <= nextFrame
  <2>1. b \in Slots /\ ready[b] /\ f \in frame[b] .. frame[b] + NF - 1
    BY DEF find_xfer, FramesOf
  <2>2. frame[b] \in Int /\ NF \in Int /\ nextFrame \in Int
    BY <2>1, Geometry DEF IInv, Frames
  <2>3. frame[b] + NF <= nextFrame
    BY <2>1 DEF IInv, QueueOK
  <2> QED BY <2>1, <2>2, <2>3
<1>2. f - frame[b] \in Offsets /\ f < nextFrame
  BY <1>1 DEF Offsets
<1>3. ASSUME NEW c \in Slots, NEW j \in Offsets, ready[c], frame[c] + j = f
      PROVE  c = b /\ j = f - frame[b]
  <2>1. frame[c] \in Int /\ j \in Int /\ 0 <= j /\ j < NF
    BY Geometry DEF IInv, Frames
  <2>2. c = b
    <3>1. c # b => Disjoint(b, c)
      BY <1>1, <1>3 DEF IInv, QueueOK
    <3> QED BY <1>1, <1>3, <2>1, <3>1 DEF Disjoint
  <2> QED BY <1>1, <1>3, <2>1, <2>2
<1> QED BY <1>1, <1>2, <1>3

(* The HC takes a buffer that no earlier frame had anything of.             *)
LEMMA FetchStep == ASSUME IInv, Fetch PROVE IInv'
<1>1. PICK b \in Slots : /\ OnBus(b) /\ fl[b][bus - frame[b]] = "pending"
        /\ fl' = [fl EXCEPT ![b][bus - frame[b]] = "fetched"]
        /\ sent' = sent \cup ({bus} \X buf[b][bus - frame[b]])
  BY DEF Fetch
<1> DEFINE i == bus - frame[b]
<1>2. i \in Offsets
  BY <1>1, Geometry DEF OnBus, FramesOf, IInv, Frames, Offsets
<1> HIDE DEF i
<1> USE DEF Fetch, planVars, queueVars, fillVars, rxVars, loopVars, session
<1>3. Frames'
  BY <1>1, <1>2 DEF IInv, Frames, Status, i
<1>4. QueueOK' /\ Cursor' /\ MapIsPlan'
  BY DEF IInv, QueueOK, Disjoint, Cursor, NothingSkipped, MapIsPlan
<1>5. AudioOK'
  <2>1. \A s \in sent' : s \in sent \/ (s[1] = bus /\ s[2] \in buf[b][i] /\ s = <<bus, s[2]>>)
    BY <1>1 DEF i
  <2>2. \A s \in sent' : s[2] \in consumed'
    BY <1>2, <2>1 DEF IInv, AudioOK
  <2>3. ASSUME NEW c \in Slots, NEW j \in Offsets, fl'[c][j] = "pending", NEW s \in sent'
        PROVE  s[2] \notin buf'[c][j]
    <3>1. c # b \/ j # i
      BY <1>1, <1>2, <2>3 DEF IInv, Frames, i
    <3>2. fl[c][j] = "pending"
      BY <1>1, <1>2, <2>3, <3>1 DEF IInv, Frames, i
    <3>3. buf[c][j] \cap buf[b][i] = {}
      BY <1>2, <3>1 DEF IInv, AudioOK
    <3> QED BY <2>1, <3>2, <3>3 DEF IInv, AudioOK
  <2>4. SentOnce'
    <3>1. \A s \in sent : s[2] \notin buf[b][i]
      BY <1>1, <1>2 DEF IInv, AudioOK, i
    <3> QED BY <2>1, <3>1 DEF IInv, AudioOK, SentOnce
  <2> QED BY <2>2, <2>3, <2>4 DEF IInv, AudioOK
<1> QED BY <1>3, <1>4, <1>5 DEF IInv

(* The end of a bus frame makes no entry pending.                           *)
LEMMA BusFrameStep == ASSUME IInv, BusFrame PROVE IInv'
<1> USE DEF BusFrame, planVars, queueVars, fillVars, rxVars, loopVars, session
<1>1. /\ fl' \in [Slots -> [Offsets -> Status]]
      /\ \A b \in Slots, i \in Offsets : fl'[b][i] = "pending" => fl[b][i] = "pending"
  <2>1. CASE fl' = fl
    BY <2>1 DEF IInv, Frames
  <2>2. CASE \E b \in Slots, o \in Outcomes :
               OnBus(b) /\ fl' = [fl EXCEPT ![b][bus - frame[b]] = o]
    <3>1. PICK b \in Slots, o \in Outcomes :
            OnBus(b) /\ fl' = [fl EXCEPT ![b][bus - frame[b]] = o]
      BY <2>2
    <3>2. bus - frame[b] \in Offsets
      BY <3>1, Geometry DEF OnBus, FramesOf, IInv, Frames, Offsets
    <3>3. o \in Status /\ o # "pending"
      BY PlaybackAssumption DEF Status
    <3> QED BY <3>1, <3>2, <3>3 DEF IInv, Frames
  <2> QED BY <2>1, <2>2
<1>2. Frames'
  BY <1>1 DEF IInv, Frames
<1>3. QueueOK' /\ Cursor' /\ MapIsPlan'
  BY DEF IInv, QueueOK, Disjoint, Cursor, NothingSkipped, MapIsPlan
<1>4. AudioOK'
  BY <1>1 DEF IInv, AudioOK, SentOnce
<1> QED BY <1>2, <1>3, <1>4 DEF IInv

(* stream_resync moves the schedule forward only.                           *)
LEMMA ResyncStep == ASSUME IInv, stream_resync PROVE IInv'
<1> USE DEF stream_resync, planVars, fillVars, rxVars, session
<1>1. nextFrame' \in Nat /\ nextFrame <= nextFrame'
  BY PlaybackAssumption DEF IInv, Frames
<1>2. Frames'
  BY <1>1 DEF IInv, Frames
<1>3. QueueOK'
  BY <1>1, Geometry DEF IInv, Frames, QueueOK, Disjoint
<1>4. Cursor'
  BY <1>1 DEF IInv, Frames, Cursor, NothingSkipped
<1>5. AudioOK' /\ MapIsPlan'
  BY DEF IInv, AudioOK, SentOnce, MapIsPlan
<1> QED BY <1>2, <1>3, <1>4, <1>5 DEF IInv

(* The queue only loses transfers: a completion, a failed start.            *)
LEMMA Dequeue ==
  ASSUME IInv, UNCHANGED <<fl, buf, consumed, done, frame, pos, cnt, posMap, bus, f0,
                           nextFrame, nextFillFrame, late, sent, current>>,
         slot' \in 0 .. NB, inFlight' = ready', ready' \in [Slots -> BOOLEAN],
         \A b \in Slots : ready'[b] => ready[b], usb # "off", usb' # "place",
         usb' = "off" => \A b \in Slots : ~ready'[b]
  PROVE  IInv'
<1>1. Frames'
  BY DEF IInv, Frames
<1>2. QueueOK'
  BY DEF IInv, QueueOK, Disjoint
<1>3. Cursor' /\ MapIsPlan'
  BY DEF IInv, Cursor, NothingSkipped, MapIsPlan
<1>4. AudioOK'
  BY DEF IInv, AudioOK, SentOnce
<1> QED BY <1>1, <1>2, <1>3, <1>4 DEF IInv

LEMMA DequeueSteps ==
  ASSUME IInv, Started \/ \E b \in Slots : xfer_complete(b)
  PROVE  IInv'
<1> USE DEF planVars, fillVars, rxVars, loopVars, session
<1>1. CASE Started
  <2>1. 0 \in 0 .. NB
    BY Geometry
  <2> QED BY <1>1, <2>1, Dequeue DEF Started, IInv, Frames, QueueOK
<1>2. ASSUME NEW b \in Slots, xfer_complete(b) PROVE IInv'
  BY <1>2, Dequeue DEF xfer_complete, IInv, Frames, QueueOK
<1> QED BY <1>1, <1>2

(* job_start: an empty queue, an empty history, one frame for all cursors.  *)
LEMMA job_startStep == ASSUME IInv, job_start PROVE IInv'
<1> USE DEF job_start
<1>1. f0' \in Nat /\ 0 < f0' /\ nextFrame' = f0' /\ nextFillFrame' = f0'
  BY PlaybackAssumption DEF IInv, Frames
<1>2. Frames'
  BY <1>1 DEF IInv, Frames, Status
<1>3. QueueOK'
  BY <1>1 DEF IInv, Frames, QueueOK
<1>4. Cursor' /\ MapIsPlan'
  BY <1>1 DEF IInv, QueueOK, Cursor, NothingSkipped, MapIsPlan
<1>5. AudioOK'
  BY DEF AudioOK, SentOnce
<1> QED BY <1>2, <1>3, <1>4, <1>5 DEF IInv

(* fill_locked begins: what the cursor passes is in late.                   *)
LEMMA BeginFillStep == ASSUME IInv, BeginFill PROVE IInv'
<1> USE DEF BeginFill, planVars, queueVars, rxVars, loopVars, session
<1>1. Frames' /\ QueueOK' /\ AudioOK' /\ MapIsPlan'
  BY DEF IInv, Frames, QueueOK, Disjoint, AudioOK, SentOnce, MapIsPlan
<1>2. \A f \in Int : f0 <= f /\ f <= MaxFrame /\ nextFillFrame <= f /\ f < nextFillFrame'
        => f \in late'
  BY Geometry DEF IInv, Frames, GiveUp
<1>3. NothingSkipped'
  <2> SUFFICES ASSUME NEW b \in Slots, NEW i \in Offsets,
                      ready[b], frame[b] + i < nextFillFrame', ~done[b][i]
               PROVE  frame[b] + i \in late'
    BY DEF NothingSkipped
  <2>1. frame[b] + i \in Int /\ f0 <= frame[b] + i /\ frame[b] + i <= MaxFrame
    BY Geometry DEF IInv, Frames, QueueOK
  <2>2. CASE frame[b] + i < nextFillFrame
    BY <2>2 DEF IInv, Cursor, NothingSkipped
  <2> QED BY <1>2, <2>1, <2>2 DEF IInv, Frames
<1>4. Cursor'
  BY <1>2, <1>3 DEF IInv, Frames, QueueOK, Cursor
<1> QED BY <1>1, <1>4 DEF IInv

(* The copy takes positions that are in no buffer and were never sent.      *)
LEMMA FillFrameStep == ASSUME IInv, TickFill, FillFrame PROVE IInv'
<1> USE DEF TickFill, queueVars, rxVars, loopVars, session
<1>1. PICK b \in find_xfer(nextFillFrame) : LET i == nextFillFrame - frame[b] IN
        /\ buf' = IF done[b][i] THEN buf
                  ELSE [buf EXCEPT ![b][i] = Audio(b, i) \ consumed]
        /\ consumed' = IF done[b][i] THEN consumed ELSE Cleared(b, i)
        /\ done' = [done EXCEPT ![b][i] = TRUE]
        /\ nextFillFrame' = nextFillFrame + 1
        /\ UNCHANGED <<frame, pos, cnt, posMap, txSubmitted>>
  BY DEF FillFrame
<1> DEFINE i == nextFillFrame - frame[b]
<1>2. /\ b \in Slots /\ i \in Offsets /\ nextFillFrame \in Int /\ nextFillFrame < nextFrame
      /\ \A c \in Slots, j \in Offsets :
           ready[c] /\ frame[c] + j = nextFillFrame => c = b /\ j = i
  BY Found DEF IInv, Frames
<1>3. PICK A :
        /\ A \cap consumed = {} /\ consumed' = consumed \cup A
        /\ (A = {} /\ buf' = buf) \/ buf' = [buf EXCEPT ![b][i] = A]
  <2>1. CASE done[b][i]
    <3>1. consumed' = consumed \cup {} /\ buf' = buf /\ {} \cap consumed = {}
      BY <1>1, <2>1
    <3> QED BY <3>1
  <2>2. CASE ~done[b][i]
    <3>1. /\ consumed' = consumed \cup (Audio(b, i) \ consumed)
          /\ buf' = [buf EXCEPT ![b][i] = Audio(b, i) \ consumed]
          /\ (Audio(b, i) \ consumed) \cap consumed = {}
      BY <1>1, <2>2 DEF Cleared
    <3> QED BY <3>1
  <2> QED BY <2>1, <2>2
<1>4. done' = [done EXCEPT ![b][i] = TRUE] /\ nextFillFrame' = nextFillFrame + 1
      /\ UNCHANGED <<frame, pos, cnt, posMap>>
  BY <1>1
<1> HIDE DEF i
<1>5. Frames'
  <2>1. DOMAIN buf' = Slots /\ \A c \in Slots : DOMAIN buf'[c] = Offsets
    BY <1>2, <1>3 DEF IInv, Frames
  <2>2. done' \in [Slots -> [Offsets -> BOOLEAN]] /\ nextFillFrame' \in Int
    BY <1>2, <1>4 DEF IInv, Frames
  <2> QED BY <1>4, <2>1, <2>2 DEF IInv, Frames
<1>6. QueueOK' /\ MapIsPlan'
  BY <1>4 DEF IInv, QueueOK, Disjoint, MapIsPlan
<1>7. Cursor'
  <2>1. \A f \in Int : f < nextFillFrame' => f < nextFrame
    BY <1>2, <1>4 DEF IInv, Frames
  <2>2. NothingSkipped'
    <3> SUFFICES ASSUME NEW c \in Slots, NEW j \in Offsets,
                        ready[c], frame[c] + j < nextFillFrame'
                 PROVE  done'[c][j] \/ frame[c] + j \in late
      BY <1>4 DEF NothingSkipped
    <3>1. CASE frame[c] + j < nextFillFrame
      <4>1. done[c][j] \/ frame[c] + j \in late
        BY <3>1 DEF IInv, Cursor, NothingSkipped
      <4> QED BY <1>2, <1>4, <4>1 DEF IInv, Frames
    <3>2. CASE ~(frame[c] + j < nextFillFrame)
      <4>1. frame[c] + j = nextFillFrame
        <5>1. frame[c] \in Int /\ j \in Int /\ nextFillFrame' = nextFillFrame + 1
          BY <1>4, Geometry DEF IInv, Frames
        <5>2. frame[c] + j < nextFillFrame + 1
          BY <5>1
        <5> QED BY <1>2, <3>2, <5>1, <5>2
      <4> QED BY <1>2, <1>4, <4>1 DEF IInv, Frames
    <3> QED BY <3>1, <3>2
  <2> QED BY <1>2, <2>1, <2>2 DEF IInv, Frames, Cursor
<1>8. AudioOK'
  <2>1. \A c \in Slots, j \in Offsets :
          buf'[c][j] = buf[c][j] \/ (c = b /\ j = i /\ buf'[c][j] = A)
    BY <1>2, <1>3 DEF IInv, Frames
  <2>2. \A c \in Slots, j \in Offsets : buf'[c][j] \subseteq consumed'
    BY <1>3, <2>1 DEF IInv, AudioOK
  <2>3. \A c, d \in Slots, j, k \in Offsets :
          c # d \/ j # k => buf'[c][j] \cap buf'[d][k] = {}
    <3> SUFFICES ASSUME NEW c \in Slots, NEW d \in Slots, NEW j \in Offsets,
                        NEW k \in Offsets, c # d \/ j # k
                 PROVE  buf'[c][j] \cap buf'[d][k] = {}
      OBVIOUS
    <3>1. /\ buf[c][j] \subseteq consumed /\ buf[d][k] \subseteq consumed
          /\ buf[c][j] \cap buf[d][k] = {}
      BY DEF IInv, AudioOK
    <3> QED BY <1>3, <2>1, <3>1
  <2>4. (\A s \in sent : s[2] \in consumed') /\ SentOnce'
    BY <1>3 DEF IInv, AudioOK, SentOnce
  <2>5. \A c \in Slots, j \in Offsets :
          fl[c][j] = "pending" => \A s \in sent : s[2] \notin buf'[c][j]
    BY <1>3, <2>1 DEF IInv, AudioOK
  <2> QED BY <2>2, <2>3, <2>4, <2>5 DEF AudioOK
<1> QED BY <1>5, <1>6, <1>7, <1>8 DEF IInv

(* The cursor jumps to the next queued frame; none lies between, as the     *)
(* frames of a transfer are contiguous.                                     *)
LEMMA FillJumpStep == ASSUME IInv, TickFill, FillJump PROVE IInv'
<1> USE DEF TickFill, FillJump, planVars, queueVars, rxVars, loopVars, session
<1>1. PICK c \in Slots : /\ ready[c] /\ frame[c] > nextFillFrame
        /\ nextFillFrame' = frame[c]
        /\ \A h \in ReadyAfter(nextFillFrame) : frame[c] <= h
  BY DEF ReadyAfter, next_ready_frame_after
<1>2. /\ nextFillFrame \in Int /\ frame[c] \in Nat /\ nextFillFrame' < nextFrame
      /\ nextFrame \in Nat
  BY <1>1, Geometry DEF IInv, Frames, QueueOK
<1>3. Frames' /\ QueueOK' /\ AudioOK' /\ MapIsPlan'
  BY <1>1, <1>2 DEF IInv, Frames, QueueOK, Disjoint, AudioOK, SentOnce, MapIsPlan
<1>4. NothingSkipped'
  <2> SUFFICES ASSUME NEW b \in Slots, NEW i \in Offsets,
                      ready[b], frame[b] + i < frame[c]
               PROVE  done[b][i] \/ frame[b] + i \in late
    BY <1>1 DEF NothingSkipped
  <2>1. frame[b] \in Int /\ i \in Int /\ 0 <= i /\ i < NF /\ NF \in Int
    BY Geometry DEF IInv, Frames
  <2>2. ~(frame[b] > nextFillFrame)
    <3>1. frame[b] > nextFillFrame => frame[b] \in ReadyAfter(nextFillFrame)
      BY DEF ReadyAfter
    <3> QED BY <1>1, <1>2, <2>1, <3>1
  <2>3. nextFillFrame \notin FramesOf(b)
    BY DEF find_xfer
  <2>4. frame[b] + i < nextFillFrame
    BY <1>2, <2>1, <2>2, <2>3 DEF FramesOf
  <2> QED BY <2>4 DEF IInv, Cursor, NothingSkipped
<1>5. Cursor'
  <2>1. \A f \in Int : ~(nextFrame <= f /\ f < nextFillFrame')
    BY <1>2, <1>1
  <2> QED BY <1>4, <2>1 DEF Cursor
<1> QED BY <1>3, <1>5 DEF IInv

(* The plan of a transfer: an unqueued slot gets the frames after the queue *)
(* and empty buffers; the map entries it overwrites carry its own frames.   *)
LEMMA ModInRange == \A a \in Int : a % POSMAP \in 0 .. POSMAP - 1
  BY Geometry

LEMMA QueueStep ==
  ASSUME IInv, slot \in Slots, ~ready[slot], usb # "off", NEW tx, Queue(tx)
  PROVE  IInv'
<1>1. PICK n \in [Offsets -> Packets] : LET start == Starts(tx, n) IN
    /\ frame' = [frame EXCEPT ![slot] = nextFrame]
    /\ pos' = [pos EXCEPT ![slot] = [i \in Offsets |-> start[i]]]
    /\ cnt' = [cnt EXCEPT ![slot] = n]
    /\ done' = [done EXCEPT ![slot] = [i \in Offsets |-> FALSE]]
    /\ buf' = [buf EXCEPT ![slot] = [i \in Offsets |-> {}]]
    /\ fl' = [fl EXCEPT ![slot] = [i \in Offsets |-> "pending"]]
    /\ posMap' = [k \in DOMAIN posMap |->
                   IF \E i \in Offsets : (nextFrame + i) % POSMAP = k
                   THEN LET i == CHOOSE i \in Offsets : (nextFrame + i) % POSMAP = k
                        IN MapEntry(nextFrame + i, start[i], n[i])
                   ELSE posMap[k]]
  BY DEF Queue, Plan, ClearBuffer
<1> DEFINE start == Starts(tx, n)
<1> HIDE DEF start
<1>2. UNCHANGED <<bus, f0, nextFillFrame, consumed, late, sent, current>>
  BY DEF Queue, fillVars, session
<1>3. /\ nextFrame' = nextFrame \/ nextFrame' = nextFrame + NF
      /\ slot' \in 0 .. NB /\ usb' \in {"fill", "resync"} /\ inFlight' = ready'
      /\ ready' \in [Slots -> BOOLEAN]
      /\ \A b \in Slots : ready'[b] => b = slot \/ ready[b]
      /\ ready'[slot] => nextFrame' = nextFrame + NF /\ nextFrame' <= MaxFrame
  <2>1. slot + 1 \in 0 .. NB /\ slot \in 0 .. NB
    BY Geometry DEF Slots
  <2>2. ready \in [Slots -> BOOLEAN] /\ inFlight = ready
    BY DEF IInv, Frames, QueueOK
  <2>3. CASE Accepted(slot)
    BY <2>1, <2>2, <2>3 DEF Accepted
  <2>4. CASE Refused
    BY <2>1, <2>2, <2>4 DEF Refused, queueVars
  <2>5. CASE TooOld
    BY <2>1, <2>2, <2>5 DEF TooOld, queueVars
  <2> QED BY <2>3, <2>4, <2>5 DEF Queue
<1>4. nextFrame \in Nat /\ NF \in Nat \ {0} /\ nextFrame' \in Nat /\ nextFrame <= nextFrame'
  BY <1>3, Geometry DEF IInv, Frames
<1>5. Frames'
  <2>1. /\ frame' \in [Slots -> Nat] /\ fl' \in [Slots -> [Offsets -> Status]]
        /\ done' \in [Slots -> [Offsets -> BOOLEAN]]
    BY <1>1, <1>4 DEF IInv, Frames, Status
  <2>2. /\ DOMAIN buf' = Slots /\ \A b \in Slots : DOMAIN buf'[b] = Offsets
        /\ DOMAIN pos' = Slots /\ DOMAIN cnt' = Slots /\ DOMAIN posMap' = 0 .. POSMAP - 1
    BY <1>1 DEF IInv, Frames
  <2> QED BY <1>2, <1>3, <1>4, <2>1, <2>2 DEF IInv, Frames
<1>6. \A b \in Slots : /\ b # slot => frame'[b] = frame[b]
                       /\ b = slot => frame'[b] = nextFrame
                       /\ frame[b] \in Nat
  BY <1>1 DEF IInv, Frames
<1>7. QueueOK'
  <2>1. \A b \in Slots : ready[b] =>
          f0 <= frame[b] /\ frame[b] + NF <= nextFrame /\ frame[b] + NF <= MaxFrame
    BY DEF IInv, QueueOK
  <2>2. f0 \in Nat /\ 0 < f0 /\ f0 <= nextFrame
    BY DEF IInv, Frames, QueueOK
  <2>3. \A b \in Slots : ready'[b] =>
          f0' <= frame'[b] /\ frame'[b] + NF <= nextFrame' /\ frame'[b] + NF <= MaxFrame
    BY <1>2, <1>3, <1>4, <1>6, <2>1, <2>2, Geometry
  <2>4. \A b, c \in Slots : ready'[b] /\ ready'[c] /\ b # c =>
          frame'[b] + NF <= frame'[c] \/ frame'[c] + NF <= frame'[b]
    BY <1>3, <1>4, <1>6, <2>1 DEF IInv, QueueOK, Disjoint
  <2> QED BY <1>2, <1>3, <1>4, <2>2, <2>3, <2>4 DEF QueueOK, Disjoint
<1>8. Cursor'
  <2>1. usb # "off" /\ nextFillFrame \in Int /\ MaxFrame \in Int
    BY Geometry DEF IInv, Frames
  <2>2. NothingSkipped'
    <3> SUFFICES ASSUME NEW b \in Slots, NEW i \in Offsets,
                        ready'[b], frame'[b] + i < nextFillFrame
                 PROVE  done'[b][i] \/ frame'[b] + i \in late
      BY <1>2 DEF NothingSkipped
    <3>1. CASE b = slot
      <4>1. frame'[b] + i \in Int /\ nextFrame <= frame'[b] + i /\ frame'[b] + i <= MaxFrame
        BY <1>3, <1>4, <1>6, <3>1, Geometry
      <4> QED BY <2>1, <4>1 DEF IInv, Cursor
    <3>2. CASE b # slot
      <4>1. ready[b] /\ frame'[b] = frame[b] /\ done'[b][i] = done[b][i]
        BY <1>1, <1>3, <1>6, <3>2 DEF IInv, Frames
      <4> QED BY <4>1 DEF IInv, Cursor, NothingSkipped
    <3> QED BY <3>1, <3>2
  <2> QED BY <1>2, <1>4, <2>1, <2>2 DEF IInv, Cursor
<1>9. AudioOK'
  <2>1. \A b \in Slots, i \in Offsets :
          buf'[b][i] = {} \/ (buf'[b][i] = buf[b][i] /\ fl'[b][i] = fl[b][i])
    BY <1>1 DEF IInv, Frames
  <2> QED BY <1>2, <2>1 DEF IInv, AudioOK, SentOnce
<1>10. MapIsPlan'
  <2> SUFFICES ASSUME NEW b \in Slots, NEW i \in Offsets, ready'[b],
                      posMap'[(frame'[b] + i) % POSMAP].frame = frame'[b] + i
               PROVE  posMap'[(frame'[b] + i) % POSMAP].posEnd = pos'[b][i] + cnt'[b][i]
    BY DEF MapIsPlan
  <2> DEFINE k == (frame'[b] + i) % POSMAP
  <2>1. frame'[b] + i \in Int /\ k \in DOMAIN posMap /\ i \in Nat /\ i < NF
    <3>1. frame'[b] + i \in Int /\ i \in Nat /\ i < NF
      BY <1>4, <1>6, Geometry
    <3>2. k \in 0 .. POSMAP - 1
      BY <3>1, ModInRange
    <3> QED BY <3>1, <3>2 DEF IInv, Frames
  <2> HIDE DEF k
  <2>2. CASE \E j \in Offsets : (nextFrame + j) % POSMAP = k
    <3> DEFINE j == CHOOSE j \in Offsets : (nextFrame + j) % POSMAP = k
    <3>1. j \in Offsets
      BY <2>2
    <3> HIDE DEF j
    <3>2. posMap'[k] = [frame |-> nextFrame + j, posEnd |-> start[j] + n[j]]
      BY <1>1, <2>1, <2>2 DEF MapEntry, start, j
    <3>3. nextFrame + j = frame'[b] + i /\ j \in Nat
      BY <3>1, <3>2, Geometry DEF k
    <3>4. b = slot
      <4>1. b # slot => frame'[b] = frame[b] /\ frame[b] + NF <= nextFrame
        BY <1>3, <1>6 DEF IInv, QueueOK
      <4> QED BY <1>4, <1>6, <2>1, <3>3, <4>1
    <3>5. i = j
      BY <1>4, <1>6, <2>1, <3>3, <3>4
    <3>6. pos'[b][i] = start[i] /\ cnt'[b][i] = n[i]
      BY <1>1, <3>4 DEF IInv, Frames, start
    <3> QED BY <3>2, <3>5, <3>6 DEF k
  <2>3. CASE ~\E j \in Offsets : (nextFrame + j) % POSMAP = k
    <3>1. posMap'[k] = posMap[k]
      BY <1>1, <2>1, <2>3
    <3>2. b # slot
      BY <1>6, <2>3 DEF k
    <3>3. ready[b] /\ frame'[b] = frame[b] /\ pos'[b] = pos[b] /\ cnt'[b] = cnt[b]
      BY <1>1, <1>3, <1>6, <3>2 DEF IInv, Frames
    <3> QED BY <3>1, <3>3 DEF IInv, MapIsPlan, k
  <2> QED BY <2>2, <2>3
<1> QED BY <1>5, <1>7, <1>8, <1>9, <1>10 DEF IInv

LEMMA NextIInv == IInv /\ [Next]_vars => IInv'
<1> SUFFICES ASSUME IInv, [Next]_vars PROVE IInv'
  OBVIOUS
<1>1. CASE Others
  BY <1>1, OthersStep
<1>2. CASE submit_xfer
  <2>1. slot \in Slots /\ ~ready[slot] /\ usb # "off" /\ Queue(txSubmitted)
    BY <1>2 DEF submit_xfer, IInv, QueueOK
  <2> QED BY <2>1, QueueStep
<1>3. CASE Place
  <2>1. slot \in Slots /\ ~ready[slot] /\ usb # "off" /\ Queue(readRx + Ahead * nominalPerMs)
    BY <1>3 DEF Place, IInv, QueueOK
  <2> QED BY <2>1, QueueStep
<1>4. CASE Fetch \/ BusFrame \/ job_start \/ stream_resync
  BY <1>4, FetchStep, BusFrameStep, job_startStep, ResyncStep
<1>5. CASE Started \/ Deliver
  BY <1>5, DequeueSteps DEF Deliver
<1>6. CASE BeginFill
  BY <1>6, BeginFillStep
<1>7. CASE TickFill
  BY <1>7, FillFrameStep, FillJumpStep DEF TickFill
<1>8. CASE UNCHANGED vars
  BY <1>8, OtherStep DEF vars, queueAndBuffers, planVars, queueVars, fillVars, loopVars,
     session, IInv, Frames, QueueOK
<1> QED BY <1>1, <1>2, <1>3, <1>4, <1>5, <1>6, <1>7, <1>8 DEF Next, Fill, Others

LEMMA Invariance == Spec => []IInv
BY InitIInv, NextIInv, PTL DEF Spec

(* No audio is played twice: a recycled buffer is cleared before it is      *)
(* queued again, and the fill clears in the ring what it copied, so that a  *)
(* realign back over played positions finds silence.                        *)
THEOREM SentOnceTheorem == Spec => []SentOnce
<1>1. IInv => SentOnce
  BY DEF IInv, AudioOK
<1> QED BY <1>1, Invariance, PTL

(* Every queued frame behind the fill cursor was filled or counted late,    *)
(* whatever the estimate of the bus frame and however late it was queued.   *)
THEOREM NothingSkippedTheorem == Spec => []NothingSkipped
<1>1. IInv => NothingSkipped
  BY DEF IInv, Cursor
<1> QED BY <1>1, Invariance, PTL

(* Whenever the position map has an entry for a queued frame, it is what    *)
(* the transfer with that frame will have played: entries a failed          *)
(* submission leaves behind are never mistaken for it.                      *)
THEOREM MapIsPlanTheorem == Spec => []MapIsPlan
<1>1. IInv => MapIsPlan
  BY DEF IInv
<1> QED BY <1>1, Invariance, PTL
----------------------------------------------------------------------------
(* Where the packets of a transfer start.  The function that submit_xfer's  *)
(* loop computes exists, and is determined by its equation.                 *)
LEMMA StartsExists ==
  ASSUME NEW tx \in Nat, NEW n \in [Offsets -> Nat]
  PROVE  \E f : f = [i \in 0 .. NF |-> IF i = 0 THEN tx ELSE f[i-1] + n[i-1]]
<1> DEFINE Upto(m) == \E f : f = [i \in 0 .. m |-> IF i = 0 THEN tx ELSE f[i-1] + n[i-1]]
           T == {m \in 0 .. NF : ~Upto(m)}
<1> SUFFICES ASSUME T # {} PROVE FALSE
  BY Geometry
<1>0. T \subseteq Nat
  BY Geometry
<1>1. PICK m \in T : \A k \in T : m <= k
  <2> HIDE DEF T
  <2> QED BY <1>0, Least
<1>2. m \in 0 .. NF /\ ~Upto(m)
  BY <1>1
<1>3. m # 0
  <2>1. [i \in 0 .. 0 |-> tx] = [i \in 0 .. 0 |->
           IF i = 0 THEN tx ELSE [j \in 0 .. 0 |-> tx][i-1] + n[i-1]]
    OBVIOUS
  <2>2. Upto(0)
    BY <2>1
  <2> QED BY <1>2, <2>2
<1>4. m - 1 \in 0 .. NF /\ ~(m <= m - 1)
  BY <1>2, <1>3, Geometry
<1>5. Upto(m - 1)
  BY <1>1, <1>4
<1>6. PICK f : f = [i \in 0 .. m - 1 |-> IF i = 0 THEN tx ELSE f[i-1] + n[i-1]]
  BY <1>5
<1> DEFINE g == [i \in 0 .. m |-> IF i = m THEN f[m-1] + n[m-1] ELSE f[i]]
<1>7. ASSUME NEW i \in 0 .. m
      PROVE  g[i] = IF i = 0 THEN tx ELSE g[i-1] + n[i-1]
  <2>1. i \in Int /\ m \in Int /\ 0 <= i /\ i <= m
    BY <1>2, Geometry
  <2>2. CASE i = m
    BY <1>3, <2>1, <2>2
  <2>3. CASE i # m
    <3>1. i \in 0 .. m - 1 /\ g[i] = f[i]
      BY <2>1, <2>3
    <3>2. f[i] = IF i = 0 THEN tx ELSE f[i-1] + n[i-1]
      BY <1>6, <3>1
    <3>3. i # 0 => i - 1 \in 0 .. m /\ i - 1 # m
      BY <2>1, <2>3
    <3>4. i # 0 => g[i-1] = f[i-1]
      BY <3>3
    <3> HIDE DEF g
    <3> QED BY <3>1, <3>2, <3>4
  <2> QED BY <2>2, <2>3
<1>8. g = [i \in 0 .. m |-> IF i = 0 THEN tx ELSE g[i-1] + n[i-1]]
  <2>1. g = [i \in 0 .. m |-> g[i]]
    OBVIOUS
  <2> HIDE DEF g
  <2> QED BY <1>7, <2>1
<1> HIDE DEF g
<1>9. Upto(m)
  BY <1>8
<1> QED BY <1>2, <1>9

LEMMA StartsRec ==
  ASSUME NEW tx \in Nat, NEW n \in [Offsets -> Nat]
  PROVE  Starts(tx, n) = [i \in 0 .. NF |->
           IF i = 0 THEN tx ELSE Starts(tx, n)[i-1] + n[i-1]]
<1>1. \E f : f = [i \in 0 .. NF |-> IF i = 0 THEN tx ELSE f[i-1] + n[i-1]]
  BY StartsExists
<1> QED BY <1>1, Zenon DEF Starts

(* The packets of a transfer follow each other from the position given.     *)
LEMMA StartsFacts ==
  ASSUME NEW tx \in Nat, NEW n \in [Offsets -> Nat]
  PROVE  LET start == Starts(tx, n) IN
         /\ \A i \in 0 .. NF : start[i] \in Nat
         /\ start[0] = tx
         /\ \A i \in Offsets, j \in 0 .. NF : i < j => start[i] + n[i] <= start[j]
<1> DEFINE start == Starts(tx, n)
<1>1. start = [i \in 0 .. NF |-> IF i = 0 THEN tx ELSE start[i-1] + n[i-1]]
  BY StartsRec
<1> HIDE DEF start
<1>2. start[0] = tx
  BY <1>1, Geometry
<1>3. ASSUME NEW i \in 0 .. NF, i # 0
      PROVE  i - 1 \in Offsets /\ i - 1 \in 0 .. NF /\ start[i] = start[i-1] + n[i-1]
             /\ n[i-1] \in Nat
  <2>1. i - 1 \in Offsets /\ i - 1 \in 0 .. NF
    BY <1>3, Geometry DEF Offsets
  <2>2. start[i] = start[i-1] + n[i-1]
    BY <1>1, <1>3
  <2> QED BY <2>1, <2>2
<1>4. \A i \in 0 .. NF : start[i] \in Nat
  <2> DEFINE T == {m \in 0 .. NF : start[m] \notin Nat}
  <2> SUFFICES ASSUME T # {} PROVE FALSE
    OBVIOUS
  <2>0. T \subseteq Nat
    BY Geometry
  <2>1. PICK m \in T : \A k \in T : m <= k
    <3> HIDE DEF T
    <3> QED BY <2>0, Least
  <2>2. m \in 0 .. NF /\ start[m] \notin Nat /\ m # 0
    BY <1>2, <2>1
  <2>3. m - 1 \in 0 .. NF /\ ~(m <= m - 1)
    BY <2>2, Geometry
  <2>4. start[m-1] \in Nat
    BY <2>1, <2>3
  <2> QED BY <1>3, <2>2, <2>4
<1>5. ASSUME NEW i \in Offsets PROVE \A j \in 0 .. NF : i < j => start[i] + n[i] <= start[j]
  <2> DEFINE T == {m \in 0 .. NF : i < m /\ ~(start[i] + n[i] <= start[m])}
  <2> SUFFICES ASSUME T # {} PROVE FALSE
    OBVIOUS
  <2>0. T \subseteq Nat
    BY Geometry
  <2>1. PICK m \in T : \A k \in T : m <= k
    <3> HIDE DEF T
    <3> QED BY <2>0, Least
  <2>2. /\ m \in 0 .. NF /\ i < m /\ ~(start[i] + n[i] <= start[m]) /\ m # 0
        /\ i \in Nat /\ i \in 0 .. NF /\ n[i] \in Nat
    BY <2>1, Geometry
  <2>3. m - 1 \in 0 .. NF /\ ~(m <= m - 1) /\ start[m] = start[m-1] + n[m-1] /\ n[m-1] \in Nat
    BY <1>3, <2>2, Geometry
  <2>4. start[i] \in Nat /\ start[m-1] \in Nat /\ start[m] \in Nat
    BY <1>4, <2>2, <2>3
  <2>5. CASE i = m - 1
    BY <2>2, <2>3, <2>4, <2>5
  <2>6. CASE i # m - 1
    <3>1. i < m - 1
      BY <2>2, <2>6, Geometry
    <3>2. start[i] + n[i] <= start[m-1]
      BY <2>1, <2>3, <3>1
    <3> QED BY <2>2, <2>3, <2>4, <3>2
  <2> QED BY <2>5, <2>6
<1> QED BY <1>2, <1>4, <1>5 DEF start
----------------------------------------------------------------------------
(* Types that Frames does not give.                                         *)
Plans ==
  /\ pos \in [Slots -> [Offsets -> Nat]] /\ cnt \in [Slots -> [Offsets -> Nat]]
  /\ posMap \in [0 .. POSMAP - 1 -> [frame : Nat, posEnd : Nat]]
  /\ txSubmitted \in Nat
Counters ==
  /\ nextFillFrame \in Nat /\ nextTxPollFrame \in Nat /\ consumed \subseteq Nat
  /\ rxCompleted \in Nat /\ lastHarvestFrame \in Nat /\ nextHarvestFrame \in Nat
  /\ readRx \in Nat /\ sent \subseteq Nat \X Nat /\ late \subseteq Nat
Control ==
  /\ captureMaster \in BOOLEAN /\ realignRequest \in BOOLEAN
  /\ lock \in {"free", "tick", "usb"}
  /\ tick \in {"none", "sleep", "harvest", "mark", "lock", "poll", "fill"}
  /\ usb \in {"off", "loop", "fill", "place", "resync"}
  /\ starting \in BOOLEAN /\ again \in BOOLEAN /\ kr \in BOOLEAN
Types == Plans /\ Counters /\ Control

LEMMA TypesSuffice == IInv /\ Types => TypeOK
BY DEF IInv, Frames, QueueOK, AudioOK, Types, Plans, Counters, Control, TypeOK

(* What a transfer just planned looks like: its packets follow each other   *)
(* from tx on, and end at the new txSubmitted.                              *)
LEMMA PlanFacts ==
  ASSUME IInv, Plans, slot \in Slots, NEW tx \in Nat, Plan(slot, tx)
  PROVE  /\ Plans'
         /\ \A b \in Slots \ {slot} :
              frame'[b] = frame[b] /\ pos'[b] = pos[b] /\ cnt'[b] = cnt[b]
         /\ frame'[slot] = nextFrame /\ pos'[slot][0] = tx /\ tx <= txSubmitted'
         /\ \A i \in Offsets : /\ tx <= pos'[slot][i]
                               /\ pos'[slot][i] + cnt'[slot][i] <= txSubmitted'
         /\ \A i, j \in Offsets :
              i < j => pos'[slot][i] + cnt'[slot][i] <= pos'[slot][j]
<1>1. PICK n \in [Offsets -> Packets] : LET start == Starts(tx, n) IN
    /\ frame' = [frame EXCEPT ![slot] = nextFrame]
    /\ pos' = [pos EXCEPT ![slot] = [i \in Offsets |-> start[i]]]
    /\ cnt' = [cnt EXCEPT ![slot] = n]
    /\ txSubmitted' = start[NF]
    /\ posMap' = [k \in DOMAIN posMap |->
                   IF \E i \in Offsets : (nextFrame + i) % POSMAP = k
                   THEN LET i == CHOOSE i \in Offsets : (nextFrame + i) % POSMAP = k
                        IN MapEntry(nextFrame + i, start[i], n[i])
                   ELSE posMap[k]]
  BY DEF Plan
<1> DEFINE start == Starts(tx, n)
<1>2. n \in [Offsets -> Nat]
  BY PlaybackAssumption
<1>3. /\ \A i \in 0 .. NF : start[i] \in Nat
      /\ start[0] = tx
      /\ \A i \in Offsets, j \in 0 .. NF : i < j => start[i] + n[i] <= start[j]
  BY <1>2, StartsFacts
<1> HIDE DEF start
<1>4. /\ 0 \in Offsets /\ NF \in 0 .. NF /\ \A i \in Offsets : i \in 0 .. NF /\ i < NF
      /\ \A i \in Offsets : n[i] \in Nat /\ start[i] \in Nat /\ (i = 0 \/ 0 < i)
  BY <1>2, <1>3, Geometry DEF Offsets
<1>5. frame' = [frame EXCEPT ![slot] = nextFrame] /\ txSubmitted' = start[NF]
  BY <1>1 DEF start
<1>6. /\ pos' = [pos EXCEPT ![slot] = [i \in Offsets |-> start[i]]]
      /\ cnt' = [cnt EXCEPT ![slot] = n]
  BY <1>1 DEF start
<1>7. /\ \A i \in Offsets : pos'[slot][i] = start[i] /\ cnt'[slot][i] = n[i]
      /\ \A b \in Slots \ {slot} : pos'[b] = pos[b] /\ cnt'[b] = cnt[b]
  BY <1>6 DEF Plans
<1>8. posMap' \in [0 .. POSMAP - 1 -> [frame : Nat, posEnd : Nat]]
  <2>1. DOMAIN posMap = 0 .. POSMAP - 1
    BY DEF Plans
  <2> SUFFICES ASSUME NEW k \in 0 .. POSMAP - 1
               PROVE  posMap'[k] \in [frame : Nat, posEnd : Nat]
    BY <1>1, <2>1
  <2>2. CASE \E i \in Offsets : (nextFrame + i) % POSMAP = k
    <3> DEFINE i == CHOOSE i \in Offsets : (nextFrame + i) % POSMAP = k
    <3>1. i \in Offsets
      BY <2>2
    <3>2. posMap'[k] = MapEntry(nextFrame + i, start[i], n[i])
      BY <1>1, <2>1, <2>2 DEF start
    <3> HIDE DEF i
    <3>3. nextFrame + i \in Nat /\ start[i] + n[i] \in Nat
      BY <1>4, <3>1, Geometry DEF IInv, Frames
    <3> QED BY <3>2, <3>3 DEF MapEntry
  <2>3. CASE ~\E i \in Offsets : (nextFrame + i) % POSMAP = k
    <3>1. posMap'[k] = posMap[k]
      BY <1>1, <2>1, <2>3
    <3> QED BY <3>1 DEF Plans
  <2> QED BY <2>2, <2>3
<1>9. Plans'
  <2>1. [i \in Offsets |-> start[i]] \in [Offsets -> Nat]
    BY <1>4
  <2>2. pos' \in [Slots -> [Offsets -> Nat]]
    BY <1>6, <2>1 DEF Plans
  <2>3. cnt' \in [Slots -> [Offsets -> Nat]]
    BY <1>2, <1>6 DEF Plans
  <2>4. txSubmitted' \in Nat
    BY <1>3, <1>4, <1>5
  <2> QED BY <1>8, <2>2, <2>3, <2>4 DEF Plans
<1>10. \A i \in Offsets : tx <= start[i] /\ start[i] + n[i] <= start[NF]
  <2> SUFFICES ASSUME NEW i \in Offsets
               PROVE  tx <= start[i] /\ start[i] + n[i] <= start[NF]
    OBVIOUS
  <2>1. start[i] + n[i] <= start[NF]
    BY <1>3, <1>4
  <2>2. 0 < i => start[0] + n[0] <= start[i]
    BY <1>3, <1>4
  <2>3. n[0] \in Nat /\ start[i] \in Nat /\ (i = 0 \/ 0 < i)
    BY <1>4
  <2> QED BY <1>3, <2>1, <2>2, <2>3
<1>11. \A i, j \in Offsets : i < j => start[i] + n[i] <= start[j]
  BY <1>3, <1>4
<1>12. tx <= start[NF]
  <2>1. 0 < NF /\ start[0] + n[0] <= start[NF] /\ n[0] \in Nat /\ start[NF] \in Nat
    BY <1>3, <1>4
  <2> QED BY <1>3, <2>1
<1>13. frame'[slot] = nextFrame /\ \A b \in Slots \ {slot} : frame'[b] = frame[b]
  BY <1>5 DEF IInv, Frames
<1> QED BY <1>3, <1>4, <1>5, <1>7, <1>9, <1>10, <1>11, <1>12, <1>13
LEMMA QueueTypes ==
  ASSUME IInv, Types, slot \in Slots, NEW tx \in Nat, Queue(tx),
         realignRequest' \in BOOLEAN, readRx' \in Nat
  PROVE  Types'
<1>1. Plans'
  BY PlanFacts DEF Queue, Types
<1>2. Counters'
  BY DEF Queue, fillVars, rxVars, Types, Counters
<1>3. Control'
  <2>1. UNCHANGED <<captureMaster, lock, tick, starting>>
    BY DEF Queue, session
  <2>2. usb' \in {"fill", "resync"} /\ again' \in BOOLEAN /\ kr' \in BOOLEAN
    BY DEF Queue, Accepted, Refused, TooOld, Types, Control
  <2> QED BY <2>1, <2>2 DEF Types, Control
<1> QED BY <1>1, <1>2, <1>3 DEF Types

LEMMA PlaceIsNat == ASSUME IInv, Types PROVE readRx + Ahead * nominalPerMs \in Nat
<1>1. Ahead \in Nat
  BY DEF Ahead, IInv, Frames, Types, Counters
<1> QED BY <1>1, PlaybackAssumption DEF Types, Counters

(* Actions that plan nothing and move no counter.                           *)
LEMMA ControlTypes ==
  ASSUME IInv, Types,
         \/ Realign \/ SkipSlot \/ stream_resync \/ FillReturns \/ Deliver \/ Started
         \/ BusFrame \/ TickWake \/ HarvestEnds \/ TickLock \/ TickSleep
         \/ UNCHANGED vars
  PROVE  Types'
<1> USE DEF planVars, queueVars, fillVars, rxVars, loopVars, session, Types, Plans,
            Counters, Control
<1>1. CASE Realign \/ SkipSlot
  BY <1>1 DEF Realign, SkipSlot
<1>2. CASE stream_resync \/ FillReturns
  BY <1>2 DEF stream_resync, FillReturns
<1>3. CASE Deliver \/ Started
  BY <1>3 DEF Deliver, xfer_complete, Started
<1>4. CASE BusFrame \/ TickWake
  BY <1>4 DEF BusFrame, TickWake
<1>5. CASE HarvestEnds \/ TickLock \/ TickSleep
  BY <1>5 DEF HarvestEnds, TickLock, TickSleep, NotQueued
<1>6. CASE UNCHANGED vars
  BY <1>6 DEF vars
<1> QED BY <1>1, <1>2, <1>3, <1>4, <1>5, <1>6

LEMMA CountingTypes ==
  ASSUME IInv, Types,
         \/ Fetch \/ job_start \/ HarvestCount \/ HarvestMark \/ CallbackHarvest
         \/ TickPoll \/ BeginFill \/ TickFill
  PROVE  Types'
<1> USE DEF planVars, queueVars, fillVars, rxVars, loopVars, session, Types
<1>0. /\ bus \in Nat /\ f0 \in Nat /\ MaxFrame \in Nat /\ current \in Int
      /\ nominalPerMs \in Nat /\ START_LEAD_FRAMES \in Nat
  BY PlaybackAssumption DEF IInv, Frames
<1>1. CASE Fetch
  <2>1. PICK b \in Slots : OnBus(b) /\ sent' = sent \cup ({bus} \X buf[b][bus - frame[b]])
    BY <1>1 DEF Fetch
  <2>2. bus - frame[b] \in Offsets
    BY <2>1, Geometry DEF OnBus, FramesOf, IInv, Frames, Offsets
  <2>3. buf[b][bus - frame[b]] \subseteq Nat
    BY <2>2 DEF IInv, AudioOK, Counters
  <2>4. sent' \subseteq Nat \X Nat
    BY <1>0, <2>1, <2>3 DEF Counters
  <2> QED BY <1>1, <2>4 DEF Fetch, Plans, Counters, Control
<1>2. CASE job_start
  <2>1. Plans'
    BY <1>2 DEF job_start, Plans
  <2>2. Counters'
    BY <1>0, <1>2 DEF job_start, Counters
  <2>3. Control'
    BY <1>2, PlaybackAssumption DEF job_start, Control
  <2> QED BY <2>1, <2>2, <2>3
<1>3. CASE HarvestCount
  BY <1>0, <1>3 DEF HarvestCount, Plans, Counters, Control
<1>4. CASE HarvestMark
  <2>1. Counters'
    BY <1>4 DEF HarvestMark, Counters
  <2>2. realignRequest' \in BOOLEAN
    BY <1>4 DEF HarvestMark, Feedback, Control
  <2> QED BY <1>4, <2>1, <2>2 DEF HarvestMark, Plans, Control
<1>5. CASE CallbackHarvest
  <2>1. Counters'
    BY <1>0, <1>5 DEF CallbackHarvest, Counters
  <2>2. Plans' /\ Control'
    BY <1>5 DEF CallbackHarvest, Feedback, Plans, Control
  <2> QED BY <2>1, <2>2
<1>6. CASE TickPoll
  <2>1. nextTxPollFrame' \in Nat /\ rxCompleted' \in Nat
    <3>1. CASE PollFrame
      <4>1. PICK b \in find_xfer(nextTxPollFrame) :
              /\ nextTxPollFrame' = nextTxPollFrame + 1
              /\ rxCompleted' \in {rxCompleted,
                                   rxCompleted + cnt[b][nextTxPollFrame - frame[b]]}
        BY <3>1 DEF PollFrame, Counters
      <4>2. b \in Slots /\ nextTxPollFrame - frame[b] \in Offsets
        BY Found DEF Counters
      <4>3. cnt[b][nextTxPollFrame - frame[b]] \in Nat
        BY <4>2 DEF Plans
      <4> QED BY <4>1, <4>3 DEF Counters
    <3>2. CASE \E g \in ReadyAfter(nextTxPollFrame) : PollGap(g)
      BY <3>2 DEF ReadyAfter, PollGap, IInv, Frames, Counters
    <3> QED BY <1>6, <3>1, <3>2 DEF TickPoll, PollStep
  <2> QED BY <1>6, <2>1 DEF TickPoll, Plans, Counters, Control
<1>7. CASE BeginFill
  <2>0. GiveUp \subseteq Nat
    BY <1>0 DEF GiveUp
  <2>1. nextFillFrame' \in Nat /\ late' \subseteq Nat
    <3>1. nextFillFrame' \in Nat
      BY <1>0, <1>7 DEF BeginFill, Counters
    <3>2. late' = late \cup GiveUp /\ late \subseteq Nat
      BY <1>7 DEF BeginFill, Counters
    <3> QED BY <2>0, <3>1, <3>2
  <2> QED BY <1>7, <2>1 DEF BeginFill, Plans, Counters, Control
<1>8. CASE TickFill
  <2>1. nextFillFrame' \in Nat /\ consumed' \subseteq Nat
    <3>1. CASE FillFrame
      <4>1. PICK b \in find_xfer(nextFillFrame) :
              /\ nextFillFrame' = nextFillFrame + 1
              /\ \/ consumed' = consumed
                 \/ consumed' = Cleared(b, nextFillFrame - frame[b])
        BY <3>1 DEF FillFrame
      <4>2. b \in Slots /\ nextFillFrame - frame[b] \in Offsets
        BY Found DEF Counters
      <4>3. /\ pos[b][nextFillFrame - frame[b]] \in Nat
            /\ cnt[b][nextFillFrame - frame[b]] \in Nat
        BY <4>2 DEF Plans
      <4>4. Audio(b, nextFillFrame - frame[b]) \subseteq Nat
        BY <4>3 DEF Audio
      <4>5. nextFillFrame' \in Nat /\ consumed \subseteq Nat
        BY <4>1 DEF Counters
      <4>6. consumed' \subseteq Nat
        BY <4>1, <4>4, <4>5 DEF Cleared
      <4> QED BY <4>5, <4>6
    <3>2. CASE FillJump
      BY <3>2 DEF FillJump, ReadyAfter, IInv, Frames, Counters
    <3> QED BY <1>8, <3>1, <3>2 DEF TickFill
  <2>2. UNCHANGED <<pos, cnt, posMap, txSubmitted>>
    BY <1>8 DEF TickFill, FillFrame, FillJump
  <2> QED BY <1>8, <2>1, <2>2 DEF TickFill, Plans, Counters, Control
<1> QED BY <1>1, <1>2, <1>3, <1>4, <1>5, <1>6, <1>7, <1>8

LEMMA StepTypes == ASSUME IInv, Types, [Next]_vars PROVE Types'
<1>1. CASE submit_xfer
  <2>1. slot \in Slots /\ Queue(txSubmitted) /\ txSubmitted \in Nat
        /\ realignRequest' \in BOOLEAN /\ readRx' \in Nat
    BY <1>1 DEF submit_xfer, Types, Plans, Counters
  <2> QED BY <2>1, QueueTypes
<1>2. CASE Place
  <2>1. /\ slot \in Slots /\ Queue(readRx + Ahead * nominalPerMs)
        /\ realignRequest' \in BOOLEAN /\ readRx' \in Nat
    BY <1>2 DEF Place, IInv, QueueOK, Types, Control
  <2> QED BY <2>1, PlaceIsNat, QueueTypes
<1> QED BY <1>1, <1>2, ControlTypes, CountingTypes DEF Next, Fill, Harvest

LEMMA TypesInvariant == Spec => [](IInv /\ Types)
<1>1. Init => Types
  <2> SUFFICES ASSUME Init PROVE Types
    OBVIOUS
  <2>1. Plans
    BY DEF Init, Plans
  <2>2. Counters
    BY DEF Init, Counters
  <2>3. Control
    BY DEF Init, Control
  <2> QED BY <2>1, <2>2, <2>3 DEF Types
<1>2. IInv /\ Types /\ [Next]_vars => Types'
  BY StepTypes
<1> QED BY <1>1, <1>2, Invariance, PTL DEF Spec

(* Type correctness: with any error of the estimate no ring position, frame *)
(* number or counter of the stream becomes negative, although a plan starts *)
(* wherever the realign puts it; and no buffer holds a sample that the fill *)
(* has not cleared in the ring.                                             *)
THEOREM TypeCorrect == Spec => []TypeOK
BY TypesInvariant, TypesSuffice, PTL
----------------------------------------------------------------------------
(* Who counts: the tick thread runs between a start that succeeded and the  *)
(* end, harvests only beside a capture stream, and only there a transfer is *)
(* ever placed anew.                                                        *)
Threads ==
  /\ usb = "place" => captureMaster
  /\ usb = "off" \/ starting => tick = "none"
  /\ tick \in {"harvest", "mark"} => captureMaster

(* With capture: the audio count is that of the frames harvested, or one    *)
(* frame more while the tick thread is between its two stores.              *)
Harvested == nextHarvestFrame - f0 + (IF tick = "mark" THEN 1 ELSE 0)
Captured == captureMaster =>
  /\ rxCompleted = Harvested * nominalPerMs
  /\ f0 <= nextHarvestFrame
  /\ lastHarvestFrame = IF nextHarvestFrame = f0 THEN 0 ELSE nextHarvestFrame - 1
  /\ lastHarvestFrame < bus
  /\ tick = "mark" => nextHarvestFrame < bus

(* Without: the queue is in the order of the ring, from the clock on.       *)
Played == ~captureMaster =>
  /\ rxCompleted <= txSubmitted
  /\ \A b \in Slots, i \in Offsets : ready[b] => pos[b][i] + cnt[b][i] <= txSubmitted
  /\ \A b, c \in Slots, i, j \in Offsets :
       ready[b] /\ ready[c] /\ frame[b] + i < frame[c] + j
         => pos[b][i] + cnt[b][i] <= pos[c][j]
  /\ \A b \in Slots, i \in Offsets :
       ready[b] /\ nextTxPollFrame <= frame[b] + i => rxCompleted <= pos[b][i]

Timeline == Threads /\ Captured /\ Played

(* Steps that leave the counters and the plans, and queue nothing.          *)
counters == <<f0, captureMaster, rxCompleted, lastHarvestFrame, nextHarvestFrame,
              txSubmitted, nextTxPollFrame, pos, cnt, frame>>
LEMMA Quiet ==
  ASSUME IInv, Timeline, UNCHANGED counters, bus' \in {bus, bus + 1},
         \A b \in Slots : ready'[b] => ready[b],
         usb' = "place" => captureMaster,
         tick' = tick \/ (tick # "none" /\ usb # "off" /\ usb' = usb /\ tick' # "mark"
                          /\ tick # "mark" /\ (tick' = "harvest" => captureMaster)),
         usb' = "off" \/ starting' => tick' = "none",
         Types
  PROVE  Timeline'
<1> USE DEF counters
<1>1. Threads'
  BY DEF Timeline, Threads
<1>2. Captured'
  <2>1. bus \in Nat /\ bus' \in Nat /\ bus <= bus' /\ rxCompleted \in Nat
        /\ lastHarvestFrame \in Nat /\ nextHarvestFrame \in Nat
    BY DEF IInv, Frames, Types, Counters
  <2>2. tick' = "mark" <=> tick = "mark"
    OBVIOUS
  <2>3. Harvested' = Harvested
    BY <2>2 DEF Harvested
  <2> QED BY <2>1, <2>2, <2>3 DEF Timeline, Captured
<1>3. Played'
  BY DEF Timeline, Played
<1> QED BY <1>1, <1>2, <1>3 DEF Timeline

LEMMA QuietSteps ==
  ASSUME IInv, Types, Timeline,
         \/ Realign \/ SkipSlot \/ stream_resync \/ FillReturns \/ Deliver
         \/ Fetch \/ BusFrame \/ HarvestEnds \/ TickLock \/ BeginFill \/ TickFill \/ TickSleep
         \/ TickWake \/ UNCHANGED vars
  PROVE  Timeline'
<1> USE DEF planVars, queueVars, fillVars, rxVars, loopVars, session, counters
<1>0. Threads
  BY DEF Timeline
<1>1. CASE Realign
  BY <1>0, <1>1, Quiet DEF Realign, Threads
<1>2. CASE SkipSlot
  BY <1>0, <1>2, Quiet DEF SkipSlot, Threads
<1>3. CASE stream_resync
  BY <1>0, <1>3, Quiet DEF stream_resync, Threads
<1>4. CASE FillReturns
  BY <1>0, <1>4, Quiet DEF FillReturns, Threads
<1>5. CASE Deliver
  <2>1. PICK b \in Slots : xfer_complete(b)
    BY <1>5 DEF Deliver
  <2>2. \A c \in Slots : ready'[c] => ready[c]
    BY <2>1 DEF xfer_complete, IInv, Frames
  <2> QED BY <1>0, <2>1, <2>2, Quiet DEF xfer_complete, Threads
<1>6. CASE Fetch \/ BusFrame
  BY <1>0, <1>6, Quiet DEF Fetch, BusFrame, Threads
<1>7. CASE HarvestEnds
  BY <1>0, <1>7, Quiet DEF HarvestEnds, Threads
<1>8. CASE TickLock \/ BeginFill
  BY <1>0, <1>8, Quiet DEF TickLock, BeginFill, Threads
<1>9. CASE TickFill
  BY <1>0, <1>9, Quiet DEF TickFill, FillFrame, FillJump, Threads
<1>10. CASE TickSleep
  BY <1>0, <1>10, Quiet DEF TickSleep, NotQueued, Threads
<1>11. CASE TickWake
  BY <1>0, <1>11, Quiet DEF TickWake, Threads
<1>12. CASE UNCHANGED vars
  BY <1>0, <1>12, Quiet DEF vars, Threads
<1> QED BY <1>1, <1>2, <1>3, <1>4, <1>5, <1>6, <1>7, <1>8, <1>9, <1>10, <1>11, <1>12

LEMMA StartSteps ==
  ASSUME IInv, Types, Timeline, job_start \/ Started
  PROVE  Timeline'
<1> USE DEF planVars, queueVars, fillVars, rxVars, loopVars, session
<1>1. CASE job_start
  <2>1. \A b \in Slots : ~ready[b]
    BY <1>1 DEF job_start, IInv, QueueOK
  <2>2. tick' = "none" /\ usb' = "fill" /\ f0' \in Nat
    BY <1>1, PlaybackAssumption DEF job_start, Timeline, Threads, IInv, Frames
  <2>3. Harvested' = 0
    BY <1>1, <2>2 DEF job_start, Harvested
  <2>4. Captured'
    BY <1>1, <2>2, <2>3, PlaybackAssumption DEF job_start, Captured, IInv, Frames
  <2>5. Played'
    BY <1>1, <2>1 DEF job_start, Played
  <2> QED BY <2>2, <2>4, <2>5 DEF Timeline, Threads
<1>2. CASE Started
  <2>1. Threads'
    BY <1>2 DEF Started, Timeline, Threads
  <2>2. tick # "mark" /\ tick' # "mark" /\ usb' # "place" /\ \A b \in Slots : ready'[b] => ready[b]
    BY <1>2 DEF Started, Timeline, Threads
  <2>3. Captured'
    BY <1>2, <2>2 DEF Started, Timeline, Captured, Harvested
  <2>4. Played'
    BY <1>2, <2>2 DEF Started, Timeline, Played
  <2> QED BY <2>1, <2>3, <2>4 DEF Timeline
<1> QED BY <1>1, <1>2

(* One more frame harvested, in one store or in two.                        *)
LEMMA HarvestSteps ==
  ASSUME IInv, Types, Timeline, HarvestCount \/ HarvestMark \/ CallbackHarvest
  PROVE  Timeline'
<1> USE DEF planVars, queueVars, fillVars, rxVars, loopVars, session
<1>1. /\ captureMaster /\ captureMaster' = captureMaster
      /\ usb' = usb /\ starting' = starting /\ bus' = bus /\ f0' = f0
      /\ tick' = tick \/ (tick \in {"harvest", "mark"} /\ tick' \in {"harvest", "mark"})
  BY DEF HarvestCount, HarvestMark, CallbackHarvest, Timeline, Threads
<1>2. Threads' /\ Played'
  BY <1>1 DEF Timeline, Threads, Played
<1>3. /\ nextHarvestFrame \in Int /\ f0 \in Int /\ bus \in Int /\ nominalPerMs \in Nat
      /\ rxCompleted \in Int
  BY PlaybackAssumption DEF IInv, Frames, Types, Counters
<1>4. /\ rxCompleted = Harvested * nominalPerMs
      /\ tick = "mark" => nextHarvestFrame < bus
      /\ f0 <= nextHarvestFrame /\ lastHarvestFrame < bus
      /\ lastHarvestFrame = IF nextHarvestFrame = f0 THEN 0 ELSE nextHarvestFrame - 1
  BY <1>1 DEF Timeline, Captured
<1>5. \A h \in Int : (h + 1) * nominalPerMs = h * nominalPerMs + nominalPerMs
  BY <1>3
<1>6. CASE HarvestMark
  <2>1. tick = "mark" /\ tick' = "harvest" /\ lastHarvestFrame' = nextHarvestFrame
        /\ nextHarvestFrame' = nextHarvestFrame + 1 /\ rxCompleted' = rxCompleted
    BY <1>6 DEF HarvestMark
  <2>2. Harvested' = Harvested
    BY <1>1, <1>3, <2>1 DEF Harvested
  <2>3. Captured'
    BY <1>1, <1>3, <1>4, <2>1, <2>2 DEF Captured
  <2> QED BY <1>2, <2>3 DEF Timeline
<1>7. CASE HarvestCount \/ CallbackHarvest
  <2>1. /\ rxCompleted' = rxCompleted + nominalPerMs /\ nextHarvestFrame < bus
        /\ tick # "mark"
        /\ \/ /\ tick' = "mark" /\ nextHarvestFrame' = nextHarvestFrame
              /\ lastHarvestFrame' = lastHarvestFrame
           \/ /\ tick' # "mark" /\ nextHarvestFrame' = nextHarvestFrame + 1
              /\ lastHarvestFrame' = nextHarvestFrame
    BY <1>7 DEF HarvestCount, CallbackHarvest
  <2>2. Harvested \in Int /\ Harvested' = Harvested + 1
    BY <1>1, <1>3, <2>1 DEF Harvested
  <2>3. rxCompleted' = Harvested' * nominalPerMs
    BY <1>4, <1>5, <2>1, <2>2
  <2>4. f0' <= nextHarvestFrame' /\ lastHarvestFrame' < bus'
    BY <1>1, <1>3, <1>4, <2>1
  <2>5. lastHarvestFrame' = IF nextHarvestFrame' = f0' THEN 0 ELSE nextHarvestFrame' - 1
    BY <1>1, <1>3, <1>4, <2>1
  <2>6. tick' = "mark" => nextHarvestFrame' < bus'
    BY <1>1, <2>1
  <2>7. Captured'
    BY <2>3, <2>4, <2>5, <2>6 DEF Captured
  <2> QED BY <1>2, <2>7 DEF Timeline
<1> QED BY <1>6, <1>7

(* The poll counts the frame that the cursor is at, or jumps.               *)
LEMMA PollStepTimeline ==
  ASSUME IInv, Types, Timeline, TickPoll
  PROVE  Timeline'
<1> USE DEF TickPoll, planVars, queueVars, fillVars, loopVars, session
<1>1. Threads' /\ Captured'
  BY DEF Timeline, Threads, Captured
<1>2. Played'
  <2>0. /\ ~captureMaster /\ ~captureMaster' /\ txSubmitted \in Int /\ rxCompleted \in Int
        /\ nextTxPollFrame \in Int /\ \A c \in Slots : frame[c] \in Int
        /\ \A c \in Slots, j \in Offsets : pos[c][j] \in Int /\ cnt[c][j] \in Nat
    BY DEF IInv, Frames, Types, Plans, Counters
  <2>1. CASE PollFrame
    <3>1. PICK b \in find_xfer(nextTxPollFrame) :
              /\ nextTxPollFrame' = nextTxPollFrame + 1
              /\ rxCompleted' \in {rxCompleted,
                                   rxCompleted + cnt[b][nextTxPollFrame - frame[b]]}
      BY <2>0, <2>1 DEF PollFrame
    <3> DEFINE i == nextTxPollFrame - frame[b]
    <3>2. b \in Slots /\ i \in Offsets /\ ready[b] /\ frame[b] + i = nextTxPollFrame
      BY <2>0, Found
    <3>3. rxCompleted' \in {rxCompleted, rxCompleted + cnt[b][i]}
      BY <3>1
    <3> HIDE DEF i
    <3>4. rxCompleted <= pos[b][i] /\ pos[b][i] + cnt[b][i] <= txSubmitted
      BY <2>0, <3>2 DEF Timeline, Played
    <3>5. rxCompleted' <= pos[b][i] + cnt[b][i] /\ rxCompleted' <= txSubmitted
      BY <2>0, <3>2, <3>3, <3>4
    <3>6. ASSUME NEW c \in Slots, NEW j \in Offsets, ready[c], nextTxPollFrame' <= frame[c] + j
          PROVE  rxCompleted' <= pos[c][j]
      <4>1. frame[b] + i < frame[c] + j
        BY <2>0, <3>1, <3>2, <3>6, Geometry
      <4>2. pos[b][i] + cnt[b][i] <= pos[c][j]
        BY <2>0, <3>2, <3>6, <4>1 DEF Timeline, Played
      <4> QED BY <2>0, <3>2, <3>3, <3>5, <4>2
    <3> QED BY <2>0, <3>5, <3>6 DEF Timeline, Played
  <2>2. CASE \E g \in ReadyAfter(nextTxPollFrame) : PollGap(g)
    <3>1. rxCompleted' = rxCompleted /\ nextTxPollFrame' > nextTxPollFrame
          /\ nextTxPollFrame' \in Int
      BY <2>0, <2>2 DEF ReadyAfter, PollGap
    <3>2. \A c \in Slots, j \in Offsets :
            nextTxPollFrame' <= frame[c] + j => nextTxPollFrame <= frame[c] + j
      BY <2>0, <3>1, Geometry
    <3> QED BY <2>0, <3>1, <3>2 DEF Timeline, Played
  <2> QED BY <2>1, <2>2 DEF PollStep
<1> QED BY <1>1, <1>2 DEF Timeline
(* A plan starts at tx: without capture that is where the last one ended.   *)
LEMMA QueueTimeline ==
  ASSUME IInv, Types, Timeline, slot \in Slots, ~ready[slot], usb # "off", NEW tx \in Nat,
         Queue(tx), captureMaster \/ tx = txSubmitted
  PROVE  Timeline'
<1>1. UNCHANGED <<bus, rxCompleted, lastHarvestFrame, nextHarvestFrame, f0, captureMaster,
                  nextTxPollFrame, tick, starting>>
  BY DEF Queue, rxVars, session
<1>2. usb' \in {"fill", "resync"}
  BY DEF Queue, Accepted, Refused, TooOld
<1>3. /\ \A b \in Slots : ready'[b] => b = slot \/ ready[b]
  BY DEF Queue, Accepted, Refused, TooOld, queueVars, IInv, Frames
<1>4. Threads' /\ Captured'
  BY <1>1, <1>2 DEF Timeline, Threads, Captured, Harvested
<1>5. Played'
  <2> SUFFICES ASSUME ~captureMaster PROVE Played'
    BY <1>1 DEF Played
  <2>1. /\ \A b \in Slots \ {slot} :
             frame'[b] = frame[b] /\ pos'[b] = pos[b] /\ cnt'[b] = cnt[b]
        /\ frame'[slot] = nextFrame /\ txSubmitted <= txSubmitted'
        /\ \A i \in Offsets : /\ txSubmitted <= pos'[slot][i]
                              /\ pos'[slot][i] + cnt'[slot][i] <= txSubmitted'
        /\ \A i, j \in Offsets :
             i < j => pos'[slot][i] + cnt'[slot][i] <= pos'[slot][j]
    BY PlanFacts DEF Queue, Types
  <2>2. /\ txSubmitted \in Nat /\ rxCompleted \in Nat /\ nextFrame \in Int
        /\ \A b \in Slots : frame[b] \in Int
        /\ \A b \in Slots, i \in Offsets : pos[b][i] \in Int /\ cnt[b][i] \in Nat
    BY DEF IInv, Frames, Types, Plans, Counters
  <2>3. txSubmitted' \in Nat
        /\ \A b \in Slots, i \in Offsets : pos'[b][i] \in Int /\ cnt'[b][i] \in Nat
    <3>1. Plans'
      BY PlanFacts DEF Queue, Types
    <3> QED BY <3>1 DEF Plans
  <2>4. rxCompleted' <= txSubmitted'
    BY <1>1, <2>1, <2>2, <2>3 DEF Timeline, Played
  <2>5. ASSUME NEW b \in Slots, NEW i \in Offsets, ready'[b]
        PROVE  pos'[b][i] + cnt'[b][i] <= txSubmitted'
    <3>1. CASE b = slot
      BY <2>1, <3>1
    <3>2. CASE b # slot
      <4>1. pos[b][i] + cnt[b][i] <= txSubmitted
        BY <1>3, <2>5, <3>2 DEF Timeline, Played
      <4> QED BY <2>1, <2>2, <2>3, <3>2, <4>1
    <3> QED BY <3>1, <3>2
  <2>6. ASSUME NEW b \in Slots, NEW c \in Slots, NEW i \in Offsets, NEW j \in Offsets,
               ready'[b], ready'[c], frame'[b] + i < frame'[c] + j
        PROVE  pos'[b][i] + cnt'[b][i] <= pos'[c][j]
    <3>0. i \in Int /\ j \in Int /\ 0 <= i /\ 0 <= j /\ j < NF /\ NF \in Int
      BY Geometry
    <3>1. CASE b = slot /\ c = slot
      <4>1. i < j
        BY <2>1, <2>2, <2>6, <3>0, <3>1
      <4> QED BY <2>1, <3>1, <4>1
    <3>2. CASE b # slot /\ c # slot
      <4>1. ready[b] /\ ready[c] /\ frame[b] + i < frame[c] + j
        BY <1>3, <2>1, <2>6, <3>2
      <4>2. pos[b][i] + cnt[b][i] <= pos[c][j]
        BY <4>1 DEF Timeline, Played
      <4> QED BY <2>1, <3>2, <4>2
    <3>3. CASE b # slot /\ c = slot
      <4>1. pos[b][i] + cnt[b][i] <= txSubmitted
        BY <1>3, <2>6, <3>3 DEF Timeline, Played
      <4>2. pos'[b][i] + cnt'[b][i] <= txSubmitted /\ txSubmitted <= pos'[c][j]
        BY <2>1, <3>3, <4>1
      <4> QED BY <2>2, <2>3, <4>2
    <3>4. CASE b = slot /\ c # slot
      <4>1. frame[c] + NF <= nextFrame
        BY <1>3, <2>6, <3>4 DEF IInv, QueueOK
      <4> QED BY <2>1, <2>2, <2>6, <3>0, <3>4, <4>1
    <3> QED BY <3>1, <3>2, <3>3, <3>4
  <2>7. ASSUME NEW b \in Slots, NEW i \in Offsets, ready'[b], nextTxPollFrame <= frame'[b] + i
        PROVE  rxCompleted <= pos'[b][i]
    <3>1. CASE b = slot
      <4>1. rxCompleted <= txSubmitted /\ txSubmitted <= pos'[b][i]
        BY <2>1, <3>1 DEF Timeline, Played
      <4> QED BY <2>2, <2>3, <4>1
    <3>2. CASE b # slot
      BY <1>3, <2>1, <2>7, <3>2 DEF Timeline, Played
    <3> QED BY <3>1, <3>2
  <2> QED BY <1>1, <2>4, <2>5, <2>6, <2>7 DEF Played
<1> QED BY <1>4, <1>5 DEF Timeline

LEMMA StepTimeline == ASSUME IInv, Types, Timeline, [Next]_vars PROVE Timeline'
<1>1. CASE submit_xfer
  <2>1. /\ slot \in Slots /\ ~ready[slot] /\ usb # "off" /\ Queue(txSubmitted)
        /\ txSubmitted \in Nat
    BY <1>1 DEF submit_xfer, IInv, QueueOK, Types, Plans
  <2> QED BY <2>1, QueueTimeline
<1>2. CASE Place
  <2>1. /\ slot \in Slots /\ ~ready[slot] /\ usb # "off" /\ captureMaster
        /\ Queue(readRx + Ahead * nominalPerMs)
    BY <1>2 DEF Place, IInv, QueueOK, Timeline, Threads
  <2> QED BY <2>1, PlaceIsNat, QueueTimeline
<1>3. CASE job_start \/ Started
  BY <1>3, StartSteps
<1>4. CASE HarvestCount \/ HarvestMark \/ CallbackHarvest
  BY <1>4, HarvestSteps
<1>5. CASE TickPoll
  BY <1>5, PollStepTimeline
<1> QED BY <1>1, <1>2, <1>3, <1>4, <1>5, QuietSteps DEF Next, Fill, Harvest

LEMMA TimelineInvariant == Spec => [](IInv /\ Types /\ Timeline)
<1>1. Init => Timeline
  BY DEF Init, Timeline, Threads, Captured, Played
<1>2. IInv /\ Types /\ Timeline /\ [Next]_vars => Timeline'
  BY StepTimeline
<1> QED BY <1>1, <1>2, TypesInvariant, PTL DEF Spec

(* "Rings are indexed by absolute device sample time" (UA4FX_USB.c:22):     *)
(* without capture, what the transfer at the poll cursor plays is never     *)
(* older than the device clock, over any refused submissions, resyncs and   *)
(* polls across gaps, for every packet size the rate accumulator gives.     *)
THEOREM RingNotBehindClockTheorem == Spec => []RingNotBehindClock
<1>1. IInv /\ Types /\ Timeline => RingNotBehindClock
  <2> SUFFICES ASSUME IInv, Types, Timeline, ~captureMaster,
                      NEW b \in find_xfer(nextTxPollFrame)
               PROVE  pos[b][nextTxPollFrame - frame[b]] >= rxCompleted
    BY DEF RingNotBehindClock
  <2> DEFINE i == nextTxPollFrame - frame[b]
  <2>1. nextTxPollFrame \in Int /\ rxCompleted \in Nat
    BY DEF Types, Counters
  <2>2. b \in Slots /\ i \in Offsets /\ ready[b] /\ frame[b] + i = nextTxPollFrame
    BY <2>1, Found
  <2> HIDE DEF i
  <2>3. pos[b][i] \in Nat
    BY <2>2 DEF Types, Plans
  <2>4. rxCompleted <= pos[b][i]
    BY <2>1, <2>2 DEF Timeline, Played
  <2> QED BY <2>1, <2>3, <2>4 DEF i
<1> QED BY <1>1, TimelineInvariant, PTL

(* The place of an accepted transfer, against the frames harvested by then. *)
LEMMA Landing ==
  ASSUME IInv, Types, Timeline, Place, inFlight'[slot]
  PROVE  pos'[slot][0] = (frame'[slot] - f0) * nominalPerMs - Lag + HalfStored + NoHarvestYet
<1> DEFINE N == nominalPerMs
           L == lastHarvestFrame
           h == nextHarvestFrame
           m == IF tick = "mark" THEN 1 ELSE 0
           z == IF L = 0 THEN f0 - 1 ELSE 0
<1>1. /\ slot \in Slots /\ ~ready[slot] /\ inFlight = ready /\ captureMaster
      /\ Plan(slot, readRx + Ahead * N) /\ usb = "place" /\ 0 < f0
  BY DEF Place, Queue, IInv, QueueOK, Timeline, Threads
<1>2. frame'[slot] = nextFrame /\ pos'[slot][0] = readRx + Ahead * N
  BY <1>1, PlaceIsNat, PlanFacts DEF Types
<1>3. nextFrame > bus
  <2>1. Accepted(slot)
    BY <1>1 DEF Place, Queue, Refused, TooOld, queueVars
  <2> QED BY <2>1 DEF Accepted
<1>4. /\ bus \in Int /\ nextFrame \in Int /\ f0 \in Int /\ L \in Int /\ N \in Int
      /\ readRx \in Int /\ rxCompleted \in Int /\ h \in Int
  BY PlaybackAssumption DEF IInv, Frames, Types, Counters
<1>5. /\ rxCompleted = Harvested * N /\ f0 <= h /\ L < bus
      /\ L = IF h = f0 THEN 0 ELSE h - 1
  BY <1>1 DEF Timeline, Captured
<1>6. Harvested = h - f0 + m /\ m \in Int /\ z \in Int
  BY <1>4 DEF Harvested
<1>7. Ahead = nextFrame - L - 1
  BY <1>3, <1>4, <1>5 DEF Ahead
<1>8. \/ z = f0 - 1 /\ L = 0 /\ h = f0
      \/ z = 0 /\ L = h - 1
  BY <1>1, <1>4, <1>5
<1>9. HalfStored = m * N /\ NoHarvestYet = z * N
  <2>1. HalfStored = m * N
    BY <1>4 DEF HalfStored
  <2>2. NoHarvestYet = z * N
    BY <1>4 DEF NoHarvestYet
  <2> QED BY <2>1, <2>2
<1> HIDE DEF N, L, h, m, z
<1>10. Ahead + Harvested = (nextFrame - f0) + m + z /\ Ahead \in Int /\ Harvested \in Int
  BY <1>4, <1>6, <1>7, <1>8
<1>11. \A a, b, c \in Int : (a + b + c) * N = a * N + b * N + c * N
  BY <1>4
<1>12. \A a, b \in Int : (a + b) * N = a * N + b * N
  BY <1>4
<1>13. Ahead * N + Harvested * N = (nextFrame - f0) * N + m * N + z * N
  <2>1. nextFrame - f0 \in Int
    BY <1>4
  <2>2. Ahead * N + Harvested * N = (Ahead + Harvested) * N
    BY <1>10, <1>12
  <2>3. ((nextFrame - f0) + m + z) * N = (nextFrame - f0) * N + m * N + z * N
    BY <1>6, <1>11, <2>1
  <2> QED BY <1>10, <2>2, <2>3
<1>14. /\ Ahead * N \in Int /\ Harvested * N \in Int /\ (nextFrame - f0) * N \in Int
       /\ m * N \in Int /\ z * N \in Int
  BY <1>4, <1>6, <1>10
<1>15. readRx + Ahead * N = (nextFrame - f0) * N - (rxCompleted - readRx) + m * N + z * N
  <2> DEFINE A == Ahead * N
             G == Harvested * N
             X == (nextFrame - f0) * N
             u == m * N
             v == z * N
  <2>1. A + G = X + u + v /\ A \in Int /\ G \in Int /\ X \in Int /\ u \in Int /\ v \in Int
    BY <1>13, <1>14
  <2>2. rxCompleted = G /\ readRx \in Int
    BY <1>4, <1>5
  <2> HIDE DEF A, G, X, u, v
  <2>3. readRx + A = X - (rxCompleted - readRx) + u + v
    BY <2>1, <2>2
  <2> QED BY <2>3 DEF A, X, u, v
<1> QED BY <1>2, <1>9, <1>15 DEF N, Lag

(* Where a realign puts the read pointer, against where "the capture        *)
(* timeline says this frame will be" (UA4FX_USB.c:303): exactly there, less *)
(* what was harvested between the two loads of submit_xfer, plus a frame    *)
(* between the two stores of the harvest, plus f0 - 1 frames when nothing   *)
(* was harvested yet; for any number of harvests in between, and after any  *)
(* refused submissions, resyncs and retries.                                *)
THEOREM RealignLandsTheorem == Spec => RealignLands
<1> DEFINE Lands == usb = "place" /\ inFlight'[slot]
                      => pos'[slot][0] = (frame'[slot] - f0) * nominalPerMs
                                           - Lag + HalfStored + NoHarvestYet
<1>1. ASSUME IInv, Types, Timeline, Next PROVE Lands
  <2> SUFFICES ASSUME usb = "place", inFlight'[slot]
               PROVE  pos'[slot][0] = (frame'[slot] - f0) * nominalPerMs
                                        - Lag + HalfStored + NoHarvestYet
    OBVIOUS
  <2>0. usb = "place"
    OBVIOUS
  <2>1. ~inFlight[slot]
    <3>1. inFlight = ready /\ ~ready[slot]
      BY <1>1, <2>0 DEF IInv, QueueOK
    <3> QED BY <3>1
  <2>2. Place
    <3>1. inFlight' # inFlight
      BY <2>1
    <3> QED BY <1>1, <3>1 DEF Next, Fill, Harvest, Deliver, Fetch, BusFrame, job_start,
         Started, submit_xfer, Realign, SkipSlot, stream_resync, FillReturns, xfer_complete,
         TickWake, HarvestCount, HarvestMark, HarvestEnds, CallbackHarvest, TickLock,
         TickPoll, BeginFill, TickFill, TickSleep, queueVars
  <2> QED BY <1>1, <2>2, Landing
<1>2. IInv /\ Types /\ Timeline /\ [Next]_vars => [Lands]_vars
  BY <1>1
<1>3. Spec => [][IInv /\ Types /\ Timeline /\ [Next]_vars]_vars
  BY TimelineInvariant, PTL DEF Spec
<1> QED BY <1>2, <1>3, PTL DEF RealignLands
=============================================================================
