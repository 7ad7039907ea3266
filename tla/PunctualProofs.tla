--------------------------- MODULE PunctualProofs ---------------------------
(* Proofs about PlaybackPunctual, for every error of the reference and any  *)
(* timing of the wake-ups.  The estimate of the current frame is never more *)
(* than one frame beyond what the reference may err (AheadOK): the cadence  *)
(* runs ahead by one frame only, as a tick that disagrees with the          *)
(* reference by more takes the reference itself.                            *)
EXTENDS PlaybackPunctual, PlaybackProofs

AheadOK ==
  /\ lastCurrent \in Int /\ late \subseteq Int
  /\ current <= bus + 1 + REF_ERROR
  /\ NoFutureGivenUp
----------------------------------------------------------------------------
(* Threads that keep up are one way for the threads to behave: what is      *)
(* proved of Playback holds here as well.                                   *)
LEMMA PunctualIsPlayback == PunctualSpec => Spec
<1>1. PunctualInit => Init
  BY DEF PunctualInit
<1>2. [PunctualNext]_allVars => [Next]_vars
  BY DEF PunctualNext, allVars, Next
<1> QED BY <1>1, <1>2, PTL DEF PunctualSpec, Spec

(* The estimate of one tick.                                                *)
LEMMA EstimateBound ==
  ASSUME bus \in Int, lastCurrent \in Int, NEW e \in -REF_ERROR .. REF_ERROR,
         Estimate(bus + e)
  PROVE  current' \in Int /\ current' <= bus + 1 + REF_ERROR
<1> DEFINE ref == bus + e
           d == ref - (lastCurrent + 1)
<1>1. ref \in Int /\ ref <= bus + REF_ERROR /\ REF_ERROR \in Int
  BY PunctualAssumption
<1>2. /\ current' = ref \/ current' = lastCurrent + 1
      /\ current' = ref \/ d \in -1 .. 1
  BY DEF Estimate
<1>3. d \in -1 .. 1 => lastCurrent + 1 <= ref + 1
  BY <1>1
<1> HIDE DEF ref, d
<1> QED BY <1>1, <1>2, <1>3

LEMMA LaterBound == \A a, b, c, r \in Int : a <= b /\ c <= a + 1 + r => c <= b + 1 + r
OBVIOUS

(* Any step but a wake-up and the start of a fill leaves the estimate and   *)
(* the frames given up, or resets them; the bus only goes on.               *)
LEMMA OtherAhead ==
  ASSUME IInv, AheadOK, bus' \in {bus, bus + 1}, current' \in {current, 0},
         late' \in {late, {}}, lastCurrent' = lastCurrent
  PROVE  AheadOK'
<1>1. bus \in Int /\ bus >= 0 /\ REF_ERROR \in Nat /\ current \in Int
  BY PunctualAssumption DEF IInv, Frames
<1>2. bus' \in Int /\ bus <= bus' /\ current' <= bus' + 1 + REF_ERROR
  <2>1. bus' \in Int /\ bus <= bus'
    BY <1>1
  <2>2. current <= bus + 1 + REF_ERROR
    BY DEF AheadOK
  <2>3. current' <= bus + 1 + REF_ERROR
    BY <1>1, <2>2
  <2>4. current' \in Int
    BY <1>1
  <2>5. bus \in Int /\ REF_ERROR \in Int
    BY <1>1
  <2> QED BY <2>1, <2>3, <2>4, <2>5, LaterBound, Zenon
<1>3. \A f \in late' : f \in Int /\ f < bus + 1 + REF_ERROR
  BY DEF AheadOK, NoFutureGivenUp
<1>4. \A f \in late' : f < bus' + 1 + REF_ERROR
  BY <1>1, <1>2, <1>3
<1> QED BY <1>2, <1>3, <1>4 DEF AheadOK, NoFutureGivenUp

LEMMA StepAhead ==
  ASSUME IInv, AheadOK, [PunctualNext]_allVars
  PROVE  AheadOK'
<1> USE DEF planVars, queueVars, fillVars, rxVars, loopVars, session
<1>1. bus \in Int /\ bus >= 0 /\ REF_ERROR \in Nat /\ current \in Int /\ f0 \in Int
  BY PunctualAssumption DEF IInv, Frames
<1>2. CASE UNCHANGED allVars
  BY <1>2, OtherAhead DEF allVars, vars
<1>3. CASE /\ TickWake /\ \E e \in -REF_ERROR .. REF_ERROR : Estimate(bus + e)
           /\ lastCurrent' = current'
  <2>1. current' \in Int /\ current' <= bus + 1 + REF_ERROR
    BY <1>1, <1>3, EstimateBound DEF AheadOK
  <2>2. bus' = bus /\ late' = late
    BY <1>3 DEF TickWake
  <2> QED BY <1>3, <2>1, <2>2 DEF AheadOK, NoFutureGivenUp
<1>4. CASE TickSleep /\ lastCurrent' = lastCurrent
  BY <1>4, OtherAhead DEF TickSleep
<1>5. CASE BusFrame /\ lastCurrent' = lastCurrent
  BY <1>5, OtherAhead DEF BusFrame
<1>6. CASE BeginFill /\ lastCurrent' = lastCurrent
  <2>1. bus' = bus /\ current' = current /\ late' = late \cup GiveUp
    BY <1>6 DEF BeginFill
  <2>2. \A f \in GiveUp : f \in Int /\ f < bus + 1 + REF_ERROR
    BY <1>1 DEF GiveUp, AheadOK
  <2> QED BY <1>6, <2>1, <2>2 DEF AheadOK, NoFutureGivenUp
<1>7. CASE /\ \/ Fetch \/ job_start \/ Started \/ Fill \/ Deliver \/ Harvest
              \/ TickLock \/ TickPoll \/ TickFill
           /\ lastCurrent' = lastCurrent
  <2>1. CASE Fetch \/ job_start \/ Started
    BY <1>7, <2>1, OtherAhead DEF Fetch, job_start, Started
  <2>2. CASE Fill
    BY <1>7, <2>2, OtherAhead DEF Fill, submit_xfer, Realign, Place, Queue, SkipSlot,
       stream_resync, FillReturns
  <2>3. CASE Deliver
    BY <1>7, <2>3, OtherAhead DEF Deliver, xfer_complete
  <2>4. CASE Harvest
    BY <1>7, <2>4, OtherAhead DEF Harvest, HarvestCount, HarvestMark, HarvestEnds,
       CallbackHarvest
  <2>5. CASE TickLock \/ TickPoll \/ TickFill
    BY <1>7, <2>5, OtherAhead DEF TickLock, TickPoll, TickFill
  <2> QED BY <1>7, <2>1, <2>2, <2>3, <2>4, <2>5
<1> QED BY <1>2, <1>3, <1>4, <1>5, <1>6, <1>7 DEF PunctualNext

(* fill_locked gives up no frame beyond the bus by more than the reference  *)
(* errs (UA4FX_USB.c:495-545): the estimate of tick_thread may follow its   *)
(* own cadence ahead of the reference, but over any number of ticks this    *)
(* never adds up to more than the frame that BeginFill does not give up.    *)
THEOREM NoFutureGivenUpTheorem == PunctualSpec => []NoFutureGivenUp
<1>1. PunctualInit => AheadOK
  <2> SUFFICES ASSUME PunctualInit PROVE AheadOK
    OBVIOUS
  <2>1. bus = 1 /\ current = 0 /\ late = {} /\ lastCurrent = 0
    BY DEF PunctualInit, Init
  <2>2. current <= bus + 1 + REF_ERROR
    BY <2>1, PunctualAssumption
  <2> QED BY <2>1, <2>2 DEF AheadOK, NoFutureGivenUp
<1>2. PunctualSpec => []IInv
  BY PunctualIsPlayback, Invariance, PTL
<1>3. IInv /\ AheadOK /\ [PunctualNext]_allVars => AheadOK'
  BY StepAhead
<1>4. AheadOK => NoFutureGivenUp
  BY DEF AheadOK
<1> QED BY <1>1, <1>2, <1>3, <1>4, PTL DEF PunctualSpec
=============================================================================
