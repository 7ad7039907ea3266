-------------------------- MODULE PlaybackPunctual --------------------------
(* The playback stream under threads that keep up with the bus, with the    *)
(* way tick_thread (src/driver/UA4FX_USB.c:495-545) estimates the current   *)
(* frame: is the fill lead enough then?                                     *)
EXTENDS Playback

CONSTANTS
  REF_ERROR,         \* of the reference, the last frame stamp, in bus frames
  CALLBACK_LATENCY   \* bus frames a completion callback may be late
ASSUME PunctualAssumption ==
  /\ CALLBACK_LATENCY \in Nat /\ REF_ERROR \in Nat
  /\ ESTIMATE_ERROR >= REF_ERROR + 1

VARIABLES
  lastCurrent,  \* the estimate of the tick before, 0 at the start
  drift,        \* driftSign * driftCount: ticks the reference disagreed
  ticked        \* the tick thread had a turn since the bus frame began
allVars == <<vars, lastCurrent, drift, ticked>>

(* The estimate follows its own cadence, one frame for each tick, unless    *)
(* the reference disagrees by one frame in three ticks or by more at once.  *)
(* It is thus within a frame of the reference, as ESTIMATE_ERROR allows.    *)
Estimate_cadence(refCurrent) ==
  /\ current' = IF lastCurrent = 0 THEN refCurrent ELSE lastCurrent + 1
  /\ UNCHANGED drift
Estimate(refCurrent) ==
  LET d == refCurrent - (lastCurrent + 1)
      n == IF drift * d > 0 THEN drift + d ELSE d
      persists == n \in {-3, 3}
  IN  \/ /\ lastCurrent = 0 \/ d \notin -1 .. 1
         /\ current' = refCurrent /\ UNCHANGED drift
      \/ /\ lastCurrent # 0 /\ d \in -1 .. 1
         /\ current' = IF persists THEN refCurrent ELSE lastCurrent + 1
         /\ drift' = IF persists THEN 0 ELSE n

(* The tick thread has its turn in every bus frame (it is a real-time      *)
(* thread that wakes once a millisecond, lines 529-543), or more than one.  *)
(* The USB thread is done with a callback within the frame, and begins it   *)
(* at most CALLBACK_LATENCY frames late.                                    *)
OnTime == /\ usb \in {"off", "loop"}
          /\ tick = "none" \/ (tick = "sleep" /\ ticked)
          /\ \A b \in Slots : Due(b) => bus < frame[b] + NF + CALLBACK_LATENCY

PunctualInit == Init /\ lastCurrent = 0 /\ drift = 0 /\ ticked = FALSE
PunctualNext ==
  \/ /\ TickWake /\ \E e \in -REF_ERROR .. REF_ERROR : Estimate(bus + e)
     /\ lastCurrent' = current' /\ UNCHANGED ticked
  \/ /\ TickSleep /\ ticked' = TRUE /\ UNCHANGED <<lastCurrent, drift>>
  \/ /\ BusFrame /\ OnTime /\ ticked' = FALSE /\ UNCHANGED <<lastCurrent, drift>>
  \/ /\ \/ Fetch \/ job_start \/ Started \/ Fill \/ Deliver \/ Harvest
        \/ TickLock \/ TickPoll \/ BeginFill \/ TickFill
     /\ UNCHANGED <<lastCurrent, drift, ticked>>
PunctualSpec == PunctualInit /\ [][PunctualNext]_allVars

(* As long as the threads are punctual, every frame is filled before the    *)
(* HC fetches it, although the estimate of the current frame may be off by  *)
(* what the reference and the cadence allow, and callbacks are late by what *)
(* the depth of the queue allows.                                           *)
InTime ==
  [][\A b \in Slots, i \in Offsets :
       fl[b][i] = "pending" /\ fl'[b][i] = "fetched" => done[b][i]]_vars

(* fill_locked gives up what lies before the estimated frame.  That is never *)
(* a frame further ahead of the bus than the reference errs, also when ticks *)
(* come in quick succession: the cadence adds one frame, but does not add up.*)
NoFutureGivenUp == \A f \in late : f < bus + 1 + REF_ERROR
=============================================================================
