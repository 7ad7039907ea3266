-------------------------- MODULE OrderedDelivery --------------------------
(***************************************************************************)
(* What a capture stream promises its reader, whatever transfers, threads  *)
(* and locks are behind it: the frames the bus delivers reach the log one  *)
(* by one and oldest first, and as long as the stream is up none of them   *)
(* is dropped.  Only a stream that is down may drop what is pending.       *)
(***************************************************************************)
EXTENDS Naturals, Sequences

VARIABLES
  clock,     \* the bus frame in progress
  up,        \* the device is there and the stream runs
  pending,   \* frames delivered and not yet logged
  log        \* frames logged since the stream came up

vars == <<clock, up, pending, log>>

Init == clock \in Nat /\ up = FALSE /\ pending = {} /\ log = <<>>

(* The frame in progress is over; it may have brought audio.               *)
Deliver == /\ clock' = clock + 1
           /\ pending' \in {pending, pending \cup {clock}}
           /\ UNCHANGED <<up, log>>

(* The oldest pending frame goes to the log.                               *)
Take == \E f \in pending :
          /\ \A g \in pending : f <= g
          /\ log' = Append(log, f) /\ pending' = pending \ {f}
          /\ UNCHANGED <<clock, up>>

GoUp == ~up /\ up' = TRUE /\ pending' = {} /\ log' = <<>> /\ UNCHANGED clock
GoDown == up /\ up' = FALSE /\ UNCHANGED <<clock, pending, log>>

Drop == ~up /\ pending' \subseteq pending /\ UNCHANGED <<clock, up, log>>

Next == Deliver \/ Take \/ GoUp \/ GoDown \/ Drop
Spec == Init /\ [][Next]_vars
=============================================================================
