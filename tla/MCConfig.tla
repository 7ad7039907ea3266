------------------------------ MODULE MCConfig ------------------------------
EXTENDS Config

(* The control app's preset Safe, a client with a geometry out of range,    *)
(* and macOS moving a volume slider to its end.                             *)
MCRequests ==
  {[framesPerXfer |-> 1, xfersInFlight |-> 6, xfersInFlightOut |-> 8, outputLeadMs |-> 5],
   [framesPerXfer |-> 9, outputLeadMs |-> 70, mute |-> 1],
   [vol |-> -70]}

(* Nothing stored, and what version 0.2 stored: no split depths.            *)
MCLegacy == {[k \in {} |-> 0], [framesPerXfer |-> 1, xfersInFlight |-> 3, trim |-> 30]}
=============================================================================
