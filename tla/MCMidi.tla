------------------------------- MODULE MCMidi -------------------------------
EXTENDS Midi

(* Two notes, the second in running status, a clock and a song select; a    *)
(* program change and a tune request; clocks; system exclusives in one      *)
(* packet and in several.                                                   *)
Tell(at, b, next) == [at |-> at, bytes |-> b, says |-> b, next |-> next]
MCPackets ==
  {<<Tell(0, <<\h90, 60, 64>>, \h90),
     [at |-> \h90, bytes |-> <<62, 65>>, says |-> <<\h90, 62, 65>>, next |-> \h90],
     Tell(\h90, <<\hF8>>, \h90), Tell(\h90, <<\hF3, 1>>, 0)>>,
   <<Tell(0, <<\hC0, 5>>, \hC0), Tell(\hC0, <<\hF6>>, 0)>>,
   <<Tell(0, <<\hF8>>, 0)>>, <<Tell(\hF0, <<\hF8>>, \hF0)>>,
   <<Tell(0, <<\hF0>>, \hF0), Tell(\hF0, <<6>>, \hF0), Tell(\hF0, <<\hF7>>, 0)>>,
   <<Tell(0, <<\hF0>>, \hF0), Tell(\hF0, <<1>>, \hF0)>>,
   <<Tell(\hF0, <<2>>, \hF0), Tell(\hF0, <<\hF8>>, \hF0), Tell(\hF0, <<3>>, \hF0)>>,
   <<Tell(\hF0, <<4>>, \hF0), Tell(\hF0, <<\hF7>>, 0)>>}
=============================================================================
