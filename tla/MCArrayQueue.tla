--------------------------- MODULE MCArrayQueue ---------------------------
(* Instantiates ArrayQueue for TLC: two slots and four key presses, so   *)
(* the queue is full with a pop in flight.                                *)
EXTENDS ArrayQueue
=============================================================================
