------------------------------ MODULE MCTransmit ------------------------------
(* Transmit with two texts for a queue of one, reads of two bytes, two changes
   of the baud rate and three rates, one of which the driver refuses. *)
EXTENDS Transmit
=============================================================================
