------------------------------ MODULE MCTerminal ------------------------------
(* Terminal with queues short enough to fill between two steps. *)
EXTENDS Terminal
=============================================================================
