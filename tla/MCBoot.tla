------------------------------- MODULE MCBoot -------------------------------
(* Boot with enough keys for the cable, a command, another in the next start or
   after an escape, and a start in which UART and network both are early. *)
EXTENDS Boot
=============================================================================
