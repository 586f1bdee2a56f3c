-------------------------- MODULE MCBlockingQueue --------------------------
(* BlockingQueue on small sets of threads: two that push, as the console and
   the web page do, one that pops and one that calls front. *)
EXTENDS BlockingQueue
=============================================================================
