----------------------------- MODULE MCMsgProxy -----------------------------
(* MsgProxy on two sockets and two messages: a socket number can be reused
   while the sender of its old connection is still there. *)
EXTENDS MsgProxy
=============================================================================
