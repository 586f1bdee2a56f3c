-------------------------- MODULE MCNetworkManager --------------------------
(* NetworkManager with one network: what the access point does is not tied to
   its name. *)
EXTENDS NetworkManager
=============================================================================
