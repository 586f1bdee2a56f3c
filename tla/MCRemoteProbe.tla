---------------------------- MODULE MCRemoteProbe ----------------------------
(* RemoteProbe with a memory of one page and one word more, so that blocks
   cross a page, the address wraps, and the last word has no successor. *)
EXTENDS RemoteProbe
=============================================================================
