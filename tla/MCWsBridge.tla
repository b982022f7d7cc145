----------------------------- MODULE MCWsBridge -------------------------------
(* Each end sends up to three frames, connections have room for two.          *)
EXTENDS WsBridge
=============================================================================
