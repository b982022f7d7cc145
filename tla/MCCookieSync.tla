---------------------------- MODULE MCCookieSync -----------------------------
(* Instances of CookieSync.                                                 *)
EXTENDS CookieSync

CONSTANTS a, b, c1, c2
=============================================================================
