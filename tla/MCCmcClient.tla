---------------------------- MODULE MCCmcClient ----------------------------
(***************************************************************************)
(* A tick stands for 20 s: the window is 3 ticks, the ttl of 55 s covers 2, *)
(* and a back-off is shorter than a tick or (Retry-After) as long as one.  *)
(***************************************************************************)
EXTENDS CmcClient

CONSTANTS quotes, info

ShortAndLong == {0, 1}
=============================================================================
