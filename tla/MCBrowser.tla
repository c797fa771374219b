----------------------------- MODULE MCBrowser ------------------------------
(***************************************************************************)
(* Locations with each kind of view: one that follows signals and has a    *)
(* part, one that follows them and renders again, one that does neither.   *)
(***************************************************************************)
EXTENDS Browser

CONSTANTS o1, o2
=============================================================================
