----------------------------- MODULE MCWebServer -----------------------------
(***************************************************************************)
(* One place on the list and three assets: a1 has the better rank, a2 an   *)
(* aggregate that is never updated, a3 is stored but not listed by the     *)
(* source.  Two clients of the machine itself, a page and a script: from   *)
(* elsewhere the guard admits nothing.                                     *)
(***************************************************************************)
EXTENDS WebServer

CONSTANTS a1, a2, a3, c1, c2

TwoListed == <<a2, a1>>
Ranks == [a \in Assets |-> CASE a = a1 -> 1 [] a = a2 -> 2 [] OTHER -> 3]
Places == [c \in Clients |-> Loopback]
Origins == [c \in Clients |-> IF c = c1 THEN "same" ELSE "none"]
NoTokens == [c \in Clients |-> Null]
=============================================================================
