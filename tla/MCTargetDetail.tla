---------------------------- MODULE MCTargetDetail ----------------------------
(* "pad" is what the user types where the server stores "b": a price of    *)
(* "1.", a name with a blank at its end.                                   *)
EXTENDS TargetDetail

MCStored(o) == IF o = "pad" THEN "b" ELSE o
===============================================================================
