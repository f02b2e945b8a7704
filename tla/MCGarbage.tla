------------------------------ MODULE MCGarbage ------------------------------
(* Two fields that play to the end, and a third that plays for a tick.     *)
EXTENDS Garbage
ThirdIsShort == tick[3] <= 1
=============================================================================
