---------------------------- MODULE MCOtaSystem ----------------------------
(* Two applications of two and three blocks, flash sectors of two blocks.  *)
EXTENDS OtaSystem

CONSTANTS imgA, imgB

MCTotal    == [img \in Images |-> IF img = imgA THEN 3 ELSE 4]
MCHeaderId == [img \in Images |-> START_UP_FLAG]
=============================================================================
