------------------------------ MODULE MCTagApp ------------------------------
(* TagApp with two keys, a log of two messages and a melody of a note and a rest. *)
EXTENDS TagApp

CONSTANTS a1, a2, b1, b2

MCKeys   == {<<a1, a2>>, <<b1, b2>>}
MCMelody == <<TRUE, FALSE>>
=============================================================================
