---------------------------- MODULE MCOtaParser ----------------------------
(* A small flash for OtaParser: sectors of two blocks, an application area *)
(* of two sectors and a second slot behind it.                             *)
EXTENDS OtaParser

CONSTANTS imgA, imgX, idX

\* imgA boots and reaches into the second sector; imgX is a file with another
\* id for the second slot.
MCTotal    == [img \in Images |-> IF img = imgA THEN 4 ELSE 2]
MCHeaderId == [img \in Images |-> IF img = imgA THEN START_UP_FLAG ELSE idX]
\* Below the application (refused), inside it, behind it, and the last address of
\* all, where a sum wraps (9 = AddrMod - AppAddr - 1); 0 is the default.
MCOffsets  == {-2, 2, 4, 9}
\* Only the start of the application and the slot behind it.
MCSlots    == {-2, 0, 4}
=============================================================================
