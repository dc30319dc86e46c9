----------------------------- MODULE MCFlashEep -----------------------------
(* The version object (one word) with the device name (two words, or one   *)
(* where names change their length) and the bind key, in banks of two or   *)
(* three records.  Any two ids share a bit.                                *)
EXTENDS FlashEep

CONSTANTS app, app2, short, name1, name2, key1, key2

MCVer == {"b0", "b1"}
MCDvn == {"b1", "b2"}
MCKey == {"b0", "b2"}

WithName    == {MCVer, MCDvn}
WithNameKey == {MCVer, MCDvn, MCKey}

Names(id, ns) ==
  CASE id = MCVer -> {app, app2} [] id = MCDvn -> ns [] OTHER -> {key1, key2}
FixedValues   == [id \in Ids |-> Names(id, {name1, name2})]
ResizedValues == [id \in Ids |-> Names(id, {short, name1})]

MCSize == [v \in AllValues |-> IF v \in {name1, name2} THEN 2 ELSE 1]
=============================================================================
